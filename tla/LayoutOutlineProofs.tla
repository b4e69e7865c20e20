------------------------ MODULE LayoutOutlineProofs ------------------------
(***************************************************************************)
(* What a layout looks like after a seat.create message and after a        *)
(* restore, for every value of the constants.  Rows get new identifiers    *)
(* whenever they are written, so the layouts are compared by their         *)
(* outlines: a map of identifiers that keeps every path keeps the outline  *)
(* (OutlineKept).                                                          *)
(*                                                                         *)
(* Three facts make the outlines last: a call that overlaps with no other  *)
(* knows what the layout is at each of its statements (KnowsFit), a        *)
(* version whose outline is known can be restored to it (VersionsFit), and *)
(* so can what a restore has read (RestoreFits), also when the version is  *)
(* deleted meanwhile.                                                      *)
(***************************************************************************)
EXTENDS LayoutHistoryProofs
-----------------------------------------------------------------------------
(* Outlines *)

\* The name of row j, for a row that belongs to it.
Caption(d, j) == IF j \in DOMAIN d THEN d[j].name ELSE Name(0)

LEMMA PathIs ==
    ASSUME NEW d, NEW i
    PROVE  Path(d, i) = <<d[i].kind, Caption(d, d[i].section), Caption(d, d[i].table),
                          d[i].name, d[i].place>>
BY DEF Path, Caption

\* As many rows as there are identifiers for them.
LEMMA CountKept ==
    ASSUME NEW X, IsFiniteSet(X), NEW m, Apart(m, X)
    PROVE  LET Y == {m[i] : i \in X} IN IsFiniteSet(Y) /\ Cardinality(Y) = Cardinality(X)
<1> DEFINE Y == {m[i] : i \in X}
           f == [i \in X |-> m[i]]
<1>1. f \in [X -> Y] /\ (\A a, b \in X : f[a] = f[b] => a = b) /\ (\A y \in Y : \E i \in X : f[i] = y)
  BY DEF Apart
<1> HIDE DEF f, Y
<1>2. f \in Bijection(X, Y)
  BY <1>1 DEF Bijection, Injection, Surjection, IsInjective
<1>3. ExistsBijection(X, Y)
  BY <1>2 DEF ExistsBijection
<1>4. IsFiniteSet(Y) /\ Cardinality(Y) = Cardinality(X)
  BY <1>3, FS_Bijection
<1> QED BY <1>4 DEF Y

SamePaths(N, d, X, m) == \A i \in X : Path(N, m[i]) = Path(d, i)

LEMMA OutlineKept ==
    ASSUME NEW d, NEW X, IsFiniteSet(X), NEW N, NEW m, Apart(m, X), SamePaths(N, d, X, m)
    PROVE  Outline(N, {m[i] : i \in X}) = Outline(d, X)
<1> DEFINE Y == {m[i] : i \in X}
           P == {Path(d, i) : i \in X}
           R == {Path(N, n) : n \in Y}
           S(q) == {i \in X : Path(d, i) = q}
           T(q) == {n \in Y : Path(N, n) = q}
<1>1. R = P
  BY DEF SamePaths
<1>2. ASSUME NEW q \in P
      PROVE  Cardinality(T(q)) = Cardinality(S(q))
  <2>1. T(q) = {m[i] : i \in S(q)}
    BY DEF SamePaths
  <2>2. IsFiniteSet(S(q))
    BY FS_Subset
  <2>3. Apart(m, S(q))
    BY DEF Apart
  <2> DEFINE U == S(q)
  <2> HIDE DEF S
  <2>4. Cardinality({m[i] : i \in U}) = Cardinality(U)
    BY <2>2, <2>3, CountKept
  <2> QED BY <2>1, <2>4
<1>3. Outline(N, Y) = [q \in R |-> Cardinality(T(q))]
  BY DEF Outline
<1>4. Outline(d, X) = [q \in P |-> Cardinality(S(q))]
  BY DEF Outline
<1> HIDE DEF S, T, P, R
<1> QED BY <1>1, <1>2, <1>3, <1>4

\* N are the rows X of d, renumbered by m.
Renamed(N, d, X, m) ==
    /\ DOMAIN N = {m[i] : i \in X}
    /\ \A i \in X : /\ N[m[i]].kind = d[i].kind
                     /\ N[m[i]].name = d[i].name /\ N[m[i]].place = d[i].place
                     /\ N[m[i]].section = To(m, d[i].section)
                     /\ N[m[i]].table = To(m, d[i].table)

\* Renumbered rows look as before, if what they belong to is renumbered with them.
LEMMA RenamedOutline ==
    ASSUME NEW d, 0 \notin DOMAIN d, NEW X \in SUBSET DOMAIN d, IsFiniteSet(X),
           \A i \in X : d[i].section \in X \cup {0} /\ d[i].table \in X \cup {0},
           NEW m, DOMAIN m = X, Apart(m, X), \A i \in X : m[i] # 0,
           NEW N, Renamed(N, d, X, m)
    PROVE  Outline(N, DOMAIN N) = Outline(d, X)
<1>1. \A i \in X : Caption(N, To(m, i)) = Caption(d, i)
  BY DEF Caption, To, Renamed
<1>2. Caption(N, To(m, 0)) = Caption(d, 0)
  <2>1. 0 \notin DOMAIN N
    BY DEF Renamed
  <2> QED BY <2>1 DEF Caption, To
<1>3. ASSUME NEW i \in X
      PROVE  Path(N, m[i]) = Path(d, i)
  <2>1. /\ N[m[i]].kind = d[i].kind /\ N[m[i]].name = d[i].name /\ N[m[i]].place = d[i].place
        /\ N[m[i]].section = To(m, d[i].section) /\ N[m[i]].table = To(m, d[i].table)
    BY DEF Renamed
  <2> QED BY <1>1, <1>2, <2>1, PathIs
<1>4. SamePaths(N, d, X, m)
  BY <1>3 DEF SamePaths
<1>5. DOMAIN N = {m[i] : i \in X}
  BY DEF Renamed
<1> QED BY <1>4, <1>5, OutlineKept

\* Drawings with the same rows have the same outline.
LEMMA OutlineOfSame ==
    ASSUME NEW d, NEW e, DOMAIN d = DOMAIN e, \A i \in DOMAIN d : d[i] = e[i]
    PROVE  /\ Tabled(d) = Tabled(e)
           /\ Restorable(d) = Restorable(e)
           /\ Outline(d, Tabled(d)) = Outline(e, Tabled(e))
           /\ Outline(d, DOMAIN d) = Outline(e, DOMAIN e)
<1>1. Tabled(d) = Tabled(e) /\ \A i \in Tabled(d) : i \in DOMAIN d
  BY DEF Tabled
<1>2. \A kind : Of(kind, d) = Of(kind, e) /\ \A i \in Of(kind, d) : i \in DOMAIN d
  BY DEF Of
<1>3. Restorable(d) = Restorable(e)
  <2> DEFINE t(c) == {i \in Of("table", c) : c[i].section \in Of("section", c)}
             s(c) == {i \in Of("seat", c) : c[i].section \in Of("section", c) /\ c[i].table \in t(c)}
  <2>1. t(d) = t(e)
    BY <1>2
  <2>2. s(d) = s(e)
    BY <1>2, <2>1
  <2>3. Restorable(d) = Of("section", d) \cup t(d) \cup s(d)
    BY DEF Restorable
  <2>4. Restorable(e) = Of("section", e) \cup t(e) \cup s(e)
    BY DEF Restorable
  <2> QED BY <1>2, <2>1, <2>2, <2>3, <2>4
<1>4. \A j : Caption(d, j) = Caption(e, j)
  BY DEF Caption
<1>5. \A i \in DOMAIN d : Path(d, i) = Path(e, i)
  BY <1>4, PathIs
<1>6. ASSUME NEW X \in SUBSET DOMAIN d
      PROVE  Outline(d, X) = Outline(e, X)
  <2>1. {Path(d, i) : i \in X} = {Path(e, i) : i \in X}
    BY <1>5
  <2>2. \A q : {i \in X : Path(d, i) = q} = {i \in X : Path(e, i) = q}
    BY <1>5
  <2> QED BY <2>1, <2>2 DEF Outline
<1> QED BY <1>1, <1>3, <1>6
-----------------------------------------------------------------------------
(* Versions *)

\* All that is in a layout can be restored, but for the seats at no table.
LEMMA RowsRestorable ==
    ASSUME NEW G, LayoutInv(G)
    PROVE  Restorable(rows) = Tabled(rows)
<1>1. \A i \in DOMAIN rows : rows[i].kind \in {"section", "table", "seat"}
  BY DEF LayoutInv, Akin, Lineage, Fits
<1>2. \A i \in DOMAIN rows :
        /\ rows[i].kind # "section" => rows[i].section \in Of("section", rows)
        /\ rows[i].kind = "seat" /\ rows[i].table # 0 => rows[i].table \in Of("table", rows)
  BY TreeOfLineage DEF TreeIsSound
<1>3. 0 \notin DOMAIN rows
  BY RowsNumbered
<1>4. \A t \in Of("table", rows) : t \in DOMAIN rows /\ rows[t].section \in Of("section", rows)
  BY <1>2 DEF Of
<1> QED BY <1>1, <1>2, <1>3, <1>4 DEF Restorable, Tabled, Of

\* A restore makes rows that look as what it restores.
LEMMA RestoredOutline ==
    ASSUME NEW G, LayoutInv(G), NEW s, SnapInv(s, G),
           NEW X, X = Restorable(s), NEW N, N = Drawn(s, X, Fresh(X))
    PROVE  Outline(N, DOMAIN N) = Outline(s, X)
<1> DEFINE id == Fresh(X)
<1>1. Lineage(G) /\ next \in Nat /\ DOMAIN G \subseteq 1 .. next
  BY DEF LayoutInv
<1>2. /\ X \subseteq DOMAIN s /\ X \in SUBSET (Nat \ {0})
      /\ \A i \in X :
            /\ i \in DOMAIN s /\ IsRow(s[i])
            /\ \/ s[i].kind = "section" /\ s[i].section = 0 /\ s[i].table = 0
               \/ /\ s[i].kind = "table" /\ s[i].section \in Of("section", s) \cap X
                  /\ s[i].table = 0
               \/ /\ s[i].kind = "seat" /\ s[i].section \in Of("section", s) \cap X
                  /\ s[i].table \in Of("table", s) \cap X
  BY <1>1, RestorableRows
<1>3. IsFiniteSet(X)
  <2>1. X \subseteq 1 .. next
    BY <1>1, <1>2 DEF SnapInv, Akin
  <2>2. IsFiniteSet(1 .. next)
    BY <1>1, FS_Interval
  <2> QED BY <2>1, <2>2, FS_Subset
<1>4. /\ DOMAIN id = X
      /\ \A i \in X : id[i] \in Nat \ {0}
      /\ \A i, j \in X : id[i] = id[j] => i = j
  BY <1>2, <1>3, FreshRows
<1> HIDE DEF id
<1>5. AreRows(s, X) /\ Apart(id, X)
  BY <1>2, <1>4 DEF AreRows, Apart
<1>6. Redrawn(N, s, X, id)
  BY <1>5, RowsDrawn DEF id
<1>7. Renamed(N, s, X, id)
  BY <1>6 DEF Redrawn, Renamed
<1>8. 0 \notin DOMAIN s
  BY <1>1 DEF SnapInv, Akin
<1>9. \A i \in X : s[i].section \in X \cup {0} /\ s[i].table \in X \cup {0}
  BY <1>2
<1> QED BY <1>2, <1>3, <1>4, <1>5, <1>7, <1>8, <1>9, RenamedOutline
-----------------------------------------------------------------------------
(* Plans *)

\* A plan has the seats it was made for, and its tables have different names.
LEMMA PlanRows ==
    ASSUME NEW n \in Nat \ {0}
    PROVE  LET d == Plan(n) IN
           /\ Of("seat", d) = 1 .. n
           /\ \A i, j \in Of("table", d) : d[i].name = d[j].name => i = j
<1> DEFINE tables   == (n + SeatsPerTable - 1) \div SeatsPerTable
           sections == (tables + TablesPerSection - 1) \div TablesPerSection
           SectionOf(t) == n + tables + ((t - 1) \div TablesPerSection) + 1
           TableOf(i) == ((i - 1) \div SeatsPerTable) + 1
           k == n + tables + sections
           d == Plan(n)
<1>1. tables \in Nat
  BY LayoutAssumption, Groups1
<1>2. sections \in Nat
  BY LayoutAssumption, Groups1
<1> DEFINE seat(i) == Row("seat", SectionOf(TableOf(i)), n + TableOf(i),
                          Name(((i - 1) % SeatsPerTable) + 1), 0)
           table(i) == Row("table", SectionOf(i - n), 0, Name(i - n), 0)
           section(i) == Row("section", 0, 0, Name(i - n - tables), 0)
<1>3. d = [i \in 1 .. k |-> IF i <= n THEN seat(i) ELSE IF i <= n + tables THEN table(i) ELSE section(i)]
  BY DEF Plan
<1>4. /\ \A i : seat(i).kind = "seat"
      /\ \A i : table(i).kind = "table" /\ table(i).name = Name(i - n)
      /\ \A i : section(i).kind = "section"
  BY DEF Row
<1> HIDE DEF tables, sections, d, seat, table, section
<1>5. ASSUME NEW i \in DOMAIN d
      PROVE  /\ i \in Nat
             /\ d[i].kind = "seat" <=> i \in 1 .. n
             /\ d[i].kind = "table" => d[i].name = Name(i - n)
  <2>1. i \in 1 .. k /\ i \in Nat
    BY <1>1, <1>2, <1>3
  <2>2. CASE i <= n
    BY <1>3, <1>4, <2>1, <2>2
  <2>3. CASE ~(i <= n) /\ i <= n + tables
    BY <1>3, <1>4, <2>1, <2>3
  <2>4. CASE ~(i <= n) /\ ~(i <= n + tables)
    BY <1>3, <1>4, <2>1, <2>4
  <2> QED BY <2>2, <2>3, <2>4
<1>6. \A i \in 1 .. n : i \in DOMAIN d
  BY <1>1, <1>2, <1>3
<1>7. Of("seat", d) = 1 .. n
  BY <1>5, <1>6 DEF Of
<1>8. ASSUME NEW i \in Of("table", d), NEW j \in Of("table", d), d[i].name = d[j].name
      PROVE  i = j
  <2>1. Name(i - n) = Name(j - n) /\ i \in Nat /\ j \in Nat
    BY <1>5, <1>8 DEF Of
  <2>2. i - n = j - n
    BY <2>1 DEF Name
  <2> QED BY <2>1, <2>2
<1> QED BY <1>7, <1>8 DEF d
-----------------------------------------------------------------------------
(* What seat.create makes of an empty layout *)

\* The layout r is the plan of a seat.create message.
AsPlanned(r) ==
    LET d == Plan(MaxSeats) IN /\ Outline(r, DOMAIN r) = Outline(d, DOMAIN d)
                               /\ Cardinality(Of("seat", r)) = MaxSeats

\* A geometry whose tables and sections have different names, and whose seats are in the
\* section of their table, is written as it is when there is nothing yet.
Written(d) ==
    /\ IsGeometry(d)
    /\ \A i, j \in Of("section", d) : d[i].name = d[j].name => i = j
    /\ \A i, j \in Of("table", d) : d[i].name = d[j].name => i = j
    /\ \A i \in Of("seat", d) : d[i].section = d[d[i].table].section

LEMMA PlanIsWritten == Written(Plan(MaxSeats))
<1> DEFINE d == Plan(MaxSeats)
<1>1. /\ IsGeometry(d) /\ Allowed(d)
      /\ \A i \in DOMAIN d : d[i].kind = "seat" => d[i].section = d[d[i].table].section
      /\ \A i, j \in Of("table", d) : d[i].name = d[j].name => i = j
  BY LayoutAssumption, PlanIsGeometry, PlanRows
<1> HIDE DEF d
<1>2. \A i \in Of("section", d) : i \in DOMAIN d /\ d[i].section = 0 /\ d[i].kind = "section"
  BY <1>1, GeometryRows DEF Of
<1>3. \A i, j \in Of("section", d) : d[i].name = d[j].name => i = j
  BY <1>1, <1>2 DEF Allowed
<1>4. Written(d)
  BY <1>1, <1>3 DEF Written, Of
<1> QED BY <1>4 DEF d

LEMMA WriteRenames ==
    ASSUME NEW G, LayoutInv(G), NEW p, DOMAIN rows = {}, Written(input[p]),
           WriteGeometry(p), ~Throw(p)
    PROVE  Renamed(rows', input[p], DOMAIN input[p], Fresh(DOMAIN input[p]))
<1> DEFINE d == input[p]
           id == Fresh(DOMAIN d)
           Named1(s, r) == {i \in Of("section", r) : r[i].name = d[s].name}
           new == {s \in Of("section", d) :
                    /\ Named1(s, rows) = {}
                    /\ \A t \in Of("section", d) : d[t].name = d[s].name => s <= t}
           N1 == Drawn(d, new, id)
           r1 == Join(rows, N1)
           section == [s \in Of("section", d) |-> CHOOSE i \in Named1(s, r1) : TRUE]
           tables == Of("table", d)
           m2 == [i \in DOMAIN d |-> IF i \in tables THEN id[i]
                                     ELSE IF i \in DOMAIN section THEN section[i] ELSE i]
           N2 == Drawn(d, tables, m2)
           r2 == Join(r1, N2)
           names == {d[t].name : t \in tables}
<1>1. /\ IsFiniteSet(DOMAIN d) /\ DOMAIN d \in SUBSET (Nat \ {0}) /\ 0 \notin DOMAIN d
      /\ \A i \in DOMAIN d : IsRow(d[i])
      /\ \A i \in Of("section", d) : i \in DOMAIN d /\ d[i].section = 0 /\ d[i].table = 0
      /\ \A i \in Of("table", d) : /\ i \in DOMAIN d /\ d[i].table = 0
                                   /\ d[i].section \in Of("section", d)
      /\ \A i \in Of("seat", d) : i \in DOMAIN d /\ d[i].table \in Of("table", d)
  BY GeometryRows DEF Written
<1>2. /\ DOMAIN id = DOMAIN d
      /\ \A i \in DOMAIN d : id[i] \in Nat \ {0}
      /\ \A i, j \in DOMAIN d : id[i] = id[j] => i = j
  <2> HIDE DEF d
  <2> QED BY <1>1, FreshRows
<1>3. /\ \A i, j \in Of("section", d) : d[i].name = d[j].name => i = j
      /\ \A i, j \in Of("table", d) : d[i].name = d[j].name => i = j
      /\ \A i \in Of("seat", d) : d[i].section = d[d[i].table].section
      /\ \A i \in DOMAIN d : d[i].kind \in {"section", "table", "seat"}
  BY DEF Written, IsGeometry
<1>4. \E table \in [names -> Of("table", r2)] :
            /\ \A n \in names : r2[table[n]].name = n
            /\ LET At(i) == table[d[d[i].table].name]
                   seats == [n \in {id[i] : i \in Of("seat", d)} |->
                               LET i == CHOOSE i \in Of("seat", d) : id[i] = n
                               IN  [d[i] EXCEPT !.table = At(i), !.section = r2[At(i)].section]]
               IN  rows' = Join(r2, seats)
  BY DEF WriteGeometry, SectionOfSeat, Put
<1> HIDE DEF d, id
\* The sections.
<1>5. new = Of("section", d)
  <2>1. \A s : Named1(s, rows) = {}
    BY DEF Of
  <2>2. \A s, t \in Of("section", d) : d[t].name = d[s].name => s <= t
    <3>1. \A s \in Of("section", d) : s \in Nat
      BY <1>1
    <3> QED BY <1>3, <3>1
  <2> QED BY <2>1, <2>2
<1> HIDE DEF N1, new
<1>6. Redrawn(N1, d, new, id)
  <2>1. AreRows(d, new) /\ Apart(id, new)
    BY <1>1, <1>2, <1>5 DEF AreRows, Apart
  <2> QED BY <2>1, RowsDrawn DEF N1
<1>7. To(id, 0) = 0 /\ \A i \in DOMAIN d : To(id, i) = id[i]
  BY <1>1, <1>2 DEF To
<1>8. /\ DOMAIN r1 = {id[s] : s \in Of("section", d)}
      /\ \A s \in Of("section", d) :
            /\ r1[id[s]].kind = "section" /\ r1[id[s]].section = 0 /\ r1[id[s]].table = 0
            /\ r1[id[s]].name = d[s].name /\ r1[id[s]].place = d[s].place
  <2>1. DOMAIN r1 = DOMAIN N1 /\ \A i \in DOMAIN r1 : r1[i] = N1[i]
    BY DEF Join
  <2>2. \A s \in Of("section", d) : d[s].kind = "section" /\ id[s] \in DOMAIN N1
    BY <1>5, <1>6 DEF Of, Redrawn
  <2> HIDE DEF r1
  <2>3. DOMAIN r1 = {id[s] : s \in Of("section", d)}
    BY <1>5, <1>6, <2>1 DEF Redrawn
  <2>4. ASSUME NEW s \in Of("section", d)
        PROVE  /\ r1[id[s]].kind = "section" /\ r1[id[s]].section = 0 /\ r1[id[s]].table = 0
               /\ r1[id[s]].name = d[s].name /\ r1[id[s]].place = d[s].place
    <3>1. r1[id[s]] = N1[id[s]] /\ d[s].kind = "section" /\ d[s].section = 0 /\ d[s].table = 0
      BY <1>1, <2>1, <2>2
    <3> QED BY <1>5, <1>6, <1>7, <3>1 DEF Redrawn
  <2> QED BY <2>3, <2>4
<1> HIDE DEF r1
<1>9. \A s \in Of("section", d) : section[s] = id[s]
  <2> SUFFICES ASSUME NEW s \in Of("section", d)
               PROVE  section[s] = id[s]
    OBVIOUS
  <2>1. Named1(s, r1) = {id[s]}
    <3>1. id[s] \in Named1(s, r1)
      BY <1>8 DEF Of
    <3>2. \A i \in Named1(s, r1) : i = id[s]
      BY <1>3, <1>8 DEF Of
    <3> QED BY <3>1, <3>2
  <2> QED BY <2>1
<1>10. DOMAIN section = Of("section", d)
  OBVIOUS
<1> HIDE DEF section
\* The tables.
<1>11. /\ \A i \in tables : m2[i] = id[i]
       /\ \A i \in Of("section", d) : To(m2, i) = id[i]
       /\ To(m2, 0) = 0
  BY <1>1, <1>9, <1>10 DEF Of, To
<1> HIDE DEF N2, m2
<1>12. Redrawn(N2, d, tables, m2)
  <2>1. AreRows(d, tables) /\ Apart(m2, tables)
    BY <1>1, <1>2, <1>11 DEF AreRows, Apart
  <2> QED BY <2>1, RowsDrawn DEF N2
<1>13. /\ DOMAIN r2 = {id[i] : i \in Of("section", d) \cup tables}
       /\ \A i \in Of("section", d) \cup tables :
            /\ r2[id[i]].kind = d[i].kind
            /\ r2[id[i]].section = To(id, d[i].section) /\ r2[id[i]].table = To(id, d[i].table)
            /\ r2[id[i]].name = d[i].name /\ r2[id[i]].place = d[i].place
  <2>1. /\ DOMAIN r2 = DOMAIN r1 \cup DOMAIN N2
        /\ \A i \in DOMAIN r1 : r2[i] = r1[i]
        /\ \A i \in DOMAIN N2 : i \notin DOMAIN r1 => r2[i] = N2[i]
    BY DEF Join
  <2>2. DOMAIN N2 = {id[i] : i \in tables}
    BY <1>11, <1>12 DEF Redrawn
  <2>3. \A t \in tables : id[t] \notin DOMAIN r1
    BY <1>1, <1>2, <1>8 DEF Of
  <2> HIDE DEF r2
  <2>4. ASSUME NEW i \in Of("section", d)
        PROVE  /\ r2[id[i]].kind = d[i].kind
               /\ r2[id[i]].section = To(id, d[i].section) /\ r2[id[i]].table = To(id, d[i].table)
               /\ r2[id[i]].name = d[i].name /\ r2[id[i]].place = d[i].place
    <3>1. d[i].kind = "section" /\ d[i].section = 0 /\ d[i].table = 0
      BY <1>1 DEF Of
    <3> QED BY <1>7, <1>8, <2>1, <3>1
  <2>5. ASSUME NEW i \in tables
        PROVE  /\ r2[id[i]].kind = d[i].kind
               /\ r2[id[i]].section = To(id, d[i].section) /\ r2[id[i]].table = To(id, d[i].table)
               /\ r2[id[i]].name = d[i].name /\ r2[id[i]].place = d[i].place
    <3>1. r2[id[i]] = N2[id[i]]
      BY <2>1, <2>2, <2>3
    <3>2. d[i].section \in Of("section", d) /\ d[i].section \in DOMAIN d /\ d[i].table = 0
      BY <1>1
    <3> QED BY <1>7, <1>11, <1>12, <3>1, <3>2 DEF Redrawn
  <2>6. DOMAIN r2 = {id[i] : i \in Of("section", d) \cup tables}
    BY <1>8, <2>1, <2>2
  <2> QED BY <2>4, <2>5, <2>6
<1> HIDE DEF r2
\* The seats.
<1>14. PICK table \in [names -> Of("table", r2)] :
            /\ \A n \in names : r2[table[n]].name = n
            /\ LET At(i) == table[d[d[i].table].name]
                   seats == [n \in {id[i] : i \in Of("seat", d)} |->
                               LET i == CHOOSE i \in Of("seat", d) : id[i] = n
                               IN  [d[i] EXCEPT !.table = At(i), !.section = r2[At(i)].section]]
               IN  rows' = Join(r2, seats)
  BY <1>4
<1>15. \A t \in tables : table[d[t].name] = id[t]
  <2> SUFFICES ASSUME NEW t \in tables
               PROVE  table[d[t].name] = id[t]
    OBVIOUS
  <2>1. table[d[t].name] \in Of("table", r2) /\ r2[table[d[t].name]].name = d[t].name
    BY <1>14
  <2>2. PICK i \in Of("section", d) \cup tables : table[d[t].name] = id[i]
    BY <1>13, <2>1 DEF Of
  <2>3. i \in tables
    BY <1>13, <2>1, <2>2 DEF Of
  <2> QED BY <1>3, <1>13, <2>1, <2>2, <2>3
<1> DEFINE At(i) == table[d[d[i].table].name]
           N3 == [n \in {id[i] : i \in Of("seat", d)} |->
                      LET i == CHOOSE i \in Of("seat", d) : id[i] = n
                      IN  [d[i] EXCEPT !.table = At(i), !.section = r2[At(i)].section]]
<1>16. rows' = Join(r2, N3) /\ DOMAIN N3 = {id[i] : i \in Of("seat", d)}
  BY <1>14
<1>17. ASSUME NEW i \in Of("seat", d)
       PROVE  /\ N3[id[i]].kind = d[i].kind
              /\ N3[id[i]].section = To(id, d[i].section) /\ N3[id[i]].table = To(id, d[i].table)
              /\ N3[id[i]].name = d[i].name /\ N3[id[i]].place = d[i].place
  <2> DEFINE j == CHOOSE j \in Of("seat", d) : id[j] = id[i]
             a == At(i)
             b == r2[a].section
             q == N3[id[i]]
  <2>1. j = i
    BY <1>1, <1>2
  <2>2. q = [d[j] EXCEPT !.table = At(j), !.section = r2[At(j)].section]
    OBVIOUS
  <2>3. q = [d[i] EXCEPT !.table = a, !.section = b]
    BY <2>1, <2>2
  <2>4. IsRow(d[i]) /\ i \in DOMAIN d /\ d[i].table \in tables /\ d[i].table \in DOMAIN d
    BY <1>1
  <2>5. a = To(id, d[i].table)
    BY <1>7, <1>15, <2>4
  <2>6. b = To(id, d[i].section)
    BY <1>3, <1>13, <1>15, <2>4
  <2> HIDE DEF a, b, q, At, N3
  <2>7. /\ q.kind = d[i].kind /\ q.section = b /\ q.table = a
        /\ q.name = d[i].name /\ q.place = d[i].place
    BY <2>3, <2>4 DEF IsRow, Row
  <2> QED BY <2>5, <2>6, <2>7 DEF q
<1> HIDE DEF N3, At
<1>18. /\ DOMAIN rows' = DOMAIN r2 \cup DOMAIN N3
       /\ \A i \in DOMAIN r2 : rows'[i] = r2[i]
       /\ \A i \in DOMAIN N3 : i \notin DOMAIN r2 => rows'[i] = N3[i]
  BY <1>16 DEF Join
<1>19. \A i \in Of("seat", d) : id[i] \in DOMAIN N3 /\ id[i] \notin DOMAIN r2
  BY <1>1, <1>2, <1>13, <1>16 DEF Of
<1>20. DOMAIN d = Of("section", d) \cup tables \cup Of("seat", d)
  BY <1>3 DEF Of
<1> HIDE DEF tables
<1>21. DOMAIN rows' = {id[i] : i \in DOMAIN d}
  BY <1>13, <1>16, <1>18, <1>20
<1>22. ASSUME NEW i \in DOMAIN d
       PROVE  /\ rows'[id[i]].kind = d[i].kind
              /\ rows'[id[i]].name = d[i].name /\ rows'[id[i]].place = d[i].place
              /\ rows'[id[i]].section = To(id, d[i].section)
              /\ rows'[id[i]].table = To(id, d[i].table)
  <2>1. CASE i \in Of("section", d) \cup tables
    <3>1. rows'[id[i]] = r2[id[i]]
      BY <1>13, <1>18, <2>1
    <3> QED BY <1>13, <2>1, <3>1
  <2>2. CASE i \in Of("seat", d)
    BY <1>17, <1>18, <1>19, <2>2
  <2> QED BY <1>20, <2>1, <2>2
<1>23. Renamed(rows', d, DOMAIN d, id)
  BY <1>21, <1>22 DEF Renamed
<1> QED BY <1>23 DEF d, id

LEMMA WriteOutlined ==
    ASSUME NEW G, LayoutInv(G), NEW p, DOMAIN rows = {}, input[p] = Plan(MaxSeats),
           WriteGeometry(p), ~Throw(p)
    PROVE  AsPlanned(rows')
<1> DEFINE d == Plan(MaxSeats)
           X == DOMAIN d
           id == Fresh(X)
           r == rows'
<1>1. Written(d) /\ Of("seat", d) = 1 .. MaxSeats /\ MaxSeats \in Nat \ {0}
  BY LayoutAssumption, PlanIsWritten, PlanRows
<1>2. Renamed(r, d, X, id)
  BY <1>1, WriteRenames
<1> HIDE DEF d, r
<1>3. /\ IsGeometry(d) /\ IsFiniteSet(X) /\ X \in SUBSET (Nat \ {0}) /\ 0 \notin X
      /\ \A i \in Of("section", d) : i \in X /\ d[i].section = 0 /\ d[i].table = 0
      /\ \A i \in Of("table", d) : i \in X /\ d[i].table = 0 /\ d[i].section \in Of("section", d)
      /\ \A i \in Of("seat", d) : i \in X /\ d[i].table \in Of("table", d)
      /\ \A i \in Of("seat", d) : d[i].section = d[d[i].table].section
  BY <1>1, GeometryRows DEF Written
<1>4. /\ DOMAIN id = X
      /\ \A i \in X : id[i] \in Nat \ {0}
      /\ \A i, j \in X : id[i] = id[j] => i = j
  <2> HIDE DEF X
  <2> QED BY <1>3, FreshRows
<1>5. \A i \in X : i \in Of("section", d) \/ i \in Of("table", d) \/ i \in Of("seat", d)
  BY <1>3 DEF IsGeometry, Of
<1>6. \A i \in X : d[i].section \in X \cup {0} /\ d[i].table \in X \cup {0}
  BY <1>3, <1>5
<1> HIDE DEF id
<1>7. Apart(id, X) /\ \A i \in X : id[i] # 0
  BY <1>4 DEF Apart
<1>8. Outline(r, DOMAIN r) = Outline(d, X)
  <2> HIDE DEF X
  <2>1. X \in SUBSET DOMAIN d /\ 0 \notin DOMAIN d
    BY <1>3 DEF X
  <2> QED BY <1>2, <1>3, <1>4, <1>6, <1>7, <2>1, RenamedOutline
<1>9. Of("seat", r) = {id[i] : i \in Of("seat", d)}
  BY <1>2, <1>3 DEF Of, Renamed
<1>10. Cardinality({id[i] : i \in Of("seat", d)}) = Cardinality(Of("seat", d))
  <2>1. Of("seat", d) \subseteq X
    BY <1>3
  <2>2. IsFiniteSet(Of("seat", d)) /\ Apart(id, Of("seat", d))
    BY <1>3, <1>7, <2>1, FS_Subset DEF Apart
  <2> QED BY <2>2, CountKept
<1>11. Cardinality(1 .. MaxSeats) = MaxSeats
  BY <1>1, FS_Interval
<1> QED BY <1>1, <1>8, <1>9, <1>10, <1>11 DEF AsPlanned, d, r
-----------------------------------------------------------------------------
(* What is known of outlines *)

\* s are the rows of these kinds.
Has(s, kinds) == /\ DOMAIN s = {i \in DOMAIN rows : rows[i].kind \in kinds}
                 /\ \A i \in DOMAIN s : s[i] = rows[i]

Wiping == {"wipe seats", "wipe tables", "wipe sections", "write"}
Saving == {"read sections", "read tables", "read seats", "version", "done"}

\* What the serializer has read is there.
SnapFits(p) ==
    /\ pc[p] = "read tables" => Has(snap[p], {"section"})
    /\ pc[p] = "read seats" => Has(snap[p], {"section", "table"})
    /\ pc[p] = "version" => Has(snap[p], {"section", "table", "seat"})

\* How far a seat.create message is.
CreateFits(p) ==
    op[p] = "create" /\ pc[p] # "idle" =>
        /\ pc[p] \in Wiping \cup Saving
        /\ pc[p] \in Wiping => input[p] = Plan(MaxSeats)
        /\ pc[p] \in {"wipe tables", "wipe sections"} => Of("seat", rows) = {}
        /\ pc[p] = "wipe sections" => Of("table", rows) = {}
        /\ pc[p] = "write" => DOMAIN rows = {}
        /\ pc[p] \in Saving => AsPlanned(rows)

Knows(p) == SnapFits(p) /\ CreateFits(p)

KnowsFit == \A p \in Callers : alone[p] => Knows(p)

\* If the outline of v is known, it is that of all of s but the seats at no table, and
\* those are the rows of s that can be restored.
Saved(v, s) == outlines[v] # None => /\ Restorable(s) = Tabled(s)
                                     /\ outlines[v] = Outline(s, Tabled(s))

VersionsFit == \A v \in DOMAIN versions : v \in DOMAIN outlines /\ Saved(v, versions[v].snap)

RestoreFits ==
    \A p \in Callers : pc[p] = "restore" =>
        \E v \in DOMAIN outlines : DOMAIN found[p] = {v} /\ Saved(v, snap[p])

Outlined == KnowsFit /\ VersionsFit /\ RestoreFits

LEMMA OutlinedIsPlanned ==
    ASSUME Outlined
    PROVE  CreatedAsPlanned
BY DEF Outlined, KnowsFit, Knows, CreateFits, Saving, AsPlanned, CreatedAsPlanned

LEMMA KnowsStay ==
    ASSUME FramesInv, AloneFits, NEW p \in Callers, Turn(p), alone'[p] => Knows(p)'
    PROVE  KnowsFit'
<1>1. ASSUME NEW q \in Callers \ {p}, alone'[q]
      PROVE  Knows(q)'
  <2>1. pc[q] = "idle"
    BY <1>1, AloneStays
  <2>2. pc'[q] = "idle"
    BY <2>1 DEF Turn, OthersStay
  <2> QED BY <2>2 DEF Knows, SnapFits, CreateFits
<1> QED BY <1>1 DEF KnowsFit

\* A step that neither saves a version nor reads one.
LEMMA SavedStay ==
    ASSUME Outlined, NEW p \in Callers, Turn(p), pc'[p] # "restore", outlines' = outlines,
           versions' = versions \/ DOMAIN versions' = {}
    PROVE  VersionsFit' /\ RestoreFits'
<1>1. \A v, s : Saved(v, s)' <=> Saved(v, s)
  BY DEF Saved
<1>2. VersionsFit'
  BY <1>1 DEF Outlined, VersionsFit, Saved
<1>3. ASSUME NEW q \in Callers, pc'[q] = "restore"
      PROVE  \E v \in DOMAIN outlines' : DOMAIN found'[q] = {v} /\ Saved(v, snap[q])'
  <2>1. pc[q] = "restore" /\ found'[q] = found[q] /\ snap'[q] = snap[q]
    BY <1>3 DEF Turn, OthersStay
  <2>2. PICK v \in DOMAIN outlines : DOMAIN found[q] = {v} /\ Saved(v, snap[q])
    BY <2>1 DEF Outlined, RestoreFits
  <2> QED BY <2>1, <2>2 DEF Saved
<1> QED BY <1>2, <1>3 DEF RestoreFits

LEMMA StepOutlined ==
    ASSUME FramesInv, AloneFits, Outlined, NEW p \in Callers, Turn(p), pc'[p] # "restore",
           outlines' = outlines, versions' = versions \/ DOMAIN versions' = {},
           alone'[p] => Knows(p)'
    PROVE  Outlined'
BY KnowsStay, SavedStay DEF Outlined
-----------------------------------------------------------------------------
(* Steps that neither write a planned layout, nor read or save one *)

Reading == {"read tables", "read seats", "version", "restore"}

LEMMA BeginOutlined ==
    ASSUME Inv, Follows, Outlined, NEW p \in Callers, NEW o, NEW label, label \notin Reading,
           o = "create" => label = "wipe seats" /\ input'[p] = Plan(MaxSeats),
           Begin(p, o, label), OthersKeep(p),
           outlines' = outlines, versions' = versions \/ DOMAIN versions' = {}
    PROVE  Outlined'
<1>1. FramesInv /\ AloneFits
  BY NextIsNumber DEF Follows
<1>2. pc'[p] = label /\ op'[p] = o /\ Turn(p)
  BY <1>1, BeginsAlone, CallTurns
<1>3. SnapFits(p)'
  BY <1>2 DEF SnapFits, Reading
<1>4. CreateFits(p)'
  BY <1>2 DEF CreateFits, Wiping, Saving
<1> QED BY <1>1, <1>2, <1>3, <1>4, StepOutlined DEF Knows, Reading

LEMMA GoOutlined ==
    ASSUME Inv, Follows, Outlined, NEW p \in Callers, pc[p] # "idle",
           pc[p] \notin Wiping \cup Saving, alone' = alone, op' = op, NEW label, label \notin Reading,
           Goto(p, label) \/ (pc' = pc /\ pc[p] = label), OthersKeep(p),
           outlines' = outlines, versions' = versions
    PROVE  Outlined'
<1>1. FramesInv /\ AloneFits
  BY NextIsNumber DEF Follows
<1>2. pc'[p] = label /\ Turn(p)
  BY <1>1, CallGoesOn
<1>3. ASSUME alone'[p]
      PROVE  Knows(p)'
  <2>1. op[p] # "create"
    BY <1>3 DEF Outlined, KnowsFit, Knows, CreateFits
  <2>2. CreateFits(p)'
    BY <2>1 DEF CreateFits
  <2>3. SnapFits(p)'
    BY <1>2 DEF SnapFits, Reading
  <2> QED BY <2>2, <2>3 DEF Knows
<1> QED BY <1>1, <1>2, <1>3, StepOutlined DEF Reading

LEMMA EndOutlined ==
    ASSUME Inv, Follows, Outlined, NEW p \in Callers, pc[p] # "idle", End(p),
           outlines' = outlines, versions' = versions
    PROVE  Outlined'
<1>1. FramesInv /\ AloneFits
  BY NextIsNumber DEF Follows
<1>2. pc'[p] = "idle" /\ Turn(p)
  BY <1>1, CallEnds
<1>3. Knows(p)'
  BY <1>2 DEF Knows, SnapFits, CreateFits
<1> QED BY <1>1, <1>2, <1>3, StepOutlined

LEMMA ThrowOutlined ==
    ASSUME Inv, Follows, Outlined, NEW p \in Callers, pc[p] # "idle", Throw(p)
    PROVE  Outlined'
BY EndOutlined DEF Throw, ghost

LEMMA BeginningsOutlined ==
    ASSUME Inv, Follows, Outlined, NEW p \in Callers,
           \/ Receive(p) \/ Generate(p) \/ Save(p) \/ Apply(p)
           \/ \E o \in {"duplicate", "clone"} : \E i : Copy(p, o, i)
           \/ \E o \in {"undo", "redo"} : \E X : Look(p, o, X)
    PROVE  Outlined'
<1>1. FramesInv
  BY NextIsNumber
<1>2. CASE Receive(p)
  <2>1. /\ Begin(p, "create", "wipe seats") /\ outlines' = outlines /\ versions' = versions
        /\ OthersKeep(p) /\ input'[p] = Plan(MaxSeats)
    BY <1>1, <1>2 DEF Receive, OthersKeep, FramesInv, ghost
  <2> QED BY <2>1, BeginOutlined DEF Reading
<1>3. CASE Generate(p)
  <2>1. /\ Begin(p, "generate", "wipe seats") /\ outlines' = outlines /\ versions' = versions
        /\ OthersKeep(p)
    BY <1>1, <1>3 DEF Generate, Call, OthersKeep, FramesInv, ghost
  <2> QED BY <2>1, BeginOutlined DEF Reading
<1>4. CASE Save(p)
  <2>1. /\ Begin(p, "save", "read sections") /\ outlines' = outlines /\ versions' = versions
        /\ OthersKeep(p)
    BY <1>1, <1>4 DEF Save, Call, OthersKeep, FramesInv, ghost
  <2> QED BY <2>1, BeginOutlined DEF Reading
<1>5. CASE Apply(p)
  <2>1. /\ Begin(p, "apply", "apply") /\ outlines' = outlines /\ versions' = versions
        /\ snap' = snap
        /\ \E d, f : input' = [input EXCEPT ![p] = d] /\ found' = [found EXCEPT ![p] = f]
    BY <1>5 DEF Apply, Call, ghost
  <2>2. OthersKeep(p)
    BY <1>1, <2>1 DEF OthersKeep, FramesInv
  <2> QED BY <2>1, <2>2, BeginOutlined DEF Reading
<1>6. ASSUME NEW o \in {"duplicate", "clone"}, NEW i, Copy(p, o, i)
      PROVE  Outlined'
  <2>1. /\ Begin(p, o, "copy") /\ outlines' = outlines /\ versions' = versions
        /\ snap' = snap /\ found' = found
        /\ \E d : input' = [input EXCEPT ![p] = d]
    BY <1>6 DEF Copy, Call, ghost
  <2>2. OthersKeep(p)
    BY <1>1, <2>1 DEF OthersKeep, FramesInv
  <2> QED BY <2>1, <2>2, BeginOutlined DEF Reading
<1>7. ASSUME NEW o \in {"undo", "redo"}, NEW X, Look(p, o, X)
      PROVE  Outlined'
  <2> DEFINE to == IF X = {} THEN "latest" ELSE "entry"
  <2>1. /\ Begin(p, o, to) /\ outlines' = outlines /\ versions' = versions
        /\ snap' = snap /\ input' = input
        /\ \E f : found' = [found EXCEPT ![p] = f]
    BY <1>7 DEF Look, Call, ghost
  <2>2. to \notin Reading
    BY DEF Reading
  <2> HIDE DEF to
  <2>3. OthersKeep(p)
    BY <1>1, <2>1 DEF OthersKeep, FramesInv
  <2> QED BY <2>1, <2>2, <2>3, BeginOutlined
<1> QED BY <1>2, <1>3, <1>4, <1>5, <1>6, <1>7

LEMMA EditOutlined ==
    ASSUME Inv, Follows, Outlined, NEW p \in Callers,
           \/ \E o \in {"edit", "move", "update"} : \E d : Change(p, o, d)
           \/ DeleteSeats(p)
    PROVE  Outlined'
<1>1. ASSUME NEW o \in {"edit", "move", "update"}, NEW d, Change(p, o, d)
      PROVE  Outlined'
  <2>1. /\ Begin(p, o, "done") /\ outlines' = outlines /\ versions' = versions
        /\ UNCHANGED <<input, snap, found>>
    BY <1>1 DEF Change, Call
  <2> QED BY <2>1, BeginOutlined DEF OthersKeep, Reading
<1>2. CASE DeleteSeats(p)
  <2>1. /\ Begin(p, "delete", "done") /\ outlines' = outlines
        /\ versions' = [v \in {} |-> Empty] /\ UNCHANGED <<input, snap, found>>
    BY <1>2 DEF DeleteSeats, Call
  <2>2. DOMAIN versions' = {}
    BY <2>1
  <2> QED BY <2>1, <2>2, BeginOutlined DEF OthersKeep, Reading
<1> QED BY <1>1, <1>2

LEMMA EditsOutlined ==
    ASSUME Inv, Follows, Outlined, NEW p \in Callers,
           \/ CreateSection(p) \/ UpdateSection(p) \/ RenameSection(p) \/ DeleteSection(p)
           \/ MoveSection(p) \/ CreateTable(p) \/ UpdateTable(p) \/ RenameTable(p)
           \/ DeleteTable(p) \/ MoveTable(p) \/ CreateSeat(p) \/ UpdateSeat(p)
           \/ DeleteSeat(p) \/ MoveSeat(p)
    PROVE  Outlined'
<1>1. ASSUME NEW i, Rename(p, i) \/ Move(p, i) \/ Update(p, i) \/ Delete(p, i) \/ Create(p, i)
      PROVE  Outlined'
  BY <1>1, EditOutlined DEF Rename, Move, Update, Delete, Create, Edit
<1> QED
  BY <1>1
  DEF CreateSection, UpdateSection, RenameSection, DeleteSection, MoveSection,
      CreateTable, UpdateTable, RenameTable, DeleteTable, MoveTable,
      CreateSeat, UpdateSeat, DeleteSeat, MoveSeat

LEMMA GoingsOutlined ==
    ASSUME Inv, Follows, Outlined, NEW p \in Callers,
           CopyRows(p) \/ ApplyGeometry(p) \/ ApplyEntry(p) \/ ReadLatest(p) \/ RestoreVersion(p)
    PROVE  Outlined'
<1>1. pc[p] # "idle" /\ pc[p] \notin Wiping \cup Saving
  BY DEF Wiping, Saving, CopyRows, ApplyGeometry, ApplyEntry, ReadLatest, RestoreVersion
<1>2. Throw(p) \/ /\ \E label \in {"copy", "read sections", "done", "other"} :
                        Goto(p, label) \/ (pc' = pc /\ pc[p] = label)
                  /\ UNCHANGED <<op, alone, outlines, versions, input, snap>>
                  /\ found' = found \/ \E f : found' = [found EXCEPT ![p] = f]
  <2>1. CASE CopyRows(p)
    BY <2>1 DEF CopyRows, ghost
  <2>2. CASE ApplyGeometry(p) \/ ApplyEntry(p)
    BY <2>2 DEF ApplyGeometry, ApplyEntry
  <2>3. CASE ReadLatest(p) \/ RestoreVersion(p)
    BY <2>3 DEF ReadLatest, RestoreVersion, ghost
  <2> QED BY <2>1, <2>2, <2>3
<1>3. ASSUME ~Throw(p)
      PROVE  Outlined'
  <2>1. PICK label \in {"copy", "read sections", "done", "other"} :
           Goto(p, label) \/ (pc' = pc /\ pc[p] = label)
    BY <1>2, <1>3
  <2>2. OthersKeep(p)
    BY <1>2, <1>3, NextIsNumber DEF OthersKeep, FramesInv
  <2>3. label \notin Reading
    BY DEF Reading
  <2> QED BY <1>1, <1>2, <1>3, <2>1, <2>2, <2>3, GoOutlined
<1> QED BY <1>1, <1>3, ThrowOutlined
-----------------------------------------------------------------------------
(* Steps of a call that writes a planned layout *)

LEMMA Wiped ==
    ASSUME NEW kind, Put(Without(Of(kind, rows)))
    PROVE  /\ Of(kind, rows') = {}
           /\ \A k : Of(k, rows) = {} => Of(k, rows') = {}
           /\ \A i \in DOMAIN rows' : i \in DOMAIN rows /\ rows'[i] = rows[i]
<1> DEFINE X == Of(kind, rows)
           d == Without(X)
<1>1. X \subseteq Cascade(X)
  BY DEF Cascade
<1>2. DOMAIN d = DOMAIN rows \ Cascade(X) /\ \A i \in DOMAIN d : d[i] = rows[i]
  BY DEF Without
<1>3. rows' = d
  BY DEF Put
<1> HIDE DEF d
<1>4. \A i \in DOMAIN rows' : i \in DOMAIN rows /\ i \notin X /\ rows'[i] = rows[i]
  BY <1>1, <1>2, <1>3
<1> QED BY <1>4 DEF Of

LEMMA WipeOutlined ==
    ASSUME Inv, Follows, Outlined, NEW p \in Callers, Wipe(p)
    PROVE  Outlined'
<1>1. PICK t \in {<<"wipe seats", "seat", "wipe tables">>, <<"wipe tables", "table", "wipe sections">>,
                  <<"wipe sections", "section", "write">>} :
         /\ pc[p] = t[1]
         /\ Put(Without(Of(t[2], rows)))
         /\ Goto(p, t[3])
  BY DEF Wipe
<1> DEFINE kind == t[2]
           to == t[3]
<1>2. \/ pc[p] = "wipe seats" /\ kind = "seat" /\ to = "wipe tables"
      \/ pc[p] = "wipe tables" /\ kind = "table" /\ to = "wipe sections"
      \/ pc[p] = "wipe sections" /\ kind = "section" /\ to = "write"
  <2>1. CASE t = <<"wipe seats", "seat", "wipe tables">>
    BY <1>1, <2>1
  <2>2. CASE t = <<"wipe tables", "table", "wipe sections">>
    BY <1>1, <2>2
  <2>3. CASE t = <<"wipe sections", "section", "write">>
    BY <1>1, <2>3
  <2> QED BY <2>1, <2>2, <2>3
<1>3. Goto(p, to) /\ Put(Without(Of(kind, rows)))
  BY <1>1
<1>4. alone' = alone /\ op' = op /\ OthersKeep(p) /\ UNCHANGED <<input, versions, outlines>>
  BY DEF Wipe, OthersKeep
<1> HIDE DEF kind, to
<1>5. FramesInv /\ AloneFits
  BY NextIsNumber DEF Follows
<1>6. pc[p] # "idle"
  BY <1>2
<1>7. Turn(p) /\ pc'[p] = to
  BY <1>3, <1>4, <1>5, <1>6, CallGoesOn
<1>8. /\ Of(kind, rows') = {}
      /\ \A k : Of(k, rows) = {} => Of(k, rows') = {}
      /\ \A i \in DOMAIN rows' : i \in DOMAIN rows /\ rows'[i] = rows[i]
  BY <1>3, Wiped
<1>9. \A i \in DOMAIN rows : rows[i].kind \in {"section", "table", "seat"}
  BY DEF Inv, StateInv, LayoutInv, Akin, Lineage, Fits
<1>10. ASSUME alone'[p]
       PROVE  Knows(p)'
  <2>1. CreateFits(p)
    BY <1>4, <1>10 DEF Outlined, KnowsFit, Knows
  <2>2. SnapFits(p)'
    BY <1>2, <1>7 DEF SnapFits
  <2>3. CASE pc[p] = "wipe seats"
    BY <1>2, <1>4, <1>7, <1>8, <2>1, <2>2, <2>3 DEF Knows, CreateFits, Wiping, Saving
  <2>4. CASE pc[p] = "wipe tables"
    BY <1>2, <1>4, <1>7, <1>8, <2>1, <2>2, <2>4 DEF Knows, CreateFits, Wiping, Saving
  <2>5. CASE pc[p] = "wipe sections"
    <3>1. ASSUME op[p] = "create"
          PROVE  DOMAIN rows' = {}
      <4>1. Of("seat", rows') = {} /\ Of("table", rows') = {} /\ Of("section", rows') = {}
        BY <1>2, <1>8, <2>1, <2>5, <3>1 DEF CreateFits
      <4> QED BY <1>8, <1>9, <4>1 DEF Of
    <3> QED BY <1>2, <1>4, <1>7, <2>1, <2>2, <2>5, <3>1 DEF Knows, CreateFits, Wiping, Saving
  <2> QED BY <1>2, <2>3, <2>4, <2>5
<1>11. pc'[p] # "restore"
  BY <1>2, <1>7
<1> QED BY <1>4, <1>5, <1>7, <1>10, <1>11, StepOutlined

LEMMA WritingOutlined ==
    ASSUME Inv, Follows, Outlined, NEW p \in Callers, WriteGeometry(p)
    PROVE  Outlined'
<1>1. PICK G : StateInv(G)
  BY DEF Inv
<1>2. LayoutInv(G) /\ pc[p] = "write" /\ FramesInv /\ AloneFits
  BY <1>1, NextIsNumber DEF StateInv, WriteGeometry, Follows
<1>3. CASE Throw(p)
  BY <1>2, <1>3, ThrowOutlined
<1>4. CASE ~Throw(p)
  <2>1. /\ Goto(p, "read sections")
        /\ UNCHANGED <<versions, outlines, op, alone, input, snap, found>>
    BY <1>4 DEF WriteGeometry
  <2>2. Turn(p) /\ pc'[p] = "read sections"
    BY <1>2, <2>1, CallGoesOn DEF OthersKeep
  <2>3. ASSUME alone'[p]
        PROVE  Knows(p)'
    <3>1. CreateFits(p)
      BY <2>1, <2>3 DEF Outlined, KnowsFit, Knows
    <3>2. op[p] = "create" => AsPlanned(rows')
      BY <1>2, <1>4, <3>1, WriteOutlined DEF CreateFits, Wiping
    <3>3. SnapFits(p)'
      BY <2>2 DEF SnapFits
    <3>4. CreateFits(p)'
      BY <2>1, <2>2, <3>2 DEF CreateFits, Wiping, Saving, AsPlanned
    <3> QED BY <3>3, <3>4 DEF Knows
  <2> QED BY <1>2, <2>1, <2>2, <2>3, StepOutlined
<1> QED BY <1>3, <1>4
-----------------------------------------------------------------------------
(* Steps that read and save the layout, and read what was saved *)

LEMMA HasMore ==
    ASSUME NEW r, NEW kinds, Has(r, kinds), NEW kind, kind \notin kinds
    PROVE  Has(Join(r, RowsOf(kind)), kinds \cup {kind})
<1> DEFINE s == Join(r, RowsOf(kind))
<1>1. /\ DOMAIN s = DOMAIN r \cup {i \in DOMAIN rows : rows[i].kind = kind}
      /\ \A i \in DOMAIN s : s[i] = IF i \in DOMAIN r THEN r[i] ELSE rows[i]
  BY DEF Join, RowsOf, Of
<1> HIDE DEF s
<1> QED BY <1>1 DEF Has, s

LEMMA SerializeOutlined ==
    ASSUME Inv, Follows, Outlined, NEW p \in Callers, Serialize(p)
    PROVE  Outlined'
<1>1. PICK G : StateInv(G)
  BY DEF Inv
<1>2. PICK t \in {<<"read sections", "section", "read tables">>, <<"read tables", "table", "read seats">>,
                  <<"read seats", "seat", "version">>} :
         /\ pc[p] = t[1]
         /\ snap' = [snap EXCEPT ![p] = Join(@, [i \in Of(t[2], rows) |-> rows[i]])]
         /\ Goto(p, t[3])
  BY DEF Serialize
<1> DEFINE kind == t[2]
           to == t[3]
<1>3. \/ pc[p] = "read sections" /\ kind = "section" /\ to = "read tables"
      \/ pc[p] = "read tables" /\ kind = "table" /\ to = "read seats"
      \/ pc[p] = "read seats" /\ kind = "seat" /\ to = "version"
  <2>1. CASE t = <<"read sections", "section", "read tables">>
    BY <1>2, <2>1
  <2>2. CASE t = <<"read tables", "table", "read seats">>
    BY <1>2, <2>2
  <2>3. CASE t = <<"read seats", "seat", "version">>
    BY <1>2, <2>3
  <2> QED BY <2>1, <2>2, <2>3
<1>4. snap' = [snap EXCEPT ![p] = Join(snap[p], RowsOf(kind))] /\ Goto(p, to)
  BY <1>2 DEF RowsOf
<1> HIDE DEF kind, to
<1>5. UNCHANGED <<rows, versions, outlines, op, input, found, alone>>
  BY DEF Serialize, ghost
<1>6. FramesInv /\ AloneFits /\ pc[p] # "idle"
  BY <1>3, NextIsNumber DEF Follows
<1>7. snap'[p] = Join(snap[p], RowsOf(kind)) /\ OthersKeep(p)
  BY <1>4, <1>5, <1>6 DEF FramesInv, OthersKeep
<1>8. Turn(p) /\ pc'[p] = to
  BY <1>4, <1>5, <1>6, <1>7, CallGoesOn
<1>9. ASSUME alone'[p]
      PROVE  Knows(p)'
  <2>1. CreateFits(p) /\ SnapFits(p)
    BY <1>5, <1>9 DEF Outlined, KnowsFit, Knows
  <2>2. CreateFits(p)'
    <3>1. op[p] = "create" => AsPlanned(rows')
      BY <1>3, <1>5, <2>1 DEF CreateFits, Saving
    <3>2. pc'[p] \in Saving /\ pc'[p] \notin Wiping
      BY <1>3, <1>8 DEF Wiping, Saving
    <3> QED BY <1>5, <3>1, <3>2 DEF CreateFits, Wiping, AsPlanned
  <2>3. Has(snap'[p], IF kind = "section" THEN {"section"}
                      ELSE IF kind = "table" THEN {"section", "table"}
                      ELSE {"section", "table", "seat"})
    <3>1. CASE kind = "section"
      <4>1. snap[p] = Empty
        BY <1>1, <1>3, <3>1 DEF StateInv, CallOK
      <4>2. Has(snap[p], {})
        BY <4>1 DEF Has, Empty
      <4>3. Has(snap'[p], {} \cup {kind})
        BY <1>7, <4>2, HasMore
      <4>4. {} \cup {kind} = {"section"}
        BY <3>1
      <4> QED BY <3>1, <4>3, <4>4
    <3>2. CASE kind = "table"
      <4>1. Has(snap[p], {"section"}) /\ kind \notin {"section"}
        BY <1>3, <2>1, <3>2 DEF SnapFits
      <4>2. Has(snap'[p], {"section"} \cup {kind})
        <5>1. Has(Join(snap[p], RowsOf(kind)), {"section"} \cup {kind})
          BY <4>1, HasMore
        <5> QED BY <1>7, <5>1
      <4>3. {"section"} \cup {kind} = {"section", "table"}
        BY <3>2
      <4> QED BY <3>2, <4>2, <4>3
    <3>3. CASE kind = "seat"
      <4>1. Has(snap[p], {"section", "table"}) /\ kind \notin {"section", "table"}
        BY <1>3, <2>1, <3>3 DEF SnapFits
      <4>2. Has(snap'[p], {"section", "table"} \cup {kind})
        <5>1. Has(Join(snap[p], RowsOf(kind)), {"section", "table"} \cup {kind})
          BY <4>1, HasMore
        <5> QED BY <1>7, <5>1
      <4>3. {"section", "table"} \cup {kind} = {"section", "table", "seat"}
        BY <3>3
      <4> QED BY <3>3, <4>2, <4>3
    <3> QED BY <1>3, <3>1, <3>2, <3>3
  <2>4. \A k : Has(snap'[p], k) => Has(snap[p], k)'
    BY <1>5 DEF Has
  <2>5. SnapFits(p)'
    <3>1. CASE kind = "section"
      BY <1>3, <1>8, <2>3, <2>4, <3>1 DEF SnapFits
    <3>2. CASE kind = "table"
      BY <1>3, <1>8, <2>3, <2>4, <3>2 DEF SnapFits
    <3>3. CASE kind = "seat"
      BY <1>3, <1>8, <2>3, <2>4, <3>3 DEF SnapFits
    <3> QED BY <1>3, <3>1, <3>2, <3>3
  <2> QED BY <2>2, <2>5 DEF Knows
<1>10. pc'[p] # "restore"
  BY <1>3, <1>8
<1> QED BY <1>5, <1>6, <1>8, <1>9, <1>10, StepOutlined

LEMMA VersionOutlined ==
    ASSUME Inv, Follows, Outlined, NEW p \in Callers, CreateVersion(p)
    PROVE  Outlined'
<1>1. PICK G : StateInv(G)
  BY DEF Inv
<1>2. LayoutInv(G) /\ pc[p] = "version" /\ FramesInv /\ AloneFits
  BY <1>1, NextIsNumber DEF StateInv, CreateVersion, Follows
<1>3. CASE Throw(p)
  BY <1>2, <1>3, ThrowOutlined
<1>4. CASE ~Throw(p)
  <2> DEFINE e == [snap |-> snap[p], dated |-> op[p] # "save"]
             o == IF alone[p] THEN Outline(rows, Tabled(rows)) ELSE None
  <2>1. PICK v : /\ v \notin DOMAIN versions
                 /\ versions' = Join(versions, One(v, e))
                 /\ outlines' = Join(One(v, o), outlines)
                 /\ Goto(p, "done")
                 /\ UNCHANGED <<rows, op, input, snap, found, alone>>
    BY <1>4 DEF CreateVersion
  <2>2. Turn(p) /\ pc'[p] = "done"
    BY <1>2, <2>1, CallGoesOn DEF OthersKeep
  <2>3. e.snap = snap[p]
    OBVIOUS
  <2>4. alone[p] => o = Outline(rows, Tabled(rows))
    OBVIOUS
  <2>5. ~alone[p] => o = None
    OBVIOUS
  <2> HIDE DEF e, o
  <2>6. /\ DOMAIN versions' = DOMAIN versions \cup {v} /\ versions'[v] = e
        /\ \A w \in DOMAIN versions : versions'[w] = versions[w]
    BY <2>1 DEF Join, One
  <2>7. /\ DOMAIN outlines' = DOMAIN outlines \cup {v} /\ outlines'[v] = o
        /\ \A w \in DOMAIN outlines \ {v} : outlines'[w] = outlines[w]
    BY <2>1 DEF Join, One
  <2>8. KnowsFit'
    <3>1. ASSUME alone'[p]
          PROVE  Knows(p)'
      <4>1. CreateFits(p)
        BY <2>1, <3>1 DEF Outlined, KnowsFit, Knows
      <4>2. op[p] = "create" => AsPlanned(rows')
        BY <1>2, <2>1, <4>1 DEF CreateFits, Saving
      <4>3. CreateFits(p)'
        BY <2>1, <2>2, <4>2 DEF CreateFits, Wiping, Saving, AsPlanned
      <4>4. SnapFits(p)'
        BY <2>2 DEF SnapFits
      <4> QED BY <4>3, <4>4 DEF Knows
    <3> QED BY <1>2, <2>2, <3>1, KnowsStay
  <2>9. VersionsFit'
    <3>1. ASSUME NEW w \in DOMAIN versions'
          PROVE  w \in DOMAIN outlines' /\ Saved(w, versions[w].snap)'
      <4>1. CASE w = v
        <5>1. ASSUME alone[p]
              PROVE  /\ Restorable(snap[p]) = Tabled(snap[p])
                     /\ o = Outline(snap[p], Tabled(snap[p]))
          <6>1. Has(snap[p], {"section", "table", "seat"})
            BY <1>2, <5>1 DEF Outlined, KnowsFit, Knows, SnapFits
          <6>2. \A i \in DOMAIN rows : rows[i].kind \in {"section", "table", "seat"}
            BY <1>2 DEF LayoutInv, Akin, Lineage, Fits
          <6>3. DOMAIN snap[p] = DOMAIN rows /\ \A i \in DOMAIN rows : rows[i] = snap[p][i]
            BY <6>1, <6>2 DEF Has
          <6> DEFINE s == snap[p]
          <6>4. DOMAIN rows = DOMAIN s /\ \A i \in DOMAIN rows : rows[i] = s[i]
            BY <6>3
          <6> HIDE DEF s
          <6>5. /\ Tabled(rows) = Tabled(s) /\ Restorable(rows) = Restorable(s)
                /\ Outline(rows, Tabled(rows)) = Outline(s, Tabled(s))
            BY <6>4, OutlineOfSame
          <6>6. Restorable(rows) = Tabled(rows)
            BY <1>2, RowsRestorable
          <6> QED BY <2>4, <5>1, <6>5, <6>6 DEF s
        <5>2. outlines'[w] # None => alone[p]
          BY <2>5, <2>7, <4>1
        <5>3. versions'[w].snap = snap[p] /\ outlines'[w] = o
          BY <2>3, <2>6, <2>7, <4>1
        <5> QED BY <2>7, <4>1, <5>1, <5>2, <5>3 DEF Saved
      <4>2. CASE w # v
        <5>1. w \in DOMAIN versions /\ versions'[w] = versions[w]
          BY <2>6, <3>1, <4>2
        <5>2. w \in DOMAIN outlines /\ Saved(w, versions[w].snap)
          BY <5>1 DEF Outlined, VersionsFit
        <5>3. outlines'[w] = outlines[w] /\ w \in DOMAIN outlines'
          BY <2>7, <4>2, <5>2
        <5> QED BY <5>1, <5>2, <5>3 DEF Saved
      <4> QED BY <4>1, <4>2
    <3> QED BY <3>1 DEF VersionsFit
  <2>10. RestoreFits'
    <3>1. ASSUME NEW q \in Callers, pc'[q] = "restore"
          PROVE  \E w \in DOMAIN outlines' : DOMAIN found'[q] = {w} /\ Saved(w, snap[q])'
      <4>1. q # p /\ pc[q] = "restore" /\ found'[q] = found[q] /\ snap'[q] = snap[q]
        BY <2>2, <3>1 DEF Turn, OthersStay
      <4>2. PICK w \in DOMAIN outlines : DOMAIN found[q] = {w} /\ Saved(w, snap[q])
        BY <4>1 DEF Outlined, RestoreFits
      <4>3. ~alone[p]
        BY <1>2, <4>1 DEF AloneFits
      <4>4. outlines'[w] = None \/ outlines'[w] = outlines[w]
        BY <2>5, <2>7, <4>3
      <4>5. w \in DOMAIN outlines'
        BY <2>7
      <4>6. Saved(w, snap[q])'
        BY <4>1, <4>2, <4>4 DEF Saved
      <4> QED BY <4>1, <4>2, <4>5, <4>6
    <3> QED BY <3>1 DEF RestoreFits
  <2> QED BY <2>8, <2>9, <2>10 DEF Outlined
<1> QED BY <1>3, <1>4

LEMMA OtherOutlined ==
    ASSUME Inv, Follows, Outlined, NEW p \in Callers, ReadOther(p)
    PROVE  Outlined'
<1>1. PICK G : StateInv(G)
  BY DEF Inv
<1>2. pc[p] = "other" /\ pc[p] # "idle" /\ pc[p] \notin Wiping \cup Saving /\ FramesInv /\ AloneFits
  BY NextIsNumber DEF ReadOther, Wiping, Saving, Follows
<1>3. UNCHANGED <<rows, versions, outlines, op, input, alone>>
  BY DEF ReadOther, ghost
<1> DEFINE latest == CHOOSE v \in DOMAIN found[p] : TRUE
           before == {v \in DOMAIN versions : v < latest}
           after  == {v \in DOMAIN versions : v > latest}
           w == IF op[p] = "undo" THEN Max(before) ELSE Min(after)
<1>4. CASE (IF op[p] = "undo" THEN before ELSE after) = {}
  <2>1. Goto(p, "done") /\ UNCHANGED <<found, snap>>
    BY <1>4 DEF ReadOther
  <2>2. "done" \notin Reading
    BY DEF Reading
  <2> QED BY <1>2, <1>3, <2>1, <2>2, GoOutlined DEF OthersKeep
<1>5. CASE (IF op[p] = "undo" THEN before ELSE after) # {}
  <2>1. /\ Goto(p, "restore")
        /\ found' = [found EXCEPT ![p] = One(w, Empty)]
        /\ snap' = [snap EXCEPT ![p] = versions[w].snap]
    BY <1>5 DEF ReadOther
  <2>2. w \in DOMAIN versions
    <3>1. DOMAIN versions \subseteq Numbers
      BY <1>1 DEF StateInv
    <3>2. before # {} => Max(before) \in DOMAIN versions
      BY <3>1, OtherVersion
    <3>3. after # {} => Min(after) \in DOMAIN versions
      BY <3>1, OtherVersion
    <3> QED BY <1>5, <3>2, <3>3
  <2> HIDE DEF w
  <2>3. PICK v : v = w
    OBVIOUS
  <2>4. /\ found'[p] = One(v, Empty) /\ snap'[p] = versions[v].snap /\ OthersKeep(p)
    BY <1>2, <1>3, <2>1, <2>3 DEF FramesInv, OthersKeep
  <2>5. Turn(p) /\ pc'[p] = "restore"
    BY <1>2, <1>3, <2>1, <2>4, CallGoesOn
  <2>6. KnowsFit'
    <3>1. ASSUME alone'[p]
          PROVE  Knows(p)'
      <4>1. op[p] # "create"
        BY <1>2, <1>3, <3>1 DEF Outlined, KnowsFit, Knows, CreateFits
      <4> QED BY <1>3, <2>5, <4>1 DEF Knows, SnapFits, CreateFits
    <3> QED BY <1>2, <2>5, <3>1, KnowsStay
  <2>7. VersionsFit'
    BY <1>3 DEF Outlined, VersionsFit, Saved
  <2>8. RestoreFits'
    <3>1. ASSUME NEW q \in Callers, pc'[q] = "restore"
          PROVE  \E u \in DOMAIN outlines' : DOMAIN found'[q] = {u} /\ Saved(u, snap[q])'
      <4>1. CASE q = p
        <5>1. v \in DOMAIN outlines /\ Saved(v, versions[v].snap)
          BY <2>2, <2>3 DEF Outlined, VersionsFit
        <5>2. DOMAIN found'[p] = {v}
          BY <2>4 DEF One
        <5>3. Saved(v, snap[p])'
          BY <1>3, <2>4, <5>1 DEF Saved
        <5> QED BY <1>3, <4>1, <5>1, <5>2, <5>3
      <4>2. CASE q # p
        <5>1. pc[q] = "restore" /\ found'[q] = found[q] /\ snap'[q] = snap[q]
          BY <2>5, <3>1, <4>2 DEF Turn, OthersStay
        <5>2. PICK u \in DOMAIN outlines : DOMAIN found[q] = {u} /\ Saved(u, snap[q])
          BY <5>1 DEF Outlined, RestoreFits
        <5>3. Saved(u, snap[q])'
          BY <1>3, <5>1, <5>2 DEF Saved
        <5> QED BY <1>3, <5>1, <5>2, <5>3
      <4> QED BY <4>1, <4>2
    <3> QED BY <3>1 DEF RestoreFits
  <2> QED BY <2>6, <2>7, <2>8 DEF Outlined
<1> QED BY <1>4, <1>5
-----------------------------------------------------------------------------
(* The theorems *)

LEMMA OutlinedInit == Init => Outlined
<1> SUFFICES ASSUME Init
             PROVE  Outlined
  OBVIOUS
<1>1. \A p \in Callers : pc[p] = "idle"
  BY DEF Init
<1>2. KnowsFit /\ RestoreFits
  BY <1>1 DEF KnowsFit, Knows, SnapFits, CreateFits, RestoreFits
<1>3. CASE rows = Empty /\ versions = [v \in {} |-> Empty]
  <2>1. DOMAIN versions = {}
    BY <1>3
  <2> QED BY <1>2, <2>1 DEF Outlined, VersionsFit
<1>4. CASE /\ rows = Plan(MaxSeats)
           /\ versions = One(1, [snap |-> rows, dated |-> TRUE])
           /\ outlines = One(1, Outline(rows, DOMAIN rows))
  <2>1. PICK G : LayoutInv(G)
    BY InitHolds DEF Inv, StateInv
  <2>2. Restorable(rows) = Tabled(rows)
    BY <2>1, RowsRestorable
  <2>3. IsGeometry(rows)
    BY <1>4, LayoutAssumption, PlanIsGeometry
  <2>4. Tabled(rows) = DOMAIN rows
    <3>1. 0 \notin DOMAIN rows /\ \A i \in Of("seat", rows) : rows[i].table \in Of("table", rows)
      BY <2>3, GeometryRows
    <3> QED BY <3>1 DEF Tabled, Of
  <2>5. DOMAIN versions = {1} /\ versions[1].snap = rows
    BY <1>4 DEF One
  <2>6. DOMAIN outlines = {1} /\ outlines[1] = Outline(rows, DOMAIN rows)
    BY <1>4 DEF One
  <2>7. VersionsFit
    BY <2>2, <2>4, <2>5, <2>6 DEF VersionsFit, Saved
  <2> QED BY <1>2, <2>7 DEF Outlined
<1>5. \/ rows = Empty /\ versions = [v \in {} |-> Empty]
      \/ /\ rows = Plan(MaxSeats)
         /\ versions = One(1, [snap |-> rows, dated |-> TRUE])
         /\ outlines = One(1, Outline(rows, DOMAIN rows))
  BY Zenon DEF Init
<1> QED BY <1>3, <1>4, <1>5, Zenon

LEMMA StillOutlined ==
    ASSUME Outlined, UNCHANGED <<rows, versions, call, ghost>>
    PROVE  Outlined'
<1>1. UNCHANGED <<rows, versions, outlines, pc, op, input, snap, found, alone>>
  BY DEF call, ghost
<1>2. AsPlanned(rows) <=> AsPlanned(rows')
  BY <1>1
<1>3. ASSUME NEW p, Knows(p)
      PROVE  Knows(p)'
  <2>1. SnapFits(p)'
    BY <1>1, <1>3 DEF Knows, SnapFits, Has
  <2>2. CreateFits(p)'
    BY <1>1, <1>2, <1>3 DEF Knows, CreateFits, AsPlanned
  <2> QED BY <2>1, <2>2 DEF Knows
<1>4. KnowsFit'
  BY <1>1, <1>3 DEF Outlined, KnowsFit
<1>5. VersionsFit'
  BY <1>1 DEF Outlined, VersionsFit, Saved
<1>6. RestoreFits'
  BY <1>1 DEF Outlined, RestoreFits, Saved
<1> QED BY <1>4, <1>5, <1>6 DEF Outlined

LEMMA OutlinedNext == Inv /\ Follows /\ Outlined /\ [Next]_vars => Outlined'
<1> SUFFICES ASSUME Inv, Follows, Outlined, [Next]_vars
             PROVE  Outlined'
  OBVIOUS
<1>1. CASE Ask
  BY <1>1, StillOutlined DEF Ask
<1>2. CASE UNCHANGED vars
  BY <1>2, StillOutlined DEF vars
<1>3. ASSUME NEW p \in Callers, Step(p)
      PROVE  Outlined'
  <2>1. CASE \/ Receive(p) \/ Generate(p) \/ Save(p) \/ Apply(p)
             \/ DuplicateTable(p) \/ CloneSection(p) \/ Undo(p) \/ Redo(p)
    BY <2>1, BeginningsOutlined DEF DuplicateTable, CloneSection, Undo, Redo
  <2>2. CASE Serialize(p) \/ CreateVersion(p) \/ ReadOther(p)
    BY <2>2, SerializeOutlined, VersionOutlined, OtherOutlined
  <2>3. CASE Wipe(p) \/ WriteGeometry(p)
    BY <2>3, WipeOutlined, WritingOutlined
  <2>4. CASE \/ CopyRows(p) \/ ApplyGeometry(p) \/ ApplyEntry(p) \/ ReadLatest(p)
             \/ RestoreVersion(p)
    BY <2>4, GoingsOutlined
  <2>5. CASE \/ CreateSection(p) \/ UpdateSection(p) \/ RenameSection(p) \/ DeleteSection(p)
             \/ MoveSection(p) \/ CreateTable(p) \/ UpdateTable(p) \/ RenameTable(p)
             \/ DeleteTable(p) \/ MoveTable(p) \/ CreateSeat(p) \/ UpdateSeat(p)
             \/ DeleteSeat(p) \/ MoveSeat(p)
    BY <2>5, EditsOutlined
  <2>6. CASE DeleteSeats(p)
    BY <2>6, EditOutlined
  <2>7. CASE Return(p) \/ Fail(p)
    <3>1. pc[p] # "idle" /\ End(p) /\ outlines' = outlines /\ versions' = versions
      BY <2>7 DEF Return, Fail, ghost
    <3> QED BY <3>1, EndOutlined
  <2> QED BY <1>3, <2>1, <2>2, <2>3, <2>4, <2>5, <2>6, <2>7 DEF Step
<1> QED BY <1>1, <1>2, <1>3 DEF Next

\* What a restore makes of the layout.
LEMMA RestoreOutlined ==
    ASSUME Inv, Outlined, NEW p \in Callers, RestoreVersion(p)
    PROVE  LET v == CHOOSE v \in DOMAIN found[p] : TRUE
           IN  outlines[v] # None => Outline(rows', DOMAIN rows') = outlines[v]
<1>1. PICK G : StateInv(G)
  BY DEF Inv
<1> DEFINE s == snap[p]
           X == Restorable(s)
           N == Drawn(s, X, Fresh(X))
<1>2. pc[p] = "restore" /\ rows' = N
  BY DEF RestoreVersion, Put
<1>3. LayoutInv(G) /\ SnapInv(s, G)
  BY <1>1 DEF StateInv, CallOK
<1>4. PICK v \in DOMAIN outlines : DOMAIN found[p] = {v} /\ Saved(v, s)
  BY <1>2 DEF Outlined, RestoreFits
<1>5. (CHOOSE w \in DOMAIN found[p] : TRUE) = v
  BY <1>4
<1> HIDE DEF s, N
<1>6. N = Drawn(s, X, Fresh(X))
  BY DEF N
<1> HIDE DEF X
<1>7. Outline(N, DOMAIN N) = Outline(s, X)
  BY <1>3, <1>6, RestoredOutline DEF X
<1>8. ASSUME outlines[v] # None
      PROVE  Outline(rows', DOMAIN rows') = outlines[v]
  <2>1. X = Tabled(s) /\ outlines[v] = Outline(s, Tabled(s))
    BY <1>4, <1>8 DEF Saved, X
  <2> QED BY <1>2, <1>7, <2>1
<1> QED BY <1>5, <1>8

\* A seat.create message that is handled alone leaves the plan it asks for, whatever the
\* layout was: so it may be delivered again after it failed between any two statements.
THEOREM PlannedCreated == Spec => []CreatedAsPlanned
<1>1. Init => Follows /\ Outlined
  BY FollowsInit, OutlinedInit
<1>2. Inv /\ Follows /\ Outlined /\ [Next]_vars => Follows' /\ Outlined'
  BY FollowsNext, OutlinedNext
<1>3. Outlined => CreatedAsPlanned
  BY OutlinedIsPlanned
<1>4. Spec => []Inv
  BY InvHolds
<1> QED BY <1>1, <1>2, <1>3, <1>4, PTL DEF Spec

\* A restore makes the layout look as it did when the version was saved, but for the seats
\* at no table: however many versions, copies and edits lie between, and also when another
\* call deletes all versions after this one was read and before the rows are written.
THEOREM SavedRestored == Spec => RestoredAsSaved
<1>1. Init => Follows /\ Outlined
  BY FollowsInit, OutlinedInit
<1>2. Inv /\ Follows /\ Outlined /\ [Next]_vars => Follows' /\ Outlined'
  BY FollowsNext, OutlinedNext
<1>3. Inv /\ Outlined =>
        [\A p \in Callers : RestoreVersion(p) =>
            LET v == CHOOSE v \in DOMAIN found[p] : TRUE
            IN  outlines[v] # None => Outline(rows', DOMAIN rows') = outlines[v]]_vars
  BY RestoreOutlined
<1>4. Spec => []Inv
  BY InvHolds
<1> QED BY <1>1, <1>2, <1>3, <1>4, PTL DEF Spec, RestoredAsSaved
=============================================================================
