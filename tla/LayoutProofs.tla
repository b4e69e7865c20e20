---------------------------- MODULE LayoutProofs ----------------------------
(***************************************************************************)
(* Proofs about Layout, for any number of callers and calls, any mix of    *)
(* operations, any geometries the engine can make and any size of a plan:  *)
(* types and the tree of sections, tables and seats.                       *)
(***************************************************************************)
EXTENDS Layout, FiniteSetTheorems, WellFoundedInduction, TLAPS

-----------------------------------------------------------------------------
(* Numbers *)

LEMMA LeastNumber ==
    ASSUME NEW S \in SUBSET Nat, S # {}
    PROVE  \E x \in S : \A y \in S : x <= y
<1> DEFINE R == OpToRel(<, Nat)
<1>1. IsWellFoundedOn(R, Nat)
  BY NatLessThanWellFounded
<1>2. \A x, y \in Nat : y < x => <<y, x>> \in R
  BY DEF OpToRel
<1> HIDE DEF R
<1>3. PICK x \in S : \A y \in S : ~(<<y, x>> \in R)
  BY <1>1, WFMin
<1>4. ASSUME NEW y \in S
      PROVE  x <= y
  <2>1. x \in Nat /\ y \in Nat /\ ~(y < x)
    BY <1>2, <1>3
  <2> QED BY <2>1
<1> QED BY <1>4

LEMMA MinIsLeast ==
    ASSUME NEW S \in SUBSET Nat, S # {}
    PROVE  Min(S) \in S /\ \A y \in S : Min(S) <= y
BY LeastNumber DEF Min

LEMMA MaxIsGreatest ==
    ASSUME NEW n \in Nat, NEW S \in SUBSET (0 .. n), S # {}
    PROVE  Max(S) \in S /\ Max(S) \in Nat /\ \A y \in S : y <= Max(S)
<1> DEFINE T == {n - x : x \in S}
<1>0. \A x \in S : x \in 0 .. n
  OBVIOUS
<1>1. T \in SUBSET Nat /\ T # {}
  <2>1. \A x \in S : n - x \in Nat
    BY <1>0
  <2>2. PICK x \in S : TRUE
    OBVIOUS
  <2> QED BY <2>1, <2>2
<1>2. PICK t \in T : \A u \in T : t <= u
  BY <1>1, LeastNumber
<1>3. PICK x \in S : t = n - x
  OBVIOUS
<1>4. \A y \in S : x >= y
  <2> SUFFICES ASSUME NEW y \in S
               PROVE  x >= y
    OBVIOUS
  <2>1. n - x <= n - y
    BY <1>2, <1>3
  <2> QED BY <1>0, <2>1
<1>5. Max(S) \in S /\ \A y \in S : Max(S) >= y
  BY <1>4 DEF Max
<1>6. S \subseteq Nat
  BY <1>0
<1>7. \A y \in S : y <= Max(S)
  BY <1>5, <1>6
<1> QED BY <1>5, <1>6, <1>7

\* The identifiers of new rows are new, and different.
LEMMA FreshIsNew ==
    ASSUME NEW X \in SUBSET Nat, IsFiniteSet(X), next \in Nat
    PROVE  /\ Cardinality(X) \in Nat
           /\ \A i \in X : Fresh(X)[i] \in (next + 1) .. (next + Cardinality(X))
           /\ \A i, j \in X : Fresh(X)[i] = Fresh(X)[j] => i = j
<1> DEFINE Below(i) == {j \in X : j <= i}
<1>1. \A i \in X : /\ IsFiniteSet(Below(i)) /\ Cardinality(Below(i)) \in Nat
                   /\ Cardinality(Below(i)) <= Cardinality(X)
  BY FS_Subset, FS_CardinalityType
<1>2. Cardinality(X) \in Nat
  BY FS_CardinalityType
<1>3. \A i \in X : Cardinality(Below(i)) # 0
  <2> SUFFICES ASSUME NEW i \in X
               PROVE  Cardinality(Below(i)) # 0
    OBVIOUS
  <2>1. i \in Below(i)
    OBVIOUS
  <2> QED BY <1>1, <2>1, FS_EmptySet
<1>4. \A i, j \in X : Cardinality(Below(i)) = Cardinality(Below(j)) => i = j
  <2>1. ASSUME NEW i \in X, NEW j \in X, i <= j, Cardinality(Below(i)) = Cardinality(Below(j))
        PROVE  i = j
    <3>1. Below(i) \subseteq Below(j)
      <4>1. ASSUME NEW k \in X, k <= i
            PROVE  k <= j
        <5>1. i \in Nat /\ j \in Nat /\ k \in Nat
          OBVIOUS
        <5> QED BY <2>1, <4>1, <5>1
      <4> QED BY <4>1
    <3>2. Below(i) = Below(j)
      <4>1. IsFiniteSet(Below(j))
        BY <1>1
      <4> HIDE DEF Below
      <4> QED BY <2>1, <3>1, <4>1, FS_Subset
    <3> QED BY <2>1, <3>2
  <2>2. \A i, j \in X : i <= j \/ j <= i
    OBVIOUS
  <2> QED BY <2>1, <2>2
<1> HIDE DEF Below
<1>5. \A i \in X : Fresh(X)[i] = next + Cardinality(Below(i))
  BY DEF Fresh, Below
<1> QED BY <1>1, <1>2, <1>3, <1>4, <1>5

-----------------------------------------------------------------------------
(* Plans *)

LEMMA Groups1 ==
    ASSUME NEW n \in Nat \ {0}, NEW k \in Nat \ {0}
    PROVE  /\ (n + k - 1) \div k \in Nat \ {0}
           /\ \A i \in 1 .. n : ((i - 1) \div k) + 1 \in 1 .. ((n + k - 1) \div k)
<1>1. ASSUME NEW a \in Nat
      PROVE  a \div k \in Nat /\ (a + k) \div k = (a \div k) + 1
  OBVIOUS
<1>2. ASSUME NEW a \in Nat, NEW b \in Nat, a <= b
      PROVE  a \div k <= b \div k
  BY <1>2
<1>3. n + k - 1 = (n - 1) + k /\ n - 1 \in Nat
  OBVIOUS
<1>4. (n + k - 1) \div k = ((n - 1) \div k) + 1 /\ (n - 1) \div k \in Nat
  BY <1>1, <1>3
<1>5. ASSUME NEW i \in 1 .. n
      PROVE  ((i - 1) \div k) + 1 \in 1 .. ((n + k - 1) \div k)
  <2>1. i - 1 \in Nat /\ i - 1 <= n - 1
    OBVIOUS
  <2>2. (i - 1) \div k \in Nat /\ (i - 1) \div k <= (n - 1) \div k
    BY <1>1, <1>2, <1>3, <2>1
  <2> QED BY <1>4, <2>2
<1> QED BY <1>4, <1>5

\* A plan numbers its rows from 1, and its sections and tables have different names.
LEMMA PlanIsGeometry ==
    ASSUME NEW n \in Nat \ {0}
    PROVE  LET d == Plan(n) IN
           /\ IsGeometry(d) /\ Allowed(d)
           /\ \E k \in Nat : DOMAIN d = 1 .. k
           /\ \A i \in DOMAIN d : d[i].kind = "seat" => d[i].section = d[d[i].table].section
<1> DEFINE tables   == (n + SeatsPerTable - 1) \div SeatsPerTable
           sections == (tables + TablesPerSection - 1) \div TablesPerSection
           SectionOf(t) == n + tables + ((t - 1) \div TablesPerSection) + 1
           TableOf(i) == ((i - 1) \div SeatsPerTable) + 1
           k == n + tables + sections
           d == Plan(n)
<1>1. tables \in Nat \ {0} /\ \A i \in 1 .. n : TableOf(i) \in 1 .. tables
  BY LayoutAssumption, Groups1
<1> HIDE DEF tables
<1>2. /\ sections \in Nat \ {0}
      /\ \A t \in 1 .. tables : ((t - 1) \div TablesPerSection) + 1 \in 1 .. sections
  BY <1>1, LayoutAssumption, Groups1
<1> HIDE DEF sections
<1>3. \A t \in 1 .. tables : SectionOf(t) \in (n + tables + 1) .. k
  <2> SUFFICES ASSUME NEW t \in 1 .. tables
               PROVE  SectionOf(t) \in (n + tables + 1) .. k
    OBVIOUS
  <2> DEFINE g == ((t - 1) \div TablesPerSection) + 1
  <2>1. g \in 1 .. sections
    BY <1>2
  <2>2. SectionOf(t) = n + tables + g
    <3>1. ((t - 1) \div TablesPerSection) \in Int
      BY LayoutAssumption
    <3> QED BY <1>1, <3>1
  <2> HIDE DEF g, SectionOf
  <2> QED BY <1>1, <1>2, <2>1, <2>2
<1> DEFINE seat(i) == Row("seat", SectionOf(TableOf(i)), n + TableOf(i),
                          Name(((i - 1) % SeatsPerTable) + 1), 0)
           table(i) == Row("table", SectionOf(i - n), 0, Name(i - n), 0)
           section(i) == Row("section", 0, 0, Name(i - n - tables), 0)
<1>4. d = [i \in 1 .. k |-> IF i <= n THEN seat(i) ELSE IF i <= n + tables THEN table(i) ELSE section(i)]
  BY DEF Plan, tables, sections
<1>5. \A i \in 1 .. n : ((i - 1) % SeatsPerTable) + 1 \in Nat
  BY LayoutAssumption
<1> HIDE DEF SectionOf, TableOf, d
<1>6. DOMAIN d = 1 .. k /\ k \in Nat
  BY <1>1, <1>2, <1>4
<1>7. ASSUME NEW i \in 1 .. k
      PROVE  \/ i \in 1 .. n /\ d[i] = seat(i)
             \/ i \in (n + 1) .. (n + tables) /\ d[i] = table(i)
             \/ i \in (n + tables + 1) .. k /\ d[i] = section(i)
  BY <1>1, <1>2, <1>4
<1>8. /\ \A i \in 1 .. n : d[i] = seat(i)
      /\ \A i \in (n + 1) .. (n + tables) : d[i] = table(i) /\ i \in 1 .. k
      /\ \A i \in (n + tables + 1) .. k : d[i] = section(i) /\ i \in 1 .. k
  BY <1>1, <1>2, <1>4
<1> HIDE DEF k
<1>9. ASSUME NEW i \in (n + tables + 1) .. k
      PROVE  i \in Of("section", d)
  <2>1. d[i] = section(i) /\ i \in DOMAIN d
    BY <1>6, <1>8
  <2>2. d[i].kind = "section"
    BY <2>1 DEF Row
  <2> QED BY <2>1, <2>2 DEF Of
<1>10. \A i \in (n + 1) .. (n + tables) : i \in Of("table", d) /\ d[i].section = SectionOf(i - n)
                                            /\ d[i].section \in Of("section", d)
  <2> SUFFICES ASSUME NEW i \in (n + 1) .. (n + tables)
               PROVE  i \in Of("table", d) /\ d[i].section = SectionOf(i - n)
                                            /\ d[i].section \in Of("section", d)
    OBVIOUS
  <2>0. d[i] = table(i) /\ i \in DOMAIN d
    BY <1>6, <1>8
  <2>1. i \in Of("table", d) /\ d[i].section = SectionOf(i - n)
    BY <2>0 DEF Of, Row
  <2>2. i - n \in 1 .. tables
    BY <1>1
  <2> QED BY <1>3, <1>9, <2>1, <2>2
<1>11. \A i \in 1 .. n : /\ n + TableOf(i) \in (n + 1) .. (n + tables)
                         /\ d[i].section = d[d[i].table].section
                         /\ d[i].table = n + TableOf(i)
  <2> SUFFICES ASSUME NEW i \in 1 .. n
               PROVE  /\ n + TableOf(i) \in (n + 1) .. (n + tables)
                      /\ d[i].section = d[d[i].table].section
                      /\ d[i].table = n + TableOf(i)
    OBVIOUS
  <2>1. TableOf(i) \in 1 .. tables
    BY <1>1
  <2>2. n + TableOf(i) \in (n + 1) .. (n + tables) /\ (n + TableOf(i)) - n = TableOf(i)
    BY <1>1, <2>1
  <2>3. d[i] = seat(i)
    BY <1>8
  <2>4. d[i].table = n + TableOf(i) /\ d[i].section = SectionOf(TableOf(i))
    BY <2>3 DEF Row
  <2> QED BY <1>10, <2>2, <2>4
<1>12. ASSUME NEW i \in DOMAIN d
       PROVE  /\ d[i] = Row(d[i].kind, d[i].section, d[i].table, d[i].name, d[i].place)
              /\ d[i].place \in Nat
              /\ \/ d[i].kind = "section" /\ d[i].section = 0 /\ d[i].table = 0
                 \/ d[i].kind = "table" /\ d[i].section \in Of("section", d) /\ d[i].table = 0
                 \/ d[i].kind = "seat" /\ d[i].table \in Of("table", d)
  <2>1. CASE i \in 1 .. n /\ d[i] = seat(i)
    <3>1. d[i].table \in Of("table", d)
      BY <1>10, <1>11, <2>1
    <3> QED BY <1>5, <2>1, <3>1 DEF Row, Name
  <2>2. CASE i \in (n + 1) .. (n + tables) /\ d[i] = table(i)
    <3>1. i - n \in Nat
      BY <1>1, <2>2
    <3> QED BY <1>10, <2>2, <3>1 DEF Row, Name
  <2>3. CASE i \in (n + tables + 1) .. k /\ d[i] = section(i)
    <3>1. i - n - tables \in Nat
      BY <1>1, <2>3
    <3> QED BY <2>3, <3>1 DEF Row, Name
  <2> QED BY <1>6, <1>7, <2>1, <2>2, <2>3
<1>13. IsGeometry(d)
  <2>1. IsFiniteSet(DOMAIN d) /\ DOMAIN d \subseteq Nat \ {0}
    BY <1>6, FS_Interval
  <2> QED BY <1>12, <2>1 DEF IsGeometry
<1>14. Allowed(d)
  <2>1. ASSUME NEW i \in DOMAIN d
        PROVE  {d[i].section, d[i].table} \subseteq DOMAIN d \cup {0}
    <3>1. CASE d[i].kind = "seat"
      <4>1. d[i].table \in Of("table", d)
        BY <1>12, <3>1
      <4>2. d[d[i].table].section \in DOMAIN d
        BY <1>12, <4>1 DEF Of
      <4>3. d[i].section = d[d[i].table].section
        BY <1>6, <1>7, <1>11, <3>1 DEF Row
      <4> QED BY <4>1, <4>2, <4>3 DEF Of
    <3>2. CASE d[i].kind # "seat"
      BY <1>12, <3>2 DEF Of
    <3> QED BY <3>1, <3>2
  <2>2. ASSUME NEW i \in DOMAIN d, NEW j \in DOMAIN d \ {i}, d[i].kind # "seat", d[j].kind = d[i].kind
        PROVE  d[j].name # d[i].name
    <3>1. CASE d[i].kind = "table"
      <4>1. d[i].name = Name(i - n) /\ d[j].name = Name(j - n)
        BY <1>6, <1>7, <2>2, <3>1 DEF Row
      <4> QED BY <1>6, <4>1 DEF Name
    <3>2. CASE d[i].kind = "section"
      <4>1. d[i].name = Name(i - n - tables) /\ d[j].name = Name(j - n - tables)
        BY <1>6, <1>7, <2>2, <3>2 DEF Row
      <4> QED BY <1>1, <1>6, <4>1 DEF Name
    <3> QED BY <1>12, <2>2, <3>1, <3>2
  <2> QED BY <2>1, <2>2 DEF Allowed
<1>15. \A i \in DOMAIN d : d[i].kind = "seat" => d[i].section = d[d[i].table].section
  BY <1>6, <1>7, <1>11 DEF Row
<1> QED BY <1>6, <1>13, <1>14, <1>15 DEF d

-----------------------------------------------------------------------------
(* Lineage *)

IsRow(r) == r = Row(r.kind, r.section, r.table, r.name, r.place) /\ r.place \in Nat

\* Row r belongs to rows of G: a seat to a section and to a table or none.
Fits(r, G) ==
    \/ r.kind = "section" /\ r.section = 0 /\ r.table = 0
    \/ r.kind = "table" /\ r.section \in Of("section", G) /\ r.table = 0
    \/ /\ r.kind = "seat" /\ r.section \in Of("section", G)
       /\ r.table \in Of("table", G) \cup {0}

\* Seats of G at a table of another section.
Agrees(r, G) == r.kind = "seat" /\ r.table # 0 => G[r.table].section = r.section

Strays(G) == {i \in DOMAIN G : ~Agrees(G[i], G)}

\* G knows every row there ever was.  Where a row belongs never changes, so a table and its
\* seats agree on their section in all drawings or in none, whatever has been deleted since.
Lineage(G) == \A i \in DOMAIN G : i \in Nat \ {0} /\ Fits(G[i], G)

\* The rows of d are those of G, renamed and moved perhaps.
Akin(d, G) ==
    \A i \in DOMAIN d : /\ i \in DOMAIN G /\ IsRow(d[i])
                        /\ d[i].kind = G[i].kind
                        /\ d[i].section = G[i].section /\ d[i].table = G[i].table

Extends(H, G) == DOMAIN G \subseteq DOMAIN H /\ \A i \in DOMAIN G : H[i] = G[i]

\* The layout and all rows there ever were.
LayoutInv(G) ==
    /\ next \in Nat /\ DOMAIN G \subseteq 1 .. next
    /\ Lineage(G) /\ Akin(rows, G) /\ Allowed(rows)
    /\ Strays(G) \subseteq astray

LEMMA FitsKept ==
    ASSUME NEW r, NEW G, NEW H, Fits(r, G), Extends(H, G)
    PROVE  Fits(r, H)
BY DEF Fits, Extends, Of

\* New rows that fit continue a lineage.
LEMMA LineageJoined ==
    ASSUME NEW G, Lineage(G), NEW N, DOMAIN N \subseteq Nat \ {0}, DOMAIN N \cap DOMAIN G = {},
           \A i \in DOMAIN N : Fits(N[i], Join(G, N))
    PROVE  Lineage(Join(G, N)) /\ Extends(Join(G, N), G) /\ Extends(Join(G, N), N)
<1>1. Extends(Join(G, N), G) /\ Extends(Join(G, N), N)
  BY DEF Extends, Join
<1>2. \A i \in DOMAIN Join(G, N) : i \in DOMAIN G \/ i \in DOMAIN N
  BY DEF Join
<1>3. ASSUME NEW i \in DOMAIN G
      PROVE  i \in Nat \ {0} /\ Fits(Join(G, N)[i], Join(G, N))
  <2>1. i \in Nat \ {0} /\ Fits(G[i], G) /\ Join(G, N)[i] = G[i]
    BY <1>1 DEF Lineage, Extends
  <2> QED BY <1>1, <2>1, FitsKept
<1>4. ASSUME NEW i \in DOMAIN N
      PROVE  i \in Nat \ {0} /\ Fits(Join(G, N)[i], Join(G, N))
  BY <1>1 DEF Extends
<1> QED BY <1>1, <1>2, <1>3, <1>4 DEF Lineage

\* What is said of a seat and its table stays true.
LEMMA StraysKept ==
    ASSUME NEW G, Lineage(G), NEW H, Extends(H, G)
    PROVE  \A i \in DOMAIN G : i \in Strays(H) <=> i \in Strays(G)
BY DEF Lineage, Fits, Extends, Strays, Agrees, Of

LEMMA AkinKept ==
    ASSUME NEW d, NEW G, NEW H, Akin(d, G), Extends(H, G)
    PROVE  Akin(d, H)
BY DEF Akin, Extends

LEMMA TreeOfLineage ==
    ASSUME NEW G, LayoutInv(G)
    PROVE  TreeIsSound
<1> SUFFICES ASSUME NEW i \in DOMAIN rows
             PROVE  /\ rows[i].kind # "section" => rows[i].section \in Of("section", rows)
                    /\ rows[i].kind = "seat" /\ rows[i].table # 0 =>
                          /\ rows[i].table \in Of("table", rows)
                          /\ i \notin astray => rows[rows[i].table].section = rows[i].section
  BY DEF TreeIsSound
<1>1. \A j \in DOMAIN rows : /\ j \in DOMAIN G /\ rows[j].kind = G[j].kind
                             /\ rows[j].section = G[j].section /\ rows[j].table = G[j].table
  BY DEF LayoutInv, Akin
<1>2. {rows[i].section, rows[i].table} \subseteq DOMAIN rows \cup {0}
  BY DEF LayoutInv, Allowed
<1>3. /\ G[i].kind # "section" => G[i].section \in Of("section", G) /\ G[i].section # 0
      /\ G[i].kind = "seat" /\ G[i].table # 0 => G[i].table \in Of("table", G)
  BY <1>1 DEF LayoutInv, Lineage, Fits, Of
<1>4. i \notin astray => Agrees(G[i], G)
  BY <1>1 DEF LayoutInv, Strays
<1> QED BY <1>1, <1>2, <1>3, <1>4 DEF Of, Agrees

LEMMA PutNext ==
    ASSUME next \in Nat, NEW d, Put(d), NEW n \in Nat, DOMAIN d \subseteq 0 .. n
    PROVE  /\ next' \in Nat /\ next <= next' /\ \A i \in DOMAIN d : i <= next'
           /\ rows' = d
<1> DEFINE S == {next} \cup DOMAIN d
<1>1. PICK k \in Nat : next <= k /\ n <= k
  <2>1. next <= n + next /\ n <= n + next /\ n + next \in Nat
    OBVIOUS
  <2> QED BY <2>1
<1>2. S \in SUBSET (0 .. k) /\ S # {}
  BY <1>1
<1>3. next' = Max(S) /\ rows' = d
  BY DEF Put
<1> HIDE DEF S
<1>4. Max(S) \in Nat /\ \A y \in S : y <= Max(S)
  BY <1>2, MaxIsGreatest
<1> QED BY <1>3, <1>4 DEF S

LEMMA RowsNumbered ==
    ASSUME NEW G, LayoutInv(G)
    PROVE  /\ next \in Nat
           /\ DOMAIN rows \subseteq 1 .. next
           /\ DOMAIN rows \subseteq 0 .. next
<1>1. next \in Nat /\ DOMAIN rows \subseteq 1 .. next
  BY DEF LayoutInv, Akin
<1>2. DOMAIN rows \subseteq 0 .. next
  <2>1. \A i \in 1 .. next : i \in 0 .. next
    BY <1>1
  <2> QED BY <1>1, <2>1
<1> QED BY <1>1, <1>2

LEMMA RowsFinite ==
    ASSUME NEW G, LayoutInv(G)
    PROVE  IsFiniteSet(DOMAIN rows)
<1>1. IsFiniteSet(1 .. next)
  BY RowsNumbered, FS_Interval
<1> QED BY <1>1, RowsNumbered, FS_Subset

LEMMA LayoutStays ==
    ASSUME NEW G, LayoutInv(G), next' \in Nat, next <= next', Akin(rows', G), Allowed(rows'),
           astray \subseteq astray'
    PROVE  LayoutInv(G)'
<1>1. DOMAIN G \subseteq 1 .. next'
  BY DEF LayoutInv
<1>2. Lineage(G)' /\ Akin(rows, G)' /\ Allowed(rows)'
  BY DEF LayoutInv, Lineage, Fits, Akin, Allowed, Of, IsRow, Row
<1>3. (Strays(G) \subseteq astray)'
  BY DEF LayoutInv, Strays, Agrees
<1> QED BY <1>1, <1>2, <1>3 DEF LayoutInv

\* The layout becomes d; H knows its new rows.
LEMMA LayoutGrows ==
    ASSUME NEW G, LayoutInv(G), NEW d, Put(d), NEW n \in Nat, DOMAIN d \subseteq 0 .. n,
           NEW H, Extends(H, G), DOMAIN H \subseteq DOMAIN G \cup DOMAIN d,
           Lineage(H), Akin(d, H), Allowed(d), Strays(H) \subseteq astray'
    PROVE  \E J : J = H /\ LayoutInv(J)'
<1>1. next' \in Nat /\ next <= next' /\ rows' = d /\ \A i \in DOMAIN d : i <= next'
  BY PutNext DEF LayoutInv
<1>2. DOMAIN H \subseteq 1 .. next'
  <2> SUFFICES ASSUME NEW i \in DOMAIN H
               PROVE  i \in 1 .. next'
    OBVIOUS
  <2>1. i \in Nat \ {0}
    BY DEF Lineage
  <2>2. i <= next'
    <3>1. i \in DOMAIN G => i <= next /\ next \in Nat
      BY <2>1 DEF LayoutInv
    <3> QED BY <1>1, <2>1, <3>1
  <2> QED BY <1>1, <2>1, <2>2
<1>3. Lineage(H)' /\ Akin(rows, H)' /\ Allowed(rows)'
  BY <1>1 DEF Lineage, Fits, Akin, Allowed, Of, IsRow, Row
<1>4. (Strays(H) \subseteq astray)'
  BY DEF Strays, Agrees
<1>5. LayoutInv(H)'
  BY <1>1, <1>2, <1>3, <1>4 DEF LayoutInv
<1> QED BY <1>5

\* Rows N are new to G, and continue its lineage.
Continues(N, G) ==
    /\ DOMAIN N \subseteq Nat \ {0} /\ DOMAIN N \cap DOMAIN G = {}
    /\ \A i \in DOMAIN N : IsRow(N[i]) /\ Fits(N[i], Join(G, N))

\* New rows N join the rows r of a lineage.
Joined(G, r, N) ==
    /\ Lineage(Join(G, N)) /\ Extends(Join(G, N), G)
    /\ Akin(Join(r, N), Join(G, N))
    /\ DOMAIN Join(G, N) = DOMAIN G \cup DOMAIN N
    /\ DOMAIN Join(r, N) = DOMAIN r \cup DOMAIN N
    /\ Extends(Join(r, N), r) /\ Extends(Join(r, N), N)

LEMMA RowsJoined ==
    ASSUME NEW G, Lineage(G), NEW r, Akin(r, G), NEW N, Continues(N, G)
    PROVE  Joined(G, r, N)
<1> DEFINE H == Join(G, N)
<1>1. /\ DOMAIN N \subseteq Nat \ {0} /\ DOMAIN N \cap DOMAIN G = {}
      /\ \A i \in DOMAIN N : IsRow(N[i]) /\ Fits(N[i], Join(G, N))
  BY DEF Continues
<1>2. Lineage(H) /\ Extends(H, G) /\ Extends(H, N)
  BY <1>1, LineageJoined
<1>3. Akin(r, H)
  BY <1>2, AkinKept
<1>4. DOMAIN r \cap DOMAIN N = {}
  BY <1>1 DEF Akin
<1>5. /\ DOMAIN H = DOMAIN G \cup DOMAIN N
      /\ DOMAIN Join(r, N) = DOMAIN r \cup DOMAIN N
      /\ \A i \in DOMAIN r : Join(r, N)[i] = r[i]
      /\ \A i \in DOMAIN N : Join(r, N)[i] = N[i]
  BY <1>4 DEF Join
<1> HIDE DEF H
<1>6. Akin(Join(r, N), H)
  BY <1>1, <1>2, <1>3, <1>5 DEF Akin, Extends
<1>7. Extends(Join(r, N), r) /\ Extends(Join(r, N), N)
  BY <1>5 DEF Extends
<1> QED BY <1>2, <1>5, <1>6, <1>7 DEF H, Joined

\* Seats at a table of another section are old or among N.
LEMMA StraysJoined ==
    ASSUME NEW G, Lineage(G), NEW N, Continues(N, G), NEW A, Strays(G) \subseteq A,
           \A i \in DOMAIN N : Agrees(N[i], Join(G, N)) \/ i \in A
    PROVE  Strays(Join(G, N)) \subseteq A
<1> DEFINE H == Join(G, N)
<1>1. Extends(H, G) /\ DOMAIN H = DOMAIN G \cup DOMAIN N
  BY DEF Extends, Join
<1>2. \A i \in DOMAIN N : H[i] = N[i]
  BY DEF Continues, Join
<1> HIDE DEF H
<1>3. \A i \in DOMAIN G : i \in Strays(H) <=> i \in Strays(G)
  BY <1>1, StraysKept
<1>4. \A i \in DOMAIN N : i \in Strays(H) => ~Agrees(N[i], H)
  BY <1>2 DEF Strays
<1>5. Strays(H) \subseteq DOMAIN G \cup DOMAIN N
  BY <1>1 DEF Strays
<1>6. Strays(H) \subseteq A
  BY <1>3, <1>4, <1>5 DEF H
<1> QED BY <1>6 DEF H

\* New identifiers m for rows X are different.
Apart(m, X) == \A i, j \in X : m[i] = m[j] => i = j

AreRows(d, X) == X \subseteq DOMAIN d /\ \A i \in X : IsRow(d[i])

\* N are the rows X of d at identifiers m.
Redrawn(N, d, X, m) ==
    /\ DOMAIN N = {m[i] : i \in X}
    /\ \A i \in X : /\ IsRow(N[m[i]]) /\ N[m[i]].kind = d[i].kind
                     /\ N[m[i]].name = d[i].name /\ N[m[i]].place = d[i].place
                     /\ N[m[i]].section = To(m, d[i].section)
                     /\ N[m[i]].table = To(m, d[i].table)

LEMMA RowsDrawn ==
    ASSUME NEW d, NEW X, AreRows(d, X), NEW m, Apart(m, X)
    PROVE  Redrawn(Drawn(d, X, m), d, X, m)
<1> DEFINE N == Drawn(d, X, m)
<1>1. DOMAIN N = {m[i] : i \in X}
  BY DEF Drawn
<1>2. ASSUME NEW i \in X
      PROVE  /\ IsRow(N[m[i]]) /\ N[m[i]].kind = d[i].kind
             /\ N[m[i]].name = d[i].name /\ N[m[i]].place = d[i].place
             /\ N[m[i]].section = To(m, d[i].section)
             /\ N[m[i]].table = To(m, d[i].table)
  <2> DEFINE j == CHOOSE j \in X : m[j] = m[i]
             a == To(m, d[i].section)
             b == To(m, d[i].table)
             q == N[m[i]]
  <2>1. j = i
    BY DEF Apart
  <2>2. q = [d[j] EXCEPT !.section = To(m, d[j].section), !.table = To(m, d[j].table)]
    BY DEF Drawn
  <2>3. q = [d[i] EXCEPT !.section = a, !.table = b]
    BY <2>1, <2>2
  <2>4. IsRow(d[i])
    BY DEF AreRows
  <2> HIDE DEF a, b, q
  <2>5. /\ IsRow(q) /\ q.kind = d[i].kind /\ q.section = a /\ q.table = b
        /\ q.name = d[i].name /\ q.place = d[i].place
    BY <2>3, <2>4 DEF IsRow, Row
  <2> QED BY <2>5 DEF a, b, q
<1> HIDE DEF N
<1>3. Redrawn(N, d, X, m)
  BY <1>1, <1>2 DEF Redrawn
<1> QED BY <1>3 DEF N

-----------------------------------------------------------------------------
(* What the operations make of the layout *)

\* Deleting rows with all that belongs to them.
LEMMA WithoutStays ==
    ASSUME NEW G, LayoutInv(G), NEW X \in SUBSET DOMAIN rows, Put(Without(X)),
           astray \subseteq astray'
    PROVE  LayoutInv(G)' /\ rows' = Without(X)
<1> DEFINE d == Without(X)
           Y == X \cup {i \in DOMAIN rows : rows[i].section \in X}
<1>1. DOMAIN d = DOMAIN rows \ Cascade(X) /\ \A i \in DOMAIN d : d[i] = rows[i]
  BY DEF Without
<1>2. Cascade(X) = Y \cup {i \in DOMAIN rows : rows[i].table \in Y}
  BY DEF Cascade
<1>3. \A i \in DOMAIN rows : /\ i \in DOMAIN G /\ rows[i].kind = G[i].kind
                             /\ rows[i].section = G[i].section /\ rows[i].table = G[i].table
  BY DEF LayoutInv, Akin
<1>4. \A i \in DOMAIN G : Fits(G[i], G) /\ i # 0 /\ i \in 1 .. next
  BY DEF LayoutInv, Lineage
<1>5. Akin(d, G)
  BY <1>1 DEF LayoutInv, Akin
<1>6. Allowed(d)
  <2>1. ASSUME NEW i \in DOMAIN d
        PROVE  {d[i].section, d[i].table} \subseteq DOMAIN d \cup {0}
    <3>1. i \in DOMAIN rows /\ d[i] = rows[i] /\ i \notin Y /\ rows[i].table \notin Y
      BY <1>1, <1>2
    <3>2. {rows[i].section, rows[i].table} \subseteq DOMAIN rows \cup {0}
      BY <3>1 DEF LayoutInv, Allowed
    <3>3. rows[i].section # 0 => rows[i].section \notin Cascade(X)
      <4> DEFINE s == rows[i].section
      <4> SUFFICES ASSUME s # 0
                   PROVE  s \notin Cascade(X)
        OBVIOUS
      <4>1. s \in DOMAIN rows /\ s \notin X
        BY <3>1, <3>2
      <4>2. G[s].kind = "section" /\ s \in DOMAIN G
        BY <1>3, <1>4, <3>1 DEF Fits, Of
      <4>3. rows[s].section = 0 /\ rows[s].table = 0
        BY <1>3, <1>4, <4>1, <4>2 DEF Fits
      <4>4. 0 \notin Y
        BY <1>3, <1>4
      <4> QED BY <1>2, <1>3, <1>4, <4>1, <4>3, <4>4
    <3>4. rows[i].table # 0 => rows[i].table \notin Cascade(X)
      <4> DEFINE t == rows[i].table
      <4> SUFFICES ASSUME t # 0
                   PROVE  t \notin Cascade(X)
        OBVIOUS
      <4>1. G[t].kind = "table" /\ t \in DOMAIN G
        BY <1>3, <1>4, <3>1 DEF Fits, Of
      <4>2. t \in DOMAIN rows /\ rows[t].table = 0
        BY <1>3, <1>4, <3>2, <4>1 DEF Fits
      <4>3. 0 \notin Y
        BY <1>3, <1>4
      <4> QED BY <1>2, <3>1, <4>2, <4>3
    <3> QED BY <1>1, <3>1, <3>2, <3>3, <3>4
  <2>2. \A i \in DOMAIN d : d[i].kind # "seat" =>
          ~\E j \in DOMAIN d \ {i} : /\ d[j].kind = d[i].kind
                                     /\ d[j].section = d[i].section
                                     /\ d[j].name = d[i].name
    BY <1>1 DEF LayoutInv, Allowed
  <2> QED BY <2>1, <2>2 DEF Allowed
<1>7. DOMAIN d \subseteq 0 .. next /\ next \in Nat /\ Put(d)
  BY <1>1, <1>3, <1>4 DEF LayoutInv
<1> HIDE DEF d
<1>8. next' \in Nat /\ next <= next' /\ rows' = d
  BY <1>7, PutNext
<1> QED BY <1>5, <1>6, <1>8, LayoutStays DEF d

\* Renaming and moving rows.
LEMMA EditStays ==
    ASSUME NEW G, LayoutInv(G), NEW d, DOMAIN d = DOMAIN rows, Put(d), Allowed(d),
           astray \subseteq astray',
           \A i \in DOMAIN d : \E name : \E place \in Nat :
               d[i] = [rows[i] EXCEPT !.name = name, !.place = place]
    PROVE  LayoutInv(G)'
<1>1. Akin(d, G)
  BY DEF LayoutInv, Akin, IsRow, Row
<1>2. DOMAIN d \subseteq 0 .. next /\ next \in Nat
  BY RowsNumbered
<1>3. next' \in Nat /\ next <= next' /\ rows' = d
  BY <1>2, PutNext
<1> QED BY <1>1, <1>3, LayoutStays

\* One new row.
LEMMA CreateGrows ==
    ASSUME NEW G, LayoutInv(G), NEW r, IsRow(r), Fits(r, rows),
           NEW d, d = Join(rows, One(next + 1, r)), Put(d), Allowed(d),
           astray \subseteq astray', Agrees(r, rows) \/ next + 1 \in astray'
    PROVE  \E H : LayoutInv(H)' /\ Extends(H, G)
<1> DEFINE N == One(next + 1, r)
<1>1. DOMAIN N = {next + 1} /\ N[next + 1] = r
  BY DEF One
<1>2. next \in Nat /\ DOMAIN G \subseteq 1 .. next /\ Lineage(G) /\ Akin(rows, G)
  BY DEF LayoutInv
<1>3. DOMAIN N \cap DOMAIN G = {} /\ DOMAIN N \subseteq Nat \ {0}
  BY <1>1, <1>2
<1>4. Fits(r, G)
  BY <1>2 DEF Fits, Of, Akin
<1>5. Extends(Join(G, N), G)
  BY DEF Extends, Join
<1>6. Fits(r, Join(G, N))
  BY <1>4, <1>5, FitsKept
<1>10. d = Join(rows, N) /\ \A i \in DOMAIN N : IsRow(N[i]) /\ Fits(N[i], Join(G, N))
  BY <1>1, <1>6
<1>11. Agrees(r, rows) => Agrees(r, Join(G, N))
  BY <1>2, <1>5 DEF Agrees, Fits, Of, Akin, Extends
<1>12. \A i \in DOMAIN N : Agrees(N[i], Join(G, N)) \/ i \in astray'
  BY <1>1, <1>11
<1> HIDE DEF N
<1>13. Continues(N, G)
  BY <1>3, <1>10 DEF Continues
<1>7. /\ Lineage(Join(G, N)) /\ Akin(Join(rows, N), Join(G, N))
      /\ DOMAIN Join(G, N) = DOMAIN G \cup DOMAIN N
      /\ DOMAIN d = DOMAIN rows \cup DOMAIN N
  BY <1>2, <1>10, <1>13, RowsJoined DEF Joined
<1>14. Strays(Join(G, N)) \subseteq astray'
  <2>1. Strays(G) \subseteq astray'
    BY DEF LayoutInv
  <2> QED BY <1>2, <1>12, <1>13, <2>1, StraysJoined
<1>8. DOMAIN d \subseteq 0 .. (next + 1) /\ next + 1 \in Nat
  <2>1. \A i \in 1 .. next : i \in 0 .. (next + 1)
    BY <1>2
  <2>2. next + 1 \in Nat /\ next + 1 \in 0 .. (next + 1)
    BY <1>2
  <2> QED BY <1>1, <1>7, <2>1, <2>2, RowsNumbered
<1>9. Akin(d, Join(G, N))
  BY <1>7 DEF N
<1> QED BY <1>5, <1>7, <1>8, <1>9, <1>14, LayoutGrows

\* Fresh identifiers are not known to the lineage.
LEMMA FreshRows ==
    ASSUME NEW G, LayoutInv(G), NEW X \in SUBSET (Nat \ {0}), IsFiniteSet(X)
    PROVE  /\ next + Cardinality(X) \in Nat
           /\ DOMAIN Fresh(X) = X
           /\ \A i \in X : /\ Fresh(X)[i] \in Nat \ {0} /\ Fresh(X)[i] \notin DOMAIN G
                           /\ Fresh(X)[i] \in 0 .. (next + Cardinality(X))
           /\ \A i, j \in X : Fresh(X)[i] = Fresh(X)[j] => i = j
           /\ \A k \in DOMAIN rows : k \in 0 .. (next + Cardinality(X))
<1>1. next \in Nat /\ DOMAIN G \subseteq 1 .. next
  BY DEF LayoutInv
<1>2. /\ Cardinality(X) \in Nat
      /\ \A i \in X : Fresh(X)[i] \in (next + 1) .. (next + Cardinality(X))
      /\ \A i, j \in X : Fresh(X)[i] = Fresh(X)[j] => i = j
  BY <1>1, FreshIsNew
<1>3. DOMAIN Fresh(X) = X
  BY DEF Fresh
<1> DEFINE c == Cardinality(X)
<1> HIDE DEF c
<1>4. c \in Nat /\ \A i \in X : Fresh(X)[i] \in (next + 1) .. (next + c)
  BY <1>2 DEF c
<1>5. \A k \in (next + 1) .. (next + c) : k \in Nat \ {0} /\ k \notin 1 .. next /\ k \in 0 .. (next + c)
  BY <1>1, <1>4
<1>6. \A k \in 1 .. next : k \in 0 .. (next + c)
  BY <1>1, <1>4
<1>7. next + c \in Nat
  BY <1>1, <1>4
<1>8. \A k \in DOMAIN rows : k \in 0 .. (next + c)
  BY <1>6, RowsNumbered
<1>9. \A i \in X : /\ Fresh(X)[i] \in Nat \ {0} /\ Fresh(X)[i] \notin DOMAIN G
                   /\ Fresh(X)[i] \in 0 .. (next + c)
  BY <1>1, <1>4, <1>5
<1> QED BY <1>2, <1>3, <1>7, <1>8, <1>9 DEF c

\* Rows X of d, at the new identifiers m, belong to rows of G.
Placed(d, X, m, G) ==
    \A i \in X :
        /\ m[i] \in Nat \ {0} /\ m[i] \notin DOMAIN G
        /\ \/ /\ d[i].kind = "section" /\ To(m, d[i].section) = 0
              /\ To(m, d[i].table) = 0
           \/ /\ d[i].kind = "table" /\ To(m, d[i].section) \in Of("section", G)
              /\ To(m, d[i].table) = 0
           \/ /\ d[i].kind = "seat" /\ To(m, d[i].section) \in Of("section", G)
              /\ To(m, d[i].table) \in Of("table", G) \cup {0}

LEMMA DrawnContinues ==
    ASSUME NEW G, NEW d, NEW X, AreRows(d, X), NEW m, Apart(m, X), Placed(d, X, m, G)
    PROVE  Continues(Drawn(d, X, m), G)
<1> DEFINE N == Drawn(d, X, m)
<1>1. Redrawn(N, d, X, m)
  BY RowsDrawn
<1> HIDE DEF N
<1>2. Extends(Join(G, N), G)
  BY DEF Extends, Join
<1>3. ASSUME NEW i \in X
      PROVE  m[i] \in Nat \ {0} /\ m[i] \notin DOMAIN G /\ IsRow(N[m[i]]) /\ Fits(N[m[i]], Join(G, N))
  <2>1. Fits(N[m[i]], G) /\ IsRow(N[m[i]])
    BY <1>1 DEF Fits, Redrawn, Placed
  <2>2. Fits(N[m[i]], Join(G, N))
    BY <1>2, <2>1, FitsKept
  <2> QED BY <2>1, <2>2 DEF Placed
<1>4. Continues(N, G)
  BY <1>1, <1>3 DEF Redrawn, Continues
<1> QED BY <1>4 DEF N

LEMMA GeometryRows ==
    ASSUME NEW d, IsGeometry(d)
    PROVE  /\ IsFiniteSet(DOMAIN d) /\ DOMAIN d \in SUBSET (Nat \ {0}) /\ 0 \notin DOMAIN d
           /\ \A i \in DOMAIN d : IsRow(d[i])
           /\ \A i \in Of("section", d) : i \in DOMAIN d /\ d[i].section = 0 /\ d[i].table = 0
           /\ \A i \in Of("table", d) : /\ i \in DOMAIN d /\ d[i].table = 0
                                        /\ d[i].section \in Of("section", d)
           /\ \A i \in Of("seat", d) : i \in DOMAIN d /\ d[i].table \in Of("table", d)
BY DEF IsGeometry, IsRow, Of

\* What writeGeometry makes of geometry d: sections it does not find, tables, and seats at
\* tables that are there.
LEMMA WriteGrows ==
    ASSUME NEW G, LayoutInv(G), NEW p, IsGeometry(input[p]), WriteGeometry(p)
    PROVE  Throw(p) \/ \E H : LayoutInv(H)' /\ Extends(H, G)
<1> DEFINE d == input[p]
           id == Fresh(DOMAIN d)
           Named(s, r) == {i \in Of("section", r) : r[i].name = d[s].name}
           new == {s \in Of("section", d) :
                    /\ Named(s, rows) = {}
                    /\ \A t \in Of("section", d) : d[t].name = d[s].name => s <= t}
           N1 == Drawn(d, new, id)
           r1 == Join(rows, N1)
           section == [s \in Of("section", d) |-> CHOOSE i \in Named(s, r1) : TRUE]
           tables == Of("table", d)
           m2 == [i \in DOMAIN d |-> IF i \in tables THEN id[i]
                                     ELSE IF i \in DOMAIN section THEN section[i] ELSE i]
           N2 == Drawn(d, tables, m2)
           r2 == Join(r1, N2)
           names == {d[t].name : t \in tables}
           c == next + Cardinality(DOMAIN d)
           G1 == Join(G, N1)
           G2 == Join(G1, N2)
<1>1. /\ IsFiniteSet(DOMAIN d) /\ DOMAIN d \in SUBSET (Nat \ {0}) /\ 0 \notin DOMAIN d
      /\ \A i \in DOMAIN d : IsRow(d[i])
      /\ \A i \in Of("section", d) : i \in DOMAIN d /\ d[i].section = 0 /\ d[i].table = 0
      /\ \A i \in Of("table", d) : /\ i \in DOMAIN d /\ d[i].table = 0
                                   /\ d[i].section \in Of("section", d)
      /\ \A i \in Of("seat", d) : i \in DOMAIN d /\ d[i].table \in Of("table", d)
  BY GeometryRows
<1>2. /\ c \in Nat /\ DOMAIN id = DOMAIN d
      /\ \A i \in DOMAIN d : id[i] \in Nat \ {0} /\ id[i] \notin DOMAIN G /\ id[i] \in 0 .. c
      /\ \A i, j \in DOMAIN d : id[i] = id[j] => i = j
      /\ \A k \in DOMAIN rows : k \in 0 .. c
  <2> HIDE DEF d
  <2> QED BY <1>1, FreshRows
<1>3. Lineage(G) /\ Akin(rows, G) /\ Allowed(rows)
  BY DEF LayoutInv
<1>4. /\ pc[p] = "write"
      /\ \E table \in [names -> Of("table", r2)] :
            /\ \A n \in names : r2[table[n]].name = n
            /\ LET At(i) == table[d[d[i].table].name]
                   seats == [n \in {id[i] : i \in Of("seat", d)} |->
                               LET i == CHOOSE i \in Of("seat", d) : id[i] = n
                               IN  [d[i] EXCEPT !.table = At(i), !.section = r2[At(i)].section]]
               IN  \/ Allowed(r2) /\ Put(Join(r2, seats)) /\ astray' = astray
                   \/ Throw(p)
  BY DEF WriteGeometry, SectionOfSeat
<1> HIDE DEF d, id, c
\* The sections.
<1>5. new \subseteq Of("section", d)
  OBVIOUS
<1>6. AreRows(d, new) /\ Apart(id, new) /\ Placed(d, new, id, G)
  <2>1. \A i \in new : i \in DOMAIN d /\ d[i].kind = "section" /\ d[i].section = 0 /\ d[i].table = 0
    BY <1>1 DEF Of
  <2>2. To(id, 0) = 0
    BY <1>1, <1>2 DEF To
  <2> HIDE DEF new
  <2> QED BY <1>1, <1>2, <2>1, <2>2 DEF AreRows, Apart, Placed
<1> HIDE DEF N1, G1
<1>7. Continues(N1, G) /\ Redrawn(N1, d, new, id)
  BY <1>6, DrawnContinues, RowsDrawn DEF N1
<1>8. Joined(G, rows, N1)
  BY <1>3, <1>7, RowsJoined
<1>9. ASSUME NEW s \in Of("section", d)
      PROVE  Named(s, r1) # {}
  <2> DEFINE S == {t \in Of("section", d) : d[t].name = d[s].name}
  <2>1. PICK t \in S : \A u \in S : t <= u
    <3>1. s \in S /\ S \in SUBSET Nat
      BY <1>1
    <3> HIDE DEF S
    <3> QED BY <3>1, LeastNumber
  <2>2. CASE Named(s, rows) # {}
    <3>1. PICK i \in Named(s, rows) : TRUE
      BY <2>2
    <3>2. i \in Named(s, r1)
      BY <1>8 DEF Joined, Extends, Of
    <3> QED BY <3>2
  <2>3. CASE Named(s, rows) = {}
    <3>1. t \in new
      BY <2>1, <2>3
    <3>2. id[t] \in DOMAIN N1 /\ N1[id[t]].kind = "section" /\ N1[id[t]].name = d[s].name
      BY <2>1, <3>1, <1>7 DEF Redrawn, Of
    <3>3. id[t] \in Named(s, r1)
      BY <3>2, <1>8 DEF Joined, Extends, Of
    <3> QED BY <3>3
  <2> QED BY <2>2, <2>3
<1>10. \A s \in Of("section", d) : section[s] \in Of("section", r1)
  BY <1>9
<1> HIDE DEF r1, section, new
<1>11. /\ Lineage(G1) /\ Extends(G1, G) /\ Akin(r1, G1)
       /\ DOMAIN G1 = DOMAIN G \cup {id[i] : i \in new}
       /\ DOMAIN r1 = DOMAIN rows \cup {id[i] : i \in new}
  BY <1>7, <1>8 DEF Joined, Redrawn, G1, r1
\* The tables.
<1>12. AreRows(d, tables) /\ Apart(m2, tables) /\ Placed(d, tables, m2, G1)
  <2>1. \A i \in tables : i \in DOMAIN d /\ m2[i] = id[i] /\ i \notin new
    BY <1>1, <1>5 DEF Of
  <2>2. To(m2, 0) = 0
    BY <1>1 DEF To
  <2>3. \A s \in Of("section", d) : s \in DOMAIN d /\ s \notin tables /\ s \in DOMAIN section
    BY DEF Of, section
  <2>4. \A s \in Of("section", d) : To(m2, s) = section[s]
    BY <2>3 DEF To
  <2>5. \A i \in Of("section", r1) : i \in Of("section", G1)
    BY <1>11 DEF Akin, Of
  <2>6. \A i \in tables : d[i].kind = "table" /\ d[i].table = 0 /\ d[i].section \in Of("section", d)
    BY <1>1 DEF Of
  <2>7. new \subseteq DOMAIN d
    BY <1>1, <1>5
  <2> HIDE DEF m2, tables
  <2>8. \A i \in tables : m2[i] \in Nat \ {0} /\ m2[i] \notin DOMAIN G1
    BY <1>2, <1>11, <2>1, <2>7
  <2>9. Placed(d, tables, m2, G1)
    BY <1>10, <2>2, <2>4, <2>5, <2>6, <2>8 DEF Placed
  <2> QED BY <1>1, <1>2, <2>1, <2>9 DEF AreRows, Apart
<1> HIDE DEF N2, G2
<1>13. Continues(N2, G1) /\ Redrawn(N2, d, tables, m2)
  BY <1>12, DrawnContinues, RowsDrawn DEF N2
<1>14. Joined(G1, r1, N2)
  BY <1>11, <1>13, RowsJoined
<1>15. \A i \in tables : i \in DOMAIN d /\ m2[i] = id[i]
  BY <1>1
<1> HIDE DEF r2, m2
<1>16. /\ Lineage(G2) /\ Extends(G2, G1) /\ Akin(r2, G2)
       /\ DOMAIN G2 = DOMAIN G1 \cup {id[i] : i \in tables}
       /\ DOMAIN r2 = DOMAIN r1 \cup {id[i] : i \in tables}
  BY <1>13, <1>14, <1>15 DEF Joined, Redrawn, G2, r2
\* The seats.
<1>17. PICK table \in [names -> Of("table", r2)] :
          LET At(i) == table[d[d[i].table].name]
              seats == [n \in {id[i] : i \in Of("seat", d)} |->
                          LET i == CHOOSE i \in Of("seat", d) : id[i] = n
                          IN  [d[i] EXCEPT !.table = At(i), !.section = r2[At(i)].section]]
          IN  \/ Allowed(r2) /\ Put(Join(r2, seats)) /\ astray' = astray
              \/ Throw(p)
  BY <1>4
<1> DEFINE At(i) == table[d[d[i].table].name]
           N3 == [n \in {id[i] : i \in Of("seat", d)} |->
                          LET i == CHOOSE i \in Of("seat", d) : id[i] = n
                          IN  [d[i] EXCEPT !.table = At(i), !.section = r2[At(i)].section]]
           G3 == Join(G2, N3)
           r3 == Join(r2, N3)
<1>18. \A i \in Of("seat", d) : At(i) \in Of("table", r2) /\ i \in DOMAIN d /\ d[i].kind = "seat"
  BY <1>1 DEF Of
<1>19. ASSUME NEW i \in Of("seat", d)
       PROVE  /\ N3[id[i]].kind = "seat" /\ IsRow(N3[id[i]])
              /\ N3[id[i]].table = At(i) /\ N3[id[i]].section = r2[At(i)].section
  <2> DEFINE j == CHOOSE j \in Of("seat", d) : id[j] = id[i]
             a == At(i)
             b == r2[a].section
             q == N3[id[i]]
  <2>1. j = i
    BY <1>2, <1>18
  <2>2. q = [d[j] EXCEPT !.table = At(j), !.section = r2[At(j)].section]
    OBVIOUS
  <2>3. q = [d[i] EXCEPT !.table = a, !.section = b]
    BY <2>1, <2>2
  <2>4. IsRow(d[i]) /\ d[i].kind = "seat"
    BY <1>1, <1>18
  <2> HIDE DEF a, b, q, At, N3
  <2>5. IsRow(q) /\ q.kind = "seat" /\ q.table = a /\ q.section = b
    BY <2>3, <2>4 DEF IsRow, Row
  <2> QED BY <2>5 DEF a, b, q
<1>20. DOMAIN N3 = {id[i] : i \in Of("seat", d)}
  OBVIOUS
<1> HIDE DEF N3, At, G3, r3
<1>21. Continues(N3, G2)
  <2>1. \A t \in Of("table", r2) : /\ t \in Of("table", G2) /\ r2[t].section = G2[t].section
                                   /\ r2[t].section \in Of("section", G2)
    BY <1>16 DEF Akin, Of, Lineage, Fits
  <2>2. \A i \in Of("seat", d) : Fits(N3[id[i]], G2)
    BY <1>18, <1>19, <2>1 DEF Fits
  <2>3. Extends(Join(G2, N3), G2)
    BY DEF Extends, Join
  <2>4. \A i \in Of("seat", d) : Fits(N3[id[i]], Join(G2, N3))
    BY <2>2, <2>3, FitsKept
  <2>5. \A i \in Of("seat", d) : i \in DOMAIN d /\ i \notin new /\ i \notin tables
    BY <1>1, <1>5 DEF Of
  <2>6. \A i \in Of("seat", d) : id[i] \in Nat \ {0} /\ id[i] \notin DOMAIN G2
    BY <1>1, <1>2, <1>5, <1>11, <1>15, <1>16, <2>5
  <2> QED BY <1>19, <1>20, <2>4, <2>6 DEF Continues
<1>26. \A i \in DOMAIN N3 : Agrees(N3[i], Join(G2, N3))
  <2>1. Extends(Join(G2, N3), G2)
    BY DEF Extends, Join
  <2>2. \A t \in Of("table", r2) : t \in DOMAIN G2 /\ r2[t].section = G2[t].section
    BY <1>16 DEF Akin, Of
  <2> QED BY <1>18, <1>19, <1>20, <2>1, <2>2 DEF Agrees, Extends
<1>27. ASSUME NEW H, Lineage(H), NEW N, Continues(N, H), Strays(H) \subseteq astray,
              \A i \in DOMAIN N : N[i].kind # "seat"
       PROVE  Strays(Join(H, N)) \subseteq astray
  <2>1. \A i \in DOMAIN N : Agrees(N[i], Join(H, N))
    BY <1>27 DEF Agrees
  <2> QED BY <1>27, <2>1, StraysJoined
<1>28. Strays(G3) \subseteq astray
  <2>1. /\ \A i \in DOMAIN N1 : N1[i].kind # "seat"
        /\ \A i \in DOMAIN N2 : N2[i].kind # "seat"
    BY <1>5, <1>7, <1>13 DEF Redrawn, Of
  <2>2. Strays(G1) \subseteq astray
    BY <1>3, <1>7, <1>27, <2>1 DEF LayoutInv, G1
  <2>3. Strays(G2) \subseteq astray
    BY <1>11, <1>13, <1>27, <2>1, <2>2 DEF G2
  <2> QED BY <1>16, <1>21, <1>26, <2>3, StraysJoined DEF G3
<1>22. Joined(G2, r2, N3)
  BY <1>16, <1>21, RowsJoined
<1>23. /\ Lineage(G3) /\ Extends(G3, G2) /\ Akin(r3, G3)
       /\ DOMAIN G3 = DOMAIN G2 \cup DOMAIN N3
       /\ DOMAIN r3 = DOMAIN r2 \cup DOMAIN N3
       /\ Extends(r3, r2) /\ Extends(r3, N3)
  BY <1>22 DEF Joined, G3, r3
<1>24. CASE Allowed(r2) /\ Put(r3) /\ astray' = astray
  <2>1. Allowed(r3)
    <3>1. ASSUME NEW i \in DOMAIN r3
          PROVE  {r3[i].section, r3[i].table} \subseteq DOMAIN r3 \cup {0}
      <4>1. CASE i \in DOMAIN r2
        BY <1>23, <1>24, <4>1 DEF Allowed, Extends
      <4>2. CASE i \in DOMAIN N3
        <5>1. PICK j \in Of("seat", d) : i = id[j]
          BY <1>20, <4>2
        <5>2. At(j) \in DOMAIN r2 /\ r2[At(j)].section \in DOMAIN r2 \cup {0}
          BY <1>18, <1>24 DEF Allowed, Of
        <5> QED BY <1>19, <1>23, <4>2, <5>1, <5>2 DEF Extends
      <4> QED BY <1>23, <4>1, <4>2
    <3>2. \A i \in DOMAIN r3 : r3[i].kind # "seat" => i \in DOMAIN r2 /\ r3[i] = r2[i]
      BY <1>19, <1>20, <1>23 DEF Extends
    <3>3. \A i \in DOMAIN r3 : r3[i].kind # "seat" =>
             ~\E j \in DOMAIN r3 \ {i} : /\ r3[j].kind = r3[i].kind
                                         /\ r3[j].section = r3[i].section
                                         /\ r3[j].name = r3[i].name
      BY <1>24, <3>2 DEF Allowed
    <3> QED BY <3>1, <3>3 DEF Allowed
  <2>2. Extends(G3, G)
    BY <1>11, <1>16, <1>23 DEF Extends
  <2>3. DOMAIN G3 \subseteq DOMAIN G \cup DOMAIN r3
    BY <1>11, <1>16, <1>23
  <2>4. DOMAIN r3 \subseteq 0 .. c
    BY <1>1, <1>2, <1>5, <1>11, <1>15, <1>16, <1>18, <1>20, <1>23
  <2>5. \E H : LayoutInv(H)' /\ Extends(H, G)
    BY <1>2, <1>23, <1>24, <1>28, <2>1, <2>2, <2>3, <2>4, LayoutGrows
  <2> QED BY <2>5
<1>25. Throw(p) \/ (Allowed(r2) /\ Put(r3) /\ astray' = astray)
  BY <1>17 DEF r3, N3, At
<1> QED BY <1>24, <1>25

\* Rows to be copied are those of G; a seat may be put to another section.
Copies(d, G) ==
    \A i \in DOMAIN d : /\ i \in DOMAIN G /\ IsRow(d[i]) /\ Fits(d[i], G)
                        /\ d[i].kind = G[i].kind /\ d[i].table = G[i].table
                        /\ d[i].kind # "seat" => d[i].section = G[i].section

\* The rows d are to be copied, and f says where those are that have been: copies belong to
\* the copies of what the rows belong to, and are made after them.
CopyInv(d, f, G) ==
    /\ IsFiniteSet(DOMAIN d) /\ Copies(d, G)
    /\ \A s \in Of("seat", d) : d[s].table \in DOMAIN d
    /\ DOMAIN f \subseteq DOMAIN d
    /\ \A i \in DOMAIN f :
         /\ f[i] \in DOMAIN G /\ G[f[i]].kind = d[i].kind
         /\ G[f[i]].section = To(f, d[i].section) /\ G[f[i]].table = To(f, d[i].table)
         /\ {d[i].section, d[i].table} \cap DOMAIN d \subseteq DOMAIN f

\* Seats that do not agree with their table are duplicated only, and did not before.
StraysCopied(o, d, G) ==
    \A s \in DOMAIN d : Agrees(d[s], d) \/ (o = "duplicate" /\ s \in Strays(G))

LEMMA CopyKept ==
    ASSUME NEW G, NEW H, Extends(H, G), NEW d, NEW f, CopyInv(d, f, G)
    PROVE  CopyInv(d, f, H)
<1>1. \A i \in DOMAIN d : Fits(d[i], H)
  BY FitsKept DEF CopyInv, Copies
<1>2. Copies(d, H)
  BY <1>1 DEF CopyInv, Copies, Extends
<1> QED BY <1>2 DEF CopyInv, Extends

LEMMA StraysCopiedKept ==
    ASSUME NEW G, Lineage(G), NEW H, Extends(H, G), NEW o, NEW d, StraysCopied(o, d, G)
    PROVE  StraysCopied(o, d, H)
<1>1. \A i \in DOMAIN G : i \in Strays(H) <=> i \in Strays(G)
  BY StraysKept
<1> QED BY <1>1 DEF StraysCopied, Strays

\* A batch: sections; seats at tables that have been copied; a table.
LEMMA BatchIsReady ==
    ASSUME NEW d, NEW f, NEW G, Lineage(G), CopyInv(d, f, G),
           NEW X \in Batches(d, DOMAIN d \ DOMAIN f)
    PROVE  /\ X \subseteq DOMAIN d \ DOMAIN f /\ 0 \notin DOMAIN d
           /\ \A i \in X : {d[i].section, d[i].table} \cap DOMAIN d \subseteq DOMAIN f
           /\ \A i \in X : d[i].kind = "seat" => d[i].table \in DOMAIN f
<1> DEFINE Y == DOMAIN d \ DOMAIN f
           open == {i \in Y : d[i].kind = "seat" /\ d[i].table \notin Y}
<1>1. \/ X = Of("section", d) \cap Y
      \/ Of("section", d) \cap Y = {} /\ X = open
      \/ Of("section", d) \cap Y = {} /\ \E t \in Of("table", d) \cap Y : X = {t}
  BY DEF Batches
<1>2. \A i \in DOMAIN d : /\ i \in DOMAIN G /\ i # 0
                          /\ Fits(d[i], G) /\ d[i].kind = G[i].kind
  BY DEF CopyInv, Copies, Lineage
<1>4. \A i \in DOMAIN d : i \in Of("section", G) => i \in Of("section", d)
  BY <1>2 DEF Of
<1>3. ASSUME NEW i \in X
      PROVE  /\ i \in Y
             /\ {d[i].section, d[i].table} \cap DOMAIN d \subseteq DOMAIN f
             /\ d[i].kind = "seat" => d[i].table \in DOMAIN f
  <2>1. CASE X = Of("section", d) \cap Y
    BY <1>2, <2>1 DEF Fits, Of
  <2>2. CASE Of("section", d) \cap Y = {} /\ X = open
    <3>1. i \in DOMAIN d /\ i \in Y /\ d[i].kind = "seat" /\ d[i].table \in DOMAIN f
      BY <2>2 DEF CopyInv, Of
    <3>2. d[i].section \in Of("section", G)
      BY <1>2, <3>1 DEF Fits
    <3> QED BY <1>4, <2>2, <3>1, <3>2
  <2>3. CASE Of("section", d) \cap Y = {} /\ \E t \in Of("table", d) \cap Y : X = {t}
    <3>1. i \in Y /\ i \in DOMAIN d /\ d[i].kind = "table"
      BY <2>3 DEF Of
    <3>2. d[i].table = 0 /\ d[i].section \in Of("section", G)
      BY <1>2, <3>1 DEF Fits
    <3> QED BY <1>2, <1>4, <2>3, <3>1, <3>2
  <2> QED BY <1>1, <2>1, <2>2, <2>3
<1> QED BY <1>2, <1>3

\* A batch of copies.
LEMMA CopyGrows ==
    ASSUME NEW G, LayoutInv(G), NEW d, NEW f, CopyInv(d, f, G),
           NEW X \in Batches(d, DOMAIN d \ DOMAIN f),
           NEW m, m = Join(f, Fresh(X)), NEW copied, copied = Join(rows, Drawn(d, X, m)),
           Allowed(copied), Put(copied), astray \subseteq astray',
           \A i \in X : Agrees(d[i], d) \/ m[i] \in astray'
    PROVE  \E H : LayoutInv(H)' /\ Extends(H, G) /\ CopyInv(d, m, H)
<1> DEFINE id == Fresh(X)
           c == next + Cardinality(X)
           N == Drawn(d, X, m)
           H == Join(G, N)
<1>1. Lineage(G) /\ Akin(rows, G) /\ next \in Nat /\ DOMAIN G \subseteq 1 .. next
  BY DEF LayoutInv
<1>2. /\ X \subseteq DOMAIN d \ DOMAIN f /\ 0 \notin DOMAIN d
      /\ \A i \in X : {d[i].section, d[i].table} \cap DOMAIN d \subseteq DOMAIN f
      /\ \A i \in X : d[i].kind = "seat" => d[i].table \in DOMAIN f
  BY <1>1, BatchIsReady
<1>3. \A i \in DOMAIN d : /\ i \in DOMAIN G /\ i \in Nat \ {0} /\ IsRow(d[i])
                          /\ Fits(d[i], G) /\ d[i].kind = G[i].kind
  BY <1>1 DEF CopyInv, Copies, Lineage
<1>4. /\ c \in Nat /\ DOMAIN id = X
      /\ \A i \in X : id[i] \in Nat \ {0} /\ id[i] \notin DOMAIN G /\ id[i] \in 0 .. c
      /\ \A i, j \in X : id[i] = id[j] => i = j
      /\ \A k \in DOMAIN rows : k \in 0 .. c
  <2>1. IsFiniteSet(DOMAIN d)
    BY DEF CopyInv
  <2>2. X \subseteq DOMAIN d /\ X \in SUBSET (Nat \ {0})
    BY <1>2, <1>3
  <2>3. IsFiniteSet(X)
    BY <2>1, <2>2, FS_Subset
  <2> QED BY <2>2, <2>3, FreshRows
<1> HIDE DEF id, c
<1>5. /\ DOMAIN m = DOMAIN f \cup X
      /\ \A i \in DOMAIN f : m[i] = f[i]
      /\ \A i \in X : m[i] = id[i]
  BY <1>2, <1>4 DEF Join, id
<1>6. \A i \in DOMAIN f : /\ f[i] \in DOMAIN G /\ i \in DOMAIN d
                          /\ G[f[i]].kind = d[i].kind
                          /\ G[f[i]].section = To(f, d[i].section)
                          /\ G[f[i]].table = To(f, d[i].table)
                          /\ {d[i].section, d[i].table} \cap DOMAIN d \subseteq DOMAIN f
  BY DEF CopyInv
<1>7. ASSUME NEW k, k \in DOMAIN d => k \in DOMAIN f
      PROVE  To(m, k) = To(f, k)
  BY <1>2, <1>5, <1>7 DEF To
<1>8. \A i \in DOMAIN f \cup X : /\ To(m, d[i].section) = To(f, d[i].section)
                                 /\ To(m, d[i].table) = To(f, d[i].table)
  BY <1>2, <1>6, <1>7
<1>9. To(f, 0) = 0
  BY <1>2, <1>6 DEF To
<1>10. ASSUME NEW k \in Of("section", G)
       PROVE  To(f, k) \in Of("section", G)
  <2>1. CASE k \in DOMAIN f
    BY <1>3, <1>6, <2>1 DEF To, Of
  <2>2. CASE k \notin DOMAIN f
    BY <2>2 DEF To
  <2> QED BY <2>1, <2>2
<1>11. ASSUME NEW i \in X
       PROVE  \/ d[i].kind = "section" /\ To(f, d[i].section) = 0 /\ To(f, d[i].table) = 0
              \/ /\ d[i].kind = "table" /\ To(f, d[i].section) \in Of("section", G)
                 /\ To(f, d[i].table) = 0
              \/ /\ d[i].kind = "seat" /\ To(f, d[i].section) \in Of("section", G)
                 /\ To(f, d[i].table) \in Of("table", G)
                 /\ Agrees(d[i], d) => G[To(f, d[i].table)].section = To(f, d[i].section)
  <2>1. i \in DOMAIN d /\ Fits(d[i], G)
    BY <1>2, <1>3
  <2>2. CASE d[i].kind # "seat"
    BY <1>9, <1>10, <2>1, <2>2 DEF Fits
  <2>3. CASE d[i].kind = "seat"
    <3> DEFINE t == d[i].table
    <3>1. t \in DOMAIN f /\ t \in DOMAIN d
      BY <1>2, <1>6, <2>3
    <3>2. t # 0 /\ t \in Of("table", G) /\ To(f, d[i].section) \in Of("section", G)
      BY <1>2, <1>10, <2>1, <2>3, <3>1 DEF Fits
    <3>3. d[t].kind = "table"
      BY <1>3, <3>1, <3>2 DEF Of
    <3>4. f[t] \in Of("table", G) /\ G[f[t]].section = To(f, d[t].section) /\ To(f, t) = f[t]
      BY <1>6, <3>1, <3>3 DEF Of, To
    <3> QED BY <2>3, <3>1, <3>2, <3>4 DEF Agrees
  <2> QED BY <2>2, <2>3
<1>12. AreRows(d, X) /\ Apart(m, X) /\ Placed(d, X, m, G)
  <2>1. AreRows(d, X) /\ Apart(m, X)
    BY <1>2, <1>3, <1>4, <1>5 DEF AreRows, Apart
  <2>2. \A i \in X : m[i] \in Nat \ {0} /\ m[i] \notin DOMAIN G
    BY <1>4, <1>5
  <2>3. Placed(d, X, m, G)
    BY <1>8, <1>11, <2>2 DEF Placed
  <2> QED BY <2>1, <2>3
<1> HIDE DEF N, H
<1>13. Continues(N, G) /\ Redrawn(N, d, X, m)
  BY <1>12, DrawnContinues, RowsDrawn DEF N
<1>14. Joined(G, rows, N)
  BY <1>1, <1>13, RowsJoined
<1>15. /\ Lineage(H) /\ Extends(H, G) /\ Akin(copied, H)
       /\ DOMAIN H = DOMAIN G \cup {id[i] : i \in X}
       /\ DOMAIN copied = DOMAIN rows \cup {id[i] : i \in X}
  BY <1>5, <1>13, <1>14 DEF Joined, Redrawn, H, N
<1>16. DOMAIN copied \subseteq 0 .. c /\ DOMAIN H \subseteq DOMAIN G \cup DOMAIN copied
  BY <1>4, <1>15
<1>17. Extends(H, N)
  BY <1>13, <1>15 DEF Extends, Join, H, Continues
<1>18. CopyInv(d, m, H)
  <2>1. CopyInv(d, f, H)
    BY <1>15, CopyKept
  <2>2. DOMAIN m \subseteq DOMAIN d
    BY <1>2, <1>5, <1>6
  <2>3. ASSUME NEW i \in DOMAIN m
        PROVE  /\ m[i] \in DOMAIN H /\ H[m[i]].kind = d[i].kind
               /\ H[m[i]].section = To(m, d[i].section) /\ H[m[i]].table = To(m, d[i].table)
               /\ {d[i].section, d[i].table} \cap DOMAIN d \subseteq DOMAIN m
    <3>1. CASE i \in DOMAIN f
      BY <1>5, <1>6, <1>8, <2>1, <3>1 DEF CopyInv
    <3>2. CASE i \in X
      <4>1. m[i] \in DOMAIN N /\ N[m[i]] = H[m[i]] /\ m[i] \in DOMAIN H
        BY <1>13, <1>17, <3>2 DEF Redrawn, Extends
      <4> QED BY <1>2, <1>5, <1>13, <3>2, <4>1 DEF Redrawn
    <3> QED BY <1>5, <3>1, <3>2
  <2> QED BY <2>1, <2>2, <2>3 DEF CopyInv
<1>20. Strays(H) \subseteq astray'
  <2>1. ASSUME NEW i \in X
        PROVE  Agrees(N[m[i]], Join(G, N)) \/ m[i] \in astray'
    <3>1. /\ N[m[i]].kind = d[i].kind
          /\ N[m[i]].section = To(f, d[i].section) /\ N[m[i]].table = To(f, d[i].table)
      BY <1>8, <1>13 DEF Redrawn
    <3>2. Agrees(d[i], d) => Agrees(N[m[i]], H)
      BY <1>11, <1>15, <3>1 DEF Agrees, Extends, Of
    <3> QED BY <3>2 DEF H
  <2>2. Strays(G) \subseteq astray'
    BY DEF LayoutInv
  <2>3. \A k \in DOMAIN N : Agrees(N[k], Join(G, N)) \/ k \in astray'
    BY <1>13, <2>1 DEF Redrawn
  <2> QED BY <1>1, <1>13, <2>2, <2>3, StraysJoined DEF H
<1>19. \E J : J = H /\ LayoutInv(J)'
  BY <1>4, <1>15, <1>16, <1>20, LayoutGrows
<1> QED BY <1>15, <1>18, <1>19

\* What the serializer reads: rows of the lineage, whose names were unique when it read them.
Unique(d) ==
    \A i \in DOMAIN d : d[i].kind # "seat" =>
        ~\E j \in DOMAIN d \ {i} : /\ d[j].kind = d[i].kind
                                   /\ d[j].section = d[i].section
                                   /\ d[j].name = d[i].name

SnapInv(s, G) == Akin(s, G) /\ Unique(s)

LEMMA RestorableRows ==
    ASSUME NEW G, Lineage(G), NEW s, SnapInv(s, G)
    PROVE  LET X == Restorable(s) IN
           /\ X \subseteq DOMAIN s /\ X \subseteq Nat \ {0}
           /\ \A i \in X :
                 /\ i \in DOMAIN s /\ IsRow(s[i])
                 /\ \/ s[i].kind = "section" /\ s[i].section = 0 /\ s[i].table = 0
                    \/ /\ s[i].kind = "table" /\ s[i].section \in Of("section", s) \cap X
                       /\ s[i].table = 0
                    \/ /\ s[i].kind = "seat" /\ s[i].section \in Of("section", s) \cap X
                       /\ s[i].table \in Of("table", s) \cap X
                       /\ Agrees(s[i], s) \/ i \in Strays(G)
<1> DEFINE X == Restorable(s)
<1>1. \A i \in DOMAIN s : /\ i \in DOMAIN G /\ i \in Nat \ {0} /\ IsRow(s[i])
                          /\ Fits(G[i], G) /\ s[i].kind = G[i].kind
                          /\ s[i].section = G[i].section /\ s[i].table = G[i].table
  BY DEF SnapInv, Akin, Lineage
<1>2. X \subseteq DOMAIN s /\ Of("section", s) \subseteq X
  BY DEF Restorable, Of
<1>3. ASSUME NEW i \in X
      PROVE  /\ i \in DOMAIN s /\ IsRow(s[i])
             /\ \/ s[i].kind = "section" /\ s[i].section = 0 /\ s[i].table = 0
                \/ /\ s[i].kind = "table" /\ s[i].section \in Of("section", s) \cap X
                   /\ s[i].table = 0
                \/ /\ s[i].kind = "seat" /\ s[i].section \in Of("section", s) \cap X
                   /\ s[i].table \in Of("table", s) \cap X
                   /\ Agrees(s[i], s) \/ i \in Strays(G)
  <2>1. i \in DOMAIN s
    BY <1>2
  <2>2. CASE s[i].kind = "section"
    BY <1>1, <2>1, <2>2 DEF Fits
  <2>3. CASE s[i].kind = "table"
    <3>1. s[i].section \in Of("section", s)
      BY <2>3 DEF Restorable, Of
    <3> QED BY <1>1, <1>2, <2>1, <2>3, <3>1 DEF Fits
  <2>4. CASE s[i].kind = "seat"
    <3>1. s[i].section \in Of("section", s) /\ s[i].table \in Of("table", s) /\ s[i].table \in X
      BY <2>4 DEF Restorable, Of
    <3>2. s[i].table \in DOMAIN s
      BY <3>1 DEF Of
    <3>3. Agrees(s[i], s) \/ i \in Strays(G)
      BY <1>1, <2>1, <3>2 DEF Agrees, Strays
    <3> QED BY <1>1, <1>2, <2>1, <2>4, <3>1, <3>3
  <2> QED BY <1>1, <2>1, <2>2, <2>3, <2>4 DEF Fits
<1> QED BY <1>1, <1>2, <1>3

\* Restoring a version.
LEMMA RestoreGrows ==
    ASSUME NEW G, LayoutInv(G), NEW s, SnapInv(s, G),
           NEW X, X = Restorable(s), Put(Drawn(s, X, Fresh(X))),
           astray' = astray \cup {Fresh(X)[i] : i \in X \cap astray}
    PROVE  \E H : LayoutInv(H)' /\ Extends(H, G)
<1> DEFINE id == Fresh(X)
           c == next + Cardinality(X)
           N == Drawn(s, X, id)
           H == Join(G, N)
<1>1. Lineage(G) /\ Akin(rows, G) /\ next \in Nat /\ DOMAIN G \subseteq 1 .. next
  BY DEF LayoutInv
<1>2. /\ X \subseteq DOMAIN s /\ X \in SUBSET (Nat \ {0})
      /\ \A i \in X :
            /\ i \in DOMAIN s /\ IsRow(s[i])
            /\ \/ s[i].kind = "section" /\ s[i].section = 0 /\ s[i].table = 0
               \/ /\ s[i].kind = "table" /\ s[i].section \in Of("section", s) \cap X
                  /\ s[i].table = 0
               \/ /\ s[i].kind = "seat" /\ s[i].section \in Of("section", s) \cap X
                  /\ s[i].table \in Of("table", s) \cap X
                  /\ Agrees(s[i], s) \/ i \in Strays(G)
  BY <1>1, RestorableRows
<1>3. IsFiniteSet(X)
  <2>1. X \subseteq 1 .. next
    BY <1>1, <1>2 DEF SnapInv, Akin
  <2>2. IsFiniteSet(1 .. next)
    BY <1>1, FS_Interval
  <2> QED BY <2>1, <2>2, FS_Subset
<1>4. /\ c \in Nat /\ DOMAIN id = X
      /\ \A i \in X : id[i] \in Nat \ {0} /\ id[i] \notin DOMAIN G /\ id[i] \in 0 .. c
      /\ \A i, j \in X : id[i] = id[j] => i = j
  BY <1>2, <1>3, FreshRows
<1>5. Put(N) /\ astray' = astray \cup {id[i] : i \in X \cap astray}
  OBVIOUS
<1> HIDE DEF id, c
<1>6. To(id, 0) = 0 /\ \A i \in X : To(id, i) = id[i]
  BY <1>2, <1>4 DEF To
<1>7. AreRows(s, X) /\ Apart(id, X)
  BY <1>2, <1>4 DEF AreRows, Apart
<1> HIDE DEF N, H
<1>8. Redrawn(N, s, X, id)
  BY <1>7, RowsDrawn DEF N
<1>9. DOMAIN N = {id[i] : i \in X}
  BY <1>8 DEF Redrawn
<1>10. ASSUME NEW i \in X
       PROVE  /\ IsRow(N[id[i]]) /\ N[id[i]].kind = s[i].kind /\ N[id[i]].name = s[i].name
              /\ s[i].kind = "section" => N[id[i]].section = 0 /\ N[id[i]].table = 0
              /\ s[i].kind = "table" => /\ s[i].section \in X
                                        /\ N[id[i]].section = id[s[i].section]
                                        /\ N[id[i]].section \in Of("section", N)
                                        /\ N[id[i]].table = 0
              /\ s[i].kind = "seat" => /\ N[id[i]].section \in Of("section", N)
                                       /\ N[id[i]].table \in Of("table", N)
                                       /\ Agrees(N[id[i]], N) \/ i \in Strays(G)
  <2>1. /\ IsRow(N[id[i]]) /\ N[id[i]].kind = s[i].kind /\ N[id[i]].name = s[i].name
        /\ N[id[i]].section = To(id, s[i].section) /\ N[id[i]].table = To(id, s[i].table)
    BY <1>8 DEF Redrawn
  <2>2. \A j \in X : id[j] \in DOMAIN N /\ N[id[j]].kind = s[j].kind
                     /\ N[id[j]].section = To(id, s[j].section)
    BY <1>8 DEF Redrawn
  <2>3. CASE s[i].kind = "section"
    BY <1>2, <1>6, <2>1, <2>3
  <2>4. CASE s[i].kind = "table"
    <3>1. s[i].section \in Of("section", s) \cap X /\ s[i].table = 0
      BY <1>2, <2>4
    <3> QED BY <1>6, <2>1, <2>2, <2>4, <3>1 DEF Of
  <2>5. CASE s[i].kind = "seat"
    <3>1. /\ s[i].section \in Of("section", s) \cap X /\ s[i].table \in Of("table", s) \cap X
          /\ Agrees(s[i], s) \/ i \in Strays(G)
      BY <1>2, <2>5
    <3>2. /\ N[id[i]].section = id[s[i].section] /\ N[id[i]].table = id[s[i].table]
          /\ N[id[s[i].table]].section = To(id, s[s[i].table].section)
      BY <1>6, <2>1, <2>2, <3>1
    <3>3. N[id[i]].section \in Of("section", N) /\ N[id[i]].table \in Of("table", N)
      BY <2>2, <3>1, <3>2 DEF Of
    <3>4. Agrees(s[i], s) => Agrees(N[id[i]], N)
      BY <1>2, <1>6, <2>5, <3>1, <3>2 DEF Agrees
    <3> QED BY <2>1, <2>5, <3>1, <3>3, <3>4
  <2> QED BY <1>2, <2>1, <2>3, <2>4, <2>5
<1>11. Continues(N, G)
  <2>1. DOMAIN N \subseteq Nat \ {0} /\ DOMAIN N \cap DOMAIN G = {}
    BY <1>4, <1>9
  <2>2. Extends(Join(G, N), N)
    BY <2>1 DEF Extends, Join
  <2>3. \A i \in X : Fits(N[id[i]], N)
    BY <1>2, <1>10 DEF Fits
  <2>4. \A i \in X : Fits(N[id[i]], Join(G, N))
    BY <2>2, <2>3, FitsKept
  <2> QED BY <1>9, <1>10, <2>1, <2>4 DEF Continues
<1>12. Joined(G, rows, N)
  BY <1>1, <1>11, RowsJoined
<1>13. /\ Lineage(H) /\ Extends(H, G) /\ DOMAIN H = DOMAIN G \cup DOMAIN N
  BY <1>12 DEF Joined, H
<1>18. Strays(H) \subseteq astray'
  <2>1. ASSUME NEW i \in X
        PROVE  Agrees(N[id[i]], Join(G, N)) \/ id[i] \in astray'
    <3>1. Extends(Join(G, N), N)
      BY <1>11 DEF Extends, Join, Continues
    <3>2. Agrees(N[id[i]], N) => Agrees(N[id[i]], Join(G, N))
      BY <1>2, <1>10, <3>1 DEF Agrees, Extends, Of
    <3>3. i \in Strays(G) => id[i] \in astray'
      BY <1>5 DEF LayoutInv
    <3>4. Agrees(N[id[i]], N) \/ i \in Strays(G)
      BY <1>10 DEF Agrees
    <3> QED BY <3>2, <3>3, <3>4
  <2>2. Strays(G) \subseteq astray'
    BY <1>5 DEF LayoutInv
  <2>3. \A k \in DOMAIN N : Agrees(N[k], Join(G, N)) \/ k \in astray'
    BY <1>9, <2>1
  <2> QED BY <1>1, <1>11, <2>2, <2>3, StraysJoined DEF H
<1>14. Akin(N, H)
  BY <1>11, <1>13 DEF Akin, H, Join, Continues
<1>15. Allowed(N)
  <2>1. \A i \in X : {N[id[i]].section, N[id[i]].table} \subseteq DOMAIN N \cup {0}
    BY <1>2, <1>10 DEF Of
  <2>2. ASSUME NEW i \in X, NEW j \in X, i # j, s[i].kind # "seat", s[j].kind = s[i].kind,
               N[id[j]].section = N[id[i]].section, s[j].name = s[i].name
        PROVE  FALSE
    <3>1. s[j].section = s[i].section
      BY <1>2, <1>4, <1>10, <2>2
    <3> QED BY <1>2, <2>2, <3>1 DEF SnapInv, Unique
  <2>3. ASSUME NEW a \in DOMAIN N, N[a].kind # "seat", NEW b \in DOMAIN N \ {a},
               N[b].kind = N[a].kind, N[b].section = N[a].section, N[b].name = N[a].name
        PROVE  FALSE
    <3>1. PICK i \in X : a = id[i]
      BY <1>9
    <3>2. PICK j \in X : b = id[j]
      BY <1>9
    <3> QED BY <1>10, <2>2, <2>3, <3>1, <3>2
  <2> QED BY <1>9, <2>1, <2>3 DEF Allowed
<1>16. DOMAIN N \subseteq 0 .. c /\ DOMAIN H \subseteq DOMAIN G \cup DOMAIN N
  BY <1>4, <1>9, <1>13
<1>17. \E J : J = H /\ LayoutInv(J)'
  BY <1>4, <1>5, <1>13, <1>14, <1>15, <1>16, <1>18, LayoutGrows
<1> QED BY <1>13, <1>17

\* Moving rows.
LEMMA MovedStays ==
    ASSUME NEW G, LayoutInv(G), NEW d, \A i \in DOMAIN d : d[i] \in Nat,
           rows' = Moved(d), next' = next \/ next' = next + 1, astray \subseteq astray'
    PROVE  LayoutInv(G)'
<1>1. next' \in Nat /\ next <= next'
  BY DEF LayoutInv
<1>2. DOMAIN rows' = DOMAIN rows
  BY DEF Moved
<1>3. ASSUME NEW i \in DOMAIN rows
      PROVE  /\ IsRow(rows'[i]) /\ rows'[i].kind = rows[i].kind
             /\ rows'[i].section = rows[i].section /\ rows'[i].table = rows[i].table
             /\ rows'[i].name = rows[i].name
  <2>1. IsRow(rows[i])
    BY DEF LayoutInv, Akin
  <2>2. CASE i \in DOMAIN d
    <3>1. rows'[i] = [rows[i] EXCEPT !.place = d[i]] /\ d[i] \in Nat
      BY <2>2 DEF Moved
    <3> QED BY <2>1, <3>1 DEF IsRow, Row
  <2>3. CASE i \notin DOMAIN d
    BY <2>1, <2>3 DEF Moved
  <2> QED BY <2>2, <2>3
<1> DEFINE r == rows'
<1>4. DOMAIN r = DOMAIN rows /\ \A i \in DOMAIN rows :
             /\ IsRow(r[i]) /\ r[i].kind = rows[i].kind
             /\ r[i].section = rows[i].section /\ r[i].table = rows[i].table
             /\ r[i].name = rows[i].name
  BY <1>2, <1>3
<1> HIDE DEF r
<1>5. Akin(r, G) /\ Allowed(r)
  BY <1>4 DEF LayoutInv, Akin, Allowed
<1> QED BY <1>1, <1>5, LayoutStays DEF r

LEMMA DeletedStays ==
    ASSUME NEW G, LayoutInv(G), Put(Empty), astray \subseteq astray'
    PROVE  LayoutInv(G)'
<1>1. DOMAIN Empty = {}
  BY DEF Empty
<1>2. Akin(Empty, G) /\ Allowed(Empty)
  BY <1>1 DEF Akin, Allowed
<1>3. next \in Nat /\ DOMAIN Empty \subseteq 0 .. next
  BY <1>1 DEF LayoutInv
<1>4. next' \in Nat /\ next <= next' /\ rows' = Empty
  BY <1>3, PutNext
<1> QED BY <1>2, <1>4, LayoutStays

RowsOf(kind) == [i \in Of(kind, rows) |-> rows[i]]

Adds(q, s, kind) == \A i \in DOMAIN q : q[i].kind = kind \/ (i \in DOMAIN s /\ q[i] = s[i])

\* The serializer reads the rows of one more kind.
LEMMA SnapGrows ==
    ASSUME NEW G, LayoutInv(G), NEW s, SnapInv(s, G), NEW kind,
           Of(kind, s) = {},
           NEW q, q = Join(s, RowsOf(kind))
    PROVE  SnapInv(q, G) /\ Adds(q, s, kind)
<1>1. DOMAIN q = DOMAIN s \cup Of(kind, rows)
  BY DEF Join, RowsOf
<1>2. \A i \in DOMAIN q : \/ i \in DOMAIN s /\ q[i] = s[i] /\ q[i].kind # kind
                          \/ i \in DOMAIN rows /\ q[i] = rows[i] /\ q[i].kind = kind
  BY DEF Join, RowsOf, Of
<1>3. Akin(q, G)
  BY <1>2 DEF SnapInv, LayoutInv, Akin
<1>4. Unique(rows) /\ Unique(s)
  BY DEF LayoutInv, Allowed, Unique, SnapInv
<1>5. ASSUME NEW i \in DOMAIN q, q[i].kind # "seat", NEW j \in DOMAIN q \ {i},
             q[j].kind = q[i].kind, q[j].section = q[i].section, q[j].name = q[i].name
      PROVE  FALSE
  <2>1. CASE q[i].kind = kind
    BY <1>2, <1>4, <1>5, <2>1 DEF Unique
  <2>2. CASE q[i].kind # kind
    BY <1>2, <1>4, <1>5, <2>2 DEF Unique
  <2> QED BY <2>1, <2>2
<1>6. Unique(q)
  BY <1>5 DEF Unique
<1>7. SnapInv(q, G)
  BY <1>3, <1>6 DEF SnapInv
<1>8. Adds(q, s, kind)
  BY <1>2 DEF Adds
<1> QED BY <1>7, <1>8

\* A row and what stands on it, in rows that are renamed and moved; the seats of a section
\* that is cloned are put to it.
TablesBelow(i) == {i} \cup {t \in Of("table", rows) : rows[t].section = i}

SeatsBelow(i) == {s \in Of("seat", rows) : rows[s].table \in TablesBelow(i)}

SectionBelow(o, i, j) == IF j \in SeatsBelow(i) /\ o = "clone" THEN i ELSE rows[j].section

Copied(d, o, i) ==
    \A j \in DOMAIN d : \E name : \E place \in Nat :
        d[j] = [rows[j] EXCEPT !.name = name, !.section = SectionBelow(o, i, j), !.place = place]

\* What a row is copied with.
LEMMA CopyStarts ==
    ASSUME NEW G, LayoutInv(G), NEW i \in DOMAIN rows, NEW o,
           \/ o = "clone" /\ rows[i].kind = "section"
           \/ o = "duplicate" /\ rows[i].kind = "table",
           NEW d, DOMAIN d = TablesBelow(i) \cup SeatsBelow(i), Copied(d, o, i)
    PROVE  CopyInv(d, Empty, G) /\ StraysCopied(o, d, G)
<1> DEFINE tables == TablesBelow(i)
           seats  == SeatsBelow(i)
<1>1. /\ tables = {i} \cup {t \in Of("table", rows) : rows[t].section = i}
      /\ seats = {s \in Of("seat", rows) : rows[s].table \in tables}
  BY DEF TablesBelow, SeatsBelow
<1>2. DOMAIN d = tables \cup seats
  OBVIOUS
<1> HIDE DEF tables, seats
<1>3. DOMAIN d = tables \cup seats /\ tables \cup seats \subseteq DOMAIN rows
  BY <1>1, <1>2 DEF Of
<1>4. IsFiniteSet(DOMAIN rows)
  BY RowsFinite
<1>5. IsFiniteSet(DOMAIN d)
  BY <1>3, <1>4, FS_Subset
<1>6. ASSUME NEW j \in DOMAIN d
      PROVE  /\ IsRow(d[j]) /\ d[j].kind = rows[j].kind /\ d[j].table = rows[j].table
             /\ d[j].section = IF j \in seats /\ o = "clone" THEN i ELSE rows[j].section
  <2> DEFINE x == SectionBelow(o, i, j)
  <2>1. IsRow(rows[j])
    BY <1>3 DEF LayoutInv, Akin
  <2>2. PICK name : \E place \in Nat :
           d[j] = [rows[j] EXCEPT !.name = name, !.section = x, !.place = place]
    BY DEF Copied
  <2>3. PICK place \in Nat : d[j] = [rows[j] EXCEPT !.name = name, !.section = x, !.place = place]
    BY <2>2
  <2>4. x = IF j \in seats /\ o = "clone" THEN i ELSE rows[j].section
    BY DEF SectionBelow, seats
  <2> HIDE DEF x
  <2>5. /\ IsRow(d[j]) /\ d[j].kind = rows[j].kind /\ d[j].table = rows[j].table
        /\ d[j].section = x
    BY <2>1, <2>3 DEF IsRow, Row
  <2> QED BY <2>4, <2>5
<1>10. ASSUME NEW j \in DOMAIN rows
       PROVE  /\ j \in DOMAIN G /\ Fits(G[j], G)
              /\ rows[j].kind = G[j].kind /\ rows[j].section = G[j].section
              /\ rows[j].table = G[j].table
  BY DEF LayoutInv, Akin, Lineage
<1>11. \A j \in seats : rows[j].kind = "seat"
  BY <1>1 DEF Of
<1>12. o = "clone" => i \in Of("section", G)
  BY <1>10 DEF Of
<1>7. Copies(d, G)
  <2>1. ASSUME NEW j \in DOMAIN d
        PROVE  Fits(d[j], G)
    BY <1>3, <1>6, <1>10, <1>11, <1>12 DEF Fits
  <2> QED BY <1>3, <1>6, <1>10, <1>11, <2>1 DEF Copies
<1>8. ASSUME NEW s \in Of("seat", d)
      PROVE  d[s].table \in DOMAIN d
  <2>1. s \in DOMAIN d /\ rows[s].kind = "seat" /\ d[s].table = rows[s].table
    BY <1>6 DEF Of
  <2>2. CASE s \in seats
    BY <1>1, <1>3, <2>1, <2>2
  <2>3. CASE s \in tables
    BY <1>1, <1>3, <2>1, <2>3 DEF Of
  <2> QED BY <1>3, <2>1, <2>2, <2>3
<1>9. DOMAIN Empty = {}
  BY DEF Empty
<1>13. ASSUME NEW s \in DOMAIN d, ~Agrees(d[s], d)
       PROVE  o = "duplicate" /\ s \in Strays(G)
  <2> DEFINE t == d[s].table
  <2>1. rows[s].kind = "seat" /\ t = rows[s].table /\ t # 0 /\ d[t].section # d[s].section
    BY <1>6, <1>13 DEF Agrees
  <2>2. t \in DOMAIN d
    BY <1>6, <1>8, <2>1 DEF Of
  <2>3. G[t].kind = "table"
    BY <1>3, <1>10, <2>1 DEF Fits, Of
  <2>4. rows[t].kind = "table" /\ t \in DOMAIN rows /\ t \notin seats /\ t \in tables
    BY <1>3, <1>10, <1>11, <2>2, <2>3
  <2>5. d[t].section = rows[t].section
    BY <1>6, <2>2, <2>4
  <2>6. CASE o = "clone"
    <3>1. s \in seats
      BY <1>1, <1>3, <2>1, <2>6 DEF Of
    <3>2. d[s].section = i /\ rows[t].section = i
      BY <1>1, <1>6, <2>4, <2>6, <3>1
    <3> QED BY <2>1, <2>5, <3>2
  <2>7. CASE o = "duplicate"
    BY <1>3, <1>6, <1>10, <2>1, <2>4, <2>5, <2>7 DEF Strays, Agrees
  <2> QED BY <2>6, <2>7
<1> QED BY <1>5, <1>7, <1>8, <1>9, <1>13 DEF CopyInv, StraysCopied

-----------------------------------------------------------------------------
(* The invariant *)

IsEntry(e) ==
    /\ e = [id |-> e.id, before |-> e.before, after |-> e.after, applied |-> e.applied]
    /\ e.applied \in BOOLEAN
    /\ \A i \in DOMAIN e.before : e.before[i] \in Nat
    /\ \A i \in DOMAIN e.after : e.after[i] \in Nat

\* What a call knows at each step.
CallOK(label, o, in, s, f, G) ==
    /\ label = "idle" => o = "none" /\ s = Empty /\ f = Empty
    /\ label \in {"wipe seats", "wipe tables", "wipe sections", "write"} => IsGeometry(in) /\ s = Empty
    /\ label = "copy" => CopyInv(in, f, G) /\ StraysCopied(o, in, G) /\ s = Empty
    /\ label = "read sections" => s = Empty
    /\ label = "read tables" => \A i \in DOMAIN s : s[i].kind = "section"
    /\ label = "read seats" => \A i \in DOMAIN s : s[i].kind \in {"section", "table"}
    /\ label = "apply" => /\ \A i \in DOMAIN in : in[i] \in Nat
                          /\ \A i \in DOMAIN f : f[i] \in Nat
    /\ label = "entry" => \E n, e : f = One(n, e) /\ IsEntry(e)
    /\ SnapInv(s, G)

\* The layout with its lineage, and what has been read of it.
StateInv(G) ==
    /\ LayoutInv(G)
    /\ DOMAIN versions \subseteq Numbers
    /\ \A v \in DOMAIN versions : SnapInv(versions[v].snap, G)
    /\ \A q \in Callers : CallOK(pc[q], op[q], input[q], snap[q], found[q], G)

HistoryInv ==
    /\ \E k \in Nat : DOMAIN history \subseteq 0 .. k
    /\ \A n \in DOMAIN history : IsEntry(history[n])

Creating == {q \in Callers : op[q] = "create"}

\* Every seat.create message that waits or is handled was a call.
CountInv ==
    /\ group \in Groups /\ calls \in Nat /\ pending \in Nat /\ calls <= group.calls
    /\ IsFiniteSet(Creating) /\ pending + Cardinality(Creating) <= calls

FramesInv ==
    /\ DOMAIN pc = Callers /\ DOMAIN op = Callers
    /\ DOMAIN input = Callers /\ DOMAIN snap = Callers /\ DOMAIN found = Callers
    /\ alone \in [Callers -> BOOLEAN]

Inv == CountInv /\ FramesInv /\ HistoryInv /\ \E G : StateInv(G)

LEMMA SnapKept ==
    ASSUME NEW G, NEW H, Extends(H, G), NEW s, SnapInv(s, G)
    PROVE  SnapInv(s, H)
BY AkinKept DEF SnapInv

LEMMA CallKept ==
    ASSUME NEW G, Lineage(G), NEW H, Extends(H, G),
           NEW label, NEW o, NEW in, NEW s, NEW f, CallOK(label, o, in, s, f, G)
    PROVE  CallOK(label, o, in, s, f, H)
<1>1. SnapInv(s, H)
  BY SnapKept DEF CallOK
<1>2. label = "copy" => CopyInv(in, f, H) /\ StraysCopied(o, in, H)
  BY CopyKept, StraysCopiedKept DEF CallOK
<1> QED BY <1>1, <1>2 DEF CallOK

LEMMA ExtendsItself ==
    ASSUME NEW G
    PROVE  Extends(G, G)
BY DEF Extends

\* A step of p changes what p knows, and no more of the other calls than whether they are alone.
OthersStay(p) ==
    \A q \in Callers \ {p} : /\ pc'[q] = pc[q] /\ op'[q] = op[q] /\ input'[q] = input[q]
                             /\ snap'[q] = snap[q] /\ found'[q] = found[q]

LEMMA StateStep ==
    ASSUME NEW p \in Callers, OthersStay(p), NEW G, StateInv(G),
           NEW H, Extends(H, G), LayoutInv(H)',
           CallOK(pc'[p], op'[p], input'[p], snap'[p], found'[p], H),
           versions' = versions \/ (/\ DOMAIN versions' \subseteq Numbers
                                    /\ \A v \in DOMAIN versions' : SnapInv(versions'[v].snap, H))
    PROVE  StateInv(H)'
<1>1. DOMAIN versions' \subseteq Numbers /\ \A v \in DOMAIN versions' : SnapInv(versions'[v].snap, H)
  BY SnapKept DEF StateInv
<1>2. ASSUME NEW q \in Callers
      PROVE  CallOK(pc'[q], op'[q], input'[q], snap'[q], found'[q], H)
  <2>1. CASE q = p
    BY <2>1
  <2>2. CASE q # p
    <3>1. CallOK(pc[q], op[q], input[q], snap[q], found[q], G)
      BY DEF StateInv
    <3>2. CallOK(pc[q], op[q], input[q], snap[q], found[q], H)
      BY <3>1, CallKept DEF StateInv, LayoutInv
    <3> QED BY <2>2, <3>2 DEF OthersStay
  <2> QED BY <2>1, <2>2
<1>3. DOMAIN versions' \subseteq Numbers' /\ \A v \in DOMAIN versions' : SnapInv(versions[v].snap, H)'
  BY <1>1 DEF Numbers, SnapInv, Akin, IsRow, Row, Unique
<1>4. \A q \in Callers : CallOK(pc[q], op[q], input[q], snap[q], found[q], H)'
  BY <1>2 DEF CallOK, CopyInv, Copies, StraysCopied, Strays, Agrees, Fits, SnapInv, Akin, IsRow,
                Row, Unique, IsEntry, Empty, IsGeometry, One, Of, To
<1> QED BY <1>3, <1>4 DEF StateInv

-----------------------------------------------------------------------------
(* How calls begin and end *)

LEMMA CountStays ==
    ASSUME CountInv, group' = group, pending' = pending, Creating' = Creating,
           calls' = calls \/ (calls < group.calls /\ calls' = calls + 1)
    PROVE  CountInv'
<1>1. group.calls \in Nat
  BY LayoutAssumption DEF CountInv
<1>2. Cardinality(Creating) \in Nat
  BY FS_CardinalityType DEF CountInv
<1>3. calls' \in Nat /\ calls' <= group.calls /\ pending + Cardinality(Creating) <= calls'
  BY <1>1, <1>2 DEF CountInv
<1>4. IsFiniteSet(Creating') /\ pending' + Cardinality(Creating') <= calls'
  BY <1>3 DEF CountInv
<1> QED BY <1>3, <1>4 DEF CountInv

LEMMA CountEnds ==
    ASSUME CountInv, FramesInv, NEW p \in Callers, group' = group, calls' = calls,
           op' = [op EXCEPT ![p] = "none"],
           pending' = pending \/ (op[p] = "create" /\ pending' = pending + 1)
    PROVE  CountInv'
<1>1. Creating' = Creating \ {p}
  BY DEF Creating, FramesInv
<1>2. IsFiniteSet(Creating) /\ Cardinality(Creating) \in Nat
  BY FS_CardinalityType DEF CountInv
<1>3. IsFiniteSet(Creating \ {p})
  BY <1>2, FS_Subset
<1>4. pending' + Cardinality(Creating \ {p}) <= calls
  <2>1. CASE p \in Creating
    <3>1. Cardinality(Creating \ {p}) = Cardinality(Creating) - 1
      BY <1>2, <2>1, FS_RemoveElement
    <3>2. pending' = pending \/ pending' = pending + 1
      OBVIOUS
    <3> QED BY <1>2, <3>1, <3>2 DEF CountInv
  <2>2. CASE p \notin Creating
    <3>1. Creating \ {p} = Creating /\ pending' = pending
      BY <2>2 DEF Creating
    <3> QED BY <3>1 DEF CountInv
  <2> QED BY <2>1, <2>2
<1>5. pending' \in Nat
  BY DEF CountInv
<1> QED BY <1>1, <1>3, <1>4, <1>5 DEF CountInv

LEMMA BeginsAlone ==
    ASSUME FramesInv, NEW p \in Callers, NEW o, NEW label, Begin(p, o, label)
    PROVE  /\ alone' \in [Callers -> BOOLEAN]
           /\ DOMAIN pc' = Callers /\ DOMAIN op' = Callers
           /\ pc[p] = "idle" /\ pc'[p] = label /\ op'[p] = o /\ o \in group.ops
           /\ \A q \in Callers \ {p} : pc'[q] = pc[q] /\ op'[q] = op[q]
<1>1. \A q \in Callers : (IF q = p THEN \A r \in Callers \ {p} : pc[r] = "idle"
                                   ELSE alone[q] /\ pc[q] = "idle") \in BOOLEAN
  BY Zenon DEF FramesInv
<1>2. alone' \in [Callers -> BOOLEAN]
  BY <1>1, Zenon DEF Begin
<1> QED BY <1>2 DEF Begin, Goto, FramesInv

\* An administrator's call.
LEMMA CallBegins ==
    ASSUME CountInv, FramesInv, NEW G, StateInv(G), NEW p \in Callers,
           NEW o, o # "create", NEW label, Call(p, o, label),
           group' = group, pending' = pending
    PROVE  /\ CountInv'
           /\ alone' \in [Callers -> BOOLEAN]
           /\ DOMAIN pc' = Callers /\ DOMAIN op' = Callers
           /\ pc'[p] = label /\ op'[p] = o
           /\ snap[p] = Empty /\ found[p] = Empty
           /\ \A q \in Callers \ {p} : pc'[q] = pc[q] /\ op'[q] = op[q]
<1>1. /\ alone' \in [Callers -> BOOLEAN]
      /\ DOMAIN pc' = Callers /\ DOMAIN op' = Callers
      /\ pc[p] = "idle" /\ pc'[p] = label /\ op'[p] = o
      /\ \A q \in Callers \ {p} : pc'[q] = pc[q] /\ op'[q] = op[q]
  BY BeginsAlone DEF Call
<1>2. op[p] = "none" /\ snap[p] = Empty /\ found[p] = Empty
  BY <1>1 DEF StateInv, CallOK
<1>3. Creating' = Creating
  BY <1>1, <1>2 DEF Creating
<1>4. CountInv'
  BY <1>3, CountStays DEF Call
<1> QED BY <1>1, <1>2, <1>4

LEMMA Ended ==
    ASSUME NEW G, NEW in
    PROVE  CallOK("idle", "none", in, Empty, Empty, G)
BY DEF CallOK, SnapInv, Akin, Unique, Empty

LEMMA EndKeeps ==
    ASSUME FramesInv, NEW p \in Callers, End(p)
    PROVE  /\ FramesInv' /\ OthersStay(p)
           /\ pc'[p] = "idle" /\ op'[p] = "none" /\ snap'[p] = Empty /\ found'[p] = Empty
<1>1. alone' \in [Callers -> BOOLEAN]
  BY Zenon DEF FramesInv, End
<1> QED BY <1>1 DEF FramesInv, OthersStay, End, Goto

\* A call ends and nothing else changes but the messages.
LEMMA EndStep ==
    ASSUME Inv, NEW p \in Callers, End(p),
           UNCHANGED <<group, rows, next, versions, history, calls, astray>>,
           pending' = pending \/ (op[p] = "create" /\ pending' = pending + 1)
    PROVE  Inv'
<1>1. PICK G : StateInv(G)
  BY DEF Inv
<1>2. /\ FramesInv' /\ OthersStay(p)
      /\ pc'[p] = "idle" /\ op'[p] = "none" /\ snap'[p] = Empty /\ found'[p] = Empty
  BY EndKeeps DEF Inv
<1>3. CountInv'
  BY CountEnds DEF Inv, End
<1>4. HistoryInv'
  BY DEF Inv, HistoryInv, IsEntry
<1>5. LayoutInv(G)'
  BY <1>1, LayoutStays DEF StateInv, LayoutInv
<1>6. CallOK(pc'[p], op'[p], input'[p], snap'[p], found'[p], G)
  BY <1>2, Ended
<1>7. StateInv(G)'
  BY <1>1, <1>2, <1>5, <1>6, ExtendsItself, StateStep
<1> QED BY <1>2, <1>3, <1>4, <1>7 DEF Inv

-----------------------------------------------------------------------------
(* The steps *)

LEMMA StateSame ==
    ASSUME NEW G, StateInv(G), UNCHANGED <<rows, next, versions, pc, op, input, snap, found, astray>>
    PROVE  StateInv(G)'
<1>1. LayoutInv(G)'
  BY LayoutStays DEF StateInv, LayoutInv
<1>2. \A v \in DOMAIN versions' : SnapInv(versions'[v].snap, G)
  BY DEF StateInv
<1>3. DOMAIN versions' \subseteq Numbers' /\ \A v \in DOMAIN versions' : SnapInv(versions[v].snap, G)'
  BY <1>2 DEF StateInv, Numbers, SnapInv, Akin, IsRow, Row, Unique
<1>4. \A q \in Callers : CallOK(pc'[q], op'[q], input'[q], snap'[q], found'[q], G)
  BY DEF StateInv
<1>5. \A q \in Callers : CallOK(pc[q], op[q], input[q], snap[q], found[q], G)'
  BY <1>4 DEF CallOK, CopyInv, Copies, StraysCopied, Strays, Agrees, Fits, SnapInv, Akin, IsRow,
                Row, Unique, IsEntry, Empty, IsGeometry, One, Of, To
<1> QED BY <1>1, <1>3, <1>5 DEF StateInv

LEMMA HistoryStays ==
    ASSUME Inv, history' = history
    PROVE  HistoryInv'
BY DEF Inv, HistoryInv, IsEntry

LEMMA CountGoesOn ==
    ASSUME Inv, UNCHANGED <<group, pending, calls, op>>
    PROVE  CountInv'
<1>1. Creating' = Creating
  BY DEF Creating
<1> QED BY <1>1, CountStays DEF Inv

LEMMA AskStep == Inv /\ Ask => Inv'
<1> SUFFICES ASSUME Inv, Ask
             PROVE  Inv'
  OBVIOUS
<1>1. PICK G : StateInv(G)
  BY DEF Inv
<1>2. StateInv(G)'
  BY <1>1, StateSame DEF Ask, call, ghost
<1>3. HistoryInv'
  BY HistoryStays DEF Ask
<1>4. FramesInv'
  BY DEF Inv, FramesInv, Ask, call
<1>5. CountInv'
  <2>1. group.calls \in Nat /\ Cardinality(Creating) \in Nat
    BY LayoutAssumption, FS_CardinalityType DEF Inv, CountInv
  <2>2. Creating' = Creating
    BY DEF Creating, Ask, call
  <2>3. calls' = calls + 1 /\ pending' = pending + 1 /\ calls < group.calls /\ group' = group
    BY DEF Ask
  <2>4. calls' \in Nat /\ pending' \in Nat /\ calls' <= group.calls
        /\ pending' + Cardinality(Creating) <= calls'
    BY <2>1, <2>3 DEF Inv, CountInv
  <2> QED BY <2>2, <2>3, <2>4 DEF Inv, CountInv
<1> QED BY <1>2, <1>3, <1>4, <1>5 DEF Inv

LEMMA StutterStep == Inv /\ UNCHANGED vars => Inv'
<1> SUFFICES ASSUME Inv, UNCHANGED vars
             PROVE  Inv'
  OBVIOUS
<1>1. PICK G : StateInv(G)
  BY DEF Inv
<1>2. StateInv(G)'
  BY <1>1, StateSame DEF vars, call, ghost
<1>3. HistoryInv'
  BY HistoryStays DEF vars
<1>4. FramesInv'
  BY DEF Inv, FramesInv, vars, call
<1>5. CountInv'
  BY CountGoesOn DEF vars, call
<1> QED BY <1>2, <1>3, <1>4, <1>5 DEF Inv

LEMMA ReceiveStep ==
    ASSUME Inv, NEW p \in Callers, Receive(p)
    PROVE  Inv'
<1>1. PICK G : StateInv(G)
  BY DEF Inv
<1>2. /\ alone' \in [Callers -> BOOLEAN] /\ DOMAIN pc' = Callers /\ DOMAIN op' = Callers
      /\ pc[p] = "idle" /\ pc'[p] = "wipe seats" /\ op'[p] = "create"
      /\ \A q \in Callers \ {p} : pc'[q] = pc[q] /\ op'[q] = op[q]
  BY BeginsAlone DEF Inv, Receive
<1>3. op[p] = "none" /\ snap[p] = Empty /\ SnapInv(snap[p], G)
  BY <1>1, <1>2 DEF StateInv, CallOK
<1>4. input' = [input EXCEPT ![p] = Plan(MaxSeats)] /\ snap' = snap /\ found' = found
  BY DEF Receive
<1>5. FramesInv' /\ OthersStay(p)
  BY <1>2, <1>4 DEF Inv, FramesInv, OthersStay
<1>6. IsGeometry(Plan(MaxSeats))
  BY LayoutAssumption, PlanIsGeometry
<1>7. CallOK(pc'[p], op'[p], input'[p], snap'[p], found'[p], G)
  <2>1. input'[p] = Plan(MaxSeats)
    BY <1>4 DEF Inv, FramesInv
  <2> QED BY <1>2, <1>3, <1>4, <1>6, <2>1 DEF CallOK
<1>8. LayoutInv(G)'
  BY <1>1, LayoutStays DEF StateInv, LayoutInv, Receive, ghost
<1>9. StateInv(G)'
  BY <1>1, <1>5, <1>7, <1>8, ExtendsItself, StateStep DEF Receive
<1>10. CountInv'
  <2>1. IsFiniteSet(Creating) /\ Cardinality(Creating) \in Nat
    BY FS_CardinalityType DEF Inv, CountInv
  <2>2. Creating' = Creating \cup {p} /\ p \notin Creating
    BY <1>2, <1>3 DEF Creating
  <2>3. IsFiniteSet(Creating \cup {p}) /\ Cardinality(Creating \cup {p}) = Cardinality(Creating) + 1
    BY <2>1, <2>2, FS_AddElement
  <2>4. pending' = pending - 1 /\ pending > 0 /\ calls' = calls /\ group' = group
    BY DEF Receive
  <2>5. pending' \in Nat /\ pending' + Cardinality(Creating') <= calls
    BY <2>1, <2>2, <2>3, <2>4 DEF Inv, CountInv
  <2> QED BY <2>2, <2>3, <2>4, <2>5 DEF Inv, CountInv
<1>11. HistoryInv'
  BY HistoryStays DEF Receive
<1> QED BY <1>5, <1>9, <1>10, <1>11 DEF Inv

LEMMA GenerateStep ==
    ASSUME Inv, NEW p \in Callers, Generate(p)
    PROVE  Inv'
<1>1. PICK G : StateInv(G)
  BY DEF Inv
<1>2. /\ CountInv' /\ alone' \in [Callers -> BOOLEAN]
      /\ DOMAIN pc' = Callers /\ DOMAIN op' = Callers
      /\ pc'[p] = "wipe seats" /\ op'[p] = "generate" /\ snap[p] = Empty
      /\ \A q \in Callers \ {p} : pc'[q] = pc[q] /\ op'[q] = op[q]
  BY <1>1, CallBegins DEF Inv, Generate
<1>3. PICK d \in Inputs : input' = [input EXCEPT ![p] = d]
  BY DEF Generate
<1>4. snap' = snap /\ found' = found /\ SnapInv(snap[p], G) /\ IsGeometry(d)
  BY <1>1, LayoutAssumption DEF Generate, StateInv, CallOK
<1>5. FramesInv' /\ OthersStay(p)
  BY <1>2, <1>3, <1>4 DEF Inv, FramesInv, OthersStay
<1>6. CallOK(pc'[p], op'[p], input'[p], snap'[p], found'[p], G)
  <2>1. input'[p] = d
    BY <1>3 DEF Inv, FramesInv
  <2> QED BY <1>2, <1>4, <2>1 DEF CallOK
<1>7. LayoutInv(G)'
  BY <1>1, LayoutStays DEF StateInv, LayoutInv, Generate, ghost
<1>8. StateInv(G)'
  BY <1>1, <1>5, <1>6, <1>7, ExtendsItself, StateStep DEF Generate
<1>9. HistoryInv'
  BY HistoryStays DEF Generate
<1> QED BY <1>2, <1>5, <1>8, <1>9 DEF Inv

LEMMA WipeStep ==
    ASSUME Inv, NEW p \in Callers, Wipe(p)
    PROVE  Inv'
<1>1. PICK G : StateInv(G)
  BY DEF Inv
<1>2. PICK t \in {<<"wipe seats", "seat", "wipe tables">>, <<"wipe tables", "table", "wipe sections">>,
                  <<"wipe sections", "section", "write">>} :
         /\ pc[p] = t[1]
         /\ Put(Without(Of(t[2], rows)))
         /\ Goto(p, t[3])
  BY DEF Wipe
<1> DEFINE kind == t[2]
           to == t[3]
<1>3. /\ pc[p] \in {"wipe seats", "wipe tables", "wipe sections"}
      /\ to \in {"wipe tables", "wipe sections", "write"}
  <2>1. \/ t = <<"wipe seats", "seat", "wipe tables">>
        \/ t = <<"wipe tables", "table", "wipe sections">>
        \/ t = <<"wipe sections", "section", "write">>
    OBVIOUS
  <2>2. CASE t = <<"wipe seats", "seat", "wipe tables">>
    BY <1>2, <2>2
  <2>3. CASE t = <<"wipe tables", "table", "wipe sections">>
    BY <1>2, <2>3
  <2>4. CASE t = <<"wipe sections", "section", "write">>
    BY <1>2, <2>4
  <2> QED BY <2>1, <2>2, <2>3, <2>4
<1>4. Put(Without(Of(kind, rows))) /\ Goto(p, to)
  BY <1>2
<1> HIDE DEF kind, to
<1>5. UNCHANGED <<group, versions, history, pending, calls, op, input, snap, found, alone, astray>>
  BY DEF Wipe
<1>6. pc'[p] = to /\ FramesInv' /\ OthersStay(p)
  BY <1>4, <1>5 DEF Goto, Inv, FramesInv, OthersStay
<1>7. LayoutInv(G)'
  <2>1. Of(kind, rows) \in SUBSET DOMAIN rows
    BY DEF Of
  <2> QED BY <1>1, <1>4, <1>5, <2>1, WithoutStays DEF StateInv
<1>8. CallOK(pc'[p], op'[p], input'[p], snap'[p], found'[p], G)
  <2>1. CallOK(pc[p], op[p], input[p], snap[p], found[p], G)
    BY <1>1 DEF StateInv
  <2> QED BY <1>3, <1>5, <1>6, <2>1 DEF CallOK
<1>9. StateInv(G)'
  BY <1>1, <1>7, <1>8, <1>5, <1>6, ExtendsItself, StateStep
<1> QED BY <1>9, <1>5, <1>6, CountGoesOn, HistoryStays DEF Inv

LEMMA ThrowStep ==
    ASSUME Inv, NEW p \in Callers, Throw(p)
    PROVE  Inv'
BY EndStep DEF Throw, ghost

LEMMA WriteStep ==
    ASSUME Inv, NEW p \in Callers, WriteGeometry(p)
    PROVE  Inv'
<1>1. PICK G : StateInv(G)
  BY DEF Inv
<1>2. pc[p] = "write" /\ CallOK(pc[p], op[p], input[p], snap[p], found[p], G)
  BY <1>1 DEF StateInv, WriteGeometry
<1>3. CASE Throw(p)
  BY <1>3, ThrowStep
<1>4. CASE ~Throw(p)
  <2>1. PICK H : LayoutInv(H)' /\ Extends(H, G)
    BY <1>1, <1>2, <1>4, WriteGrows DEF StateInv, CallOK
  <2>2. Goto(p, "read sections") /\ UNCHANGED <<group, versions, history, pending, calls, op,
                                                input, snap, found, alone>>
    BY <1>4 DEF WriteGeometry
  <2>3. pc'[p] = "read sections" /\ FramesInv' /\ OthersStay(p)
    BY <2>2 DEF Goto, Inv, FramesInv, OthersStay
  <2>4. CallOK(pc'[p], op'[p], input'[p], snap'[p], found'[p], H)
    BY <1>2, <2>1, <2>2, <2>3, SnapKept DEF CallOK
  <2>5. StateInv(H)'
    BY <1>1, <2>1, <2>2, <2>3, <2>4, StateStep
  <2> QED BY <2>2, <2>3, <2>5, CountGoesOn, HistoryStays DEF Inv
<1> QED BY <1>3, <1>4

LEMMA SaveStep ==
    ASSUME Inv, NEW p \in Callers, Save(p)
    PROVE  Inv'
<1>1. PICK G : StateInv(G)
  BY DEF Inv
<1>2. /\ CountInv' /\ alone' \in [Callers -> BOOLEAN]
      /\ DOMAIN pc' = Callers /\ DOMAIN op' = Callers
      /\ pc'[p] = "read sections" /\ op'[p] = "save" /\ snap[p] = Empty
      /\ \A q \in Callers \ {p} : pc'[q] = pc[q] /\ op'[q] = op[q]
  BY <1>1, CallBegins DEF Inv, Save
<1>3. UNCHANGED <<rows, next, versions, history, input, snap, found, astray>> /\ SnapInv(snap[p], G)
  BY <1>1 DEF Save, StateInv, CallOK, ghost
<1>4. FramesInv' /\ OthersStay(p)
  BY <1>2, <1>3 DEF Inv, FramesInv, OthersStay
<1>5. CallOK(pc'[p], op'[p], input'[p], snap'[p], found'[p], G)
  BY <1>2, <1>3 DEF CallOK
<1>6. LayoutInv(G)'
  BY <1>1, <1>3, LayoutStays DEF StateInv, LayoutInv
<1>7. StateInv(G)'
  BY <1>1, <1>3, <1>4, <1>5, <1>6, ExtendsItself, StateStep
<1> QED BY <1>2, <1>3, <1>4, <1>7, HistoryStays DEF Inv

LEMMA SerializeStep ==
    ASSUME Inv, NEW p \in Callers, Serialize(p)
    PROVE  Inv'
<1>1. PICK G : StateInv(G)
  BY DEF Inv
<1>2. CallOK(pc[p], op[p], input[p], snap[p], found[p], G)
  BY <1>1 DEF StateInv
<1>3. PICK t \in {<<"read sections", "section", "read tables">>, <<"read tables", "table", "read seats">>,
                  <<"read seats", "seat", "version">>} :
         /\ pc[p] = t[1]
         /\ snap' = [snap EXCEPT ![p] = Join(@, [i \in Of(t[2], rows) |-> rows[i]])]
         /\ Goto(p, t[3])
  BY DEF Serialize
<1> DEFINE kind == t[2]
           to == t[3]
           r == snap[p]
           s == Join(r, RowsOf(kind))
<1>4. \/ pc[p] = "read sections" /\ kind = "section" /\ to = "read tables"
      \/ pc[p] = "read tables" /\ kind = "table" /\ to = "read seats"
      \/ pc[p] = "read seats" /\ kind = "seat" /\ to = "version"
  <2>1. \/ t = <<"read sections", "section", "read tables">>
        \/ t = <<"read tables", "table", "read seats">>
        \/ t = <<"read seats", "seat", "version">>
    OBVIOUS
  <2>2. pc[p] = t[1]
    BY <1>3
  <2>3. CASE t = <<"read sections", "section", "read tables">>
    BY <2>2, <2>3
  <2>4. CASE t = <<"read tables", "table", "read seats">>
    BY <2>2, <2>4
  <2>5. CASE t = <<"read seats", "seat", "version">>
    BY <2>2, <2>5
  <2> QED BY <2>1, <2>3, <2>4, <2>5
<1>14. snap' = [snap EXCEPT ![p] = s] /\ Goto(p, to)
  BY <1>3 DEF RowsOf
<1>15. s = Join(r, RowsOf(kind))
  OBVIOUS
<1> HIDE DEF kind, to, s
<1>5. UNCHANGED <<group, rows, next, versions, history, pending, calls, op, input, found, alone,
                 astray>>
  BY DEF Serialize, ghost
<1>6. /\ kind = "section" => r = Empty
      /\ kind = "table" => \A i \in DOMAIN r : r[i].kind = "section"
      /\ kind = "seat" => \A i \in DOMAIN r : r[i].kind \in {"section", "table"}
      /\ SnapInv(r, G)
  BY <1>2, <1>4 DEF CallOK
<1>7. DOMAIN Empty = {}
  BY DEF Empty
<1> HIDE DEF r
<1>8. Of(kind, r) = {}
  BY <1>4, <1>6, <1>7 DEF Of
<1>9. SnapInv(s, G) /\ Adds(s, r, kind)
  <2>1. LayoutInv(G) /\ SnapInv(r, G)
    BY <1>1, <1>6 DEF StateInv
  <2> QED BY <2>1, <1>8, <1>15, SnapGrows
<1>10. snap'[p] = s /\ pc'[p] = to /\ FramesInv' /\ OthersStay(p)
  BY <1>5, <1>14 DEF Goto, Inv, FramesInv, OthersStay
<1>11. CallOK(pc'[p], op'[p], input'[p], snap'[p], found'[p], G)
  <2>1. to = "read tables" => \A i \in DOMAIN s : s[i].kind = "section"
    BY <1>4, <1>6, <1>7, <1>9 DEF Adds
  <2>2. to = "read seats" => \A i \in DOMAIN s : s[i].kind \in {"section", "table"}
    BY <1>4, <1>6, <1>9 DEF Adds
  <2> QED BY <1>4, <1>9, <1>10, <2>1, <2>2 DEF CallOK
<1>12. LayoutInv(G)'
  BY <1>1, <1>5, LayoutStays DEF StateInv, LayoutInv
<1>13. StateInv(G)'
  BY <1>1, <1>5, <1>10, <1>11, <1>12, ExtendsItself, StateStep
<1> QED BY <1>5, <1>10, <1>13, CountGoesOn, HistoryStays DEF Inv

LEMMA VersionStep ==
    ASSUME Inv, NEW p \in Callers, CreateVersion(p)
    PROVE  Inv'
<1>1. PICK G : StateInv(G)
  BY DEF Inv
<1>2. CallOK(pc[p], op[p], input[p], snap[p], found[p], G) /\ pc[p] = "version"
  BY <1>1 DEF StateInv, CreateVersion
<1>3. CASE Throw(p)
  BY <1>3, ThrowStep
<1>4. CASE ~Throw(p)
  <2>1. PICK v \in NumbersFor(op[p]) :
           versions' = Join(versions, One(v, [snap |-> snap[p], dated |-> op[p] # "save"]))
    BY <1>4 DEF CreateVersion
  <2>2. Goto(p, "done") /\ UNCHANGED <<group, rows, next, history, pending, calls,
                                       op, input, snap, found, alone, astray>>
    BY <1>4 DEF CreateVersion
  <2>3. pc'[p] = "done" /\ FramesInv' /\ OthersStay(p)
    BY <2>2 DEF Goto, Inv, FramesInv, OthersStay
  <2>4. v \in Numbers
    BY DEF NumbersFor
  <2> DEFINE e == [snap |-> snap[p], dated |-> op[p] # "save"]
  <2>5. e.snap = snap[p] /\ versions' = Join(versions, One(v, e))
    BY <2>1
  <2> HIDE DEF e
  <2>6. /\ DOMAIN versions' = DOMAIN versions \cup {v}
        /\ \A w \in DOMAIN versions' : \/ w \in DOMAIN versions /\ versions'[w] = versions[w]
                                       \/ versions'[w] = e
    BY <2>5 DEF Join, One
  <2>7. /\ DOMAIN versions' \subseteq Numbers
        /\ \A w \in DOMAIN versions' : SnapInv(versions'[w].snap, G)
    BY <1>1, <1>2, <2>4, <2>5, <2>6 DEF StateInv, CallOK
  <2>8. CallOK(pc'[p], op'[p], input'[p], snap'[p], found'[p], G)
    BY <1>2, <2>2, <2>3 DEF CallOK
  <2>9. LayoutInv(G)'
    BY <1>1, <2>2, LayoutStays DEF StateInv, LayoutInv
  <2>10. StateInv(G)'
    BY <1>1, <2>3, <2>7, <2>8, <2>9, ExtendsItself, StateStep
  <2> QED BY <2>2, <2>3, <2>10, CountGoesOn, HistoryStays DEF Inv
<1> QED BY <1>3, <1>4

LEMMA CopyStep ==
    ASSUME Inv, NEW p \in Callers, NEW o, NEW i \in DOMAIN rows,
           \/ o = "clone" /\ rows[i].kind = "section"
           \/ o = "duplicate" /\ rows[i].kind = "table",
           Copy(p, o, i)
    PROVE  Inv'
<1>1. PICK G : StateInv(G)
  BY DEF Inv
<1> DEFINE tables == {i} \cup {t \in Of("table", rows) : rows[t].section = i}
           seats  == {s \in Of("seat", rows) : rows[s].table \in tables}
           copy(by) == [j \in tables \cup seats |->
                          [rows[j] EXCEPT !.name = IF j \in seats THEN @ ELSE <<@[1], @[2] + 1>>,
                                          !.section = IF j \in seats /\ o = "clone" THEN i ELSE @,
                                          !.place = @ + by]]
<1>2. PICK by \in {0, 1} : /\ Call(p, o, "copy")
                           /\ input' = [input EXCEPT ![p] = copy(by)]
                           /\ UNCHANGED <<group, rows, next, versions, history, pending, snap, found,
                                          astray>>
  BY DEF Copy, ghost
<1> DEFINE d == copy(by)
<1>3. DOMAIN d = tables \cup seats /\ tables \cup seats \subseteq DOMAIN rows
  BY DEF Of
<1>4. ASSUME NEW j \in DOMAIN d
      PROVE  \E name : \E place \in Nat :
                d[j] = [rows[j] EXCEPT !.name = name, !.section = SectionBelow(o, i, j),
                                       !.place = place]
  <2> DEFINE r == rows[j]
             name == IF j \in seats THEN r.name ELSE <<r.name[1], r.name[2] + 1>>
             section == IF j \in seats /\ o = "clone" THEN i ELSE r.section
             place == r.place + by
  <2>1. IsRow(r)
    BY <1>1, <1>3 DEF StateInv, LayoutInv, Akin
  <2>2. d[j] = [r EXCEPT !.name = IF j \in seats THEN @ ELSE <<@[1], @[2] + 1>>,
                         !.section = IF j \in seats /\ o = "clone" THEN i ELSE @,
                         !.place = @ + by]
    BY <1>3
  <2>5. section = SectionBelow(o, i, j)
    BY DEF SectionBelow, SeatsBelow, TablesBelow
  <2> HIDE DEF d, r, seats
  <2>3. d[j] = [r EXCEPT !.name = name, !.section = section, !.place = place]
    BY <2>1, <2>2 DEF IsRow, Row
  <2>4. place \in Nat
    BY <2>1 DEF IsRow
  <2> HIDE DEF name, section, place
  <2> QED BY <2>3, <2>4, <2>5 DEF r
<1> HIDE DEF d
<1>5. CopyInv(d, Empty, G) /\ StraysCopied(o, d, G)
  <2>1. DOMAIN d = TablesBelow(i) \cup SeatsBelow(i)
    BY <1>3 DEF TablesBelow, SeatsBelow
  <2>2. Copied(d, o, i)
    BY <1>4 DEF Copied
  <2>3. LayoutInv(G)
    BY <1>1 DEF StateInv
  <2> QED BY <2>1, <2>2, <2>3, CopyStarts
<1>6. /\ CountInv' /\ alone' \in [Callers -> BOOLEAN]
      /\ DOMAIN pc' = Callers /\ DOMAIN op' = Callers
      /\ pc'[p] = "copy" /\ op'[p] = o /\ snap[p] = Empty /\ found[p] = Empty
      /\ \A q \in Callers \ {p} : pc'[q] = pc[q] /\ op'[q] = op[q]
  <2>1. CountInv /\ FramesInv
    BY DEF Inv
  <2>2. Call(p, o, "copy") /\ group' = group /\ pending' = pending
    BY <1>2
  <2>3. o # "create"
    OBVIOUS
  <2>4. /\ CountInv' /\ alone' \in [Callers -> BOOLEAN]
        /\ DOMAIN pc' = Callers /\ DOMAIN op' = Callers
        /\ pc'[p] = "copy" /\ op'[p] = o
        /\ snap[p] = Empty /\ found[p] = Empty
        /\ \A q \in Callers \ {p} : pc'[q] = pc[q] /\ op'[q] = op[q]
    BY <1>1, <2>1, <2>2, <2>3, CallBegins, SMTT(30)
  <2> QED BY <2>4, Zenon
<1>7. input' = [input EXCEPT ![p] = d]
  BY <1>2 DEF d
<1>8. FramesInv' /\ OthersStay(p) /\ input'[p] = d
  BY <1>2, <1>6, <1>7 DEF Inv, FramesInv, OthersStay
<1>9. SnapInv(snap[p], G)
  BY <1>1 DEF StateInv, CallOK
<1>10. CallOK(pc'[p], op'[p], input'[p], snap'[p], found'[p], G)
  BY <1>2, <1>5, <1>6, <1>8, <1>9 DEF CallOK
<1>11. LayoutInv(G)'
  BY <1>1, <1>2, LayoutStays DEF StateInv, LayoutInv
<1>12. StateInv(G)'
  BY <1>1, <1>2, <1>8, <1>10, <1>11, ExtendsItself, StateStep
<1> QED BY <1>2, <1>6, <1>8, <1>12, HistoryStays DEF Inv

LEMMA CopyRowsStep ==
    ASSUME Inv, NEW p \in Callers, CopyRows(p)
    PROVE  Inv'
<1>1. PICK G : StateInv(G)
  BY DEF Inv
<1>2. pc[p] = "copy" /\ CallOK(pc[p], op[p], input[p], snap[p], found[p], G)
  BY <1>1 DEF StateInv, CopyRows
<1>3. CopyInv(input[p], found[p], G) /\ StraysCopied(op[p], input[p], G) /\ snap[p] = Empty /\ SnapInv(snap[p], G)
  BY <1>2 DEF CallOK
<1>4. CASE Throw(p)
  BY <1>4, ThrowStep
<1>5. ASSUME NEW X \in Batches(input[p], DOMAIN input[p] \ DOMAIN found[p]),
             LET m == Join(found[p], Fresh(X))
                 copied == Join(rows, Drawn(input[p], X, m))
             IN  /\ Allowed(copied) /\ Put(copied)
                 /\ found' = [found EXCEPT ![p] = m]
                 /\ astray' = astray \cup
                       {m[i] : i \in IF op[p] = "duplicate" THEN X \cap astray ELSE {}},
             UNCHANGED <<group, versions, history, pending, calls, pc, op, input, snap, alone>>
      PROVE  Inv'
  <2> DEFINE m == Join(found[p], Fresh(X))
             copied == Join(rows, Drawn(input[p], X, m))
  <2>1. Allowed(copied) /\ Put(copied) /\ found' = [found EXCEPT ![p] = m] /\ LayoutInv(G)
    BY <1>1, <1>5 DEF StateInv
  <2>2. m = Join(found[p], Fresh(X)) /\ copied = Join(rows, Drawn(input[p], X, m))
    OBVIOUS
  <2>8. astray' = astray \cup {m[i] : i \in IF op[p] = "duplicate" THEN X \cap astray ELSE {}}
    BY <1>5
  <2> HIDE DEF m, copied
  <2>9. \A i \in X : Agrees(input[p][i], input[p]) \/ m[i] \in astray'
    <3>1. X \subseteq DOMAIN input[p]
      BY <1>3, <2>1, BatchIsReady DEF LayoutInv
    <3>2. ASSUME NEW i \in X, ~Agrees(input[p][i], input[p])
          PROVE  op[p] = "duplicate" /\ i \in astray
      BY <1>3, <2>1, <3>1, <3>2 DEF StraysCopied, LayoutInv
    <3> QED BY <2>8, <3>2
  <2>3. PICK H : LayoutInv(H)' /\ Extends(H, G) /\ CopyInv(input[p], m, H)
    BY <1>3, <2>1, <2>2, <2>8, <2>9, CopyGrows
  <2>4. FramesInv' /\ OthersStay(p) /\ found'[p] = m
    BY <1>5, <2>1 DEF Inv, FramesInv, OthersStay
  <2>5. SnapInv(snap[p], H)
    BY <1>3, <2>3, SnapKept
  <2>10. StraysCopied(op[p], input[p], H)
    BY <1>3, <2>1, <2>3, StraysCopiedKept DEF LayoutInv
  <2>6. CallOK(pc'[p], op'[p], input'[p], snap'[p], found'[p], H)
    BY <1>2, <1>3, <1>5, <2>10, <2>3, <2>4, <2>5 DEF CallOK
  <2>7. StateInv(H)'
    BY <1>1, <1>5, <2>3, <2>4, <2>6, StateStep
  <2> QED BY <1>5, <2>4, <2>7, CountGoesOn, HistoryStays DEF Inv
<1>6. CASE /\ Goto(p, "read sections")
           /\ UNCHANGED <<group, rows, next, versions, history, pending, calls,
                          op, input, snap, found, alone, astray>>
  <2>1. pc'[p] = "read sections" /\ FramesInv' /\ OthersStay(p)
    BY <1>6 DEF Goto, Inv, FramesInv, OthersStay
  <2>2. CallOK(pc'[p], op'[p], input'[p], snap'[p], found'[p], G)
    BY <1>2, <1>3, <1>6, <2>1 DEF CallOK
  <2>3. LayoutInv(G)'
    BY <1>1, <1>6, LayoutStays DEF StateInv, LayoutInv
  <2>4. StateInv(G)'
    BY <1>1, <1>6, <2>1, <2>2, <2>3, ExtendsItself, StateStep
  <2> QED BY <1>6, <2>1, <2>4, CountGoesOn, HistoryStays DEF Inv
<1> QED BY <1>4, <1>5, <1>6 DEF CopyRows, ghost

LEMMA ApplyStep ==
    ASSUME Inv, NEW p \in Callers, Apply(p)
    PROVE  Inv'
<1>1. PICK G : StateInv(G)
  BY DEF Inv
<1>2. PICK X \in SUBSET Of("seat", rows) : \E after \in [X -> Places] :
         /\ input' = [input EXCEPT ![p] = after]
         /\ found' = [found EXCEPT ![p] = [i \in X |-> rows[i].place]]
  BY DEF Apply
<1>3. PICK after \in [X -> Places] :
         /\ input' = [input EXCEPT ![p] = after]
         /\ found' = [found EXCEPT ![p] = [i \in X |-> rows[i].place]]
  BY <1>2
<1> DEFINE before == [i \in X |-> rows[i].place]
<1>4. \A i \in X : rows[i].place \in Nat
  BY <1>1 DEF StateInv, LayoutInv, Akin, IsRow, Of
<1>5. \A i \in DOMAIN before : before[i] \in Nat
  BY <1>4
<1>6. found' = [found EXCEPT ![p] = before]
  BY <1>3
<1> HIDE DEF before
<1>7. \A i \in DOMAIN after : after[i] \in Nat
  BY LayoutAssumption DEF Places
<1>8. /\ CountInv' /\ alone' \in [Callers -> BOOLEAN]
      /\ DOMAIN pc' = Callers /\ DOMAIN op' = Callers
      /\ pc'[p] = "apply" /\ snap[p] = Empty
      /\ \A q \in Callers \ {p} : pc'[q] = pc[q] /\ op'[q] = op[q]
  BY <1>1, CallBegins DEF Inv, Apply
<1>9. UNCHANGED <<rows, next, versions, history, snap, astray>> /\ SnapInv(snap[p], G)
  BY <1>1 DEF Apply, StateInv, CallOK, ghost
<1>10. FramesInv' /\ OthersStay(p) /\ input'[p] = after /\ found'[p] = before
  BY <1>3, <1>6, <1>8, <1>9 DEF Inv, FramesInv, OthersStay
<1>11. CallOK(pc'[p], op'[p], input'[p], snap'[p], found'[p], G)
  BY <1>5, <1>7, <1>8, <1>9, <1>10 DEF CallOK
<1>12. LayoutInv(G)'
  BY <1>1, <1>9, LayoutStays DEF StateInv, LayoutInv
<1>13. StateInv(G)'
  BY <1>1, <1>9, <1>10, <1>11, <1>12, ExtendsItself, StateStep
<1> QED BY <1>8, <1>9, <1>10, <1>13, HistoryStays DEF Inv

LEMMA AppliedMax ==
    ASSUME HistoryInv, Applied # {}
    PROVE  Max(Applied) \in Applied /\ Max(Applied) \in Nat /\ \A k \in Applied : k <= Max(Applied)
<1>1. PICK k \in Nat : DOMAIN history \subseteq 0 .. k
  BY DEF HistoryInv
<1>2. Applied \in SUBSET (0 .. k)
  BY <1>1 DEF Applied
<1> QED BY <1>1, <1>2, MaxIsGreatest

LEMMA ApplyGeometryStep ==
    ASSUME Inv, NEW p \in Callers, ApplyGeometry(p)
    PROVE  Inv'
<1>1. PICK G : StateInv(G)
  BY DEF Inv
<1>2. pc[p] = "apply" /\ CallOK(pc[p], op[p], input[p], snap[p], found[p], G)
  BY <1>1 DEF StateInv, ApplyGeometry
<1>3. CASE Throw(p)
  BY <1>3, ThrowStep
<1>4. CASE ~Throw(p)
  <2> DEFINE n == IF Applied = {} THEN 0 ELSE Max(Applied) + 1
             e == [id |-> next', before |-> found[p], after |-> input[p], applied |-> TRUE]
  <2>1. /\ rows' = Moved(input[p]) /\ next' = next + 1
        /\ history' = Join([k \in Applied |-> history[k]], One(n, e))
        /\ Goto(p, "done")
        /\ UNCHANGED <<group, versions, pending, calls, op, input, snap, found, alone, astray>>
    BY <1>4 DEF ApplyGeometry
  <2>2. IsEntry(e)
    BY <1>2 DEF CallOK, IsEntry
  <2>3. n \in Nat
    BY AppliedMax DEF Inv
  <2> HIDE DEF n, e
  <2>4. /\ DOMAIN history' = Applied \cup {n}
        /\ \A k \in DOMAIN history' : history'[k] = e \/ (k \in Applied /\ history'[k] = history[k])
    BY <2>1 DEF Join, One
  <2>5. HistoryInv'
    <3>1. PICK k \in Nat : DOMAIN history \subseteq 0 .. k
      BY DEF Inv, HistoryInv
    <3>2. DOMAIN history' \subseteq 0 .. (k + n) /\ k + n \in Nat
      <4>1. \A j \in 0 .. k : j \in 0 .. (k + n)
        BY <2>3
      <4>2. n \in 0 .. (k + n) /\ k + n \in Nat
        BY <2>3
      <4> QED BY <2>4, <3>1, <4>1, <4>2 DEF Applied
    <3>3. \A j \in DOMAIN history' : IsEntry(history'[j])
      BY <2>2, <2>4 DEF Inv, HistoryInv, Applied
    <3>4. \A j \in DOMAIN history' : IsEntry(history[j])'
      BY <3>3 DEF IsEntry
    <3> QED BY <3>2, <3>4 DEF HistoryInv
  <2>6. pc'[p] = "done" /\ FramesInv' /\ OthersStay(p)
    BY <2>1 DEF Goto, Inv, FramesInv, OthersStay
  <2>7. LayoutInv(G)'
    BY <1>1, <1>2, <2>1, MovedStays DEF StateInv, CallOK
  <2>8. CallOK(pc'[p], op'[p], input'[p], snap'[p], found'[p], G)
    BY <1>2, <2>1, <2>6 DEF CallOK
  <2>9. StateInv(G)'
    BY <1>1, <2>1, <2>6, <2>7, <2>8, ExtendsItself, StateStep
  <2> QED BY <2>1, <2>5, <2>6, <2>9, CountGoesOn DEF Inv
<1> QED BY <1>3, <1>4

LEMMA LookStep ==
    ASSUME Inv, NEW p \in Callers, NEW o, o \in {"undo", "redo"},
           NEW entries, entries = IF o = "undo" THEN Applied ELSE DOMAIN history \ Applied,
           Look(p, o, entries)
    PROVE  Inv'
<1>1. PICK G : StateInv(G)
  BY DEF Inv
<1> DEFINE label == IF entries = {} THEN "latest" ELSE "entry"
           c == Candidate(o)
           f == IF entries = {} THEN found[p] ELSE One(c, history[c])
<1>2. /\ Call(p, o, label) /\ found' = [found EXCEPT ![p] = f]
      /\ UNCHANGED <<group, rows, next, versions, history, pending, input, snap, astray>>
  BY DEF Look, ghost
<1>3. entries # {} => c \in DOMAIN history
  <2>1. DOMAIN history \in SUBSET Nat
    BY DEF Inv, HistoryInv
  <2>2. Applied # {} => Max(Applied) \in DOMAIN history
    BY AppliedMax DEF Inv, Applied
  <2>3. DOMAIN history \ Applied # {} => Min(DOMAIN history \ Applied) \in DOMAIN history
    BY <2>1, MinIsLeast
  <2> QED BY <2>2, <2>3 DEF Candidate
<1>4. entries # {} => \E n, e : f = One(n, e) /\ IsEntry(e)
  <2>1. entries # {} => IsEntry(history[c])
    BY <1>3 DEF Inv, HistoryInv
  <2> QED BY <2>1
<1>5. label = "latest" \/ (label = "entry" /\ entries # {})
  OBVIOUS
<1> HIDE DEF label, f
<1>6. /\ CountInv' /\ alone' \in [Callers -> BOOLEAN]
      /\ DOMAIN pc' = Callers /\ DOMAIN op' = Callers
      /\ pc'[p] = label /\ snap[p] = Empty
      /\ \A q \in Callers \ {p} : pc'[q] = pc[q] /\ op'[q] = op[q]
  <2>1. o # "create"
    OBVIOUS
  <2> QED BY <1>1, <1>2, <2>1, CallBegins DEF Inv
<1>7. FramesInv' /\ OthersStay(p) /\ found'[p] = f
  BY <1>2, <1>6 DEF Inv, FramesInv, OthersStay
<1>8. SnapInv(snap[p], G)
  BY <1>1 DEF StateInv, CallOK
<1>9. CallOK(pc'[p], op'[p], input'[p], snap'[p], found'[p], G)
  BY <1>2, <1>4, <1>5, <1>6, <1>7, <1>8 DEF CallOK
<1>10. LayoutInv(G)'
  BY <1>1, <1>2, LayoutStays DEF StateInv, LayoutInv
<1>11. StateInv(G)'
  BY <1>1, <1>2, <1>7, <1>9, <1>10, ExtendsItself, StateStep
<1> QED BY <1>2, <1>6, <1>7, <1>11, HistoryStays DEF Inv

LEMMA ApplyEntryStep ==
    ASSUME Inv, NEW p \in Callers, ApplyEntry(p)
    PROVE  Inv'
<1>1. PICK G : StateInv(G)
  BY DEF Inv
<1>2. pc[p] = "entry" /\ CallOK(pc[p], op[p], input[p], snap[p], found[p], G)
  BY <1>1 DEF StateInv, ApplyEntry
<1>3. PICK k : \E e : found[p] = One(k, e) /\ IsEntry(e)
  BY <1>2 DEF CallOK
<1>4. PICK e : found[p] = One(k, e) /\ IsEntry(e)
  BY <1>3
<1>5. (CHOOSE n \in DOMAIN found[p] : TRUE) = k /\ found[p][k] = e
  BY <1>4 DEF One
<1> DEFINE d == IF op[p] = "undo" THEN e.before ELSE e.after
           to == (op[p] = "redo")
<1>6. \A i \in DOMAIN d : d[i] \in Nat
  BY <1>4 DEF IsEntry
<1>7. CASE Throw(p)
  BY <1>7, ThrowStep
<1>8. CASE ~Throw(p)
  <2>1. /\ k \in DOMAIN history /\ rows' = Moved(d) /\ next' = next
        /\ history' = [history EXCEPT ![k].applied = to]
        /\ Goto(p, "done")
        /\ UNCHANGED <<group, versions, pending, calls, op, input, snap, found, alone, astray>>
    BY <1>5, <1>8 DEF ApplyEntry
  <2>2. to \in BOOLEAN
    OBVIOUS
  <2> HIDE DEF d, to
  <2>3. DOMAIN history' = DOMAIN history /\ \A j \in DOMAIN history : IsEntry(history'[j])
    <3>1. IsEntry(history[k])
      BY <2>1 DEF Inv, HistoryInv
    <3>2. history'[k] = [history[k] EXCEPT !.applied = to]
      BY <2>1
    <3>3. IsEntry(history'[k])
      <4> DEFINE a == history[k]
                 b == history'[k]
      <4>1. IsEntry(a) /\ b = [a EXCEPT !.applied = to]
        BY <3>1, <3>2
      <4> HIDE DEF a, b
      <4>2. IsEntry(b)
        BY <2>2, <4>1 DEF IsEntry
      <4> QED BY <4>2 DEF b
    <3>4. DOMAIN history' = DOMAIN history /\ \A j \in DOMAIN history \ {k} : history'[j] = history[j]
      BY <2>1
    <3> QED BY <3>3, <3>4 DEF Inv, HistoryInv
  <2>4. HistoryInv'
    <3>1. \A j \in DOMAIN history' : IsEntry(history[j])'
      BY <2>3 DEF IsEntry
    <3> QED BY <2>3, <3>1 DEF Inv, HistoryInv
  <2>5. pc'[p] = "done" /\ FramesInv' /\ OthersStay(p)
    BY <2>1 DEF Goto, Inv, FramesInv, OthersStay
  <2>6. LayoutInv(G)'
    BY <1>1, <1>6, <2>1, MovedStays DEF StateInv
  <2>7. CallOK(pc'[p], op'[p], input'[p], snap'[p], found'[p], G)
    BY <1>2, <2>1, <2>5 DEF CallOK
  <2>8. StateInv(G)'
    BY <1>1, <2>1, <2>5, <2>6, <2>7, ExtendsItself, StateStep
  <2> QED BY <2>1, <2>4, <2>5, <2>8, CountGoesOn DEF Inv
<1> QED BY <1>7, <1>8

LEMMA ReadLatestStep ==
    ASSUME Inv, NEW p \in Callers, ReadLatest(p)
    PROVE  Inv'
<1>1. PICK G : StateInv(G)
  BY DEF Inv
<1>2. pc[p] = "latest" /\ CallOK(pc[p], op[p], input[p], snap[p], found[p], G)
  BY <1>1 DEF StateInv, ReadLatest
<1>3. /\ UNCHANGED <<group, rows, next, versions, history, pending, calls, op, input, snap, alone,
                   astray>>
      /\ \E label \in {"done", "other"} : Goto(p, label)
      /\ found' = found \/ \E f : found' = [found EXCEPT ![p] = f]
  BY DEF ReadLatest, ghost
<1>4. pc'[p] \in {"done", "other"} /\ FramesInv' /\ OthersStay(p)
  BY <1>3 DEF Goto, Inv, FramesInv, OthersStay
<1>5. CallOK(pc'[p], op'[p], input'[p], snap'[p], found'[p], G)
  BY <1>2, <1>3, <1>4 DEF CallOK
<1>6. LayoutInv(G)'
  BY <1>1, <1>3, LayoutStays DEF StateInv, LayoutInv
<1>7. StateInv(G)'
  BY <1>1, <1>3, <1>4, <1>5, <1>6, ExtendsItself, StateStep
<1> QED BY <1>3, <1>4, <1>7, CountGoesOn, HistoryStays DEF Inv

\* The version to go to is one there is.
LEMMA OtherVersion ==
    ASSUME DOMAIN versions \subseteq Numbers, NEW latest, NEW S, S # {},
           S = {v \in DOMAIN versions : v < latest} \/ S = {v \in DOMAIN versions : v > latest}
    PROVE  Max(S) \in DOMAIN versions /\ Min(S) \in DOMAIN versions
<1>1. S \subseteq DOMAIN versions /\ S \in SUBSET (0 .. MaxNumber) /\ MaxNumber \in Nat
  BY LayoutAssumption DEF Numbers
<1>2. Max(S) \in S
  BY <1>1, MaxIsGreatest
<1>3. S \in SUBSET Nat
  BY <1>1
<1>4. Min(S) \in S
  BY <1>3, MinIsLeast
<1> QED BY <1>1, <1>2, <1>4

LEMMA ReadOtherStep ==
    ASSUME Inv, NEW p \in Callers, ReadOther(p)
    PROVE  Inv'
<1>1. PICK G : StateInv(G)
  BY DEF Inv
<1>2. pc[p] = "other" /\ CallOK(pc[p], op[p], input[p], snap[p], found[p], G)
  BY <1>1 DEF StateInv, ReadOther
<1>3. UNCHANGED <<group, rows, next, versions, history, pending, calls, op, input, alone,
                 astray>>
  BY DEF ReadOther, ghost
<1>4. LayoutInv(G)'
  BY <1>1, <1>3, LayoutStays DEF StateInv, LayoutInv
<1> DEFINE latest == CHOOSE v \in DOMAIN found[p] : TRUE
           before == {v \in DOMAIN versions : v < latest}
           after  == {v \in DOMAIN versions : v > latest}
           v == IF op[p] = "undo" THEN Max(before) ELSE Min(after)
<1>5. CASE (IF op[p] = "undo" THEN before ELSE after) = {}
  <2>1. Goto(p, "done") /\ UNCHANGED <<found, snap>>
    BY <1>5 DEF ReadOther
  <2>2. pc'[p] = "done" /\ FramesInv' /\ OthersStay(p)
    BY <1>3, <2>1 DEF Goto, Inv, FramesInv, OthersStay
  <2>3. CallOK(pc'[p], op'[p], input'[p], snap'[p], found'[p], G)
    BY <1>2, <1>3, <2>1, <2>2 DEF CallOK
  <2>4. StateInv(G)'
    BY <1>1, <1>3, <1>4, <2>2, <2>3, ExtendsItself, StateStep
  <2> QED BY <1>3, <2>2, <2>4, CountGoesOn, HistoryStays DEF Inv
<1>6. CASE (IF op[p] = "undo" THEN before ELSE after) # {}
  <2>1. /\ Goto(p, "restore")
        /\ found' = [found EXCEPT ![p] = One(v, Empty)]
        /\ snap' = [snap EXCEPT ![p] = versions[v].snap]
    BY <1>6 DEF ReadOther
  <2>2. v \in DOMAIN versions
    <3>1. DOMAIN versions \subseteq Numbers
      BY <1>1 DEF StateInv
    <3>2. before # {} => Max(before) \in DOMAIN versions
      BY <3>1, OtherVersion
    <3>3. after # {} => Min(after) \in DOMAIN versions
      BY <3>1, OtherVersion
    <3> QED BY <1>6, <3>2, <3>3
  <2>3. SnapInv(versions[v].snap, G)
    BY <1>1, <2>2 DEF StateInv
  <2> HIDE DEF v
  <2>4. pc'[p] = "restore" /\ snap'[p] = versions[v].snap /\ FramesInv' /\ OthersStay(p)
    BY <1>3, <2>1 DEF Goto, Inv, FramesInv, OthersStay
  <2>5. CallOK(pc'[p], op'[p], input'[p], snap'[p], found'[p], G)
    BY <2>3, <2>4 DEF CallOK
  <2>6. StateInv(G)'
    BY <1>1, <1>3, <1>4, <2>4, <2>5, ExtendsItself, StateStep
  <2> QED BY <1>3, <2>4, <2>6, CountGoesOn, HistoryStays DEF Inv
<1> QED BY <1>5, <1>6

LEMMA RestoreStep ==
    ASSUME Inv, NEW p \in Callers, RestoreVersion(p)
    PROVE  Inv'
<1>1. PICK G : StateInv(G)
  BY DEF Inv
<1>2. pc[p] = "restore" /\ CallOK(pc[p], op[p], input[p], snap[p], found[p], G)
  BY <1>1 DEF StateInv, RestoreVersion
<1> DEFINE X == Restorable(snap[p])
<1>3. /\ Put(Drawn(snap[p], X, Fresh(X))) /\ Goto(p, "done")
      /\ astray' = astray \cup {Fresh(X)[i] : i \in X \cap astray}
      /\ UNCHANGED <<group, versions, history, pending, calls, op, input, snap, found, alone>>
  BY DEF RestoreVersion
<1>4. PICK H : LayoutInv(H)' /\ Extends(H, G)
  <2>1. LayoutInv(G) /\ SnapInv(snap[p], G) /\ X = Restorable(snap[p])
    BY <1>1, <1>2 DEF StateInv, CallOK
  <2> HIDE DEF X
  <2> QED BY <1>3, <2>1, RestoreGrows
<1>5. pc'[p] = "done" /\ FramesInv' /\ OthersStay(p)
  BY <1>3 DEF Goto, Inv, FramesInv, OthersStay
<1>6. CallOK(pc'[p], op'[p], input'[p], snap'[p], found'[p], H)
  <2>1. SnapInv(snap[p], H)
    BY <1>2, <1>4, SnapKept DEF CallOK
  <2> QED BY <1>3, <1>5, <2>1 DEF CallOK
<1>7. StateInv(H)'
  BY <1>1, <1>3, <1>4, <1>5, <1>6, StateStep
<1> QED BY <1>3, <1>5, <1>7, CountGoesOn, HistoryStays DEF Inv

\* One statement that no other step of the call follows.
LEMMA EditStep ==
    ASSUME Inv, NEW p \in Callers, NEW o, o # "create", NEW d, Change(p, o, d),
           \A G : StateInv(G) => \E H : LayoutInv(H)' /\ Extends(H, G)
    PROVE  Inv'
<1>1. PICK G : StateInv(G)
  BY DEF Inv
<1>2. PICK H : LayoutInv(H)' /\ Extends(H, G)
  BY <1>1
<1>3. Call(p, o, "done") /\ UNCHANGED <<group, versions, history, pending, input, snap, found>>
  BY DEF Change
<1>4. /\ CountInv' /\ alone' \in [Callers -> BOOLEAN]
      /\ DOMAIN pc' = Callers /\ DOMAIN op' = Callers
      /\ pc'[p] = "done" /\ snap[p] = Empty
      /\ \A q \in Callers \ {p} : pc'[q] = pc[q] /\ op'[q] = op[q]
  BY <1>1, <1>3, CallBegins DEF Inv
<1>5. FramesInv' /\ OthersStay(p)
  BY <1>3, <1>4 DEF Inv, FramesInv, OthersStay
<1>6. SnapInv(snap[p], H)
  BY <1>1, <1>2, SnapKept DEF StateInv, CallOK
<1>7. CallOK(pc'[p], op'[p], input'[p], snap'[p], found'[p], H)
  BY <1>3, <1>4, <1>6 DEF CallOK
<1>8. StateInv(H)'
  BY <1>1, <1>2, <1>3, <1>5, <1>7, StateStep
<1> QED BY <1>3, <1>4, <1>5, <1>8, HistoryStays DEF Inv

LEMMA CreateStep ==
    ASSUME Inv, NEW p \in Callers, NEW r, IsRow(r), Fits(r, rows), Create(p, r)
    PROVE  Inv'
<1> DEFINE d == Join(rows, One(next + 1, r))
<1>1. d = Join(rows, One(next + 1, r))
  OBVIOUS
<1>2. Change(p, "edit", d)
  BY DEF Create
<1> HIDE DEF d
<1>3. Put(d) /\ Allowed(d)
  BY <1>2 DEF Change
<1>5. astray \subseteq astray' /\ (Agrees(r, rows) \/ next + 1 \in astray')
  BY DEF Create, Agrees
<1>4. ASSUME NEW G, StateInv(G)
      PROVE  \E H : LayoutInv(H)' /\ Extends(H, G)
  BY <1>1, <1>3, <1>4, <1>5, CreateGrows DEF StateInv
<1> QED BY <1>2, <1>4, EditStep

LEMMA DeleteStep ==
    ASSUME Inv, NEW p \in Callers, NEW i \in DOMAIN rows, Delete(p, i)
    PROVE  Inv'
<1> DEFINE d == Without({i})
<1>1. Edit(p, "edit", d)
  BY DEF Delete
<1>2. Put(d) /\ astray' = astray /\ Change(p, "edit", d)
  BY <1>1 DEF Edit, Change
<1>3. ASSUME NEW G, StateInv(G)
      PROVE  \E H : LayoutInv(H)' /\ Extends(H, G)
  <2>1. LayoutInv(G) /\ {i} \in SUBSET DOMAIN rows
    BY <1>3 DEF StateInv
  <2>2. LayoutInv(G)'
    BY <1>2, <2>1, WithoutStays
  <2> QED BY <2>2, ExtendsItself
<1> HIDE DEF d
<1> QED BY <1>2, <1>3, EditStep

\* Row i gets another name or place.
LEMMA ChangeStep ==
    ASSUME Inv, NEW p \in Callers, NEW o, o # "create", NEW i \in DOMAIN rows, NEW d,
           DOMAIN d = DOMAIN rows, \A j \in DOMAIN rows \ {i} : d[j] = rows[j],
           NEW name, NEW place \in Nat, d[i] = [rows[i] EXCEPT !.name = name, !.place = place],
           Edit(p, o, d)
    PROVE  Inv'
<1>1. Put(d) /\ Allowed(d) /\ astray' = astray /\ Change(p, o, d)
  BY DEF Edit, Change
<1>2. ASSUME NEW G, StateInv(G)
      PROVE  \E H : LayoutInv(H)' /\ Extends(H, G)
  <2>1. LayoutInv(G)
    BY <1>2 DEF StateInv
  <2>2. ASSUME NEW j \in DOMAIN d
        PROVE  \E n : \E at \in Nat : d[j] = [rows[j] EXCEPT !.name = n, !.place = at]
    <3>1. CASE j = i
      BY <3>1
    <3>2. CASE j # i
      <4>1. IsRow(rows[j]) /\ d[j] = rows[j]
        BY <2>1, <3>2 DEF LayoutInv, Akin
      <4> DEFINE r == rows[j]
                 n == r.name
                 at == r.place
      <4>2. IsRow(r) /\ d[j] = r
        BY <4>1
      <4> HIDE DEF r
      <4>3. r = [r EXCEPT !.name = n, !.place = at] /\ at \in Nat
        BY <4>2 DEF IsRow, Row
      <4>4. d[j] = [rows[j] EXCEPT !.name = n, !.place = at]
        BY <4>2, <4>3 DEF r
      <4> HIDE DEF n, at
      <4> QED BY <4>3, <4>4
    <3> QED BY <3>1, <3>2
  <2>3. LayoutInv(G)'
    BY <1>1, <2>1, <2>2, EditStays
  <2> QED BY <2>3, ExtendsItself
<1> QED BY <1>1, <1>2, EditStep

LEMMA RenameStep ==
    ASSUME Inv, NEW p \in Callers, NEW i \in DOMAIN rows, Rename(p, i)
    PROVE  Inv'
<1> DEFINE d == [rows EXCEPT ![i].name = Name(9)]
           r == rows[i]
<1>1. IsRow(r)
  BY DEF Inv, StateInv, LayoutInv, Akin
<1>2. Edit(p, "edit", d) /\ DOMAIN d = DOMAIN rows /\ \A j \in DOMAIN rows \ {i} : d[j] = rows[j]
  BY DEF Rename
<1>3. d[i] = [r EXCEPT !.name = Name(9)]
  OBVIOUS
<1> HIDE DEF d, r
<1>4. \E at \in Nat : d[i] = [r EXCEPT !.name = Name(9), !.place = at]
  <2>1. d[i] = [r EXCEPT !.name = Name(9), !.place = r.place] /\ r.place \in Nat
    BY <1>1, <1>3 DEF IsRow, Row
  <2> QED BY <2>1
<1>5. PICK at \in Nat : d[i] = [r EXCEPT !.name = Name(9), !.place = at]
  BY <1>4
<1> QED BY <1>2, <1>5, ChangeStep DEF r

LEMMA MoveStep ==
    ASSUME Inv, NEW p \in Callers, NEW i \in DOMAIN rows, Move(p, i)
    PROVE  Inv'
<1>1. PICK at \in Places : Edit(p, "move", [rows EXCEPT ![i].place = at])
  BY DEF Move
<1> DEFINE d == [rows EXCEPT ![i].place = at]
           r == rows[i]
<1>2. IsRow(r) /\ at \in Nat
  BY LayoutAssumption DEF Inv, StateInv, LayoutInv, Akin, Places
<1>3. Edit(p, "move", d) /\ DOMAIN d = DOMAIN rows /\ \A j \in DOMAIN rows \ {i} : d[j] = rows[j]
  BY <1>1
<1>4. d[i] = [r EXCEPT !.place = at]
  OBVIOUS
<1> HIDE DEF d, r
<1>5. d[i] = [r EXCEPT !.name = r.name, !.place = at]
  BY <1>2, <1>4 DEF IsRow, Row
<1> QED BY <1>2, <1>3, <1>5, ChangeStep DEF r

LEMMA UpdateStep ==
    ASSUME Inv, NEW p \in Callers, NEW i \in DOMAIN rows, Update(p, i)
    PROVE  Inv'
<1>1. PICK name \in {rows[i].name, Name(9)}, at \in Places :
         Edit(p, "update", [rows EXCEPT ![i].name = name, ![i].place = at])
  BY DEF Update
<1> DEFINE d == [rows EXCEPT ![i].name = name, ![i].place = at]
           r == rows[i]
<1>2. at \in Nat
  BY LayoutAssumption DEF Places
<1>3. Edit(p, "update", d) /\ DOMAIN d = DOMAIN rows /\ \A j \in DOMAIN rows \ {i} : d[j] = rows[j]
  BY <1>1
<1>4. d[i] = [r EXCEPT !.name = name, !.place = at]
  OBVIOUS
<1> HIDE DEF d
<1> QED BY <1>2, <1>3, <1>4, ChangeStep

LEMMA DeleteSeatsStep ==
    ASSUME Inv, NEW p \in Callers, DeleteSeats(p)
    PROVE  Inv'
<1>1. PICK G : StateInv(G)
  BY DEF Inv
<1>2. /\ Call(p, "delete", "done") /\ Put(Empty) /\ versions' = [v \in {} |-> Empty]
      /\ UNCHANGED <<group, history, pending, input, snap, found, astray>>
  BY DEF DeleteSeats
<1>3. /\ CountInv' /\ alone' \in [Callers -> BOOLEAN]
      /\ DOMAIN pc' = Callers /\ DOMAIN op' = Callers
      /\ pc'[p] = "done"
      /\ \A q \in Callers \ {p} : pc'[q] = pc[q] /\ op'[q] = op[q]
  BY <1>1, <1>2, CallBegins DEF Inv
<1>4. FramesInv' /\ OthersStay(p)
  BY <1>2, <1>3 DEF Inv, FramesInv, OthersStay
<1>5. LayoutInv(G)'
  BY <1>1, <1>2, DeletedStays DEF StateInv
<1>6. CallOK(pc'[p], op'[p], input'[p], snap'[p], found'[p], G)
  BY <1>1, <1>2, <1>3 DEF StateInv, CallOK
<1>7. DOMAIN versions' = {}
  BY <1>2
<1>8. StateInv(G)'
  BY <1>1, <1>4, <1>5, <1>6, <1>7, ExtendsItself, StateStep
<1> QED BY <1>2, <1>3, <1>4, <1>8, HistoryStays DEF Inv

LEMMA ReturnStep ==
    ASSUME Inv, NEW p \in Callers, Return(p)
    PROVE  Inv'
BY EndStep DEF Return, ghost

LEMMA FailStep ==
    ASSUME Inv, NEW p \in Callers, Fail(p)
    PROVE  Inv'
BY EndStep DEF Fail, ghost

LEMMA SectionsStep ==
    ASSUME Inv, NEW p \in Callers,
           \/ CreateSection(p) \/ UpdateSection(p) \/ RenameSection(p) \/ DeleteSection(p)
           \/ MoveSection(p)
    PROVE  Inv'
<1>1. CASE CreateSection(p)
  <2> DEFINE r == Row("section", 0, 0, Name(9), 0)
  <2>1. IsRow(r) /\ Fits(r, rows) /\ Create(p, r)
    BY <1>1 DEF CreateSection, IsRow, Row, Fits
  <2> HIDE DEF r
  <2> QED BY <2>1, CreateStep
<1>2. \A i \in Of("section", rows) : i \in DOMAIN rows
  BY DEF Of
<1> QED BY <1>1, <1>2, UpdateStep, RenameStep, DeleteStep, MoveStep
        DEF UpdateSection, RenameSection, DeleteSection, MoveSection

LEMMA TablesStep ==
    ASSUME Inv, NEW p \in Callers,
           \/ CreateTable(p) \/ UpdateTable(p) \/ RenameTable(p) \/ DeleteTable(p)
           \/ MoveTable(p)
    PROVE  Inv'
<1>1. CASE CreateTable(p)
  <2>1. PICK s \in Of("section", rows) : Create(p, Row("table", s, 0, Name(9), 0))
    BY <1>1 DEF CreateTable
  <2> DEFINE r == Row("table", s, 0, Name(9), 0)
  <2>2. IsRow(r) /\ Fits(r, rows) /\ Create(p, r)
    BY <2>1 DEF IsRow, Row, Fits
  <2> HIDE DEF r
  <2> QED BY <2>2, CreateStep
<1>2. \A i \in Of("table", rows) : i \in DOMAIN rows
  BY DEF Of
<1> QED BY <1>1, <1>2, UpdateStep, RenameStep, DeleteStep, MoveStep
        DEF UpdateTable, RenameTable, DeleteTable, MoveTable

LEMMA SeatsStep ==
    ASSUME Inv, NEW p \in Callers,
           \/ CreateSeat(p) \/ UpdateSeat(p) \/ DeleteSeat(p) \/ MoveSeat(p)
    PROVE  Inv'
<1>1. ASSUME NEW s \in Of("section", rows), NEW u \in Of("table", rows) \cup {0},
             Create(p, Row("seat", s, u, Name(9), 0))
      PROVE  Inv'
  <2> DEFINE r == Row("seat", s, u, Name(9), 0)
  <2>1. IsRow(r) /\ Fits(r, rows) /\ Create(p, r)
    BY <1>1 DEF IsRow, Row, Fits
  <2> HIDE DEF r
  <2> QED BY <2>1, CreateStep
<1>3. \A i \in Of("seat", rows) : i \in DOMAIN rows
  BY DEF Of
<1>4. CASE CreateSeat(p)
  BY <1>1, <1>4 DEF CreateSeat
<1> QED BY <1>3, <1>4, UpdateStep, DeleteStep, MoveStep DEF UpdateSeat, DeleteSeat, MoveSeat

LEMMA InitHolds == Init => Inv
<1> SUFFICES ASSUME Init
             PROVE  Inv
  OBVIOUS
<1>1. /\ DOMAIN Empty = {} /\ DOMAIN [v \in {} |-> Empty] = {} /\ IsFiniteSet({})
      /\ Cardinality({}) = 0
  BY FS_EmptySet DEF Empty
<1>2. PICK k \in Nat : /\ DOMAIN rows = 1 .. k /\ IsGeometry(rows) /\ Allowed(rows)
                       /\ \A i \in DOMAIN rows : rows[i].kind = "seat" =>
                             rows[i].section = rows[rows[i].table].section
  <2>1. CASE rows = Empty
    <3>1. DOMAIN rows = 1 .. 0
      BY <1>1, <2>1
    <3> QED BY <1>1, <2>1, <3>1 DEF IsGeometry, Allowed, Of
  <2>2. CASE rows = Plan(MaxSeats)
    <3>1. MaxSeats \in Nat \ {0}
      BY LayoutAssumption
    <3> QED BY <2>2, <3>1, PlanIsGeometry
  <2> QED BY <2>1, <2>2 DEF Init
<1>3. next = k
  <2>1. Cardinality(1 .. k) = k
    BY FS_Interval
  <2> QED BY <1>2, <2>1 DEF Init
<1>4. \A i \in DOMAIN rows : IsRow(rows[i]) /\ Fits(rows[i], rows) /\ i \in Nat \ {0}
  <2>1. \A i \in Of("table", rows) : rows[i].section \in Of("section", rows)
    BY <1>2 DEF IsGeometry, Of
  <2> QED BY <1>2, <2>1 DEF IsGeometry, IsRow, Fits, Of
<1>13. Strays(rows) = {}
  BY <1>2, <1>4 DEF Strays, Agrees
<1>5. LayoutInv(rows)
  BY <1>2, <1>3, <1>4, <1>13 DEF LayoutInv, Lineage, Akin
<1>6. SnapInv(rows, rows) /\ SnapInv(Empty, rows)
  BY <1>1, <1>2, <1>4 DEF SnapInv, Akin, Unique, Allowed
<1>7. DOMAIN versions \subseteq Numbers /\ \A v \in DOMAIN versions : versions[v].snap = rows
  <2>1. CASE versions = [v \in {} |-> Empty]
    BY <1>1, <2>1
  <2>2. CASE versions = One(1, [snap |-> rows, dated |-> TRUE])
    <3>1. 1 \in Numbers
      BY LayoutAssumption DEF Numbers
    <3> DEFINE e == [snap |-> rows, dated |-> TRUE]
    <3>2. versions = One(1, e) /\ e.snap = rows
      BY <2>2
    <3> HIDE DEF e
    <3> QED BY <3>1, <3>2 DEF One
  <2> QED BY <2>1, <2>2 DEF Init
<1>8. ASSUME NEW q \in Callers
      PROVE  CallOK(pc[q], op[q], input[q], snap[q], found[q], rows)
  <2>1. pc[q] = "idle" /\ op[q] = "none" /\ input[q] = Empty /\ snap[q] = Empty /\ found[q] = Empty
    BY DEF Init
  <2> QED BY <1>6, <2>1 DEF CallOK
<1>9. StateInv(rows)
  BY <1>5, <1>6, <1>7, <1>8 DEF StateInv
<1>10. HistoryInv
  <2>1. DOMAIN history = {}
    BY DEF Init
  <2> QED BY <2>1 DEF HistoryInv
<1>11. FramesInv
  BY DEF Init, FramesInv
<1>12. CountInv
  <2>1. Creating = {}
    BY DEF Init, Creating
  <2> QED BY <1>1, <2>1, LayoutAssumption DEF Init, CountInv
<1> QED BY <1>9, <1>10, <1>11, <1>12 DEF Inv

LEMMA NextHolds == Inv /\ [Next]_vars => Inv'
<1> SUFFICES ASSUME Inv, [Next]_vars
             PROVE  Inv'
  OBVIOUS
<1>1. CASE Ask
  BY <1>1, AskStep
<1>2. CASE UNCHANGED vars
  BY <1>2, StutterStep
<1>3. ASSUME NEW p \in Callers, Step(p)
      PROVE  Inv'
  <2>1. CASE Receive(p) \/ Generate(p) \/ Wipe(p) \/ WriteGeometry(p)
    BY <2>1, ReceiveStep, GenerateStep, WipeStep, WriteStep
  <2>2. CASE Save(p) \/ Serialize(p) \/ CreateVersion(p)
    BY <2>2, SaveStep, SerializeStep, VersionStep
  <2>3. CASE DuplicateTable(p)
    <3>1. PICK i \in Of("table", rows) : Copy(p, "duplicate", i)
      BY <2>3 DEF DuplicateTable
    <3>2. i \in DOMAIN rows /\ rows[i].kind = "table"
      BY DEF Of
    <3> QED BY <3>1, <3>2, CopyStep
  <2>4. CASE CloneSection(p)
    <3>1. PICK i \in Of("section", rows) : Copy(p, "clone", i)
      BY <2>4 DEF CloneSection
    <3>2. i \in DOMAIN rows /\ rows[i].kind = "section"
      BY DEF Of
    <3> QED BY <3>1, <3>2, CopyStep
  <2>5. CASE CopyRows(p)
    BY <2>5, CopyRowsStep
  <2>6. CASE Apply(p) \/ ApplyGeometry(p) \/ ApplyEntry(p)
    BY <2>6, ApplyStep, ApplyGeometryStep, ApplyEntryStep
  <2>7. CASE Undo(p)
    BY <2>7, LookStep DEF Undo
  <2>8. CASE Redo(p)
    <3> DEFINE entries == DOMAIN history \ Applied
    <3>1. entries = IF "redo" = "undo" THEN Applied ELSE DOMAIN history \ Applied
      OBVIOUS
    <3>2. Look(p, "redo", entries)
      BY <2>8 DEF Redo
    <3> HIDE DEF entries
    <3> QED BY <3>1, <3>2, LookStep
  <2>9. CASE ReadLatest(p) \/ ReadOther(p) \/ RestoreVersion(p)
    BY <2>9, ReadLatestStep, ReadOtherStep, RestoreStep
  <2>10. CASE CreateSection(p) \/ UpdateSection(p) \/ RenameSection(p) \/ DeleteSection(p)
              \/ MoveSection(p)
    BY <2>10, SectionsStep
  <2>11. CASE CreateTable(p) \/ UpdateTable(p) \/ RenameTable(p) \/ DeleteTable(p) \/ MoveTable(p)
    BY <2>11, TablesStep
  <2>12. CASE CreateSeat(p) \/ UpdateSeat(p) \/ DeleteSeat(p) \/ MoveSeat(p)
    BY <2>12, SeatsStep
  <2>13. CASE DeleteSeats(p) \/ Return(p) \/ Fail(p)
    BY <2>13, DeleteSeatsStep, ReturnStep, FailStep
  <2> QED BY <1>3, <2>1, <2>2, <2>3, <2>4, <2>5, <2>6, <2>7, <2>8, <2>9, <2>10, <2>11, <2>12, <2>13
          DEF Step
<1> QED BY <1>1, <1>2, <1>3 DEF Next

\* In every reachable state, for any callers, calls, plans and geometries: there is a lineage
\* of all rows there ever were that the layout, all snapshots and all copies agree with.
LEMMA InvHolds == Spec => []Inv
BY InitHolds, NextHolds, PTL DEF Spec

LEMMA InvImpliesTypes == Inv => TypeOK
<1> SUFFICES ASSUME Inv
             PROVE  TypeOK
  OBVIOUS
<1>1. PICK G : StateInv(G)
  BY DEF Inv
<1>2. DOMAIN rows \subseteq 1 .. next /\ Allowed(rows) /\ DOMAIN versions \subseteq Numbers
  BY <1>1, RowsNumbered DEF StateInv, LayoutInv
<1>3. ASSUME NEW i \in DOMAIN rows
      PROVE  i \in 1 .. next /\ rows[i].kind \in {"section", "table", "seat"} /\ rows[i].place \in Nat
  <2>1. i \in DOMAIN G /\ rows[i].kind = G[i].kind /\ rows[i].place \in Nat
    BY <1>1 DEF StateInv, LayoutInv, Akin, IsRow
  <2>2. Fits(G[i], G)
    BY <1>1, <2>1 DEF StateInv, LayoutInv, Lineage
  <2> QED BY <1>2, <2>1, <2>2 DEF Fits
<1>4. \A n \in DOMAIN history : n \in Nat /\ history[n].applied \in BOOLEAN
  <2>1. DOMAIN history \subseteq Nat
    BY DEF Inv, HistoryInv
  <2> QED BY <2>1 DEF Inv, HistoryInv, IsEntry
<1>5. pending \in 0 .. group.calls
  <2>1. Cardinality(Creating) \in Nat /\ group.calls \in Nat
    BY LayoutAssumption, FS_CardinalityType DEF Inv, CountInv
  <2> QED BY <2>1 DEF Inv, CountInv
<1> QED BY <1>2, <1>3, <1>4, <1>5 DEF Inv, CountInv, FramesInv, TypeOK

\* Every reachable state is well typed: names are unique and what a row belongs to is there,
\* for any callers, calls, plans and geometries.
THEOREM TypeCorrect == Spec => []TypeOK
BY InvHolds, InvImpliesTypes, PTL

\* A table is in a section and a seat at a table of its own section, or at none, in every
\* reachable state, whatever is wiped, cloned, restored or deleted at the same time.
THEOREM TreeSound == Spec => []TreeIsSound
<1>1. Inv => TreeIsSound
  BY TreeOfLineage DEF Inv, StateInv
<1> QED BY <1>1, InvHolds, PTL
=============================================================================
