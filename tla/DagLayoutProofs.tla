--------------------------- MODULE DagLayoutProofs ---------------------------
(* compute_layout never indexes outside its columns, and its lines are not *)
(* cut as long as no two parents compete for one empty column.             *)
EXTENDS DagLayout, WellFoundedInduction, SequenceTheorems, TLAPS

-----------------------------------------------------------------------------
(* The helpers on columns *)

Column == View \cup {None}

LEMMA Smallest ==
    ASSUME NEW S \in SUBSET Nat, S # {}
    PROVE  \E n \in S : \A k \in S : n <= k
<1>1. PICK n \in S : \A k \in S : ~(<<k, n>> \in OpToRel(<, Nat))
  BY WFMin, NatLessThanWellFounded
<1>2. \A k \in S : ~(k < n)
  BY <1>1 DEF OpToRel
<1> QED
  BY <1>2

LEMMA FreeColumn ==
    ASSUME NEW cols \in Seq(Column), NEW x \in Nat, x <= Len(cols)
    PROVE  /\ FirstFree(cols, x) \in 1..(Len(cols) + 1)
           /\ FirstFree(cols, x) # x
           /\ Free(cols, FirstFree(cols, x))
<1> DEFINE Good == {c \in 1..(Len(cols) + 1) \ {x} : Free(cols, c)}
<1>1. Good \subseteq Nat /\ Len(cols) + 1 \in Good
  BY DEF Free
<1>2. PICK c \in Good : \A d \in Good : c <= d
  BY <1>1, Smallest
<1>3. \A d \in 1..(c - 1) \ {x} : ~Free(cols, d)
  <2> SUFFICES ASSUME NEW d \in 1..(c - 1) \ {x}, Free(cols, d) PROVE FALSE
    OBVIOUS
  <2>1. d \in Good
    BY <1>2
  <2> QED
    BY <2>1, <1>2, <1>1
<1>4. c \in 1..(Len(cols) + 1) \ {x} /\ Free(cols, c)
  BY <1>2
<1> QED
  BY <1>3, <1>4 DEF FirstFree

LEMMA Padded ==
    ASSUME NEW cols \in Seq(Column), NEW n \in Nat
    PROVE  /\ PadTo(cols, n) \in Seq(Column)
           /\ Len(PadTo(cols, n)) >= n /\ Len(PadTo(cols, n)) >= Len(cols)
           /\ \A c \in 1..Len(PadTo(cols, n)) :
                PadTo(cols, n)[c] = IF c <= Len(cols) THEN cols[c] ELSE None
<1> DEFINE m == IF n > Len(cols) THEN n ELSE Len(cols)
<1>1. m \in Nat /\ m >= n /\ m >= Len(cols)
  OBVIOUS
<1>2. \A c \in 1..m : (IF c <= Len(cols) THEN cols[c] ELSE None) \in Column
  BY <1>1 DEF Column
<1>3. PadTo(cols, n) = [c \in 1..m |-> IF c <= Len(cols) THEN cols[c] ELSE None]
  BY DEF PadTo
<1> HIDE DEF m
<1>4. PadTo(cols, n) \in Seq(Column) /\ Len(PadTo(cols, n)) = m
  BY <1>1, <1>2, <1>3
<1> QED
  BY <1>1, <1>3, <1>4

LEMMA Trimmed ==
    ASSUME NEW cols \in Seq(Column), Len(cols) > 0
    PROVE  /\ Trim(cols) \in Seq(Column)
           /\ Len(Trim(cols)) <= Len(cols)
           /\ \A c \in 1..Len(Trim(cols)) : Trim(cols)[c] = cols[c]
           /\ \A c \in 1..Len(cols) : cols[c] # None => c <= Len(Trim(cols))
<1> DEFINE Rest(n) == \A c \in (n + 1)..Len(cols) : cols[c] = None
           Cuts == {n \in 1..Len(cols) : Rest(n)}
           Cut(n) == (n = 1 \/ cols[n] # None) /\ Rest(n)
<1>1. Cuts \subseteq Nat /\ Len(cols) \in Cuts
  OBVIOUS
<1>2. PICK n \in Cuts : \A k \in Cuts : n <= k
  BY <1>1, Smallest
<1>3. n \in 1..Len(cols) /\ Cut(n)
  <2> SUFFICES ASSUME n # 1, cols[n] = None PROVE FALSE
    BY <1>2
  <2>1. n - 1 \in Cuts
    BY <1>2
  <2>2. n \in Nat /\ n <= n - 1
    BY <2>1, <1>2, <1>1
  <2> QED
    BY <2>2
<1>4. PICK k \in 1..Len(cols) : Cut(k) /\ Trim(cols) = SubSeq(cols, 1, k)
  <2> DEFINE k == CHOOSE k \in 1..Len(cols) : Cut(k)
  <2>1. k \in 1..Len(cols) /\ Cut(k)
    BY <1>3
  <2>2. Trim(cols) = SubSeq(cols, 1, k)
    BY DEF Trim
  <2> QED
    BY <2>1, <2>2
<1>5. Trim(cols) \in Seq(Column) /\ Len(Trim(cols)) = k
      /\ \A c \in 1..k : Trim(cols)[c] = cols[c]
  BY <1>4
<1> QED
  BY <1>4, <1>5

-----------------------------------------------------------------------------
(* Types and counters *)

Typed == TypeOK /\ IndicesInBounds /\ PassedHaveColumns

LEMMA ParentListFacts ==
    ASSUME NEW b \in View, NEW ps \in ParentLists(b), numbered \in 0..Rows
    PROVE  /\ ps \in Seq(View \cup {Outside})
           /\ \A i \in 1..Len(ps) : ps[i] # Outside => (ps[i] > b \/ b > numbered)
           /\ \A i, j \in 1..Len(ps) : ps[i] = ps[j] => i = j \/ ps[i] = Outside
<1>1. PICK n \in 0..MaxParents : ps \in [1..n -> PossibleParents(b)]
  BY DEF ParentLists
<1>2. \A i \in 1..n : /\ ps[i] \in View \cup {Outside}
                      /\ ps[i] # Outside => (ps[i] > b \/ b > numbered)
  BY <1>1, RowsAssumption DEF PossibleParents, View, Outside
<1>3. n \in Nat /\ Len(ps) = n /\ ps \in Seq(View \cup {Outside})
  BY <1>1, <1>2, MaxParentsAssumption
<1> QED
  BY <1>1, <1>2, <1>3 DEF ParentLists

LEMMA PlaceNodeTyped == Typed /\ PlaceNode => Typed'
<1> SUFFICES ASSUME Typed, PlaceNode PROVE Typed'
  OBVIOUS
<1> USE DEF Typed
<1> DEFINE b == Current
<1>1. b \in View /\ columns \in Seq(Column)
  BY RowsAssumption DEF PlaceNode, TypeOK, Current, View, Column
<1>2. node_col' \in Nat \ {0}
  <2>1. CASE b \in DOMAIN hash_to_column
    BY <2>1 DEF PlaceNode, NodeColumn, TypeOK
  <2>2. CASE b \notin DOMAIN hash_to_column
    BY <2>2, <1>1, FreeColumn DEF PlaceNode, NodeColumn
  <2> QED
    BY <2>1, <2>2
<1>3. columns' \in Seq(Column) /\ node_col' \in 1..Len(columns')
  BY <1>1, <1>2, Padded DEF PlaceNode
<1>4. row_columns' \in Seq(View \cup {None, Node}) /\ Len(row_columns') = Len(columns')
  BY <1>3 DEF PlaceNode, Column
<1>5. parents' \in Seq(View \cup {Outside})
  BY <1>1, ParentListFacts DEF PlaceNode, TypeOK
<1>6. TypeOK'
  BY <1>1, <1>2, <1>3, <1>4, <1>5 DEF PlaceNode, TypeOK, Column, View, Current
<1>7. IndicesInBounds'
  BY <1>3, <1>4 DEF IndicesInBounds
<1>8. PassedHaveColumns'
  BY <1>5 DEF PassedHaveColumns, PlaceNode
<1> QED
  BY <1>6, <1>7, <1>8

LEMMA AssignParentTyped == Typed /\ AssignParent => Typed'
<1> SUFFICES ASSUME Typed, AssignParent PROVE Typed'
  OBVIOUS
<1> USE DEF Typed
<1> DEFINE p == parents[next_parent]
           c == ParentColumn(next_parent, p)
<1>1. columns \in Seq(Column) /\ node_col \in 1..Len(columns) /\ next_parent \in 1..Len(parents)
  BY DEF TypeOK, IndicesInBounds, AssignParent, Column
<1>2. c \in Nat \ {0}
  <2>1. FirstFree(columns, node_col) \in Nat \ {0}
    BY <1>1, FreeColumn
  <2> QED
    BY <1>1, <2>1 DEF ParentColumn, TypeOK
<1>3. columns' \in Seq(Column) /\ Len(columns') >= Len(columns)
  BY <1>1, <1>2, Padded DEF AssignParent
<1>4. /\ p \in View \cup {Outside}
      /\ p # Outside => p \in DOMAIN hash_to_column' /\ hash_to_column'[p] = c
      /\ \A q \in DOMAIN hash_to_column : q \in DOMAIN hash_to_column'
      /\ \A q \in DOMAIN hash_to_column' : q # p \/ p = Outside =>
            q \in DOMAIN hash_to_column /\ hash_to_column'[q] = hash_to_column[q]
  BY <1>1 DEF AssignParent, Reserve, TypeOK
<1>5. edges' \in Seq(GraphEdge)
  <2> DEFINE e == [from_col |-> node_col, to_col |-> c, parent_hash |-> p]
  <2>1. edges' = edges \/ (p # Outside /\ edges' = Append(edges, e))
    BY DEF AssignParent
  <2>2. p # Outside => e \in GraphEdge
    BY <1>2, <1>4 DEF TypeOK, GraphEdge
  <2>3. edges \in Seq(GraphEdge)
    BY DEF TypeOK
  <2> HIDE DEF e, p
  <2> QED
    BY <2>1, <2>2, <2>3, AppendProperties
<1>6. TypeOK'
  <2>1. \A q \in DOMAIN hash_to_column' : q \in View /\ hash_to_column'[q] \in Nat \ {0}
    BY <1>2, <1>4 DEF TypeOK
  <2> QED
    BY <1>3, <1>5, <2>1 DEF AssignParent, TypeOK, Current, Column
<1>7. IndicesInBounds'
  BY <1>1, <1>3 DEF IndicesInBounds, AssignParent
<1>8. PassedHaveColumns'
  <2> SUFFICES ASSUME NEW i \in 1..Len(parents), parents[i] # Outside, i < next_parent + 1
               PROVE  /\ parents[i] \in DOMAIN hash_to_column'
                      /\ i = 1 => hash_to_column'[parents[i]] = node_col
    BY DEF PassedHaveColumns, AssignParent
  <2>1. CASE i = next_parent
    BY <2>1, <1>4 DEF ParentColumn
  <2>2. CASE i < next_parent
    BY <2>2, <1>4, <1>1 DEF PassedHaveColumns, ParentColumn
  <2> QED
    BY <2>1, <2>2, <1>1
<1> QED
  BY <1>6, <1>7, <1>8
LEMMA ConsumeTyped == Typed /\ Consume => Typed'
<1> SUFFICES ASSUME Typed, Consume PROVE Typed'
  OBVIOUS
<1> USE DEF Typed
<1>1. columns \in Seq(Column) /\ node_col \in 1..Len(columns)
  BY DEF TypeOK, IndicesInBounds, Consume, Column
<1>2. (IF parents # <<>> /\ parents[1] # Outside THEN parents[1] ELSE None) \in Column
  BY DEF TypeOK, Column
<1>3. columns' \in Seq(Column) /\ Len(columns') = Len(columns)
  BY <1>1, <1>2 DEF Consume
<1>4. TypeOK'
  BY <1>3 DEF TypeOK, Consume, Column, Current
<1>5. IndicesInBounds'
  BY <1>1, <1>3 DEF IndicesInBounds, Consume
<1>6. PassedHaveColumns'
  BY DEF PassedHaveColumns, Consume, TypeOK
<1> QED
  BY <1>4, <1>5, <1>6

\* What one round of the second loop does to the columns.
LEMMA ClaimFacts ==
    ASSUME Typed, Claim
    PROVE  /\ next_parent \in 2..Len(parents)
           /\ columns \in Seq(Column) /\ columns' \in Seq(Column)
           /\ Len(columns') >= Len(columns)
           /\ parents[next_parent] # Outside =>
                /\ parents[next_parent] \in DOMAIN hash_to_column
                /\ hash_to_column[parents[next_parent]] \in 1..Len(columns')
                /\ columns'[hash_to_column[parents[next_parent]]] = parents[next_parent]
           /\ \A c \in 1..Len(columns) :
                columns'[c] = columns[c] \/ (/\ parents[next_parent] # Outside
                                             /\ c = hash_to_column[parents[next_parent]])
<1> DEFINE p == parents[next_parent]
           c == hash_to_column[p]
           wide == PadTo(columns, c)
<1>1. next_parent \in 2..Len(parents) /\ columns \in Seq(Column) /\ stage = "claim"
  BY DEF Typed, TypeOK, Claim, Column
<1>2. CASE p = Outside
  BY <1>1, <1>2 DEF Claim
<1>3. CASE p # Outside
  <2>1. p \in DOMAIN hash_to_column /\ c \in Nat \ {0} /\ p \in Column
    BY <1>1, <1>3 DEF Typed, PassedHaveColumns, TypeOK, Column
  <2>2. /\ wide \in Seq(Column) /\ Len(wide) >= c /\ Len(wide) >= Len(columns)
        /\ \A d \in 1..Len(columns) : wide[d] = columns[d]
    BY <1>1, <2>1, Padded
  <2>3. columns' = [wide EXCEPT ![c] = p]
    BY <1>3 DEF Claim
  <2> HIDE DEF wide, c, p
  <2>4. columns' \in Seq(Column) /\ Len(columns') = Len(wide) /\ c \in 1..Len(wide)
    BY <2>1, <2>2, <2>3
  <2>5. columns'[c] = p
    BY <2>2, <2>3, <2>4
  <2>6. ASSUME NEW d \in 1..Len(columns), d # c PROVE columns'[d] = columns[d]
    <3>1. d \in 1..Len(wide)
      BY <1>1, <2>2
    <3> QED
      BY <2>2, <2>3, <2>6, <3>1
  <2>7. Len(columns') >= Len(columns) /\ c \in 1..Len(columns')
    BY <2>2, <2>4
  <2>8. \A d \in 1..Len(columns) : columns'[d] = columns[d] \/ (p # Outside /\ d = c)
    BY <1>3, <2>6
  <2> QED
    BY <1>1, <2>1, <2>4, <2>5, <2>7, <2>8 DEF c, p
<1> QED
  BY <1>2, <1>3

LEMMA ClaimTyped == Typed /\ Claim => Typed'
<1> SUFFICES ASSUME Typed, Claim PROVE Typed'
  OBVIOUS
<1>1. columns' \in Seq(Column) /\ Len(columns') >= Len(columns) /\ columns \in Seq(Column)
  BY ClaimFacts
<1>2. TypeOK'
  BY <1>1 DEF Typed, TypeOK, Claim, Column, Current
<1>3. IndicesInBounds'
  BY <1>1 DEF Typed, IndicesInBounds, Claim
<1>4. PassedHaveColumns'
  BY DEF Typed, PassedHaveColumns, Claim
<1> QED
  BY <1>2, <1>3, <1>4 DEF Typed

LEMMA FinishRowTyped == Typed /\ FinishRow => Typed'
<1> SUFFICES ASSUME Typed, FinishRow PROVE Typed'
  OBVIOUS
<1>1. columns' \in Seq(Column)
  <2>1. columns \in Seq(Column) /\ Len(columns) > 0
    BY DEF Typed, TypeOK, IndicesInBounds, FinishRow, Column
  <2> QED
    BY <2>1, Trimmed DEF FinishRow
<1>2. graph_rows' \in Seq(GraphRow)
  BY DEF Typed, TypeOK, FinishRow, GraphRow
<1>3. crowded' \in BOOLEAN
  BY DEF Typed, TypeOK, FinishRow
<1>4. TypeOK'
  BY <1>1, <1>2, <1>3 DEF Typed, TypeOK, FinishRow, Column
<1>5. IndicesInBounds' /\ PassedHaveColumns'
  BY DEF IndicesInBounds, PassedHaveColumns, FinishRow
<1> QED
  BY <1>4, <1>5 DEF Typed

LEMMA TypedStep == Typed /\ [Next]_vars => Typed'
<1> SUFFICES ASSUME Typed, [Next]_vars PROVE Typed'
  OBVIOUS
<1>1. CASE Next
  BY <1>1, PlaceNodeTyped, AssignParentTyped, ConsumeTyped, ClaimTyped, FinishRowTyped DEF Next
<1>2. CASE UNCHANGED vars
  BY <1>2 DEF Typed, TypeOK, IndicesInBounds, PassedHaveColumns, vars, rowVars, Current
<1> QED
  BY <1>1, <1>2
-----------------------------------------------------------------------------
(* Reserved blocks are followed *)

Lines == ParentsAreBelow /\ ParentsAreDistinct /\ ReservedIsFollowed

LEMMA PlaceNodeLines == Typed /\ Lines /\ PlaceNode => Lines'
<1> SUFFICES ASSUME Typed, Lines, PlaceNode PROVE Lines'
  OBVIOUS
<1> USE DEF Lines
<1> DEFINE b == Current
<1>1. /\ b \in View /\ columns \in Seq(Column) /\ stage = "between"
      /\ numbered \in 0..Rows /\ parents' \in ParentLists(b)
      /\ Current' = b /\ numbered' = numbered /\ crowded' = crowded
      /\ hash_to_column' = hash_to_column /\ stage' = "assign" /\ next_parent' = 1
  BY RowsAssumption DEF PlaceNode, Typed, TypeOK, Current, View, Column
<1>2. ParentsAreBelow' /\ ParentsAreDistinct'
  BY <1>1, ParentListFacts DEF ParentsAreBelow, ParentsAreDistinct, View
<1>3. ReservedIsFollowed'
  <2> SUFFICES ASSUME Calm'
               PROVE  /\ columns'[node_col'] \in {None, b}
                      /\ \A p \in DOMAIN hash_to_column : p > b =>
                            /\ hash_to_column[p] \in 1..Len(columns')
                            /\ columns'[hash_to_column[p]] = p
    BY <1>1 DEF ReservedIsFollowed, Followed
  <2>1. Calm
    BY <1>1 DEF Calm, Merging
  <2>2. \A p \in DOMAIN hash_to_column : p >= b =>
            hash_to_column[p] \in 1..Len(columns) /\ columns[hash_to_column[p]] = p
    BY <1>1, <2>1 DEF ReservedIsFollowed, Followed, Pending, Typed, TypeOK, View
  <2>3. /\ columns' = PadTo(columns, node_col') /\ node_col' \in Nat \ {0}
        /\ Free(columns, node_col') \/ (node_col' <= Len(columns) /\ columns[node_col'] = b)
    <3>1. CASE b \in DOMAIN hash_to_column
      BY <3>1, <2>2, <1>1 DEF PlaceNode, NodeColumn, View
    <3>2. CASE b \notin DOMAIN hash_to_column
      BY <3>2, <1>1, FreeColumn DEF PlaceNode, NodeColumn
    <3> QED
      BY <3>1, <3>2
  <2>4. /\ Len(columns') >= Len(columns) /\ Len(columns') >= node_col'
        /\ columns' \in Seq(Column)
        /\ \A c \in 1..Len(columns') :
             columns'[c] = IF c <= Len(columns) THEN columns[c] ELSE None
    BY <1>1, <2>3, Padded
  <2>5. columns'[node_col'] \in {None, b}
    BY <1>1, <2>3, <2>4 DEF Free
  <2>6. ASSUME NEW p \in DOMAIN hash_to_column, p > b
        PROVE  /\ hash_to_column[p] \in 1..Len(columns')
               /\ columns'[hash_to_column[p]] = p
    BY <1>1, <2>2, <2>4, <2>6 DEF Typed, TypeOK, View
  <2> QED
    BY <2>5, <2>6
<1> QED
  BY <1>2, <1>3

LEMMA AssignParentLines == Typed /\ Lines /\ AssignParent => Lines'
<1> SUFFICES ASSUME Typed, Lines, AssignParent PROVE Lines'
  OBVIOUS
<1> USE DEF Lines
<1> DEFINE b == Current
<1>0. PICK k, p, c : k = next_parent /\ p = parents[k] /\ c = ParentColumn(k, p)
  OBVIOUS
<1>1. /\ b \in View /\ columns \in Seq(Column) /\ stage = "assign" /\ stage' = "assign"
      /\ node_col \in 1..Len(columns) /\ node_col' = node_col
      /\ k \in 1..Len(parents) /\ next_parent' = k + 1 /\ parents' = parents
      /\ Current' = b /\ numbered' = numbered /\ crowded' = crowded
  BY <1>0, RowsAssumption
     DEF AssignParent, Typed, TypeOK, IndicesInBounds, Current, View, Column
<1>2. ParentsAreBelow' /\ ParentsAreDistinct'
  BY <1>1 DEF ParentsAreBelow, ParentsAreDistinct
<1>3. ReservedIsFollowed'
  <2> SUFFICES ASSUME Calm'
               PROVE  /\ columns'[node_col] \in {None, b}
                      /\ \A q \in DOMAIN hash_to_column' : q > b => Followed(q)'
    BY <1>1 DEF ReservedIsFollowed
  <2>1. Calm
    BY <1>1 DEF Calm, Merging, Additional
  <2>2. /\ columns[node_col] \in {None, b}
        /\ \A q \in DOMAIN hash_to_column : q > b => Followed(q)
    BY <1>1, <2>1 DEF ReservedIsFollowed
  <2>3. CASE p = Outside
    <3>1. columns' = columns /\ hash_to_column' = hash_to_column
      BY <1>0, <2>3 DEF AssignParent
    <3>2. \A i \in 2..Len(parents) : Pending(i) => Pending(i)'
      BY <1>0, <1>1 DEF Pending, Typed, TypeOK
    <3> QED
      BY <1>1, <2>2, <3>1, <3>2 DEF Followed
  <2>4. CASE p # Outside
    <3>1. /\ hash_to_column' = Reserve(p, c)
          /\ columns' = IF p \in DOMAIN hash_to_column THEN columns ELSE PadTo(columns, c)
      BY <1>0, <2>4 DEF AssignParent
    <3>2. /\ c \in Nat \ {0}
          /\ k # 1 /\ p \notin DOMAIN hash_to_column => c # node_col /\ Free(columns, c)
      BY <1>0, <1>1, FreeColumn DEF ParentColumn, Typed, TypeOK
    <3>3. /\ columns' \in Seq(Column) /\ Len(columns') >= Len(columns)
          /\ p \notin DOMAIN hash_to_column => Len(columns') >= c
          /\ \A d \in 1..Len(columns') :
               columns'[d] = IF d <= Len(columns) THEN columns[d] ELSE None
      BY <1>1, <3>1, <3>2, Padded
    <3>4. /\ DOMAIN hash_to_column' = DOMAIN hash_to_column \cup {p}
          /\ hash_to_column'[p] = c
          /\ \A q \in DOMAIN hash_to_column : q # p => hash_to_column'[q] = hash_to_column[q]
      BY <3>1 DEF Reserve
    <3>5. \A i \in 2..Len(parents) : Pending(i) => Pending(i)'
      BY <1>0, <1>1 DEF Pending, Typed, TypeOK
    <3>6. ASSUME NEW q \in DOMAIN hash_to_column, q > b, q # p PROVE Followed(q)'
      <4>1. Followed(q) /\ hash_to_column'[q] = hash_to_column[q]
        BY <2>2, <3>4, <3>6
      <4>2. hash_to_column[q] \in 1..Len(columns')
            /\ columns'[hash_to_column[q]] = columns[hash_to_column[q]]
        BY <1>1, <3>3, <4>1 DEF Followed
      <4> QED
        BY <1>1, <3>5, <4>1, <4>2 DEF Followed
    <3>7. Followed(p)'
      <4>1. CASE k = 1
        <5>1. c = node_col /\ parents # <<>>
          BY <1>0, <1>1, <4>1 DEF ParentColumn
        <5> QED
          BY <1>0, <1>1, <3>3, <3>4, <4>1, <5>1 DEF Followed
      <4>2. CASE k # 1 /\ p \in DOMAIN hash_to_column
        <5>1. c = hash_to_column[p] /\ columns' = columns
          BY <1>0, <3>1, <4>2 DEF ParentColumn
        <5>2. p > b
          BY <1>0, <1>1, <2>1, <2>4 DEF Calm, ParentsAreBelow
        <5>3. Followed(p)
          BY <2>2, <4>2, <5>2
        <5> QED
          BY <1>0, <1>1, <3>4, <3>5, <5>1, <5>3 DEF Followed
      <4>3. CASE k # 1 /\ p \notin DOMAIN hash_to_column
        <5>1. c # node_col /\ c \in 1..Len(columns') /\ columns'[c] = None
          BY <1>1, <3>2, <3>3, <4>3 DEF Free
        <5>2. k \in 2..Len(parents) /\ Pending(k)'
          BY <1>0, <1>1, <4>3 DEF Pending
        <5> QED
          BY <1>0, <1>1, <3>4, <5>1, <5>2 DEF Followed
      <4> QED
        BY <4>1, <4>2, <4>3
    <3>8. columns'[node_col] \in {None, b}
      BY <1>1, <2>2, <3>3
    <3> QED
      BY <3>4, <3>6, <3>7, <3>8
  <2> QED
    BY <2>3, <2>4
<1> QED
  BY <1>2, <1>3

LEMMA ConsumeLines == Typed /\ Lines /\ Consume => Lines'
<1> SUFFICES ASSUME Typed, Lines, Consume PROVE Lines'
  OBVIOUS
<1> USE DEF Lines
<1> DEFINE b == Current
<1>0. PICK f : f = IF parents # <<>> /\ parents[1] # Outside THEN parents[1] ELSE None
  OBVIOUS
<1>1. /\ b \in View /\ columns \in Seq(Column) /\ stage = "assign" /\ stage' = "claim"
      /\ node_col \in 1..Len(columns) /\ next_parent > Len(parents) /\ next_parent' = 2
      /\ parents' = parents /\ parents \in Seq(View \cup {Outside})
      /\ Current' = b /\ numbered' = numbered /\ crowded' = crowded
      /\ hash_to_column' = hash_to_column
  BY RowsAssumption
     DEF Consume, Typed, TypeOK, IndicesInBounds, Current, View, Column
<1>2. ParentsAreBelow' /\ ParentsAreDistinct'
  BY <1>1 DEF ParentsAreBelow, ParentsAreDistinct
<1>3. ReservedIsFollowed'
  <2> SUFFICES ASSUME Calm', NEW q \in DOMAIN hash_to_column, q > b
               PROVE  Followed(q)'
    BY <1>1 DEF ReservedIsFollowed
  <2>1. Calm
    BY <1>1 DEF Calm, Merging, Additional
  <2>2. columns[node_col] \in {None, b} /\ Followed(q) /\ q \in View
    BY <1>1, <2>1 DEF ReservedIsFollowed, Typed, TypeOK
  <2>3. PICK c : c = hash_to_column[q]
    OBVIOUS
  <2>4. c \in 1..Len(columns)
    BY <2>2, <2>3 DEF Followed
  <2>5. /\ Len(columns') = Len(columns)
        /\ columns'[node_col] = f
        /\ c # node_col => columns'[c] = columns[c]
    BY <1>0, <1>1, <2>4 DEF Consume
  <2>6. CASE columns[c] = q
    <3>1. c # node_col
      BY <1>1, <2>2, <2>6 DEF None, View
    <3> QED
      BY <1>1, <2>3, <2>4, <2>5, <2>6, <3>1 DEF Followed
  <2>7. CASE c = node_col /\ parents # <<>> /\ parents[1] = q
    <3>1. f = q
      BY <1>0, <2>2, <2>7 DEF View, Outside
    <3> QED
      BY <1>1, <2>3, <2>4, <2>5, <2>7, <3>1 DEF Followed
  <2>8. CASE columns[c] = None /\ c # node_col
             /\ \E i \in 2..Len(parents) : parents[i] = q
    <3>1. PICK i \in 2..Len(parents) : parents[i] = q
      BY <2>8
    <3>2. Pending(i)'
      BY <1>1, <3>1 DEF Pending
    <3> QED
      BY <1>1, <2>3, <2>4, <2>5, <2>8, <3>1, <3>2 DEF Followed
  <2> QED
    BY <1>1, <2>2, <2>3, <2>6, <2>7, <2>8 DEF Followed
<1> QED
  BY <1>2, <1>3

LEMMA ClaimLines == Typed /\ Lines /\ Claim => Lines'
<1> SUFFICES ASSUME Typed, Lines, Claim PROVE Lines'
  OBVIOUS
<1> USE DEF Lines
<1> DEFINE b == Current
<1>0. PICK k, p : k = next_parent /\ p = parents[k]
  OBVIOUS
<1>1. /\ stage = "claim" /\ stage' = "claim" /\ b \in View
      /\ k \in 2..Len(parents) /\ next_parent' = k + 1 /\ parents' = parents
      /\ Current' = b /\ numbered' = numbered /\ crowded' = crowded
      /\ hash_to_column' = hash_to_column
  BY <1>0, ClaimFacts, RowsAssumption DEF Claim, Typed, TypeOK, Current, View
<1>2. /\ columns \in Seq(Column) /\ columns' \in Seq(Column)
      /\ Len(columns') >= Len(columns)
      /\ p # Outside => /\ p \in DOMAIN hash_to_column
                        /\ hash_to_column[p] \in 1..Len(columns')
                        /\ columns'[hash_to_column[p]] = p
      /\ \A c \in 1..Len(columns) :
            columns'[c] = columns[c] \/ (p # Outside /\ c = hash_to_column[p])
  BY <1>0, ClaimFacts
<1>3. ParentsAreBelow' /\ ParentsAreDistinct'
  BY <1>1 DEF ParentsAreBelow, ParentsAreDistinct
<1>4. ReservedIsFollowed'
  <2> SUFFICES ASSUME Calm', NEW q \in DOMAIN hash_to_column, q > b
               PROVE  Followed(q)'
    BY <1>1 DEF ReservedIsFollowed
  <2>1. Calm
    BY <1>1 DEF Calm, Merging, Additional
  <2>2. Followed(q) /\ q \in View
    BY <1>1, <2>1 DEF ReservedIsFollowed, Typed, TypeOK
  <2>3. CASE q = p
    BY <1>1, <1>2, <2>2, <2>3 DEF Followed, View, Outside
  <2>4. CASE q # p
    <3>1. PICK c : c = hash_to_column[q]
      OBVIOUS
    <3>2. c \in 1..Len(columns) /\ c \in 1..Len(columns')
      BY <1>2, <2>2, <3>1 DEF Followed
    <3>3. columns[c] = q \/ (/\ columns[c] = None
                             /\ \E i \in 2..Len(parents) : Pending(i) /\ parents[i] = q)
      BY <1>1, <2>2, <3>1 DEF Followed
    <3>4. columns'[c] = columns[c]
      <4> SUFFICES ASSUME p # Outside, c = hash_to_column[p] PROVE FALSE
        BY <1>2, <3>2
      <4>1. p > b /\ p \in DOMAIN hash_to_column /\ p \in View
        BY <1>0, <1>1, <1>2, <2>1 DEF Calm, ParentsAreBelow, Typed, TypeOK
      <4>2. Followed(p)
        BY <1>1, <2>1, <4>1 DEF ReservedIsFollowed
      <4>3. columns[c] = p \/ columns[c] = None
        BY <1>1, <4>2 DEF Followed
      <4>4. columns[c] = None
        BY <2>2, <2>4, <3>3, <4>3
      <4>5. PICK i \in 2..Len(parents) : parents[i] = q
        BY <2>2, <3>3, <4>4 DEF None, View
      <4>6. i # k /\ Additional(i) /\ Additional(k)
        BY <1>0, <1>1, <2>2, <2>4, <4>5 DEF Additional, View, Outside
      <4>7. Merging
        BY <1>1, <4>5, <4>6 DEF Merging
      <4> QED
        BY <2>1, <4>7 DEF Calm
    <3>5. \A i \in 2..Len(parents) : Pending(i) /\ parents[i] = q => Pending(i)'
      BY <1>0, <1>1, <2>4 DEF Pending
    <3> QED
      BY <1>1, <3>1, <3>2, <3>3, <3>4, <3>5 DEF Followed
  <2> QED
    BY <2>3, <2>4
<1> QED
  BY <1>3, <1>4

LEMMA FinishRowLines == Typed /\ Lines /\ FinishRow => Lines'
<1> SUFFICES ASSUME Typed, Lines, FinishRow PROVE Lines'
  OBVIOUS
<1> USE DEF Lines
<1> DEFINE b == Current
<1>1. /\ stage = "claim" /\ stage' = "between" /\ b \in Nat
      /\ next_parent > Len(parents) /\ parents' = <<>> /\ Current' = b + 1
      /\ numbered' = numbered /\ hash_to_column' = hash_to_column
      /\ parents \in Seq(View \cup {Outside})
      /\ columns \in Seq(Column) /\ Len(columns) > 0
  BY DEF FinishRow, Typed, TypeOK, IndicesInBounds, Current, Column
<1>2. ParentsAreBelow' /\ ParentsAreDistinct'
  BY <1>1 DEF ParentsAreBelow, ParentsAreDistinct
<1>3. ReservedIsFollowed'
  <2> SUFFICES ASSUME Calm', NEW q \in DOMAIN hash_to_column, q > b
               PROVE  Followed(q)'
    BY <1>1 DEF ReservedIsFollowed, Typed, TypeOK, View
  <2>1. Calm
    BY <1>1 DEF Calm, Merging, Additional, FinishRow
  <2>2. Followed(q) /\ q \in View
    BY <1>1, <2>1 DEF ReservedIsFollowed, Typed, TypeOK
  <2>3. hash_to_column[q] \in 1..Len(columns) /\ columns[hash_to_column[q]] = q
    BY <1>1, <2>2 DEF Followed, Pending, Typed, TypeOK
  <2>4. /\ \A c \in 1..Len(columns') : columns'[c] = columns[c]
        /\ \A c \in 1..Len(columns) : columns[c] # None => c <= Len(columns')
    BY <1>1, Trimmed DEF FinishRow
  <2>5. hash_to_column[q] \in 1..Len(columns') /\ columns'[hash_to_column[q]] = q
    BY <1>1, <2>2, <2>3, <2>4, Trimmed DEF FinishRow, None, View
  <2> QED
    BY <1>1, <2>5 DEF Followed
<1> QED
  BY <1>2, <1>3

-----------------------------------------------------------------------------
(* Where edges lead *)

LEMMA RowTypes ==
    ASSUME TypeOK
    PROVE  /\ Len(graph_rows) \in Nat /\ DOMAIN graph_rows = 1..Len(graph_rows)
           /\ \A r \in DOMAIN graph_rows : \A i \in DOMAIN graph_rows[r].edges :
                graph_rows[r].edges[i] \in GraphEdge
           /\ \A i \in DOMAIN edges : edges[i] \in GraphEdge
           /\ \A e \in GraphEdge : e.parent_hash \in Nat
<1>1. \A r \in DOMAIN graph_rows : graph_rows[r] \in GraphRow
  BY DEF TypeOK
<1>2. \A row \in GraphRow : row.edges \in Seq(GraphEdge)
  BY DEF GraphRow
<1>3. \A e \in GraphEdge : e.parent_hash \in Nat
  BY DEF GraphEdge, View
<1>4. /\ Len(graph_rows) \in Nat /\ DOMAIN graph_rows = 1..Len(graph_rows)
      /\ edges \in Seq(GraphEdge)
  BY DEF TypeOK
<1>5. \A r \in DOMAIN graph_rows : \A i \in DOMAIN graph_rows[r].edges :
         graph_rows[r].edges[i] \in GraphEdge
  BY <1>1, <1>2
<1> QED
  BY <1>3, <1>4, <1>5

LEMMA PlaceNodeEdges == TypeOK /\ EdgesLeadOn /\ PlaceNode => EdgesLeadOn'
<1> SUFFICES ASSUME TypeOK, EdgesLeadOn, PlaceNode PROVE EdgesLeadOn'
  OBVIOUS
<1>1. /\ stage = "between" /\ stage' = "assign" /\ edges' = <<>> /\ edges = <<>>
      /\ node_col' = NodeColumn(Current) /\ UNCHANGED <<hash_to_column, graph_rows>>
  BY DEF PlaceNode, EdgesLeadOn
<1>2. ASSUME NEW r \in DOMAIN graph_rows, NEW i \in DOMAIN graph_rows[r].edges
      PROVE  LeadsOn(r, graph_rows[r].edges[i])'
  <2>1. LeadsOn(r, graph_rows[r].edges[i])
    BY DEF EdgesLeadOn
  <2> QED
    BY <1>1, <2>1 DEF LeadsOn, TakenOverBelow, TakenOver, NodeColumn, Current
<1> QED
  BY <1>1, <1>2 DEF EdgesLeadOn

LEMMA AssignParentEdges == Typed /\ EdgesLeadOn /\ AssignParent => EdgesLeadOn'
<1> SUFFICES ASSUME Typed, EdgesLeadOn, AssignParent PROVE EdgesLeadOn'
  OBVIOUS
<1>0. PICK k, p, c : k = next_parent /\ p = parents[k] /\ c = ParentColumn(k, p)
  OBVIOUS
<1>1. /\ k \in Nat /\ k >= 1 /\ next_parent' = k + 1 /\ stage = "assign" /\ stage' = "assign"
      /\ UNCHANGED <<node_col, graph_rows>> /\ edges \in Seq(GraphEdge)
  BY <1>0 DEF AssignParent, Typed, TypeOK
<1>2. CASE p = Outside /\ UNCHANGED <<hash_to_column, edges>>
  BY <1>0, <1>1, <1>2 DEF EdgesLeadOn, LeadsOn, TakenOverBelow, TakenOver, Current
<1>3. CASE /\ hash_to_column' = Reserve(p, c)
           /\ edges' = Append(edges, [from_col |-> node_col, to_col |-> c, parent_hash |-> p])
  <2> DEFINE e == [from_col |-> node_col, to_col |-> c, parent_hash |-> p]
  <2>1. /\ DOMAIN edges' = DOMAIN edges \cup {Len(edges) + 1}
        /\ \A i \in DOMAIN edges : edges'[i] = edges[i]
        /\ edges'[Len(edges) + 1] = e
    BY <1>1, <1>3
  <2>2. /\ DOMAIN hash_to_column' = DOMAIN hash_to_column \cup {p}
        /\ \A q \in DOMAIN hash_to_column : q # p => hash_to_column'[q] = hash_to_column[q]
        /\ hash_to_column'[p] = c
    BY <1>3 DEF Reserve
  <2>3. /\ k = 1 => c = node_col /\ edges = <<>>
        /\ k # 1 /\ p \in DOMAIN hash_to_column => c = hash_to_column[p]
    BY <1>0, <1>1 DEF ParentColumn, EdgesLeadOn
  <2>4. \A i \in DOMAIN edges' :
           /\ edges'[i].parent_hash \in DOMAIN hash_to_column'
           /\ hash_to_column'[edges'[i].parent_hash] = edges'[i].to_col
    <3> SUFFICES ASSUME NEW i \in DOMAIN edges'
                 PROVE  /\ edges'[i].parent_hash \in DOMAIN hash_to_column'
                        /\ hash_to_column'[edges'[i].parent_hash] = edges'[i].to_col
      OBVIOUS
    <3>1. CASE i \in DOMAIN edges
      <4>1. k # 1
        BY <2>3, <3>1
      <4> QED
        BY <2>1, <2>2, <2>3, <3>1, <4>1 DEF EdgesLeadOn
    <3>2. CASE i = Len(edges) + 1
      BY <2>1, <2>2, <3>2
    <3> QED
      BY <2>1, <3>1, <3>2
  <2>5. \A q : TakenOver(edges, q) => TakenOver(edges', q)
    BY <2>1 DEF TakenOver
  <2>6. k = 1 => TakenOver(edges', p)
    BY <2>1, <2>3 DEF TakenOver
  <2> HIDE DEF e
  <2>7. ASSUME NEW r \in DOMAIN graph_rows, NEW i \in DOMAIN graph_rows[r].edges
        PROVE  LeadsOn(r, graph_rows[r].edges[i])'
    <3>1. PICK d : d = graph_rows[r].edges[i]
      OBVIOUS
    <3> DEFINE q == d.parent_hash
    <3>2. LeadsOn(r, d)
      BY <3>1 DEF EdgesLeadOn
    <3>3. q \in DOMAIN hash_to_column /\ (hash_to_column[q] = d.to_col \/ TakenOver(edges, q))
            => /\ q \in DOMAIN hash_to_column'
               /\ hash_to_column'[q] = d.to_col \/ TakenOver(edges', q)
      BY <2>2, <2>3, <2>5, <2>6
    <3> HIDE DEF q
    <3>4. q > Len(graph_rows) =>
            \/ TakenOverBelow(r, q)
            \/ IF q = Current /\ stage # "between" THEN node_col = d.to_col
               ELSE /\ q \in DOMAIN hash_to_column'
                    /\ hash_to_column'[q] = d.to_col \/ TakenOver(edges', q)
      BY <3>2, <3>3 DEF LeadsOn, q
    <3>5. TakenOverBelow(r, q)' <=> TakenOverBelow(r, q)
      BY <1>1, <3>1 DEF TakenOverBelow, TakenOver, q
    <3> QED
      BY <1>1, <3>1, <3>4, <3>5 DEF LeadsOn, q, Current
  <2> QED
    BY <1>1, <2>4, <2>7 DEF EdgesLeadOn
<1> QED
  BY <1>0, <1>2, <1>3 DEF AssignParent

LEMMA FinishRowEdges ==
    ASSUME TypeOK, EdgesLeadOn, FinishRow
    PROVE  EdgesLeadOn' /\ (EdgesMeetTheirParent => EdgesMeetTheirParent')
<1> DEFINE n == Len(graph_rows)
           row == [node_column |-> node_col, columns |-> row_columns, edges |-> edges]
<1>1. /\ stage = "claim" /\ stage' = "between" /\ edges' = <<>>
      /\ graph_rows' = Append(graph_rows, row) /\ UNCHANGED hash_to_column
  BY DEF FinishRow
<1>2. /\ n \in Nat /\ DOMAIN graph_rows = 1..n /\ Len(graph_rows') = n + 1
      /\ DOMAIN graph_rows' = 1..(n + 1)
      /\ \A r \in 1..n : graph_rows'[r] = graph_rows[r]
      /\ graph_rows'[n + 1] = row
  BY <1>1 DEF TypeOK
<1>3. row.edges = edges /\ row.node_column = node_col
  OBVIOUS
<1> HIDE DEF n, row
<1>4. \A r \in 1..n : \A q : TakenOverBelow(r, q) =>
          \E t \in (r + 1)..n : TakenOver(graph_rows'[t].edges, q)
  BY <1>2 DEF TakenOverBelow, n
<1>5. ASSUME NEW r \in 1..(n + 1), NEW i \in DOMAIN graph_rows'[r].edges
      PROVE  LeadsOn(r, graph_rows[r].edges[i])'
  <2>1. PICK e, q : e = graph_rows'[r].edges[i] /\ q = e.parent_hash
    OBVIOUS
  <2>2. CASE r = n + 1
    <3>1. q \in DOMAIN hash_to_column /\ hash_to_column[q] = e.to_col
      BY <1>2, <1>3, <1>5, <2>1, <2>2 DEF EdgesLeadOn
    <3> QED
      BY <1>1, <2>1, <3>1 DEF LeadsOn
  <2>3. CASE r \in 1..n
    <3>1. e = graph_rows[r].edges[i] /\ LeadsOn(r, e) /\ q \in Nat
      BY <1>2, <1>5, <2>1, <2>3, RowTypes DEF EdgesLeadOn
    <3>2. TakenOver(edges, q) => TakenOverBelow(r, q)'
      BY <1>2, <1>3, <2>3 DEF TakenOverBelow
    <3>3. TakenOverBelow(r, q) => TakenOverBelow(r, q)'
      BY <1>2, <1>4, <2>3 DEF TakenOverBelow
    <3>4. q > n + 1 => q # Current /\ q > n
      BY <1>2, <3>1 DEF Current, n
    <3>5. q > n + 1 => \/ TakenOverBelow(r, q)'
                       \/ q \in DOMAIN hash_to_column /\ hash_to_column[q] = e.to_col
      BY <2>1, <3>1, <3>2, <3>3, <3>4 DEF LeadsOn, n
    <3> QED
      BY <1>1, <1>2, <2>1, <3>5 DEF LeadsOn
  <2> QED
    BY <1>2, <2>2, <2>3
<1>6. EdgesLeadOn'
  BY <1>1, <1>2, <1>5 DEF EdgesLeadOn
<1>7. EdgesMeetTheirParent => EdgesMeetTheirParent'
  <2>0. EdgesMeetTheirParent' <=>
          \A r, s \in DOMAIN graph_rows' : \A i \in DOMAIN graph_rows'[r].edges :
             r < s /\ graph_rows'[r].edges[i].parent_hash = s =>
               \/ graph_rows'[r].edges[i].to_col = graph_rows'[s].node_column
               \/ \E t \in (r + 1)..(s - 1) : TakenOver(graph_rows'[t].edges, s)
    BY DEF EdgesMeetTheirParent, TakenOver
  <2> SUFFICES ASSUME EdgesMeetTheirParent,
                      NEW r \in 1..(n + 1), NEW s \in 1..(n + 1),
                      NEW i \in DOMAIN graph_rows'[r].edges, r < s,
                      graph_rows'[r].edges[i].parent_hash = s
               PROVE  \/ graph_rows'[r].edges[i].to_col = graph_rows'[s].node_column
                      \/ \E t \in (r + 1)..(s - 1) : TakenOver(graph_rows'[t].edges, s)
    BY <1>2, <2>0
  <2>1. r \in 1..n /\ graph_rows'[r] = graph_rows[r]
    BY <1>2
  <2>2. CASE s \in 1..n
    <3>1. \/ graph_rows[r].edges[i].to_col = graph_rows[s].node_column
          \/ \E t \in (r + 1)..(s - 1) : TakenOver(graph_rows[t].edges, s)
      BY <1>2, <2>1, <2>2 DEF EdgesMeetTheirParent, TakenOver
    <3> QED
      BY <1>2, <2>1, <2>2, <3>1
  <2>3. CASE s = n + 1
    <3>1. LeadsOn(r, graph_rows[r].edges[i]) /\ s = Current /\ s > n
      BY <1>2, <2>1, <2>3 DEF EdgesLeadOn, Current, n
    <3>2. \/ TakenOverBelow(r, s)
          \/ node_col = graph_rows[r].edges[i].to_col
      BY <1>1, <2>1, <3>1 DEF LeadsOn, n
    <3> QED
      BY <1>2, <1>3, <1>4, <2>1, <2>3, <3>2
  <2> QED
    BY <1>2, <2>2, <2>3
<1> QED
  BY <1>6, <1>7

LEMMA EdgesStep ==
    ASSUME Typed, EdgesLeadOn, [Next]_vars
    PROVE  EdgesLeadOn' /\ (EdgesMeetTheirParent => EdgesMeetTheirParent')
<1>0. TypeOK
  BY DEF Typed
<1>1. CASE FinishRow
  BY <1>0, <1>1, FinishRowEdges
<1>2. CASE PlaceNode \/ AssignParent
  <2>1. graph_rows' = graph_rows
    BY <1>2 DEF PlaceNode, AssignParent
  <2> QED
    BY <1>0, <1>2, <2>1, PlaceNodeEdges, AssignParentEdges DEF EdgesMeetTheirParent
<1>3. CASE Consume \/ Claim \/ UNCHANGED vars
  <2>1. /\ UNCHANGED <<graph_rows, edges, hash_to_column, node_col>>
        /\ stage' = "between" <=> stage = "between"
        /\ stage' = "assign" => stage = "assign" /\ next_parent' = next_parent
    BY <1>3 DEF Consume, Claim, vars, rowVars
  <2> QED
    BY <2>1 DEF EdgesLeadOn, LeadsOn, TakenOverBelow, TakenOver, Current, EdgesMeetTheirParent
<1> QED
  BY <1>1, <1>2, <1>3 DEF Next

-----------------------------------------------------------------------------
(* The theorems *)

LEMMA InitInvariant == Init => IInv
<1> SUFFICES ASSUME Init PROVE IInv
  OBVIOUS
<1>1. TypeOK
  <2>1. columns = <<>> /\ parents = <<>> /\ edges = <<>> /\ row_columns = <<>>
        /\ graph_rows = <<>> /\ DOMAIN hash_to_column = {}
    BY DEF Init
  <2>2. /\ columns \in Seq(View \cup {None}) /\ parents \in Seq(View \cup {Outside})
        /\ edges \in Seq(GraphEdge) /\ row_columns \in Seq(View \cup {None, Node})
        /\ graph_rows \in Seq(GraphRow)
    BY <2>1
  <2> QED
    BY <2>1, <2>2 DEF Init, TypeOK
<1>2. IndicesInBounds /\ PassedHaveColumns
  BY DEF Init, IndicesInBounds, PassedHaveColumns
<1>3. ParentsAreBelow /\ ParentsAreDistinct /\ ReservedIsFollowed
  BY DEF Init, ParentsAreBelow, ParentsAreDistinct, ReservedIsFollowed
<1>4. EdgesLeadOn
  BY DEF Init, EdgesLeadOn
<1> QED
  BY <1>1, <1>2, <1>3, <1>4 DEF IInv

LEMMA StepInvariant == IInv /\ [Next]_vars => IInv'
<1> SUFFICES ASSUME IInv, [Next]_vars PROVE IInv'
  OBVIOUS
<1>1. Typed /\ Lines
  BY DEF IInv, Typed, Lines
<1>2. Typed'
  BY <1>1, TypedStep
<1>4. Lines'
  <2>1. CASE UNCHANGED vars
    BY <1>1, <2>1 DEF vars, rowVars, Lines, ParentsAreBelow, ParentsAreDistinct,
       ReservedIsFollowed, Followed, Pending, Calm, Merging, Additional, Current
  <2>2. CASE Next
    BY <1>1, <2>2, PlaceNodeLines, AssignParentLines, ConsumeLines, ClaimLines,
       FinishRowLines DEF Next
  <2> QED
    BY <2>1, <2>2
<1>5. EdgesLeadOn'
  BY <1>1, EdgesStep DEF IInv
<1> QED
  BY <1>2, <1>4, <1>5 DEF IInv, Typed, Lines

\* The invariant of the layout loop, for every graph and any number of parents.
THEOREM Invariance == Spec => []IInv
<1> QED
  BY InitInvariant, StepInvariant, PTL DEF Spec

\* compute_layout does not panic on an index, for blocks with or without
\* numbers and any number of parents.
THEOREM NoIndexPanics == Spec => []IndicesInBounds
<1>1. IInv => IndicesInBounds
  BY DEF IInv
<1> QED
  BY Invariance, <1>1, PTL

\* The lines of the graph are not cut while every block has its number and
\* at most one additional parent in view.
THEOREM LinesAreNotCut == Spec => NodesStandOnTheirLine
<1>1. ASSUME IInv, [Next]_vars
      PROVE  [stage = "between" /\ stage' = "assign" /\ ~crowded /\ numbered = Rows =>
                Free(columns, node_col') \/ columns[node_col'] = Current]_vars
  <2> SUFFICES ASSUME Next, stage = "between", stage' = "assign", ~crowded, numbered = Rows
               PROVE  Free(columns, node_col') \/ columns[node_col'] = Current
    BY <1>1
  <2>1. PlaceNode /\ Current \in View /\ columns \in Seq(Column)
    BY <1>1, RowsAssumption DEF Next, PlaceNode, AssignParent, Consume, Claim, FinishRow,
       IInv, TypeOK, Current, View, Column
  <2>2. CASE Current \in DOMAIN hash_to_column
    <3>1. Followed(Current)
      BY <1>1, <2>2 DEF IInv, ReservedIsFollowed, Calm, Merging
    <3>2. columns[hash_to_column[Current]] \in {Current, None}
      BY <3>1 DEF Followed
    <3> QED
      BY <2>1, <2>2, <3>2 DEF PlaceNode, NodeColumn, Free
  <2>3. CASE Current \notin DOMAIN hash_to_column
    BY <2>1, <2>3, FreeColumn DEF PlaceNode, NodeColumn
  <2> QED
    BY <2>2, <2>3
<1> QED
  BY Invariance, <1>1, PTL DEF Spec, NodesStandOnTheirLine

\* An edge of compute_layout ends where its parent is drawn, any number of rows
\* further down, or where a row in between takes the parent over; for blocks
\* with or without numbers, merged as they may be.
THEOREM EdgesArrive == Spec => []EdgesMeetTheirParent
<1>1. Init => EdgesMeetTheirParent
  BY DEF Init, EdgesMeetTheirParent
<1>2. IInv /\ EdgesMeetTheirParent /\ [Next]_vars => EdgesMeetTheirParent'
  BY EdgesStep DEF IInv, Typed
<1> QED
  BY <1>1, <1>2, Invariance, PTL DEF Spec
=============================================================================
