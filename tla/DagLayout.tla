------------------------------ MODULE DagLayout ------------------------------
(***************************************************************************)
(* Dag::compute_layout of src/dag/model.rs: the columns of the git-style   *)
(* graph.  The loop over sorted_hashes runs from the highest block number  *)
(* to the lowest; every block is drawn in one row, in the column that a    *)
(* child reserved for it or in a free one, and reserves columns for its    *)
(* parents.                                                                *)
(*                                                                         *)
(* A block is named by its place in sorted_hashes, so block r is drawn in  *)
(* row r.  The graph is not fixed in advance: a block's parents are chosen *)
(* when its row begins, which is where the code first reads them.  Columns *)
(* count from 1.                                                           *)
(*                                                                         *)
(* A definition commented as a variant is no part of the specification:    *)
(* it is the one after it with a plausible slip.                           *)
(***************************************************************************)
EXTENDS Integers, Sequences, FiniteSets, Relation

CONSTANTS Rows,         \* number of blocks in the view
          MaxParents    \* bound on the parents of a block

ASSUME RowsAssumption == Rows \in Nat
ASSUME MaxParentsAssumption == MaxParents \in Nat

VARIABLES
    numbered,       \* blocks above this one have a number, the others are -1
    columns,        \* the active columns: the block each one follows
    hash_to_column, \* the columns reserved so far
    stage,          \* where in a round of the loop we are
    node_col,       \* column of the row being built
    parents,        \* parents of the block of that row
    next_parent,    \* index of the next parent to be given a column
    edges,          \* edges of that row
    row_columns,    \* the snapshot that row displays
    graph_rows,     \* finished rows
    crowded         \* history: a row had two additional parents in view

rowVars == <<stage, node_col, parents, next_parent, edges, row_columns>>
vars == <<numbered, columns, hash_to_column, rowVars, graph_rows, crowded>>

View == 1..Rows
Outside == 0        \* any parent that is not in the view
None == -1          \* an empty column
Node == -2          \* the node in a row's snapshot

\* The block whose row is being built, or comes next.
Current == Len(graph_rows) + 1

-----------------------------------------------------------------------------
(* Which parents a block may have *)

DrawnEdge(r, p) ==
    /\ r <= Len(graph_rows)
    /\ \E i \in DOMAIN graph_rows[r].edges : graph_rows[r].edges[i].parent_hash = p

Descends(b, p) ==
    TransitiveClosure([e \in View \X View |-> DrawnEdge(e[1], e[2])], View)[b, p]

\* A parent has a lower number than its child and is drawn below it, unless
\* the child's number is the placeholder -1, which sorts it to the bottom.
PossibleParents(b) ==
    {Outside} \cup (b + 1)..Rows
              \cup {p \in View : p < b /\ b > numbered /\ ~Descends(p, b)}

ParentLists(b) ==
    {ps \in UNION {[1..n -> PossibleParents(b)] : n \in 0..MaxParents} :
        \A i, j \in DOMAIN ps : ps[i] = ps[j] => i = j \/ ps[i] = Outside}

-----------------------------------------------------------------------------
(* The steps of the loop *)

Free(cols, c) == c > Len(cols) \/ cols[c] = None

\* The first empty column other than the given one, else one more column.
FirstFree(cols, except) ==
    CHOOSE c \in 1..(Len(cols) + 1) \ {except} :
        /\ Free(cols, c)
        /\ \A d \in 1..(c - 1) \ {except} : ~Free(cols, d)

\* Variant: the columns are not widened.
UseAsTheyAre(cols, n) == cols

\* while columns.len() <= c { columns.push(None) }
PadTo(cols, n) ==
    [c \in 1..(IF n > Len(cols) THEN n ELSE Len(cols)) |->
        IF c <= Len(cols) THEN cols[c] ELSE None]

\* Drop empty columns at the end, but keep the first.
Trim(cols) ==
    SubSeq(cols, 1, CHOOSE n \in 1..Len(cols) :
                        /\ n = 1 \/ cols[n] # None
                        /\ \A c \in (n + 1)..Len(cols) : cols[c] = None)

Init ==
    /\ numbered \in 0..Rows
    /\ columns = <<>>
    /\ hash_to_column = [p \in {} |-> 0]
    /\ stage = "between" /\ node_col = 0 /\ parents = <<>> /\ next_parent = 0
    /\ edges = <<>> /\ row_columns = <<>>
    /\ graph_rows = <<>>
    /\ crowded = FALSE

\* The block's column: reserved by a child, or the first that is free.
NodeColumn(b) ==
    IF b \in DOMAIN hash_to_column THEN hash_to_column[b] ELSE FirstFree(columns, 0)

\* A row begins: find the column, widen the columns, take the snapshot.
PlaceNode ==
    /\ stage = "between"
    /\ Current <= Rows
    /\ parents' \in ParentLists(Current)
    /\ node_col' = NodeColumn(Current)
    /\ columns' = PadTo(columns, node_col')
    /\ row_columns' = [columns' EXCEPT ![node_col'] = Node]
    /\ stage' = "assign"
    /\ next_parent' = 1
    /\ edges' = <<>>
    /\ UNCHANGED <<numbered, hash_to_column, graph_rows, crowded>>

\* Variant: every additional parent is given a new column.
UnreservedColumn(i, p) == IF i = 1 THEN node_col ELSE FirstFree(columns, node_col)

\* The column of the i-th parent p: ours for the first parent, else the one
\* it has, else an empty one.
ParentColumn(i, p) ==
    IF i = 1 THEN node_col
    ELSE IF p \in DOMAIN hash_to_column THEN hash_to_column[p]
    ELSE FirstFree(columns, node_col)

Reserve(p, c) == [q \in DOMAIN hash_to_column \cup {p} |->
                    IF q = p THEN c ELSE hash_to_column[q]]

\* One round of the loop over the parents.
AssignParent ==
    /\ stage = "assign"
    /\ next_parent <= Len(parents)
    /\ next_parent' = next_parent + 1
    /\ LET p == parents[next_parent]
           c == ParentColumn(next_parent, p)
       IN  \/ /\ p = Outside
              /\ UNCHANGED <<columns, hash_to_column, edges>>
           \/ /\ p # Outside
              /\ hash_to_column' = Reserve(p, c)
              /\ columns' = IF p \in DOMAIN hash_to_column
                            THEN columns ELSE PadTo(columns, c)
              /\ edges' = Append(edges, [from_col |-> node_col, to_col |-> c,
                                         parent_hash |-> p])
    /\ UNCHANGED <<numbered, stage, node_col, parents, row_columns, graph_rows, crowded>>

\* After the parents: the block's own column follows its first parent.
Consume ==
    /\ stage = "assign"
    /\ next_parent > Len(parents)
    /\ columns' = [columns EXCEPT ![node_col] =
                     IF parents # <<>> /\ parents[1] # Outside THEN parents[1] ELSE None]
    /\ stage' = "claim"
    /\ next_parent' = 2
    /\ UNCHANGED <<numbered, hash_to_column, node_col, parents, edges, row_columns,
                   graph_rows, crowded>>

\* Variant: the columns of additional parents are not set.
ClaimNothing ==
    /\ stage = "claim"
    /\ next_parent <= Len(parents)
    /\ next_parent' = next_parent + 1
    /\ UNCHANGED <<numbered, columns, hash_to_column, stage, node_col, parents, edges,
                   row_columns, graph_rows, crowded>>

\* One round of the loop that lets columns follow the additional parents.
Claim ==
    /\ stage = "claim"
    /\ next_parent <= Len(parents)
    /\ next_parent' = next_parent + 1
    /\ LET p == parents[next_parent]
           c == hash_to_column[p]
       IN  columns' = IF p = Outside THEN columns
                      ELSE [PadTo(columns, c) EXCEPT ![c] = p]
    /\ UNCHANGED <<numbered, hash_to_column, stage, node_col, parents, edges,
                   row_columns, graph_rows, crowded>>

\* The row ends.
FinishRow ==
    /\ stage = "claim"
    /\ next_parent > Len(parents)
    /\ columns' = Trim(columns)
    /\ graph_rows' = Append(graph_rows,
                        [node_column |-> node_col, columns |-> row_columns, edges |-> edges])
    /\ crowded' = (crowded \/ \E i, j \in 2..Len(parents) :
                        i # j /\ parents[i] # Outside /\ parents[j] # Outside)
    /\ stage' = "between" /\ node_col' = 0 /\ parents' = <<>> /\ next_parent' = 0
    /\ edges' = <<>> /\ row_columns' = <<>>
    /\ UNCHANGED <<numbered, hash_to_column>>

Next == PlaceNode \/ AssignParent \/ Consume \/ Claim \/ FinishRow

Spec == Init /\ [][Next]_vars

-----------------------------------------------------------------------------
(* Properties *)

GraphEdge == [from_col : Nat, to_col : Nat, parent_hash : View]
GraphRow == [node_column : Nat, columns : Seq(View \cup {None, Node}),
             edges : Seq(GraphEdge)]

\* Every variable has its type and the loops' counters are in range.
TypeOK ==
    /\ numbered \in 0..Rows
    /\ columns \in Seq(View \cup {None})
    /\ \A p \in DOMAIN hash_to_column : p \in View /\ hash_to_column[p] \in Nat \ {0}
    /\ stage \in {"between", "assign", "claim"}
    /\ node_col \in Nat
    /\ parents \in Seq(View \cup {Outside})
    /\ next_parent \in Nat
    /\ stage = "assign" => next_parent >= 1
    /\ stage = "claim" => next_parent >= 2
    /\ edges \in Seq(GraphEdge)
    /\ row_columns \in Seq(View \cup {None, Node})
    /\ graph_rows \in Seq(GraphRow)
    /\ stage # "between" => Current <= Rows
    /\ crowded \in BOOLEAN

\* The indexing of compute_layout never panics: row_columns[node_col] and
\* columns[node_col] are in range although columns grow, are trimmed at the
\* end of each row and are reserved rows before they are used.
IndicesInBounds ==
    stage # "between" => /\ node_col \in 1..Len(row_columns)
                         /\ node_col \in 1..Len(columns)

\* An edge ends in the column in which its parent is drawn further down,
\* unless a row in between has taken the parent over into its own column.
EdgesMeetTheirParent ==
    \A r, s \in DOMAIN graph_rows : \A i \in DOMAIN graph_rows[r].edges :
        LET e == graph_rows[r].edges[i]
        IN  r < s /\ e.parent_hash = s =>
              \/ e.to_col = graph_rows[s].node_column
              \/ \E t \in (r + 1)..(s - 1) : \E j \in DOMAIN graph_rows[t].edges :
                    LET f == graph_rows[t].edges[j]
                    IN  f.parent_hash = s /\ f.to_col = f.from_col

\* As long as no block has two additional parents in view and all blocks have
\* their number, a node is put on an empty column or on the line that leads
\* to it: the lines of git log --graph are never cut by another block's node.
NodesStandOnTheirLine ==
    [][stage = "between" /\ stage' = "assign" /\ ~crowded /\ numbered = Rows =>
         Free(columns, node_col') \/ columns[node_col'] = Current]_vars

-----------------------------------------------------------------------------
(* The inductive invariant behind the properties *)

Additional(i) == i \in 2..Len(parents) /\ parents[i] # Outside

\* Two additional parents of the current block are in view.
Merging ==
    /\ stage # "between"
    /\ \E i, j \in 2..Len(parents) : i # j /\ Additional(i) /\ Additional(j)

Calm == ~crowded /\ ~Merging /\ numbered = Rows

\* The current block's parents are drawn below it.
ParentsAreBelow ==
    numbered = Rows => \A i \in 1..Len(parents) :
        parents[i] # Outside => parents[i] > Current

ParentsAreDistinct ==
    \A i, j \in 1..Len(parents) : parents[i] = parents[j] => i = j \/ parents[i] = Outside

\* Parents that the loop has passed have a column, the first one ours.
PassedHaveColumns ==
    \A i \in 1..Len(parents) :
        parents[i] # Outside /\ (i < next_parent \/ stage = "claim") =>
            /\ parents[i] \in DOMAIN hash_to_column
            /\ i = 1 => hash_to_column[parents[i]] = node_col

\* The i-th parent's column is still to be set to follow it.
Pending(i) ==
    \/ stage = "assign" /\ i < next_parent
    \/ stage = "claim" /\ i >= next_parent /\ i >= 2

\* A reserved block not yet drawn is followed by its column, but for parents
\* of the current block that are yet to be entered.
Followed(p) ==
    LET c == hash_to_column[p]
    IN  /\ c \in 1..Len(columns)
        /\ \/ columns[c] = p
           \/ /\ stage = "assign" /\ c = node_col
              /\ parents # <<>> /\ parents[1] = p /\ next_parent > 1
           \/ /\ columns[c] = None
              /\ stage = "assign" => c # node_col
              /\ \E i \in 2..Len(parents) : Pending(i) /\ parents[i] = p

ReservedIsFollowed ==
    Calm => /\ stage = "assign" => columns[node_col] \in {None, Current}
            /\ \A p \in DOMAIN hash_to_column :
                 p > Current \/ (p = Current /\ stage = "between") => Followed(p)

\* A row below r that is finished, or is being built, has taken p over.
TakenOver(es, p) ==
    \E j \in DOMAIN es : es[j].parent_hash = p /\ es[j].to_col = es[j].from_col
TakenOverBelow(r, p) ==
    \E t \in (r + 1)..Len(graph_rows) : TakenOver(graph_rows[t].edges, p)

\* Edge e of row r leads to where its parent is drawn, or will be.
LeadsOn(r, e) ==
    LET p == e.parent_hash
    IN  p > Len(graph_rows) =>
          \/ TakenOverBelow(r, p)
          \/ IF p = Current /\ stage # "between" THEN node_col = e.to_col
             ELSE /\ p \in DOMAIN hash_to_column
                  /\ hash_to_column[p] = e.to_col \/ TakenOver(edges, p)

EdgesLeadOn ==
    /\ stage = "between" \/ (stage = "assign" /\ next_parent = 1) => edges = <<>>
    /\ \A i \in DOMAIN edges : /\ edges[i].parent_hash \in DOMAIN hash_to_column
                               /\ hash_to_column[edges[i].parent_hash] = edges[i].to_col
    /\ \A r \in DOMAIN graph_rows : \A i \in DOMAIN graph_rows[r].edges :
          LeadsOn(r, graph_rows[r].edges[i])

IInv ==
    /\ TypeOK
    /\ IndicesInBounds
    /\ ParentsAreBelow
    /\ ParentsAreDistinct
    /\ PassedHaveColumns
    /\ ReservedIsFollowed
    /\ EdgesLeadOn
=============================================================================
