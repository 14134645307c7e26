--------------------------- MODULE DagViewerProofs ---------------------------
(* The viewer's cursor stays on a row, the row stays in sight, the rows are *)
(* the blocks and the relations between blocks are right, for every shard,  *)
(* channel, terminal and sequence of keys, events and failures.             *)
EXTENDS DagViewer, FiniteSetTheorems, SequenceTheorems, WellFoundedInduction, TLAPS

-----------------------------------------------------------------------------
(* The graph's operations *)

LEMMA DagFacts ==
    ASSUME NEW d, IsDag(d)
    PROVE  /\ Known(d) \subseteq Hashes
           /\ d.blocks \in [Known(d) -> DagBlock]
           /\ d.children \in [Hashes -> SUBSET Hashes]
           /\ d.tips \subseteq Hashes
           /\ d = [blocks |-> d.blocks, children |-> d.children, tips |-> d.tips]
BY DEF IsDag, Known

LEMMA AddBlockFacts ==
    ASSUME NEW d, IsDag(d), NEW h \in Hashes, NEW b \in DagBlock
    PROVE  /\ IsDag(AddBlock(d, h, b))
           /\ Known(AddBlock(d, h, b)) = Known(d) \cup {h}
<1>1. DOMAIN AddBlock(d, h, b).blocks = Known(d) \cup {h}
  BY DEF AddBlock
<1>2. AddBlock(d, h, b).blocks \in [Known(d) \cup {h} -> DagBlock]
  BY DagFacts DEF AddBlock
<1>3. AddBlock(d, h, b).children \in [Hashes -> SUBSET Hashes]
  BY DagFacts DEF AddBlock
<1>4. AddBlock(d, h, b).tips \subseteq Hashes
  BY DagFacts DEF AddBlock
<1>5. Known(d) \cup {h} \in SUBSET Hashes
  BY DagFacts
<1>6. AddBlock(d, h, b) = [blocks |-> AddBlock(d, h, b).blocks,
                           children |-> AddBlock(d, h, b).children,
                           tips |-> AddBlock(d, h, b).tips]
  BY DEF AddBlock
<1> QED
  BY <1>1, <1>2, <1>3, <1>4, <1>5, <1>6 DEF IsDag, Known

Consistent(d) == ChildrenMirrorParents(d) /\ ChildlessAreTips(d)

LEMMA AddBlockConsistent ==
    ASSUME NEW d, IsDag(d), NEW h \in Hashes, NEW b \in DagBlock, Consistent(d)
    PROVE  Consistent(AddBlock(d, h, b))
<1> DEFINE e == AddBlock(d, h, b)
<1>1. Known(e) = Known(d) \cup {h}
  BY AddBlockFacts
<1>2. \A p \in Hashes : e.children[p] =
        IF h \notin Known(d) /\ p \in ParentsOf[h] THEN d.children[p] \cup {h}
        ELSE d.children[p]
  BY DEF AddBlock
<1>3. e.tips = IF h \in Known(d) THEN d.tips ELSE (d.tips \ ParentsOf[h]) \cup {h}
  BY DEF AddBlock
<1> HIDE DEF e
<1>4. ChildrenMirrorParents(e)
  <2> SUFFICES ASSUME NEW p \in Hashes
               PROVE  e.children[p] = {c \in Known(e) : p \in ParentsOf[c]}
    BY DEF ChildrenMirrorParents
  <2>1. d.children[p] = {c \in Known(d) : p \in ParentsOf[c]}
    BY DEF Consistent, ChildrenMirrorParents
  <2> QED
    BY <1>1, <1>2, <2>1
<1>5. ChildlessAreTips(e)
  <2> SUFFICES ASSUME NEW x \in Known(e), e.children[x] = {} PROVE x \in e.tips
    BY DEF ChildlessAreTips
  <2>1. x \in Hashes
    BY <1>1, DagFacts
  <2>2. CASE h \in Known(d)
    BY <1>1, <1>2, <1>3, <2>1, <2>2 DEF Consistent, ChildlessAreTips
  <2>3. CASE h \notin Known(d)
    BY <1>1, <1>2, <1>3, <2>1, <2>3 DEF Consistent, ChildlessAreTips
  <2> QED
    BY <2>2, <2>3
<1> QED
  BY <1>4, <1>5 DEF Consistent, e

LEMMA UpdateStatusFacts ==
    ASSUME NEW d, IsDag(d), NEW h \in Hashes, NEW s \in BlockStatus
    PROVE  /\ IsDag(UpdateStatus(d, h, s))
           /\ Known(UpdateStatus(d, h, s)) = Known(d)
           /\ \A x \in Known(d) :
                UpdateStatus(d, h, s).blocks[x].number = d.blocks[x].number
           /\ Consistent(d) => Consistent(UpdateStatus(d, h, s))
<1> DEFINE e == UpdateStatus(d, h, s)
<1>1. e = [blocks |-> [x \in Known(d) |-> IF x = h THEN [d.blocks[x] EXCEPT !.status = s]
                                          ELSE d.blocks[x]],
           children |-> d.children, tips |-> d.tips]
  BY DagFacts DEF UpdateStatus, Known
<1> HIDE DEF e
<1>2. Known(e) = Known(d) /\ e.children = d.children /\ e.tips = d.tips
  BY <1>1 DEF Known
<1>3. \A x \in Known(d) : /\ e.blocks[x] \in DagBlock
                          /\ e.blocks[x].number = d.blocks[x].number
  BY <1>1, DagFacts DEF DagBlock
<1>4. e.blocks \in [Known(d) -> DagBlock]
  BY <1>1, <1>3
<1>5. IsDag(e)
  BY <1>1, <1>2, <1>4, DagFacts DEF IsDag
<1>6. Consistent(d) => Consistent(e)
  BY <1>2 DEF Consistent, ChildrenMirrorParents, ChildlessAreTips
<1> QED
  BY <1>2, <1>3, <1>5, <1>6 DEF e

LEMMA SortingLength ==
    ASSUME NEW blocks, DOMAIN blocks \subseteq Hashes, NEW rows \in Sortings(blocks)
    PROVE  /\ rows \in Seq(Hashes)
           /\ Len(rows) = Cardinality(DOMAIN blocks)
<1>1. Cardinality(DOMAIN blocks) \in Nat
  BY HashesAssumption, FS_Subset, FS_CardinalityType
<1>2. rows \in [1..Cardinality(DOMAIN blocks) -> Hashes]
  BY DEF Sortings
<1> QED
  BY <1>1, <1>2

\* A status does not change the order.
LEMMA SortingsDependOnNumbers ==
    ASSUME NEW f, NEW g, DOMAIN f = DOMAIN g,
           \A x \in DOMAIN f : f[x].number = g[x].number
    PROVE  Sortings(f) \subseteq Sortings(g)
BY DEF Sortings

LEMMA MoreBlocks ==
    ASSUME NEW S \in SUBSET Hashes, NEW h \in Hashes
    PROVE  /\ Cardinality(S) \in Nat /\ Cardinality(S \cup {h}) \in Nat
           /\ Cardinality(S) <= Cardinality(S \cup {h})
           /\ 1 <= Cardinality(S \cup {h})
<1>1. IsFiniteSet(S) /\ IsFiniteSet(S \cup {h}) /\ IsFiniteSet({h})
  BY HashesAssumption, FS_Subset
<1>2. Cardinality({h}) = 1
  BY FS_Singleton
<1> QED
  BY <1>1, <1>2, FS_Subset, FS_CardinalityType

-----------------------------------------------------------------------------
(* Steps that do not touch the view *)

ViewInv ==
    /\ NothingShownBeforeStart
    /\ RowsMatchBlocks
    /\ SelectionExists
    /\ SelectionIsVisible
    /\ GraphIsConsistent

Background ==
    \/ \E h \in Hashes : Advance(h)
    \/ Connect \/ Disconnect \/ StreamFails \/ NeverAnswered
    \/ Listener

LEMMA BackgroundView == ViewInv /\ Background => ViewInv'
<1> SUFFICES ASSUME ViewInv, Background PROVE ViewInv'
  OBVIOUS
<1>1. UNCHANGED <<phase, dag, graph_rows, selected_index, scroll_offset, follow_head,
                  show_details, height>>
  BY DEF Background, Advance, Connect, Disconnect, StreamFails, NeverAnswered, Listener, ReadEvent,
         FetchFinds, FetchMisses, Send, viewVars, cursorVars
<1> QED
  BY <1>1 DEF ViewInv, NothingShownBeforeStart, RowsMatchBlocks, SelectionExists,
              SelectionIsVisible, GraphIsConsistent

LEMMA EventTypes ==
    /\ \A a \in Announcements : Unenriched(a) \in DagEvents
    /\ \A a \in Announcements : Enriched(a) \in DagEvents
    /\ Failure \in DagEvents
<1>1. ASSUME NEW a \in Announcements PROVE a.hash \in Hashes /\ a.status \in BlockStatus
  BY DEF Announcements
<1>2. ASSUME NEW h \in Hashes, NEW s \in BlockStatus
      PROVE  /\ [number |-> NumberOf[h], status |-> s] \in DagBlock
             /\ [number |-> Unknown, status |-> s] \in DagBlock
  BY NumbersAssumption DEF DagBlock
<1>3. Created \in BlockStatus
  BY DEF BlockStatus, Created, Finalized
<1>4. ASSUME NEW a \in Announcements PROVE Enriched(a) \in DagEvents
  BY <1>1, <1>2 DEF Enriched, BlockCreated, DagEvents
<1>5. ASSUME NEW a \in Announcements PROVE Unenriched(a) \in DagEvents
  BY <1>1, <1>2, <1>3 DEF Unenriched, BlockCreated, StatusOnly, DagEvents
<1> QED
  BY <1>4, <1>5 DEF DagEvents

LEMMA BackgroundTyped == TypeOK /\ ChannelIsBounded /\ Background =>
                            TypeOK' /\ ChannelIsBounded'
<1> SUFFICES ASSUME TypeOK, ChannelIsBounded, Background PROVE TypeOK' /\ ChannelIsBounded'
  OBVIOUS
<1>1. ASSUME NEW h \in Hashes, Advance(h) PROVE TypeOK' /\ ChannelIsBounded'
  <2>1. PICK s \in BlockStatus :
          /\ stage' = [stage EXCEPT ![h] = s]
          /\ \/ stream' = stream
             \/ stream' = Append(stream, [kind |-> "announced", hash |-> h, status |-> s])
    BY <1>1 DEF Advance
  <2>2. [kind |-> "announced", hash |-> h, status |-> s] \in Announcements
    BY DEF Announcements
  <2>3. stream' \in Seq(Announcements)
    <3>1. stream \in Seq(Announcements)
      BY DEF TypeOK
    <3>2. ASSUME NEW a \in Announcements PROVE Append(stream, a) \in Seq(Announcements)
      BY <3>1, AppendProperties
    <3> QED
      BY <2>1, <2>2, <3>1, <3>2
  <2>4. stage' \in [Hashes -> 0..Finalized]
    BY <2>1 DEF TypeOK, BlockStatus, Created, Finalized
  <2>5. UNCHANGED <<ws, in_hand, attempt, channel, to_load, phase, dag, graph_rows,
                    selected_index, scroll_offset, follow_head, show_details, height>>
    BY <1>1 DEF Advance, wsVars, viewVars, cursorVars
  <2> QED
    BY <2>3, <2>4, <2>5 DEF TypeOK, ChannelIsBounded
<1>2. CASE Connect \/ Disconnect \/ StreamFails
  <2>1. stream' \in Seq(Announcements)
    <3>1. stream \in Seq(Announcements) /\ <<>> \in Seq(Announcements)
      BY DEF TypeOK
    <3>2. stream' = stream \/ stream' = <<>>
      BY <1>2 DEF Connect, Disconnect, StreamFails
    <3> QED
      BY <3>1, <3>2
  <2>2. /\ ws' \in {"reading", "closed", "failing"}
        /\ ws' = "failing" => in_hand' \in DagEvents
    BY <1>2, EventTypes DEF Connect, Disconnect, StreamFails
  <2>3. UNCHANGED <<stage, attempt, channel, to_load, phase, dag, graph_rows,
                    selected_index, scroll_offset, follow_head, show_details, height>>
    BY <1>2 DEF Connect, Disconnect, StreamFails, nodeVars, viewVars, cursorVars
  <2> QED
    BY <2>1, <2>2, <2>3 DEF TypeOK, ChannelIsBounded
<1>3. CASE ReadEvent
  <2>1. stream' \in Seq(Announcements) /\ in_hand' \in Announcements
    BY <1>3 DEF TypeOK, ReadEvent
  <2> QED
    BY <1>3, <2>1, AttemptsAssumption
       DEF TypeOK, ChannelIsBounded, ReadEvent, nodeVars, viewVars, cursorVars
<1>4. CASE FetchFinds
  <2>1. in_hand' \in DagEvents
    BY <1>4, EventTypes DEF TypeOK, FetchFinds
  <2> QED
    BY <1>4, <2>1 DEF TypeOK, ChannelIsBounded, FetchFinds, nodeVars, viewVars, cursorVars
<1>5. CASE FetchMisses
  <2>1. attempt' \in 0..FetchAttempts
    BY <1>5, AttemptsAssumption DEF TypeOK, FetchMisses
  <2>2. \/ in_hand' = in_hand /\ ws' = ws /\ attempt' < FetchAttempts
        \/ in_hand' \in DagEvents /\ ws' = "sending"
    BY <1>5, EventTypes DEF TypeOK, FetchMisses
  <2> QED
    BY <1>5, <2>1, <2>2 DEF TypeOK, ChannelIsBounded, FetchMisses, nodeVars, viewVars, cursorVars
<1>6. CASE Send
  <2>1. channel' \in Seq(DagEvents) /\ Len(channel') = Len(channel) + 1
    BY <1>6, AppendProperties DEF TypeOK, Send
  <2>2. ChannelIsBounded'
    BY <1>6, <2>1, CapacityAssumption DEF ChannelIsBounded, Send, TypeOK
  <2> QED
    BY <1>6, <2>1, <2>2, AttemptsAssumption
       DEF TypeOK, Send, nodeVars, viewVars, cursorVars
<1>7. CASE NeverAnswered
  BY <1>7 DEF TypeOK, ChannelIsBounded, NeverAnswered, nodeVars, viewVars, cursorVars
<1> QED
  BY <1>1, <1>2, <1>3, <1>4, <1>5, <1>6, <1>7 DEF Background, Listener

-----------------------------------------------------------------------------
(* The start *)

StartUp == FetchInitialBlocks \/ FetchInitialFails \/ LoadBlock \/ StartApp

LEMMA StartUpStep ==
    TypeOK /\ ChannelIsBounded /\ ViewInv /\ StartUp =>
        TypeOK' /\ ChannelIsBounded' /\ ViewInv'
<1> SUFFICES ASSUME TypeOK, ChannelIsBounded, ViewInv, StartUp
             PROVE  TypeOK' /\ ChannelIsBounded' /\ ViewInv'
  OBVIOUS
<1>1. /\ phase \in {"fetch", "load"} /\ graph_rows = <<>> /\ selected_index = 0
      /\ Consistent(dag)
      /\ UNCHANGED <<stage, stream, in_hand, attempt, channel, selected_index,
                     scroll_offset, follow_head, show_details, height>>
  BY DEF StartUp, FetchInitialBlocks, FetchInitialFails, LoadBlock, StartApp, ViewInv,
         NothingShownBeforeStart, GraphIsConsistent, Consistent, nodeVars, wsVars, viewVars,
         cursorVars
<1>2. ChannelIsBounded'
  BY <1>1 DEF ChannelIsBounded
<1>3. CASE FetchInitialBlocks
  <2>1. \A h \in DOMAIN to_load' : h \in Hashes /\ to_load'[h] \in BlockStatus
    BY <1>3 DEF FetchInitialBlocks, TypeOK, BlockStatus, Created, Added, Finalized
  <2>2. UNCHANGED <<ws, dag, graph_rows>> /\ phase' = "load"
    BY <1>3 DEF FetchInitialBlocks, wsVars
  <2>3. TypeOK'
    BY <1>1, <2>1, <2>2 DEF TypeOK
  <2>4. ViewInv'
    BY <1>1, <2>2 DEF ViewInv, NothingShownBeforeStart, RowsMatchBlocks, SelectionExists,
       SelectionIsVisible, GraphIsConsistent
  <2> QED
    BY <1>2, <2>3, <2>4
<1>4. CASE FetchInitialFails
  <2>1. UNCHANGED <<ws, dag, graph_rows, to_load>> /\ phase' = "done"
    BY <1>4 DEF FetchInitialFails, wsVars
  <2>2. TypeOK'
    BY <1>1, <2>1 DEF TypeOK
  <2>3. ViewInv'
    BY <1>1, <2>1 DEF ViewInv, NothingShownBeforeStart, RowsMatchBlocks, SelectionExists,
       SelectionIsVisible, GraphIsConsistent
  <2> QED
    BY <1>2, <2>2, <2>3
<1>5. CASE LoadBlock
  <2>1. PICK h \in DOMAIN to_load :
          /\ dag' = AddBlock(dag, h, [number |-> NumberOf[h], status |-> to_load[h]])
          /\ to_load' = [x \in DOMAIN to_load \ {h} |-> to_load[x]]
    BY <1>5 DEF LoadBlock
  <2>2. h \in Hashes /\ [number |-> NumberOf[h], status |-> to_load[h]] \in DagBlock
    BY NumbersAssumption DEF TypeOK, DagBlock
  <2>3. IsDag(dag)
    BY DEF TypeOK
  <2>4. IsDag(dag)' /\ Consistent(dag')
    BY <1>1, <2>1, <2>2, <2>3, AddBlockFacts, AddBlockConsistent
  <2>5. UNCHANGED <<ws, graph_rows, phase>> /\ phase = "load"
    BY <1>5 DEF LoadBlock, wsVars
  <2>6. \A x \in DOMAIN to_load' : x \in Hashes /\ to_load'[x] \in BlockStatus
    BY <2>1 DEF TypeOK
  <2>7. TypeOK'
    BY <1>1, <2>4, <2>5, <2>6 DEF TypeOK
  <2>8. ViewInv'
    BY <1>1, <2>4, <2>5 DEF ViewInv, NothingShownBeforeStart, RowsMatchBlocks,
       SelectionExists, SelectionIsVisible, GraphIsConsistent, Consistent
  <2> QED
    BY <1>2, <2>7, <2>8
<1>6. CASE StartApp
  <2>1. /\ graph_rows' \in Sortings(dag.blocks) /\ ws' \in {"connecting", "none"}
        /\ phase' = "drain" /\ UNCHANGED <<dag, to_load>>
    BY <1>6 DEF StartApp
  <2>2. DOMAIN dag.blocks \subseteq Hashes
    BY DagFacts DEF TypeOK, Known
  <2>3. graph_rows' \in Seq(Hashes) /\ Len(graph_rows') \in Nat
    BY <2>1, <2>2, SortingLength
  <2>4. TypeOK'
    BY <1>1, <2>1, <2>3 DEF TypeOK
  <2>5. SelectionExists'
    BY <1>1, <2>3 DEF SelectionExists
  <2>6. ViewInv'
    BY <1>1, <2>1, <2>5 DEF ViewInv, NothingShownBeforeStart, RowsMatchBlocks,
       SelectionIsVisible, GraphIsConsistent, Consistent
  <2> QED
    BY <1>2, <2>4, <2>6
<1> QED
  BY <1>3, <1>4, <1>5, <1>6 DEF StartUp

-----------------------------------------------------------------------------
(* The application's loop *)

LEMMA HandleDagEventStep ==
    TypeOK /\ ChannelIsBounded /\ ViewInv /\ HandleDagEvent =>
        TypeOK' /\ ChannelIsBounded' /\ ViewInv'
<1> SUFFICES ASSUME TypeOK, ChannelIsBounded, ViewInv, HandleDagEvent
             PROVE  TypeOK' /\ ChannelIsBounded' /\ ViewInv'
  OBVIOUS
<1>0. PICK e : e = Head(channel)
  OBVIOUS
<1>1. /\ e \in DagEvents
      /\ channel' \in Seq(DagEvents) /\ Len(channel') <= Len(channel)
      /\ phase = "drain" /\ IsDag(dag) /\ Consistent(dag)
      /\ graph_rows \in Sortings(dag.blocks)
      /\ UNCHANGED <<stage, stream, ws, in_hand, attempt, to_load, phase, follow_head,
                     show_details, height>>
  BY <1>0 DEF HandleDagEvent, TypeOK, ViewInv, RowsMatchBlocks, GraphIsConsistent, Consistent,
     nodeVars, wsVars
<1>2. DOMAIN dag.blocks \subseteq Hashes /\ DOMAIN dag.blocks = Known(dag)
  BY <1>1, DagFacts DEF Known
<1>3. Len(graph_rows) = Cardinality(Known(dag))
  BY <1>1, <1>2, SortingLength
<1>4. \/ selected_index' = selected_index
      \/ selected_index' = 0 /\ e.kind = "block"
  BY <1>0 DEF HandleDagEvent
<1>5. scroll_offset' \in Nat
  BY DEF HandleDagEvent, TypeOK
<1>6. /\ IsDag(dag)' /\ Consistent(dag') /\ graph_rows' \in Sortings(dag'.blocks)
      /\ graph_rows' \in Seq(Hashes)
      /\ Len(graph_rows') >= Len(graph_rows)
      /\ e.kind = "block" => Len(graph_rows') > 0
  <2>1. CASE e.kind = "block"
    <3>1. e.hash \in Hashes /\ e.block \in DagBlock
      BY <1>1, <2>1 DEF DagEvents, Failure
    <3>2. dag' = AddBlock(dag, e.hash, e.block) /\ graph_rows' \in Sortings(dag'.blocks)
      BY <1>0, <2>1 DEF HandleDagEvent
    <3>3. IsDag(dag)' /\ Consistent(dag') /\ Known(dag') = Known(dag) \cup {e.hash}
      BY <1>1, <3>1, <3>2, AddBlockFacts, AddBlockConsistent
    <3>4. DOMAIN dag'.blocks \subseteq Hashes /\ DOMAIN dag'.blocks = Known(dag')
      BY <3>3, DagFacts DEF Known
    <3>5. graph_rows' \in Seq(Hashes) /\ Len(graph_rows') = Cardinality(Known(dag'))
      BY <3>2, <3>4, SortingLength
    <3> QED
      BY <1>2, <1>3, <3>1, <3>2, <3>3, <3>5, MoreBlocks
  <2>2. CASE e.kind = "status"
    <3>1. e.hash \in Hashes /\ e.status \in BlockStatus
      BY <1>1, <2>2 DEF DagEvents, Failure
    <3>2. dag' = UpdateStatus(dag, e.hash, e.status) /\ graph_rows' = graph_rows
      BY <1>0, <2>2 DEF HandleDagEvent
    <3>3. /\ IsDag(dag)' /\ Consistent(dag')
          /\ DOMAIN dag'.blocks = DOMAIN dag.blocks
          /\ \A x \in DOMAIN dag.blocks : dag'.blocks[x].number = dag.blocks[x].number
      BY <1>1, <1>2, <3>1, <3>2, UpdateStatusFacts DEF Known
    <3>4. graph_rows' \in Sortings(dag'.blocks)
      BY <1>1, <3>2, <3>3, SortingsDependOnNumbers
    <3>5. graph_rows' \in Seq(Hashes) /\ Len(graph_rows') >= Len(graph_rows)
      BY <3>2 DEF TypeOK
    <3> QED
      BY <2>2, <3>3, <3>4, <3>5
  <2>3. CASE e.kind = "error"
    <3>1. dag' = dag /\ graph_rows' = graph_rows
      BY <1>0, <2>3 DEF HandleDagEvent
    <3>2. graph_rows' \in Seq(Hashes) /\ Len(graph_rows') >= Len(graph_rows)
      BY <3>1 DEF TypeOK
    <3> QED
      BY <1>1, <2>3, <3>1, <3>2
  <2> QED
    BY <1>1, <2>1, <2>2, <2>3 DEF DagEvents, Failure
<1>7. selected_index' \in Nat /\ SelectionExists'
  <2>1. Len(graph_rows) \in Nat /\ Len(graph_rows') \in Nat
    BY <1>6 DEF TypeOK
  <2>2. selected_index < Len(graph_rows) \/ (selected_index = 0 /\ Len(graph_rows) = 0)
    BY DEF ViewInv, SelectionExists
  <2>3. Len(graph_rows') = 0 => graph_rows' = <<>>
    BY <1>6
  <2> QED
    BY <1>4, <1>6, <2>1, <2>2, <2>3 DEF SelectionExists, TypeOK
<1>8. TypeOK'
  BY <1>1, <1>5, <1>6, <1>7 DEF TypeOK
<1>9. ChannelIsBounded'
  BY <1>1, CapacityAssumption DEF ChannelIsBounded, TypeOK
<1>10. ViewInv'
  BY <1>1, <1>6, <1>7 DEF ViewInv, NothingShownBeforeStart, RowsMatchBlocks,
     SelectionIsVisible, GraphIsConsistent, Consistent
<1> QED
  BY <1>8, <1>9, <1>10

LEMMA EndDrainStep ==
    TypeOK /\ ChannelIsBounded /\ ViewInv /\ EndDrain =>
        TypeOK' /\ ChannelIsBounded' /\ ViewInv'
<1> SUFFICES ASSUME TypeOK, ChannelIsBounded, ViewInv, EndDrain
             PROVE  TypeOK' /\ ChannelIsBounded' /\ ViewInv'
  OBVIOUS
<1>1. /\ phase = "drain" /\ phase' = "draw"
      /\ UNCHANGED <<stage, stream, ws, in_hand, attempt, channel, to_load, dag, graph_rows,
                     selected_index, scroll_offset, follow_head, show_details, height>>
  BY DEF EndDrain, nodeVars, wsVars, viewVars, cursorVars
<1>2. TypeOK' /\ ChannelIsBounded'
  BY <1>1 DEF TypeOK, ChannelIsBounded
<1>3. ViewInv'
  BY <1>1 DEF ViewInv, NothingShownBeforeStart, RowsMatchBlocks, SelectionExists,
     SelectionIsVisible, GraphIsConsistent
<1> QED
  BY <1>2, <1>3

\* ScrollTo brings the row into a list that has at least one line.
LEMMA ScrollToShows ==
    ASSUME NEW i \in Nat, NEW scroll \in Nat, NEW lines \in Nat
    PROVE  /\ ScrollTo(i, scroll, lines) \in Nat
           /\ lines > 0 => /\ ScrollTo(i, scroll, lines) <= i
                           /\ i < ScrollTo(i, scroll, lines) + lines
BY DEF ScrollTo

LEMMA DrawStep ==
    TypeOK /\ ChannelIsBounded /\ ViewInv /\ Draw =>
        TypeOK' /\ ChannelIsBounded' /\ ViewInv'
<1> SUFFICES ASSUME TypeOK, ChannelIsBounded, ViewInv, Draw
             PROVE  TypeOK' /\ ChannelIsBounded' /\ ViewInv'
  OBVIOUS
<1>1. /\ phase = "draw" /\ phase' = "key"
      /\ UNCHANGED <<stage, stream, ws, in_hand, attempt, channel, to_load, dag, graph_rows,
                     selected_index, follow_head, show_details>>
  BY DEF Draw, nodeVars, wsVars
<1>2. selected_index \in Nat /\ scroll_offset \in Nat
  BY DEF TypeOK
<1>3. height' \in Nat /\ scroll_offset' \in Nat /\ SelectionIsVisible'
  <2>1. CASE show_details
    BY <1>2, <2>1 DEF Draw, SelectionIsVisible
  <2>2. CASE ~show_details
    <3>1. /\ height' \in Nat
          /\ scroll_offset' = ScrollTo(selected_index, scroll_offset, height')
      BY <2>2, ScreenAssumption DEF Draw
    <3> QED
      BY <1>1, <1>2, <3>1, ScrollToShows DEF SelectionIsVisible
  <2> QED
    BY <2>1, <2>2
<1>4. TypeOK' /\ ChannelIsBounded'
  BY <1>1, <1>3 DEF TypeOK, ChannelIsBounded
<1>5. ViewInv'
  BY <1>1, <1>3 DEF ViewInv, NothingShownBeforeStart, RowsMatchBlocks, SelectionExists,
     GraphIsConsistent
<1> QED
  BY <1>4, <1>5

\* Every key leaves the graph alone and the cursor on a row.
LEMMA KeyFacts ==
    ASSUME TypeOK, ViewInv, Key
    PROVE  /\ UNCHANGED <<stage, stream, ws, in_hand, attempt, channel, to_load, dag,
                          graph_rows>>
           /\ phase = "key" /\ phase' \in {"drain", "done"} /\ height' = 0
           /\ selected_index' \in Nat /\ scroll_offset' \in Nat
           /\ show_details' \in BOOLEAN /\ follow_head' \in BOOLEAN
           /\ SelectionExists'
<1>1. /\ selected_index \in Nat /\ scroll_offset \in Nat
      /\ show_details \in BOOLEAN /\ follow_head \in BOOLEAN
      /\ graph_rows \in Seq(Hashes) /\ Len(graph_rows) \in Nat
      /\ Page \in Nat /\ AssumedHeight \in Nat
  BY ScreenAssumption DEF TypeOK
<1>2. selected_index < Len(graph_rows) \/ (selected_index = 0 /\ graph_rows = <<>>)
  BY DEF ViewInv, SelectionExists
<1>3. HandleKey
  BY DEF Key, Up, Down, PageUp, PageDown, Top, Bottom, Enter, Quit, NoKey, MoveTo
<1>4. /\ UNCHANGED <<stage, stream, ws, in_hand, attempt, channel, to_load, dag, graph_rows>>
      /\ phase = "key" /\ height' = 0
  BY <1>3 DEF HandleKey, nodeVars, wsVars
<1>5. ASSUME NEW i \in Nat, MoveTo(i)
      PROVE  /\ phase' = "drain" /\ selected_index' = i /\ scroll_offset' \in Nat
             /\ show_details' = show_details
  BY <1>1, <1>5, ScrollToShows DEF MoveTo
<1>6. /\ LastRow \in Nat
      /\ LastRow < Len(graph_rows) \/ (LastRow = 0 /\ graph_rows = <<>>)
  BY <1>1 DEF LastRow
<1>7. CASE Up
  <2>1. selected_index - 1 \in Nat /\ MoveTo(selected_index - 1)
    BY <1>1, <1>7 DEF Up
  <2>2. follow_head' \in BOOLEAN
    BY <1>7 DEF Up, AtTop
  <2> QED
    BY <1>1, <1>2, <1>4, <1>5, <1>7, <2>1, <2>2 DEF SelectionExists, Up
<1>8. CASE Down
  <2>1. /\ selected_index + 1 \in Nat /\ MoveTo(selected_index + 1)
        /\ selected_index + 1 < Len(graph_rows) /\ follow_head' = FALSE
    BY <1>1, <1>8 DEF Down
  <2> QED
    BY <1>1, <1>4, <1>5, <2>1 DEF SelectionExists
<1>9. CASE PageUp
  <2>1. PICK i \in Nat : MoveTo(i) /\ i <= selected_index
    BY <1>1, <1>9 DEF PageUp
  <2>2. follow_head' \in BOOLEAN
    BY <1>9 DEF PageUp, AtTop
  <2>3. i < Len(graph_rows) \/ (i = 0 /\ graph_rows = <<>>)
    BY <1>1, <1>2, <2>1
  <2> QED
    BY <1>1, <1>4, <1>5, <2>1, <2>2, <2>3 DEF SelectionExists
<1>10. CASE PageDown
  <2>1. PICK i \in Nat : MoveTo(i) /\ i <= LastRow
    BY <1>1, <1>6, <1>10 DEF PageDown
  <2>2. i < Len(graph_rows) \/ (i = 0 /\ graph_rows = <<>>)
    BY <1>1, <1>6, <2>1
  <2>3. follow_head' = FALSE
    BY <1>10 DEF PageDown
  <2> QED
    BY <1>1, <1>4, <1>5, <2>1, <2>2, <2>3 DEF SelectionExists
<1>11. CASE Top
  <2>1. /\ selected_index' = 0 /\ scroll_offset' = 0 /\ follow_head' = TRUE
        /\ show_details' = show_details /\ phase' = "drain"
    BY <1>11 DEF Top
  <2>2. SelectionExists'
    BY <1>1, <1>2, <1>4, <2>1 DEF SelectionExists
  <2> QED
    BY <1>1, <1>4, <2>1, <2>2
<1>12. CASE Bottom
  <2>1. MoveTo(LastRow) /\ follow_head' = follow_head
    BY <1>12 DEF Bottom
  <2> QED
    BY <1>1, <1>4, <1>5, <1>6, <2>1 DEF SelectionExists
<1>13. CASE Enter \/ Quit \/ NoKey
  <2>1. /\ selected_index' = selected_index /\ scroll_offset' = scroll_offset
        /\ follow_head' = follow_head /\ phase' \in {"drain", "done"}
        /\ show_details' \in BOOLEAN
    BY <1>1, <1>13 DEF Enter, Quit, NoKey, cursorVars
  <2> QED
    BY <1>1, <1>2, <1>4, <2>1 DEF SelectionExists
<1> QED
  BY <1>7, <1>8, <1>9, <1>10, <1>11, <1>12, <1>13 DEF Key

LEMMA KeyStep ==
    TypeOK /\ ChannelIsBounded /\ ViewInv /\ Key =>
        TypeOK' /\ ChannelIsBounded' /\ ViewInv'
<1> SUFFICES ASSUME TypeOK, ChannelIsBounded, ViewInv, Key
             PROVE  TypeOK' /\ ChannelIsBounded' /\ ViewInv'
  OBVIOUS
<1>1. TypeOK' /\ ChannelIsBounded'
  BY KeyFacts DEF TypeOK, ChannelIsBounded
<1>2. ViewInv'
  BY KeyFacts DEF ViewInv, NothingShownBeforeStart, RowsMatchBlocks, SelectionIsVisible,
     GraphIsConsistent
<1> QED
  BY <1>1, <1>2

-----------------------------------------------------------------------------
(* News of a block on its way from the node to the graph *)

LEMMA NewsTypes ==
    ASSUME TypeOK
    PROVE  /\ \A i \in DOMAIN channel : channel[i] \in DagEvents
           /\ \A i \in DOMAIN stream : stream[i] \in Announcements
           /\ Working => in_hand \in Announcements \cup DagEvents
           /\ \A e \in OnTheWay : e \in Announcements \cup DagEvents
BY DEF TypeOK, Working, OnTheWay

LEMMA StatusTypes ==
    ASSUME NEW e \in Announcements \cup DagEvents, NEW h \in Hashes, Concerns(e, h)
    PROVE  StatusOf(e) \in 1..3
BY DEF Announcements, DagEvents, Concerns, StatusOf, Failure, DagBlock, BlockStatus, Created,
       Finalized

LEMMA StageTypes ==
    ASSUME TypeOK, NEW h \in Hashes
    PROVE  /\ stage[h] \in 0..3
           /\ h \in Known(dag) => /\ dag.blocks[h] \in DagBlock
                                  /\ dag.blocks[h].status \in 1..3
<1>1. dag.blocks \in [Known(dag) -> DagBlock]
  BY DEF TypeOK, IsDag
<1> QED
  BY <1>1 DEF TypeOK, Finalized, DagBlock, BlockStatus, Created

\* Where the news is does not matter to what its invariants say beyond order.
LEMMA NewsCarriesOver ==
    ASSUME NewsInv, UNCHANGED <<stage, missed, dag, to_load, phase>>, OnTheWay' = OnTheWay,
           NewsIsOrdered', LoadComesFirst',
           ws' \notin {"failing", "closed"} => ws \notin {"failing", "closed"}
    PROVE  NewsInv'
<1>1. NewsIsNew'
  BY DEF NewsInv, NewsIsNew
<1>2. NewsIsComplete'
  BY DEF NewsInv, NewsIsComplete
<1>3. GraphIsBehind'
  BY DEF NewsInv, GraphIsBehind
<1> QED
  BY <1>1, <1>2, <1>3 DEF NewsInv

LEMMA AdvanceNews ==
    ASSUME TypeOK, NewsInv, NEW h \in Hashes, Advance(h)
    PROVE  NewsInv'
<1>1. PICK s \in BlockStatus :
        /\ s = stage[h] + 1 \/ (stage[h] = 0 /\ s = Added)
        /\ stage' = [stage EXCEPT ![h] = s]
        /\ IF Connected
           THEN /\ stream' = Append(stream, [kind |-> "announced", hash |-> h, status |-> s])
                /\ missed' = missed \ {h}
           ELSE stream' = stream /\ missed' = missed \cup {h}
  BY DEF Advance
<1>2. UNCHANGED <<ws, in_hand, channel, to_load, phase, dag>>
  BY DEF Advance, wsVars
<1>3. s \in 1..3 /\ stage[h] < s /\ stage'[h] = s
  BY <1>1, StageTypes DEF TypeOK, BlockStatus, Created, Added, Finalized
<1>4. \A x \in Hashes : /\ stage[x] <= stage'[x] /\ stage[x] \in 0..3 /\ stage'[x] \in 0..3
                        /\ x # h => stage'[x] = stage[x]
  BY <1>1, <1>3, StageTypes DEF TypeOK
<1>5. GraphIsBehind'
  <2> SUFFICES ASSUME NEW x \in Known(dag)
               PROVE  /\ dag.blocks[x].status <= stage'[x]
                      /\ dag.blocks[x].number \in {Unknown, NumberOf[x]}
    BY <1>2 DEF GraphIsBehind
  <2>1. x \in Hashes
    BY DagFacts DEF TypeOK
  <2>2. dag.blocks[x].status <= stage[x] /\ dag.blocks[x].status \in 1..3
    BY <2>1, StageTypes DEF NewsInv, GraphIsBehind
  <2> QED
    BY <1>4, <2>1, <2>2 DEF NewsInv, GraphIsBehind
<1>6. CASE Connected
  <2> DEFINE a == [kind |-> "announced", hash |-> h, status |-> s]
  <2>1. stream' = Append(stream, a) /\ missed' = missed \ {h}
    BY <1>1, <1>6
  <2>2. Concerns(a, h) /\ StatusOf(a) = s /\ a.kind # "block"
        /\ \A x \in Hashes : Concerns(a, x) => x = h
    BY DEF Concerns, StatusOf
  <2> HIDE DEF a
  <2>3. stream \in Seq(Announcements) /\ Len(stream) \in Nat
    BY DEF TypeOK
  <2>4. /\ Len(stream') = Len(stream) + 1
        /\ DOMAIN stream' = DOMAIN stream \cup {Len(stream) + 1}
        /\ \A i \in DOMAIN stream : stream'[i] = stream[i]
        /\ stream'[Len(stream) + 1] = a
        /\ \A i \in DOMAIN stream : i < Len(stream) + 1 /\ i \in Int
    BY <2>1, <2>3
  <2>5. Working' = Working /\ OnTheWay' = OnTheWay \cup {a}
    <3>1. {stream'[i] : i \in DOMAIN stream'} = {stream[i] : i \in DOMAIN stream} \cup {a}
      BY <2>4
    <3> QED
      BY <1>2, <3>1 DEF OnTheWay, Working
  <2>6. \A e \in OnTheWay : Precedes(e, a)
    <3> SUFFICES ASSUME NEW e \in OnTheWay, NEW x \in Hashes, Concerns(e, x), Concerns(a, x)
                 PROVE  StatusOf(e) < StatusOf(a)
      BY DEF Precedes
    <3>1. StatusOf(e) <= stage[x] /\ StatusOf(e) \in 1..3
      BY NewsTypes, StatusTypes DEF NewsInv, NewsIsNew
    <3> QED
      BY <1>3, <1>4, <2>2, <3>1
  <2>7. NewsIsOrdered'
    <3>1. \A i \in DOMAIN stream : Precedes(stream[i], a)
      BY <2>6 DEF OnTheWay
    <3>2. \A i \in DOMAIN channel : Precedes(channel[i], a)
      BY <2>6 DEF OnTheWay
    <3>3. Working => Precedes(in_hand, a)
      BY <2>6 DEF OnTheWay
    <3>4. \A i, j \in DOMAIN stream' : i < j => Precedes(stream'[i], stream'[j])
      BY <2>4, <3>1 DEF NewsInv, NewsIsOrdered
    <3>5. \A i \in DOMAIN channel', j \in DOMAIN stream' : Precedes(channel'[i], stream'[j])
      BY <1>2, <2>4, <3>2 DEF NewsInv, NewsIsOrdered
    <3>6. Working' => \A j \in DOMAIN stream' : Precedes(in_hand', stream'[j])
      BY <1>2, <2>4, <2>5, <3>3 DEF NewsInv, NewsIsOrdered
    <3> QED
      BY <1>2, <2>5, <3>4, <3>5, <3>6 DEF NewsInv, NewsIsOrdered
  <2>8. NewsIsNew'
    <3> SUFFICES ASSUME NEW e \in OnTheWay', NEW x \in Hashes, Concerns(e, x)
                 PROVE  /\ StatusOf(e) <= stage'[x]
                        /\ x \in Known(dag') => dag'.blocks[x].status < StatusOf(e)
                        /\ e.kind = "block" =>
                              \/ e.block.number = NumberOf[x]
                              \/ e.block.number = Unknown /\ e.block.status = Created
      BY DEF NewsIsNew
    <3>1. CASE e \in OnTheWay
      <4>1. StatusOf(e) <= stage[x] /\ StatusOf(e) \in 1..3
        BY <3>1, NewsTypes, StatusTypes DEF NewsInv, NewsIsNew
      <4>2. StatusOf(e) <= stage'[x]
        BY <1>4, <4>1
      <4> QED
        BY <1>2, <3>1, <4>2 DEF NewsInv, NewsIsNew
    <3>2. CASE e = a
      <4>1. x \in Known(dag) => dag.blocks[x].status <= stage[x] /\ dag.blocks[x].status \in 1..3
        BY StageTypes DEF NewsInv, GraphIsBehind
      <4> QED
        BY <1>2, <1>3, <1>4, <2>2, <3>2, <4>1
    <3> QED
      BY <2>5, <3>1, <3>2
  <2>9. NewsIsComplete'
    <3> SUFFICES ASSUME ws \notin {"failing", "closed"}, NEW x \in Hashes, x \notin missed'
                 PROVE  IF \E e \in OnTheWay' : Concerns(e, x)
                        THEN \E e \in OnTheWay' : Concerns(e, x) /\ StatusOf(e) = stage'[x]
                        ELSE x \in Known(dag') => dag'.blocks[x].status = stage'[x]
      BY <1>2 DEF NewsIsComplete
    <3>1. CASE x = h
      BY <1>3, <2>2, <2>5, <3>1
    <3>2. CASE x # h
      <4>1. x \notin missed /\ stage'[x] = stage[x]
        BY <1>4, <2>1, <3>2
      <4>2. \A e \in OnTheWay' : Concerns(e, x) => e \in OnTheWay
        BY <2>2, <2>5, <3>2
      <4> QED
        BY <1>2, <2>5, <4>1, <4>2 DEF NewsInv, NewsIsComplete
    <3> QED
      BY <3>1, <3>2
  <2>10. LoadComesFirst'
    <3>1. ws \in {"reading", "fetching", "stuck", "sending"}
      BY <1>6 DEF Connected
    <3>2. phase \notin {"fetch", "load"} /\ DOMAIN to_load = {}
      BY <3>1 DEF NewsInv, LoadComesFirst
    <3> QED
      BY <1>2, <3>1, <3>2 DEF LoadComesFirst
  <2> QED
    BY <1>5, <2>7, <2>8, <2>9, <2>10 DEF NewsInv
<1>7. CASE ~Connected
  <2>1. stream' = stream /\ missed' = missed \cup {h}
    BY <1>1, <1>7
  <2>2. OnTheWay' = OnTheWay /\ Working' = Working
    BY <1>2, <2>1 DEF OnTheWay, Working
  <2>3. NewsIsOrdered'
    BY <1>2, <2>1, <2>2 DEF NewsInv, NewsIsOrdered
  <2>4. NewsIsNew'
    <3> SUFFICES ASSUME NEW e \in OnTheWay, NEW x \in Hashes, Concerns(e, x)
                 PROVE  StatusOf(e) <= stage'[x]
      BY <1>2, <2>2 DEF NewsInv, NewsIsNew
    <3>1. StatusOf(e) <= stage[x] /\ StatusOf(e) \in 1..3
      BY NewsTypes, StatusTypes DEF NewsInv, NewsIsNew
    <3> QED
      BY <1>4, <3>1
  <2>5. NewsIsComplete'
    BY <1>2, <1>4, <2>1, <2>2 DEF NewsInv, NewsIsComplete
  <2>6. LoadComesFirst'
    <3>1. \A x \in DOMAIN to_load : x \in Hashes /\ to_load[x] \in 1..3
      BY DEF TypeOK, BlockStatus, Created, Finalized
    <3>2. \A x \in DOMAIN to_load : to_load[x] <= stage'[x]
      BY <1>4, <3>1 DEF NewsInv, LoadComesFirst
    <3> QED
      BY <1>2, <1>4, <2>1, <3>1, <3>2 DEF NewsInv, LoadComesFirst
  <2> QED
    BY <1>5, <2>3, <2>4, <2>5, <2>6 DEF NewsInv
<1> QED
  BY <1>6, <1>7

LEMMA StartUpNews ==
    ASSUME TypeOK, NewsInv, StartUp
    PROVE  NewsInv'
<1>1. ws = "none" /\ channel = <<>> /\ stream = <<>>
  BY DEF StartUp, FetchInitialBlocks, FetchInitialFails, LoadBlock, StartApp, NewsInv,
         LoadComesFirst
<1>2. UNCHANGED <<stage, channel, stream, in_hand>> /\ ws' \in {"none", "connecting"}
  BY <1>1 DEF StartUp, FetchInitialBlocks, FetchInitialFails, LoadBlock, StartApp, nodeVars,
              wsVars
<1>3. OnTheWay' = {}
  BY <1>1, <1>2 DEF OnTheWay, Working
<1>4. NewsIsOrdered' /\ NewsIsNew'
  BY <1>1, <1>2, <1>3 DEF NewsIsOrdered, NewsIsNew, Working
<1>5. OnTheWay = {}
  BY <1>1 DEF OnTheWay, Working
<1>6. CASE FetchInitialBlocks
  <2>1. /\ phase = "fetch" /\ Known(dag') = {}
        /\ \A h \in DOMAIN to_load' : to_load'[h] = stage[h] /\ h \in Hashes
        /\ phase' = "load" /\ ws' = "none"
    BY <1>1, <1>6 DEF FetchInitialBlocks, NewsInv, LoadComesFirst, wsVars
  <2>2. NewsIsComplete' /\ GraphIsBehind'
    BY <1>3, <2>1 DEF NewsIsComplete, GraphIsBehind
  <2>3. \A h \in DOMAIN to_load' : stage[h] <= stage[h]
    BY <2>1, StageTypes
  <2>4. LoadComesFirst'
    BY <1>1, <1>2, <2>1, <2>3 DEF LoadComesFirst
  <2> QED
    BY <1>4, <2>2, <2>4 DEF NewsInv
<1>7. CASE LoadBlock
  <2>1. PICK h \in DOMAIN to_load :
          /\ dag' = AddBlock(dag, h, [number |-> NumberOf[h], status |-> to_load[h]])
          /\ to_load' = [x \in DOMAIN to_load \ {h} |-> to_load[x]]
    BY <1>7 DEF LoadBlock
  <2>2. phase = "load" /\ UNCHANGED <<phase, missed, ws>>
    BY <1>7 DEF LoadBlock, nodeVars, wsVars
  <2>3. /\ h \in Hashes /\ h \notin Known(dag) /\ to_load[h] <= stage[h]
        /\ h \notin missed => to_load[h] = stage[h]
    BY DEF TypeOK, NewsInv, LoadComesFirst
  <2>4. /\ Known(dag') = Known(dag) \cup {h}
        /\ \A x \in Known(dag) : dag'.blocks[x] = dag.blocks[x]
        /\ dag'.blocks[h].status = to_load[h] /\ dag'.blocks[h].number = NumberOf[h]
    BY <2>1, <2>3 DEF AddBlock, Known
  <2>5. NewsIsComplete'
    BY <1>1, <1>2, <1>3, <1>5, <2>2, <2>3, <2>4 DEF NewsInv, NewsIsComplete
  <2>6. GraphIsBehind'
    BY <1>2, <2>3, <2>4 DEF NewsInv, GraphIsBehind
  <2>7. LoadComesFirst'
    BY <1>1, <1>2, <2>1, <2>2, <2>4 DEF NewsInv, LoadComesFirst
  <2> QED
    BY <1>4, <2>5, <2>6, <2>7 DEF NewsInv
<1>8. CASE FetchInitialFails \/ StartApp
  <2>1. UNCHANGED <<dag, to_load, missed>> /\ DOMAIN to_load = {}
        /\ phase' \in {"done", "drain"}
    BY <1>8 DEF FetchInitialFails, StartApp, nodeVars, NewsInv, LoadComesFirst
  <2>2. NewsIsComplete' /\ GraphIsBehind'
    BY <1>1, <1>2, <1>3, <1>5, <2>1 DEF NewsInv, NewsIsComplete, GraphIsBehind
  <2>3. LoadComesFirst'
    BY <1>1, <1>2, <2>1 DEF LoadComesFirst
  <2> QED
    BY <1>4, <2>2, <2>3 DEF NewsInv
<1> QED
  BY <1>6, <1>7, <1>8 DEF StartUp

\* The connection comes up, or ends and takes what was not yet read with it.
LEMMA ConnectionNews ==
    ASSUME TypeOK, NewsInv, Connect \/ Disconnect \/ StreamFails
    PROVE  NewsInv'
<1>1. /\ ws \in {"connecting", "reading"} /\ ws' \in {"reading", "closed", "failing"}
      /\ UNCHANGED <<stage, missed, channel, to_load, phase, dag>>
      /\ ws' = "reading" => UNCHANGED stream
      /\ ws' # "reading" => stream' = <<>>
      /\ ws' = "failing" => in_hand' = Failure
  BY DEF Connect, Disconnect, StreamFails, nodeVars
<1>2. phase \notin {"fetch", "load"} /\ DOMAIN to_load = {}
  BY <1>1 DEF NewsInv, LoadComesFirst
<1>3. LoadComesFirst'
  BY <1>1, <1>2 DEF LoadComesFirst
<1>4. ~Working /\ ~Working'
  BY <1>1 DEF Working
<1>5. NewsIsOrdered'
  BY <1>1, <1>4 DEF NewsInv, NewsIsOrdered
<1>6. CASE ws' = "reading"
  <2>1. OnTheWay' = OnTheWay
    BY <1>1, <1>4, <1>6 DEF OnTheWay
  <2> QED
    BY <1>1, <1>3, <1>5, <2>1, NewsCarriesOver
<1>7. CASE ws' # "reading"
  <2>1. OnTheWay' \subseteq OnTheWay
    BY <1>1, <1>4, <1>7 DEF OnTheWay
  <2>2. NewsIsNew' /\ GraphIsBehind'
    BY <1>1, <2>1 DEF NewsInv, NewsIsNew, GraphIsBehind
  <2>3. NewsIsComplete'
    BY <1>1, <1>7 DEF NewsIsComplete
  <2> QED
    BY <1>3, <1>5, <2>2, <2>3 DEF NewsInv
<1> QED
  BY <1>6, <1>7

LEMMA ReadEventNews ==
    ASSUME TypeOK, NewsInv, ReadEvent
    PROVE  NewsInv'
<1>1. /\ ws = "reading" /\ ws' = "fetching" /\ stream # <<>>
      /\ in_hand' = Head(stream) /\ stream' = Tail(stream)
      /\ UNCHANGED <<stage, missed, channel, to_load, phase, dag>>
  BY DEF ReadEvent, nodeVars
<1>2. stream \in Seq(Announcements)
  BY DEF TypeOK
<1>3. /\ 1 \in DOMAIN stream /\ in_hand' = stream[1]
      /\ \A i \in DOMAIN stream' : /\ i \in Int /\ i + 1 \in DOMAIN stream /\ 1 < i + 1
                                   /\ stream'[i] = stream[i + 1]
      /\ \A i \in DOMAIN stream : i = 1 \/ (i - 1 \in DOMAIN stream' /\ stream'[i - 1] = stream[i])
  BY <1>1, <1>2
<1>4. ~Working /\ Working'
  BY <1>1 DEF Working
<1>5. OnTheWay' = OnTheWay
  <2>1. {stream'[i] : i \in DOMAIN stream'} \cup {in_hand'} = {stream[i] : i \in DOMAIN stream}
    BY <1>3
  <2> QED
    BY <1>1, <1>4, <2>1 DEF OnTheWay
<1>6. NewsIsOrdered'
  <2>1. \A i, j \in DOMAIN stream' : i < j => Precedes(stream'[i], stream'[j])
    <3> SUFFICES ASSUME NEW i \in DOMAIN stream', NEW j \in DOMAIN stream', i < j
                 PROVE  Precedes(stream'[i], stream'[j])
      OBVIOUS
    <3>1. i + 1 < j + 1
      BY <1>3
    <3> QED
      BY <1>3, <3>1 DEF NewsInv, NewsIsOrdered
  <2>2. \A j \in DOMAIN stream' : Precedes(in_hand', stream'[j])
    BY <1>3 DEF NewsInv, NewsIsOrdered
  <2>3. \A i \in DOMAIN channel, j \in DOMAIN stream' : Precedes(channel[i], stream'[j])
    BY <1>3 DEF NewsInv, NewsIsOrdered
  <2>4. \A i \in DOMAIN channel : Precedes(channel[i], in_hand')
    BY <1>3 DEF NewsInv, NewsIsOrdered
  <2> QED
    BY <1>1, <2>1, <2>2, <2>3, <2>4 DEF NewsInv, NewsIsOrdered
<1>7. LoadComesFirst'
  BY <1>1 DEF NewsInv, LoadComesFirst
<1> QED
  BY <1>1, <1>5, <1>6, <1>7, NewsCarriesOver

\* A request that is never answered holds news up and loses none.
LEMMA StuckNews ==
    ASSUME NewsInv, NeverAnswered
    PROVE  NewsInv'
<1>1. /\ ws = "fetching" /\ ws' = "stuck"
      /\ UNCHANGED <<stage, missed, stream, in_hand, channel, to_load, phase, dag>>
  BY DEF NeverAnswered, nodeVars
<1>2. Working /\ Working'
  BY <1>1 DEF Working
<1>3. OnTheWay' = OnTheWay
  BY <1>1, <1>2 DEF OnTheWay
<1>4. NewsIsOrdered' /\ LoadComesFirst'
  BY <1>1, <1>2 DEF NewsInv, NewsIsOrdered, LoadComesFirst
<1> QED
  BY <1>1, <1>3, <1>4, NewsCarriesOver

\* Whether it is completed over HTTP or not, an announcement is sent with the
\* hash and the status announced.
LEMMA FetchNews ==
    ASSUME TypeOK, NewsInv, FetchFinds \/ FetchMisses
    PROVE  NewsInv'
<1>1. /\ ws = "fetching" /\ in_hand \in Announcements
      /\ ws' \in {"fetching", "sending"}
      /\ UNCHANGED <<stage, missed, stream, channel, to_load, phase, dag>>
      /\ in_hand' \in {in_hand, Enriched(in_hand), Unenriched(in_hand)}
  BY DEF FetchFinds, FetchMisses, TypeOK, nodeVars
<1>2. \A x \in Hashes : /\ Concerns(in_hand', x) <=> Concerns(in_hand, x)
                        /\ StatusOf(in_hand') = StatusOf(in_hand)
                        /\ in_hand'.kind = "block" /\ Concerns(in_hand', x) =>
                             \/ in_hand'.block.number = NumberOf[x]
                             \/ /\ in_hand'.block.number = Unknown
                                /\ in_hand'.block.status = Created
  BY <1>1 DEF Concerns, StatusOf, Enriched, Unenriched, BlockCreated, StatusOnly, Announcements
<1>3. Working /\ Working'
  BY <1>1 DEF Working
<1>4. /\ OnTheWay' \subseteq OnTheWay \cup {in_hand'} /\ in_hand' \in OnTheWay'
      /\ OnTheWay \subseteq OnTheWay' \cup {in_hand} /\ in_hand \in OnTheWay
  BY <1>1, <1>3 DEF OnTheWay
<1>5. NewsIsOrdered'
  <2>1. \A e : Precedes(e, in_hand) => Precedes(e, in_hand')
    BY <1>2 DEF Precedes
  <2>2. \A e : Precedes(in_hand, e) => Precedes(in_hand', e)
    BY <1>2 DEF Precedes
  <2> QED
    BY <1>1, <1>3, <2>1, <2>2 DEF NewsInv, NewsIsOrdered
<1>6. NewsIsNew'
  <2> SUFFICES ASSUME NEW e \in OnTheWay', NEW x \in Hashes, Concerns(e, x)
               PROVE  /\ StatusOf(e) <= stage[x]
                      /\ x \in Known(dag) => dag.blocks[x].status < StatusOf(e)
                      /\ e.kind = "block" =>
                            \/ e.block.number = NumberOf[x]
                            \/ e.block.number = Unknown /\ e.block.status = Created
    BY <1>1 DEF NewsIsNew
  <2>1. CASE e \in OnTheWay
    BY <2>1 DEF NewsInv, NewsIsNew
  <2>2. CASE e = in_hand'
    BY <1>2, <1>4, <2>2 DEF NewsInv, NewsIsNew
  <2> QED
    BY <1>4, <2>1, <2>2
<1>7. NewsIsComplete'
  <2> SUFFICES ASSUME NEW x \in Hashes, x \notin missed
               PROVE  IF \E e \in OnTheWay' : Concerns(e, x)
                      THEN \E e \in OnTheWay' : Concerns(e, x) /\ StatusOf(e) = stage[x]
                      ELSE x \in Known(dag) => dag.blocks[x].status = stage[x]
    BY <1>1 DEF NewsIsComplete
  <2>1. (\E e \in OnTheWay' : Concerns(e, x)) <=> (\E e \in OnTheWay : Concerns(e, x))
    BY <1>2, <1>4
  <2>2. (\E e \in OnTheWay : Concerns(e, x) /\ StatusOf(e) = stage[x])
           => (\E e \in OnTheWay' : Concerns(e, x) /\ StatusOf(e) = stage[x])
    BY <1>2, <1>4
  <2> QED
    BY <1>1, <2>1, <2>2 DEF NewsInv, NewsIsComplete
<1>8. GraphIsBehind' /\ LoadComesFirst'
  BY <1>1 DEF NewsInv, GraphIsBehind, LoadComesFirst
<1> QED
  BY <1>5, <1>6, <1>7, <1>8 DEF NewsInv

LEMMA SendNews ==
    ASSUME TypeOK, NewsInv, Send
    PROVE  NewsInv'
<1>1. /\ ws \in {"sending", "failing"}
      /\ ws' = IF ws = "sending" THEN "reading" ELSE "closed"
      /\ channel' = Append(channel, in_hand)
      /\ UNCHANGED <<stage, missed, stream, to_load, phase, dag>>
  BY DEF Send, nodeVars
<1>2. channel \in Seq(DagEvents)
  BY DEF TypeOK
<1>3. /\ DOMAIN channel' = DOMAIN channel \cup {Len(channel) + 1}
      /\ \A i \in DOMAIN channel : channel'[i] = channel[i] /\ i < Len(channel) + 1 /\ i \in Int
      /\ channel'[Len(channel) + 1] = in_hand
      /\ Len(channel) \in Nat
  BY <1>1, <1>2
<1>4. {channel'[i] : i \in DOMAIN channel'} = {channel[i] : i \in DOMAIN channel} \cup {in_hand}
  BY <1>3
<1>5. ~Working'
  BY <1>1 DEF Working
<1>6. LoadComesFirst'
  BY <1>1 DEF NewsInv, LoadComesFirst
<1>7. ASSUME \A i \in DOMAIN channel : Precedes(channel[i], in_hand),
             \A j \in DOMAIN stream : Precedes(in_hand, stream[j])
      PROVE  NewsIsOrdered'
  <2>1. \A i, j \in DOMAIN channel' : i < j => Precedes(channel'[i], channel'[j])
    BY <1>3, <1>7 DEF NewsInv, NewsIsOrdered
  <2>2. \A i \in DOMAIN channel', j \in DOMAIN stream : Precedes(channel'[i], stream[j])
    BY <1>3, <1>7 DEF NewsInv, NewsIsOrdered
  <2> QED
    BY <1>1, <1>5, <2>1, <2>2 DEF NewsInv, NewsIsOrdered
<1>8. CASE ws = "sending"
  <2>1. OnTheWay' = OnTheWay
    BY <1>1, <1>4, <1>5, <1>8 DEF OnTheWay, Working
  <2>2. NewsIsOrdered'
    BY <1>7, <1>8 DEF NewsInv, NewsIsOrdered, Working
  <2> QED
    BY <1>1, <1>6, <1>8, <2>1, <2>2, NewsCarriesOver
<1>9. CASE ws = "failing"
  <2>1. in_hand = Failure /\ stream = <<>>
    BY <1>9 DEF NewsInv, LoadComesFirst
  <2>2. \A x \in Hashes : ~Concerns(in_hand, x)
    BY <2>1 DEF Concerns, Failure
  <2>3. NewsIsOrdered'
    BY <1>7, <2>1, <2>2 DEF Precedes
  <2>4. OnTheWay' \subseteq OnTheWay \cup {in_hand}
    BY <1>1, <1>4, <1>5 DEF OnTheWay
  <2>5. NewsIsNew'
    BY <1>1, <2>2, <2>4 DEF NewsInv, NewsIsNew
  <2>6. NewsIsComplete' /\ GraphIsBehind'
    BY <1>1, <1>9 DEF NewsInv, NewsIsComplete, GraphIsBehind
  <2> QED
    BY <1>6, <2>3, <2>5, <2>6 DEF NewsInv
<1> QED
  BY <1>1, <1>8, <1>9

\* What one event does to the graph: it concerns one block at most, and whatever
\* else is on the way comes after it.
LEMMA HandledNews ==
    ASSUME TypeOK, NewsInv, HandleDagEvent, NEW e, e = Head(channel)
    PROVE  /\ e \in OnTheWay /\ OnTheWay' \subseteq OnTheWay
           /\ OnTheWay \subseteq OnTheWay' \cup {e}
           /\ \A d \in OnTheWay' : Precedes(e, d)
           /\ NewsIsOrdered'
           /\ Known(dag) \subseteq Known(dag')
           /\ \A x \in Known(dag') :
                IF Concerns(e, x)
                THEN /\ dag'.blocks[x].status = StatusOf(e)
                     /\ \/ e.kind = "block" /\ dag'.blocks[x].number = e.block.number
                        \/ x \in Known(dag) /\ dag'.blocks[x].number = dag.blocks[x].number
                ELSE x \in Known(dag) /\ dag'.blocks[x] = dag.blocks[x]
<1>1. /\ channel # <<>> /\ channel' = Tail(channel) /\ channel \in Seq(DagEvents)
      /\ UNCHANGED <<ws, in_hand, stream>>
  BY DEF HandleDagEvent, TypeOK, wsVars
<1>2. /\ 1 \in DOMAIN channel /\ e = channel[1] /\ e \in DagEvents
      /\ \A i \in DOMAIN channel' : /\ i \in Int /\ i + 1 \in DOMAIN channel /\ 1 < i + 1
                                    /\ channel'[i] = channel[i + 1]
      /\ \A i \in DOMAIN channel :
            i = 1 \/ (i - 1 \in DOMAIN channel' /\ channel'[i - 1] = channel[i])
  BY <1>1
<1>3. /\ {channel'[i] : i \in DOMAIN channel'} \subseteq {channel[i] : i \in DOMAIN channel}
      /\ {channel[i] : i \in DOMAIN channel}
            \subseteq {channel'[i] : i \in DOMAIN channel'} \cup {e}
      /\ e \in {channel[i] : i \in DOMAIN channel}
  BY <1>2
<1>4. /\ e \in OnTheWay /\ OnTheWay' \subseteq OnTheWay /\ OnTheWay \subseteq OnTheWay' \cup {e}
  BY <1>1, <1>3 DEF OnTheWay, Working
<1>5. \A d \in OnTheWay' : Precedes(e, d)
  <2>1. \A i \in DOMAIN channel' : Precedes(e, channel'[i])
    BY <1>2 DEF NewsInv, NewsIsOrdered
  <2>2. \A i \in DOMAIN stream : Precedes(e, stream[i])
    BY <1>2 DEF NewsInv, NewsIsOrdered
  <2>3. Working => Precedes(e, in_hand)
    BY <1>2 DEF NewsInv, NewsIsOrdered
  <2> QED
    BY <1>1, <2>1, <2>2, <2>3 DEF OnTheWay, Working
<1>6. NewsIsOrdered'
  <2>1. \A i, j \in DOMAIN channel' : i < j => Precedes(channel'[i], channel'[j])
    <3> SUFFICES ASSUME NEW i \in DOMAIN channel', NEW j \in DOMAIN channel', i < j
                 PROVE  Precedes(channel'[i], channel'[j])
      OBVIOUS
    <3>1. i + 1 < j + 1
      BY <1>2
    <3> QED
      BY <1>2, <3>1 DEF NewsInv, NewsIsOrdered
  <2>2. \A i \in DOMAIN channel', j \in DOMAIN stream : Precedes(channel'[i], stream[j])
    BY <1>2 DEF NewsInv, NewsIsOrdered
  <2>3. Working => \A i \in DOMAIN channel' : Precedes(channel'[i], in_hand)
    BY <1>2 DEF NewsInv, NewsIsOrdered
  <2> QED
    BY <1>1, <2>1, <2>2, <2>3 DEF NewsInv, NewsIsOrdered, Working
<1>7. IsDag(dag)
  BY DEF TypeOK
<1>8. CASE e.kind = "block"
  <2>1. e.hash \in Hashes /\ e.block \in DagBlock
    BY <1>2, <1>8 DEF DagEvents, Failure
  <2>2. dag' = AddBlock(dag, e.hash, e.block)
    BY <1>8 DEF HandleDagEvent
  <2>3. /\ Known(dag') = Known(dag) \cup {e.hash}
        /\ \A x \in Known(dag') : dag'.blocks[x] = IF x = e.hash THEN e.block ELSE dag.blocks[x]
    BY <2>2 DEF AddBlock, Known
  <2> QED
    BY <1>4, <1>5, <1>6, <1>8, <2>3 DEF Concerns, StatusOf
<1>9. CASE e.kind = "status"
  <2>1. dag' = UpdateStatus(dag, e.hash, e.status)
    BY <1>9 DEF HandleDagEvent
  <2>2. dag'.blocks = [x \in Known(dag) |-> IF x = e.hash
                                            THEN [dag.blocks[x] EXCEPT !.status = e.status]
                                            ELSE dag.blocks[x]]
    BY <1>7, <2>1, DagFacts DEF UpdateStatus, Known
  <2>3. /\ Known(dag') = Known(dag)
        /\ \A x \in Known(dag) :
              dag'.blocks[x] = IF x = e.hash THEN [dag.blocks[x] EXCEPT !.status = e.status]
                               ELSE dag.blocks[x]
    BY <2>2 DEF Known
  <2>4. \A x \in Known(dag) : dag.blocks[x] \in DagBlock
    BY <1>7, DagFacts
  <2>5. \A x \in Known(dag) : x = e.hash => /\ dag'.blocks[x].status = e.status
                                            /\ dag'.blocks[x].number = dag.blocks[x].number
    BY <2>3, <2>4 DEF DagBlock
  <2> QED
    BY <1>4, <1>5, <1>6, <1>9, <2>3, <2>5 DEF Concerns, StatusOf
<1>10. CASE e.kind = "error"
  <2>1. dag' = dag
    BY <1>10 DEF HandleDagEvent
  <2> QED
    BY <1>4, <1>5, <1>6, <1>10, <2>1 DEF Concerns
<1> QED
  BY <1>2, <1>8, <1>9, <1>10 DEF DagEvents, Failure

LEMMA HandleDagEventNews ==
    ASSUME TypeOK, NewsInv, HandleDagEvent
    PROVE  NewsInv'
<1>0. PICK e : e = Head(channel)
  OBVIOUS
<1>1. /\ e \in OnTheWay /\ OnTheWay' \subseteq OnTheWay /\ OnTheWay \subseteq OnTheWay' \cup {e}
      /\ \A d \in OnTheWay' : Precedes(e, d)
      /\ NewsIsOrdered' /\ Known(dag) \subseteq Known(dag')
  BY <1>0, HandledNews
<1>2. \A x \in Known(dag') :
        IF Concerns(e, x)
        THEN /\ dag'.blocks[x].status = StatusOf(e)
             /\ \/ e.kind = "block" /\ dag'.blocks[x].number = e.block.number
                \/ x \in Known(dag) /\ dag'.blocks[x].number = dag.blocks[x].number
        ELSE x \in Known(dag) /\ dag'.blocks[x] = dag.blocks[x]
  BY <1>0, HandledNews
<1>3. /\ phase = "drain" /\ channel # <<>>
      /\ UNCHANGED <<stage, missed, stream, ws, in_hand, to_load, phase>>
  BY DEF HandleDagEvent, nodeVars, wsVars
<1>4. \A x \in Hashes, d \in OnTheWay : Concerns(d, x) =>
          StatusOf(d) \in 1..3 /\ StatusOf(d) <= stage[x]
  BY NewsTypes, StatusTypes DEF NewsInv, NewsIsNew
<1>5. \A x \in Known(dag) : x \in Hashes
  BY DagFacts DEF TypeOK
<1>6. \A x \in Known(dag') : Concerns(e, x) => x \in Hashes
  BY <1>1, NewsTypes DEF Concerns, Announcements, DagEvents, Failure
<1>7. NewsIsNew'
  <2> SUFFICES ASSUME NEW d \in OnTheWay', NEW x \in Hashes, Concerns(d, x), x \in Known(dag')
               PROVE  dag'.blocks[x].status < StatusOf(d)
    BY <1>1, <1>3 DEF NewsInv, NewsIsNew
  <2>1. CASE Concerns(e, x)
    BY <1>1, <1>2, <2>1 DEF Precedes
  <2>2. CASE ~Concerns(e, x)
    BY <1>1, <1>2, <2>2 DEF NewsInv, NewsIsNew
  <2> QED
    BY <2>1, <2>2
<1>8. NewsIsComplete'
  <2> SUFFICES ASSUME ws \notin {"failing", "closed"}, NEW x \in Hashes, x \notin missed
               PROVE  IF \E d \in OnTheWay' : Concerns(d, x)
                      THEN \E d \in OnTheWay' : Concerns(d, x) /\ StatusOf(d) = stage[x]
                      ELSE x \in Known(dag') => dag'.blocks[x].status = stage[x]
    BY <1>3 DEF NewsIsComplete
  <2>1. IF \E d \in OnTheWay : Concerns(d, x)
        THEN \E d \in OnTheWay : Concerns(d, x) /\ StatusOf(d) = stage[x]
        ELSE x \in Known(dag) => dag.blocks[x].status = stage[x]
    BY DEF NewsInv, NewsIsComplete
  <2>2. CASE \E d \in OnTheWay' : Concerns(d, x)
    <3>1. PICK d \in OnTheWay' : Concerns(d, x)
      BY <2>2
    <3>2. PICK c \in OnTheWay : Concerns(c, x) /\ StatusOf(c) = stage[x]
      BY <1>1, <2>1, <3>1
    <3>3. c # e
      <4> SUFFICES ASSUME c = e PROVE FALSE
        OBVIOUS
      <4>1. StatusOf(e) < StatusOf(d) /\ StatusOf(d) <= stage[x] /\ StatusOf(d) \in 1..3
        BY <1>1, <1>4, <3>1, <3>2 DEF Precedes
      <4>2. stage[x] \in 0..3
        BY StageTypes
      <4> QED
        BY <3>2, <4>1, <4>2
    <3> QED
      BY <1>1, <2>2, <3>2, <3>3
  <2>3. CASE ~\E d \in OnTheWay' : Concerns(d, x)
    <3>1. CASE Concerns(e, x)
      BY <1>1, <1>2, <2>1, <2>3, <3>1
    <3>2. CASE ~Concerns(e, x)
      BY <1>1, <1>2, <2>1, <2>3, <3>2
    <3> QED
      BY <3>1, <3>2
  <2> QED
    BY <2>2, <2>3
<1>9. GraphIsBehind'
  <2> SUFFICES ASSUME NEW x \in Known(dag')
               PROVE  /\ dag'.blocks[x].status <= stage[x]
                      /\ dag'.blocks[x].number \in {Unknown, NumberOf[x]}
    BY <1>3 DEF GraphIsBehind
  <2>1. CASE Concerns(e, x)
    <3>1. x \in Hashes
      BY <1>6, <2>1
    <3>2. e.kind = "block" => e.block.number \in {Unknown, NumberOf[x]}
      BY <1>1, <2>1, <3>1 DEF NewsInv, NewsIsNew
    <3> QED
      BY <1>1, <1>2, <1>4, <2>1, <3>1, <3>2 DEF NewsInv, GraphIsBehind
  <2>2. CASE ~Concerns(e, x)
    BY <1>2, <2>2 DEF NewsInv, GraphIsBehind
  <2> QED
    BY <2>1, <2>2
<1>10. LoadComesFirst'
  BY <1>3 DEF NewsInv, LoadComesFirst
<1> QED
  BY <1>1, <1>7, <1>8, <1>9, <1>10 DEF NewsInv

\* Drawing and keys concern no news.
LEMMA LoopNews ==
    ASSUME NewsInv, EndDrain \/ Draw \/ Key
    PROVE  NewsInv'
<1>1. /\ UNCHANGED <<stage, missed, stream, ws, in_hand, channel, to_load, dag>>
      /\ phase \in {"drain", "draw", "key"} /\ phase' \notin {"fetch", "load"}
  BY DEF EndDrain, Draw, Key, Up, Down, PageUp, PageDown, Top, Bottom, Enter, Quit, NoKey,
         MoveTo, HandleKey, nodeVars, wsVars
<1>2. DOMAIN to_load = {}
  BY <1>1 DEF NewsInv, LoadComesFirst
<1>3. OnTheWay' = OnTheWay /\ Working' = Working
  BY <1>1 DEF OnTheWay, Working
<1> QED
  BY <1>1, <1>2, <1>3
     DEF NewsInv, NewsIsOrdered, NewsIsNew, NewsIsComplete, GraphIsBehind, LoadComesFirst

LEMMA NewsStep ==
    ASSUME TypeOK, NewsInv, [Next]_vars
    PROVE  NewsInv'
<1>1. CASE \E h \in Hashes : Advance(h)
  BY <1>1, AdvanceNews
<1>2. CASE StartUp
  BY <1>2, StartUpNews
<1>3. CASE Connect \/ Disconnect \/ StreamFails \/ NeverAnswered
  BY <1>3, ConnectionNews, StuckNews
<1>4. CASE Listener
  BY <1>4, ReadEventNews, FetchNews, SendNews DEF Listener
<1>5. CASE App
  BY <1>5, HandleDagEventNews, LoopNews DEF App
<1>6. CASE UNCHANGED vars
  BY <1>6 DEF vars, nodeVars, wsVars, viewVars, cursorVars, NewsInv, NewsIsOrdered, NewsIsNew,
     NewsIsComplete, GraphIsBehind, LoadComesFirst, OnTheWay, Working
<1> QED
  BY <1>1, <1>2, <1>3, <1>4, <1>5, <1>6 DEF Next, StartUp

-----------------------------------------------------------------------------
(* The theorems *)

LEMMA Splits == IInv <=> TypeOK /\ ChannelIsBounded /\ ViewInv /\ NewsInv
BY DEF IInv, ViewInv

LEMMA InitInv == Init => IInv
<1> SUFFICES ASSUME Init PROVE IInv
  OBVIOUS
<1>1. IsDag(EmptyDag) /\ Known(EmptyDag) = {} /\ Consistent(EmptyDag)
  <2>1. EmptyDag.blocks \in [{} -> DagBlock]
    BY DEF EmptyDag
  <2>2. IsDag(EmptyDag)
    BY <2>1 DEF EmptyDag, IsDag, Known
  <2> QED
    BY <2>2 DEF EmptyDag, Known, Consistent, ChildrenMirrorParents, ChildlessAreTips
<1>2. stream \in Seq(Announcements) /\ channel \in Seq(DagEvents) /\ graph_rows \in Seq(Hashes)
  BY DEF Init
<1>3. TypeOK
  <2>1. DOMAIN to_load = {} /\ stage \in [Hashes -> 0..Finalized] /\ IsDag(dag)
    BY <1>1 DEF Init, Finalized
  <2>2. attempt \in 0..FetchAttempts
    BY AttemptsAssumption DEF Init
  <2>3. /\ ws = "none" /\ phase = "fetch"
        /\ selected_index = 0 /\ scroll_offset = 0 /\ height = 0
        /\ show_details = FALSE /\ follow_head = TRUE
    BY DEF Init
  <2> QED
    BY <1>2, <2>1, <2>2, <2>3 DEF TypeOK
<1>4. ChannelIsBounded
  BY CapacityAssumption DEF Init, ChannelIsBounded
<1>5. ViewInv
  BY <1>1 DEF Init, ViewInv, NothingShownBeforeStart, RowsMatchBlocks, SelectionExists,
     SelectionIsVisible, GraphIsConsistent, Consistent
<1>6. NewsInv
  <2>1. /\ channel = <<>> /\ stream = <<>> /\ ws = "none" /\ phase = "fetch" /\ dag = EmptyDag
        /\ DOMAIN to_load = {}
    BY DEF Init
  <2>2. OnTheWay = {} /\ ~Working
    BY <2>1 DEF OnTheWay, Working
  <2>3. NewsIsOrdered /\ NewsIsNew
    BY <2>1, <2>2 DEF NewsIsOrdered, NewsIsNew
  <2>4. NewsIsComplete /\ GraphIsBehind /\ LoadComesFirst
    BY <1>1, <2>1, <2>2 DEF NewsIsComplete, GraphIsBehind, LoadComesFirst
  <2> QED
    BY <2>3, <2>4 DEF NewsInv
<1> QED
  BY <1>3, <1>4, <1>5, <1>6, Splits

LEMMA StepInv == IInv /\ [Next]_vars => IInv'
<1> SUFFICES ASSUME IInv, [Next]_vars PROVE IInv'
  OBVIOUS
<1>0. TypeOK /\ ChannelIsBounded /\ ViewInv /\ NewsInv
  BY Splits
<1> SUFFICES TypeOK' /\ ChannelIsBounded' /\ ViewInv'
  BY <1>0, NewsStep DEF IInv, ViewInv
<1>1. CASE Background
  BY <1>0, <1>1, BackgroundTyped, BackgroundView
<1>2. CASE StartUp
  BY <1>0, <1>2, StartUpStep
<1>3. CASE App
  BY <1>0, <1>3, HandleDagEventStep, EndDrainStep, DrawStep, KeyStep DEF App
<1>4. CASE UNCHANGED vars
  BY <1>0, <1>4 DEF vars, nodeVars, wsVars, viewVars, cursorVars, TypeOK, ChannelIsBounded,
     ViewInv, NothingShownBeforeStart, RowsMatchBlocks, SelectionExists, SelectionIsVisible,
     GraphIsConsistent
<1> QED
  BY <1>1, <1>2, <1>3, <1>4 DEF Next, Background, StartUp

\* The inductive invariant of the viewer: the channel is bounded, the rows are
\* the sorted blocks, the cursor is on one of them and in sight, and the
\* graph's relations are right, in every reachable state.
THEOREM Invariance == Spec => []IInv
<1> QED
  BY InitInv, StepInv, PTL DEF Spec

\* No key and no event of app.rs leaves the cursor behind the last row, and
\* what is drawn contains it whatever the height of the terminal.
THEOREM CursorIsSafe == Spec => [](SelectionExists /\ SelectionIsVisible)
<1>1. IInv => SelectionExists /\ SelectionIsVisible
  BY DEF IInv
<1> QED
  BY <1>1, Invariance, PTL

\* DagGraph's relations and the rows are right after every event.
THEOREM GraphIsRight == Spec => [](GraphIsConsistent /\ RowsMatchBlocks)
<1>1. IInv => GraphIsConsistent /\ RowsMatchBlocks
  BY DEF IInv
<1> QED
  BY <1>1, Invariance, PTL

\* A key moves the cursor on purpose; only G does so and keeps following.
LEMMA KeysStopFollowing ==
    ASSUME Key, follow_head \in BOOLEAN, follow_head => selected_index = 0
    PROVE  (follow_head' => selected_index' = 0) \/ Bottom
<1>1. CASE Up \/ PageUp
  BY <1>1 DEF Up, PageUp, AtTop
<1>2. CASE Down \/ PageDown \/ Top
  BY <1>2 DEF Down, PageDown, Top
<1>3. CASE Enter \/ Quit \/ NoKey
  BY <1>3 DEF Enter, Quit, NoKey, cursorVars
<1> QED
  BY <1>1, <1>2, <1>3 DEF Key

\* The details of app.rs stay and hold still between keys, and an event leaves the
\* cursor where it is unless follow_head is set, which away from the top only G
\* brings about: after G the next block does move the cursor.
THEOREM SteadyView == Spec => ViewIsSteady
<1> DEFINE Steady ==
      /\ show_details /\ phase # "key" => UNCHANGED <<dag, graph_rows, selected_index>>
      /\ phase # "key" => UNCHANGED show_details
      /\ phase = "drain" /\ ~follow_head => UNCHANGED selected_index
      /\ (follow_head => selected_index = 0) =>
            (follow_head' => selected_index' = 0) \/ Bottom
<1>1. IInv /\ Next => Steady
  <2> SUFFICES ASSUME IInv, Next PROVE Steady
    OBVIOUS
  <2>0. /\ follow_head \in BOOLEAN /\ show_details \in BOOLEAN
        /\ phase \in {"fetch", "load"} => ~show_details
    BY DEF IInv, TypeOK, NothingShownBeforeStart
  <2>1. CASE Background
    BY <2>1 DEF Background, Advance, Connect, Disconnect, StreamFails, NeverAnswered, Listener,
       ReadEvent, FetchFinds, FetchMisses, Send, viewVars, cursorVars
  <2>2. CASE FetchInitialBlocks \/ FetchInitialFails \/ LoadBlock \/ StartApp
    BY <2>0, <2>2 DEF FetchInitialBlocks, FetchInitialFails, LoadBlock, StartApp, viewVars,
       cursorVars
  <2>3. CASE HandleDagEvent
    <3>1. ~show_details /\ follow_head' = follow_head /\ UNCHANGED show_details
      BY <2>3 DEF HandleDagEvent
    <3>2. UNCHANGED selected_index \/ (follow_head /\ selected_index' = 0)
      BY <2>0, <2>3 DEF HandleDagEvent
    <3> QED
      BY <3>1, <3>2
  <2>4. CASE EndDrain \/ Draw
    BY <2>4 DEF EndDrain, Draw, viewVars, cursorVars
  <2>5. CASE Key
    <3>1. phase = "key"
      BY <2>5 DEF Key, Up, Down, PageUp, PageDown, Top, Bottom, Enter, Quit, NoKey, MoveTo,
         HandleKey
    <3> QED
      BY <2>0, <2>5, <3>1, KeysStopFollowing
  <2> QED
    BY <2>1, <2>2, <2>3, <2>4, <2>5 DEF Next, App, Background
<1>2. IInv /\ [Next]_vars => [Steady]_vars
  BY <1>1
<1> QED
  BY <1>2, Invariance, PTL DEF Spec, ViewIsSteady
\* add_block replaces a block by every later version of it, some of which come
\* without a number; for no order of answers, announcements and failed fetches
\* does that take a block back.
THEOREM OnlyAdvance == Spec => BlocksOnlyAdvance
<1> DEFINE Advances ==
      \A h \in Known(dag) :
         /\ h \in Known(dag')
         /\ dag'.blocks[h].status >= dag.blocks[h].status
         /\ dag.blocks[h].number # Unknown => dag'.blocks[h].number = dag.blocks[h].number
<1>1. IInv /\ Next => [Advances]_vars
  <2> SUFFICES ASSUME IInv, Next PROVE Advances
    OBVIOUS
  <2>0. TypeOK /\ NewsInv
    BY Splits
  <2>1. \A x \in Known(dag) : x \in Hashes /\ dag.blocks[x].status \in 1..3
    BY <2>0, StageTypes, DagFacts DEF TypeOK
  <2>2. CASE LoadBlock
    <3>1. PICK h \in DOMAIN to_load :
            dag' = AddBlock(dag, h, [number |-> NumberOf[h], status |-> to_load[h]])
      BY <2>2 DEF LoadBlock
    <3>2. h \notin Known(dag)
      BY <2>0 DEF NewsInv, LoadComesFirst
    <3>3. \A x \in Known(dag) : x \in Known(dag') /\ dag'.blocks[x] = dag.blocks[x]
      BY <3>1, <3>2 DEF AddBlock, Known
    <3> QED
      BY <2>1, <3>3
  <2>3. CASE HandleDagEvent
    <3>0. PICK e : e = Head(channel)
      OBVIOUS
    <3>1. /\ e \in OnTheWay /\ Known(dag) \subseteq Known(dag')
          /\ \A x \in Known(dag') :
               IF Concerns(e, x)
               THEN /\ dag'.blocks[x].status = StatusOf(e)
                    /\ \/ e.kind = "block" /\ dag'.blocks[x].number = e.block.number
                       \/ x \in Known(dag) /\ dag'.blocks[x].number = dag.blocks[x].number
               ELSE x \in Known(dag) /\ dag'.blocks[x] = dag.blocks[x]
      BY <2>0, <2>3, <3>0, HandledNews
    <3> SUFFICES ASSUME NEW x \in Known(dag)
                 PROVE  /\ dag'.blocks[x].status >= dag.blocks[x].status
                        /\ dag.blocks[x].number # Unknown =>
                              dag'.blocks[x].number = dag.blocks[x].number
      BY <3>1
    <3>2. CASE ~Concerns(e, x)
      BY <2>1, <3>1, <3>2
    <3>3. CASE Concerns(e, x)
      <4>1. /\ dag.blocks[x].status < StatusOf(e) /\ StatusOf(e) \in 1..3
            /\ e.kind = "block" => \/ e.block.number = NumberOf[x]
                                   \/ e.block.number = Unknown /\ e.block.status = Created
        BY <2>0, <2>1, <3>1, <3>3, NewsTypes, StatusTypes DEF NewsInv, NewsIsNew
      <4>2. e.kind = "block" => e.block.number = NumberOf[x]
        BY <2>1, <4>1 DEF StatusOf, Created
      <4>3. dag.blocks[x].number \in {Unknown, NumberOf[x]}
        BY <2>0 DEF NewsInv, GraphIsBehind
      <4> QED
        BY <2>1, <3>1, <3>3, <4>1, <4>2, <4>3
    <3> QED
      BY <3>2, <3>3
  <2>4. CASE dag' = dag
    BY <2>1, <2>4
  <2>5. LoadBlock \/ HandleDagEvent \/ dag' = dag
    BY DEF Next, Advance, FetchInitialBlocks, FetchInitialFails, StartApp, Connect, Disconnect,
           StreamFails, NeverAnswered, Listener, ReadEvent, FetchFinds, FetchMisses, Send, App, EndDrain, Draw,
           Key, Up, Down, PageUp, PageDown, Top, Bottom, Enter, Quit, NoKey, MoveTo, HandleKey
  <2> QED
    BY <2>2, <2>3, <2>4, <2>5
<1>2. IInv /\ [Next]_vars => [Advances]_vars
  BY <1>1
<1> QED
  BY <1>2, Invariance, PTL DEF Spec, BlocksOnlyAdvance

\* A parent of a numbered block has a lower number, or none yet, and so is sorted
\* after it; blocks without number are sorted to the end.
LEMMA SortedRowsSuit ==
    ASSUME IsDag(dag), GraphIsBehind, graph_rows \in Sortings(dag.blocks)
    PROVE  \E numbered \in 0..Len(graph_rows) :
             /\ \A i \in DOMAIN graph_rows :
                   i <= numbered <=> dag.blocks[graph_rows[i]].number # Unknown
             /\ \A i \in 1..numbered, j \in DOMAIN graph_rows :
                   graph_rows[j] \in ParentsOf[graph_rows[i]] => i < j
<1> DEFINE n == Len(graph_rows)
           num(i) == dag.blocks[graph_rows[i]].number
           U == {i \in 1..n : num(i) = Unknown}
<1>1. /\ n \in Nat /\ DOMAIN graph_rows = 1..n
      /\ \A i \in 1..n : graph_rows[i] \in Known(dag) /\ graph_rows[i] \in Hashes
  <2>1. DOMAIN dag.blocks = Known(dag) /\ Known(dag) \subseteq Hashes
    BY DagFacts DEF Known
  <2>2. Cardinality(DOMAIN dag.blocks) \in Nat
    BY <2>1, HashesAssumption, FS_Subset, FS_CardinalityType
  <2>3. graph_rows \in [1..Cardinality(DOMAIN dag.blocks) -> Known(dag)]
    BY <2>1 DEF Sortings
  <2>4. graph_rows \in Seq(Hashes) /\ n = Cardinality(DOMAIN dag.blocks)
    BY <2>1, SortingLength
  <2> QED
    BY <2>1, <2>2, <2>3, <2>4
<1>2. \A i, j \in 1..n : i < j => num(i) >= num(j)
  BY <1>1 DEF Sortings
<1>3. \A i \in 1..n : num(i) \in {Unknown, NumberOf[graph_rows[i]]} /\ num(i) \in {-1} \cup Nat
  BY <1>1, NumbersAssumption DEF GraphIsBehind, Unknown
<1>4. PICK numbered \in 0..n : \A i \in 1..n : i <= numbered <=> num(i) # Unknown
  <2>1. CASE U = {}
    <3>1. \A i \in 1..n : i <= n <=> num(i) # Unknown
      BY <2>1
    <3> QED
      BY <1>1, <3>1
  <2>2. CASE U # {}
    <3>1. PICK u \in U : \A k \in U : u <= k
      <4>1. U \subseteq Nat
        BY <1>1
      <4>2. PICK u \in U : \A k \in U : ~(<<k, u>> \in OpToRel(<, Nat))
        BY <2>2, <4>1, WFMin, NatLessThanWellFounded
      <4>3. ASSUME NEW k \in U PROVE u <= k
        <5>1. u \in Nat /\ k \in Nat /\ <<k, u>> \in Nat \X Nat
          BY <4>1
        <5>2. ~(k < u)
          BY <4>2, <5>1 DEF OpToRel
        <5> QED
          BY <5>1, <5>2
      <4> QED
        BY <4>3
    <3>2. u \in 1..n /\ num(u) = Unknown
      OBVIOUS
    <3>3. ASSUME NEW i \in 1..n PROVE i <= u - 1 <=> num(i) # Unknown
      <4>1. CASE i < u
        <5>1. i \notin U
          BY <1>1, <3>1, <3>2, <4>1
        <5> QED
          BY <1>1, <3>2, <4>1, <5>1
      <4>2. CASE i = u
        BY <3>2, <4>2
      <4>3. CASE u < i
        <5> HIDE DEF num
        <5>1. num(u) >= num(i) /\ num(i) \in {-1} \cup Nat /\ num(u) = -1
          BY <1>2, <1>3, <3>2, <4>3 DEF Unknown
        <5>2. num(i) = Unknown
          BY <5>1 DEF Unknown
        <5>3. u \in Nat /\ i \in Nat /\ ~(i <= u - 1)
          BY <1>1, <3>2, <4>3
        <5> QED
          BY <5>2, <5>3
      <4> QED
        BY <3>2, <4>1, <4>2, <4>3
    <3>4. u - 1 \in 0..n
      BY <1>1, <3>2
    <3> HIDE DEF num, U
    <3> QED
      BY <3>3, <3>4
  <2> QED
    BY <2>1, <2>2
<1>5. ASSUME NEW i \in 1..numbered, NEW j \in 1..n,
             graph_rows[j] \in ParentsOf[graph_rows[i]]
      PROVE  i < j
  <2>1. i \in 1..n /\ num(i) # Unknown
    BY <1>1, <1>4
  <2>2. num(i) = NumberOf[graph_rows[i]] /\ num(i) \in Nat
    BY <1>3, <2>1 DEF Unknown
  <2>3. NumberOf[graph_rows[j]] < NumberOf[graph_rows[i]] /\ NumberOf[graph_rows[j]] \in Nat
    BY <1>1, <1>5, <2>1, HeightsAssumption, NumbersAssumption
  <2>4. num(j) < num(i) /\ num(j) \in Int
    BY <1>3, <2>2, <2>3 DEF Unknown
  <2>5. ~(j < i) /\ j # i
    BY <1>2, <2>1, <2>2, <2>4
  <2> QED
    BY <1>1, <2>1, <2>5
<1> QED
  BY <1>1, <1>4, <1>5

\* compute_layout can rely on what DagLayout takes for granted: a numbered block is
\* drawn above its parents, however the blocks and their numbers became known.
THEOREM RowsAreFit == Spec => []RowsSuitLayout
<1>1. IInv => RowsSuitLayout
  BY SortedRowsSuit DEF IInv, TypeOK, NewsInv, RowsMatchBlocks, RowsSuitLayout
<1> QED
  BY <1>1, Invariance, PTL

\* Once listener and application have worked off what the node has announced,
\* the viewer shows the node's state of every block it did not miss.
THEOREM ShownIsCurrent == Spec => []CurrentWhenDrained
<1>1. IInv => CurrentWhenDrained
  <2> SUFFICES ASSUME IInv, ws = "reading", stream = <<>>, channel = <<>>,
                      NEW h \in Known(dag) \ missed
               PROVE  dag.blocks[h].status = stage[h]
    BY DEF CurrentWhenDrained
  <2>1. h \in Hashes
    BY DagFacts DEF IInv, TypeOK
  <2>2. OnTheWay = {}
    BY DEF OnTheWay, Working
  <2> QED
    BY <2>1, <2>2 DEF IInv, NewsInv, NewsIsComplete
<1> QED
  BY <1>1, Invariance, PTL
=============================================================================
