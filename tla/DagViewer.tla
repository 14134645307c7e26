------------------------------ MODULE DagViewer ------------------------------
(***************************************************************************)
(* The live DAG viewer: the initial fetch, the WebSocket listener with its *)
(* HTTP fetches, the bounded channel to the terminal application, and the  *)
(* application's loop of draining, drawing and reading one key.            *)
(*                                                                         *)
(* src/commands/dag.rs is the listener, src/dag/app.rs the application,    *)
(* src/dag/model.rs (DagGraph) the graph.  The node is external: its       *)
(* blocks go through the three statuses and each step is announced on the  *)
(* WebSocket, once, in order, to whoever is connected at that moment.      *)
(*                                                                         *)
(* A definition commented as a variant is no part of the specification:    *)
(* it is the one after it with a plausible slip.                           *)
(***************************************************************************)
EXTENDS DagGraph

CONSTANTS ChannelCapacity,  \* mpsc::channel(100)
          FetchAttempts,    \* 3 in fetch_block_by_hash
          Page,             \* 10 rows on PageUp and PageDown
          AssumedHeight,    \* 20 lines in ensure_visible
          Heights           \* heights the terminal may give the list

ASSUME CapacityAssumption == ChannelCapacity \in Nat \ {0}
ASSUME AttemptsAssumption == FetchAttempts \in Nat \ {0}
ASSUME ScreenAssumption ==
    Page \in Nat /\ AssumedHeight \in Nat \ {0} /\ Heights \subseteq Nat

VARIABLES
    stage,          \* external: how far the node is with each block
    stream,         \* announcements sent to the connected listener
    ws,             \* the listener task
    in_hand,        \* the event it works on
    attempt,        \* attempts of fetch_block_by_hash that have failed
    channel,        \* the mpsc channel
    to_load,        \* blocks of the initial answer not yet added
    phase,          \* where the application is
    dag, graph_rows, selected_index, scroll_offset, show_details, follow_head,
    height,         \* history: lines given to the list by the last draw
    missed          \* history: blocks whose last step was announced to no one

nodeVars == <<stage, missed>>
wsVars == <<ws, in_hand, attempt>>
cursorVars == <<selected_index, scroll_offset, follow_head>>
viewVars == <<cursorVars, show_details, height>>
vars == <<nodeVars, stream, wsVars, channel, to_load, phase, dag, graph_rows, viewVars>>

NoEvent == [kind |-> "none"]
Announcements == [kind : {"announced"}, hash : Hashes, status : BlockStatus]
BlockCreated(h, n, s) ==
    [kind |-> "block", hash |-> h, block |-> [number |-> n, status |-> s]]
StatusOnly(h, s) == [kind |-> "status", hash |-> h, status |-> s]
Failure == [kind |-> "error"]

DagEvents == [kind : {"block"}, hash : Hashes, block : DagBlock]
             \cup [kind : {"status"}, hash : Hashes, status : BlockStatus]
             \cup {Failure}

Connected == ws \in {"reading", "fetching", "stuck", "sending"}
Running == phase # "done"

Init ==
    /\ stage = [h \in Hashes |-> 0] /\ missed = {}
    /\ stream = <<>>
    /\ ws = "none" /\ in_hand = NoEvent /\ attempt = 0
    /\ channel = <<>>
    /\ to_load = [h \in {} |-> Added]
    /\ phase = "fetch"
    /\ dag = EmptyDag /\ graph_rows = <<>>
    /\ selected_index = 0 /\ scroll_offset = 0 /\ follow_head = TRUE
    /\ show_details = FALSE /\ height = 0

-----------------------------------------------------------------------------
(* The node (external) *)

\* A block is proposed by this node (Created) or arrives from a peer (Added),
\* is added after its parents and finalised after them.
Advance(h) ==
    /\ Running
    /\ stage[h] < Finalized
    /\ \E s \in BlockStatus :
         /\ s = stage[h] + 1 \/ (stage[h] = 0 /\ s = Added)
         /\ \A p \in ParentsOf[h] : stage[p] >= (IF s = Finalized THEN s ELSE Added)
         /\ stage' = [stage EXCEPT ![h] = s]
         /\ IF Connected
            THEN /\ stream' = Append(stream, [kind |-> "announced", hash |-> h, status |-> s])
                 /\ missed' = missed \ {h}
            ELSE /\ stream' = stream
                 /\ missed' = missed \cup {h}
    /\ UNCHANGED <<wsVars, channel, to_load, phase, dag, graph_rows, viewVars>>

-----------------------------------------------------------------------------
(* run_dag: the initial blocks, then the listener *)

\* GET /api/blocks/{depth}: the blocks in the node's DAG down to some height.
FetchInitialBlocks ==
    /\ phase = "fetch"
    /\ \E low \in {0} \cup {NumberOf[h] : h \in Hashes} :
         to_load' = [h \in {x \in Hashes : stage[x] >= Added /\ NumberOf[x] >= low} |->
                        stage[h]]
    /\ missed' = missed \ DOMAIN to_load'
    /\ phase' = "load"
    /\ UNCHANGED <<stage, stream, wsVars, channel, dag, graph_rows, viewVars>>

\* The request fails and the command ends.
FetchInitialFails ==
    /\ phase = "fetch"
    /\ phase' = "done"
    /\ UNCHANGED <<nodeVars, stream, wsVars, channel, to_load, dag, graph_rows, viewVars>>

\* One block of load_blocks, in the order of the answer, which may be any.
LoadBlock ==
    /\ phase = "load"
    /\ \E h \in DOMAIN to_load :
         /\ dag' = AddBlock(dag, h, [number |-> NumberOf[h], status |-> to_load[h]])
         /\ to_load' = [x \in DOMAIN to_load \ {h} |-> to_load[x]]
    /\ UNCHANGED <<nodeVars, stream, wsVars, channel, phase, graph_rows, viewVars>>

\* The layout is computed, the listener spawned unless --no-live.
StartApp ==
    /\ phase = "load"
    /\ DOMAIN to_load = {}
    /\ graph_rows' \in Sortings(dag.blocks)
    /\ ws' \in {"connecting", "none"}
    /\ phase' = "drain"
    /\ UNCHANGED <<nodeVars, stream, in_hand, attempt, channel, to_load, dag, viewVars>>

-----------------------------------------------------------------------------
(* run_websocket_listener *)

\* connect_async succeeds; announcements are received from now on.
Connect ==
    /\ Running
    /\ ws = "connecting"
    /\ ws' = "reading"
    /\ UNCHANGED <<nodeVars, stream, in_hand, attempt, channel, to_load, phase, dag,
                   graph_rows, viewVars>>

\* connect_async fails, or the stream is closed; nobody connects again.
Disconnect ==
    /\ Running
    /\ ws = "connecting" \/ ws = "reading"
    /\ ws' = "closed"
    /\ stream' = <<>>
    /\ UNCHANGED <<nodeVars, in_hand, attempt, channel, to_load, phase, dag, graph_rows,
                   viewVars>>

\* The stream fails; the error goes to the application.
StreamFails ==
    /\ Running
    /\ ws = "reading"
    /\ ws' = "failing"
    /\ in_hand' = Failure
    /\ stream' = <<>>
    /\ UNCHANGED <<nodeVars, attempt, channel, to_load, phase, dag, graph_rows, viewVars>>

\* The next block event is taken from the stream and parsed.
ReadEvent ==
    /\ Running
    /\ ws = "reading"
    /\ stream # <<>>
    /\ in_hand' = Head(stream)
    /\ stream' = Tail(stream)
    /\ ws' = "fetching"
    /\ attempt' = 0
    /\ UNCHANGED <<nodeVars, channel, to_load, phase, dag, graph_rows, viewVars>>

\* Variant: with the status that the node reports.
EnrichedAsReported(a) == BlockCreated(a.hash, NumberOf[a.hash], stage[a.hash])

\* What a block fetched because of an announcement is sent as: with the
\* status announced, not the one the node reports.
Enriched(a) == BlockCreated(a.hash, NumberOf[a.hash], a.status)

\* fetch_block_by_hash finds the block, which the node has once it is added.
FetchFinds ==
    /\ Running
    /\ ws = "fetching"
    /\ stage[in_hand.hash] >= Added
    /\ in_hand' = Enriched(in_hand)
    /\ ws' = "sending"
    /\ UNCHANGED <<nodeVars, stream, attempt, channel, to_load, phase, dag, graph_rows,
                   viewVars>>

\* What is sent when it does not: a created block without its number, or a
\* change of status.
Unenriched(a) == IF a.status = Created THEN BlockCreated(a.hash, Unknown, Created)
                 ELSE StatusOnly(a.hash, a.status)

\* Variant: an event that cannot be completed is not sent.
FetchMissesAndSkips ==
    /\ Running
    /\ ws = "fetching"
    /\ IF attempt + 1 < FetchAttempts
       THEN attempt' = attempt + 1 /\ UNCHANGED <<in_hand, ws>>
       ELSE attempt' = 0 /\ in_hand' = NoEvent /\ ws' = "reading"
    /\ UNCHANGED <<nodeVars, stream, channel, to_load, phase, dag, graph_rows, viewVars>>

\* Variant: attempts are not counted.
FetchMissesForEver ==
    /\ Running
    /\ ws = "fetching"
    /\ UNCHANGED vars

\* An attempt fails; after the last one the event is sent as it is.
FetchMisses ==
    /\ Running
    /\ ws = "fetching"
    /\ attempt' = attempt + 1
    /\ IF attempt' < FetchAttempts
       THEN UNCHANGED <<in_hand, ws>>
       ELSE in_hand' = Unenriched(in_hand) /\ ws' = "sending"
    /\ UNCHANGED <<nodeVars, stream, channel, to_load, phase, dag, graph_rows, viewVars>>

\* No timeout is set: a request that is never answered stops the listener, not
\* what it is sent nor the application.
NeverAnswered ==
    /\ Running
    /\ ws = "fetching"
    /\ ws' = "stuck"
    /\ UNCHANGED <<nodeVars, stream, in_hand, attempt, channel, to_load, phase, dag,
                   graph_rows, viewVars>>

\* tx.send waits for room in the channel.
Send ==
    /\ Running
    /\ ws = "sending" \/ ws = "failing"
    /\ Len(channel) < ChannelCapacity
    /\ channel' = Append(channel, in_hand)
    /\ ws' = IF ws = "sending" THEN "reading" ELSE "closed"
    /\ in_hand' = NoEvent
    /\ attempt' = 0
    /\ UNCHANGED <<nodeVars, stream, to_load, phase, dag, graph_rows, viewVars>>

-----------------------------------------------------------------------------
(* main_loop: drain the channel, draw, read a key *)

\* Variant: rows are laid out again only when a block is new.
HandleDagEventLayingOutNew ==
    /\ phase = "drain"
    /\ ~show_details
    /\ channel # <<>>
    /\ channel' = Tail(channel)
    /\ LET e == Head(channel)
       IN  \/ /\ e.kind = "block"
              /\ dag' = AddBlock(dag, e.hash, e.block)
              /\ IF e.hash \in Known(dag) THEN UNCHANGED graph_rows
                 ELSE graph_rows' \in Sortings(dag'.blocks)
              /\ IF follow_head
                 THEN selected_index' = 0 /\ scroll_offset' = 0
                 ELSE UNCHANGED <<selected_index, scroll_offset>>
           \/ /\ e.kind = "status"
              /\ dag' = UpdateStatus(dag, e.hash, e.status)
              /\ UNCHANGED <<graph_rows, selected_index, scroll_offset>>
           \/ /\ e.kind = "error"
              /\ UNCHANGED <<dag, graph_rows, selected_index, scroll_offset>>
    /\ UNCHANGED <<nodeVars, stream, wsVars, to_load, phase, follow_head, show_details,
                   height>>

\* Variant: events are handled although the details are open.
HandleDagEventBehindDetails ==
    /\ phase = "drain"
    /\ channel # <<>>
    /\ channel' = Tail(channel)
    /\ LET e == Head(channel)
       IN  \/ /\ e.kind = "block"
              /\ dag' = AddBlock(dag, e.hash, e.block)
              /\ graph_rows' \in Sortings(dag'.blocks)
              /\ IF follow_head
                 THEN selected_index' = 0 /\ scroll_offset' = 0
                 ELSE UNCHANGED <<selected_index, scroll_offset>>
           \/ /\ e.kind = "status"
              /\ dag' = UpdateStatus(dag, e.hash, e.status)
              /\ UNCHANGED <<graph_rows, selected_index, scroll_offset>>
           \/ /\ e.kind = "error"
              /\ UNCHANGED <<dag, graph_rows, selected_index, scroll_offset>>
    /\ UNCHANGED <<nodeVars, stream, wsVars, to_load, phase, follow_head, show_details,
                   height>>

\* The next event is taken and handled.  (The code first collects the events
\* and then handles them in the same order; nothing looks in between.)
HandleDagEvent ==
    /\ phase = "drain"
    /\ ~show_details
    /\ channel # <<>>
    /\ channel' = Tail(channel)
    /\ LET e == Head(channel)
       IN  \/ /\ e.kind = "block"
              /\ dag' = AddBlock(dag, e.hash, e.block)
              /\ graph_rows' \in Sortings(dag'.blocks)
              /\ IF follow_head
                 THEN selected_index' = 0 /\ scroll_offset' = 0
                 ELSE UNCHANGED <<selected_index, scroll_offset>>
           \/ /\ e.kind = "status"
              /\ dag' = UpdateStatus(dag, e.hash, e.status)
              /\ UNCHANGED <<graph_rows, selected_index, scroll_offset>>
           \/ /\ e.kind = "error"
              /\ UNCHANGED <<dag, graph_rows, selected_index, scroll_offset>>
    /\ UNCHANGED <<nodeVars, stream, wsVars, to_load, phase, follow_head, show_details,
                   height>>

EndDrain ==
    /\ phase = "drain"
    /\ show_details \/ channel = <<>>
    /\ phase' = "draw"
    /\ UNCHANGED <<nodeVars, stream, wsVars, channel, to_load, dag, graph_rows, viewVars>>

\* The scroll offset that shows row i in a list of so many lines.
ScrollTo(i, scroll, lines) ==
    IF i < scroll THEN i
    ELSE IF i >= scroll + lines THEN i - lines + 1
    ELSE scroll

\* Variant: the scroll offset is left as the keys set it.
DrawAsScrolled ==
    /\ phase = "draw"
    /\ phase' = "key"
    /\ IF show_details THEN height' = 0 ELSE height' \in Heights
    /\ UNCHANGED <<nodeVars, stream, wsVars, channel, to_load, dag, graph_rows,
                   cursorVars, show_details>>

\* render: the main view adjusts the scroll offset to the height it is given.
Draw ==
    /\ phase = "draw"
    /\ phase' = "key"
    /\ IF show_details
       THEN height' = 0 /\ UNCHANGED scroll_offset
       ELSE /\ height' \in Heights
            /\ scroll_offset' = ScrollTo(selected_index, scroll_offset, height')
    /\ UNCHANGED <<nodeVars, stream, wsVars, channel, to_load, dag, graph_rows,
                   selected_index, follow_head, show_details>>

\* Common to all keys, and to none within 100 ms.
HandleKey ==
    /\ phase = "key"
    /\ height' = 0
    /\ UNCHANGED <<nodeVars, stream, wsVars, channel, to_load, dag, graph_rows>>

\* Move the cursor to a row, scrolling by the height that is assumed.
MoveTo(i) ==
    /\ HandleKey
    /\ phase' = "drain"
    /\ selected_index' = i
    /\ scroll_offset' = ScrollTo(i, scroll_offset, AssumedHeight)
    /\ UNCHANGED show_details

AtTop == selected_index' = 0 /\ scroll_offset' = 0

LastRow == IF graph_rows = <<>> THEN 0 ELSE Len(graph_rows) - 1

Up ==
    /\ selected_index > 0
    /\ MoveTo(selected_index - 1)
    /\ follow_head' = AtTop

\* Variant: the last row is no limit.
DownAnyway ==
    /\ MoveTo(selected_index + 1)
    /\ follow_head' = FALSE

Down ==
    /\ selected_index + 1 < Len(graph_rows)
    /\ MoveTo(selected_index + 1)
    /\ follow_head' = FALSE

PageUp ==
    /\ MoveTo(IF selected_index > Page THEN selected_index - Page ELSE 0)
    /\ follow_head' = AtTop

PageDown ==
    /\ MoveTo(IF selected_index + Page < LastRow THEN selected_index + Page ELSE LastRow)
    /\ follow_head' = FALSE

\* g
Top ==
    /\ HandleKey
    /\ phase' = "drain"
    /\ selected_index' = 0 /\ scroll_offset' = 0
    /\ follow_head' = TRUE
    /\ UNCHANGED show_details

\* G, which leaves follow_head as it is
Bottom ==
    /\ MoveTo(LastRow)
    /\ UNCHANGED follow_head

Enter ==
    /\ HandleKey
    /\ phase' = "drain"
    /\ show_details' = ~show_details
    /\ UNCHANGED cursorVars

\* q or Esc: leave the details, else the application.
Quit ==
    /\ HandleKey
    /\ show_details' = FALSE
    /\ phase' = IF show_details THEN "drain" ELSE "done"
    /\ UNCHANGED cursorVars

\* No key, another key, or one that cannot move the cursor.
NoKey ==
    /\ HandleKey
    /\ phase' = "drain"
    /\ UNCHANGED <<cursorVars, show_details>>

Key == Up \/ Down \/ PageUp \/ PageDown \/ Top \/ Bottom \/ Enter \/ Quit \/ NoKey

-----------------------------------------------------------------------------

Listener == ReadEvent \/ FetchFinds \/ FetchMisses \/ Send
App == HandleDagEvent \/ EndDrain \/ Draw \/ Key

Next ==
    \/ \E h \in Hashes : Advance(h)
    \/ FetchInitialBlocks \/ FetchInitialFails \/ LoadBlock \/ StartApp
    \/ Connect \/ Disconnect \/ StreamFails \/ NeverAnswered
    \/ Listener
    \/ App

Spec == Init /\ [][Next]_vars

\* The listener task and the application's loop keep running, the one unless a
\* request is never answered; no key press lasts longer than 100 ms.
FairSpec == Spec /\ WF_vars(Listener) /\ WF_vars(App)

-----------------------------------------------------------------------------
(* Properties *)

\* Every variable has its type, the graph its shape and the rows its blocks.
TypeOK ==
    /\ stage \in [Hashes -> 0..Finalized]
    /\ stream \in Seq(Announcements)
    /\ ws \in {"none", "connecting", "reading", "fetching", "stuck", "sending", "failing",
              "closed"}
    /\ ws \in {"fetching", "stuck"} => in_hand \in Announcements /\ attempt < FetchAttempts
    /\ ws \in {"sending", "failing"} => in_hand \in DagEvents
    /\ attempt \in 0..FetchAttempts
    /\ channel \in Seq(DagEvents)
    /\ \A h \in DOMAIN to_load : h \in Hashes /\ to_load[h] \in BlockStatus
    /\ phase \in {"fetch", "load", "drain", "draw", "key", "done"}
    /\ graph_rows \in Seq(Hashes)
    /\ IsDag(dag)
    /\ selected_index \in Nat /\ scroll_offset \in Nat /\ height \in Nat
    /\ show_details \in BOOLEAN /\ follow_head \in BOOLEAN

\* The channel never holds more than it can; the listener waits instead, also
\* while the details are open and nobody drains it.
ChannelIsBounded == Len(channel) <= ChannelCapacity

\* The selected row exists, or there are no rows: no key and no event leaves
\* the cursor behind the end of the list.
SelectionExists ==
    selected_index < Len(graph_rows) \/ (selected_index = 0 /\ graph_rows = <<>>)

\* What the user sees contains the selected row, whatever the terminal's size
\* and although the keys scroll by an assumed height.
SelectionIsVisible ==
    phase = "key" /\ height > 0 =>
        scroll_offset <= selected_index /\ selected_index < scroll_offset + height

\* Once the blocks are loaded, there is one row for each known block, sorted by
\* the numbers they have now.
RowsMatchBlocks ==
    phase \in {"drain", "draw", "key"} => graph_rows \in Sortings(dag.blocks)

\* The rows are fit for DagLayout, which relies on it: the blocks with a number come
\* first, and each of them is above all of its parents, whether these have their
\* number or not, and in whatever order blocks and numbers become known.
RowsSuitLayout ==
    phase \in {"drain", "draw", "key"} =>
        \E numbered \in 0..Len(graph_rows) :
            /\ \A i \in DOMAIN graph_rows :
                  i <= numbered <=> dag.blocks[graph_rows[i]].number # Unknown
            /\ \A i \in 1..numbered, j \in DOMAIN graph_rows :
                  graph_rows[j] \in ParentsOf[graph_rows[i]] => i < j

\* The relations between blocks are right whatever the order in which blocks
\* become known, and when they are replaced by later versions of themselves.
GraphIsConsistent == ChildrenMirrorParents(dag) /\ ChildlessAreTips(dag)

\* Neither does a block's status go back nor is its number forgotten, although
\* a block is replaced by every event about it, and some come without number.
BlocksOnlyAdvance ==
    [][\A h \in Known(dag) :
         /\ h \in Known(dag')
         /\ dag'.blocks[h].status >= dag.blocks[h].status
         /\ dag.blocks[h].number # Unknown => dag'.blocks[h].number = dag.blocks[h].number]_vars

\* Whoever compares hashes in the details sees the same blocks, and keeps seeing
\* the details, until a key is pressed, and an event moves the cursor only while
\* follow_head is set. Of those who leave the top that is so for everyone but who
\* leaves it with G, which does not clear follow_head: the next block takes the
\* cursor back.
ViewIsSteady ==
    [][/\ show_details /\ phase # "key" => UNCHANGED <<dag, graph_rows, selected_index>>
       /\ phase # "key" => UNCHANGED show_details
       /\ phase = "drain" /\ ~follow_head => UNCHANGED selected_index
       /\ (follow_head => selected_index = 0) =>
             (follow_head' => selected_index' = 0) \/ Bottom]_vars

\* When everything received has been handled, every block shown has the status
\* it has at the node, unless its last step was announced before the listener
\* was connected.
CurrentWhenDrained ==
    ws = "reading" /\ stream = <<>> /\ channel = <<>> =>
        \A h \in Known(dag) \ missed : dag.blocks[h].status = stage[h]

\* A shown block whose finalisation is announced is shown as final in the end,
\* if the details are closed again and again and the connection lasts; only a
\* request that is never answered can hold it back.
FinalityIsShown ==
    []<>(~show_details /\ phase = "drain") =>
        \A h \in Hashes :
            (/\ Connected /\ h \in Known(dag) \ missed
             /\ stage[h] = Finalized) ~>
                (h \in Known(dag) /\ dag.blocks[h].status = Finalized)
                \/ ~Connected \/ ws = "stuck"

-----------------------------------------------------------------------------
(* The inductive invariant behind the properties of the view *)

NothingShownBeforeStart ==
    phase \in {"fetch", "load"} =>
        graph_rows = <<>> /\ selected_index = 0 /\ ~show_details

\* What was announced and is not handled yet: sent by the node, in the listener's
\* hand or in the channel.  A failure of the stream concerns no block.
Working == ws \in {"fetching", "stuck", "sending"}
OnTheWay == {channel[i] : i \in DOMAIN channel}
            \cup (IF Working THEN {in_hand} ELSE {})
            \cup {stream[i] : i \in DOMAIN stream}

Concerns(e, h) == e.kind # "error" /\ e.hash = h
StatusOf(e) == IF e.kind = "block" THEN e.block.status ELSE e.status
Precedes(d, e) ==
    \A h \in Hashes : Concerns(d, h) /\ Concerns(e, h) => StatusOf(d) < StatusOf(e)

\* The announcements of one block keep their order on the whole way.
NewsIsOrdered ==
    /\ \A i, j \in DOMAIN channel : i < j => Precedes(channel[i], channel[j])
    /\ \A i, j \in DOMAIN stream : i < j => Precedes(stream[i], stream[j])
    /\ \A i \in DOMAIN channel, j \in DOMAIN stream : Precedes(channel[i], stream[j])
    /\ Working => /\ \A i \in DOMAIN channel : Precedes(channel[i], in_hand)
                  /\ \A j \in DOMAIN stream : Precedes(in_hand, stream[j])

\* It is ahead of the graph and not of the node, and only the first news of a
\* block may come without its number.
NewsIsNew ==
    \A e \in OnTheWay : \A h \in Hashes : Concerns(e, h) =>
        /\ StatusOf(e) <= stage[h]
        /\ h \in Known(dag) => dag.blocks[h].status < StatusOf(e)
        /\ e.kind = "block" => \/ e.block.number = NumberOf[h]
                               \/ e.block.number = Unknown /\ e.block.status = Created

\* The last news of a block that was not missed is the node's, or the graph is.
NewsIsComplete ==
    ws \notin {"failing", "closed"} =>
        \A h \in Hashes \ missed :
            IF \E e \in OnTheWay : Concerns(e, h)
            THEN \E e \in OnTheWay : Concerns(e, h) /\ StatusOf(e) = stage[h]
            ELSE h \in Known(dag) => dag.blocks[h].status = stage[h]

GraphIsBehind ==
    \A h \in Known(dag) : /\ dag.blocks[h].status <= stage[h]
                          /\ dag.blocks[h].number \in {Unknown, NumberOf[h]}

\* The initial blocks are loaded before anything is announced to the listener.
LoadComesFirst ==
    /\ phase \in {"fetch", "load"} => ws = "none"
    /\ ws \in {"none", "connecting"} => channel = <<>> /\ stream = <<>>
    /\ ws = "failing" => in_hand = Failure /\ stream = <<>>
    /\ ws = "closed" => stream = <<>>
    /\ phase = "fetch" => Known(dag) = {}
    /\ \A h \in DOMAIN to_load :
          /\ phase = "load" /\ h \notin Known(dag) /\ to_load[h] <= stage[h]
          /\ h \notin missed => to_load[h] = stage[h]

NewsInv ==
    NewsIsOrdered /\ NewsIsNew /\ NewsIsComplete /\ GraphIsBehind /\ LoadComesFirst

IInv ==
    /\ TypeOK
    /\ ChannelIsBounded
    /\ NothingShownBeforeStart
    /\ RowsMatchBlocks
    /\ SelectionExists
    /\ SelectionIsVisible
    /\ GraphIsConsistent
    /\ NewsInv
=============================================================================
