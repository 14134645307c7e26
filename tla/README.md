# Verification of the F1R3FLY rust-client

The repository holds a Rust library and a command-line client for F1R3FLY nodes. The client
deploys Rholang code over gRPC, waits until a block has the deploy and an observer calls the
block final, reads results, follows the node's WebSocket events, and shows the block DAG in a
terminal. This directory models the parts of it that decide something: TLA+ modules checked
with TLC on small instances, and theorems about them checked with TLAPS.

Paths are relative to the repository's root; `src/` is its Rust code.

## 1. The system

| Component | Code | State it keeps | Operations | Status |
|---|---|---|---|---|
| Finality notifications | `src/events.rs` | `pending`, `results` behind tokio mutexes; one listener task | connect, `wait_for_deploy`, `is_finalized` | modelled, proved |
| Tip sampling, VABN | `src/grpc/{mod,blocks,deploy}.rs` | `tip_floor` atomic per `F1r3flyApi` | `deploy`, `deploy_internal`, `get_current_block_number*` | modelled, proved |
| Deploy workflow | `src/connection_manager.rs`, `src/grpc/{blocks,query,http}.rs` | polling counters of one call | `deploy_and_wait`, `wait_for_deploy`, `wait_for_finalization`, `is_finalized` | modelled, proved |
| Commands on the workflow | `src/commands/network.rs` | none | deploy-and-wait, transfer, bond-validator, from arguments to propose | modelled, proved |
| Submission | `src/commands/network.rs`, `src/grpc/deploy.rs` | none; the node's deploy pool | deploy, full-deploy, propose and the manager's `deploy` | modelled, proved |
| Single requests | `src/grpc/*.rs`, `src/f1r3fly_api.rs` | none | exploratory deploy, block and deploy queries | where a modelled call makes them |
| DAG viewer | `src/dag/*`, `src/commands/dag.rs` | block graph, tips, rows, selection, a channel of 100 events | initial fetch, WebSocket task, event and key handlers, layout | modelled, proved (not the rendering) |
| watch-events | `src/commands/events.rs` | retry counter, statistics | connect and watch, reconnect, Ctrl-C | modelled, proved |
| Peer discovery | `src/commands/query.rs` (network-health) | queue, visited set, peers found | breadth-first search with a limit | modelled, proved |
| Validator, epoch, consensus queries | `src/commands/query.rs` | none; up to three answers in flight | six PoS commands, epoch arithmetic | modelled, proved (not epoch-rewards) |
| Load test | `src/commands/load_test.rs` | results of the tests so far | deploy, poll, verdict, statistics | modelled, proved |
| Keys, addresses, vault, registry, signing | `src/utils/crypto.rs`, `src/vault.rs`, ... | none | derivations and encodings | not modelled |
| Arguments, dispatch, errors, output | `src/args.rs`, `src/dispatcher.rs`, ... | none | declarations and formatting | the widths of arguments only |

How they interact. A command builds an `F1r3flyConnectionManager`, which builds an
`F1r3flyApi` for every operation; the `F1r3flyApi` opens a gRPC or HTTP connection for every
request. `deploy_and_wait` chains five requests or polling loops: deploy (which first chooses
a VABN from tip samples), locate, confirm on the observer, read data, ask for detail. A
library user may instead hold one `F1r3flyApi` (as the load test does) or one `NodeEvents`,
whose clones share the tables of one background task.

What is hard to test, and drives the properties:

- `NodeEvents`: any interleaving of the listener with many calls over two mutexes; a check
  made under one lock and a registration under another; a `notified()` created after the
  entry is visible; two calls for one deploy; a future dropped half-way; lost connections.
- Tip floor: load and store of one atomic as separate steps, shared by concurrent deploys or
  forgotten between them; a node that reports stale tips; all samples failing.
- Submission: deploys that are live although their caller was told of a failure, a deploy
  followed by a request for a block while other proposers are at work, a validity window.
- Workflow: five phases any of which can fail or stay unanswered; competing blocks for one
  deploy; attempts computed from one interval and slept with another; a zero interval; an
  errored deploy in a successful workflow; a `--propose` that comes after the wait.
- DAG viewer: events out of order and duplicated, a bounded channel that is not drained in
  detail view, blocks missed between fetch and subscription, columns of the layout.
- watch-events: a retry counter that is never reset, startup events heard again with every
  connection, Ctrl-C competing with messages and listened to only inside a connection.
- Peer discovery: cyclic peer lists, two ways into one queue, a limit checked in three places.
- PoS queries: answers evaluated at different blocks, an unsigned subtraction, a division by
  what a contract returned.
- Load test: forks and late finality between the last question and the verdict, an interval or
  timeout of zero, one error that ends all tests.
- Arguments: products, sums and conversions of seconds, amounts and expirations in fixed
  widths, which wrap in one build and panic in the other.

`PROJECT.json` lists each of them with its line and the properties that cover it.

What makes each component correct, in a sentence: a waiting call is answered by the node's
announcement and by nothing else, and is not forgotten; a deploy is never valid only after a
block that does not exist, nor older than one it follows; what is sent is what was asked for,
and what is told is what happened; success means final; the viewer
shows every block it was told of, once, with its latest status; a watch ends only when told
to or when its retries are spent; discovery visits every reachable peer once, up to its limit.

## 2. Modules

```
FinalityWatch <--- NodeEvents <--- MCNodeEvents, EventsProofs
 (abstract)
WatchEvents <--- MCWatchEvents, EventsProofs
TipFloor <--- Submission <--- MCSubmission, SubmissionProofs
DeployAndWait <--- MCDeployAndWait, DeployAndWaitProofs
DagGraph <--- DagViewer <--- MCDagViewer, DagViewerProofs
DagLayout <--- MCDagLayout, DagLayoutProofs
PeerDiscovery <--- MCPeerDiscovery, PeerDiscoveryProofs
PosQueries <--- MCPosQueries, PosQueriesProofs
LoadTest <--- MCLoadTest, LoadTestProofs
```

`EventsProofs` holds the proofs about both modules that listen to the node's events, and extends
both; names of WatchEvents that would clash with those of NodeEvents begin with `Watch`.

A definition commented as a *variant* is not part of a specification. It is the definition
that follows it with a plausible slip; replacing the one by the other must violate a property,
and `PROJECT.json` ("mutants") says which.

### FinalityWatch

What `NodeEvents` promises: a record of finalised deploys, and calls that ask once and are
answered from the record, or with nothing; an `is_finalized` call is told nothing only if
nothing is on record. Under weak fairness of the answer every call that asks is answered.

### NodeEvents

`src/events.rs` line by line, with the JSON envelope reduced to "a block-finalised event with
these deploys" or "a message to skip".

- `lock`, `pending`, `results` are the two mutexes and the tables they guard. An entry of
  `pending` is the call whose `Notify` it holds; a `Notify` belongs to exactly one call.
- `lpc`, `stream`, `batch` are the listener: connecting, reading, recording a block deploy by
  deploy with both guards held, sleeping. It takes `pending`, then `results` (LockTables).
- `pc`, `wid`, `ret` are the calls. Steps are cut at awaits: waiting for a mutex is a state,
  the guarded block with the drop of its guard is one step. `registered` is the gap between
  the drop of the guard and the creation of `notified()`; `notify_waiters` reaches only calls
  past it (`listening`), because it stores no permit.
- The timer may fire at any time once armed. `Cancel` drops the future at any await; the code
  has no clean-up there, so the entry stays.
- `sent` and `contended` are history variables: what the node announced, and which calls were
  registered for a deploy at the same time as another.

### TipFloor

`head` is the chain; a node reports the head, anything older, or fails. `Sample`,
`SamplingFails`, `LoadFloor`, `StoreFloor` follow `get_current_block_number_sampled` and
`_monotonic` and the fallback of `deploy`; `DirectTip` is `deploy_internal`. `Shared` says
whether the calls use one `F1r3flyApi` (a library user, the load test) or one each (the
connection manager). `lostUpdate` records that a store overwrote a floor its call had not
loaded; `earlier` which sampled deploys a call comes after. The message and its signature play
no part in the choice and are left out. TipFloor is checked as a part of Submission.

### Submission

What the choice of the VABN is for, on top of TipFloor. A call is a `deploy`, a `full_deploy`,
the manager's `deploy` or a `propose`; `step` says how far it is, `told` what its caller was
told. The node is external: it takes a deploy (`taken`), refuses it, or takes it and its answer
is lost; `Pending` are the deploys the next block may hold, those in their validity window;
a block appears by itself, with any of them, or is asked for, with all of them (`includedAt`).
`ProposeAnswers` are the forms of answer that `propose` tells apart; `ToldAfter` is its
`Proposed`, `Skipped` or error. `proposedAt` and `lost` are history variables. A request
without a timeout may never be answered: only `SampleTip`, whose requests have one, is fair.

### DeployAndWait

One call from its arguments to its last line. `args` is what the caller was asked for, chosen
from a set of records around every limit: `build_config` drops the upper half of the seconds
(`DeployTimeout`, `FinalizationTimeout`), `transfer_command` multiplies the amount
(`AskedAmount`, `AmountSent`), `calculate_expiration_timestamp` computes with i64
(`ExpirySent`). `ArgumentOverflow` is the panic of a build that checks its arithmetic, `Reject`
an unreadable file, a malformed address or a key that gives no sender; `KeyFails` is a key that
is only looked at when the API is built.

Then the call, with the chain and the network as nondeterminism: blocks include the deploy and
become final at any time, but only if somebody makes blocks unasked (`heartbeat`) or was asked
to (`proposed`); requests fail at any time or are never answered (`NeverAnswered`, after which
the call is `silent`); an observer may answer "not yet" for a final block. `attempts` and
`waited` are those of the current loop. `DivideByZero` is the panic of the integer division.
`Report` is what the caller makes of the result: `transfer_command` checks `errored`, the
others return `Ok`; with `--propose` the three commands then ask for a block (`Propose`). The
deploy's own VABN choice is the subject of TipFloor. The is-finalized command is the confirming
phase with attempts and a delay of its own.

### DagGraph

The `Dag` of `src/dag/model.rs` as a value: `AddBlock`, `UpdateStatus` and the orders that
`sort_blocks` may produce. A block is its number and its status. Blocks of one number are
ordered by timestamps, which change between the event and the answer about a block; the model
allows any order of them. Children and tips are sets, because nobody reads their order.

### DagViewer

`src/commands/dag.rs` and `src/dag/app.rs`, composed with DagGraph.

- The node is external: a block is created (or arrives from a peer), added after its parents
  and finalised after them, and each step is announced once, in order, to a listener that is
  connected. `missed` remembers the blocks whose last step was announced to nobody.
- `phase` is where the one thread of `run_dag` is: fetching and loading the initial blocks,
  then the main loop of draining, drawing and reading a key. `HandleDagEvent` handles one
  event; the code collects all events first and then handles them in the same order, between
  which nobody looks at the graph.
- `ws`, `in_hand`, `attempt` are the WebSocket task. It works on one event at a time: read,
  up to three requests, `tx.send`, which waits while the channel is full. The block that is
  sent carries the status of the announcement. A connection that ended is not made again. A
  request that is never answered leaves the task in "stuck".
- The rows are the sorted blocks, `selected_index` and `scroll_offset` count from 0 as in the
  code. `height` is what the last draw of the main view was given, 0 when there is none.
- Terminal set-up, the status line and what a row looks like are left out; so is the layout
  of the columns, which is DagLayout's subject.

### DagLayout

The loop of `compute_layout`, one action per part of an iteration: place the node, give each
parent a column, pass on the node's own column, let columns follow the additional parents,
trim. A block is its place in the sorted order. The graph is not fixed beforehand: the parents
of a block are chosen when its row begins, out of those that a DAG sorted this way can have.
Blocks below `numbered` carry the placeholder number -1 and may stand below their own parents.
Columns count from 1. `app.rs` and `renderer.rs` read only `node_column` of a row (as a
colour); the edges and columns are computed and not yet drawn.

### PeerDiscovery

`network_health_command`, both modes. An endpoint is a `uri_key`. The nodes are external: an
endpoint answers with any list of peers or does not answer. `queue`, `visited`,
`node_status_map` are the code's; `discovered` is `discovered_peers`, `rest` the part of the
last answer that the `for` loop has not come to. One iteration of the outer loop is a query
(`QueryAnswered`, `QueryFails`) and a step for each peer of the answer (`AddPeer`, `SkipPeer`);
`LimitReached` is the comparison the code makes in three places. The HTTP client has no timeout,
and an endpoint may take the connection and never answer (`NeverAnswered`), which leaves the
command "stuck". Statistics and display of the peers are left out.

### PosQueries

`validator_status_command`, `epoch_info_command` and `network_consensus_command`: each asks for
the tip and then three requests run at once, answered in any order, while the shard goes on.
`bonds_command`, `active_validators_command` and `bond_status_command` send one of the requests
alone; they print an HTTP status that is no success and return `Ok` (`StatusIsPrinted`).
An HTTP answer is the block it was evaluated at. `Validators` is `parse_validator_data`, which
reads the bonds of that block for both queries; its fallback for keys of 64 digits finds
nothing in the answers of a node and is part of `Unreadable`. The subtraction of the counts may
panic or wrap, as the build decides.

### LoadTest

`load_test_command` and `run_single_test`, with `is_finalized` and `show_main_chain` of
`src/grpc/blocks.rs`. The shard is external: blocks on any branch, a fork choice that keeps
what is final, finalisation along the main chain. A block has the transfer of one test or of
none, and not one that its branch has already. `verdict` is the line that is printed; the
`TestResult` only keeps `on_main_chain`. The pause between tests has no effect in the model,
because the shard may move at any time.

`args` is a record out of `Arguments`, whose fields keep the widths of their types (`U32` and
`U64` values). The attempts of `is_finalized` are what `as u32` leaves of a quotient
(`MaxFinalizationAttempts`); the depth of the main chain goes out `as i32`, so that the upper half
of the depths arrives negative (`DepthSent`), for which a node may show any part of its chain
(`DepthsShown`); the amount is multiplied before anything is sent, and in a build that checks its
arithmetic that may panic (`AmountOverflow`). Neither gRPC nor HTTP requests have a timeout:
`NeverAnswered` may stop the test at any of them, in "stuck".

### WatchEvents

`watch_events_command`, `connect_and_watch`, `handle_event`. `handler` and `listening` separate
what tokio keeps apart: the process-wide handler, installed when a `ctrl_c()` future is first
polled and never removed, and the future of this connection, which `select!` may not poll for
some rounds because it starts with a random branch. A press is heard by a listening
connection, kills the process if there is no handler, and is lost otherwise, as in the delay before
a reconnect. An attempt to connect may never end: the code sets no timeout on it. Of the events only
the category matters. What the node sends at the start of a connection is `Startup`.

## 3. What is checked

| Run | Instance | What it shows |
|---|---|---|
| events | 2 calls, 2 deploys, blocks of one and of both, 2 messages, fair | `LoneCallWoken`, `EveryCallReturns`, `DeliveredIsRecorded`, `ImplementsWatch`, `IInv` |
| submission | 2 calls (symmetric) of any kind on one API, a chain of up to 4 blocks, a window of 2, fair | `SequentialDeploysNeverRegress`, `ProposedHoldsDeploy`, `CallersAreTold`, `SamplingEnds`, `SubmissionIInv` |
| deploy_and_wait | 2 blocks, 4 callers, 2^32 as 16 and 2^64 as 64, intervals 0, 1, 2, 5, arguments around each limit, both builds, fair | `ArgumentsArrive`, `WaitsAreBounded`, `AlwaysEnds`, `IInv` |
| dag_layout | 4 blocks, up to 3 parents each, any graph | `EdgesMeetTheirParent`, `NodesStandOnTheirLine`, `IInv` |
| dag_viewer | a block and its child, a channel of two events, two attempts, heights 0, 1 and 3 where the keys assume 2, silence, fair | `CurrentWhenDrained`, `RowsSuitLayout`, `BlocksOnlyAdvance`, `ViewIsSteady`, `FinalityIsShown`, `IInv` |
| peer_discovery | 3 endpoints, answers of up to 2 peers, up to 3 given ports, no limit or 1, silence, fair | `PeersAreAskedOnce`, `QueriesAreJustified`, `DiscoveryIsComplete`, `StepsRunOut`, `AlwaysEnds`, `IInv` |
| pos_queries | 2 validators (symmetric), up to 3 blocks, epochs of 0, 1, 2 | `UnderflowNeedsTwoBlocks`, `IInv` |
| load_test | up to 2 tests, 3 blocks, intervals 0 and 2, timeouts 0 to 5 and beyond 32 bits, depths 1, 3 and beyond 31 bits, 2^32 as 8 and 2^64 as 64, both builds, silence, fair | `SuccessIsForever`, `WaitsAreBounded`, `FinalIsNotCalledOrphaned`, `StepsRunOut`, `AlwaysEnds`, `IInv` |
| watch_events | 1 retry, 3 failures, 2 events, 2 presses, 4 filters, fair | `EndsForAReason`, `CtrlCStops`, `WatchInv` (with `StatisticsAreRight`) |
| events_check_race | 1 call, 1 message | refutes `SomeIfFinalisedInTime` |
| events_shared_deploy | 2 calls, 1 deploy | refutes `AllWaitersNotified` |
| propose_after_wait | as deploy_and_wait | refutes `ProposeIsBeforeTheWait` |

`IInv` of a module (`SubmissionIInv`, `WatchInv`) is its type invariant together with the relations that make it inductive; it
contains the smaller safety properties by name, such as `SignalImpliesResult`, `PendingIsLive`
and `LoneCallReachable` of NodeEvents, `GraphIsConsistent`, `RowsMatchBlocks` and
`SelectionIsVisible` of DagViewer,
`IndicesInBounds` of DagLayout, `LimitIsRespected` of PeerDiscovery and `StatisticsAreRight` of
WatchEvents. Others follow from it by a theorem and need no run: `AnswersAreGenuine`,
`VabnExists`, `SuccessIsFinal`, `SelectionExists`, `EpochContainsTip`, and the `StepsRunOut` of
DeployAndWait.

### Disagreements

The runs that refute a property are disagreements between what the repository's documentation,
help or comments say and what the code does: the property is the sentence, and `PROJECT.json`
("findings") quotes it with its line. The list names them, and the others that the models have as
well: there the properties that are checked state the exception, which the text here names.

The node's events:

- A result recorded between the check and `notified()` is missed (events_check_race), and of two
  calls for one deploy only one is notified (events_shared_deploy). A call that was notified and
  whose timer is ready too may take the timer and return `None` (`ImplementsWatch` permits it).

Deploying:

- Of two concurrent deploys on one `F1r3flyApi` the later store can put a lower floor back
  (`lostUpdate` of TipFloor), although `tip_floor` is there "to prevent regression"
  (`docs/architecture.md`:63); `SequentialDeploysNeverRegress` excepts it.
- `connection_manager.rs:144` builds an `F1r3flyApi` for every operation, so the floor is
  unset at every deploy and "If a new sample is lower than the cached floor, uses the floor"
  (`docs/architecture.md`:64) does not hold from one deploy to the next (`Shared = FALSE` of TipFloor).
- `get_deploy_detail` answers `None` to every status that is not a success, a server error
  included, although "None is reserved for 404" (`grpc/http.rs`:70): `deploy_and_wait` then
  reports a failed deploy with `errored = false`.
- The manager's `transfer` never looks at `errored`: it logs "Transfer complete"
  (`connection_manager.rs`:395) for a transfer that failed, unlike `transfer_command`.
- With `poll_interval = 1` the inclusion wait sleeps up to twice `--max-wait`, "Max seconds to
  wait for block inclusion" (`docs/commands/deploy-and-wait.md`:29): attempts are computed with
  the configured interval and slept with two seconds. `WaitsAreBounded` excepts this value.
- `--check-interval` is described as the pause between two polls (`docs/commands/deploy-and-wait.md`:85),
  which is always two seconds; an interval above it makes the wait shorter than was asked for.
  `NoAttempts` is a `--max-wait` below the interval: the deploy is submitted and never looked for.
- `docs/commands/propose.md` recommends `deploy-and-wait --propose` next to "Standalone nodes
  without heartbeat" (lines 21 to 23). The three commands propose after the wait
  (`network.rs`:505), so on such a node it runs out and the request never goes out:
  propose_after_wait shows the order, and the theorem `ProposeComesTooLate` that no call on such a
  node ever asks or succeeds (`WaitNeedsAProposer`).
- `full-deploy` that fails in its second half reports a failure for a deploy that is live, like
  any deploy whose answer is lost (`CallersAreTold`). The NoNewDeploys answer quoted in
  `docs/commands/propose.md`:29 ("It's not an error") matches none of the recoverable patterns of
  `grpc/deploy.rs`:213, and ends in one.
- In an optimised build `transfer` with an amount above 184 billion tokens sends what is left of it
  modulo 2^64 dust; `expires_in` of 2^63 seconds and more counts backwards; a `--max-wait`
  of 2^32 seconds is none at all. Of these `ArgumentsArrive` bounds what is sent and
  `WaitsAreBounded` what is waited: it is never more than was asked for.
- `connect().await?` in `grpc/blocks.rs`:26 ends a wait for finalization on the first refused
  connection, although the error it would end with speaks of "maximum attempts" (line 49).

The viewer and watch-events:

- `tips` in `dag/model.rs`:129 is commented "Blocks with no children", but a block that becomes
  known after its child is pushed as a tip; and two additional parents of one block may be
  given the same column, although "Additional parents need their own column" (line 277),
  because the search does not see columns that are reserved and not yet set. Hence
  `GraphIsConsistent` claims one inclusion for tips, and `NodesStandOnTheirLine` excepts graphs
  where a row had two additional parents in view. Nothing reads either of them today.
- Ctrl-C during the reconnect delay or while connecting is lost once a connection has been
  watched, although `--retry-forever` is "until manually killed (Ctrl+C)" (`args.rs`:799).
  `CtrlCStops` and `PressIsKept` are of a press that a connection hears.
- `G` leaves `follow_head` set (`dag/app.rs`:211), so that the next block takes the cursor back to
  the top; `Down` and `PageDown` "Stop following when scrolling down" (line 192).
  `ViewIsSteady` names it as the one exception.
- "Total Events" counts the handshakes, and the startup events that the node replays are counted
  again after each reconnect. A watch that gives up prints no summary.

Queries and the load test:

- With a limit, given ports that wait behind it, and the last peers discovered, are never
  asked (`query.rs`:708). Discovered peers are asked for `/status` at their protocol port, which is
  not the port that serves it.
- A remote host with `--custom-ports` is asked at the standard ports too, although "Remote hosts
  don't use standard F1r3fly ports" (`query.rs`:1658).
- "Execute all queries using explicit tip block hash for consistency" (`query.rs`:1080) is true
  of one query out of three. And both HTTP answers are read for the bonds of their block: a
  validator that is bonded is thereby ACTIVE, and QUARANTINE, which
  `VALIDATOR4_BONDING_GUIDE.md`:127 expects right after bonding, is never shown from
  answers of one block: the theorem `NoQuarantineFromOneBlock` says how far this
  defect goes. The list of `active-validators` is that of `bonds` for the same
  reason, and `bonds`, `active-validators` and `bond-status` exit with success when the node
  answers with an error.
- The load test counts a TIMEOUT as "Finalized" in its statistics, and can end with "All blocks
  successfully finalized" without any final block; the documentation lists three separate
  counts (`docs/commands/advanced.md`:45-47). ORPHANED is also printed for blocks
  that are deeper than `--chain-depth`, and may be for any block if that is 2^31 or more; an amount
  above 184 billion tokens panics or wraps; `--num-tests 0` divides by zero.

### The properties

Some that are worth a word:

- `LoneCallReachable` and `LoneCallWoken`: as long as a call never shares its deploy with
  another registered call, nothing that other calls do (time out, clean up, be dropped with
  their entry left behind) takes its notification away once it listens. The race of
  events_check_race sits exactly before "once it listens", and the loss of
  events_shared_deploy exactly outside "never shares".
- `ImplementsWatch` excludes that a call is answered from anything but the record, that a
  peek misses a recorded deploy, and that a recorded deploy is forgotten.
- `DeploysNeverRegress` is what the floor is for, and false of the code in two ways: after a lost
  update, and when the floor is not shared. `SequentialDeploysNeverRegress` is what holds: no
  regress on one `F1r3flyApi` up to lost updates.
- `ProposedHoldsDeploy` is what full-deploy is for, whoever else makes blocks. Its exception is
  reached: a call whose samples all failed sends VABN 0, and a chain that has outgrown the
  window takes the deploy no more, while the node says that a block was created.
- `CallersAreTold` says when a failed call may be repeated without deploying twice.
- `SamplingEnds` needs no answer of the node; the requests that follow need one.
- `ArgumentsArrive` compares what was asked, in unbounded integers, with what is sent, in the
  widths of the types, in the build that checks and in the one that wraps.
- `WaitsAreBounded` excepts a `check_interval` of 1: attempts are computed with the configured
  interval and slept with two seconds.
- `NodesStandOnTheirLine` is what makes the picture a graph: a column that leads to one block
  is not interrupted by the node of another. Both of its conditions are needed.
- `EdgesMeetTheirParent` excepts edges whose parent was taken over by a row in between: a
  first parent always moves to its child's column, also if another child reserved one before.
- `BlocksOnlyAdvance` would be false if the listener sent the status that the node reports
  instead of the one announced, or if a block could be announced again without its number
  after it was shown with it.
- `DiscoveryIsComplete` with `QueriesAreJustified` says that a search without limit asks exactly
  what can be reached from the given ports through nodes that answer.
- `UnderflowNeedsTwoBlocks` and `ContradictionNeedsTwoBlocks` bound the damage of the two
  unpinned queries: what they report is wrong in this way only if they saw different blocks.
- `SuccessIsForever` relates a verdict to all later states of the shard;
  `FinalIsNotCalledOrphaned` is the race between the last question and the main-chain check, for a
  chain that is no longer than the depth that is sent.
- `StatisticsAreRight` counts over all connections, `EndsForAReason` over all failures.
- `ViewIsSteady` relates keys to events: no event opens or closes the details, and with them open
  none changes the blocks, the rows or the cursor; an event moves the cursor only while
  `follow_head` is set. It does not say that a cursor away from the top stays: after `G`
  `follow_head` is still set there, and the next block takes the cursor back.
- `RowsSuitLayout` is what DagLayout takes for granted of the order of the rows: its `numbered`
  and its parents that are always below. The blocks' numbers become known in any order, and some
  rows stand below their own parents until theirs does.
- `StepsRunOut` gives DeployAndWait, PeerDiscovery and LoadTest a number, `StepsLeft`, that every
  step of the client makes smaller and no step of the network makes larger. It needs no fairness,
  unlike `AlwaysEnds`, and says more: how much a call can do at most is fixed by its arguments
  (in PeerDiscovery also by how many endpoints there are).
- `AlwaysEnds` of these three says that a call ends or waits for an answer that never comes. That
  it always ends is not true of the code, whose requests have no timeout.
- `CurrentWhenDrained` says that nothing received is lost on the way to the screen. It speaks
  of blocks that are known, because the status of an unknown one is dropped; and not of blocks
  in `missed`, for which the code does nothing.

**Bounds.** Two calls and two deploys cover every pair of rivals for one entry, a rival that
timed out or was dropped, and a block that is recorded in two turns; the proofs cover any
number of calls. Two messages allow a duplicate announcement with a changed outcome and a
reconnect in between. Two calls
on a chain of four blocks and a window of two can be concurrent or follow each other, lose a
store of the floor and outlive the window; 16, 64, 10 and 3 stand for 2^32, 2^64, 100,000,000 and
1000 in DeployAndWait, and 8, 64 and 10 for 2^32, 2^64 and 100,000,000 in LoadTest; the arguments
lie on both sides of each limit, taken one at a time. A block and its child are
announced in every order a node may use, have a choice of sorting while both lack their number, and are more
than one page and one screen (`Page` and `Heights` stand for 10 and the terminal; `AssumedHeight` is
above the least real height, so that only drawing can bring the cursor back), and their six
announcements more than one channel (`ChannelCapacity` stands for 100); siblings are left to the
proofs, which have all the safety properties of DagViewer for any graph. Four rows with three parents are the least in which two additional parents collide, a
line is crossed and a parent is taken over. Three endpoints with two peers each have every
cycle, self-reference and repeated entry, and a limit of one is reached in the middle of an
answer. Three blocks allow the tip to move between each of the requests of PosQueries, and a
fork of two branches in LoadTest; timeouts lie below, at and above one interval. Three failures
are one more than a watch with one retry survives. Calls are made once each, so a
repeated call is another call. The proofs below need none of these bounds, except that
`MaxEmits` and `MaxHead` are some natural number.

**Fairness.** The listener task and a polled call run until they block; a sleep ends; a tokio
mutex serves its waiters in FIFO order, so a lock that becomes free again and again is
eventually granted (strong fairness of `LockTables` and of `Acquire`), while everything else
needs weak fairness only. Nothing is assumed about the node, the network, the callers'
decisions to call or to drop a future, or the success of `connect_async`. In DeployAndWait the
client goes on as long as its request ends; `NeverAnswered` may stop it at any request, for the
code sets no timeout on them, and `AlwaysEnds` says that nothing else does. In Submission only
tip sampling is fair, whose requests are cut off after two seconds. DagViewer assumes that the
WebSocket task is scheduled and that the main loop goes on, as its poll of 100 ms ensures; its
HTTP requests have no timeout either, and `FinalityIsShown` excepts one that is never answered
(`NeverAnswered`), after which the application lives on and news piles up unseen.
That the user closes the details again and again is a premise of `FinalityIsShown`, and so is
that the connection lasts. PeerDiscovery and LoadTest go on as DeployAndWait does (`Search`,
`Test`), and may be stopped for good by `NeverAnswered` at any request. In WatchEvents everything
but the attempt to connect is fair (`Awake`): reading, the delay, and `select!`, which needs
weak fairness of `Stop` besides, because it starts with a random branch and so does not pass over a
pending Ctrl-C for ever. The shard, the node and the user owe nothing. Liveness is not claimed for PosQueries, whose
calls simply end.

`CHECK_DEADLOCK FALSE` is given for Submission and DeployAndWait, whose calls come to an end, for
DagLayout, which ends with the last row, for DagViewer, which ends when the user quits, and for
the four commands PeerDiscovery, PosQueries, LoadTest and WatchEvents, which end as well.
NodeEvents is checked for deadlock: its listener never stops.

## 4. What is proved

For every value of the constants that satisfies the modules' named assumptions.

**NodeEvents** (`EventsProofs`): `TypeCorrect`, `Invariance`, `GenuineAnswers`,
`NoStaleRegistration`, `LoneCallIsWoken`, `RefinesWatch`. The invariant `IInv` adds to the
checked properties: what is in the stream or the batch was announced (`FlowIsGenuine`);
a notified call is no longer in the table (`SignalledIsUnregistered`), which keeps its entry
from being signalled twice or inherited; calls registered together are contended
(`RivalsAreContended`), without which a clean-up by a rival could not be told from one by a
stranger. The step lemmas follow the three layers: data flow, registry, lone calls.
`RefinesWatch` maps each step to an abstract one: RecordDeploy to Publish, the three places
that return to Answer, Cancel to Withdraw, all others to stuttering.

**WatchEvents** (`EventsProofs`): `WatchInvariance`, `WatchEnds`, `PressIsKept`, for any limit of
retries, any filter, any stream and any number of presses. `WatchInv` is about what has to survive
a reconnect (`SessionRemembers`): the retries counted are the failures so far, a press that was
heard has not been forgotten, before the first connection there is no handler to catch one, a
connection that broke had a retry left. The statistics (`StatisticsAreRight`) are sums over the
categories, written as sums because a fold could not be reasoned about. `PressIsKept` is the
safety half of `CtrlCStops`: a press that a connection has heard is pending until the watch stops
or that connection breaks. Of a press that no connection listens for nothing is proved: it is lost.

**Submission and TipFloor** (`SubmissionProofs`). Of TipFloor: `Invariance`, `VabnAlwaysExists`,
`NoRegress` (assuming `Shared`). The invariant says that no number in flight is above the head
(`NumbersExist`) and that, without a lost update, the floor covers every sampled deploy and a
pending store covers every deploy its call comes after (`FloorCovers`). `SubmissionRefinesTipFloor`
maps each step of a call on a node to a step of TipFloor or to none, so that these theorems hold of
what is submitted. Of Submission: `SubmissionInvariance`, `ProposedBlocksHoldDeploys`,
`ReportsAreTrue`, for any number of calls, any chain and any window. `CallsAreOrdered` says how far
a call is, and with it that a block asked for by full-deploy is made after its deploy was taken.

**DeployAndWait** (`DeployAndWaitProofs`): `Invariance`, `SuccessMeansFinal`, `BoundedWaits`,
`HonestTransfer`, `SentIsAsked`, `ProposeComesTooLate`, for any arguments, any widths and factors.
The invariant relates the phase to the chain (`ChainIsCausal`), the sleeps to the attempts
(`SleepsAreCounted`) and blocks to those who make them (`NothingUnasked`); what goes out has passed
the overflow checks of its build (`DeployIsPrepared`). `ProposeComesTooLate` says how far the
finding of propose_after_wait goes. The bounds follow from lemmas on integer
quotients and remainders: a remainder is never above its number. `LoopsRunOut` is `StepsRunOut`
(`ClientUsesSteps`, one case per action, and `OthersUseNone`).

**DagLayout** (`DagLayoutProofs`): `Invariance`, `NoIndexPanics`, `LinesAreNotCut`,
`EdgesArrive`, for any number of blocks and parents. Indices are in range because columns are widened when a row
begins and trimmed only when it ends (`IndicesInBounds`). Lines are not cut because a column
that is reserved for a block follows it, but for the short time in which the current row has
reserved it and not yet set it (`ReservedIsFollowed`); this needs that a parent is drawn below
its child (`ParentsAreBelow`), and that a row has at most one such reservation to lose. Edges
need neither condition: an edge ends in the column reserved for its parent, only a first parent
is reserved anew, and the row that does so draws an edge straight down (`EdgesLeadOn`).

**DagViewer** (`DagViewerProofs`): `Invariance`, `CursorIsSafe`, `GraphIsRight`, `SteadyView`,
`OnlyAdvance`, `RowsAreFit`, `ShownIsCurrent`, for any shard, channel, terminal and any sequence of keys,
announcements and failures. Each operation of the
graph keeps its shape and relations (`AddBlockConsistent`, `UpdateStatusFacts`); blocks only
become more, so the rows only become more (`MoreBlocks`, `SortingLength`), and a cursor that
events leave alone stays on a row; a status does not move a row (`SortingsDependOnNumbers`);
drawing brings the cursor back into sight whatever the keys assumed (`ScrollToShows`); every key
but `G` leaves the head only by ceasing to follow it (`KeysStopFollowing`), which `SteadyView` says
with this exception. `RowsAreFit` connects
DagViewer with DagLayout: rows sorted by the numbers known so far suit its `numbered` and
`ParentsAreBelow` (`SortedRowsSuit`), given that the node numbers a block above its parents
(`HeightsAssumption`, external); so what is proved of the layout holds of what the viewer draws,
as far as the order of the rows is concerned. `OnlyAdvance` and `ShownIsCurrent` rest on `NewsInv`, about all that is announced and not handled yet: in the stream, in the
listener's hand and in the channel the news of one block is in order (`NewsIsOrdered`), each is
ahead of the graph and none ahead of the node (`NewsIsNew`), the last one of a block that was not
missed is the node's (`NewsIsComplete`), and the initial blocks are loaded before any of it
(`LoadComesFirst`). One lemma per handler shows that news is passed on (`ReadEventNews`,
`FetchNews`, `SendNews`), and `HandledNews` what the last one makes of it.

**PeerDiscovery** (`PeerDiscoveryProofs`): `Invariance`, `AskedOnce`, `LimitHolds`,
`QueriesHaveReasons`, `DiscoveryCompletes`, `VerdictsAreRight`. The invariant says that what was
asked and what waits are together the given ports followed by the discovered peers
(`TurnsAreKept`), that the latter are distinct and new (`VisitedIsKnown`), that each was listed
by a node asked before its turn (`SourcesAreAsked`), and that until the limit is reached every
listed peer is visited or about to be looked at (`NoPeerIsForgotten`). The rest follows.
`SearchRunsOut` (`StepsRunOut`) needs that endpoints are finitely many (`FiniteAssumption`: names
and ports are of limited length); a peer costs an unvisited endpoint what it adds to the queue.
Endpoints that never answer are among the steps.

**PosQueries** (`PosQueriesProofs`): `Invariance`, `NoUnderflowFromOneBlock`,
`NoContradictionFromOneBlock`, `NoQuarantineFromOneBlock`, `EpochIsRight`. A report is a function
of answers that stay true of their blocks (`ReportIsOfTheAnswers`); the counts rest on the
cardinality of subsets (`CountBelowZero`), the epochs on the quotient (`QuotientFacts`).
`NoQuarantineFromOneBlock` is no merit of the code but the extent of a defect (section 3).

**LoadTest** (`LoadTestProofs`): `Invariance`, `SuccessStands`, `BlocksAreNotShared`,
`BoundedWaits`, `FinalityCounts`, `LoopsRunOut`. What the shard does keeps blocks, and what is final stays so
(`NetworkKeeps`); results belong to tests in order (`TestsAreSequential`, `BlocksAreOwn`), and
sleeps to attempts (`SleepsAreCounted`). For `LoopsRunOut` each step leads to a later step, a
later attempt or a later test (`TestUsesSteps`). All of it for any widths; `FinalityCounts` claims
nothing for a depth of half of the values or more, which is sent as a negative number.

Only model-checked: the liveness properties (`EveryCallReturns`, `DeliveredIsRecorded`,
`SamplingEnds`, `AlwaysEnds`, `FinalityIsShown`, `CtrlCStops`) and the liveness half of
`ImplementsWatch`, because fairness and ENABLED are beyond the prover, and all refuted properties.
Where such a property has a half without fairness it is proved: `LoneCallIsWoken`, `RefinesWatch`,
the three `StepsRunOut`, `PressIsKept`.

## 5. Not modelled

- The renderer (`dag/renderer.rs`) and the status lines: text and colours of a state that
  DagViewer has.
- Parsing of arguments, dispatch, conversions between error types, output helpers: declarations
  and formatting. The widths that are computed with are in DeployAndWait and LoadTest.
- Keys, addresses, signing, vault and registry contracts (`commands/crypto.rs`, `utils/crypto.rs`,
  `signing.rs`, `vault.rs`, `registry.rs`): cryptography and encodings, pure functions of inputs
  too large to enumerate; the generated files are written once and not read again.
- Queries that print one answer (status, blocks, metrics, last finalized block, main chain, balance,
  block transfers, epoch-rewards, exploratory-deploy, estimate-cost, get-data, get-deploy): no state,
  no decision that a property could be about.
- JSON and protobuf formats, beyond the distinction of answers that can be read and those that
  cannot.
- The node, its chain and its WebSocket endpoint appear only as far as the client observes them.

## 6. Open ends

What would extend the project, in order of worth:

1. The steps that lead to `FinalityIsShown`, as far as they can be said without fairness.
2. A node that closes the connection while the listener waits for a request, noticed only when it
   reads again; the model keeps the stream until then.
