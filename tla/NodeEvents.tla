----------------------------- MODULE NodeEvents -----------------------------
(***************************************************************************)
(* src/events.rs: one spawned listener task follows the node's /ws/events  *)
(* stream and records finalised deploys; any number of callers wait for a  *)
(* deploy or ask whether it is finalised.  They share two tokio mutexes,   *)
(* `pending' (deploy id -> Notify of the waiting call) and `results'       *)
(* (deploy id -> DeployEvent).                                             *)
(*                                                                         *)
(* A step of a caller is one stretch of code between two awaits.  A call   *)
(* of lock().await is a step of its own (Acquire); the guarded block and   *)
(* the drop of the guard are one step, because no guard is held by a       *)
(* caller across an await.  The listener does hold `pending' while it      *)
(* awaits `results'.                                                       *)
(*                                                                         *)
(* A definition commented as a variant is no part of the specification:    *)
(* it is the definition after it with a plausible slip in it.              *)
(***************************************************************************)
EXTENDS Naturals, Sequences

CONSTANTS
  DeployIds,   \* deploy ids
  Outcomes,    \* the rest of a DeployEvent: cost, errored, deployer
  Callers,     \* calls of wait_for_deploy and is_finalized, each made once
  Absent,      \* None
  Listener,    \* the spawned listener task
  Free,        \* a mutex nobody holds
  Blocks,      \* deploy lists of the block-finalised events the node may send
  Noise,       \* any message the listener skips
  MaxEmits     \* bound: messages the node sends

Deploys == [id : DeployIds, outcome : Outcomes]

ASSUME BlocksAssumption == Blocks \subseteq Seq(Deploys)
ASSUME NoiseAssumption == Noise \notin Blocks
ASSUME AbsentAssumption == Absent \notin Outcomes /\ Absent \notin DeployIds /\ Absent \notin Callers
ASSUME OwnerAssumption == Listener \notin Callers /\ Free \notin Callers /\ Free # Listener
ASSUME BoundAssumption == MaxEmits \in Nat

VARIABLES
  lpc,         \* where the listener is: "connecting", "reading", "recording", "sleeping"
  stream,      \* messages on the open WebSocket, not yet read
  batch,       \* deploys of the current block not yet recorded
  lock,        \* lock["pending"], lock["results"]: who holds the mutex
  pending,     \* pending[d]: the call whose Notify is registered for d, or Absent
  results,     \* results[d]: the recorded outcome, or Absent
  pc,          \* pc[c]: where call c is
  wid,         \* wid[c]: the deploy_id argument of c
  ret,         \* ret[c]: the value c returned
  signalled,   \* calls whose Notified future has been completed
  sent,        \* history: every deploy the node has announced as finalised
  emits,       \* messages sent so far, at most MaxEmits
  contended    \* history: calls that were registered for a deploy together with another

listenerVars == <<lpc, stream, batch>>
tables == <<pending, results>>
callVars == <<pc, wid, ret>>
nodeVars == <<sent, emits>>
vars == <<lpc, stream, batch, lock, pending, results, pc, wid, ret, signalled, sent, emits, contended>>

Mutexes == {"pending", "results"}

\* The mutex a call is after, at the points where it is after one.
Wanted == [checking |-> "results", registering |-> "pending", woken |-> "results",
           expired |-> "pending", peeking |-> "results"]

Init ==
  /\ lpc = "connecting" /\ stream = <<>> /\ batch = <<>>
  /\ lock = [m \in Mutexes |-> Free]
  /\ pending = [d \in DeployIds |-> Absent]
  /\ results = [d \in DeployIds |-> Absent]
  /\ pc = [c \in Callers |-> "idle"]
  /\ wid = [c \in Callers |-> Absent]
  /\ ret = [c \in Callers |-> Absent]
  /\ signalled = {} /\ sent = {} /\ emits = 0 /\ contended = {}

-----------------------------------------------------------------------------
(* The node *)

\* The stream is open while the listener is inside `while let Some(msg)'.
Connected == lpc \in {"reading", "recording"}

\* The node sends a message to whoever is connected; nothing is kept for a
\* client that is not, and the stream has no replay.
NodeSends(m) ==
  /\ emits < MaxEmits
  /\ emits' = emits + 1
  /\ sent' = IF m = Noise THEN sent ELSE sent \cup {m[i] : i \in 1..Len(m)}
  /\ stream' = IF Connected THEN Append(stream, m) ELSE stream
  /\ UNCHANGED <<lpc, batch, lock, pending, results, callVars, signalled, contended>>

-----------------------------------------------------------------------------
(* The listener task *)

\* connect_async: the stream opens, or the attempt fails and the task sleeps.
Connect ==
  /\ lpc = "connecting"
  /\ lpc' \in {"reading", "sleeping"}
  /\ UNCHANGED <<stream, batch, lock, tables, callVars, signalled, nodeVars, contended>>

\* A close or an error ends the inner loop; what was not read is gone.
Disconnect ==
  /\ lpc = "reading"
  /\ lpc' = "sleeping"
  /\ stream' = <<>>
  /\ UNCHANGED <<batch, lock, tables, callVars, signalled, nodeVars, contended>>

\* The five-second pause before the next attempt, after either kind of failure.
RetryDelay ==
  /\ lpc = "sleeping"
  /\ lpc' = "connecting"
  /\ UNCHANGED <<stream, batch, lock, tables, callVars, signalled, nodeVars, contended>>

\* Not text, not JSON, not a known event, or not block-finalised: continue.
SkipMessage ==
  /\ lpc = "reading" /\ stream # <<>> /\ Head(stream) = Noise
  /\ stream' = Tail(stream)
  /\ UNCHANGED <<lpc, batch, lock, tables, callVars, signalled, nodeVars, contended>>

\* Variant: only the first deploy of the block is taken.
ReceiveFirstDeploy ==
  /\ lpc = "reading" /\ stream # <<>> /\ Head(stream) # Noise
  /\ lpc' = "recording"
  /\ batch' = <<Head(Head(stream))>>
  /\ stream' = Tail(stream)
  /\ UNCHANGED <<lock, tables, callVars, signalled, nodeVars, contended>>

\* A block-finalised event.
ReceiveBlock ==
  /\ lpc = "reading" /\ stream # <<>> /\ Head(stream) # Noise
  /\ lpc' = "recording"
  /\ batch' = Head(stream)
  /\ stream' = Tail(stream)
  /\ UNCHANGED <<lock, tables, callVars, signalled, nodeVars, contended>>

\* pending.lock().await, then results.lock().await with pending still held.
LockTables ==
  /\ lpc = "recording"
  /\ \/ /\ lock["pending"] = Free
        /\ lock' = [lock EXCEPT !["pending"] = Listener]
     \/ /\ lock["pending"] = Listener /\ lock["results"] = Free
        /\ lock' = [lock EXCEPT !["results"] = Listener]
  /\ UNCHANGED <<listenerVars, tables, callVars, signalled, nodeVars, contended>>

\* notify_waiters completes the Notified futures that exist and stores no permit.
NotifyWaiters(c) == IF c # Absent /\ pc[c] = "listening" THEN {c} ELSE {}

\* Variant: every deploy of a block gets the outcome of the last one.
RecordLastOutcome ==
  /\ lpc = "recording" /\ batch # <<>>
  /\ \A m \in Mutexes : lock[m] = Listener
  /\ LET d == Head(batch).id IN
       /\ results' = [results EXCEPT ![d] = batch[Len(batch)].outcome]
       /\ pending' = [pending EXCEPT ![d] = Absent]
       /\ signalled' = signalled \cup NotifyWaiters(pending[d])
  /\ batch' = Tail(batch)
  /\ UNCHANGED <<lpc, stream, lock, callVars, nodeVars, contended>>

\* Variant: pending.get in place of pending.remove.
RecordKeepingEntry ==
  /\ lpc = "recording" /\ batch # <<>>
  /\ \A m \in Mutexes : lock[m] = Listener
  /\ LET d == Head(batch).id IN
       /\ results' = [results EXCEPT ![d] = Head(batch).outcome]
       /\ signalled' = signalled \cup NotifyWaiters(pending[d])
  /\ batch' = Tail(batch)
  /\ UNCHANGED <<lpc, stream, lock, pending, callVars, nodeVars, contended>>

\* One turn of `for deploy in deploys', with both guards held.
RecordDeploy ==
  /\ lpc = "recording" /\ batch # <<>>
  /\ \A m \in Mutexes : lock[m] = Listener
  /\ LET d == Head(batch).id IN
       /\ results' = [results EXCEPT ![d] = Head(batch).outcome]
       /\ pending' = [pending EXCEPT ![d] = Absent]
       /\ signalled' = signalled \cup NotifyWaiters(pending[d])
  /\ batch' = Tail(batch)
  /\ UNCHANGED <<lpc, stream, lock, callVars, nodeVars, contended>>

\* The loop is over: both guards are dropped and the next message is awaited.
ReleaseTables ==
  /\ lpc = "recording" /\ batch = <<>>
  /\ \A m \in Mutexes : lock[m] = Listener
  /\ lock' = [m \in Mutexes |-> Free]
  /\ lpc' = "reading"
  /\ UNCHANGED <<stream, batch, tables, callVars, signalled, nodeVars, contended>>

-----------------------------------------------------------------------------
(* Calls *)

\* wait_for_deploy(d) or is_finalized(d) is polled for the first time.
Call(c, d, how) ==
  /\ pc[c] = "idle"
  /\ pc' = [pc EXCEPT ![c] = how]
  /\ wid' = [wid EXCEPT ![c] = d]
  /\ UNCHANGED <<listenerVars, lock, tables, ret, signalled, nodeVars, contended>>

Acquire(c) ==
  /\ pc[c] \in DOMAIN Wanted
  /\ lock[Wanted[pc[c]]] = Free
  /\ lock' = [lock EXCEPT ![Wanted[pc[c]]] = c]
  /\ UNCHANGED <<listenerVars, tables, callVars, signalled, nodeVars, contended>>

Holds(c, m) == lock[m] = c
Release(m) == lock' = [lock EXCEPT ![m] = Free]

\* Is the deploy already on record?  If so return it, else go and register.
CheckResults(c) ==
  /\ pc[c] = "checking" /\ Holds(c, "results")
  /\ ret' = [ret EXCEPT ![c] = results[wid[c]]]
  /\ pc' = [pc EXCEPT ![c] = IF results[wid[c]] # Absent THEN "done" ELSE "registering"]
  /\ Release("results")
  /\ UNCHANGED <<listenerVars, tables, wid, signalled, nodeVars, contended>>

\* Calls between their registration and their return, whoever owns the entry.
Registered(c) == pc[c] \in {"registered", "listening", "woken", "expired"}
Rivals(c) == {e \in Callers \ {c} : Registered(e) /\ wid[e] = wid[c]}

\* Variant: entry().or_insert, which leaves an entry that is there.
RegisterUnlessPresent(c) ==
  /\ pc[c] = "registering" /\ Holds(c, "pending")
  /\ pending' = [pending EXCEPT ![wid[c]] = IF @ = Absent THEN c ELSE @]
  /\ pc' = [pc EXCEPT ![c] = "registered"]
  /\ contended' = IF Rivals(c) = {} THEN contended ELSE contended \cup Rivals(c) \cup {c}
  /\ Release("pending")
  /\ UNCHANGED <<listenerVars, results, wid, ret, signalled, nodeVars>>

\* HashMap::insert replaces the entry of another call for the same deploy.
Register(c) ==
  /\ pc[c] = "registering" /\ Holds(c, "pending")
  /\ pending' = [pending EXCEPT ![wid[c]] = c]
  /\ pc' = [pc EXCEPT ![c] = "registered"]
  /\ contended' = IF Rivals(c) = {} THEN contended ELSE contended \cup Rivals(c) \cup {c}
  /\ Release("pending")
  /\ UNCHANGED <<listenerVars, results, wid, ret, signalled, nodeVars>>

\* notify.notified() and sleep(timeout) are created after the guard is dropped.
Listen(c) ==
  /\ pc[c] = "registered"
  /\ pc' = [pc EXCEPT ![c] = "listening"]
  /\ UNCHANGED <<listenerVars, lock, tables, wid, ret, signalled, nodeVars, contended>>

\* select!: the notification branch.
Wake(c) ==
  /\ pc[c] = "listening" /\ c \in signalled
  /\ pc' = [pc EXCEPT ![c] = "woken"]
  /\ UNCHANGED <<listenerVars, lock, tables, wid, ret, signalled, nodeVars, contended>>

\* Variant: the timer runs only while the stream is open.
TimeoutWhenConnected(c) ==
  /\ pc[c] = "listening" /\ Connected
  /\ pc' = [pc EXCEPT ![c] = "expired"]
  /\ UNCHANGED <<listenerVars, lock, tables, wid, ret, signalled, nodeVars, contended>>

\* select!: the timer branch.  With both ready select! picks either.
Timeout(c) ==
  /\ pc[c] = "listening"
  /\ pc' = [pc EXCEPT ![c] = "expired"]
  /\ UNCHANGED <<listenerVars, lock, tables, wid, ret, signalled, nodeVars, contended>>

\* Variant: results.remove in place of results.get.
TakeResult(c) ==
  /\ pc[c] = "woken" /\ Holds(c, "results")
  /\ ret' = [ret EXCEPT ![c] = results[wid[c]]]
  /\ pc' = [pc EXCEPT ![c] = IF results[wid[c]] # Absent THEN "done" ELSE "expired"]
  /\ results' = [results EXCEPT ![wid[c]] = Absent]
  /\ Release("results")
  /\ UNCHANGED <<listenerVars, pending, wid, signalled, nodeVars, contended>>

\* results.get(deploy_id).cloned(); a None would take the clean-up path.
ReadResult(c) ==
  /\ pc[c] = "woken" /\ Holds(c, "results")
  /\ ret' = [ret EXCEPT ![c] = results[wid[c]]]
  /\ pc' = [pc EXCEPT ![c] = IF results[wid[c]] # Absent THEN "done" ELSE "expired"]
  /\ Release("results")
  /\ UNCHANGED <<listenerVars, tables, wid, signalled, nodeVars, contended>>

\* pending.remove(deploy_id), whichever call the entry belongs to; returns None.
CleanUp(c) ==
  /\ pc[c] = "expired" /\ Holds(c, "pending")
  /\ pending' = [pending EXCEPT ![wid[c]] = Absent]
  /\ pc' = [pc EXCEPT ![c] = "done"]
  /\ Release("pending")
  /\ UNCHANGED <<listenerVars, results, wid, ret, signalled, nodeVars, contended>>

\* is_finalized
IsFinalized(c) ==
  /\ pc[c] = "peeking" /\ Holds(c, "results")
  /\ ret' = [ret EXCEPT ![c] = results[wid[c]]]
  /\ pc' = [pc EXCEPT ![c] = "done"]
  /\ Release("results")
  /\ UNCHANGED <<listenerVars, tables, wid, signalled, nodeVars, contended>>

\* The caller drops the future at an await: no guard is held there and nothing
\* removes the pending entry.
Cancel(c) ==
  /\ pc[c] \in DOMAIN Wanted \cup {"listening"}
  /\ \A m \in Mutexes : ~Holds(c, m)
  /\ pc' = [pc EXCEPT ![c] = "cancelled"]
  /\ UNCHANGED <<listenerVars, lock, tables, wid, ret, signalled, nodeVars, contended>>

-----------------------------------------------------------------------------
ListenerStep ==
  \/ Connect \/ Disconnect \/ RetryDelay \/ SkipMessage \/ ReceiveBlock
  \/ LockTables \/ RecordDeploy \/ ReleaseTables

\* The steps a call takes by itself.
CallStep(c) ==
  \/ Acquire(c) \/ CheckResults(c) \/ Register(c) \/ Listen(c) \/ Wake(c)
  \/ Timeout(c) \/ ReadResult(c) \/ CleanUp(c) \/ IsFinalized(c)

Next ==
  \/ \E m \in Blocks \cup {Noise} : NodeSends(m)
  \/ ListenerStep
  \/ \E c \in Callers, d \in DeployIds, how \in {"checking", "peeking"} : Call(c, d, how)
  \/ \E c \in Callers : CallStep(c) \/ Cancel(c)

Spec == Init /\ [][Next]_vars

(***************************************************************************)
(* Both tasks are polled by the runtime until they block, a tokio mutex    *)
(* serves its waiters in FIFO order (so a lock that is released again and  *)
(* again is eventually granted: strong fairness), and a sleep elapses.     *)
(* Nothing is assumed of the node, of the network, or of the callers'      *)
(* decisions to call and to cancel.                                        *)
(***************************************************************************)
Fairness ==
  /\ WF_vars(SkipMessage \/ ReceiveBlock)
  /\ WF_vars(Connect) /\ WF_vars(RetryDelay)
  /\ SF_vars(LockTables) /\ WF_vars(RecordDeploy) /\ WF_vars(ReleaseTables)
  /\ \A c \in Callers : SF_vars(Acquire(c)) /\ WF_vars(CallStep(c))

FairSpec == Spec /\ Fairness

-----------------------------------------------------------------------------
(* Properties *)

CallPoints == {"idle", "checking", "registering", "registered", "listening", "woken",
               "expired", "peeking", "done", "cancelled"}
Owners == Callers \cup {Listener, Free}

\* Every variable of NodeEvents has a value of its Rust type.
TypeOK ==
  /\ lpc \in {"connecting", "reading", "recording", "sleeping"}
  /\ stream \in Seq(Blocks \cup {Noise})
  /\ batch \in Seq(Deploys)
  /\ lock \in [Mutexes -> Owners]
  /\ pending \in [DeployIds -> Callers \cup {Absent}]
  /\ results \in [DeployIds -> Outcomes \cup {Absent}]
  /\ pc \in [Callers -> CallPoints]
  /\ wid \in [Callers -> DeployIds \cup {Absent}]
  /\ ret \in [Callers -> Outcomes \cup {Absent}]
  /\ signalled \subseteq Callers
  /\ sent \subseteq Deploys
  /\ emits \in 0..MaxEmits
  /\ contended \subseteq Callers

\* A call that returns Some(event) returns an event the node announced for the
\* very deploy it was asked about (events.rs wait_for_deploy, is_finalized).
AnswersAreGenuine ==
  \A c \in Callers : ret[c] # Absent => [id |-> wid[c], outcome |-> ret[c]] \in sent

\* A call whose notification fired finds its result: the notification branch of
\* the select! never yields None (the insert precedes the notify, nothing forgets).
SignalImpliesResult ==
  \A c \in signalled : results[wid[c]] # Absent

\* A registration does not outlive its call: the entry of a deploy belongs to a
\* call for that deploy that has not returned.  Only a call that was cancelled
\* leaves its entry behind.
PendingIsLive ==
  \A d \in DeployIds : pending[d] # Absent =>
    /\ wid[pending[d]] = d
    /\ pc[pending[d]] \in {"registered", "listening", "expired", "cancelled"}

\* While a call that never shared its deploy with another waits and nothing is
\* recorded, the table leads to it: no registration, clean-up or cancellation of
\* other calls has taken its entry away.
LoneCallReachable ==
  \A c \in Callers :
    /\ pc[c] \in {"registered", "listening"}
    /\ c \notin contended
    /\ results[wid[c]] = Absent
    => pending[wid[c]] = c

Records(d) == results[d] = Absent /\ results'[d] # Absent

\* A lone call that is listening when its deploy is first recorded is signalled by
\* that very step (docs/library/events.md: waiters are notified when their deploy
\* appears in a finalized block).
LoneCallWoken ==
  [][\A c \in Callers : pc[c] = "listening" /\ c \notin contended /\ Records(wid[c])
        => c \in signalled']_vars

\* Every call that is made returns, unless its caller gives up: no mutex is held
\* for ever and no call waits beyond its timeout.
EveryCallReturns ==
  \A c \in Callers : pc[c] \notin {"idle", "done", "cancelled"} ~> pc[c] \in {"done", "cancelled"}

InStream(d) == \E i \in 1..Len(stream) :
  stream[i] # Noise /\ \E j \in 1..Len(stream[i]) : stream[i][j].id = d

\* An announcement that reached the open stream is recorded, unless the connection
\* is lost before it is read.
DeliveredIsRecorded ==
  \A d \in DeployIds : InStream(d) ~> (results[d] # Absent \/ lpc = "sleeping")

-----------------------------------------------------------------------------
(* The inductive invariant: TypeOK, the three invariants above, and what each *)
(* of them rests on.                                                          *)

\* A call has its deploy id from its first poll on, and a value when it is done.
CallsBegun ==
  \A c \in Callers :
    /\ pc[c] # "idle" => wid[c] \in DeployIds
    /\ pc[c] = "idle" => c \notin signalled
    /\ pc[c] # "done" => ret[c] = Absent

\* Whatever is on its way to the results table was announced by the node.
FlowIsGenuine ==
  /\ \A i \in 1..Len(stream) : stream[i] # Noise =>
       \A j \in 1..Len(stream[i]) : stream[i][j] \in sent
  /\ \A i \in 1..Len(batch) : batch[i] \in sent
  /\ \A d \in DeployIds : results[d] # Absent => [id |-> d, outcome |-> results[d]] \in sent

\* A Notify that has fired is no longer in the table, and only a Notify that
\* has fired wakes its call.
SignalledIsUnregistered ==
  \A c \in Callers :
    /\ c \in signalled => /\ pc[c] \in {"listening", "woken", "expired", "done", "cancelled"}
                          /\ \A d \in DeployIds : pending[d] # c
    /\ pc[c] = "woken" => c \in signalled

\* Two calls registered for one deploy at the same time both count as contended.
RivalsAreContended ==
  \A c \in Callers : Registered(c) /\ c \notin contended => Rivals(c) = {}

IInv ==
  /\ TypeOK
  /\ CallsBegun
  /\ FlowIsGenuine
  /\ AnswersAreGenuine
  /\ SignalImpliesResult
  /\ SignalledIsUnregistered
  /\ PendingIsLive
  /\ RivalsAreContended
  /\ LoneCallReachable

-----------------------------------------------------------------------------
(* What the detailed protocol implements *)

PhaseOf(p) ==
  CASE p \in {"checking", "registering", "registered", "listening", "woken", "expired"} -> "waiting"
    [] p = "done" -> "answered"
    [] p = "cancelled" -> "withdrawn"
    [] OTHER -> p

Watch == INSTANCE FinalityWatch WITH
  record <- results,
  phase <- [c \in Callers |-> PhaseOf(pc[c])],
  subject <- wid,
  answer <- ret

\* The callers see a growing record, asked once each and answered from it.
ImplementsWatch == Watch!Spec

-----------------------------------------------------------------------------
(* Documented properties that the code does not have *)

\* events.rs:141: "Returns Some(DeployEvent) if finalized within the timeout":
\* a call whose timer fires without a notification has no result on record.
SomeIfFinalisedInTime ==
  [][\A c \in Callers : pc[c] = "listening" /\ pc'[c] = "expired" /\ c \notin signalled
        => results[wid[c]] = Absent]_vars

\* docs/library/events.md: "Notifies waiters when their deploy ID appears in a
\* finalized block": every call listening for a deploy is signalled when the
\* deploy is recorded.
AllWaitersNotified ==
  [][\A c \in Callers : pc[c] = "listening" /\ Records(wid[c]) => c \in signalled']_vars
=============================================================================
