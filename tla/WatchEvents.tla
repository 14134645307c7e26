----------------------------- MODULE WatchEvents -----------------------------
(***************************************************************************)
(* watch_events_command of src/src/commands/events.rs: a connection to the *)
(* node's WebSocket is read and counted until Ctrl-C is pressed; when it   *)
(* ends, another one is made, up to a number of failures.  One select!     *)
(* waits for the next message and for Ctrl-C, during a connection and only *)
(* then.                                                                   *)
(*                                                                         *)
(* External: the node, which opens each connection with a handshake and    *)
(* repeats its startup events; the user; and the signal handler, installed *)
(* when the future of Ctrl-C is first polled and never removed. Without it *)
(* Ctrl-C kills the process; with it a press reaches nobody but the        *)
(* select! of a connection that has polled its own future.                 *)
(*                                                                         *)
(* What names a part of the whole begins with Watch: the proofs extend     *)
(* this module and NodeEvents, the other client of that WebSocket.         *)
(*                                                                         *)
(* A definition commented as a variant is no part of the specification:    *)
(* it is the definition after it with a plausible slip in it.              *)
(***************************************************************************)
EXTENDS Integers, Sequences

CONSTANTS Filters,          \* values of --filter
          NoFilter,
          MAX_RETRIES,
          Startup,          \* the events that a new connection hears again
          MaxEvents, MaxFailures, MaxPresses    \* bounds on what happens outside

ASSUME RetriesAssumption == MAX_RETRIES \in Nat
ASSUME BoundsAssumption == MaxEvents \in Nat /\ MaxFailures \in Nat /\ MaxPresses \in Nat

(* What EventStats counts apart; three kinds of genesis events and two of    *)
(* lifecycle events are counted as one each.                                 *)
Categories == {"created", "added", "finalized", "transfers", "genesis", "lifecycle"}

(* A message may also be the handshake, or text that is not a NodeEvent. *)
Kinds == Categories \cup {"handshake", "unreadable"}

ASSUME StartupAssumption == Startup \in Seq(Kinds)

VARIABLES filter, retry_forever,
          step,         \* "start", "connecting", "watching", "delay" and how it ended
          retry_count,
          stats,        \* the counters, one of them "total"
          handler,      \* whether the signal handler is installed
          listening,    \* the select! of this connection has polled Ctrl-C
          pressed,      \* Ctrl-C is pending for the select! of this connection
          read,         \* what the connection has delivered and nobody has read
          broken,       \* it delivers nothing more
          received, failures, emitted, presses      \* history

net == <<read, broken, emitted>>
signal == <<handler, listening, pressed>>
watchVars == <<filter, retry_forever, step, retry_count, stats, signal, net, received, failures,
               presses>>

WatchInit == /\ filter \in Filters /\ retry_forever \in BOOLEAN
             /\ step = "start" /\ retry_count = 0
             /\ stats = [c \in Categories \cup {"total"} |-> 0]
             /\ handler = FALSE /\ listening = FALSE /\ pressed = FALSE
             /\ read = <<>> /\ broken = FALSE /\ emitted = 0
             /\ received = [k \in Kinds |-> 0] /\ failures = 0 /\ presses = 0

-----------------------------------------------------------------------------
(* The node *)
Emit == /\ step = "watching" /\ ~broken /\ emitted < MaxEvents
        /\ \E k \in Kinds \ {"handshake"} : read' = Append(read, k)
        /\ emitted' = emitted + 1
        /\ UNCHANGED <<filter, retry_forever, step, retry_count, stats, signal,
                       broken, received, failures, presses>>

(* A close frame, an error, or the end of the stream. *)
Break == /\ step = "watching" /\ ~broken /\ failures < MaxFailures
         /\ broken' = TRUE
         /\ UNCHANGED <<filter, retry_forever, step, retry_count, stats, signal,
                        read, emitted, received, failures, presses>>

(* The user *)
Running == step \in {"start", "connecting", "watching", "delay"}

PressCtrlC == /\ Running /\ presses < MaxPresses
              /\ presses' = presses + 1
              /\ step' = IF handler THEN step ELSE "killed"
              /\ pressed' = (pressed \/ listening)
              /\ UNCHANGED <<filter, retry_forever, retry_count, stats, handler, listening,
                             net, received, failures>>

-----------------------------------------------------------------------------
VALID_FILTERS == Categories \cup {"finalised"}

Validate == /\ step = "start"
            /\ step' = IF filter \in VALID_FILTERS \cup {NoFilter}
                       THEN "connecting" ELSE "refused"
            /\ UNCHANGED <<filter, retry_forever, retry_count, stats, signal, net,
                           received, failures, presses>>

(* Variant: every connection counts from zero. *)
OpenAnew == /\ step = "connecting"
            /\ step' = "watching"
            /\ read' = <<"handshake">> \o Startup /\ broken' = FALSE
            /\ stats' = [c \in Categories \cup {"total"} |-> 0]
            /\ UNCHANGED <<filter, retry_forever, retry_count, signal, emitted, received,
                           failures, presses>>

Open == /\ step = "connecting"
        /\ step' = "watching"
        /\ read' = <<"handshake">> \o Startup /\ broken' = FALSE
        /\ UNCHANGED <<filter, retry_forever, retry_count, stats, signal, emitted,
                       received, failures, presses>>

(* select! polls a branch that is ready first in some of its rounds, and     *)
(* then not the other one: messages may be read before Ctrl-C is listened    *)
(* to.                                                                       *)
PollCtrlC == /\ step = "watching" /\ ~listening
             /\ handler' = TRUE /\ listening' = TRUE
             /\ UNCHANGED <<filter, retry_forever, step, retry_count, stats, pressed, net,
                            received, failures, presses>>

(* Variant: a connection that was made gives the retries back. *)
FailedAfresh == /\ retry_count' = IF step = "watching" THEN 1 ELSE retry_count + 1
                /\ failures' = failures + 1
                /\ step' = IF ~retry_forever /\ retry_count' > MAX_RETRIES
                           THEN "gave up" ELSE "delay"

(* An Err of connect_and_watch.  The last one is returned without a summary. *)
Failed == /\ retry_count' = retry_count + 1
          /\ failures' = failures + 1
          /\ step' = IF ~retry_forever /\ retry_count' > MAX_RETRIES
                     THEN "gave up" ELSE "delay"

OpenFails == /\ step = "connecting" /\ failures < MaxFailures
             /\ Failed
             /\ UNCHANGED <<filter, retry_forever, stats, signal, net,
                            received, presses>>

(* With the end of the connection nobody waits for Ctrl-C any more. *)
Disconnected == /\ step = "watching" /\ read = <<>> /\ broken
                /\ Failed
                /\ pressed' = FALSE /\ listening' = FALSE
                /\ UNCHANGED <<filter, retry_forever, stats, handler, net, received,
                               presses>>

(* The handshake is no event of any filter. *)
Matches(kind) == \/ filter = NoFilter
                 \/ kind = filter
                 \/ kind = "finalized" /\ filter = "finalised"

(* EventStats::increment: the handshake counts in the total alone. *)
Increment(kind) ==
    stats' = [c \in DOMAIN stats |->
                 IF c = kind \/ c = "total" THEN stats[c] + 1 ELSE stats[c]]

(* Variant: the wait for Ctrl-C begins anew with every message. *)
ReadMessageAnew ==
    /\ step = "watching" /\ read # <<>>
    /\ IF Head(read) # "unreadable" /\ Matches(Head(read))
       THEN Increment(Head(read)) ELSE UNCHANGED stats
    /\ read' = Tail(read)
    /\ received' = [received EXCEPT ![Head(read)] = @ + 1]
    /\ pressed' = FALSE
    /\ UNCHANGED <<filter, retry_forever, step, retry_count, handler, listening, broken,
                   emitted, failures, presses>>

(* A message, also if Ctrl-C is pending: select! takes either.  Text that    *)
(* cannot be read is reported and passed over.                               *)
ReadMessage ==
    /\ step = "watching" /\ read # <<>>
    /\ IF Head(read) # "unreadable" /\ Matches(Head(read))
       THEN Increment(Head(read)) ELSE UNCHANGED stats
    /\ read' = Tail(read)
    /\ received' = [received EXCEPT ![Head(read)] = @ + 1]
    /\ UNCHANGED <<filter, retry_forever, step, retry_count, signal, broken, emitted,
                   failures, presses>>

(* Ctrl-C, and the summary. *)
Stop == /\ step = "watching" /\ pressed
        /\ step' = "finished" /\ pressed' = FALSE
        /\ listening' = FALSE
        /\ UNCHANGED <<filter, retry_forever, retry_count, stats, handler, net, received,
                       failures, presses>>

(* The delay sleeps to its end. *)
Reconnect == /\ step = "delay" /\ step' = "connecting"
             /\ UNCHANGED <<filter, retry_forever, retry_count, stats, signal,
                            net, received, failures, presses>>

Client == \/ Validate \/ Open \/ OpenFails \/ PollCtrlC \/ Disconnected
          \/ ReadMessage \/ Stop \/ Reconnect

WatchNext == Emit \/ Break \/ PressCtrlC \/ Client

WatchSpec == WatchInit /\ [][WatchNext]_watchVars

(* What ends by itself: everything but the attempt to connect, which has no  *)
(* timeout.                                                                  *)
Awake == Validate \/ PollCtrlC \/ Disconnected \/ ReadMessage \/ Stop \/ Reconnect

(* The command runs, and select! begins with either branch at random, so     *)
(* that none is passed over for ever; an attempt to connect may never end.   *)
WatchFairSpec == WatchSpec /\ WF_watchVars(Awake) /\ WF_watchVars(Stop)

-----------------------------------------------------------------------------
(* The shape of the state: Ctrl-C is waited for by the present connection or by none. *)
WatchTypeOK == /\ filter \in Filters /\ retry_forever \in BOOLEAN
               /\ step \in {"start", "connecting", "watching", "delay", "finished", "gave up",
                        "refused", "killed"}
               /\ retry_count \in 0..MaxFailures /\ failures \in 0..MaxFailures
               /\ stats \in [Categories \cup {"total"} -> Nat]
               /\ handler \in BOOLEAN /\ broken \in BOOLEAN
               /\ pressed \in BOOLEAN /\ listening \in BOOLEAN
               /\ pressed => listening
               /\ listening => handler /\ step = "watching"
               /\ read \in Seq(Kinds) /\ emitted \in 0..MaxEvents /\ presses \in 0..MaxPresses
               /\ received \in [Kinds -> Nat]

Counted == stats["created"] + stats["added"] + stats["finalized"] + stats["transfers"]
           + stats["genesis"] + stats["lifecycle"]

(* Over all connections each event that was read and passes the filter is    *)
(* counted once, in its category and in the total; besides, the total counts *)
(* the handshakes, one for each connection, if there is no filter.           *)
StatisticsAreRight ==
    /\ \A c \in Categories : stats[c] = IF Matches(c) THEN received[c] ELSE 0
    /\ stats["total"] = Counted + IF filter = NoFilter THEN received["handshake"] ELSE 0

(* The watch ends only at the user's wish or with its retries exhausted, not *)
(* because the node closes a connection.  Failures add up over the whole     *)
(* session, whatever was received in between.  Only the first press can kill *)
(* the process: no later one does, and those that no connection listens for  *)
(* are swallowed, although args.rs:799 has the watch go on only "until        *)
(* manually killed (Ctrl+C)".                                                *)
EndsForAReason ==
    /\ step = "finished" => presses > 0
    /\ step = "gave up" <=> ~retry_forever /\ failures > MAX_RETRIES
    /\ step = "killed" => presses = 1

(* What else the session remembers of its past: the failures, in retry_count; *)
(* a press, in pressed or, before the handler, in having been killed by it.   *)
(* A filter that is none has not come past Validate.                          *)
SessionRemembers ==
    /\ retry_count = failures
    /\ pressed => presses > 0
    /\ Running /\ ~handler => presses = 0
    /\ step \in {"connecting", "watching", "delay"} => filter \in VALID_FILTERS \cup {NoFilter}
    /\ step = "watching" /\ broken => failures < MaxFailures

(* The inductive invariant. *)
WatchInv == WatchTypeOK /\ StatisticsAreRight /\ EndsForAReason /\ SessionRemembers

(* Ctrl-C heard during a connection ends the watch, however many events keep the   *)
(* other branch of select! ready; only the end of the connection comes first. *)
CtrlCStops == pressed ~> (step = "finished" \/ broken)
=============================================================================
