---------------------------- MODULE EventsProofs ----------------------------
(***************************************************************************)
(* Proofs about the two clients of the node's WebSocket.                   *)
(*                                                                         *)
(* WatchEvents, for any filters, startup events, number of retries and     *)
(* bounds: its inductive invariant, how a watch ends, and what becomes of  *)
(* a press of Ctrl-C.                                                      *)
(*                                                                         *)
(* NodeEvents, for any deploys, calls, blocks and number of messages: the  *)
(* types, the inductive invariant IInv and its parts, the wake-up of a     *)
(* lone call, and the refinement of FinalityWatch's safety.                *)
(***************************************************************************)
EXTENDS NodeEvents, WatchEvents, TLAPS

(* WatchEvents *)

LEMMA SessionInit ==
  ASSUME WatchInit
  PROVE  WatchInv
<1> USE RetriesAssumption, BoundsAssumption, StartupAssumption DEF WatchInit
<1>1. WatchTypeOK
  <2>1. stats \in [Categories \cup {"total"} -> Nat] /\ received \in [Kinds -> Nat]
    OBVIOUS
  <2>2. read \in Seq(Kinds)
    OBVIOUS
  <2>3. QED
    BY <2>1, <2>2, 0 \in 0..MaxFailures, 0 \in 0..MaxEvents, 0 \in 0..MaxPresses
    DEF WatchTypeOK
<1>2. StatisticsAreRight
  BY DEF StatisticsAreRight, Counted, Categories, Kinds
<1>3. EndsForAReason /\ SessionRemembers
  BY DEF EndsForAReason, SessionRemembers
<1>4. QED
  BY <1>1, <1>2, <1>3 DEF WatchInv

LEMMA CountsAreNumbers ==
  ASSUME WatchTypeOK
  PROVE  stats["total"] \in Nat /\ received["handshake"] \in Nat /\ Counted \in Nat
<1>1. \A c \in Categories \cup {"total"} : stats[c] \in Nat
  BY DEF WatchTypeOK
<1>2. stats["created"] \in Nat /\ stats["added"] \in Nat /\ stats["finalized"] \in Nat
  BY <1>1 DEF Categories
<1>3. stats["transfers"] \in Nat /\ stats["genesis"] \in Nat /\ stats["lifecycle"] \in Nat
  BY <1>1 DEF Categories
<1>4. stats["total"] \in Nat /\ received["handshake"] \in Nat
  BY <1>1 DEF WatchTypeOK, Kinds
<1>5. QED
  BY <1>2, <1>3, <1>4 DEF Counted

\* One more in one category is one more in all.
LEMMA CountedOnce ==
  ASSUME NEW c \in Categories,
         \A k \in Categories : stats[k] \in Nat,
         \A k \in Categories : stats'[k] = IF k = c THEN stats[k] + 1 ELSE stats[k]
  PROVE  Counted' = Counted + 1
<1>1. /\ stats["created"] \in Nat /\ stats["added"] \in Nat /\ stats["finalized"] \in Nat
      /\ stats["transfers"] \in Nat /\ stats["genesis"] \in Nat /\ stats["lifecycle"] \in Nat
  BY DEF Categories
<1>2. CASE c = "created"
  <2>1. /\ stats'["created"] = stats["created"] + 1 /\ stats'["added"] = stats["added"]
        /\ stats'["finalized"] = stats["finalized"] /\ stats'["transfers"] = stats["transfers"]
        /\ stats'["genesis"] = stats["genesis"] /\ stats'["lifecycle"] = stats["lifecycle"]
    BY <1>2 DEF Categories
  <2>2. QED
    BY <1>1, <2>1 DEF Counted
<1>3. CASE c = "added"
  <2>1. /\ stats'["created"] = stats["created"] /\ stats'["added"] = stats["added"] + 1
        /\ stats'["finalized"] = stats["finalized"] /\ stats'["transfers"] = stats["transfers"]
        /\ stats'["genesis"] = stats["genesis"] /\ stats'["lifecycle"] = stats["lifecycle"]
    BY <1>3 DEF Categories
  <2>2. QED
    BY <1>1, <2>1 DEF Counted
<1>4. CASE c = "finalized"
  <2>1. /\ stats'["created"] = stats["created"] /\ stats'["added"] = stats["added"]
        /\ stats'["finalized"] = stats["finalized"] + 1 /\ stats'["transfers"] = stats["transfers"]
        /\ stats'["genesis"] = stats["genesis"] /\ stats'["lifecycle"] = stats["lifecycle"]
    BY <1>4 DEF Categories
  <2>2. QED
    BY <1>1, <2>1 DEF Counted
<1>5. CASE c = "transfers"
  <2>1. /\ stats'["created"] = stats["created"] /\ stats'["added"] = stats["added"]
        /\ stats'["finalized"] = stats["finalized"] /\ stats'["transfers"] = stats["transfers"] + 1
        /\ stats'["genesis"] = stats["genesis"] /\ stats'["lifecycle"] = stats["lifecycle"]
    BY <1>5 DEF Categories
  <2>2. QED
    BY <1>1, <2>1 DEF Counted
<1>6. CASE c = "genesis"
  <2>1. /\ stats'["created"] = stats["created"] /\ stats'["added"] = stats["added"]
        /\ stats'["finalized"] = stats["finalized"] /\ stats'["transfers"] = stats["transfers"]
        /\ stats'["genesis"] = stats["genesis"] + 1 /\ stats'["lifecycle"] = stats["lifecycle"]
    BY <1>6 DEF Categories
  <2>2. QED
    BY <1>1, <2>1 DEF Counted
<1>7. CASE c = "lifecycle"
  <2>1. /\ stats'["created"] = stats["created"] /\ stats'["added"] = stats["added"]
        /\ stats'["finalized"] = stats["finalized"] /\ stats'["transfers"] = stats["transfers"]
        /\ stats'["genesis"] = stats["genesis"] /\ stats'["lifecycle"] = stats["lifecycle"] + 1
    BY <1>7 DEF Categories
  <2>2. QED
    BY <1>1, <2>1 DEF Counted
<1>8. QED
  BY <1>2, <1>3, <1>4, <1>5, <1>6, <1>7 DEF Categories

\* A message that is read leaves the types and the statistics right: it counts in its
\* category and in the total together, the handshake in the total alone.
LEMMA SessionRead ==
  ASSUME WatchInv, ReadMessage
  PROVE  WatchInv'
<1> DEFINE kind == Head(read)
<1> USE DEF ReadMessage, signal
<1>1. kind \in Kinds /\ Tail(read) \in Seq(Kinds)
  BY DEF WatchInv, WatchTypeOK
<1>2. received' \in [Kinds -> Nat]
  BY <1>1 DEF WatchInv, WatchTypeOK
<1>3. stats' \in [Categories \cup {"total"} -> Nat]
  <2>1. stats \in [Categories \cup {"total"} -> Nat]
    BY DEF WatchInv, WatchTypeOK
  <2>2. CASE stats' = stats
    BY <2>1, <2>2
  <2>3. CASE Increment(kind)
    BY <2>1, <2>3 DEF Increment
  <2>4. QED
    BY <2>2, <2>3
<1>4. WatchTypeOK'
  BY <1>1, <1>2, <1>3 DEF WatchInv, WatchTypeOK
<1>5. ASSUME NEW k \in Kinds
      PROVE  received'[k] = IF k = kind THEN received[k] + 1 ELSE received[k]
  BY <1>1 DEF WatchInv, WatchTypeOK
<1>6. filter \in VALID_FILTERS \cup {NoFilter}
  BY DEF WatchInv, SessionRemembers
<1>7. ASSUME NEW k PROVE Matches(k)' <=> Matches(k)
  BY DEF Matches
<1>8. CASE kind \in Categories
  <2>1. kind # "handshake" /\ kind # "unreadable" /\ kind # "total"
    BY <1>8 DEF Categories
  <2>2. CASE Matches(kind)
    <3>1. ASSUME NEW c \in Categories \cup {"total"}
          PROVE  stats'[c] = IF c = kind \/ c = "total" THEN stats[c] + 1 ELSE stats[c]
      BY <2>1, <2>2 DEF WatchInv, WatchTypeOK, Increment
    <3>2. ASSUME NEW c \in Categories
          PROVE  stats'[c] = IF Matches(c)' THEN received'[c] ELSE 0
      BY <1>5, <1>7, <2>2, <3>1
      DEF WatchInv, StatisticsAreRight, Categories, Kinds
    <3>3. received'["handshake"] = received["handshake"]
      BY <1>5, <2>1 DEF Kinds
    <3>4. Counted' = Counted + 1
      <4>1. \A c \in Categories : stats[c] \in Nat
        BY DEF WatchInv, WatchTypeOK
      <4>2. \A c \in Categories : stats'[c] = IF c = kind THEN stats[c] + 1 ELSE stats[c]
        BY <3>1 DEF Categories
      <4>3. QED
        BY <1>8, <4>1, <4>2, CountedOnce DEF WatchInv
    <3>6. StatisticsAreRight'
      <4>1. stats["total"] \in Nat /\ received["handshake"] \in Nat /\ Counted \in Nat
        BY CountsAreNumbers DEF WatchInv
      <4>2. stats'["total"] = stats["total"] + 1
        BY <3>1
      <4>3. QED
        BY <3>2, <3>3, <3>4, <4>1, <4>2 DEF WatchInv, StatisticsAreRight
    <3>7. QED
      BY <1>4, <3>6 DEF WatchInv, EndsForAReason, SessionRemembers, Running
  <2>3. CASE ~Matches(kind)
    <3>1. stats' = stats
      BY <2>3
    <3>2. ASSUME NEW c \in Categories
          PROVE  stats'[c] = IF Matches(c)' THEN received'[c] ELSE 0
      BY <1>5, <1>7, <2>3, <3>1
      DEF WatchInv, StatisticsAreRight, Kinds
    <3>3. received'["handshake"] = received["handshake"]
      BY <1>5, <2>1 DEF Kinds
    <3>4. QED
      BY <1>4, <3>1, <3>2, <3>3
      DEF WatchInv, StatisticsAreRight, Counted, EndsForAReason, SessionRemembers,
          Running
  <2>4. QED
    BY <2>2, <2>3
<1>9. CASE kind = "handshake"
  <2>1. Matches(kind) <=> filter = NoFilter
    BY <1>6, <1>9 DEF Matches, VALID_FILTERS, Categories
  <2>2. kind \notin Categories \cup {"total"} /\ kind # "unreadable"
    BY <1>9 DEF Categories
  <2>3. ASSUME NEW c \in Categories PROVE stats'[c] = stats[c] /\ received'[c] = received[c]
    BY <1>5, <2>2 DEF WatchInv, WatchTypeOK, Increment, Categories, Kinds
  <2>4. stats'["total"] = IF filter = NoFilter THEN stats["total"] + 1 ELSE stats["total"]
    BY <2>1, <2>2 DEF WatchInv, WatchTypeOK, Increment
  <2>5. received'["handshake"] = received["handshake"] + 1
    BY <1>5, <1>9 DEF Kinds
  <2>6. StatisticsAreRight'
    <3>1. stats["total"] \in Nat /\ received["handshake"] \in Nat /\ Counted \in Nat
      BY CountsAreNumbers DEF WatchInv
    <3>2. Counted' = Counted
      BY <2>3 DEF Counted, Categories
    <3>3. \A c \in Categories : stats'[c] = IF Matches(c)' THEN received'[c] ELSE 0
      BY <1>7, <2>3 DEF WatchInv, StatisticsAreRight
    <3>4. QED
      BY <2>4, <2>5, <3>1, <3>2, <3>3 DEF WatchInv, StatisticsAreRight
  <2>7. QED
    BY <1>4, <2>6 DEF WatchInv, EndsForAReason, SessionRemembers, Running
<1>10. CASE kind = "unreadable"
  <2>1. stats' = stats
    BY <1>10
  <2>2. ASSUME NEW k \in Categories \cup {"handshake"} PROVE received'[k] = received[k]
    BY <1>5, <1>10 DEF Categories, Kinds
  <2>3. StatisticsAreRight'
    BY <1>7, <2>1, <2>2 DEF WatchInv, StatisticsAreRight, Counted
  <2>4. QED
    BY <1>4, <2>3 DEF WatchInv, EndsForAReason, SessionRemembers, Running
<1>11. QED
  BY <1>1, <1>8, <1>9, <1>10 DEF Kinds

\* No other step touches what the statistics are about.
LEMMA StatisticsKept ==
  ASSUME StatisticsAreRight, UNCHANGED <<filter, stats, received>>
  PROVE  StatisticsAreRight'
BY DEF StatisticsAreRight, Counted, Matches

\* A failure gives up exactly if it is one too many.
LEMMA FailedEnds ==
  ASSUME WatchTypeOK, EndsForAReason, SessionRemembers,
         step \in {"connecting", "watching"}, Failed,
         UNCHANGED <<retry_forever, presses>>
  PROVE  EndsForAReason'
<1>1. retry_count = failures /\ failures \in Nat /\ MAX_RETRIES \in Nat
  <2>1. MAX_RETRIES \in Nat /\ MaxFailures \in Nat
    BY RetriesAssumption, BoundsAssumption
  <2>2. failures \in 0..MaxFailures
    BY DEF WatchTypeOK
  <2>3. retry_count = failures
    BY DEF SessionRemembers
  <2>4. QED
    BY <2>1, <2>2, <2>3
<1>2. retry_count' = failures + 1 /\ failures' = failures + 1 /\ presses' = presses
  BY <1>1 DEF Failed
<1>3. CASE ~retry_forever /\ failures + 1 > MAX_RETRIES
  <2>1. step' = "gave up"
    BY <1>2, <1>3 DEF Failed
  <2>2. QED
    BY <1>2, <1>3, <2>1 DEF EndsForAReason
<1>4. CASE ~(~retry_forever /\ failures + 1 > MAX_RETRIES)
  <2>1. step' = "delay"
    BY <1>2, <1>4 DEF Failed
  <2>2. QED
    BY <1>2, <1>4, <2>1 DEF EndsForAReason
<1>5. QED
  BY <1>3, <1>4

LEMMA SessionStep ==
  ASSUME WatchInv, [WatchNext]_watchVars
  PROVE  WatchInv'
<1> USE RetriesAssumption, BoundsAssumption DEF signal, net
<1>1. CASE ReadMessage
  BY <1>1, SessionRead
<1>2. CASE Open
  <2>1. read' \in Seq(Kinds)
    BY <1>2, StartupAssumption DEF Open, Kinds
  <2>2. WatchTypeOK'
    BY <1>2, <2>1 DEF Open, WatchInv, WatchTypeOK
  <2>3. QED
    BY <1>2, <2>2, StatisticsKept
    DEF Open, WatchInv, EndsForAReason, SessionRemembers, Running
<1>3. CASE Emit
  <2>1. read' \in Seq(Kinds)
    BY <1>3 DEF Emit, WatchInv, WatchTypeOK
  <2>2. WatchTypeOK'
    BY <1>3, <2>1 DEF Emit, WatchInv, WatchTypeOK
  <2>3. QED
    BY <1>3, <2>2, StatisticsKept
    DEF Emit, WatchInv, EndsForAReason, SessionRemembers, Running
<1>4. CASE Break
  BY <1>4, StatisticsKept
  DEF Break, WatchInv, WatchTypeOK, EndsForAReason, SessionRemembers,
      Running
<1>5. CASE PressCtrlC
  <2> USE <1>5 DEF PressCtrlC
  <2>1. presses \in Nat /\ presses' = presses + 1 /\ presses' \in 0..MaxPresses
    <3>1. presses \in 0..MaxPresses
      BY DEF WatchInv, WatchTypeOK
    <3>2. MaxPresses \in Nat /\ presses < MaxPresses /\ presses' = presses + 1
      OBVIOUS
    <3> HIDE <1>5 DEF PressCtrlC
    <3>3. QED
      BY <3>1, <3>2
  <2>2. pressed' \in BOOLEAN /\ (pressed' => listening')
    <3>1. pressed' = (pressed \/ listening) /\ listening' = listening
      OBVIOUS
    <3>2. listening \in BOOLEAN /\ (pressed => listening)
      BY DEF WatchInv, WatchTypeOK
    <3> HIDE <1>5 DEF PressCtrlC
    <3>3. QED
      BY <3>1, <3>2
  <2>3. CASE handler
    <3>1. step' = step
      BY <2>3
    <3>2. WatchTypeOK'
      BY <2>1, <2>2, <3>1 DEF WatchInv, WatchTypeOK
    <3>3. step # "gave up" /\ step # "killed" /\ EndsForAReason
      BY DEF WatchInv, Running
    <3>4. EndsForAReason'
      <4>1. retry_forever' = retry_forever /\ failures' = failures
        OBVIOUS
      <4>2. step' # "gave up" /\ step' # "killed"
        BY <3>1, <3>3
      <4>5. presses' > 0
        <5> HIDE <1>5 DEF PressCtrlC
        <5>1. QED
          BY <2>1
      <4>3. ~(~retry_forever /\ failures > MAX_RETRIES)
        BY <3>3 DEF EndsForAReason
      <4> HIDE <1>5 DEF PressCtrlC
      <4>4. QED
        BY <4>1, <4>2, <4>3, <4>5 DEF EndsForAReason
    <3>5. SessionRemembers'
      BY <2>1, <2>3, <3>1 DEF WatchInv, SessionRemembers, Running
    <3>6. QED
      BY <3>2, <3>4, <3>5, StatisticsKept DEF WatchInv
  <2>4. CASE ~handler
    <3>1. step' = "killed" /\ ~handler'
      BY <2>4
    <3>2. presses' = 1
      BY <2>1, <2>4 DEF WatchInv, SessionRemembers
    <3>3. ~listening /\ ~pressed /\ ~listening' /\ ~pressed'
      BY <2>4 DEF WatchInv, WatchTypeOK
    <3>4. WatchTypeOK'
      BY <2>1, <2>2, <3>1, <3>3 DEF WatchInv, WatchTypeOK
    <3>5. step # "gave up" /\ EndsForAReason
      BY DEF WatchInv, Running
    <3>6. EndsForAReason'
      BY <3>1, <3>2, <3>5 DEF EndsForAReason
    <3>7. SessionRemembers'
      BY <3>1, <3>3 DEF WatchInv, SessionRemembers, Running
    <3>8. QED
      BY <3>4, <3>6, <3>7, StatisticsKept DEF WatchInv
  <2>5. QED
    BY <2>3, <2>4
<1>6. CASE Validate
  BY <1>6, StatisticsKept
  DEF Validate, WatchInv, WatchTypeOK, EndsForAReason,
      SessionRemembers, Running
<1>7. CASE OpenFails
  <2>1. WatchTypeOK'
    <3>1. retry_count' \in 0..MaxFailures /\ failures' \in 0..MaxFailures
      <4>1. retry_count = failures /\ failures \in 0..MaxFailures /\ failures < MaxFailures
        BY <1>7 DEF OpenFails, WatchInv, WatchTypeOK, SessionRemembers
      <4>2. retry_count' = retry_count + 1 /\ failures' = failures + 1
        BY <1>7 DEF OpenFails, Failed
      <4>3. QED
        BY <4>1, <4>2
    <3>2. step' \in {"gave up", "delay"}
      BY <1>7 DEF OpenFails, Failed
    <3>3. pressed' = FALSE /\ listening' = FALSE
      BY <1>7 DEF OpenFails, WatchInv, WatchTypeOK
    <3>4. QED
      BY <1>7, <3>1, <3>2, <3>3 DEF OpenFails, WatchInv, WatchTypeOK
  <2>2. EndsForAReason'
    BY <1>7, FailedEnds DEF OpenFails, WatchInv
  <2>3. SessionRemembers'
    <3>1. step' \in {"gave up", "delay"}
      BY <1>7 DEF OpenFails, Failed
    <3>2. retry_count' = failures' /\ UNCHANGED <<filter, handler, presses>> /\ (pressed' => pressed)
      BY <1>7 DEF OpenFails, Failed, WatchInv, SessionRemembers
    <3>3. step \in {"connecting", "watching"}
      BY <1>7 DEF OpenFails
    <3>4. QED
      BY <3>1, <3>2, <3>3 DEF WatchInv, SessionRemembers, Running
  <2>4. StatisticsAreRight'
    BY <1>7, StatisticsKept DEF OpenFails, Failed, WatchInv
  <2>5. QED
    BY <2>1, <2>2, <2>3, <2>4 DEF WatchInv
<1>8. CASE PollCtrlC
  BY <1>8, StatisticsKept
  DEF PollCtrlC, WatchInv, WatchTypeOK, EndsForAReason,
      SessionRemembers, Running
<1>9. CASE Disconnected
  <2>1. WatchTypeOK'
    <3>1. retry_count' \in 0..MaxFailures /\ failures' \in 0..MaxFailures
      <4>1. retry_count = failures /\ failures \in 0..MaxFailures /\ failures < MaxFailures
        BY <1>9 DEF Disconnected, WatchInv, WatchTypeOK, SessionRemembers
      <4>2. retry_count' = retry_count + 1 /\ failures' = failures + 1
        BY <1>9 DEF Disconnected, Failed
      <4>3. QED
        BY <4>1, <4>2
    <3>2. step' \in {"gave up", "delay"}
      BY <1>9 DEF Disconnected, Failed
    <3>3. pressed' = FALSE /\ listening' = FALSE
      BY <1>9 DEF Disconnected, WatchInv, WatchTypeOK
    <3>4. QED
      BY <1>9, <3>1, <3>2, <3>3 DEF Disconnected, WatchInv, WatchTypeOK
  <2>2. EndsForAReason'
    BY <1>9, FailedEnds DEF Disconnected, WatchInv
  <2>3. SessionRemembers'
    <3>1. step' \in {"gave up", "delay"}
      BY <1>9 DEF Disconnected, Failed
    <3>2. retry_count' = failures' /\ UNCHANGED <<filter, handler, presses>> /\ (pressed' => pressed)
      BY <1>9 DEF Disconnected, Failed, WatchInv, SessionRemembers
    <3>3. step \in {"connecting", "watching"}
      BY <1>9 DEF Disconnected
    <3>4. QED
      BY <3>1, <3>2, <3>3 DEF WatchInv, SessionRemembers, Running
  <2>4. StatisticsAreRight'
    BY <1>9, StatisticsKept DEF Disconnected, Failed, WatchInv
  <2>5. QED
    BY <2>1, <2>2, <2>3, <2>4 DEF WatchInv
<1>10. CASE Stop
  BY <1>10, StatisticsKept
  DEF Stop, WatchInv, WatchTypeOK, EndsForAReason,
      SessionRemembers, Running
<1>11. CASE Reconnect
  BY <1>11, StatisticsKept
  DEF Reconnect, WatchInv, WatchTypeOK, EndsForAReason,
      SessionRemembers, Running
<1>12. CASE UNCHANGED watchVars
  BY <1>12, StatisticsKept
  DEF watchVars, WatchInv, WatchTypeOK, EndsForAReason,
      SessionRemembers, Running
<1>13. QED
  BY <1>1, <1>2, <1>3, <1>4, <1>5, <1>6, <1>7, <1>8, <1>9, <1>10, <1>11, <1>12
  DEF WatchNext, Client

(* The invariant of a watch: every event that was read and passes the filter  *)
(* is in the statistics once, over all connections, and the failures and the  *)
(* presses of Ctrl-C are remembered.                                         *)
THEOREM WatchInvariance == WatchSpec => []WatchInv
<1>1. WatchInit => WatchInv
  BY SessionInit
<1>2. WatchInv /\ [WatchNext]_watchVars => WatchInv'
  BY SessionStep
<1>3. QED
  BY <1>1, <1>2, PTL DEF WatchSpec

(* A watch ends by a press of Ctrl-C, or with one failure more than the       *)
(* retries it has, which nothing received in between gives back.             *)
THEOREM WatchEnds == WatchSpec => []EndsForAReason
<1>1. WatchInv => EndsForAReason
  BY DEF WatchInv
<1>2. QED
  BY <1>1, WatchInvariance, PTL

(* Ctrl-C that a connection has heard is forgotten only by ending the watch  *)
(* or with that connection.                                                  *)
THEOREM PressIsKept ==
  WatchSpec => [][pressed => pressed' \/ step' = "finished" \/ broken]_watchVars
<1>1. WatchInv /\ [WatchNext]_watchVars
        => [pressed => pressed' \/ step' = "finished" \/ broken]_watchVars
  BY DEF WatchInv, WatchTypeOK, WatchNext, Client, Emit, Break, PressCtrlC,
     Validate, Open, OpenFails, PollCtrlC, Disconnected,
     ReadMessage, Stop, Reconnect, signal
<1>2. QED
  BY <1>1, WatchInvariance, PTL DEF WatchSpec

-----------------------------------------------------------------------------
(* NodeEvents *)

USE BlocksAssumption, NoiseAssumption, AbsentAssumption, OwnerAssumption, BoundAssumption

\* A call is after one of the two mutexes.
LEMMA WantedIsMutex ==
  ASSUME NEW p \in DOMAIN Wanted
  PROVE  Wanted[p] \in Mutexes
BY DEF Wanted, Mutexes

-----------------------------------------------------------------------------
(* Types.  A call's deploy id is Absent only before its first poll, so TypeOK  *)
(* is inductive together with CallsBegun.                                     *)

Typed == TypeOK /\ CallsBegun

LEMMA TypeInit == Init => Typed
BY DEF Init, Typed, TypeOK, CallsBegun, Mutexes, Owners, CallPoints

LEMMA BatchHead ==
  ASSUME Typed, batch # <<>>
  PROVE  /\ Head(batch).id \in DeployIds /\ Head(batch).outcome \in Outcomes
         /\ Head(batch) \in Deploys /\ Tail(batch) \in Seq(Deploys)
<1>1. Head(batch) \in Deploys /\ Tail(batch) \in Seq(Deploys)
  BY DEF Typed, TypeOK
<1>2. QED
  BY <1>1 DEF Deploys

LEMMA TypeStep == Typed /\ [Next]_vars => Typed'
<1> SUFFICES ASSUME Typed, [Next]_vars PROVE Typed'
  OBVIOUS
<1> USE DEF Typed, TypeOK, CallsBegun, listenerVars, tables, callVars, nodeVars, Mutexes, Owners, CallPoints
<1>1. ASSUME NEW m \in Blocks \cup {Noise}, NodeSends(m) PROVE Typed'
  <2>1. m # Noise => m \in Seq(Deploys)
    OBVIOUS
  <2>2. sent' \subseteq Deploys
    BY <1>1, <2>1 DEF NodeSends
  <2>3. stream' \in Seq(Blocks \cup {Noise})
    BY <1>1 DEF NodeSends
  <2>4. QED
    BY <1>1, <2>2, <2>3 DEF NodeSends
<1>2. CASE Connect
  BY <1>2 DEF Connect
<1>3. CASE Disconnect
  BY <1>3 DEF Disconnect
<1>4. CASE RetryDelay
  BY <1>4 DEF RetryDelay
<1>5. CASE SkipMessage
  BY <1>5 DEF SkipMessage
<1>6. CASE ReceiveBlock
  <2>1. Head(stream) \in Blocks /\ Tail(stream) \in Seq(Blocks \cup {Noise})
    BY <1>6 DEF ReceiveBlock
  <2>2. QED
    BY <1>6, <2>1 DEF ReceiveBlock
<1>7. CASE LockTables
  BY <1>7 DEF LockTables
<1>8. CASE RecordDeploy
  <2>1. batch # <<>>
    BY <1>8 DEF RecordDeploy
  <2>2. /\ Head(batch).id \in DeployIds /\ Head(batch).outcome \in Outcomes
        /\ Tail(batch) \in Seq(Deploys)
    BY <2>1, BatchHead
  <2>3. NotifyWaiters(pending[Head(batch).id]) \subseteq {c \in Callers : pc[c] = "listening"}
    BY <2>2 DEF NotifyWaiters
  <2>4. QED
    BY <1>8, <2>2, <2>3 DEF RecordDeploy
<1>9. CASE ReleaseTables
  BY <1>9 DEF ReleaseTables
<1>10. ASSUME NEW c \in Callers, NEW d \in DeployIds, NEW how \in {"checking", "peeking"},
              Call(c, d, how)
       PROVE  Typed'
  BY <1>10 DEF Call
<1>11. ASSUME NEW c \in Callers, CallStep(c) \/ Cancel(c) PROVE Typed'
  <2>1. CASE Acquire(c)
    BY <2>1, WantedIsMutex DEF Acquire
  <2>2. CASE CheckResults(c)
    BY <2>2 DEF CheckResults, Release
  <2>3. CASE Register(c)
    <3>1. Rivals(c) \subseteq Callers
      BY DEF Rivals
    <3>2. QED
      BY <2>3, <3>1 DEF Register, Release
  <2>4. CASE Listen(c)
    BY <2>4 DEF Listen
  <2>5. CASE Wake(c)
    BY <2>5 DEF Wake
  <2>6. CASE Timeout(c)
    BY <2>6 DEF Timeout
  <2>7. CASE ReadResult(c)
    BY <2>7 DEF ReadResult, Release
  <2>8. CASE CleanUp(c)
    BY <2>8 DEF CleanUp, Release
  <2>9. CASE IsFinalized(c)
    BY <2>9 DEF IsFinalized, Release
  <2>10. CASE Cancel(c)
    BY <2>10 DEF Cancel, Wanted
  <2>11. QED
    BY <1>11, <2>1, <2>2, <2>3, <2>4, <2>5, <2>6, <2>7, <2>8, <2>9, <2>10 DEF CallStep
<1>12. CASE UNCHANGED vars
  BY <1>12 DEF vars
<1>13. QED
  BY <1>1, <1>2, <1>3, <1>4, <1>5, <1>6, <1>7, <1>8, <1>9, <1>10, <1>11, <1>12 DEF Next, ListenerStep

\* Every variable keeps its type, whatever the node sends and the callers do.
THEOREM TypeCorrect == Spec => []TypeOK
<1>1. Typed => TypeOK
  BY DEF Typed
<1>2. QED
  BY <1>1, TypeInit, TypeStep, PTL DEF Spec

-----------------------------------------------------------------------------
(* The inductive invariant *)

LEMMA IInvInit == Init => IInv
<1> SUFFICES ASSUME Init PROVE IInv
  OBVIOUS
<1>1. Typed
  BY TypeInit
<1>2. QED
  BY <1>1 DEF Typed, Init, IInv, FlowIsGenuine, AnswersAreGenuine, SignalImpliesResult,
     SignalledIsUnregistered, PendingIsLive, RivalsAreContended, LoneCallReachable, Registered

\* What is on its way to the table, on record, or returned was announced.
LEMMA GenuineStep ==
  Typed /\ FlowIsGenuine /\ AnswersAreGenuine /\ [Next]_vars
    => FlowIsGenuine' /\ AnswersAreGenuine'
<1> SUFFICES ASSUME Typed, FlowIsGenuine, AnswersAreGenuine, [Next]_vars
             PROVE  FlowIsGenuine' /\ AnswersAreGenuine'
  OBVIOUS
<1> USE DEF Typed, TypeOK, CallsBegun, listenerVars, tables, callVars, nodeVars,
            FlowIsGenuine, AnswersAreGenuine
<1>1. ASSUME NEW m \in Blocks \cup {Noise}, NodeSends(m)
      PROVE  FlowIsGenuine' /\ AnswersAreGenuine'
  <2>1. sent \subseteq sent'
    BY <1>1 DEF NodeSends
  <2>2. m # Noise => m \in Seq(Deploys) /\ \A j \in 1..Len(m) : m[j] \in sent'
    BY <1>1 DEF NodeSends
  <2>3. ASSUME NEW i \in 1..Len(stream'), stream'[i] # Noise
        PROVE  \A j \in 1..Len(stream'[i]) : stream'[i][j] \in sent'
    <3>1. stream' = stream \/ stream' = Append(stream, m)
      BY <1>1 DEF NodeSends
    <3>2. CASE i \in 1..Len(stream) /\ stream'[i] = stream[i]
      BY <2>1, <2>3, <3>2
    <3>3. CASE stream'[i] = m
      BY <2>2, <2>3, <3>3
    <3>4. stream'[i] = m \/ (i \in 1..Len(stream) /\ stream'[i] = stream[i])
      BY <3>1
    <3>5. QED
      BY <3>2, <3>3, <3>4
  <2>4. UNCHANGED <<batch, results, wid, ret>>
    BY <1>1 DEF NodeSends
  <2>5. QED
    BY <2>1, <2>3, <2>4
<1>2. CASE Connect
  BY <1>2 DEF Connect
<1>3. CASE Disconnect
  BY <1>3 DEF Disconnect
<1>4. CASE RetryDelay
  BY <1>4 DEF RetryDelay
<1>5. ASSUME SkipMessage \/ ReceiveBlock
      PROVE  FlowIsGenuine' /\ AnswersAreGenuine'
  <2>1. stream # <<>> /\ stream' = Tail(stream)
    BY <1>5 DEF SkipMessage, ReceiveBlock
  <2>2. \A i \in 1..Len(stream') : i+1 \in 1..Len(stream) /\ stream'[i] = stream[i+1]
    BY <2>1
  <2>3. \A i \in 1..Len(batch') : batch'[i] \in sent
    <3>1. CASE SkipMessage
      BY <3>1 DEF SkipMessage
    <3>2. CASE ReceiveBlock
      <4>1. Head(stream) = stream[1] /\ stream[1] # Noise /\ 1 \in 1..Len(stream)
        BY <2>1, <3>2 DEF ReceiveBlock
      <4>2. QED
        BY <3>2, <4>1 DEF ReceiveBlock
    <3>3. QED
      BY <1>5, <3>1, <3>2
  <2>4. UNCHANGED <<sent, results, wid, ret>>
    BY <1>5 DEF SkipMessage, ReceiveBlock
  <2>5. QED
    BY <2>2, <2>3, <2>4
<1>6. CASE LockTables
  BY <1>6 DEF LockTables
<1>7. CASE RecordDeploy
  <2>1. Head(batch) \in Deploys /\ Head(batch) \in sent
    BY <1>7 DEF RecordDeploy
  <2>2. \A i \in 1..Len(batch') : i+1 \in 1..Len(batch) /\ batch'[i] = batch[i+1]
    BY <1>7 DEF RecordDeploy
  <2>3. Head(batch) = [id |-> Head(batch).id, outcome |-> Head(batch).outcome]
    BY <2>1 DEF Deploys
  <2>4. \A d \in DeployIds : results'[d] # Absent => [id |-> d, outcome |-> results'[d]] \in sent
    BY <1>7, <2>1, <2>3 DEF RecordDeploy, Deploys
  <2>5. UNCHANGED <<stream, sent, wid, ret>>
    BY <1>7 DEF RecordDeploy
  <2>6. QED
    BY <2>2, <2>4, <2>5
<1>8. CASE ReleaseTables
  BY <1>8 DEF ReleaseTables
<1>9. ASSUME NEW c \in Callers, NEW d \in DeployIds, NEW how \in {"checking", "peeking"},
             Call(c, d, how)
      PROVE  FlowIsGenuine' /\ AnswersAreGenuine'
  BY <1>9 DEF Call
<1>10. ASSUME NEW c \in Callers, CallStep(c) \/ Cancel(c)
       PROVE  FlowIsGenuine' /\ AnswersAreGenuine'
  <2>1. UNCHANGED <<stream, batch, results, sent, wid>>
    BY <1>10 DEF CallStep, Acquire, CheckResults, Register, Listen, Wake, Timeout, ReadResult,
                 CleanUp, IsFinalized, Cancel
  <2>2. UNCHANGED ret \/ (pc[c] # "idle" /\ ret' = [ret EXCEPT ![c] = results[wid[c]]])
    BY <1>10 DEF CallStep, Acquire, CheckResults, Register, Listen, Wake, Timeout, ReadResult,
                 CleanUp, IsFinalized, Cancel
  <2>3. QED
    BY <2>1, <2>2
<1>11. CASE UNCHANGED vars
  BY <1>11 DEF vars
<1> HIDE DEF Typed, TypeOK, CallsBegun, FlowIsGenuine, AnswersAreGenuine
<1>12. QED
  BY <1>1, <1>2, <1>3, <1>4, <1>5, <1>6, <1>7, <1>8, <1>9, <1>10, <1>11 DEF Next, ListenerStep

\* A fired Notify has left the table and its deploy is on record; an entry of the
\* table belongs to a call that can still use it or was cancelled.
RegistryInv == SignalImpliesResult /\ SignalledIsUnregistered /\ PendingIsLive

LEMMA RegistryStep == Typed /\ RegistryInv /\ [Next]_vars => RegistryInv'
<1> SUFFICES ASSUME Typed, RegistryInv, [Next]_vars PROVE RegistryInv'
  OBVIOUS
<1> USE DEF Typed, TypeOK, CallsBegun, listenerVars, tables, callVars, nodeVars,
            RegistryInv, SignalImpliesResult, SignalledIsUnregistered, PendingIsLive
<1>1. ASSUME UNCHANGED <<pending, results, pc, wid, signalled>> PROVE RegistryInv'
  BY <1>1
<1>2. ASSUME \/ \E m \in Blocks \cup {Noise} : NodeSends(m)
             \/ Connect \/ Disconnect \/ RetryDelay \/ SkipMessage \/ ReceiveBlock
             \/ LockTables \/ ReleaseTables \/ (\E c \in Callers : Acquire(c)) \/ UNCHANGED vars
      PROVE  RegistryInv'
  <2>1. UNCHANGED <<pending, results, pc, wid, signalled>>
    BY <1>2 DEF NodeSends, Connect, Disconnect, RetryDelay, SkipMessage, ReceiveBlock,
                LockTables, ReleaseTables, Acquire, vars
  <2>2. QED
    BY <2>1, <1>1
<1>3. CASE RecordDeploy
  <2> DEFINE d == Head(batch).id
  <2>1. d \in DeployIds /\ Head(batch).outcome \in Outcomes
    BY <1>3, BatchHead DEF RecordDeploy
  <2>2. UNCHANGED <<pc, wid>> /\ pending' = [pending EXCEPT ![d] = Absent]
    BY <1>3 DEF RecordDeploy
  <2>3. \A e \in DeployIds : results'[e] # Absent <=> (e = d \/ results[e] # Absent)
    BY <1>3, <2>1 DEF RecordDeploy
  <2>4. \A c \in signalled' : c \in signalled \/ (c \in Callers /\ c = pending[d] /\ pc[c] = "listening")
    BY <1>3, <2>1 DEF RecordDeploy, NotifyWaiters
  <2>5. signalled \subseteq signalled'
    BY <1>3 DEF RecordDeploy
  <2> HIDE DEF d
  <2>6. SignalImpliesResult'
    BY <2>1, <2>2, <2>3, <2>4
  <2>7. SignalledIsUnregistered'
    BY <2>1, <2>2, <2>4, <2>5
  <2>8. PendingIsLive'
    BY <2>1, <2>2
  <2>9. QED
    BY <2>6, <2>7, <2>8
<1>4. ASSUME NEW c \in Callers, NEW e \in DeployIds, NEW how \in {"checking", "peeking"},
             Call(c, e, how)
      PROVE  RegistryInv'
  BY <1>4 DEF Call
<1>5. ASSUME NEW c \in Callers, Register(c) PROVE RegistryInv'
  BY <1>5 DEF Register
<1>6. ASSUME NEW c \in Callers, CleanUp(c) PROVE RegistryInv'
  BY <1>6 DEF CleanUp
<1>7. ASSUME NEW c \in Callers, Listen(c) \/ Timeout(c) PROVE RegistryInv'
  BY <1>7 DEF Listen, Timeout
<1>8. ASSUME NEW c \in Callers, Wake(c) PROVE RegistryInv'
  BY <1>8 DEF Wake
<1>9. ASSUME NEW c \in Callers, CheckResults(c) PROVE RegistryInv'
  BY <1>9 DEF CheckResults
<1>10. ASSUME NEW c \in Callers, ReadResult(c) \/ IsFinalized(c) PROVE RegistryInv'
  BY <1>10 DEF ReadResult, IsFinalized
<1>11. ASSUME NEW c \in Callers, Cancel(c) PROVE RegistryInv'
  BY <1>11 DEF Cancel, Wanted
<1> HIDE DEF Typed, RegistryInv
<1>12. QED
  BY <1>2, <1>3, <1>4, <1>5, <1>6, <1>7, <1>8, <1>9, <1>10, <1>11 DEF Next, ListenerStep, CallStep

\* While nothing is on record, nobody but a rival takes a call's entry away.
LoneInv == RivalsAreContended /\ LoneCallReachable

LEMMA LoneStep == Typed /\ RegistryInv /\ LoneInv /\ [Next]_vars => LoneInv'
<1> SUFFICES ASSUME Typed, RegistryInv, LoneInv, [Next]_vars PROVE LoneInv'
  OBVIOUS
<1> USE DEF Typed, TypeOK, CallsBegun, listenerVars, tables, callVars, nodeVars, LoneInv,
            RivalsAreContended, LoneCallReachable, Registered, Rivals
<1>1. ASSUME \/ \E m \in Blocks \cup {Noise} : NodeSends(m)
             \/ Connect \/ Disconnect \/ RetryDelay \/ SkipMessage \/ ReceiveBlock
             \/ LockTables \/ ReleaseTables \/ (\E c \in Callers : Acquire(c)) \/ UNCHANGED vars
      PROVE  LoneInv'
  <2>1. UNCHANGED <<pending, results, pc, wid, contended>>
    BY <1>1 DEF NodeSends, Connect, Disconnect, RetryDelay, SkipMessage, ReceiveBlock,
                LockTables, ReleaseTables, Acquire, vars
  <2>2. QED
    BY <2>1
<1>2. CASE RecordDeploy
  <2>1. Head(batch).id \in DeployIds /\ Head(batch).outcome \in Outcomes
    BY <1>2, BatchHead DEF RecordDeploy
  <2>2. UNCHANGED <<pc, wid, contended>>
    BY <1>2 DEF RecordDeploy
  <2>3. \A e \in DeployIds : results'[e] = Absent => results[e] = Absent /\ pending'[e] = pending[e]
    BY <1>2, <2>1 DEF RecordDeploy
  <2>4. QED
    BY <2>2, <2>3
<1>3. ASSUME NEW c \in Callers, NEW e \in DeployIds, NEW how \in {"checking", "peeking"},
             Call(c, e, how)
      PROVE  LoneInv'
  BY <1>3 DEF Call
<1>4. ASSUME NEW c \in Callers, Register(c) PROVE LoneInv'
  <2>1. RivalsAreContended'
    BY <1>4 DEF Register
  <2>2. LoneCallReachable'
    BY <1>4 DEF Register
  <2>3. QED
    BY <2>1, <2>2
<1>5. ASSUME NEW c \in Callers, CleanUp(c) PROVE LoneInv'
  BY <1>5 DEF CleanUp
<1>6. ASSUME NEW c \in Callers, Listen(c) \/ Timeout(c) \/ Wake(c) PROVE LoneInv'
  <2>1. CASE Listen(c)
    BY <2>1 DEF Listen
  <2>2. CASE Timeout(c)
    BY <2>2 DEF Timeout
  <2>3. CASE Wake(c)
    BY <2>3 DEF Wake
  <2>4. QED
    BY <1>6, <2>1, <2>2, <2>3
<1>7. ASSUME NEW c \in Callers, CheckResults(c) \/ ReadResult(c) \/ IsFinalized(c) PROVE LoneInv'
  <2>1. CASE CheckResults(c)
    BY <2>1 DEF CheckResults
  <2>2. CASE ReadResult(c)
    BY <2>2 DEF ReadResult
  <2>3. CASE IsFinalized(c)
    BY <2>3 DEF IsFinalized
  <2>4. QED
    BY <1>7, <2>1, <2>2, <2>3
<1>8. ASSUME NEW c \in Callers, Cancel(c) PROVE LoneInv'
  BY <1>8 DEF Cancel
<1> HIDE DEF Typed, LoneInv
<1>9. QED
  BY <1>1, <1>2, <1>3, <1>4, <1>5, <1>6, <1>7, <1>8 DEF Next, ListenerStep, CallStep

LEMMA IInvStep == IInv /\ [Next]_vars => IInv'
<1>1. IInv <=> Typed /\ FlowIsGenuine /\ AnswersAreGenuine /\ RegistryInv /\ LoneInv
  BY DEF IInv, Typed, RegistryInv, LoneInv
<1>2. IInv' <=> Typed' /\ FlowIsGenuine' /\ AnswersAreGenuine' /\ RegistryInv' /\ LoneInv'
  BY DEF IInv, Typed, RegistryInv, LoneInv
<1>3. QED
  BY <1>1, <1>2, TypeStep, GenuineStep, RegistryStep, LoneStep

\* The inductive invariant holds of every reachable state.
THEOREM Invariance == Spec => []IInv
BY IInvInit, IInvStep, PTL DEF Spec

\* wait_for_deploy and is_finalized return only events the node announced, for
\* the deploy they were asked about.
THEOREM GenuineAnswers == Spec => []AnswersAreGenuine
<1>1. IInv => AnswersAreGenuine
  BY DEF IInv
<1>2. QED
  BY <1>1, Invariance, PTL

\* The table of registrations holds no entry of a call that has returned.
THEOREM NoStaleRegistration == Spec => []PendingIsLive
<1>1. IInv => PendingIsLive
  BY DEF IInv
<1>2. QED
  BY <1>1, Invariance, PTL

-----------------------------------------------------------------------------
(* Steps *)

\* The step that first records a deploy signals the lone call listening for it.
THEOREM LoneCallIsWoken == Spec => LoneCallWoken
<1> DEFINE Woken == \A c \in Callers :
      pc[c] = "listening" /\ c \notin contended /\ Records(wid[c]) => c \in signalled'
<1>1. IInv /\ [Next]_vars => Woken
  <2> SUFFICES ASSUME IInv, [Next]_vars, NEW c \in Callers,
                      pc[c] = "listening", c \notin contended, Records(wid[c])
               PROVE  c \in signalled'
    OBVIOUS
  <2>1. wid[c] \in DeployIds /\ pending[wid[c]] = c
    BY DEF IInv, CallsBegun, LoneCallReachable, Records
  <2>2. RecordDeploy
    <3>1. results' # results
      BY DEF Records
    <3>2. QED
      BY <3>1 DEF Next, ListenerStep, CallStep, NodeSends, Connect, Disconnect, RetryDelay,
                  SkipMessage, ReceiveBlock, LockTables, ReleaseTables, Call, Acquire,
                  CheckResults, Register, Listen, Wake, Timeout, ReadResult, CleanUp,
                  IsFinalized, Cancel, tables, vars
  <2>3. Head(batch).id = wid[c]
    <3>1. batch # <<>> /\ results' = [results EXCEPT ![Head(batch).id] = Head(batch).outcome]
      BY <2>2 DEF RecordDeploy
    <3>2. results \in [DeployIds -> Outcomes \cup {Absent}]
      BY DEF IInv, TypeOK
    <3>3. QED
      BY <2>1, <3>1, <3>2 DEF Records
  <2>4. c \in NotifyWaiters(pending[Head(batch).id])
    BY <2>1, <2>3 DEF NotifyWaiters
  <2>5. QED
    BY <2>2, <2>4 DEF RecordDeploy
<1>2. IInv /\ [Next]_vars => [Woken]_vars
  BY <1>1
<1>3. QED
  BY <1>2, Invariance, PTL DEF Spec, LoneCallWoken

\* Every step of the listener and of a call is a step of FinalityWatch, or is
\* invisible to it.
LEMMA RefinesStep == Typed /\ [Next]_vars => [Watch!Next]_(Watch!absVars)
<1> SUFFICES ASSUME Typed, [Next]_vars PROVE [Watch!Next]_(Watch!absVars)
  OBVIOUS
<1> DEFINE phase == [c \in Callers |-> PhaseOf(pc[c])]
<1> USE DEF Typed, TypeOK, CallsBegun, listenerVars, tables, callVars, nodeVars
<1>1. ASSUME \/ \E m \in Blocks \cup {Noise} : NodeSends(m)
             \/ Connect \/ Disconnect \/ RetryDelay \/ SkipMessage \/ ReceiveBlock
             \/ LockTables \/ ReleaseTables \/ (\E c \in Callers : Acquire(c)) \/ UNCHANGED vars
      PROVE  UNCHANGED Watch!absVars
  <2>1. UNCHANGED <<results, pc, wid, ret>>
    BY <1>1 DEF NodeSends, Connect, Disconnect, RetryDelay, SkipMessage, ReceiveBlock,
                LockTables, ReleaseTables, Acquire, vars
  <2>2. QED
    BY <2>1 DEF Watch!absVars
<1>2. CASE RecordDeploy
  <2>1. Watch!Publish(Head(batch).id, Head(batch).outcome)
    BY <1>2 DEF RecordDeploy, Watch!Publish
  <2>2. QED
    BY <1>2, <2>1, BatchHead DEF RecordDeploy, Watch!Next
<1>3. ASSUME NEW c \in Callers, NEW d \in DeployIds, NEW how \in {"checking", "peeking"},
             Call(c, d, how)
      PROVE  Watch!Next
  <2>1. PhaseOf(how) \in {"waiting", "peeking"} /\ PhaseOf("idle") = "idle"
    BY DEF PhaseOf
  <2>2. phase' = [phase EXCEPT ![c] = PhaseOf(how)]
    BY <1>3 DEF Call
  <2>3. Watch!Ask(c, d, PhaseOf(how))
    BY <1>3, <2>1, <2>2 DEF Call, Watch!Ask
  <2>4. QED
    BY <2>1, <2>3 DEF Watch!Next
<1>4. ASSUME NEW c \in Callers, \/ Register(c) \/ Listen(c) \/ Wake(c) \/ Timeout(c)
      PROVE  UNCHANGED Watch!absVars
  <2>1. UNCHANGED <<results, wid, ret>>
    BY <1>4 DEF Register, Listen, Wake, Timeout
  <2>2. \A e \in Callers : PhaseOf(pc'[e]) = PhaseOf(pc[e])
    BY <1>4 DEF Register, Listen, Wake, Timeout, PhaseOf
  <2>3. QED
    BY <2>1, <2>2 DEF Watch!absVars
<1>5. ASSUME NEW c \in Callers, CheckResults(c) \/ ReadResult(c) \/ CleanUp(c) \/ IsFinalized(c)
      PROVE  Watch!Next \/ UNCHANGED Watch!absVars
  <2>1. PhaseOf(pc[c]) \in {"waiting", "peeking"} /\ UNCHANGED <<results, wid>>
    BY <1>5 DEF CheckResults, ReadResult, CleanUp, IsFinalized, PhaseOf
  <2>2. CASE pc'[c] = "done"
    <3>1. phase' = [phase EXCEPT ![c] = "answered"]
      <4>1. pc' = [pc EXCEPT ![c] = "done"]
        BY <1>5, <2>2 DEF CheckResults, ReadResult, CleanUp, IsFinalized
      <4>2. QED
        BY <4>1 DEF PhaseOf
    <3>2. \/ ret' = [ret EXCEPT ![c] = results[wid[c]]]
          \/ PhaseOf(pc[c]) = "waiting" /\ UNCHANGED ret
      BY <1>5 DEF CheckResults, ReadResult, CleanUp, IsFinalized, PhaseOf
    <3>3. Watch!Answer(c)
      BY <2>1, <3>1, <3>2 DEF Watch!Answer
    <3>4. QED
      BY <3>3 DEF Watch!Next
  <2>3. CASE pc'[c] # "done"
    <3>1. UNCHANGED ret
      BY <1>5, <2>3 DEF CheckResults, ReadResult, CleanUp, IsFinalized
    <3>2. \A e \in Callers : PhaseOf(pc'[e]) = PhaseOf(pc[e])
      BY <1>5, <2>3 DEF CheckResults, ReadResult, CleanUp, IsFinalized, PhaseOf
    <3>3. QED
      BY <2>1, <3>1, <3>2 DEF Watch!absVars
  <2>4. QED
    BY <2>2, <2>3
<1>6. ASSUME NEW c \in Callers, Cancel(c) PROVE Watch!Next
  <2>1. PhaseOf(pc[c]) \in {"waiting", "peeking"}
    BY <1>6 DEF Cancel, Wanted, PhaseOf
  <2>2. phase' = [phase EXCEPT ![c] = "withdrawn"]
    <3>1. pc' = [pc EXCEPT ![c] = "cancelled"]
      BY <1>6 DEF Cancel
    <3>2. QED
      BY <3>1 DEF PhaseOf
  <2>3. Watch!Withdraw(c)
    BY <1>6, <2>1, <2>2 DEF Cancel, Watch!Withdraw
  <2>4. QED
    BY <2>3 DEF Watch!Next
<1> HIDE DEF Typed
<1>7. QED
  BY <1>1, <1>2, <1>3, <1>4, <1>5, <1>6 DEF Next, ListenerStep, CallStep

LEMMA RefinesInit == Init => Watch!Init
BY DEF Init, Watch!Init, PhaseOf

\* NodeEvents implements the safety part of FinalityWatch: callers see a record
\* that only grows and are answered once, from it or with nothing.
THEOREM RefinesWatch == Spec => Watch!Safety
<1>1. Spec => []Typed
  BY TypeInit, TypeStep, PTL DEF Spec
<1>2. QED
  BY <1>1, RefinesInit, RefinesStep, PTL DEF Spec, Watch!Safety
=============================================================================
