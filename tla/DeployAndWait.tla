---------------------------- MODULE DeployAndWait ----------------------------
(***************************************************************************)
(* One deploy from the arguments of a command to its last line.  The       *)
(* callers of F1r3flyConnectionManager::deploy_and_wait (three commands of *)
(* src/commands/network.rs and `transfer' of src/connection_manager.rs)    *)
(* turn their arguments into a configuration, an amount and an expiration. *)
(* deploy_and_wait submits the deploy, polls the node until a block has    *)
(* it, polls the observer until that block is final, reads its data and    *)
(* its execution detail.  The commands report and may ask for a block.     *)
(* Each step is one request together with the sleep that follows it;       *)
(* blocks are made and finalised in between, any request can fail, and no  *)
(* request has a timeout: it may stay unanswered for ever.                 *)
(*                                                                         *)
(* A definition commented as a variant is no part of the specification:    *)
(* it is the definition after it with a plausible slip in it.              *)
(***************************************************************************)
EXTENDS Integers

CONSTANTS
  Blocks,           \* blocks that may come to include the deploy
  NoBlock,          \* no block hash yet
  Entries,          \* who calls deploy_and_wait
  Arguments,        \* what they are called with
  U32, U64,         \* how many values the two unsigned types have, scaled down
  DUST_FACTOR,      \* dust per token, scaled down from 100,000,000
  MILLIS,           \* milliseconds per second, scaled down from 1000
  Now               \* the clock, in milliseconds

AllEntries == {"deploy_and_wait_command", "bond_validator_command",
               "transfer_command", "transfer"}
Transfers == {"transfer_command", "transfer"}

Expiries == [how : {"never", "at", "in"}, value : Int]

ArgumentTypes ==
  [max_wait : Nat, finalization_timeout : Nat, check_interval : Nat,
   amount : Nat, expiry : Expiries, propose : BOOLEAN,
   fault : {"none", "input", "key"},    \* an unusable file or address; an unusable key
   checked : BOOLEAN]                   \* the build panics where arithmetic overflows

ASSUME NoBlockAssumption == NoBlock \notin Blocks
ASSUME EntriesAssumption == Entries \subseteq AllEntries
ASSUME ArgumentsAssumption == Arguments \subseteq ArgumentTypes
ASSUME WidthsAssumption ==
  /\ U32 \in Nat \ {0} /\ U64 \in Nat \ {0}
  /\ DUST_FACTOR \in Nat \ {0} /\ MILLIS \in Nat \ {0} /\ Now \in Nat

VARIABLES
  entry,       \* the caller
  args,        \* its arguments
  pc,          \* the phase, then how it ended: "ok", "failed", "panicked"
  attempts,    \* requests made in the current polling loop
  waited,      \* seconds slept in the current polling loop
  block,       \* block_hash, once the deploy is located
  status,      \* how the detail request was answered
  errored,     \* the `errored' field of the DeployResult
  silent,      \* the pending request will never be answered
  heartbeat,   \* external: somebody makes blocks without being asked
  proposed,    \* external: the node has been asked for a block
  live,        \* external: the node has accepted the deploy
  included,    \* external: blocks that include it
  finalised,   \* external: those that are final
  fails        \* external: whether its execution errors

call == <<entry, args>>
result == <<block, status, errored>>
loop == <<attempts, waited>>
shard == <<heartbeat, fails>>
chain == <<shard, proposed, live, included, finalised>>
vars == <<entry, args, pc, attempts, waited, block, status, errored, silent, heartbeat, proposed,
          live, included, finalised, fails>>

\* `transfer' is handed a configuration of u32 seconds, sets no expiration and
\* never proposes.  An amount and `expires_in' are u64.
Callable(e, a) ==
  /\ e = "transfer" => /\ a.max_wait < U32 /\ a.finalization_timeout < U32
                       /\ a.expiry.how = "never" /\ ~a.propose
  /\ a.amount < U64
  /\ a.expiry.how = "in" => a.expiry.value \in 0..(U64 - 1)

Init ==
  /\ entry \in Entries /\ args \in Arguments /\ Callable(entry, args)
  /\ pc = "preparing" /\ attempts = 0 /\ waited = 0
  /\ block = NoBlock /\ status = "unasked" /\ errored = FALSE /\ silent = FALSE
  /\ heartbeat \in BOOLEAN /\ fails \in BOOLEAN
  /\ proposed = FALSE /\ live = FALSE /\ included = {} /\ finalised = {}

-----------------------------------------------------------------------------
(* The network *)

\* A block with the deploy in it; the same deploy may end up in several.
Include(b) ==
  /\ live /\ (heartbeat \/ proposed) /\ b \notin included
  /\ included' = included \cup {b}
  /\ UNCHANGED <<call, pc, loop, result, silent, shard, proposed, live, finalised>>

Finalise(b) ==
  /\ b \in included \ finalised
  /\ finalised' = finalised \cup {b}
  /\ UNCHANGED <<call, pc, loop, result, silent, shard, proposed, live, included>>

-----------------------------------------------------------------------------
(* From arguments to a configuration, an amount and an expiration *)

\* build_config: `as u32' drops the upper half of the seconds asked for.
DeployTimeout == args.max_wait % U32

\* Bonds and transfers have no argument of their own for finalization.
AskedFinalization ==
  IF entry \in {"bond_validator_command", "transfer_command"}
  THEN args.max_wait ELSE args.finalization_timeout

FinalizationTimeout == AskedFinalization % U32

AskedAmount == IF entry = "transfer_command" THEN args.amount * DUST_FACTOR ELSE args.amount

AmountSent == AskedAmount % U64

\* `n as i64', and what i64 arithmetic leaves of n without overflow checks.
Half == U64 \div 2
InI64(n) == -Half <= n /\ n < Half
AsI64(n) == IF n % U64 < Half THEN n % U64 ELSE (n % U64) - U64

AskedExpiry ==
  IF args.expiry.how = "never" THEN 0
  ELSE IF args.expiry.how = "at" THEN args.expiry.value
  ELSE Now + args.expiry.value * MILLIS

\* calculate_expiration_timestamp
ExpirySent ==
  IF args.expiry.how = "in" THEN AsI64(Now + AsI64(args.expiry.value) * MILLIS) ELSE AskedExpiry

Overflows ==
  \/ entry = "transfer_command" /\ AskedAmount >= U64
  \/ /\ args.expiry.how = "in"
     /\ \/ ~InI64(AsI64(args.expiry.value) * MILLIS)
        \/ ~InI64(Now + AsI64(args.expiry.value) * MILLIS)

\* The file is unreadable or the address malformed; a transfer needs the key for
\* the address of the sender.
BadInput == args.fault = "input" \/ (args.fault = "key" /\ entry \in Transfers)

Reject ==
  /\ pc = "preparing" /\ BadInput
  /\ pc' = "failed"
  /\ UNCHANGED <<call, loop, result, silent, chain>>

ArgumentOverflow ==
  /\ pc = "preparing" /\ ~BadInput /\ args.checked /\ Overflows
  /\ pc' = "panicked"
  /\ UNCHANGED <<call, loop, result, silent, chain>>

\* Variant: what overflows wraps in every build.
PrepareWrapping ==
  /\ pc = "preparing" /\ ~BadInput
  /\ pc' = "deploying"
  /\ UNCHANGED <<call, loop, result, silent, chain>>

\* The rest is formatted into a contract and handed to deploy_and_wait.
Prepare ==
  /\ pc = "preparing" /\ ~BadInput /\ ~(args.checked /\ Overflows)
  /\ pc' = "deploying"
  /\ UNCHANGED <<call, loop, result, silent, chain>>

-----------------------------------------------------------------------------
(* Phase 1: F1r3flyApi::deploy *)

Enter(phase) == pc' = phase /\ attempts' = 0 /\ waited' = 0

\* F1r3flyApi::new cannot read the key: nothing is sent.
KeyFails ==
  /\ pc = "deploying" /\ args.fault = "key"
  /\ pc' = "failed"
  /\ UNCHANGED <<call, loop, result, silent, chain>>

Deploying == pc = "deploying" /\ args.fault # "key"

\* The node takes the deploy and its answer arrives.
DeployAccepted ==
  /\ Deploying
  /\ live' = TRUE
  /\ Enter("locating")
  /\ UNCHANGED <<call, result, silent, shard, proposed, included, finalised>>

\* No connection, a rejection, or an answer that is lost or unreadable: in the
\* last case the deploy is live although the call fails.
DeployFails ==
  /\ Deploying
  /\ live' \in BOOLEAN
  /\ pc' = "failed"
  /\ UNCHANGED <<call, loop, result, silent, shard, proposed, included, finalised>>

-----------------------------------------------------------------------------
(* Phase 2: wait_for_deploy, at most max_wait / check_interval requests *)

CHECK_INTERVAL_SEC == 2

MaxBlockWait == DeployTimeout \div args.check_interval

\* The division is evaluated after the deploy was submitted.
DivideByZero ==
  /\ pc = "locating" /\ args.check_interval = 0
  /\ pc' = "panicked"
  /\ UNCHANGED <<call, loop, result, silent, chain>>

Locating == pc = "locating" /\ args.check_interval # 0

\* 1..=0 is empty: "Deploy wait timeout" without a single request.
NoAttempts ==
  /\ Locating /\ MaxBlockWait = 0
  /\ pc' = "failed"
  /\ UNCHANGED <<call, loop, result, silent, chain>>

Found(b) ==
  /\ Locating /\ attempts < MaxBlockWait
  /\ b \in included
  /\ block' = b
  /\ Enter("confirming")
  /\ UNCHANGED <<call, status, errored, silent, chain>>

\* find_deploy_grpc is Ok(None) both when no block has the deploy and when the
\* node answers with an error message.
NotFound ==
  /\ Locating /\ attempts < MaxBlockWait
  /\ attempts' = attempts + 1
  /\ IF attempts' >= MaxBlockWait
     THEN pc' = "failed" /\ UNCHANGED waited
     ELSE waited' = waited + CHECK_INTERVAL_SEC /\ UNCHANGED pc
  /\ UNCHANGED <<call, result, silent, chain>>

\* Any transport error ends the wait at once.
FindFails ==
  /\ Locating /\ attempts < MaxBlockWait
  /\ pc' = "failed"
  /\ UNCHANGED <<call, loop, result, silent, chain>>

-----------------------------------------------------------------------------
(* Phase 3: wait_for_finalization over F1r3flyApi::is_finalized *)

RETRY_DELAY_SEC == 5

MaxFinalization ==
  LET n == FinalizationTimeout \div RETRY_DELAY_SEC IN IF n < 1 THEN 1 ELSE n

\* Variant: some block is final, rather than this one.
FinalizedSomeBlock ==
  /\ pc = "confirming"
  /\ finalised # {}
  /\ Enter("reading")
  /\ UNCHANGED <<call, result, silent, chain>>

\* is_finalized answers true.
Finalized ==
  /\ pc = "confirming"
  /\ block \in finalised
  /\ Enter("reading")
  /\ UNCHANGED <<call, result, silent, chain>>

\* Variant: > in place of >=.
NotFinalizedOnceMore ==
  /\ pc = "confirming"
  /\ attempts' = attempts + 1
  /\ IF attempts' > MaxFinalization
     THEN pc' = "failed" /\ UNCHANGED waited
     ELSE waited' = waited + RETRY_DELAY_SEC /\ UNCHANGED pc
  /\ UNCHANGED <<call, result, silent, chain>>

\* Variant: after the last attempt the block is located anew.
NotFinalizedRelocating ==
  /\ pc = "confirming"
  /\ IF attempts + 1 >= MaxFinalization
     THEN Enter("locating")
     ELSE attempts' = attempts + 1 /\ waited' = waited + RETRY_DELAY_SEC /\ UNCHANGED pc
  /\ UNCHANGED <<call, result, silent, chain>>

\* false, or an answer without a message, or a failed RPC: wait and ask again,
\* up to the last attempt.  An observer may lag, so false is always possible.
NotFinalized ==
  /\ pc = "confirming"
  /\ attempts' = attempts + 1
  /\ IF attempts' >= MaxFinalization
     THEN pc' = "failed" /\ UNCHANGED waited
     ELSE waited' = waited + RETRY_DELAY_SEC /\ UNCHANGED pc
  /\ UNCHANGED <<call, result, silent, chain>>

\* connect().await? and an Error message leave the loop whatever the attempt.
ObserverFails ==
  /\ pc = "confirming"
  /\ attempts' = attempts + 1
  /\ pc' = "failed"
  /\ UNCHANGED <<call, waited, result, silent, chain>>

-----------------------------------------------------------------------------
(* Phases 4 and 5, and the callers *)

\* get_data_at_deploy_id; a failure becomes an empty vector.
ReadData ==
  /\ pc = "reading"
  /\ pc' = "detailing"
  /\ UNCHANGED <<call, loop, result, silent, chain>>

\* Variant: the errored field of the detail is not looked at.
ReadDetailWithoutErrored ==
  /\ pc = "detailing"
  /\ status' \in {"success", "not_found", "server_error", "unreadable"}
  /\ errored' = FALSE
  /\ pc' = "reporting"
  /\ UNCHANGED <<call, loop, block, silent, chain>>

\* get_deploy_detail: the detail on success, Ok(None) on any other status, Err on
\* a network or JSON error; without a detail the result says errored = false.
ReadDetail ==
  /\ pc = "detailing"
  /\ status' \in {"success", "not_found", "server_error", "unreadable"}
  /\ errored' = (status' = "success" /\ fails)
  /\ pc' = "reporting"
  /\ UNCHANGED <<call, loop, block, silent, chain>>

\* Only transfer_command turns an errored result into an error; what is reported
\* as done may still be followed by --propose.
Report ==
  /\ pc = "reporting"
  /\ pc' = IF entry = "transfer_command" /\ errored THEN "failed"
           ELSE IF args.propose THEN "proposing" ELSE "ok"
  /\ UNCHANGED <<call, loop, result, silent, chain>>

\* A block, a refusal or a failure: each is printed and forgotten.
Propose ==
  /\ pc = "proposing"
  /\ pc' = "ok"
  /\ proposed' \in BOOLEAN
  /\ UNCHANGED <<call, loop, result, silent, shard, live, included, finalised>>

\* Neither tonic nor reqwest is given a timeout.
Requesting ==
  \/ Deploying
  \/ Locating /\ MaxBlockWait # 0
  \/ pc \in {"confirming", "reading", "detailing", "proposing"}

NeverAnswered ==
  /\ ~silent /\ Requesting
  /\ silent' = TRUE
  /\ live' \in IF pc = "deploying" THEN BOOLEAN ELSE {live}
  /\ UNCHANGED <<call, pc, loop, result, shard, proposed, included, finalised>>

ClientStep ==
  /\ ~silent
  /\ \/ Reject \/ ArgumentOverflow \/ Prepare
     \/ KeyFails \/ DeployAccepted \/ DeployFails
     \/ DivideByZero \/ NoAttempts \/ (\E b \in Blocks : Found(b)) \/ NotFound \/ FindFails
     \/ Finalized \/ NotFinalized \/ ObserverFails
     \/ ReadData \/ ReadDetail \/ Report \/ Propose

Next == ClientStep \/ NeverAnswered \/ \E b \in Blocks : Include(b) \/ Finalise(b)

Spec == Init /\ [][Next]_vars

\* The client goes on as long as its request ends and its timers fire.  Nothing is
\* assumed of the chain, and nothing prevents NeverAnswered.
FairSpec == Spec /\ WF_vars(ClientStep)

-----------------------------------------------------------------------------
(* Properties *)

Phases == {"preparing", "deploying", "locating", "confirming", "reading", "detailing",
           "reporting", "proposing"}
Ends == {"ok", "failed", "panicked"}

\* What follows the confirmation of a block.
Confirmed == {"reading", "detailing", "reporting", "proposing", "ok"}

\* Every variable has a value of its Rust type.
TypeOK ==
  /\ entry \in Entries /\ args \in Arguments /\ Callable(entry, args)
  /\ pc \in Phases \cup Ends
  /\ attempts \in Nat /\ waited \in Nat
  /\ block \in Blocks \cup {NoBlock}
  /\ status \in {"unasked", "success", "not_found", "server_error", "unreadable"}
  /\ errored \in BOOLEAN /\ silent \in BOOLEAN
  /\ heartbeat \in BOOLEAN /\ fails \in BOOLEAN
  /\ proposed \in BOOLEAN /\ live \in BOOLEAN
  /\ included \subseteq Blocks /\ finalised \subseteq Blocks

\* Data is read, and success reported, only for a block that includes the deploy
\* and is final (docs/architecture.md: data is read AFTER finalization), however
\* requests fail and blocks compete.
SuccessIsFinal ==
  pc \in Confirmed => live /\ block \in included /\ block \in finalised

\* The sleeps of a polling loop add up to no more than the caller asked for in its
\* arguments, whatever the conversion to u32 leaves of them; for the first loop as
\* long as check_interval is not one second, half of what it sleeps.
WaitsAreBounded ==
  /\ pc = "locating" /\ args.check_interval # 1 => waited <= args.max_wait
  /\ pc = "confirming" => waited <= AskedFinalization

\* A deploy that goes out, signed, carries no larger amount and no later expiration
\* than was asked for.  In a build that checks overflow it carries exactly these,
\* unless `as i64' took a duration of half the range or more for a negative one.
ArgumentsArrive ==
  live =>
    /\ AmountSent <= AskedAmount
    /\ ExpirySent <= AskedExpiry
    /\ args.checked => /\ entry = "transfer_command" => AmountSent = AskedAmount
                       /\ args.expiry.value < Half => ExpirySent = AskedExpiry

\* What docs/commands/propose.md, line 23, recommends `deploy-and-wait --propose' for:
\* "deploy + propose + wait", in this order, so that the request for a block goes out
\* while none has been found yet.  The code does not do this: it asks last.
ProposeIsBeforeTheWait == pc = "proposing" => block = NoBlock

\* How far that goes: where nobody makes blocks unasked (the standalone nodes without
\* heartbeat of line 21), no call with --propose gets past the wait, and none asks.
WaitNeedsAProposer ==
  ~heartbeat => pc \notin {"confirming"} \cup Confirmed /\ ~proposed

\* `transfer' on the command line never says "Transfer complete" for a deploy that
\* the node reported as errored.
TransferCommandIsHonest ==
  entry = "transfer_command" /\ pc = "ok" /\ status = "success" => ~fails

\* The inductive invariant: only a live deploy is included, only an included one is
\* located and confirmed, an answered detail request is believed, and the sleeps
\* are counted by the requests.
ChainIsCausal ==
  /\ pc = "preparing" => ~live /\ ~silent
  /\ pc = "deploying" => ~live \/ silent
  /\ included # {} => live
  /\ finalised \subseteq included
  /\ pc \in {"locating", "confirming"} => live
  /\ pc = "confirming" => block \in included

DeployIsPrepared ==
  pc = "deploying" \/ live => ~(args.checked /\ Overflows)

NothingUnasked ==
  /\ included # {} => heartbeat \/ proposed
  /\ proposed => pc = "ok" /\ heartbeat

DetailIsBelieved == status = "success" => errored = fails

SleepsAreCounted ==
  /\ Locating => /\ waited = CHECK_INTERVAL_SEC * attempts
                 /\ attempts < MaxBlockWait \/ attempts = 0
  /\ pc = "locating" /\ args.check_interval = 0 => waited = 0 /\ attempts = 0
  /\ pc = "confirming" => waited = RETRY_DELAY_SEC * attempts /\ attempts < MaxFinalization

HonestReport == entry = "transfer_command" /\ pc \in {"proposing", "ok"} => ~errored

IInv ==
  /\ TypeOK
  /\ ChainIsCausal
  /\ DeployIsPrepared
  /\ NothingUnasked
  /\ SuccessIsFinal
  /\ DetailIsBelieved
  /\ SleepsAreCounted
  /\ HonestReport

\* However long the deploy stays out of a final block, a call ends, or hangs in a
\* single request that is never answered: it is never held up by its own loops.
AlwaysEnds == <>(pc \in Ends \/ silent)

\* What a call can still do at most, by its arguments alone: the requests of both
\* loops and the single ones around them.
StepsLeft ==
  LET located == IF args.check_interval = 0 THEN 0 ELSE MaxBlockWait
  IN  CASE pc = "preparing"  -> located + MaxFinalization + 7
        [] pc = "deploying"  -> located + MaxFinalization + 6
        [] pc = "locating"   -> located - attempts + MaxFinalization + 5
        [] pc = "confirming" -> MaxFinalization - attempts + 4
        [] pc = "reading"    -> 4
        [] pc = "detailing"  -> 3
        [] pc = "reporting"  -> 2
        [] pc = "proposing"  -> 1
        [] OTHER             -> 0

\* Every step of the client, a failed or fruitless request included, uses up some of
\* that, and nothing that the network does gives any of it back.
StepsRunOut ==
  [][IF ClientStep THEN StepsLeft' \in 0..(StepsLeft - 1) ELSE StepsLeft' = StepsLeft]_vars
=============================================================================
