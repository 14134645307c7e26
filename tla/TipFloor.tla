------------------------------ MODULE TipFloor ------------------------------
(***************************************************************************)
(* How a deploy picks its valid_after_block_number (VABN), in              *)
(* src/grpc/blocks.rs and src/grpc/deploy.rs.  F1r3flyApi::deploy samples  *)
(* the tip of the main chain twice, never goes below the tip_floor atomic  *)
(* of its F1r3flyApi, and raises the floor; deploy_internal asks once and  *)
(* leaves the floor alone.  The floor is read by one atomic load and       *)
(* written by a separate store, and is shared by the calls made on one     *)
(* F1r3flyApi; the connection manager makes a new F1r3flyApi for each      *)
(* call.                                                                   *)
(*                                                                         *)
(* A definition commented as a variant is no part of the specification:    *)
(* it is the definition after it with a plausible slip in it.              *)
(***************************************************************************)
EXTENDS Integers

CONSTANTS
  Calls,       \* deploys, each made once
  Api,         \* the F1r3flyApi the calls share, if they do
  Shared,      \* TRUE: one F1r3flyApi for all; FALSE: the manager's one per call
  MaxHead      \* bound: height the chain grows to

ASSUME SharedAssumption == Shared \in BOOLEAN
ASSUME MaxHeadAssumption == MaxHead \in Nat

TIP_FLOOR_UNSET == -1
TIP_SAMPLE_ATTEMPTS == 2

\* No successful sample so far: the None of best_tip.
NoTip == -1

Handles == IF Shared THEN {Api} ELSE Calls
Handle(c) == IF Shared THEN Api ELSE c

VARIABLES
  head,        \* height of the chain; a node reports this or an older tip
  floor,       \* floor[h]: tip_floor of F1r3flyApi h
  pc,          \* pc[c]: where deploy c is
  attempt,     \* attempt[c]: samples taken
  best,        \* best[c]: best_tip
  cached,      \* cached[c]: cached_tip, the floor as c loaded it
  vabn,        \* vabn[c]: the block number c puts into its deploy
  earlier,     \* history: earlier[c] = sampled deploys complete when c began
  lostUpdate   \* history: some store overwrote a floor its call had not loaded

vars == <<head, floor, pc, attempt, best, cached, vabn, earlier, lostUpdate>>

Init ==
  /\ head = 0
  /\ floor = [h \in Handles |-> TIP_FLOOR_UNSET]
  /\ pc = [c \in Calls |-> "idle"]
  /\ attempt = [c \in Calls |-> 0]
  /\ best = [c \in Calls |-> NoTip]
  /\ cached = [c \in Calls |-> TIP_FLOOR_UNSET]
  /\ vabn = [c \in Calls |-> 0]
  /\ earlier = [c \in Calls |-> {}]
  /\ lostUpdate = FALSE

\* Environment: a block is added to the main chain.
HeadGrows ==
  /\ head < MaxHead
  /\ head' = head + 1
  /\ UNCHANGED <<floor, pc, attempt, best, cached, vabn, earlier, lostUpdate>>

\* What show_main_chain yields: the highest number of the blocks it returned,
\* possibly stale; nothing on an error, a timeout or an empty answer.
Reports == (0..head) \cup {NoTip}

Begin(c, how) ==
  /\ pc[c] = "idle"
  /\ pc' = [pc EXCEPT ![c] = how]
  /\ earlier' = [earlier EXCEPT ![c] = {a \in Calls : pc[a] = "sampled"}]
  /\ UNCHANGED <<head, floor, attempt, best, cached, vabn, lostUpdate>>

\* Variant: after a sample that fails the samples are taken anew.
SampleAnew(c) ==
  /\ pc[c] = "sampling" /\ attempt[c] < TIP_SAMPLE_ATTEMPTS
  /\ \E tip \in Reports :
       /\ best' = [best EXCEPT ![c] = IF tip > best[c] THEN tip ELSE best[c]]
       /\ attempt' = [attempt EXCEPT ![c] = IF tip = NoTip THEN 0 ELSE attempt[c] + 1]
  /\ UNCHANGED <<head, floor, pc, cached, vabn, earlier, lostUpdate>>

\* One turn of the sampling loop.
Sample(c) ==
  /\ pc[c] = "sampling" /\ attempt[c] < TIP_SAMPLE_ATTEMPTS
  /\ \E tip \in Reports :
       best' = [best EXCEPT ![c] = IF tip > best[c] THEN tip ELSE best[c]]
  /\ attempt' = [attempt EXCEPT ![c] = attempt[c] + 1]
  /\ UNCHANGED <<head, floor, pc, cached, vabn, earlier, lostUpdate>>

\* All samples failed: deploy logs it and goes on with VABN 0, floor untouched.
SamplingFails(c) ==
  /\ pc[c] = "sampling" /\ attempt[c] = TIP_SAMPLE_ATTEMPTS /\ best[c] = NoTip
  /\ vabn' = [vabn EXCEPT ![c] = 0]
  /\ pc' = [pc EXCEPT ![c] = "unsampled"]
  /\ UNCHANGED <<head, floor, attempt, best, cached, earlier, lostUpdate>>

LoadFloor(c) ==
  /\ pc[c] = "sampling" /\ attempt[c] = TIP_SAMPLE_ATTEMPTS /\ best[c] # NoTip
  /\ cached' = [cached EXCEPT ![c] = floor[Handle(c)]]
  /\ pc' = [pc EXCEPT ![c] = "storing"]
  /\ UNCHANGED <<head, floor, attempt, best, vabn, earlier, lostUpdate>>

\* Variants: the block after the tip; no floor; a floor that follows the sample.
SelectNext(tip, known) ==
  IF known # TIP_FLOOR_UNSET /\ tip < known THEN known ELSE tip + 1

SelectSample(tip, known) == tip

\* The sampled tip, unless it is older than the floor.
SelectTip(tip, known) ==
  IF known # TIP_FLOOR_UNSET /\ tip < known THEN known ELSE tip

StoreSample(c) ==
  /\ pc[c] = "storing"
  /\ floor' = [floor EXCEPT ![Handle(c)] = best[c]]
  /\ vabn' = [vabn EXCEPT ![c] = SelectTip(best[c], cached[c])]
  /\ pc' = [pc EXCEPT ![c] = "sampled"]
  /\ lostUpdate' = (lostUpdate \/ floor[Handle(c)] # cached[c])
  /\ UNCHANGED <<head, attempt, best, cached, earlier>>

\* The choice becomes the floor and the VABN of the deploy.
StoreFloor(c) ==
  /\ pc[c] = "storing"
  /\ floor' = [floor EXCEPT ![Handle(c)] = SelectTip(best[c], cached[c])]
  /\ vabn' = [vabn EXCEPT ![c] = SelectTip(best[c], cached[c])]
  /\ pc' = [pc EXCEPT ![c] = "sampled"]
  /\ lostUpdate' = (lostUpdate \/ floor[Handle(c)] # cached[c])
  /\ UNCHANGED <<head, attempt, best, cached, earlier>>

\* deploy_internal: one unguarded look at the tip, 0 if it fails.
DirectTip(c) ==
  /\ pc[c] = "direct"
  /\ \E tip \in Reports : vabn' = [vabn EXCEPT ![c] = IF tip = NoTip THEN 0 ELSE tip]
  /\ pc' = [pc EXCEPT ![c] = "unsampled"]
  /\ UNCHANGED <<head, floor, attempt, best, cached, earlier, lostUpdate>>

Next ==
  \/ HeadGrows
  \/ \E c \in Calls :
       \/ \E how \in {"sampling", "direct"} : Begin(c, how)
       \/ Sample(c) \/ SamplingFails(c) \/ LoadFloor(c) \/ StoreFloor(c) \/ DirectTip(c)

Spec == Init /\ [][Next]_vars

-----------------------------------------------------------------------------
(* Properties *)

Numbers == -1..MaxHead

\* Every variable has a value of its Rust type, within the model's bound.
TypeOK ==
  /\ head \in 0..MaxHead
  /\ floor \in [Handles -> Numbers]
  /\ pc \in [Calls -> {"idle", "sampling", "storing", "direct", "sampled", "unsampled"}]
  /\ attempt \in [Calls -> 0..TIP_SAMPLE_ATTEMPTS]
  /\ best \in [Calls -> Numbers]
  /\ cached \in [Calls -> Numbers]
  /\ vabn \in [Calls -> 0..MaxHead]
  /\ earlier \in [Calls -> SUBSET Calls]
  /\ lostUpdate \in BOOLEAN

\* No deploy claims to be valid only after a block that does not exist yet,
\* whatever is cached in the floor (deploy.rs: valid_after_block_number).
VabnExists == \A c \in Calls : vabn[c] <= head

\* docs/architecture.md, lines 63 to 66: the tip is kept in tip_floor "to prevent
\* regression" when "a node temporarily returns a stale tip": a sampled deploy is at
\* least as recent as every sampled deploy that was complete when it began.
DeploysNeverRegress ==
  \A c \in Calls : pc[c] = "sampled" => \A a \in earlier[c] : vabn[a] <= vabn[c]

\* What the code does for it: as long as no call overwrote a floor it had not seen,
\* deploys on one F1r3flyApi do not regress, however stale the tips the node reports.
SequentialDeploysNeverRegress == ~lostUpdate => DeploysNeverRegress

\* The inductive invariant: numbers never run ahead of the chain, the floor covers
\* every deploy that went through it, and so does what a later call loads from it.
Chosen(c) == SelectTip(best[c], cached[c])

NumbersExist ==
  /\ \A h \in Handles : floor[h] <= head
  /\ \A c \in Calls :
       /\ best[c] <= head /\ cached[c] <= head
       /\ pc[c] = "storing" => best[c] # NoTip
       /\ \A a \in earlier[c] : pc[a] = "sampled"

FloorCovers ==
  Shared /\ ~lostUpdate =>
    /\ \A a \in Calls : pc[a] = "sampled" => vabn[a] <= floor[Api]
    /\ \A c \in Calls : \A a \in earlier[c] :
         /\ pc[c] = "storing" => vabn[a] <= Chosen(c)
         /\ pc[c] = "sampled" => vabn[a] <= vabn[c]

IInv == TypeOK /\ VabnExists /\ NumbersExist /\ FloorCovers
=============================================================================
