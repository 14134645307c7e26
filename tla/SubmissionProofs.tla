-------------------------- MODULE SubmissionProofs --------------------------
(***************************************************************************)
(* Proofs about TipFloor, and about Submission which drives it, for any    *)
(* number of calls, any chain height and any validity window.              *)
(***************************************************************************)
EXTENDS Submission, TLAPS

USE SharedAssumption, MaxHeadAssumption
    DEF TIP_FLOOR_UNSET, TIP_SAMPLE_ATTEMPTS, NoTip, Numbers

\* The selected tip is the higher of the sample and the floor it was given.
LEMMA SelectTipIsMax ==
  ASSUME NEW tip \in Numbers, NEW known \in Numbers, tip # NoTip
  PROVE  /\ SelectTip(tip, known) \in {tip, known} /\ SelectTip(tip, known) \in 0..MaxHead
         /\ tip <= SelectTip(tip, known) /\ known <= SelectTip(tip, known)
BY DEF SelectTip

LEMMA HandleIsHandle ==
  ASSUME NEW c \in Calls
  PROVE  Handle(c) \in Handles
BY DEF Handle, Handles

LEMMA InitInv == Init => IInv
<1> SUFFICES ASSUME Init PROVE IInv
  OBVIOUS
<1>1. TypeOK
  <2>1. earlier \in [Calls -> SUBSET Calls]
    <3>1. {} \in SUBSET Calls
      OBVIOUS
    <3>2. QED
      BY <3>1 DEF Init
  <2>2. -1 \in Numbers /\ 0 \in Numbers /\ 0 \in 0..MaxHead /\ 0 \in 0..TIP_SAMPLE_ATTEMPTS
    OBVIOUS
  <2>3. lostUpdate \in BOOLEAN
    BY DEF Init
  <2>4. QED
    BY <2>1, <2>2, <2>3 DEF Init, TypeOK
<1>2. VabnExists /\ NumbersExist
  BY DEF Init, VabnExists, NumbersExist
<1>3. FloorCovers
  BY DEF Init, FloorCovers
<1>4. QED
  BY <1>1, <1>2, <1>3 DEF IInv

\* The choice a storing call is about to write is a block number the chain has.
LEMMA ChosenExists ==
  ASSUME IInv, NEW c \in Calls, pc[c] = "storing"
  PROVE  /\ Chosen(c) \in 0..MaxHead /\ Chosen(c) <= head
         /\ best[c] <= Chosen(c) /\ cached[c] <= Chosen(c)
<1>1. best[c] \in Numbers /\ cached[c] \in Numbers /\ best[c] # NoTip
  BY DEF IInv, TypeOK, NumbersExist
<1>2. best[c] <= head /\ cached[c] <= head
  BY DEF IInv, NumbersExist
<1>3. QED
  BY <1>1, <1>2, SelectTipIsMax DEF Chosen

LEMMA StepInv == IInv /\ [Next]_vars => IInv'
<1> SUFFICES ASSUME IInv, [Next]_vars PROVE IInv'
  OBVIOUS
<1>1. CASE HeadGrows
  BY <1>1 DEF HeadGrows, IInv, TypeOK, VabnExists, NumbersExist, FloorCovers, Chosen
<1>2. ASSUME NEW c \in Calls, NEW how \in {"sampling", "direct"}, Begin(c, how) PROVE IInv'
  <2>1. TypeOK' /\ VabnExists'
    BY <1>2 DEF Begin, IInv, TypeOK, VabnExists
  <2>2. NumbersExist'
    BY <1>2 DEF Begin, IInv, TypeOK, NumbersExist
  <2>3. FloorCovers'
    BY <1>2 DEF Begin, IInv, TypeOK, FloorCovers, Chosen
  <2>4. QED
    BY <2>1, <2>2, <2>3 DEF IInv
<1>3. ASSUME NEW c \in Calls, Sample(c) PROVE IInv'
  <2>1. PICK tip \in Reports :
          best' = [best EXCEPT ![c] = IF tip > best[c] THEN tip ELSE best[c]]
    BY <1>3 DEF Sample
  <2>2. tip \in Numbers /\ tip <= head
    BY <2>1 DEF Reports, IInv, TypeOK
  <2>3. TypeOK' /\ VabnExists'
    BY <1>3, <2>1, <2>2 DEF Sample, IInv, TypeOK, VabnExists
  <2>4. NumbersExist'
    BY <1>3, <2>1, <2>2 DEF Sample, IInv, TypeOK, NumbersExist
  <2>5. \A e \in Calls : pc[e] = "storing" => Chosen(e)' = Chosen(e)
    BY <1>3, <2>1 DEF Sample, IInv, TypeOK, Chosen
  <2>6. FloorCovers'
    BY <1>3, <2>5 DEF Sample, IInv, FloorCovers
  <2>7. QED
    BY <2>3, <2>4, <2>6 DEF IInv
<1>4. ASSUME NEW c \in Calls, SamplingFails(c) \/ DirectTip(c) PROVE IInv'
  <2>1. /\ pc[c] \notin {"sampled", "storing"} /\ pc' = [pc EXCEPT ![c] = "unsampled"]
        /\ \E n \in 0..head : vabn' = [vabn EXCEPT ![c] = n]
        /\ UNCHANGED <<head, floor, attempt, best, cached, earlier, lostUpdate>>
    BY <1>4 DEF SamplingFails, DirectTip, Reports, IInv, TypeOK
  <2>2. TypeOK' /\ VabnExists'
    BY <2>1 DEF IInv, TypeOK, VabnExists
  <2>3. NumbersExist'
    BY <2>1 DEF IInv, TypeOK, NumbersExist
  <2>4. FloorCovers'
    BY <2>1 DEF IInv, TypeOK, NumbersExist, FloorCovers, Chosen
  <2>5. QED
    BY <2>2, <2>3, <2>4 DEF IInv
<1>5. ASSUME NEW c \in Calls, LoadFloor(c) PROVE IInv'
  <2>1. floor[Handle(c)] \in Numbers /\ floor[Handle(c)] <= head
    BY HandleIsHandle DEF IInv, TypeOK, NumbersExist
  <2>2. TypeOK' /\ VabnExists'
    BY <1>5, <2>1 DEF LoadFloor, IInv, TypeOK, VabnExists
  <2>3. NumbersExist'
    BY <1>5, <2>1 DEF LoadFloor, IInv, TypeOK, NumbersExist
  <2>4. FloorCovers'
    <3> SUFFICES ASSUME Shared, ~lostUpdate PROVE FloorCovers'
      BY <1>5 DEF LoadFloor, FloorCovers
    <3>1. best[c] \in Numbers /\ best[c] # NoTip /\ Chosen(c)' = SelectTip(best[c], floor[Api])
      BY <1>5 DEF LoadFloor, Chosen, Handle, IInv, TypeOK
    <3>2. floor[Api] \in Numbers /\ floor[Api] <= Chosen(c)'
      BY <2>1, <3>1, SelectTipIsMax DEF Handle
    <3>3. \A a \in earlier[c] : vabn[a] <= floor[Api] /\ vabn[a] \in 0..MaxHead
      BY DEF IInv, TypeOK, NumbersExist, FloorCovers
    <3>4. \A a \in earlier[c] : vabn[a] <= Chosen(c)'
      <4>1. Chosen(c)' \in 0..MaxHead
        BY <3>1, <3>2, SelectTipIsMax
      <4>2. QED
        BY <3>2, <3>3, <4>1
    <3>5. \A e \in Calls \ {c} : Chosen(e)' = Chosen(e) /\ pc'[e] = pc[e]
      BY <1>5 DEF LoadFloor, Chosen, IInv, TypeOK
    <3>6. pc'[c] = "storing" /\ UNCHANGED <<floor, vabn, earlier, lostUpdate>>
      BY <1>5 DEF LoadFloor, IInv, TypeOK
    <3>7. QED
      BY <3>4, <3>5, <3>6 DEF IInv, FloorCovers
  <2>5. QED
    BY <2>2, <2>3, <2>4 DEF IInv
<1>6. ASSUME NEW c \in Calls, StoreFloor(c) PROVE IInv'
  <2>1. /\ pc[c] = "storing"
        /\ floor' = [floor EXCEPT ![Handle(c)] = Chosen(c)]
        /\ vabn' = [vabn EXCEPT ![c] = Chosen(c)]
        /\ pc' = [pc EXCEPT ![c] = "sampled"]
        /\ UNCHANGED <<head, attempt, best, cached, earlier>>
    BY <1>6 DEF StoreFloor, Chosen
  <2>2. /\ Chosen(c) \in 0..MaxHead /\ Chosen(c) <= head /\ cached[c] <= Chosen(c)
    BY <2>1, ChosenExists
  <2>3. lostUpdate' \in BOOLEAN
    BY <1>6 DEF StoreFloor, IInv, TypeOK
  <2>4. TypeOK' /\ VabnExists'
    BY <2>1, <2>2, <2>3, HandleIsHandle DEF IInv, TypeOK, VabnExists
  <2>5. NumbersExist'
    BY <2>1, <2>2 DEF IInv, TypeOK, NumbersExist
  <2>6. FloorCovers'
    <3> SUFFICES ASSUME Shared, ~lostUpdate' PROVE FloorCovers'
      BY DEF FloorCovers
    <3>1. ~lostUpdate /\ floor[Api] = cached[c] /\ floor'[Api] = Chosen(c)
      BY <1>6, <2>1 DEF StoreFloor, Handle, Handles, IInv, TypeOK
    <3>2. /\ \A a \in Calls : pc[a] = "sampled" => vabn[a] <= floor[Api]
          /\ \A e \in Calls : \A a \in earlier[e] :
               /\ pc[e] = "storing" => vabn[a] <= Chosen(e)
               /\ pc[e] = "sampled" => vabn[a] <= vabn[e]
      BY <3>1 DEF IInv, FloorCovers
    <3>3. \A e \in Calls : Chosen(e)' = Chosen(e)
      BY <2>1 DEF Chosen
    <3>4. \A e \in Calls : e # c => vabn'[e] = vabn[e] /\ pc'[e] = pc[e]
      BY <2>1 DEF IInv, TypeOK
    <3>5. vabn'[c] = Chosen(c) /\ pc'[c] = "sampled"
      BY <2>1 DEF IInv, TypeOK
    <3>6. \A a \in Calls : pc'[a] = "sampled" => vabn'[a] <= floor'[Api]
      BY <2>2, <3>1, <3>2, <3>4, <3>5 DEF IInv, TypeOK
    <3>7. \A e \in Calls : \A a \in earlier[e] : a \in Calls /\ a # c /\ vabn'[a] = vabn[a]
      BY <2>1, <3>4 DEF IInv, TypeOK, NumbersExist
    <3>8. \A e \in Calls : \A a \in earlier'[e] :
               /\ pc'[e] = "storing" => vabn'[a] <= Chosen(e)'
               /\ pc'[e] = "sampled" => vabn'[a] <= vabn'[e]
      BY <2>1, <3>2, <3>3, <3>4, <3>5, <3>7
    <3>9. QED
      BY <3>6, <3>8 DEF FloorCovers
  <2>7. QED
    BY <2>4, <2>5, <2>6 DEF IInv
<1>7. CASE UNCHANGED vars
  BY <1>7 DEF vars, IInv, TypeOK, VabnExists, NumbersExist, FloorCovers, Chosen
<1>8. QED
  BY <1>1, <1>2, <1>3, <1>4, <1>5, <1>6, <1>7 DEF Next

\* The inductive invariant holds of every reachable state.
THEOREM Invariance == Spec => []IInv
BY InitInv, StepInv, PTL DEF Spec

\* No deploy, sampled or not, names a block the chain does not have.
THEOREM VabnAlwaysExists == Spec => []VabnExists
<1>1. IInv => VabnExists
  BY DEF IInv
<1>2. QED
  BY <1>1, Invariance, PTL

\* On one F1r3flyApi, deploys that follow one another never go back, unless a
\* store overwrote a floor it had not seen.
THEOREM NoRegress == ASSUME Shared PROVE Spec => []SequentialDeploysNeverRegress
<1>1. IInv => SequentialDeploysNeverRegress
  BY DEF IInv, FloorCovers, SequentialDeploysNeverRegress, DeploysNeverRegress
<1>2. QED
  BY <1>1, Invariance, PTL

-----------------------------------------------------------------------------
(* Submission *)

\* A step of Submission is a step of TipFloor or leaves TipFloor alone.
LEMMA StepsRefine == ASSUME [SubmissionNext]_allVars PROVE [Next]_vars
<1>1. CASE BlockAppears
  BY <1>1 DEF BlockAppears, Block, Next
<1>2. ASSUME NEW c \in Calls, Call(c) PROVE [Next]_vars
  <2>1. ASSUME NEW k \in Kinds, Start(c, k) PROVE [Next]_vars
    <3>1. CASE k = "propose"
      BY <2>1, <3>1 DEF Start
    <3>2. CASE k # "propose"
      BY <2>1, <3>2 DEF Start, Next
    <3>3. QED
      BY <3>1, <3>2
  <2>2. CASE SampleTip(c) \/ AskTip(c)
    BY <2>2 DEF SampleTip, AskTip, Next
  <2>3. CASE DeployTaken(c) \/ DeployRefused(c) \/ DeployAnswerLost(c)
    BY <2>3 DEF DeployTaken, DeployRefused, DeployAnswerLost
  <2>4. CASE (\E a \in ProposeAnswers : ProposeAnswered(c, a)) \/ ProposeFails(c)
    BY <2>4 DEF ProposeAnswered, ProposeFails, Block, Next
  <2>5. QED
    BY <1>2, <2>1, <2>2, <2>3, <2>4 DEF Call
<1>3. CASE UNCHANGED allVars
  BY <1>3 DEF allVars
<1>4. QED
  BY <1>1, <1>2, <1>3 DEF SubmissionNext

\* Submission chooses its VABNs as TipFloor does: whatever holds of TipFloor holds
\* of the deploys that are submitted.
THEOREM SubmissionRefinesTipFloor == SubmissionSpec => Spec
<1>1. SubmissionInit => Init
  BY DEF SubmissionInit
<1>2. [SubmissionNext]_allVars => [Next]_vars
  BY StepsRefine
<1>3. QED
  BY <1>1, <1>2, PTL DEF SubmissionSpec, Spec

\* A new block disturbs neither calls nor what earlier blocks hold.
LEMMA BlockKeepsOrder ==
  ASSUME SubmissionIInv, NEW S \in SUBSET Pending, Block(S)
  PROVE  /\ head' = head + 1 /\ head' \in 0..MaxHead
         /\ includedAt' \in [Calls -> 0..MaxHead]
         /\ \A c \in Calls : /\ includedAt'[c] <= head'
                             /\ includedAt[c] # 0 => includedAt'[c] = includedAt[c]
                             /\ c \in S => includedAt'[c] = head + 1
         /\ UNCHANGED <<pc, vabn>>
<1>1. head \in 0..MaxHead /\ head' = head + 1 /\ head < MaxHead /\ MaxHead \in Nat
  BY DEF SubmissionIInv, IInv, TypeOK, Block, HeadGrows
<1>2. \A c \in Calls : includedAt[c] \in 0..MaxHead /\ includedAt[c] <= head
  BY DEF SubmissionIInv, SubmissionTypeOK, CallsAreOrdered
<1>3. \A c \in S : includedAt[c] = 0
  BY DEF Pending
<1>4. includedAt' = [c \in Calls |-> IF c \in S THEN head + 1 ELSE includedAt[c]]
  BY DEF Block
<1>5. UNCHANGED <<pc, vabn>>
  BY DEF Block, HeadGrows
<1>6. QED
  BY <1>1, <1>2, <1>3, <1>4, <1>5

LEMMA SubmissionInitInv == SubmissionInit => SubmissionIInv
<1> SUFFICES ASSUME SubmissionInit PROVE SubmissionIInv
  OBVIOUS
<1>1. IInv
  BY InitInv DEF SubmissionInit
<1>2. SubmissionTypeOK
  <2>1. "none" \in Kinds \cup {"none"} /\ 0 \in 0..MaxHead
    OBVIOUS
  <2>2. lost \in [Calls -> BOOLEAN]
    BY DEF SubmissionInit
  <2>3. QED
    BY <2>1, <2>2 DEF SubmissionInit, SubmissionTypeOK
<1>3. CallsAreOrdered
  <2> SUFFICES ASSUME NEW c \in Calls PROVE CallsAreOrdered!(c)
    BY DEF CallsAreOrdered
  <2>1. /\ step[c] = "idle" /\ pc[c] = "idle" /\ kind[c] = "none"
        /\ told[c] = "nothing" /\ proposedAt[c] = 0 /\ c \notin taken
    BY DEF SubmissionInit, Init
  <2>2. includedAt[c] = 0 /\ head = 0 /\ 0 <= 0
    BY DEF SubmissionInit, Init
  <2>3. includedAt[c] <= head
    BY <2>2
  <2>4. QED
    BY <2>1, <2>3
<1>4. CallersAreTold /\ ProposedHoldsDeploy
  BY DEF SubmissionInit, CallersAreTold, ProposedHoldsDeploy
<1>5. QED
  BY <1>1, <1>2, <1>3, <1>4 DEF SubmissionIInv

\* What the invariant adds to TipFloor's.
Told == SubmissionTypeOK /\ CallsAreOrdered /\ CallersAreTold /\ ProposedHoldsDeploy

LEMMA BlockAppearsStep == ASSUME SubmissionIInv, BlockAppears PROVE Told'
<1>1. PICK S \in SUBSET Pending : Block(S)
  BY DEF BlockAppears
<1>2. UNCHANGED <<kind, step, told, taken, proposedAt, lost>>
  BY DEF BlockAppears, client, history
<1>3. SubmissionTypeOK' /\ CallersAreTold'
  BY <1>1, <1>2, BlockKeepsOrder DEF SubmissionIInv, SubmissionTypeOK, CallersAreTold
<1>4. CallsAreOrdered'
  BY <1>1, <1>2, BlockKeepsOrder DEF SubmissionIInv, CallsAreOrdered
<1>5. ProposedHoldsDeploy'
  <2> SUFFICES ASSUME NEW c \in Calls, kind[c] = "full_deploy", proposedAt[c] # 0
               PROVE  \/ includedAt'[c] \in 1..proposedAt[c]
                      \/ vabn[c] + Window < proposedAt[c]
    BY <1>1, <1>2, BlockKeepsOrder DEF ProposedHoldsDeploy
  <2>1. includedAt[c] \in 1..proposedAt[c] \/ vabn[c] + Window < proposedAt[c]
    BY DEF SubmissionIInv, ProposedHoldsDeploy
  <2>2. includedAt[c] \in 1..proposedAt[c] => includedAt'[c] = includedAt[c]
    BY <1>1, BlockKeepsOrder DEF SubmissionIInv, SubmissionTypeOK
  <2>3. QED
    BY <2>1, <2>2
<1>6. QED
  BY <1>3, <1>4, <1>5 DEF Told

LEMMA StartStep ==
  ASSUME SubmissionIInv, NEW c \in Calls, NEW k \in Kinds, Start(c, k)
  PROVE  Told'
<1>1. /\ step[c] = "idle" /\ pc[c] = "idle" /\ kind[c] = "none" /\ c \notin taken
      /\ kind' = [kind EXCEPT ![c] = k]
      /\ step' = [step EXCEPT ![c] = IF k = "propose" THEN "proposing" ELSE "deploying"]
      /\ UNCHANGED <<told, taken, includedAt, proposedAt, lost, head, vabn>>
  BY DEF Start, Begin, vars, node, history, SubmissionIInv, CallsAreOrdered
<1>2. \A e \in Calls : e # c => pc'[e] = pc[e]
  BY DEF Start, Begin, vars, SubmissionIInv, IInv, TypeOK
<1>3. SubmissionTypeOK'
  BY <1>1 DEF SubmissionIInv, SubmissionTypeOK, Kinds
<1>4. \A e \in Calls : e # c => kind'[e] = kind[e] /\ step'[e] = step[e]
  BY <1>1 DEF SubmissionIInv, SubmissionTypeOK
<1>5. /\ kind'[c] = k /\ step'[c] = IF k = "propose" THEN "proposing" ELSE "deploying"
      /\ told[c] = "nothing" /\ proposedAt[c] = 0 /\ includedAt[c] <= head
  BY <1>1 DEF SubmissionIInv, SubmissionTypeOK, CallsAreOrdered
<1>6. CallsAreOrdered'
  BY <1>1, <1>2, <1>4, <1>5 DEF SubmissionIInv, CallsAreOrdered, Kinds, Deploying
<1>7. CallersAreTold' /\ ProposedHoldsDeploy'
  BY <1>1, <1>4, <1>5 DEF SubmissionIInv, CallersAreTold, ProposedHoldsDeploy
<1>8. QED
  BY <1>3, <1>6, <1>7 DEF Told

LEMMA TipStep ==
  ASSUME SubmissionIInv, NEW c \in Calls, SampleTip(c) \/ AskTip(c)
  PROVE  Told'
<1>1. UNCHANGED <<kind, step, told, taken, includedAt, proposedAt, lost, head>>
  BY DEF SampleTip, AskTip, submissionVars, client, node, history, Sample, SamplingFails,
     LoadFloor, StoreFloor, DirectTip
<1>2. /\ pc[c] \in {"sampling", "storing", "direct"}
      /\ \A e \in Calls : e # c => pc'[e] = pc[e] /\ vabn'[e] = vabn[e]
  BY DEF SampleTip, AskTip, Sample, SamplingFails, LoadFloor, StoreFloor, DirectTip,
     SubmissionIInv, IInv, TypeOK
<1>3. c \notin taken /\ step[c] # "idle"
  BY <1>2 DEF SubmissionIInv, CallsAreOrdered
<1>4. SubmissionTypeOK' /\ CallersAreTold'
  BY <1>1 DEF SubmissionIInv, SubmissionTypeOK, CallersAreTold
<1>5. CallsAreOrdered'
  BY <1>1, <1>2, <1>3 DEF SubmissionIInv, CallsAreOrdered
<1>6. ProposedHoldsDeploy'
  BY <1>1, <1>2, <1>3 DEF SubmissionIInv, CallsAreOrdered, ProposedHoldsDeploy
<1>7. QED
  BY <1>4, <1>5, <1>6 DEF Told

LEMMA DeployStep ==
  ASSUME SubmissionIInv, NEW c \in Calls,
         DeployTaken(c) \/ DeployRefused(c) \/ DeployAnswerLost(c)
  PROVE  Told'
<1>1. /\ UNCHANGED <<kind, includedAt, proposedAt, head, pc, vabn>>
      /\ step[c] = "deploying" /\ pc[c] \in {"sampled", "unsampled"}
  BY DEF DeployTaken, DeployRefused, DeployAnswerLost, Submitting, vars, node, history
<1>2. /\ kind[c] \in Deploying /\ told[c] = "nothing" /\ proposedAt[c] = 0
      /\ c \notin taken
  BY <1>1 DEF SubmissionIInv, CallsAreOrdered
<1>3. /\ \A e \in Calls : e # c => step'[e] = step[e] /\ told'[e] = told[e] /\ lost'[e] = lost[e]
      /\ \A e \in Calls : e # c => (e \in taken' <=> e \in taken)
  BY DEF DeployTaken, DeployRefused, DeployAnswerLost, End, node, history, SubmissionIInv,
     SubmissionTypeOK
<1>4. \/ /\ c \in taken' /\ kind[c] = "full_deploy"
         /\ step'[c] = "proposing" /\ told'[c] = "nothing"
      \/ /\ c \in taken' /\ step'[c] = "ended" /\ told'[c] = "deployed"
      \/ /\ c \notin taken' /\ step'[c] = "ended" /\ told'[c] = "failed"
      \/ /\ c \in taken' /\ step'[c] = "ended" /\ told'[c] = "failed" /\ lost'[c]
  BY <1>2 DEF DeployTaken, DeployRefused, DeployAnswerLost, End, node, SubmissionIInv,
     SubmissionTypeOK
<1>5. SubmissionTypeOK'
  <2>1. lost' \in [Calls -> BOOLEAN] /\ taken' \subseteq Calls
    BY DEF DeployTaken, DeployRefused, DeployAnswerLost, node, history, SubmissionIInv,
       SubmissionTypeOK
  <2>2. /\ step' \in [Calls -> {"idle", "deploying", "proposing", "ended"}]
        /\ told' \in [Calls -> {"nothing", "deployed", "proposed", "skipped", "failed"}]
    BY DEF DeployTaken, DeployRefused, DeployAnswerLost, End, SubmissionIInv, SubmissionTypeOK
  <2>3. QED
    BY <1>1, <2>1, <2>2 DEF SubmissionIInv, SubmissionTypeOK
<1>6. CallsAreOrdered'
  BY <1>1, <1>2, <1>3, <1>4 DEF SubmissionIInv, CallsAreOrdered, Deploying, Kinds
<1>7. CallersAreTold'
  BY <1>1, <1>3, <1>4 DEF SubmissionIInv, CallersAreTold
<1>8. ProposedHoldsDeploy'
  BY <1>1 DEF SubmissionIInv, ProposedHoldsDeploy
<1>9. QED
  BY <1>5, <1>6, <1>7, <1>8 DEF Told

\* What is told after a request for a block, by whatever answer it was.
LEMMA ToldAfterIsTold ==
  ASSUME NEW a \in ProposeAnswers
  PROVE  ToldAfter(a) \in {"proposed", "skipped", "failed"}
BY DEF ToldAfter

LEMMA ProposeStep ==
  ASSUME SubmissionIInv, NEW c \in Calls,
         (\E a \in ProposeAnswers : ProposeAnswered(c, a)) \/ ProposeFails(c)
  PROVE  Told'
<1>1. step[c] = "proposing" /\ UNCHANGED <<kind, taken>>
  BY DEF ProposeAnswered, ProposeFails
<1>2. Block(Pending) \/ UNCHANGED <<head, pc, vabn, includedAt>>
  BY DEF ProposeAnswered, ProposeFails, vars
<1>3. PICK w \in {"proposed", "skipped", "failed"} : End(c, w)
  BY ToldAfterIsTold DEF ProposeAnswered, ProposeFails
<1>4. PICK n \in {0, head + 1} :
        proposedAt' = [proposedAt EXCEPT ![c] = n] /\ (n # 0 => Block(Pending))
  <2>1. proposedAt[c] = 0 /\ proposedAt \in [Calls -> 0..MaxHead]
    BY <1>1 DEF SubmissionIInv, CallsAreOrdered, SubmissionTypeOK
  <2>2. CASE ProposeFails(c)
    <3>1. proposedAt' = [proposedAt EXCEPT ![c] = 0]
      BY <2>1, <2>2 DEF ProposeFails
    <3>2. QED
      BY <3>1
  <2>3. ASSUME NEW a \in ProposeAnswers, ProposeAnswered(c, a)
        PROVE  \E n \in {0, head + 1} :
                 proposedAt' = [proposedAt EXCEPT ![c] = n] /\ (n # 0 => Block(Pending))
    <3>1. CASE a = Success
      BY <2>3, <3>1 DEF ProposeAnswered
    <3>2. CASE a # Success
      BY <2>3, <3>2 DEF ProposeAnswered
    <3>3. QED
      BY <3>1, <3>2
  <2>4. QED
    BY <2>2, <2>3
<1>5. /\ head \in Int /\ head \in 0..MaxHead
      /\ n # 0 => n = head + 1 /\ n = head' /\ n \in 0..MaxHead
      /\ \A e \in Calls : includedAt'[e] <= head' /\ includedAt[e] \in 0..MaxHead
      /\ \A e \in Calls : includedAt[e] # 0 => includedAt'[e] = includedAt[e]
      /\ includedAt' \in [Calls -> 0..MaxHead]
      /\ UNCHANGED <<pc, vabn>>
  BY <1>2, <1>4, BlockKeepsOrder DEF SubmissionIInv, SubmissionTypeOK, CallsAreOrdered, IInv, TypeOK
<1>6. /\ step'[c] = "ended" /\ told'[c] = w /\ proposedAt'[c] = n
      /\ \A e \in Calls : e # c => /\ step'[e] = step[e] /\ told'[e] = told[e]
                                  /\ proposedAt'[e] = proposedAt[e]
  BY <1>3, <1>4 DEF End, SubmissionIInv, SubmissionTypeOK
<1>7. \A e \in Calls : lost[e] => lost'[e]
  BY DEF ProposeAnswered, ProposeFails, SubmissionIInv, SubmissionTypeOK
<1>8. kind[c] = "full_deploy" => c \in taken
  BY <1>1 DEF SubmissionIInv, CallsAreOrdered
<1>9. kind[c] \in {"full_deploy", "propose"}
  BY <1>1 DEF SubmissionIInv, CallsAreOrdered
<1>10. SubmissionTypeOK'
  <2>1. lost' \in [Calls -> BOOLEAN]
    BY DEF ProposeAnswered, ProposeFails, SubmissionIInv, SubmissionTypeOK
  <2>2. /\ step' \in [Calls -> {"idle", "deploying", "proposing", "ended"}]
        /\ told' \in [Calls -> {"nothing", "deployed", "proposed", "skipped", "failed"}]
    BY <1>3 DEF End, SubmissionIInv, SubmissionTypeOK
  <2>3. 0 \in 0..MaxHead /\ n \in 0..MaxHead
    BY <1>5
  <2>4. proposedAt' \in [Calls -> 0..MaxHead]
    BY <1>4, <2>3 DEF SubmissionIInv, SubmissionTypeOK
  <2>5. QED
    BY <1>1, <1>5, <2>1, <2>2, <2>4 DEF SubmissionIInv, SubmissionTypeOK
<1>11. CallsAreOrdered'
  BY <1>1, <1>5, <1>6, <1>8, <1>9 DEF SubmissionIInv, CallsAreOrdered, Kinds
<1>12. CallersAreTold'
  BY <1>1, <1>6, <1>7, <1>8, <1>9 DEF SubmissionIInv, CallersAreTold, Deploying, Kinds
<1>13. ProposedHoldsDeploy'
  <2> SUFFICES ASSUME NEW e \in Calls, kind[e] = "full_deploy", proposedAt'[e] # 0
               PROVE  \/ includedAt'[e] \in 1..proposedAt'[e]
                      \/ vabn[e] + Window < proposedAt'[e]
    BY <1>1, <1>5 DEF ProposedHoldsDeploy
  <2>1. CASE e # c
    BY <1>5, <1>6, <2>1 DEF SubmissionIInv, ProposedHoldsDeploy
  <2>2. CASE e = c
    <3>1. c \in taken /\ n = head + 1 /\ Block(Pending) /\ proposedAt'[c] = head + 1
      BY <1>4, <1>5, <1>6, <1>8, <2>2
    <3>2. vabn[c] \in 0..MaxHead /\ vabn[c] <= head
      BY DEF SubmissionIInv, IInv, TypeOK, VabnExists
    <3>3. CASE includedAt[c] # 0
      <4>1. includedAt'[c] = includedAt[c] /\ includedAt[c] \in 0..MaxHead /\ includedAt[c] <= head
        BY <1>5, <3>3 DEF SubmissionIInv, CallsAreOrdered
      <4>2. QED
        BY <1>5, <2>2, <3>1, <3>3, <4>1
    <3>4. CASE includedAt[c] = 0 /\ head + 1 <= vabn[c] + Window
      <4>1. c \in Pending
        BY <1>5, <3>1, <3>2, <3>4 DEF Pending
      <4>2. includedAt'[c] = head + 1
        BY <3>1, <4>1, BlockKeepsOrder
      <4>3. QED
        BY <1>5, <2>2, <3>1, <4>2
    <3>5. QED
      BY <1>5, <2>2, <3>1, <3>2, <3>3, <3>4, WindowAssumption
  <2>3. QED
    BY <2>1, <2>2
<1>14. QED
  BY <1>10, <1>11, <1>12, <1>13 DEF Told

LEMMA SubmissionStepInv == SubmissionIInv /\ [SubmissionNext]_allVars => SubmissionIInv'
<1> SUFFICES ASSUME SubmissionIInv, [SubmissionNext]_allVars PROVE SubmissionIInv'
  OBVIOUS
<1>1. IInv'
  BY StepsRefine, StepInv DEF SubmissionIInv
<1>2. Told'
  <2>1. CASE BlockAppears
    BY <2>1, BlockAppearsStep
  <2>2. ASSUME NEW c \in Calls, Call(c) PROVE Told'
    BY <2>2, StartStep, TipStep, DeployStep, ProposeStep DEF Call
  <2>3. CASE UNCHANGED allVars
    BY <2>3 DEF allVars, vars, submissionVars, client, node, history, SubmissionIInv, Told,
       SubmissionTypeOK, CallsAreOrdered, CallersAreTold, ProposedHoldsDeploy
  <2>4. QED
    BY <2>1, <2>2, <2>3 DEF SubmissionNext
<1>3. QED
  BY <1>1, <1>2 DEF Told, SubmissionIInv

\* The invariant of Submission holds for any calls, chain height and window.
THEOREM SubmissionInvariance == SubmissionSpec => []SubmissionIInv
BY SubmissionInitInv, SubmissionStepInv, PTL DEF SubmissionSpec

\* A block that full_deploy reports holds its deploy, or one below it does, as long
\* as the tip that the deploy was built on is inside the validity window.
THEOREM ProposedBlocksHoldDeploys == SubmissionSpec => []ProposedHoldsDeploy
<1>1. SubmissionIInv => ProposedHoldsDeploy
  BY DEF SubmissionIInv
<1>2. QED
  BY <1>1, SubmissionInvariance, PTL

\* Success is only reported of deploys that the node has, and failure of a single
\* deploy it has only when its answer was lost.
THEOREM ReportsAreTrue == SubmissionSpec => []CallersAreTold
<1>1. SubmissionIInv => CallersAreTold
  BY DEF SubmissionIInv
<1>2. QED
  BY <1>1, SubmissionInvariance, PTL
=============================================================================
