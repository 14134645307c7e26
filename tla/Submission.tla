----------------------------- MODULE Submission -----------------------------
(***************************************************************************)
(* Several callers submit deploys to one node and ask it for blocks:       *)
(* deploy_command, full_deploy_command and propose_command of              *)
(* src/commands/network.rs, and F1r3flyConnectionManager::deploy.  The     *)
(* valid_after_block_number of each deploy is chosen as in TipFloor; here  *)
(* the node takes or refuses the deploy, answers are lost, blocks are made *)
(* by the node's own proposer or on request, and what the callers are told *)
(* is compared with what happened.                                         *)
(*                                                                         *)
(* A definition commented as a variant is no part of the specification:    *)
(* it is the definition after it with a plausible slip in it.              *)
(***************************************************************************)
EXTENDS TipFloor

CONSTANT
  Window       \* DEPLOY_VALIDITY_WINDOW_BLOCKS, 50 in the code

ASSUME WindowAssumption == Window \in Nat \ {0}

Kinds == {"deploy", "full_deploy", "manager_deploy", "propose"}
Deploying == Kinds \ {"propose"}

VARIABLES
  kind,        \* kind[c]: what call c is
  step,        \* step[c]: "idle", "deploying", "proposing" or "ended"
  told,        \* told[c]: what its caller has been told
  taken,       \* external: deploys the node has accepted, each named by its call
  includedAt,  \* external: includedAt[c] = height of the block with c's deploy, or 0
  proposedAt,  \* history: height of the block that call c was told about, or 0
  lost         \* history: lost[c] = the node did what c asked, its answer is lost

client == <<kind, step, told>>
node == <<taken, includedAt>>
history == <<proposedAt, lost>>
submissionVars == <<client, node, history>>
allVars == <<vars, submissionVars>>

SubmissionInit ==
  /\ Init
  /\ kind = [c \in Calls |-> "none"]
  /\ step = [c \in Calls |-> "idle"]
  /\ told = [c \in Calls |-> "nothing"]
  /\ taken = {}
  /\ includedAt = [c \in Calls |-> 0]
  /\ proposedAt = [c \in Calls |-> 0]
  /\ lost = [c \in Calls |-> FALSE]

-----------------------------------------------------------------------------
(* The node (external) *)

\* The pooled deploys that the next block may hold: taken, in no block yet, and
\* the block lies in their validity window.
Pending == {c \in taken : /\ includedAt[c] = 0
                          /\ vabn[c] < head + 1 /\ head + 1 <= vabn[c] + Window}

Block(S) ==
  /\ HeadGrows
  /\ includedAt' = [c \in Calls |-> IF c \in S THEN head + 1 ELSE includedAt[c]]

\* A block by this node's heartbeat or by another validator, which may know of
\* none, some or all of the deploys.
BlockAppears ==
  /\ \E S \in SUBSET Pending : Block(S)
  /\ UNCHANGED <<client, taken, history>>

-----------------------------------------------------------------------------
(* A call begins, and a deploy chooses its VABN *)

Start(c, k) ==
  /\ step[c] = "idle"
  /\ kind' = [kind EXCEPT ![c] = k]
  /\ IF k = "propose"
     THEN step' = [step EXCEPT ![c] = "proposing"] /\ UNCHANGED vars
     ELSE /\ step' = [step EXCEPT ![c] = "deploying"]
          /\ Begin(c, IF k = "manager_deploy" THEN "direct" ELSE "sampling")
  /\ UNCHANGED <<told, node, history>>

\* get_current_block_number_monotonic: two samples, each under a timeout.
SampleTip(c) ==
  /\ Sample(c) \/ SamplingFails(c) \/ LoadFloor(c) \/ StoreFloor(c)
  /\ UNCHANGED submissionVars

\* get_current_block_number: one request, no timeout.
AskTip(c) == DirectTip(c) /\ UNCHANGED submissionVars

-----------------------------------------------------------------------------
(* do_deploy *)

Submitting(c) == step[c] = "deploying" /\ pc[c] \in {"sampled", "unsampled"}

End(c, what) ==
  /\ step' = [step EXCEPT ![c] = "ended"]
  /\ told' = [told EXCEPT ![c] = what]

\* The node takes the deploy and its answer is understood; full_deploy goes on to
\* ask for a block.
DeployTaken(c) ==
  /\ Submitting(c)
  /\ taken' = taken \cup {c}
  /\ IF kind[c] = "full_deploy"
     THEN step' = [step EXCEPT ![c] = "proposing"] /\ UNCHANGED told
     ELSE End(c, "deployed")
  /\ UNCHANGED <<vars, kind, includedAt, history>>

\* Variant: full_deploy asks for a block even if its deploy was refused.
DeployRefusedAnyway(c) ==
  /\ Submitting(c)
  /\ IF kind[c] = "full_deploy"
     THEN step' = [step EXCEPT ![c] = "proposing"] /\ UNCHANGED told
     ELSE End(c, "failed")
  /\ UNCHANGED <<vars, kind, node, history>>

\* No connection, or the node answers with an error.
DeployRefused(c) ==
  /\ Submitting(c)
  /\ End(c, "failed")
  /\ UNCHANGED <<vars, kind, node, history>>

\* The node takes the deploy, but the connection breaks before the answer, or the
\* answer has no message, or extract_deploy_id finds no id in it.
DeployAnswerLost(c) ==
  /\ Submitting(c)
  /\ taken' = taken \cup {c}
  /\ End(c, "failed")
  /\ lost' = [lost EXCEPT ![c] = TRUE]
  /\ UNCHANGED <<vars, kind, includedAt, proposedAt>>

-----------------------------------------------------------------------------
(* propose *)

\* The forms of an answer that the code tells apart: a Result or an Error, with
\* "Success! Block ... created and added.", a recoverable pattern, or another text.
ProposeAnswers == [sort : {"result", "error"}, text : {"success", "recoverable", "other"}]

Success == [sort |-> "result", text |-> "success"]

\* A Result of another form comes with a block (a bare hash) or without one.
MayMakeBlock(a) == a.sort = "result" /\ a.text # "recoverable"

\* Proposed, Skipped or Err; a Result that is no recoverable refusal is taken for
\* a block hash.
ToldAfter(a) ==
  IF a.text = "recoverable" THEN "skipped"
  ELSE IF a.sort = "result" THEN "proposed" ELSE "failed"

\* The node answers; the block it made holds every deploy it can hold.
ProposeAnswered(c, a) ==
  /\ step[c] = "proposing"
  /\ \/ MayMakeBlock(a) /\ Block(Pending)
     \/ a # Success /\ UNCHANGED <<vars, includedAt>>
  /\ End(c, ToldAfter(a))
  /\ proposedAt' = [proposedAt EXCEPT ![c] = IF a = Success THEN head + 1 ELSE 0]
  /\ UNCHANGED <<kind, taken, lost>>

\* No connection, or an answer that does not arrive or has no message: whether
\* there is a block is not known.
ProposeFails(c) ==
  /\ step[c] = "proposing"
  /\ \/ Block(Pending) /\ lost' = [lost EXCEPT ![c] = TRUE]
     \/ UNCHANGED <<vars, includedAt, lost>>
  /\ End(c, "failed")
  /\ UNCHANGED <<kind, taken, proposedAt>>

-----------------------------------------------------------------------------

Call(c) ==
  \/ \E k \in Kinds : Start(c, k)
  \/ SampleTip(c) \/ AskTip(c)
  \/ DeployTaken(c) \/ DeployRefused(c) \/ DeployAnswerLost(c)
  \/ (\E a \in ProposeAnswers : ProposeAnswered(c, a)) \/ ProposeFails(c)

SubmissionNext == BlockAppears \/ \E c \in Calls : Call(c)

SubmissionSpec == SubmissionInit /\ [][SubmissionNext]_allVars

\* The client runs and its two-second timers fire, so that sampling goes on.  No
\* request without a timeout need ever be answered: nothing is assumed of the rest.
SubmissionFairSpec == SubmissionSpec /\ \A c \in Calls : WF_allVars(SampleTip(c))

-----------------------------------------------------------------------------
(* Properties *)

\* Every variable of this module keeps to its type.
SubmissionTypeOK ==
  /\ kind \in [Calls -> Kinds \cup {"none"}]
  /\ step \in [Calls -> {"idle", "deploying", "proposing", "ended"}]
  /\ told \in [Calls -> {"nothing", "deployed", "proposed", "skipped", "failed"}]
  /\ taken \subseteq Calls
  /\ includedAt \in [Calls -> 0..MaxHead]
  /\ proposedAt \in [Calls -> 0..MaxHead]
  /\ lost \in [Calls -> BOOLEAN]

\* full_deploy that says "block proposed" and names one has its deploy in that
\* block or in one below it, whatever other callers and proposers did meanwhile;
\* unless the tip it knew was older than the validity window.
ProposedHoldsDeploy ==
  \A c \in Calls : kind[c] = "full_deploy" /\ proposedAt[c] # 0 =>
    \/ includedAt[c] \in 1..proposedAt[c]
    \/ vabn[c] + Window < proposedAt[c]

\* A caller that is told of success has its deploy at the node.  One that is told
\* of failure may try again without deploying twice, unless the answer was lost or
\* full_deploy failed in its second half.
CallersAreTold ==
  \A c \in Calls : kind[c] \in Deploying =>
    /\ told[c] \in {"deployed", "proposed", "skipped"} => c \in taken
    /\ told[c] = "failed" /\ c \in taken => lost[c] \/ kind[c] = "full_deploy"

\* The inductive invariant, on top of TipFloor's: a call is as far as its VABN, what
\* the node has taken keeps its VABN, and nothing is told before the end.
CallsAreOrdered ==
  \A c \in Calls :
    /\ step[c] = "idle" => pc[c] = "idle" /\ kind[c] = "none"
    /\ step[c] # "idle" => kind[c] \in Kinds
    /\ step[c] = "deploying" => kind[c] \in Deploying
    /\ step[c] = "proposing" => kind[c] \in {"full_deploy", "propose"}
    /\ step[c] = "proposing" /\ kind[c] = "full_deploy" => c \in taken
    /\ kind[c] = "full_deploy" /\ proposedAt[c] # 0 => c \in taken
    /\ step[c] # "ended" => told[c] = "nothing" /\ proposedAt[c] = 0
    /\ c \in taken => pc[c] \in {"sampled", "unsampled"} /\ step[c] \in {"proposing", "ended"}
    /\ includedAt[c] <= head

SubmissionIInv ==
  /\ IInv
  /\ SubmissionTypeOK
  /\ CallsAreOrdered
  /\ CallersAreTold
  /\ ProposedHoldsDeploy

\* However the node behaves, a deploy is not held up in tip sampling: what can
\* hold it up for ever is a request without a timeout.
SamplingEnds ==
  \A c \in Calls : step[c] = "deploying" ~> pc[c] \in {"direct", "sampled", "unsampled"}
=============================================================================
