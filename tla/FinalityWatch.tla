--------------------------- MODULE FinalityWatch ---------------------------
(***************************************************************************)
(* What NodeEvents promises its callers, with the listener, the locks, the *)
(* pending table and the notifications left out.  There is a record of     *)
(* finalised deploys that only grows.  A caller either waits for a deploy  *)
(* (wait_for_deploy) or peeks at the record (is_finalized), and is         *)
(* answered at most once: with the outcome on record at that instant, or   *)
(* with nothing.  A peek is told nothing only if nothing is on record.     *)
(***************************************************************************)
CONSTANTS
  DeployIds,   \* the deploys that may be finalised
  Outcomes,    \* what a finalised deploy reports (cost, errored flag, ...)
  Callers,     \* the calls made on the NodeEvents handle
  Absent       \* no outcome: the None of an Option<DeployEvent>

VARIABLES
  record,      \* record[d]: the outcome recorded for d, or Absent
  phase,       \* phase[c]: "idle", "waiting", "peeking", "answered", "withdrawn"
  subject,     \* subject[c]: the deploy c asks about
  answer       \* answer[c]: what c was told

absVars == <<record, phase, subject, answer>>

Init ==
  /\ record = [d \in DeployIds |-> Absent]
  /\ phase = [c \in Callers |-> "idle"]
  /\ subject = [c \in Callers |-> Absent]
  /\ answer = [c \in Callers |-> Absent]

\* A finalised block brings deploy d with outcome o.
Publish(d, o) ==
  /\ record' = [record EXCEPT ![d] = o]
  /\ UNCHANGED <<phase, subject, answer>>

Ask(c, d, how) ==
  /\ phase[c] = "idle"
  /\ phase' = [phase EXCEPT ![c] = how]
  /\ subject' = [subject EXCEPT ![c] = d]
  /\ UNCHANGED <<record, answer>>

\* A wait may be told nothing (its timeout), a peek only the record.
Answer(c) ==
  /\ phase[c] \in {"waiting", "peeking"}
  /\ \/ answer' = [answer EXCEPT ![c] = record[subject[c]]]
     \/ phase[c] = "waiting" /\ UNCHANGED answer
  /\ phase' = [phase EXCEPT ![c] = "answered"]
  /\ UNCHANGED <<record, subject>>

\* The caller drops the future before it resolves.
Withdraw(c) ==
  /\ phase[c] \in {"waiting", "peeking"}
  /\ phase' = [phase EXCEPT ![c] = "withdrawn"]
  /\ UNCHANGED <<record, subject, answer>>

Next ==
  \/ \E d \in DeployIds, o \in Outcomes : Publish(d, o)
  \/ \E c \in Callers, d \in DeployIds, how \in {"waiting", "peeking"} : Ask(c, d, how)
  \/ \E c \in Callers : Answer(c) \/ Withdraw(c)

Safety == Init /\ [][Next]_absVars

\* Nobody who asks is left without an answer.
Spec == Safety /\ \A c \in Callers : WF_absVars(Answer(c))
=============================================================================
