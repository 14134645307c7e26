-------------------------- MODULE PosQueriesProofs --------------------------
(***************************************************************************)
(* Proofs about PosQueries for any set of validators, any chain and any    *)
(* epoch length.                                                           *)
(***************************************************************************)
EXTENDS PosQueries, FiniteSetTheorems, TLAPS

USE ValidatorAssumption, BoundsAssumption
    DEF NoBlock, NotYet, Unreadable, Wrapped, Numbers, Answers, Blocks,
        Combined, Single, Commands

\* Where a number stands among the multiples of an epoch length.
LEMMA QuotientFacts ==
  ASSUME NEW a \in Nat, NEW b \in Nat \ {0}
  PROVE  /\ Quotient(a, b) \in Nat
         /\ Quotient(a, b) * b <= a
         /\ a < Quotient(a, b) * b + b
         /\ Quotient(a, b) * b \in Nat
<1> DEFINE q == a \div b
<1>1. q \in Int /\ b * q <= a /\ a < b * q + b
  OBVIOUS
<1> HIDE DEF q
<1>2. q \in Nat
  <2> SUFFICES ASSUME q <= -1 PROVE FALSE
    BY <1>1
  <2>1. b * q <= b * (-1)
    BY <1>1
  <2>2. QED
    BY <1>1, <2>1
<1>3. b * q = q * b /\ q * b \in Nat
  BY <1>2
<1>4. QED
  BY <1>1, <1>2, <1>3 DEF Quotient, q

LEMMA QuotientGrows ==
  ASSUME NEW a \in Nat, NEW c \in Nat, a <= c, NEW b \in Nat \ {0}
  PROVE  Quotient(a, b) <= Quotient(c, b)
<1> DEFINE q == Quotient(a, b)
           r == Quotient(c, b)
<1>1. q \in Nat /\ r \in Nat /\ q * b <= a /\ c < r * b + b
  BY QuotientFacts
<1> HIDE DEF q, r
<1> SUFFICES ASSUME r + 1 <= q PROVE FALSE
  BY <1>1 DEF q, r
<1>2. (r + 1) * b <= q * b
  BY <1>1
<1>3. (r + 1) * b = r * b + b
  BY <1>1
<1>4. q * b \in Nat /\ r * b \in Nat
  BY <1>1
<1>5. QED
  BY <1>1, <1>2, <1>3, <1>4

\* A list of validators that an answer is read as is a finite set, and a block's
\* list does not change as the chain goes on.
LEMMA ListsAreFinite ==
  ASSUME TypeOK, AnswersAreFromTheChain, NEW a \in {bonds_result, active_result},
         a # NotYet
  PROVE  /\ Validators(a) \subseteq Validator /\ IsFiniteSet(Validators(a))
         /\ Cardinality(Validators(a)) \in Nat
<1>1. Validators(a) \subseteq Validator
  <2>1. CASE a = Unreadable
    BY <2>1 DEF Validators
  <2>2. CASE a # Unreadable
    <3>1. a \in 0..(Len(chain) - 1) /\ chain \in Seq(StakeState) /\ Len(chain) \in Nat
      BY <2>2 DEF TypeOK, AnswersAreFromTheChain
    <3>2. chain[a + 1] \in StakeState
      BY <3>1
    <3>3. QED
      BY <2>2, <3>2 DEF Validators, StateOf, StakeState
  <2>3. QED
    BY <2>1, <2>2
<1>2. IsFiniteSet(Validators(a))
  BY <1>1, FS_Subset
<1>3. QED
  BY <1>1, <1>2, FS_CardinalityType

\* A count that is too small says that somebody is missing from the list.
LEMMA CountBelowZero ==
  ASSUME TypeOK, AnswersAreFromTheChain, bonds_result # NotYet, active_result # NotYet,
         quarantine_count < 0
  PROVE  SomebodyMissing /\ active_result # bonds_result
<1> DEFINE B == Validators(bonds_result)
           A == Validators(active_result)
<1>1. /\ IsFiniteSet(B) /\ IsFiniteSet(A)
      /\ Cardinality(B) \in Nat /\ Cardinality(A) \in Nat
  BY ListsAreFinite
<1>2. Cardinality(B) < Cardinality(A)
  BY <1>1 DEF quarantine_count, total_bonded, total_active
<1>3. ~(A \subseteq B)
  BY <1>1, <1>2, FS_Subset
<1>4. QED
  BY <1>3 DEF SomebodyMissing

-----------------------------------------------------------------------------
LEMMA InitInv == Init => IInv
<1> SUFFICES ASSUME Init PROVE IInv
  OBVIOUS
<1>1. chain \in Seq(StakeState) /\ Len(chain) = 1
  <2>1. PICK n \in Nat : n = 1
    OBVIOUS
  <2>2. chain \in [1..n -> StakeState]
    BY <2>1 DEF Init
  <2>3. chain \in Seq(StakeState) /\ Len(chain) = n
    BY <2>2
  <2>4. QED
    BY <2>1, <2>3
<1>2. TypeOK
  <2>1. Len(chain) \in 1..MaxBlocks
    BY <1>1, BoundsAssumption
  <2>2. report \in Reports
    BY DEF Init, Reports
  <2>3. QED
    BY <1>1, <2>1, <2>2 DEF Init, TypeOK, Answers
<1>3. AnswersAreFromTheChain
  BY DEF Init, AnswersAreFromTheChain
<1>4. ReportIsOfTheAnswers
  BY DEF Init, ReportIsOfTheAnswers, Nothing
<1>5. QED
  BY <1>2, <1>3, <1>4 DEF IInv

\* A block keeps its validators when the chain grows, so all lists read from
\* the answers, and every report made of them, stay what they are.
LEMMA NewBlockInv ==
  ASSUME IInv, NewBlock
  PROVE  IInv'
<1>1. /\ UNCHANGED <<command, public_key, epoch_length, pc, current_block,
                     bonds_result, active_result, lengths, recent, report>>
      /\ Len(chain) < MaxBlocks /\ chain \in Seq(StakeState) /\ Len(chain) >= 1
  BY DEF IInv, NewBlock, TypeOK
<1>2. PICK s \in StakeState : chain' = Append(chain, s)
  BY DEF NewBlock, NextState
<1>3. /\ chain' \in Seq(StakeState) /\ Len(chain') = Len(chain) + 1
      /\ \A i \in 1..Len(chain) : chain'[i] = chain[i]
  BY <1>1, <1>2
<1>4. \A b \in 0..(Len(chain) - 1) : StateOf(b)' = StateOf(b)
  <2> SUFFICES ASSUME NEW b \in 0..(Len(chain) - 1) PROVE chain'[b + 1] = chain[b + 1]
    BY DEF StateOf
  <2>1. b + 1 \in 1..Len(chain)
    BY <1>1
  <2>2. QED
    BY <1>3, <2>1
<1>5. /\ bonds_result # NotYet => Validators(bonds_result)' = Validators(bonds_result)
      /\ active_result # NotYet => Validators(active_result)' = Validators(active_result)
  BY <1>1, <1>4 DEF IInv, TypeOK, AnswersAreFromTheChain, Validators
<1>6. TypeOK'
  BY <1>1, <1>3 DEF IInv, TypeOK
<1>7. AnswersAreFromTheChain'
  BY <1>1, <1>3 DEF IInv, AnswersAreFromTheChain, TypeOK
<1>8. ReportIsOfTheAnswers'
  <2>1. EpochReport' = EpochReport
    BY <1>1 DEF EpochReport, current_epoch, epoch_start_block, epoch_end_block,
       blocks_into_epoch, blocks_remaining
  <2>2. bonds_result # NotYet /\ active_result # NotYet =>
          /\ ValidatorReport' = ValidatorReport
          /\ quarantine_count' = quarantine_count
    BY <1>1, <1>5 DEF ValidatorReport, IsBonded, IsActive, quarantine_count, total_bonded,
       total_active
  <2>3. /\ Listed' = Listed
        /\ Listed # NotYet => ListReport' = ListReport
        /\ bonds_result # NotYet => BondReport' = BondReport
    BY <1>1, <1>5 DEF Listed, ListReport, BondReport, IsBonded
  <2>4. QED
    BY <1>1, <2>1, <2>2, <2>3 DEF IInv, ReportIsOfTheAnswers
<1>9. QED
  BY <1>6, <1>7, <1>8 DEF IInv

\* The tip, an answer or a failure: nothing is reported yet.
LEMMA AnswerInv ==
  ASSUME IInv,
         GetTip \/ BondsAnswered \/ ActiveAnswered \/ LengthsAnswered \/ RecentAnswered
           \/ RequestFails \/ StatusIsPrinted
  PROVE  IInv'
<1>1. /\ UNCHANGED <<chain, command, public_key, epoch_length, report>>
      /\ pc \in {"tip", "asking"} /\ pc' \in {"asking", "failed", "done"}
      /\ chain \in Seq(StakeState) /\ Len(chain) \in 1..MaxBlocks
  BY DEF IInv, TypeOK, GetTip, BondsAnswered, ActiveAnswered, LengthsAnswered,
     RecentAnswered, RequestFails, StatusIsPrinted
<1>2. Len(chain) - 1 \in Numbers
  BY <1>1, BoundsAssumption DEF Numbers
<1>3. TypeOK'
  <2>1. current_block' \in Numbers \cup {NoBlock} /\ recent' \in Numbers \cup {NoBlock}
    BY <1>2 DEF IInv, TypeOK, GetTip, BondsAnswered, ActiveAnswered, LengthsAnswered,
       RecentAnswered, RequestFails, StatusIsPrinted
  <2>2. Blocks \subseteq Numbers
    BY <1>1, BoundsAssumption DEF Blocks, Numbers
  <2>3. bonds_result' \in Answers /\ active_result' \in Answers
    BY <2>2 DEF IInv, TypeOK, Answers, GetTip, BondsAnswered, ActiveAnswered,
       LengthsAnswered, RecentAnswered, RequestFails, StatusIsPrinted
  <2>4. lengths' \in BOOLEAN
    BY DEF IInv, TypeOK, GetTip, BondsAnswered, ActiveAnswered, LengthsAnswered,
       RecentAnswered, RequestFails, StatusIsPrinted
  <2>5. QED
    BY <1>1, <2>1, <2>3, <2>4 DEF IInv, TypeOK
<1>4. AnswersAreFromTheChain'
  BY <1>1 DEF IInv, AnswersAreFromTheChain, ReportIsOfTheAnswers, TypeOK, GetTip,
     BondsAnswered, ActiveAnswered, LengthsAnswered, RecentAnswered, RequestFails, StatusIsPrinted
<1>5. report' = Nothing
  BY <1>1 DEF IInv, ReportIsOfTheAnswers
<1>6. ReportIsOfTheAnswers'
  BY <1>1, <1>5 DEF ReportIsOfTheAnswers, Nothing
<1>7. QED
  BY <1>3, <1>4, <1>6 DEF IInv

LEMMA ReportValidatorInv ==
  ASSUME IInv, ReportValidator
  PROVE  IInv'
<1>1. /\ UNCHANGED <<chain, command, public_key, epoch_length, current_block,
                     bonds_result, active_result, lengths, recent>>
      /\ pc = "asking" /\ pc' = "done" /\ report' = ValidatorReport
      /\ bonds_result # NotYet /\ active_result # NotYet
  BY DEF ReportValidator, ValidatorsAnswered
<1>2. ValidatorReport' = ValidatorReport
  BY <1>1 DEF ValidatorReport, IsBonded, IsActive, Validators, StateOf
<1>3. report' \in [kind : {"validator"}, bonded : {"BONDED", "NOT BONDED"},
                   status : {"ACTIVE", "QUARANTINE", "INACTIVE"}]
  BY <1>1 DEF ValidatorReport
<1>4. TypeOK'
  BY <1>1, <1>3 DEF IInv, TypeOK, Reports
<1>5. AnswersAreFromTheChain'
  BY <1>1 DEF IInv, AnswersAreFromTheChain
<1>6. ReportIsOfTheAnswers'
  BY <1>1, <1>2 DEF ReportIsOfTheAnswers, ValidatorReport, Nothing
<1>7. QED
  BY <1>4, <1>5, <1>6 DEF IInv

LEMMA ReportConsensusInv ==
  ASSUME IInv, ReportConsensus
  PROVE  IInv'
<1>1. /\ UNCHANGED <<chain, command, public_key, epoch_length, current_block,
                     bonds_result, active_result, lengths, recent>>
      /\ command = "network-consensus" /\ pc = "asking" /\ pc' \in {"done", "panicked"}
      /\ bonds_result # NotYet /\ active_result # NotYet
  BY DEF ReportConsensus, ValidatorsAnswered
<1>2. quarantine_count' = quarantine_count
  BY <1>1 DEF quarantine_count, total_bonded, total_active, Validators, StateOf
<1>3. quarantine_count \in Int /\ Health \in {"Healthy", "Limited", "Critical"}
  <2>1. Cardinality(Validators(bonds_result)) \in Nat
        /\ Cardinality(Validators(active_result)) \in Nat
    BY <1>1, ListsAreFinite DEF IInv
  <2>2. QED
    BY <2>1 DEF quarantine_count, total_bonded, total_active, Health
<1>4. TypeOK'
  <2>1. CASE /\ quarantine_count >= 0
             /\ report' = [kind |-> "consensus", quarantine |-> quarantine_count,
                           health |-> Health]
    <3>1. quarantine_count \in Nat
      BY <2>1, <1>3
    <3>2. report' \in Reports
      BY <2>1, <3>1, <1>3 DEF Reports
    <3>3. QED
      BY <1>1, <3>2 DEF IInv, TypeOK
  <2>2. CASE report' = [kind |-> "consensus", quarantine |-> Wrapped, health |-> Health]
    <3>1. report' \in Reports
      BY <2>2, <1>3 DEF Reports
    <3>2. QED
      BY <1>1, <3>1 DEF IInv, TypeOK
  <2>3. CASE report' = Nothing
    <3>1. report' \in Reports
      BY <2>3 DEF Reports
    <3>2. QED
      BY <1>1, <3>1 DEF IInv, TypeOK
  <2>4. QED
    BY <2>1, <2>2, <2>3 DEF ReportConsensus
<1>5. AnswersAreFromTheChain'
  BY <1>1 DEF IInv, AnswersAreFromTheChain
<1>6. ReportIsOfTheAnswers'
  BY <1>1, <1>2, <1>3 DEF ReportIsOfTheAnswers, ReportConsensus, Nothing
<1>7. QED
  BY <1>4, <1>5, <1>6 DEF IInv

\* The division is by a number that is not zero, and of the tip's number.
LEMMA EpochFacts ==
  ASSUME epoch_length \in EpochLengths, epoch_length # 0, current_block \in Nat,
         recent \in Nat, current_block <= recent
  PROVE  /\ EpochReport \in [kind : {"epoch"}, number : Nat, first : Nat, last : Nat,
                             into : Nat, remaining : Nat, recent_epoch : Nat]
         /\ EpochReport.first <= current_block /\ current_block <= EpochReport.last
         /\ EpochReport.into >= 0 /\ EpochReport.remaining >= 1
         /\ EpochReport.into + EpochReport.remaining = epoch_length
         /\ current_block + EpochReport.remaining = EpochReport.last + 1
         /\ EpochReport.recent_epoch >= EpochReport.number
<1>1. epoch_length \in Nat \ {0}
  OBVIOUS
<1>2. /\ current_epoch \in Nat /\ epoch_start_block \in Nat
      /\ epoch_start_block <= current_block
      /\ current_block < epoch_start_block + epoch_length
  BY <1>1, QuotientFacts DEF current_epoch, epoch_start_block
<1>3. Quotient(recent, epoch_length) \in Nat /\ current_epoch <= Quotient(recent, epoch_length)
  BY <1>1, QuotientFacts, QuotientGrows DEF current_epoch
<1>4. /\ epoch_end_block \in Nat /\ current_block <= epoch_end_block
      /\ blocks_into_epoch \in Nat /\ blocks_remaining \in Nat /\ blocks_remaining >= 1
      /\ blocks_into_epoch + blocks_remaining = epoch_length
      /\ current_block + blocks_remaining = epoch_end_block + 1
  BY <1>1, <1>2 DEF epoch_end_block, blocks_into_epoch, blocks_remaining
<1>5. QED
  BY <1>1, <1>2, <1>3, <1>4 DEF EpochReport

LEMMA ReportEpochInv ==
  ASSUME IInv, ReportEpoch
  PROVE  IInv'
<1>1. /\ UNCHANGED <<chain, command, public_key, epoch_length, current_block,
                     bonds_result, active_result, lengths, recent>>
      /\ command = "epoch-info" /\ pc = "asking" /\ recent # NoBlock
      /\ \/ epoch_length # 0 /\ report' = EpochReport /\ pc' = "done"
         \/ epoch_length = 0 /\ report' = Nothing /\ pc' = "panicked"
  BY DEF ReportEpoch
<1>2. /\ epoch_length \in EpochLengths /\ current_block \in Nat /\ recent \in Nat
      /\ current_block <= recent
  BY <1>1 DEF IInv, TypeOK, AnswersAreFromTheChain
<1>3. epoch_length # 0 =>
        EpochReport \in [kind : {"epoch"}, number : Nat, first : Nat, last : Nat,
                         into : Nat, remaining : Nat, recent_epoch : Nat]
  BY <1>2, EpochFacts
<1>4. EpochReport' = EpochReport
  BY <1>1 DEF EpochReport, current_epoch, epoch_start_block, epoch_end_block,
     blocks_into_epoch, blocks_remaining
<1>5. report' \in Reports /\ pc' \in {"done", "panicked"}
  BY <1>1, <1>3 DEF Reports
<1>6. TypeOK'
  BY <1>1, <1>5 DEF IInv, TypeOK
<1>7. AnswersAreFromTheChain'
  BY <1>1 DEF IInv, AnswersAreFromTheChain
<1>8. ReportIsOfTheAnswers'
  <2>1. CASE epoch_length # 0
    <3>1. report' = EpochReport' /\ report'.kind = "epoch" /\ pc' = "done"
      BY <2>1, <1>1, <1>4 DEF EpochReport
    <3>2. QED
      BY <2>1, <3>1, <1>1 DEF ReportIsOfTheAnswers
  <2>2. CASE epoch_length = 0
    BY <2>2, <1>1 DEF ReportIsOfTheAnswers, Nothing
  <2>3. QED
    BY <2>1, <2>2
<1>9. QED
  BY <1>6, <1>7, <1>8 DEF IInv

\* The commands that send one request.
LEMMA ReportListInv ==
  ASSUME IInv, ReportList
  PROVE  IInv'
<1>1. /\ UNCHANGED <<chain, command, public_key, epoch_length, current_block,
                     bonds_result, active_result, lengths, recent>>
      /\ command \in {"bonds", "active-validators"} /\ pc = "asking" /\ pc' = "done"
      /\ Listed # NotYet
      /\ report' = IF Listed = Unreadable THEN Nothing ELSE ListReport
  BY DEF ReportList
<1>2. Listed' = Listed /\ ListReport' = ListReport
  BY <1>1 DEF Listed, ListReport, Validators, StateOf
<1>3. ListReport \in [kind : {"list"}, title : {"bonds", "active-validators"},
                      validators : SUBSET Validator]
  <2>1. Listed \in {bonds_result, active_result}
    BY DEF Listed
  <2>2. Validators(Listed) \subseteq Validator
    BY <1>1, <2>1, ListsAreFinite DEF IInv
  <2>3. QED
    BY <1>1, <2>2 DEF ListReport
<1>4. TypeOK'
  <2>1. report' \in Reports
    BY <1>1, <1>3 DEF Reports
  <2>2. QED
    BY <1>1, <2>1 DEF IInv, TypeOK
<1>5. AnswersAreFromTheChain'
  BY <1>1 DEF IInv, AnswersAreFromTheChain
<1>6. ReportIsOfTheAnswers'
  BY <1>1, <1>2 DEF ReportIsOfTheAnswers, ListReport, Nothing
<1>7. QED
  BY <1>4, <1>5, <1>6 DEF IInv

LEMMA ReportBondInv ==
  ASSUME IInv, ReportBond
  PROVE  IInv'
<1>1. /\ UNCHANGED <<chain, command, public_key, epoch_length, current_block,
                     bonds_result, active_result, lengths, recent>>
      /\ command = "bond-status" /\ pc = "asking" /\ pc' = "done"
      /\ bonds_result # NotYet /\ report' = BondReport
  BY DEF ReportBond
<1>2. BondReport' = BondReport
  BY <1>1 DEF BondReport, IsBonded, Validators, StateOf
<1>3. BondReport \in [kind : {"bond"}, bonded : {"BONDED", "NOT BONDED"}]
  BY DEF BondReport
<1>4. TypeOK'
  <2>1. report' \in Reports
    BY <1>1, <1>3 DEF Reports
  <2>2. QED
    BY <1>1, <2>1 DEF IInv, TypeOK
<1>5. AnswersAreFromTheChain'
  BY <1>1 DEF IInv, AnswersAreFromTheChain
<1>6. ReportIsOfTheAnswers'
  BY <1>1, <1>2 DEF ReportIsOfTheAnswers, BondReport, Nothing
<1>7. QED
  BY <1>4, <1>5, <1>6 DEF IInv

LEMMA StepInv == IInv /\ [Next]_vars => IInv'
<1> SUFFICES ASSUME IInv, [Next]_vars PROVE IInv'
  OBVIOUS
<1>1. CASE UNCHANGED vars
  <2>1. TypeOK' /\ AnswersAreFromTheChain'
    BY <1>1 DEF vars, IInv, TypeOK, AnswersAreFromTheChain
  <2>2. /\ ValidatorReport' = ValidatorReport
        /\ quarantine_count' = quarantine_count
    BY <1>1 DEF vars, ValidatorReport, IsBonded, IsActive, Validators, StateOf,
       quarantine_count, total_bonded, total_active
  <2>3. EpochReport' = EpochReport
    BY <1>1 DEF vars, EpochReport, current_epoch, epoch_start_block, epoch_end_block,
       blocks_into_epoch, blocks_remaining
  <2>4. Listed' = Listed /\ ListReport' = ListReport /\ BondReport' = BondReport
    BY <1>1 DEF vars, Listed, ListReport, BondReport, IsBonded, Validators, StateOf
  <2>5. ReportIsOfTheAnswers'
    BY <1>1, <2>2, <2>3, <2>4 DEF vars, IInv, ReportIsOfTheAnswers
  <2>6. QED
    BY <2>1, <2>5 DEF IInv
<1>2. QED
  BY <1>1, NewBlockInv, AnswerInv, ReportValidatorInv, ReportConsensusInv, ReportEpochInv,
  ReportListInv, ReportBondInv DEF Next

-----------------------------------------------------------------------------
\* Answers are of blocks the chain has, and reports are of the answers.
THEOREM Invariance == Spec => []IInv
BY InitInv, StepInv, PTL DEF Spec

\* The unsigned subtraction is safe for answers of one block.
THEOREM NoUnderflowFromOneBlock == Spec => []UnderflowNeedsTwoBlocks
<1>1. ASSUME IInv,
             \/ pc = "panicked" /\ command = "network-consensus"
             \/ report.kind = "consensus" /\ report.quarantine = Wrapped
      PROVE  SomebodyMissing /\ active_result # bonds_result
  <2>1. bonds_result # NotYet /\ active_result # NotYet
    BY <1>1 DEF IInv, ReportIsOfTheAnswers
  <2>2. quarantine_count \in Int
    BY <1>1, <2>1, ListsAreFinite DEF IInv, quarantine_count, total_bonded, total_active
  <2>3. quarantine_count < 0
    <3> SUFFICES ASSUME quarantine_count >= 0 PROVE FALSE
      BY <2>2
    <3>1. CASE report.kind = "consensus" /\ report.quarantine = Wrapped
      <4>1. report.quarantine = quarantine_count
        BY <1>1, <3>1 DEF IInv, ReportIsOfTheAnswers
      <4>2. quarantine_count = -1
        BY <3>1, <4>1 DEF Wrapped
      <4>3. QED
        BY <4>2
    <3>2. CASE pc = "panicked" /\ command = "network-consensus"
      BY <2>2, <3>2, <1>1 DEF IInv, ReportIsOfTheAnswers
    <3>3. QED
      BY <1>1, <3>1, <3>2
  <2>4. QED
    BY <1>1, <2>1, <2>3, CountBelowZero DEF IInv
<1>2. IInv => UnderflowNeedsTwoBlocks
  BY <1>1 DEF UnderflowNeedsTwoBlocks
<1>3. QED
  BY <1>2, Invariance, PTL

\* Answers of one block do not contradict each other.
THEOREM NoContradictionFromOneBlock == Spec => []ContradictionNeedsTwoBlocks
<1>1. ASSUME IInv, report.kind = "validator", report.bonded = "NOT BONDED",
             report.status = "ACTIVE"
      PROVE  ~IsBonded /\ IsActive
  <2>1. report = ValidatorReport
    BY <1>1 DEF IInv, ReportIsOfTheAnswers
  <2>2. QED
    BY <1>1, <2>1 DEF ValidatorReport, IsBonded, IsActive
<1>2. IInv => ContradictionNeedsTwoBlocks
  BY <1>1 DEF ContradictionNeedsTwoBlocks, IsBonded, IsActive
<1>3. QED
  BY <1>2, Invariance, PTL

\* How far it goes that the active list is read with the parser of the bonds: from
\* answers at one block QUARANTINE is reported of nobody, though the commands and
\* the bonding guide promise it to who has bonded and is not active yet.
THEOREM NoQuarantineFromOneBlock == Spec => []QuarantineNeedsTwoBlocks
<1>1. ASSUME IInv, active_result = bonds_result, report.kind = "validator"
      PROVE  report.status # "QUARANTINE"
  <2>1. report = ValidatorReport
    BY <1>1 DEF IInv, ReportIsOfTheAnswers
  <2>2. IsBonded <=> IsActive
    BY <1>1 DEF IsBonded, IsActive
  <2>3. QED
    BY <2>1, <2>2 DEF ValidatorReport
<1>2. ASSUME IInv, active_result = bonds_result, report.kind = "consensus"
      PROVE  report.quarantine = 0
  <2>1. bonds_result # NotYet /\ Cardinality(Validators(bonds_result)) \in Nat
    BY <1>2, ListsAreFinite DEF IInv, ReportIsOfTheAnswers
  <2>2. quarantine_count = 0
    BY <1>2, <2>1 DEF quarantine_count, total_bonded, total_active
  <2>3. quarantine_count >= 0
    BY <2>2
  <2>4. QED
    BY <1>2, <2>2, <2>3 DEF IInv, ReportIsOfTheAnswers
<1>3. IInv => QuarantineNeedsTwoBlocks
  BY <1>1, <1>2 DEF QuarantineNeedsTwoBlocks
<1>4. QED
  BY <1>3, Invariance, PTL

\* The epoch arithmetic is right for every tip and every epoch length.
THEOREM EpochIsRight == Spec => []EpochContainsTip
<1>1. ASSUME IInv, report.kind = "epoch"
      PROVE  /\ epoch_length # 0 /\ report = EpochReport
             /\ epoch_length \in EpochLengths /\ current_block \in Nat /\ recent \in Nat
             /\ current_block <= recent
  <2>1. epoch_length # 0 /\ report = EpochReport /\ recent # NoBlock
    BY <1>1 DEF IInv, ReportIsOfTheAnswers
  <2>2. QED
    BY <1>1, <2>1 DEF IInv, TypeOK, AnswersAreFromTheChain
<1>2. IInv => EpochContainsTip
  BY <1>1, EpochFacts DEF EpochContainsTip
<1>3. QED
  BY <1>2, Invariance, PTL

=============================================================================
