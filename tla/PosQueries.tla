----------------------------- MODULE PosQueries -----------------------------
(***************************************************************************)
(* The commands of src/src/commands/query.rs about proof of stake.         *)
(* validator_status_command, epoch_info_command and                        *)
(* network_consensus_command combine several answers: each asks for the    *)
(* tip of the main chain and then sends three requests at once.            *)
(* bonds_command, active_validators_command and bond_status_command send   *)
(* one of these requests alone.                                            *)
(*                                                                         *)
(* The gRPC requests name the tip's hash.  The two HTTP requests, for the  *)
(* bonds and for the active validators, name no block; the node evaluates  *)
(* them at a block of its own choice.  Its answer carries the result of    *)
(* the query and, under "block", the block it was evaluated at with the    *)
(* bonds of that block.  The code reads the latter, for both queries.      *)
(*                                                                         *)
(* The chain and its validators are external: they bond, are activated and *)
(* leave while the requests are under way.                                 *)
(***************************************************************************)
EXTENDS Integers, Sequences, FiniteSets

CONSTANTS Validator,
          EpochLengths,     \* what the contract may return as epoch length
          MaxBlocks         \* bound on the length of the chain

ASSUME ValidatorAssumption == IsFiniteSet(Validator)
ASSUME BoundsAssumption == EpochLengths \subseteq Nat /\ MaxBlocks \in Nat \ {0}

VARIABLES chain,            \* the state of proof of stake after block 0, 1, ...
          command, public_key, epoch_length,
          pc,               \* "tip", "asking", "done", "failed", "panicked"
          current_block,    \* the number of the tip, as first answered
          bonds_result, active_result,  \* the HTTP answers
          lengths,          \* whether the gRPC answers at the tip are there
          recent,           \* the last block number of the recent blocks
          report            \* what is printed

vars == <<chain, command, public_key, epoch_length, pc, current_block, bonds_result,
          active_result, lengths, recent, report>>

Combined == {"validator-status", "network-consensus", "epoch-info"}
Single == {"bonds", "active-validators", "bond-status"}
Commands == Combined \cup Single
NoBlock == -1
Numbers == 0..(MaxBlocks - 1)

(* Only bonded validators are active. *)
StakeState == {s \in [bonds : SUBSET Validator, active : SUBSET Validator] :
                  s.active \subseteq s.bonds}

StateOf(b) == chain[b + 1]
Blocks == 0..(Len(chain) - 1)

(* An HTTP answer is the block it was evaluated at; NotYet while it is out,  *)
(* Unreadable if it has no list of bonds under "block", or if query_pos_http *)
(* has cut it down to its "postBlockData".                                   *)
NotYet == -1
Unreadable == -2

Nothing == [kind |-> "nothing"]
Wrapped == -1               \* a count that wrapped around

(* i64 division of numbers that are not negative *)
Quotient(a, b) == a \div b

-----------------------------------------------------------------------------
Init == /\ chain \in [1..1 -> StakeState]
        /\ command \in Commands
        /\ public_key \in Validator
        /\ epoch_length \in EpochLengths
        /\ pc = IF command \in Single THEN "asking" ELSE "tip"
        /\ current_block = NoBlock
        /\ bonds_result = NotYet /\ active_result = NotYet
        /\ lengths = FALSE /\ recent = NoBlock
        /\ report = Nothing

(* External: one more block, in which at most one validator bonds or leaves, *)
(* and in which the active ones may be chosen anew.                          *)
NextState(s) == {t \in StakeState :
                    \E v \in Validator :
                       t.bonds \in {s.bonds, s.bonds \cup {v}, s.bonds \ {v}}}

NewBlock == /\ Len(chain) < MaxBlocks
            /\ \E s \in NextState(chain[Len(chain)]) : chain' = Append(chain, s)
            /\ UNCHANGED <<command, public_key, epoch_length, pc, current_block,
                           bonds_result, active_result, lengths, recent, report>>

(* Variant: the number of blocks is taken for the number of the last one. *)
GetTipByCount == /\ pc = "tip"
                 /\ current_block' = Len(chain)
                 /\ pc' = "asking"
                 /\ UNCHANGED <<chain, command, public_key, epoch_length, bonds_result,
                                active_result, lengths, recent, report>>

(* show_main_chain(1).first() *)
GetTip == /\ pc = "tip"
          /\ current_block' = Len(chain) - 1
          /\ pc' = "asking"
          /\ UNCHANGED <<chain, command, public_key, epoch_length, bonds_result,
                         active_result, lengths, recent, report>>

AsksBonds == command \in {"validator-status", "network-consensus", "bonds", "bond-status"}
AsksActive == command \in {"validator-status", "network-consensus", "active-validators"}

(* query_pos_http, twice, or the request of a single command: the same       *)
(* endpoint, without a block hash.                                           *)
BondsAnswered == /\ pc = "asking" /\ AsksBonds /\ bonds_result = NotYet
                 /\ bonds_result' \in Blocks \cup {Unreadable}
                 /\ UNCHANGED <<chain, command, public_key, epoch_length, pc,
                                current_block, active_result, lengths, recent, report>>

ActiveAnswered == /\ pc = "asking" /\ AsksActive /\ active_result = NotYet
                  /\ active_result' \in Blocks \cup {Unreadable}
                  /\ UNCHANGED <<chain, command, public_key, epoch_length, pc,
                                 current_block, bonds_result, lengths, recent, report>>

(* exploratory_deploy at the hash of the tip: the quarantine length, and for *)
(* epoch_info_command the epoch length too.                                  *)
LengthsAnswered == /\ pc = "asking" /\ command \in Combined /\ ~lengths
                   /\ lengths' = TRUE
                   /\ UNCHANGED <<chain, command, public_key, epoch_length, pc,
                                  current_block, bonds_result, active_result, recent, report>>

(* show_main_chain(5), at the time it is answered *)
RecentAnswered == /\ pc = "asking" /\ command = "epoch-info" /\ recent = NoBlock
                  /\ recent' = Len(chain) - 1
                  /\ UNCHANGED <<chain, command, public_key, epoch_length, pc,
                                 current_block, bonds_result, active_result, lengths, report>>

(* No tip, a request that fails, or a length that is not a number: try_join! *)
(* and `?` end the command at once.                                          *)
RequestFails == /\ pc \in {"tip", "asking"}
                /\ pc' = "failed"
                /\ UNCHANGED <<chain, command, public_key, epoch_length, current_block,
                               bonds_result, active_result, lengths, recent, report>>

(* A single command prints an HTTP status that is no success and returns Ok. *)
StatusIsPrinted == /\ pc = "asking" /\ command \in Single
                   /\ pc' = "done"
                   /\ UNCHANGED <<chain, command, public_key, epoch_length, current_block,
                                  bonds_result, active_result, lengths, recent, report>>

(* parse_validator_data: response.block.bonds, whatever the query was. *)
Validators(answer) == IF answer = Unreadable THEN {} ELSE StateOf(answer).bonds

ValidatorsAnswered == /\ pc = "asking" /\ lengths
                      /\ bonds_result # NotYet /\ active_result # NotYet

(* The verdict on one validator. *)
IsBonded == public_key \in Validators(bonds_result)

IsActive == public_key \in Validators(active_result)

ValidatorReport == [kind |-> "validator",
                    bonded |-> IF IsBonded THEN "BONDED" ELSE "NOT BONDED",
                    status |-> IF IsActive THEN "ACTIVE"
                               ELSE IF IsBonded THEN "QUARANTINE" ELSE "INACTIVE"]

ReportValidator == /\ command = "validator-status" /\ ValidatorsAnswered
                   /\ report' = ValidatorReport /\ pc' = "done"
                   /\ UNCHANGED <<chain, command, public_key, epoch_length, current_block,
                                  bonds_result, active_result, lengths, recent>>

(* bonds_command and active_validators_command print block.bonds, under the  *)
(* title of what they asked for, or that there is none.                      *)
Listed == IF command = "bonds" THEN bonds_result ELSE active_result

ListReport == [kind |-> "list", title |-> command, validators |-> Validators(Listed)]

ReportList == /\ command \in {"bonds", "active-validators"} /\ pc = "asking"
              /\ Listed # NotYet
              /\ report' = IF Listed = Unreadable THEN Nothing ELSE ListReport
              /\ pc' = "done"
              /\ UNCHANGED <<chain, command, public_key, epoch_length, current_block,
                             bonds_result, active_result, lengths, recent>>

(* check_if_key_is_bonded: an answer that cannot be read holds no key. *)
BondReport == [kind |-> "bond", bonded |-> IF IsBonded THEN "BONDED" ELSE "NOT BONDED"]

ReportBond == /\ command = "bond-status" /\ pc = "asking" /\ bonds_result # NotYet
              /\ report' = BondReport /\ pc' = "done"
              /\ UNCHANGED <<chain, command, public_key, epoch_length, current_block,
                             bonds_result, active_result, lengths, recent>>

(* The counts are of type usize: the difference of bonded and active ones    *)
(* panics below zero in a checked build, and wraps around in an optimised    *)
(* one, where it is printed.                                                 *)
total_bonded == Cardinality(Validators(bonds_result))

total_active == Cardinality(Validators(active_result))

(* Variant: the operands are swapped. *)
SwappedCount == total_active - total_bonded

quarantine_count == total_bonded - total_active

Health == IF total_active >= 3 THEN "Healthy"
          ELSE IF total_active >= 1 THEN "Limited" ELSE "Critical"

ReportConsensus ==
    /\ command = "network-consensus" /\ ValidatorsAnswered
    /\ \/ /\ quarantine_count >= 0
          /\ report' = [kind |-> "consensus", quarantine |-> quarantine_count,
                        health |-> Health]
          /\ pc' = "done"
       \/ /\ quarantine_count < 0
          /\ report' = [kind |-> "consensus", quarantine |-> Wrapped, health |-> Health]
          /\ pc' = "done"
       \/ /\ quarantine_count < 0
          /\ report' = Nothing /\ pc' = "panicked"
    /\ UNCHANGED <<chain, command, public_key, epoch_length, current_block,
                   bonds_result, active_result, lengths, recent>>

(* Where the tip stands in its epoch; an epoch length of zero divides by zero. *)
current_epoch == Quotient(current_block, epoch_length)
epoch_start_block == current_epoch * epoch_length

(* Variant: the last block is taken to be the first of the next epoch. *)
FirstOfNextEpoch == epoch_start_block + epoch_length

epoch_end_block == epoch_start_block + epoch_length - 1

blocks_into_epoch == current_block - epoch_start_block
blocks_remaining == epoch_length - blocks_into_epoch

EpochReport == [kind |-> "epoch", number |-> current_epoch,
                first |-> epoch_start_block, last |-> epoch_end_block,
                into |-> blocks_into_epoch, remaining |-> blocks_remaining,
                (* the newest of the recent blocks is marked if its epoch differs *)
                recent_epoch |-> Quotient(recent, epoch_length)]

ReportEpoch == /\ command = "epoch-info" /\ pc = "asking" /\ lengths /\ recent # NoBlock
               /\ \/ epoch_length # 0 /\ report' = EpochReport /\ pc' = "done"
                  \/ epoch_length = 0 /\ report' = Nothing /\ pc' = "panicked"
               /\ UNCHANGED <<chain, command, public_key, epoch_length, current_block,
                              bonds_result, active_result, lengths, recent>>

Next == \/ NewBlock \/ GetTip \/ BondsAnswered \/ ActiveAnswered \/ LengthsAnswered
        \/ RecentAnswered \/ RequestFails \/ StatusIsPrinted
        \/ ReportValidator \/ ReportConsensus \/ ReportEpoch \/ ReportList \/ ReportBond

Spec == Init /\ [][Next]_vars

-----------------------------------------------------------------------------
(* The shape of the state. *)
Answers == Numbers \cup {NotYet, Unreadable}
Reports == {Nothing}
    \cup [kind : {"validator"}, bonded : {"BONDED", "NOT BONDED"},
          status : {"ACTIVE", "QUARANTINE", "INACTIVE"}]
    \cup [kind : {"consensus"}, quarantine : Nat \cup {Wrapped},
          health : {"Healthy", "Limited", "Critical"}]
    \cup [kind : {"epoch"}, number : Nat, first : Nat, last : Nat, into : Nat,
          remaining : Nat, recent_epoch : Nat]
    \cup [kind : {"list"}, title : {"bonds", "active-validators"},
          validators : SUBSET Validator]
    \cup [kind : {"bond"}, bonded : {"BONDED", "NOT BONDED"}]

TypeOK == /\ chain \in Seq(StakeState) /\ Len(chain) \in 1..MaxBlocks
          /\ command \in Commands /\ public_key \in Validator
          /\ epoch_length \in EpochLengths
          /\ pc \in {"tip", "asking", "done", "failed", "panicked"}
          /\ current_block \in Numbers \cup {NoBlock}
          /\ bonds_result \in Answers /\ active_result \in Answers
          /\ lengths \in BOOLEAN /\ recent \in Numbers \cup {NoBlock}
          /\ report \in Reports

(* What the answers are, before any of them is used.                         *)
AnswersAreFromTheChain ==
    /\ bonds_result >= 0 => bonds_result \in Blocks
    /\ active_result >= 0 => active_result \in Blocks
    /\ pc # "tip" /\ pc # "failed" /\ command \in Combined => current_block \in Blocks
    /\ recent # NoBlock => current_block \in 0..recent /\ recent \in Blocks

(* A report is made of the answers and of nothing else, and stays true of    *)
(* the blocks they came from while the chain goes on.                        *)
ReportIsOfTheAnswers ==
    /\ report.kind = "validator" =>
          /\ bonds_result # NotYet /\ active_result # NotYet
          /\ report = ValidatorReport
    /\ report.kind = "consensus" =>
          /\ bonds_result # NotYet /\ active_result # NotYet
          /\ quarantine_count >= 0 => report.quarantine = quarantine_count
          /\ quarantine_count < 0 => report.quarantine = Wrapped
    /\ pc = "panicked" =>
          \/ command = "epoch-info" /\ epoch_length = 0
          \/ /\ command = "network-consensus" /\ quarantine_count < 0
             /\ bonds_result # NotYet /\ active_result # NotYet
    /\ report.kind = "epoch" =>
          epoch_length # 0 /\ recent # NoBlock /\ report = EpochReport
    /\ report.kind = "list" =>
          Listed # NotYet /\ Listed # Unreadable /\ report = ListReport
    /\ report.kind = "bond" => bonds_result # NotYet /\ report = BondReport
    /\ pc # "done" => report = Nothing
    /\ pc = "tip" => bonds_result = NotYet /\ active_result = NotYet /\ recent = NoBlock

IInv == TypeOK /\ AnswersAreFromTheChain /\ ReportIsOfTheAnswers

(* Somebody was bonded at the block of the second answer and not at that of  *)
(* the first, because the two answers are of different blocks or because the *)
(* first one could not be read.                                              *)
SomebodyMissing == Validators(active_result) \ Validators(bonds_result) # {}

(* The subtraction of network_consensus_command goes below zero only if a    *)
(* validator left (or joined, if the answers are out of order) between the   *)
(* two blocks, or the list of bonds could not be read: never for one block.  *)
UnderflowNeedsTwoBlocks ==
    \/ pc = "panicked" /\ command = "network-consensus"
    \/ report.kind = "consensus" /\ report.quarantine = Wrapped
    => SomebodyMissing /\ active_result # bonds_result

(* The same for the contradictory report of validator_status_command, which  *)
(* calls a validator active that it says is not bonded.                      *)
ContradictionNeedsTwoBlocks ==
    report.kind = "validator" /\ report.bonded = "NOT BONDED" /\ report.status = "ACTIVE"
    => /\ public_key \in Validators(active_result) \ Validators(bonds_result)
       /\ active_result # bonds_result

(* The tip lies in the epoch reported for it, what went by and what remains  *)
(* make up the epoch, and the recent blocks, asked for at the same time but  *)
(* not at the same block, are of the same epoch or a later one.              *)
EpochContainsTip ==
    report.kind = "epoch" =>
        /\ report.first <= current_block /\ current_block <= report.last
        /\ report.into >= 0 /\ report.remaining >= 1
        /\ report.into + report.remaining = epoch_length
        /\ current_block + report.remaining = report.last + 1
        /\ report.recent_epoch >= report.number

(* The extent of a defect, and no merit of the code.                          *)
(* VALIDATOR4_BONDING_GUIDE.md, line 127, expects QUARANTINE of a validator   *)
(* "immediately after bonding", when it is bonded and not active.  The code   *)
(* reads both answers for the bonds of their block (parse_validator_data),    *)
(* and so calls it active at every block: QUARANTINE is reported only from    *)
(* answers of two blocks or from a list that could not be read.               *)
QuarantineNeedsTwoBlocks ==
    \/ report.kind = "validator" /\ report.status = "QUARANTINE"
    \/ report.kind = "consensus" /\ report.quarantine # 0
    => active_result # bonds_result

=============================================================================
