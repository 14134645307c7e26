------------------------------ MODULE LoadTest ------------------------------
(***************************************************************************)
(* load_test_command of src/src/commands/load_test.rs: one transfer after  *)
(* the other is deployed, looked for until a block has it, and watched     *)
(* until that block is final or the time is up; in the latter case the     *)
(* main chain decides between a slow block and an orphan.  Blocks are made *)
(* on any branch, the node changes its main chain, and finalises a growing *)
(* part of it.  How a deploy picks its valid_after_block_number, on the    *)
(* one F1r3flyApi that all tests share, is TipFloor's subject.             *)
(*                                                                         *)
(* A definition commented as a variant is no part of the specification:    *)
(* it is the definition after it with a plausible slip in it.              *)
(***************************************************************************)
EXTENDS Integers, Sequences, FiniteSets

CONSTANTS Arguments,        \* the calls to look at
          U32, U64,         \* how many values the two unsigned types have, scaled down
          DUST_FACTOR,      \* dust per token, scaled down from 100,000,000
          MaxBlocks         \* bound on the blocks that are made

(* checked is how the binary was built: overflows panic, or wrap around. *)
LoadTestArgs == [num_tests : 0..(U32 - 1), amount : 0..(U64 - 1), chain_depth : 0..(U32 - 1),
                 check_interval : Nat, inclusion_timeout : Nat, finalization_timeout : Nat,
                 checked : BOOLEAN]

ASSUME WidthAssumption == U32 \in Nat \ {0} /\ U64 \in Nat \ {0} /\ DUST_FACTOR \in Nat \ {0}
ASSUME ArgumentsAssumption == Arguments \subseteq LoadTestArgs
ASSUME MaxBlocksAssumption == MaxBlocks \in Nat

VARIABLES args,
          pc,           \* the step of the current test; "done", "failed", "panicked", "stuck"
          test_num,
          attempts,     \* requests made in the current polling loop
          waited,       \* seconds slept in the current polling loop
          block_hash,   \* the block the current transfer was found in
          results,      \* the TestResults, with the verdict that was printed
          live,         \* environment: the transfers that reached the node
          blocks,       \* environment: every block made, with its branch
          main,         \* environment: the main chain, as numbers of blocks
          final         \* environment: how many blocks of main are final

loop == <<attempts, waited>>
chain == <<blocks, main, final>>
vars == <<args, pc, test_num, attempts, waited, block_hash, results, live,
          blocks, main, final>>

NoBlock == 0

Steps == {"starting", "deploying", "including", "finalizing", "checking"}
Ends == {"done", "failed", "panicked"}

(* A block has the transfer of one test, or of none (0), and closes a branch. *)
Block == [transfer : Nat, branch : Seq(Nat)]

Branches == {<<>>} \cup {blocks[b].branch : b \in DOMAIN blocks}

Extends(branch, prefix) ==
    Len(prefix) <= Len(branch) /\ \A i \in DOMAIN prefix : branch[i] = prefix[i]

FinalBlocks == {main[i] : i \in 1..final}

(* u64::max(1) keeps an interval of zero from dividing *)
AtLeastOne(n) == IF n < 1 THEN 1 ELSE n

Init == /\ args \in Arguments
        /\ pc = "starting" /\ test_num = 0
        /\ attempts = 0 /\ waited = 0 /\ block_hash = NoBlock /\ results = <<>>
        /\ live = {} /\ blocks = <<>> /\ main = <<>> /\ final = 0

-----------------------------------------------------------------------------
(* The network: a block on any branch, with a transfer the branch lacks. *)
NewBlock ==
    /\ Len(blocks) < MaxBlocks
    /\ \E branch \in Branches, t \in live \cup {0} :
          /\ t = 0 \/ \A i \in DOMAIN branch : blocks[branch[i]].transfer # t
          /\ blocks' = Append(blocks, [transfer |-> t,
                                       branch |-> Append(branch, Len(blocks) + 1)])
    /\ UNCHANGED <<args, pc, test_num, loop, block_hash, results, live, main, final>>

(* The fork choice keeps what is final. *)
ForkChoice ==
    /\ \E branch \in Branches : /\ Extends(branch, SubSeq(main, 1, final))
                                /\ main' = branch
    /\ UNCHANGED <<args, pc, test_num, loop, block_hash, results, live, blocks, final>>

Finalise ==
    /\ final < Len(main) /\ final' = final + 1
    /\ UNCHANGED <<args, pc, test_num, loop, block_hash, results, live, blocks, main>>

-----------------------------------------------------------------------------
(* Enter a step of run_single_test. *)
Enter(step) == pc' = step /\ attempts' = 0 /\ waited' = 0

(* The balances asked for at the start may be missing. *)
Start == /\ pc = "starting" /\ args.num_tests > 0
         /\ test_num' = 1 /\ Enter("deploying")
         /\ UNCHANGED <<args, block_hash, results, live, chain>>

(* A key that cannot be decoded ends the command before anything is sent. *)
StartFails == /\ pc = "starting"
              /\ pc' = "failed"
              /\ UNCHANGED <<args, test_num, loop, block_hash, results, live, chain>>

(* Without a test the summary divides by the number of results. *)
NoTests == /\ pc = "starting" /\ args.num_tests = 0
           /\ pc' = "panicked"
           /\ UNCHANGED <<args, test_num, loop, block_hash, results, live, chain>>

(* The contract is written before the node is asked: its amount is too large *)
(* for a build that checks.  Another one sends what is left of it, as        *)
(* transfer_command does (AmountSent of DeployAndWait).                      *)
AmountPanics == args.checked /\ args.amount * DUST_FACTOR >= U64

AmountOverflow == /\ pc = "deploying" /\ AmountPanics
                  /\ pc' = "panicked"
                  /\ UNCHANGED <<args, test_num, loop, block_hash, results, live, chain>>

Deploy == /\ pc = "deploying" /\ ~AmountPanics
          /\ live' = live \cup {test_num}
          /\ Enter("including")
          /\ UNCHANGED <<args, test_num, block_hash, results, chain>>

(* The transfer is in spite of it live if only the answer is lost. *)
DeployFails == /\ pc = "deploying" /\ ~AmountPanics
               /\ live' \in {live, live \cup {test_num}}
               /\ pc' = "failed"
               /\ UNCHANGED <<args, test_num, loop, block_hash, results, chain>>

(* wait_for_block_fast: a sleep after every request that finds nothing, the  *)
(* last one included.                                                        *)
MaxInclusionAttempts == args.inclusion_timeout \div AtLeastOne(args.check_interval)

Included ==
    /\ pc = "including" /\ attempts < MaxInclusionAttempts
    /\ \E b \in DOMAIN blocks : blocks[b].transfer = test_num /\ block_hash' = b
    /\ Enter("finalizing")
    /\ UNCHANGED <<args, test_num, results, live, chain>>

(* Variant: one attempt more. *)
NotIncludedOnceMore ==
    /\ pc = "including" /\ attempts <= MaxInclusionAttempts
    /\ attempts' = attempts + 1
    /\ waited' = waited + args.check_interval
    /\ UNCHANGED <<args, pc, test_num, block_hash, results, live, chain>>

NotIncluded ==
    /\ pc = "including" /\ attempts < MaxInclusionAttempts
    /\ attempts' = attempts + 1
    /\ waited' = waited + args.check_interval
    /\ UNCHANGED <<args, pc, test_num, block_hash, results, live, chain>>

(* The timeout, or any answer that is an error: `?` ends all tests. *)
InclusionFails ==
    /\ pc = "including"
    /\ pc' = "failed"
    /\ UNCHANGED <<args, test_num, loop, block_hash, results, live, chain>>

(* The end of a test, and the next one or the summary.  A missing balance    *)
(* is not an error.                                                          *)
Record(verdict, on_main_chain) ==
    /\ results' = Append(results, [block_hash |-> block_hash, verdict |-> verdict,
                                   on_main_chain |-> on_main_chain])
    /\ IF test_num < args.num_tests
       THEN test_num' = test_num + 1 /\ Enter("deploying")
       ELSE pc' = "done" /\ UNCHANGED <<test_num, loop>>
    /\ UNCHANGED <<args, block_hash, live, chain>>

(* F1r3flyApi::is_finalized counts its attempts in 32 bits. *)
MaxFinalizationAttempts ==
    (args.finalization_timeout \div AtLeastOne(args.check_interval)) % U32

(* Variant: a block on the main chain is taken for a final one. *)
FinalizedOnMain == /\ pc = "finalizing" /\ \E i \in DOMAIN main : main[i] = block_hash
                   /\ Record("SUCCESS", TRUE)

Finalized == /\ pc = "finalizing" /\ block_hash \in FinalBlocks
             /\ Record("SUCCESS", TRUE)

(* Variant: the sleep comes before the attempts are compared. *)
SleepFirst(last) ==
    /\ attempts' = attempts + 1
    /\ waited' = waited + args.check_interval
    /\ IF attempts' >= MaxFinalizationAttempts THEN pc' = last ELSE UNCHANGED pc
    /\ UNCHANGED <<args, test_num, block_hash, results, live, chain>>

(* One attempt is made even if none fits into the timeout. *)
NextAttempt(last) ==
    /\ attempts' = attempts + 1
    /\ IF attempts' >= MaxFinalizationAttempts
       THEN pc' = last /\ UNCHANGED waited
       ELSE waited' = waited + args.check_interval /\ UNCHANGED pc
    /\ UNCHANGED <<args, test_num, block_hash, results, live, chain>>

NotFinalized == /\ pc = "finalizing" /\ block_hash \notin FinalBlocks
                /\ NextAttempt("checking")

(* A request that fails is tried again; one that fails last ends all tests. *)
RequestFails == pc = "finalizing" /\ NextAttempt("failed")

(* So do a failed connection and an error message, at any attempt. *)
FinalizationFails ==
    /\ pc = "finalizing"
    /\ pc' = "failed"
    /\ UNCHANGED <<args, test_num, loop, block_hash, results, live, chain>>

(* Variant: one block less than was asked for. *)
RecentShort(depth) == {main[i] : i \in {j \in DOMAIN main : j > Len(main) - depth + 1}}

(* show_main_chain is answered with the newest blocks. *)
Recent(depth) == {main[i] : i \in {j \in DOMAIN main : j > Len(main) - depth}}

(* The depth goes out as a signed integer: the upper half of the values      *)
(* arrives negative, and what a node makes of that is not known.             *)
DepthSent == IF args.chain_depth < U32 \div 2 THEN args.chain_depth
             ELSE args.chain_depth - U32

DepthsShown == IF DepthSent >= 0 THEN {DepthSent} ELSE 0..Len(main)

OnChain == /\ pc = "checking" /\ \E depth \in DepthsShown : block_hash \in Recent(depth)
           /\ Record("TIMEOUT", TRUE)

(* Variant: an orphaned transfer is deployed again. *)
OrphanedRepeated == /\ pc = "checking"
                    /\ \E depth \in DepthsShown : block_hash \notin Recent(depth)
                    /\ Enter("deploying")
                    /\ UNCHANGED <<args, test_num, block_hash, results, live, chain>>

Orphaned == /\ pc = "checking" /\ \E depth \in DepthsShown : block_hash \notin Recent(depth)
            /\ Record("ORPHANED", FALSE)

CheckFails == /\ pc = "checking"
              /\ pc' = "failed"
              /\ UNCHANGED <<args, test_num, loop, block_hash, results, live, chain>>

(* A request that is never answered.  Neither the gRPC connections nor the   *)
(* HTTP client have a timeout, and nothing is polled while one is waited     *)
(* for.  The balances asked for at the start, and after a verdict but before *)
(* it is counted, belong to the step they are in.                            *)
NeverAnswered ==
    /\ pc \in Steps /\ ~(pc = "deploying" /\ AmountPanics)
    /\ pc' = "stuck"
    /\ \/ UNCHANGED live
       \/ pc = "deploying" /\ live' = live \cup {test_num}
    /\ UNCHANGED <<args, test_num, loop, block_hash, results, chain>>

Network == NewBlock \/ ForkChoice \/ Finalise

Test == \/ Start \/ StartFails \/ NoTests \/ AmountOverflow \/ Deploy \/ DeployFails
        \/ Included \/ NotIncluded \/ InclusionFails
        \/ Finalized \/ NotFinalized \/ RequestFails \/ FinalizationFails
        \/ OnChain \/ Orphaned \/ CheckFails

Next == Network \/ Test \/ NeverAnswered

Spec == Init /\ [][Next]_vars

(* A request is answered, or fails, or is never answered; every sleep ends. *)
FairSpec == Spec /\ WF_vars(Test)

-----------------------------------------------------------------------------
TestResult == [block_hash : Nat, verdict : {"SUCCESS", "TIMEOUT", "ORPHANED"},
               on_main_chain : BOOLEAN]

(* The shape of the state. *)
TypeOK == /\ args \in Arguments
          /\ pc \in Steps \cup Ends \cup {"stuck"}
          /\ test_num \in Nat /\ attempts \in Nat /\ waited \in Nat /\ block_hash \in Nat
          /\ results \in Seq(TestResult)
          /\ live \subseteq Nat
          /\ blocks \in Seq(Block) /\ main \in Seq(Nat) /\ final \in 0..Len(main)

(* A SUCCESS is for good: the block has the transfer of this very test and   *)
(* stays final, whatever the fork choice does while the other tests run.     *)
SuccessIsForever ==
    \A i \in DOMAIN results :
        results[i].verdict = "SUCCESS" =>
            /\ results[i].block_hash \in FinalBlocks
            /\ blocks[results[i].block_hash].transfer = i

(* No block speaks for two tests, although a late block of an earlier test   *)
(* may be made, or come onto the main chain, during a later one.             *)
EveryTestHasItsOwnBlock ==
    \A i, j \in DOMAIN results : i # j => results[i].block_hash # results[j].block_hash

(* The sleeps of a loop add up to no more than its timeout, for intervals of *)
(* zero and for timeouts below one interval as well.                         *)
WaitsAreBounded ==
    /\ pc = "including" => waited <= args.inclusion_timeout
    /\ pc \in {"finalizing", "checking"} => waited <= args.finalization_timeout

(* A block that became final after the last question about it is not counted *)
(* as an orphan, if the main chain is no longer than the depth that is asked *)
(* for: a longer one may have buried it, and a --chain-depth of half the     *)
(* values or more is sent as a negative depth, for which nothing is claimed. *)
FinalIsNotCalledOrphaned ==
    [][ /\ pc = "checking" /\ results' # results
        /\ block_hash \in FinalBlocks /\ Len(main) <= DepthSent
        => results'[Len(results')].on_main_chain ]_vars

(* Every load test ends or waits for an answer that never comes: no interval *)
(* or timeout, zero included, and no fork of the chain keeps it polling.     *)
AlwaysEnds == <>(pc \in Ends \cup {"stuck"})

(* What these rest on.  Tests run one after the other: those before the      *)
(* current one have a result, and only they and the current one are live.    *)
TestsAreSequential ==
    /\ pc = "starting" => test_num = 0
    /\ pc \in {"deploying", "including", "finalizing", "checking"} =>
          Len(results) = test_num - 1 /\ test_num <= args.num_tests
    /\ pc = "done" => Len(results) = args.num_tests
    /\ pc = "panicked" => args.num_tests = 0 \/ AmountPanics
    /\ live # {} => ~AmountPanics
    /\ pc \in {"starting", "panicked"} => results = <<>>
    /\ pc \in {"starting", "deploying", "done", "panicked"} => live = 1..Len(results)
    /\ pc \in {"including", "finalizing", "checking"} => live = 1..test_num

(* The block of a test has its transfer. *)
BlocksAreOwn ==
    /\ pc \in {"finalizing", "checking"} =>
          block_hash \in DOMAIN blocks /\ blocks[block_hash].transfer = test_num
    /\ \A i \in DOMAIN results :
          /\ results[i].block_hash \in DOMAIN blocks
          /\ blocks[results[i].block_hash].transfer = i
          /\ results[i].verdict = "SUCCESS" => results[i].block_hash \in FinalBlocks

SleepsAreCounted ==
    /\ pc = "including" => /\ waited = attempts * args.check_interval
                           /\ attempts <= MaxInclusionAttempts
    /\ pc \in {"finalizing", "checking"} =>
          /\ waited <= attempts * args.check_interval
          /\ waited <= MaxFinalizationAttempts * args.check_interval
    /\ pc = "finalizing" => attempts < MaxFinalizationAttempts \/ attempts = 0

IInv == TypeOK /\ TestsAreSequential /\ BlocksAreOwn /\ SleepsAreCounted

(* What a load test can still do at most, by its arguments alone: of each    *)
(* test a deploy, the requests of both loops and a look at the main chain.   *)
StepsPerTest == MaxInclusionAttempts + AtLeastOne(MaxFinalizationAttempts) + 3

StepsOfThisTest ==
    CASE pc = "starting"   -> 1
      [] pc = "deploying"  -> StepsPerTest
      [] pc = "including"  -> StepsPerTest - 1 - attempts
      [] pc = "finalizing" -> 1 + AtLeastOne(MaxFinalizationAttempts) - attempts
      [] pc = "checking"   -> 1
      [] OTHER             -> 0

StepsLeft == IF pc \notin Steps THEN 0
             ELSE (args.num_tests - test_num) * StepsPerTest + StepsOfThisTest

(* Every step of the tests uses up some of that, whatever the answers are    *)
(* and whether one comes, and nothing on the network gives any of it back.   *)
StepsRunOut ==
    [][IF Test \/ NeverAnswered THEN StepsLeft' \in 0..(StepsLeft - 1)
                                 ELSE StepsLeft' = StepsLeft]_vars
=============================================================================
