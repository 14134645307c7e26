--------------------------- MODULE LoadTestProofs ---------------------------
(***************************************************************************)
(* Proofs about LoadTest for any number of tests, any arguments, integers  *)
(* of any width and any chain.                                             *)
(***************************************************************************)
EXTENDS LoadTest, TLAPS

USE ArgumentsAssumption, WidthAssumption

\* Multiples grow with their factor.
LEMMA TimesGrows ==
  ASSUME NEW a \in Nat, NEW b \in Nat, NEW c \in Nat, a <= b
  PROVE  a * c \in Nat /\ b * c \in Nat /\ a * c <= b * c
<1>1. b = a + (b - a) /\ b - a \in Nat
  OBVIOUS
<1>2. PICK d \in Nat : b = a + d
  BY <1>1
<1>3. (a + d) * c = a * c + d * c
  OBVIOUS
<1>4. a * c \in Nat /\ d * c \in Nat
  OBVIOUS
<1>5. QED
  BY <1>2, <1>3, <1>4

\* As many intervals as are attempted fit into the timeout.
LEMMA AttemptsFit ==
  ASSUME NEW t \in Nat, NEW n \in Nat
  PROVE  /\ t \div AtLeastOne(n) \in Nat
         /\ (t \div AtLeastOne(n)) * n \in Nat
         /\ (t \div AtLeastOne(n)) * n <= t
<1> DEFINE c == AtLeastOne(n)
           q == t \div c
<1>1. c \in Nat /\ c >= 1 /\ n <= c
  BY DEF AtLeastOne
<1> HIDE DEF c
<1>2. q \in Int /\ c * q <= t /\ t < c * q + c
  BY <1>1
<1> HIDE DEF q
<1>3. q \in Nat
  <2> SUFFICES ASSUME q <= -1 PROVE FALSE
    BY <1>2
  <2>1. c * q <= c * (-1)
    BY <1>1, <1>2
  <2>2. QED
    BY <1>1, <1>2, <2>1
<1>4. n * q \in Nat /\ n * q <= c * q
  BY <1>1, <1>3, TimesGrows
<1>5. q * n = n * q
  BY <1>3
<1>6. QED
  BY <1>1, <1>2, <1>3, <1>4, <1>5 DEF q, c

\* A remainder is no larger than what it is taken of.
LEMMA Remainder ==
  ASSUME NEW n \in Nat, NEW m \in Nat \ {0}
  PROVE  n % m \in Nat /\ n % m <= n
<1>1. n % m \in 0..(m - 1) /\ (n < m => n % m = n)
  OBVIOUS
<1>2. CASE n < m
  BY <1>1, <1>2
<1>3. CASE ~(n < m)
  BY <1>1, <1>3
<1>4. QED
  BY <1>2, <1>3

LEMMA ArgumentsAreNatural ==
  ASSUME TypeOK
  PROVE  /\ args.num_tests \in Nat /\ args.check_interval \in Nat
         /\ args.inclusion_timeout \in Nat /\ args.finalization_timeout \in Nat
         /\ args.chain_depth \in Nat
         /\ MaxInclusionAttempts \in Nat /\ MaxFinalizationAttempts \in Nat
<1>1. /\ args.num_tests \in Nat /\ args.check_interval \in Nat
      /\ args.inclusion_timeout \in Nat /\ args.finalization_timeout \in Nat
      /\ args.chain_depth \in Nat
  BY DEF TypeOK, LoadTestArgs
<1>2. QED
  BY <1>1, AttemptsFit, Remainder DEF MaxInclusionAttempts, MaxFinalizationAttempts

\* The attempts that are left of more than 32 bits fit into the timeout as well.
LEMMA FinalizationFits ==
  ASSUME TypeOK
  PROVE  /\ MaxFinalizationAttempts * args.check_interval \in Nat
         /\ MaxFinalizationAttempts * args.check_interval <= args.finalization_timeout
<1> DEFINE q == args.finalization_timeout \div AtLeastOne(args.check_interval)
<1>1. /\ args.check_interval \in Nat /\ args.finalization_timeout \in Nat
      /\ MaxFinalizationAttempts \in Nat
  BY ArgumentsAreNatural
<1>2. q \in Nat /\ q * args.check_interval \in Nat
      /\ q * args.check_interval <= args.finalization_timeout
  BY <1>1, AttemptsFit
<1>3. MaxFinalizationAttempts <= q
  BY <1>2, Remainder DEF MaxFinalizationAttempts
<1> HIDE DEF q
<1>4. QED
  BY <1>1, <1>2, <1>3, TimesGrows

-----------------------------------------------------------------------------
LEMMA InitInv == Init => IInv
<1> SUFFICES ASSUME Init PROVE IInv
  OBVIOUS
<1>1. TypeOK
  BY DEF Init, TypeOK, Steps, NoBlock
<1>2. TestsAreSequential
  BY DEF Init, TestsAreSequential
<1>3. BlocksAreOwn
  BY DEF Init, BlocksAreOwn
<1>4. SleepsAreCounted
  BY DEF Init, SleepsAreCounted
<1>5. QED
  BY <1>1, <1>2, <1>3, <1>4 DEF IInv

LEMMA BranchesAreSequences ==
  ASSUME TypeOK, NEW branch \in Branches
  PROVE  branch \in Seq(Nat)
<1>1. CASE branch = <<>>
  BY <1>1
<1>2. CASE \E b \in DOMAIN blocks : branch = blocks[b].branch
  <2>1. PICK b \in DOMAIN blocks : branch = blocks[b].branch
    BY <1>2
  <2>2. blocks \in Seq(Block)
    BY DEF TypeOK
  <2>3. blocks[b] \in Block
    BY <2>2
  <2>4. QED
    BY <2>1, <2>3 DEF Block
<1>3. QED
  BY <1>1, <1>2 DEF Branches

\* What is final stays final, and blocks keep their transfers.
LEMMA NetworkKeeps ==
  ASSUME TypeOK, Network
  PROVE  /\ blocks' \in Seq(Block) /\ main' \in Seq(Nat) /\ final' \in 0..Len(main')
         /\ FinalBlocks \subseteq FinalBlocks'
         /\ DOMAIN blocks \subseteq DOMAIN blocks'
         /\ \A b \in DOMAIN blocks : blocks'[b] = blocks[b]
         /\ UNCHANGED <<args, pc, test_num, attempts, waited, block_hash, results, live>>
<1>0. UNCHANGED <<args, pc, test_num, attempts, waited, block_hash, results, live>>
  BY DEF Network, NewBlock, ForkChoice, Finalise, loop
<1>1. CASE NewBlock
  <2>1. PICK branch \in Branches, t \in live \cup {0} :
          blocks' = Append(blocks, [transfer |-> t,
                                    branch |-> Append(branch, Len(blocks) + 1)])
    BY <1>1 DEF NewBlock
  <2>2. branch \in Seq(Nat) /\ t \in Nat
    BY <2>1, BranchesAreSequences DEF TypeOK
  <2>3. [transfer |-> t, branch |-> Append(branch, Len(blocks) + 1)] \in Block
    BY <2>2 DEF TypeOK, Block
  <2>4. /\ blocks' \in Seq(Block) /\ DOMAIN blocks \subseteq DOMAIN blocks'
        /\ \A b \in DOMAIN blocks : blocks'[b] = blocks[b]
    BY <2>1, <2>3 DEF TypeOK
  <2>5. UNCHANGED <<main, final>>
    BY <1>1 DEF NewBlock
  <2>6. QED
    BY <1>0, <2>4, <2>5 DEF TypeOK, FinalBlocks
<1>2. CASE ForkChoice
  <2>1. PICK branch \in Branches : Extends(branch, SubSeq(main, 1, final)) /\ main' = branch
    BY <1>2 DEF ForkChoice
  <2>2. branch \in Seq(Nat) /\ UNCHANGED <<blocks, final>>
    BY <1>2, <2>1, BranchesAreSequences DEF ForkChoice
  <2>3. /\ main \in Seq(Nat) /\ final \in 0..Len(main)
        /\ Len(SubSeq(main, 1, final)) = final
        /\ \A i \in 1..final : SubSeq(main, 1, final)[i] = main[i]
    BY DEF TypeOK
  <2>4. final <= Len(branch) /\ \A i \in 1..final : branch[i] = main[i]
    <3>1. SubSeq(main, 1, final) \in Seq(Nat)
      BY <2>3
    <3>2. DOMAIN SubSeq(main, 1, final) = 1..final
      BY <3>1, <2>3
    <3>3. QED
      BY <2>1, <2>3, <3>2 DEF Extends
  <2>5. QED
    BY <1>0, <2>1, <2>2, <2>3, <2>4 DEF TypeOK, FinalBlocks
<1>3. CASE Finalise
  <2>1. final' = final + 1 /\ final < Len(main) /\ UNCHANGED <<blocks, main>>
    BY <1>3 DEF Finalise
  <2>2. final' \in 0..Len(main) /\ 1..final \subseteq 1..final'
    BY <2>1 DEF TypeOK
  <2>3. QED
    BY <1>0, <2>1, <2>2 DEF TypeOK, FinalBlocks
<1>4. QED
  BY <1>1, <1>2, <1>3 DEF Network

LEMMA NetworkInv ==
  ASSUME IInv, Network
  PROVE  IInv'
<1>1. /\ blocks' \in Seq(Block) /\ main' \in Seq(Nat) /\ final' \in 0..Len(main')
      /\ FinalBlocks \subseteq FinalBlocks'
      /\ DOMAIN blocks \subseteq DOMAIN blocks'
      /\ \A b \in DOMAIN blocks : blocks'[b] = blocks[b]
      /\ UNCHANGED <<args, pc, test_num, attempts, waited, block_hash, results, live>>
  BY NetworkKeeps DEF IInv
<1>2. TypeOK'
  BY <1>1 DEF IInv, TypeOK
<1>3. TestsAreSequential'
  BY <1>1 DEF IInv, TestsAreSequential, AmountPanics
<1>4. BlocksAreOwn'
  BY <1>1 DEF IInv, BlocksAreOwn
<1>5. SleepsAreCounted'
  BY <1>1 DEF IInv, SleepsAreCounted, MaxInclusionAttempts, MaxFinalizationAttempts
<1>6. QED
  BY <1>2, <1>3, <1>4, <1>5 DEF IInv

\* The command ends, or is left waiting, without another result.
LEMMA EndInv ==
  ASSUME IInv,
         \/ pc' \in {"failed", "stuck"}
         \/ pc = "starting" /\ args.num_tests = 0 /\ pc' = "panicked"
         \/ pc = "deploying" /\ AmountPanics /\ pc' = "panicked",
         UNCHANGED <<args, test_num, block_hash, results, blocks, main, final>>,
         live' = live \/ (live' = live \cup {test_num} /\ ~AmountPanics /\ pc' # "panicked"),
         attempts' \in Nat, waited' \in Nat
  PROVE  IInv'
<1>0. UNCHANGED AmountPanics
  BY DEF AmountPanics
<1>1. TypeOK'
  BY DEF IInv, TypeOK, Ends
<1>2. TestsAreSequential'
  <2>1. pc = "deploying" /\ AmountPanics => results = <<>> /\ live = 1..Len(results)
    <3>1. pc = "deploying" => live = 1..Len(results)
      BY DEF IInv, TestsAreSequential
    <3>2. AmountPanics => live = {}
      BY DEF IInv, TestsAreSequential
    <3>3. 1..Len(results) = {} => results = <<>>
      <4>1. results \in Seq(TestResult) /\ Len(results) \in Nat
        BY DEF IInv, TypeOK
      <4>2. Len(results) # 0 => 1 \in 1..Len(results)
        BY <4>1
      <4> QED
        BY <4>1, <4>2
    <3> QED
      BY <3>1, <3>2, <3>3
  <2> QED
    BY <1>0, <2>1 DEF IInv, TestsAreSequential
<1>3. BlocksAreOwn'
  BY DEF IInv, BlocksAreOwn, FinalBlocks
<1>4. SleepsAreCounted'
  BY DEF IInv, SleepsAreCounted
<1>5. QED
  BY <1>1, <1>2, <1>3, <1>4 DEF IInv

\* One more attempt for finality, that does not end the command.
LEMMA NextAttemptInv ==
  ASSUME IInv, pc = "finalizing", NEW last \in {"checking", "failed"}, NextAttempt(last)
  PROVE  IInv'
<1> DEFINE M == MaxFinalizationAttempts
           ci == args.check_interval
<1>1. /\ UNCHANGED <<args, test_num, block_hash, results, live, blocks, main, final>>
      /\ attempts' = attempts + 1 /\ attempts \in Nat /\ waited \in Nat
      /\ M \in Nat /\ ci \in Nat /\ UNCHANGED M
  BY ArgumentsAreNatural DEF IInv, NextAttempt, TypeOK, chain, MaxFinalizationAttempts
<1>2. /\ waited <= attempts * ci /\ waited <= M * ci
      /\ attempts * ci \in Nat /\ (attempts + 1) * ci = attempts * ci + ci
  BY <1>1 DEF IInv, SleepsAreCounted
<1>3. CASE attempts + 1 >= M
  <2>1. pc' = last /\ waited' = waited
    BY <1>1, <1>3 DEF NextAttempt
  <2>2. TypeOK'
    BY <1>1, <2>1 DEF IInv, TypeOK, Steps, Ends
  <2>3. TestsAreSequential' /\ BlocksAreOwn'
    BY <1>1, <2>1 DEF IInv, TestsAreSequential, AmountPanics, BlocksAreOwn, FinalBlocks
  <2>4. waited' <= attempts' * ci /\ waited' <= M * ci
    BY <1>1, <1>2, <2>1
  <2>5. SleepsAreCounted'
    BY <1>1, <2>1, <2>4 DEF SleepsAreCounted
  <2>6. QED
    BY <2>2, <2>3, <2>5 DEF IInv
<1>4. CASE ~(attempts + 1 >= M)
  <2>1. pc' = pc /\ waited' = waited + ci
    BY <1>1, <1>4 DEF NextAttempt
  <2>2. TypeOK'
    BY <1>1, <2>1 DEF IInv, TypeOK
  <2>3. TestsAreSequential' /\ BlocksAreOwn'
    BY <1>1, <2>1 DEF IInv, TestsAreSequential, AmountPanics, BlocksAreOwn, FinalBlocks
  <2>4. waited' <= (attempts + 1) * ci
    BY <1>1, <1>2, <2>1
  <2>5. (attempts + 1) * ci <= M * ci /\ M * ci \in Nat /\ (attempts + 1) * ci \in Nat
    BY <1>1, <1>4, TimesGrows
  <2>6. waited' <= attempts' * ci /\ waited' <= M * ci /\ attempts' < M
    BY <1>1, <1>4, <2>1, <2>4, <2>5
  <2>7. SleepsAreCounted'
    BY <1>1, <2>1, <2>6 DEF SleepsAreCounted
  <2>8. QED
    BY <2>2, <2>3, <2>7 DEF IInv
<1>5. QED
  BY <1>3, <1>4

\* A result: its block has the transfer, and a SUCCESS is of a final block.
LEMMA RecordInv ==
  ASSUME IInv, pc \in {"finalizing", "checking"},
         NEW verdict \in {"SUCCESS", "TIMEOUT", "ORPHANED"}, NEW on_main_chain \in BOOLEAN,
         verdict = "SUCCESS" => block_hash \in FinalBlocks,
         Record(verdict, on_main_chain)
  PROVE  IInv'
<1> DEFINE r == [block_hash |-> block_hash, verdict |-> verdict,
                 on_main_chain |-> on_main_chain]
<1>1. /\ UNCHANGED <<args, block_hash, live, blocks, main, final>>
      /\ results' = Append(results, r) /\ results \in Seq(TestResult) /\ r \in TestResult
      /\ test_num \in Nat /\ args.num_tests \in Nat
      /\ Len(results) = test_num - 1 /\ test_num <= args.num_tests /\ live = 1..test_num
      /\ live # {} => ~AmountPanics
  BY ArgumentsAreNatural
  DEF IInv, Record, chain, TypeOK, TestResult, TestsAreSequential
<1>2. /\ results' \in Seq(TestResult) /\ Len(results') = test_num
      /\ DOMAIN results' = 1..test_num /\ DOMAIN results = 1..(test_num - 1)
      /\ \A i \in 1..(test_num - 1) : results'[i] = results[i]
      /\ results'[test_num] = r
  BY <1>1
<1> HIDE DEF r
<1>3. BlocksAreOwn'
  <2>1. block_hash \in DOMAIN blocks /\ blocks[block_hash].transfer = test_num
    BY DEF IInv, BlocksAreOwn
  <2>2. pc' \in {"deploying", "done"}
    BY DEF Record, Enter
  <2>3. ASSUME NEW i \in DOMAIN results'
        PROVE  /\ results'[i].block_hash \in DOMAIN blocks
               /\ blocks[results'[i].block_hash].transfer = i
               /\ results'[i].verdict = "SUCCESS" => results'[i].block_hash \in FinalBlocks
    <3>1. CASE i \in 1..(test_num - 1)
      BY <1>2, <3>1 DEF IInv, BlocksAreOwn
    <3>2. CASE i = test_num
      BY <1>2, <2>1, <3>2 DEF r
    <3>3. QED
      BY <1>1, <1>2, <3>1, <3>2
  <2>4. QED
    BY <1>1, <2>2, <2>3 DEF BlocksAreOwn, FinalBlocks
<1>4. CASE test_num < args.num_tests
  <2>1. pc' = "deploying" /\ test_num' = test_num + 1 /\ attempts' = 0 /\ waited' = 0
    BY <1>4 DEF Record, Enter
  <2>2. TypeOK'
    BY <1>1, <1>2, <2>1 DEF IInv, TypeOK, Steps
  <2>3. TestsAreSequential' /\ SleepsAreCounted'
    BY <1>1, <1>2, <1>4, <2>1 DEF TestsAreSequential, AmountPanics, SleepsAreCounted
  <2>4. QED
    BY <1>3, <2>2, <2>3 DEF IInv
<1>5. CASE ~(test_num < args.num_tests)
  <2>1. pc' = "done" /\ UNCHANGED <<test_num, attempts, waited>>
    BY <1>5 DEF Record, loop
  <2>2. TypeOK'
    BY <1>1, <1>2, <2>1 DEF IInv, TypeOK, Ends
  <2>3. TestsAreSequential' /\ SleepsAreCounted'
    BY <1>1, <1>2, <1>5, <2>1 DEF TestsAreSequential, AmountPanics, SleepsAreCounted
  <2>4. QED
    BY <1>3, <2>2, <2>3 DEF IInv
<1>6. QED
  BY <1>4, <1>5

\* A block found has the transfer that is looked for.
LEMMA IncludingInv ==
  ASSUME IInv, Included \/ NotIncluded
  PROVE  IInv'
<1> DEFINE M == MaxInclusionAttempts
           ci == args.check_interval
<1>1. /\ UNCHANGED <<args, test_num, results, live, blocks, main, final>>
      /\ pc = "including" /\ attempts \in Nat /\ waited \in Nat /\ attempts < M
      /\ M \in Nat /\ ci \in Nat /\ UNCHANGED M
      /\ MaxFinalizationAttempts * ci \in Nat
  <2>1. M \in Nat /\ ci \in Nat /\ MaxFinalizationAttempts \in Nat
    BY ArgumentsAreNatural DEF IInv
  <2>2. MaxFinalizationAttempts * ci \in Nat
    BY <2>1, TimesGrows
  <2>3. QED
    BY <2>1, <2>2 DEF IInv, Included, NotIncluded, TypeOK, chain, MaxInclusionAttempts
<1>2. CASE Included
  <2>1. /\ block_hash' \in DOMAIN blocks /\ blocks[block_hash'].transfer = test_num
        /\ pc' = "finalizing" /\ attempts' = 0 /\ waited' = 0
    BY <1>2 DEF Included, Enter
  <2>2. block_hash' \in Nat
    BY <2>1 DEF IInv, TypeOK
  <2>3. TypeOK'
    BY <1>1, <2>1, <2>2 DEF IInv, TypeOK, Steps
  <2>4. TestsAreSequential' /\ BlocksAreOwn'
    BY <1>1, <2>1 DEF IInv, TestsAreSequential, AmountPanics, BlocksAreOwn, FinalBlocks
  <2>5. 0 * ci = 0 /\ UNCHANGED MaxFinalizationAttempts
    BY <1>1 DEF MaxFinalizationAttempts
  <2>6. SleepsAreCounted'
    BY <1>1, <2>1, <2>5 DEF SleepsAreCounted
  <2>7. QED
    BY <2>3, <2>4, <2>6 DEF IInv
<1>3. CASE NotIncluded
  <2>1. /\ attempts' = attempts + 1 /\ waited' = waited + ci /\ UNCHANGED <<pc, block_hash>>
    BY <1>3 DEF NotIncluded
  <2>2. TypeOK'
    BY <1>1, <2>1 DEF IInv, TypeOK
  <2>3. TestsAreSequential' /\ BlocksAreOwn'
    BY <1>1, <2>1 DEF IInv, TestsAreSequential, AmountPanics, BlocksAreOwn, FinalBlocks
  <2>4. waited = attempts * ci /\ (attempts + 1) * ci = attempts * ci + ci
    BY <1>1 DEF IInv, SleepsAreCounted
  <2>5. SleepsAreCounted'
    BY <1>1, <2>1, <2>4 DEF SleepsAreCounted
  <2>6. QED
    BY <2>2, <2>3, <2>5 DEF IInv
<1>4. QED
  BY <1>2, <1>3

\* The first test begins, or a transfer is taken by the node.
LEMMA BeginInv ==
  ASSUME IInv, Start \/ Deploy
  PROVE  IInv'
<1>1. /\ UNCHANGED <<args, block_hash, results, blocks, main, final>>
      /\ attempts' = 0 /\ waited' = 0 /\ args.num_tests \in Nat /\ test_num \in Nat
      /\ MaxInclusionAttempts \in Nat /\ UNCHANGED <<MaxInclusionAttempts, AmountPanics>>
      /\ args.check_interval \in Nat
  BY ArgumentsAreNatural
  DEF IInv, Start, Deploy, Enter, chain, TypeOK, MaxInclusionAttempts, AmountPanics
<1>2. BlocksAreOwn'
  BY <1>1 DEF IInv, BlocksAreOwn, FinalBlocks, Start, Deploy, Enter
<1>3. CASE Start
  <2>1. /\ pc = "starting" /\ pc' = "deploying" /\ test_num' = 1 /\ UNCHANGED live
        /\ args.num_tests >= 1
    BY <1>1, <1>3 DEF Start, Enter
  <2>2. TypeOK'
    BY <1>1, <2>1 DEF IInv, TypeOK, Steps
  <2>3. TestsAreSequential' /\ SleepsAreCounted'
    BY <1>1, <2>1 DEF IInv, TestsAreSequential, SleepsAreCounted
  <2>4. QED
    BY <1>2, <2>2, <2>3 DEF IInv
<1>4. CASE Deploy
  <2>1. /\ pc = "deploying" /\ pc' = "including" /\ UNCHANGED test_num
        /\ live' = live \cup {test_num} /\ ~AmountPanics
    BY <1>4 DEF Deploy, Enter
  <2>2. Len(results) = test_num - 1 /\ test_num <= args.num_tests /\ live = 1..(test_num - 1)
    BY <2>1 DEF IInv, TestsAreSequential
  <2>3. live' = 1..test_num /\ Len(results) \in Nat
    BY <1>1, <2>1, <2>2 DEF IInv, TypeOK
  <2>4. TypeOK'
    BY <1>1, <2>1, <2>3 DEF IInv, TypeOK, Steps
  <2>5. TestsAreSequential'
    BY <1>1, <2>1, <2>2, <2>3 DEF TestsAreSequential
  <2>6. 0 * args.check_interval = 0
    BY <1>1
  <2>7. SleepsAreCounted'
    BY <1>1, <2>1, <2>6 DEF SleepsAreCounted
  <2>8. QED
    BY <1>2, <2>4, <2>5, <2>7 DEF IInv
<1>5. QED
  BY <1>3, <1>4

LEMMA StepInv == IInv /\ [Next]_vars => IInv'
<1> SUFFICES ASSUME IInv, [Next]_vars PROVE IInv'
  OBVIOUS
<1>1. CASE Network
  BY <1>1, NetworkInv
<1>2. CASE Start \/ Deploy
  BY <1>2, BeginInv
<1>3. CASE \/ StartFails \/ NoTests \/ AmountOverflow \/ DeployFails \/ InclusionFails
           \/ FinalizationFails \/ CheckFails \/ NeverAnswered
  <2>1. \/ pc' \in {"failed", "stuck"}
        \/ pc = "starting" /\ args.num_tests = 0 /\ pc' = "panicked"
        \/ pc = "deploying" /\ AmountPanics /\ pc' = "panicked"
    BY <1>3 DEF StartFails, NoTests, AmountOverflow, DeployFails, InclusionFails,
       FinalizationFails, CheckFails, NeverAnswered
  <2>2. UNCHANGED <<args, test_num, block_hash, results, blocks, main, final, attempts, waited>>
    BY <1>3 DEF StartFails, NoTests, AmountOverflow, DeployFails, InclusionFails,
       FinalizationFails, CheckFails, NeverAnswered, loop, chain
  <2>3. live' = live \/ (live' = live \cup {test_num} /\ ~AmountPanics /\ pc' # "panicked")
    BY <1>3 DEF StartFails, NoTests, AmountOverflow, DeployFails, InclusionFails,
       FinalizationFails, CheckFails, NeverAnswered
  <2>4. QED
    BY <2>1, <2>2, <2>3, EndInv DEF IInv, TypeOK
<1>4. CASE Included \/ NotIncluded
  BY <1>4, IncludingInv
<1>5. CASE Finalized
  BY <1>5, RecordInv DEF Finalized
<1>6. CASE NotFinalized \/ RequestFails
  BY <1>6, NextAttemptInv DEF NotFinalized, RequestFails
<1>7. CASE OnChain \/ Orphaned
  BY <1>7, RecordInv DEF OnChain, Orphaned
<1>8. CASE UNCHANGED vars
  BY <1>8 DEF vars, IInv, TypeOK, TestsAreSequential, BlocksAreOwn, SleepsAreCounted,
     FinalBlocks, MaxInclusionAttempts, MaxFinalizationAttempts, AmountPanics
<1>9. QED
  BY <1>1, <1>2, <1>3, <1>4, <1>5, <1>6, <1>7, <1>8 DEF Next, Test

-----------------------------------------------------------------------------
\* Tests are sequential, their blocks their own, their sleeps counted.
THEOREM Invariance == Spec => []IInv
BY InitInv, StepInv, PTL DEF Spec

\* A SUCCESS stays one for any fork choice and any number of tests.
THEOREM SuccessStands == Spec => []SuccessIsForever
<1>1. IInv => SuccessIsForever
  BY DEF IInv, BlocksAreOwn, SuccessIsForever
<1>2. QED
  BY <1>1, Invariance, PTL

\* No block speaks for two tests.
THEOREM BlocksAreNotShared == Spec => []EveryTestHasItsOwnBlock
<1>1. IInv => EveryTestHasItsOwnBlock
  BY DEF IInv, BlocksAreOwn, EveryTestHasItsOwnBlock
<1>2. QED
  BY <1>1, Invariance, PTL

\* The sleeps of a loop fit into its timeout, for any interval and timeout.
THEOREM BoundedWaits == Spec => []WaitsAreBounded
<1>1. ASSUME IInv PROVE WaitsAreBounded
  <2> DEFINE ci == args.check_interval
  <2>1. /\ ci \in Nat /\ args.inclusion_timeout \in Nat /\ args.finalization_timeout \in Nat
        /\ MaxInclusionAttempts \in Nat /\ attempts \in Nat /\ waited \in Nat
    BY <1>1, ArgumentsAreNatural DEF IInv, TypeOK
  <2>2. /\ MaxInclusionAttempts * ci \in Nat /\ MaxInclusionAttempts * ci <= args.inclusion_timeout
        /\ MaxFinalizationAttempts * ci \in Nat
        /\ MaxFinalizationAttempts * ci <= args.finalization_timeout
    BY <1>1, <2>1, AttemptsFit, FinalizationFits DEF IInv, MaxInclusionAttempts
  <2>3. pc = "including" =>
          /\ waited = attempts * ci /\ attempts * ci \in Nat
          /\ attempts * ci <= MaxInclusionAttempts * ci
    BY <1>1, <2>1, TimesGrows DEF IInv, SleepsAreCounted
  <2>4. pc \in {"finalizing", "checking"} => waited <= MaxFinalizationAttempts * ci
    BY <1>1 DEF IInv, SleepsAreCounted
  <2>5. QED
    BY <2>1, <2>2, <2>3, <2>4 DEF WaitsAreBounded
<1>2. QED
  BY <1>1, Invariance, PTL

\* Finality is as good as a place on the main chain, for chains up to the depth that is
\* sent.  Nothing is said of a --chain-depth that is sent as a negative one.
THEOREM FinalityCounts == Spec => FinalIsNotCalledOrphaned
<1>1. ASSUME IInv, [Next]_vars, pc = "checking", results' # results,
             block_hash \in FinalBlocks, Len(main) <= DepthSent
      PROVE  results'[Len(results')].on_main_chain
  <2>1. DepthsShown = {DepthSent} /\ block_hash \in Recent(DepthSent)
    <3>1. DepthSent \in Int
      BY <1>1, ArgumentsAreNatural DEF IInv, DepthSent
    <3>2. Len(main) \in Nat /\ DOMAIN main = 1..Len(main) /\ final \in 0..Len(main)
      BY <1>1 DEF IInv, TypeOK
    <3>3. DepthsShown = {DepthSent}
      BY <1>1, <3>1, <3>2 DEF DepthsShown
    <3>4. PICK i \in 1..final : block_hash = main[i]
      BY <1>1 DEF FinalBlocks
    <3>5. i \in DOMAIN main /\ i > Len(main) - DepthSent
      BY <1>1, <3>1, <3>2, <3>4
    <3>6. QED
      BY <3>3, <3>4, <3>5 DEF Recent
  <2>2. OnChain
    BY <1>1, <2>1 DEF Next, Network, Test, vars, NewBlock, ForkChoice, Finalise, Start,
       StartFails, NoTests, AmountOverflow, Deploy, DeployFails, Included, NotIncluded,
       InclusionFails, Finalized, NotFinalized, RequestFails, FinalizationFails, Orphaned,
       CheckFails, NeverAnswered
  <2>3. results' = Append(results, [block_hash |-> block_hash, verdict |-> "TIMEOUT",
                                    on_main_chain |-> TRUE])
    BY <2>2 DEF OnChain, Record
  <2>4. results \in Seq(TestResult) /\ block_hash \in Nat
    BY <1>1 DEF IInv, TypeOK
  <2>5. QED
    BY <2>3, <2>4
<1>2. IInv /\ [Next]_vars =>
        [ /\ pc = "checking" /\ results' # results
          /\ block_hash \in FinalBlocks /\ Len(main) <= DepthSent
          => results'[Len(results')].on_main_chain ]_vars
  BY <1>1
<1>3. QED
  BY <1>2, Invariance, PTL DEF Spec, FinalIsNotCalledOrphaned

-----------------------------------------------------------------------------
\* The steps of all tests but one, and those of that one.
LEMMA OneTestLess ==
  ASSUME NEW k \in Nat, NEW p \in Nat
  PROVE  k * p \in Nat /\ (k >= 1 => (k - 1) * p \in Nat /\ k * p = (k - 1) * p + p)
<1>1. k * p \in Nat
  BY TimesGrows
<1>2. ASSUME k >= 1 PROVE (k - 1) * p \in Nat /\ k * p = (k - 1) * p + p
  <2>1. PICK m \in Nat : k = m + 1 /\ k - 1 = m
    BY <1>2
  <2>2. (m + 1) * p = m * p + p /\ m * p \in Nat
    BY TimesGrows
  <2> QED
    BY <2>1, <2>2
<1> QED
  BY <1>1, <1>2

\* Nothing but the tests uses up their steps.
LEMMA NetworkUsesNone ==
  ASSUME TypeOK, Network \/ UNCHANGED vars
  PROVE  StepsLeft' = StepsLeft
<1>1. UNCHANGED <<args, pc, test_num, attempts>>
  BY NetworkKeeps DEF vars
<1>2. MaxInclusionAttempts' = MaxInclusionAttempts
      /\ MaxFinalizationAttempts' = MaxFinalizationAttempts
  BY <1>1 DEF MaxInclusionAttempts, MaxFinalizationAttempts
<1> QED
  BY <1>1, <1>2 DEF StepsLeft, StepsOfThisTest, StepsPerTest

\* Each step of a test leads to a later one, to a later attempt, or to a later test.
LEMMA TestUsesSteps ==
  ASSUME IInv, Test \/ NeverAnswered
  PROVE  StepsLeft' \in 0..(StepsLeft - 1)
<1> DEFINE I == MaxInclusionAttempts
           F == AtLeastOne(MaxFinalizationAttempts)
           P == StepsPerTest
           others == (args.num_tests - test_num) * P
<1>1. /\ I \in Nat /\ MaxFinalizationAttempts \in Nat /\ F \in Nat \ {0} /\ P = I + F + 3
      /\ args.num_tests \in Nat /\ test_num \in Nat /\ attempts \in Nat
  BY ArgumentsAreNatural DEF IInv, TypeOK, AtLeastOne, StepsPerTest
<1>2. args' = args
  BY DEF Test, Start, StartFails, NoTests, AmountOverflow, Deploy, DeployFails, Included,
     NotIncluded, InclusionFails, Finalized, NotFinalized, RequestFails, FinalizationFails,
     OnChain, Orphaned, CheckFails, NextAttempt, Record, NeverAnswered
<1>3. I' = I /\ MaxFinalizationAttempts' = MaxFinalizationAttempts /\ F' = F /\ P' = P
  BY <1>2 DEF MaxInclusionAttempts, MaxFinalizationAttempts, StepsPerTest
<1>4. /\ pc \in Steps => test_num <= args.num_tests
      /\ pc = "including" => attempts <= I
      /\ pc = "finalizing" => attempts < F
  BY <1>1 DEF IInv, Steps, TestsAreSequential, SleepsAreCounted, AtLeastOne
<1>5. pc \in Steps => others \in Nat
  BY <1>1, <1>4, OneTestLess
<1>6. /\ pc = "starting"   => StepsLeft = others + 1
      /\ pc = "deploying"  => StepsLeft = others + P
      /\ pc = "including"  => StepsLeft = others + (P - 1 - attempts)
      /\ pc = "finalizing" => StepsLeft = others + (1 + F - attempts)
      /\ pc = "checking"   => StepsLeft = others + 1
  BY DEF StepsLeft, StepsOfThisTest, Steps
<1>7. /\ pc' = "deploying"  => StepsLeft' = others' + P
      /\ pc' = "including"  => StepsLeft' = others' + (P - 1 - attempts')
      /\ pc' = "finalizing" => StepsLeft' = others' + (1 + F - attempts')
      /\ pc' = "checking"   => StepsLeft' = others' + 1
      /\ pc' \notin Steps   => StepsLeft' = 0
  BY <1>3 DEF StepsLeft, StepsOfThisTest, Steps
<1>8. test_num' = test_num => others' = others
  BY <1>2, <1>3
<1>9. pc \in Steps /\ test_num < args.num_tests /\ test_num' = test_num + 1
        => others' \in Nat /\ others = others' + P
  <2>1. test_num < args.num_tests =>
          LET k == args.num_tests - test_num
          IN  (k - 1) * P \in Nat /\ k * P = (k - 1) * P + P
    BY <1>1, OneTestLess
  <2>2. test_num' = test_num + 1 => others' = ((args.num_tests - test_num) - 1) * P
    BY <1>1, <1>2, <1>3
  <2> QED
    BY <2>1, <2>2
<1> HIDE DEF others, P, F, I
<1>10. pc \in Steps => StepsLeft \in Nat \ {0}
  BY <1>1, <1>4, <1>5, <1>6 DEF Steps
<1>11. CASE pc' \notin Steps
  <2>1. pc \in Steps
    BY DEF Test, Start, StartFails, NoTests, AmountOverflow, Deploy, DeployFails, Included,
       NotIncluded, InclusionFails, Finalized, NotFinalized, RequestFails, FinalizationFails,
       OnChain, Orphaned, CheckFails, NeverAnswered, Steps
  <2> QED
    BY <1>7, <1>10, <1>11, <2>1
<1>12. CASE Start
  <2>1. pc = "starting" /\ pc' = "deploying" /\ test_num = 0 /\ test_num' = test_num + 1
        /\ test_num < args.num_tests
    BY <1>1, <1>12 DEF Start, Enter, IInv, TestsAreSequential
  <2> QED
    BY <1>1, <1>6, <1>7, <1>9, <2>1 DEF Steps
<1>13. CASE Deploy
  <2>1. pc = "deploying" /\ pc' = "including" /\ attempts' = 0 /\ test_num' = test_num
    BY <1>13 DEF Deploy, Enter
  <2> QED
    BY <1>1, <1>5, <1>6, <1>7, <1>8, <2>1 DEF Steps
<1>14. CASE Included
  <2>1. /\ pc = "including" /\ pc' = "finalizing" /\ attempts' = 0 /\ test_num' = test_num
        /\ attempts < I
    BY <1>14 DEF Included, Enter, I
  <2> QED
    BY <1>1, <1>5, <1>6, <1>7, <1>8, <2>1 DEF Steps
<1>15. CASE NotIncluded
  <2>1. /\ pc = "including" /\ pc' = "including" /\ attempts' = attempts + 1
        /\ test_num' = test_num /\ attempts < I
    BY <1>15 DEF NotIncluded, I
  <2> QED
    BY <1>1, <1>5, <1>6, <1>7, <1>8, <2>1 DEF Steps
<1>16. CASE NotFinalized \/ RequestFails
  <2>1. PICK last \in {"checking", "failed"} : pc = "finalizing" /\ NextAttempt(last)
    BY <1>16 DEF NotFinalized, RequestFails
  <2>2. /\ attempts' = attempts + 1 /\ test_num' = test_num
        /\ pc' = last \/ (pc' = "finalizing" /\ attempts' < F)
    BY <1>1, <2>1 DEF NextAttempt, F, AtLeastOne
  <2> QED
    BY <1>1, <1>4, <1>5, <1>6, <1>7, <1>8, <1>11, <2>1, <2>2 DEF Steps
<1>17. CASE Finalized \/ OnChain \/ Orphaned
  <2>1. /\ pc \in {"finalizing", "checking"}
        /\ IF test_num < args.num_tests
           THEN pc' = "deploying" /\ test_num' = test_num + 1
           ELSE pc' = "done"
    BY <1>17 DEF Finalized, OnChain, Orphaned, Record, Enter
  <2>2. CASE test_num < args.num_tests
    <3>1. pc' = "deploying" /\ test_num' = test_num + 1
      BY <2>1, <2>2
    <3>2. StepsLeft' = others
      BY <1>7, <1>9, <2>1, <2>2, <3>1 DEF Steps
    <3>3. others \in Nat
      BY <1>5, <2>1 DEF Steps
    <3>4. CASE pc = "finalizing"
      <4>1. StepsLeft = others + (1 + F - attempts) /\ attempts < F
        BY <1>4, <1>6, <3>4
      <4> QED
        BY <1>1, <3>2, <3>3, <4>1
    <3>5. CASE pc = "checking"
      BY <1>1, <1>6, <3>2, <3>3, <3>5
    <3> QED
      BY <2>1, <3>4, <3>5
  <2>3. CASE ~(test_num < args.num_tests)
    BY <1>11, <2>1, <2>3 DEF Steps
  <2> QED
    BY <2>2, <2>3
<1>18. CASE \/ StartFails \/ NoTests \/ AmountOverflow \/ DeployFails \/ InclusionFails
            \/ FinalizationFails \/ CheckFails \/ NeverAnswered
  BY <1>11, <1>18 DEF StartFails, NoTests, AmountOverflow, DeployFails, InclusionFails,
     FinalizationFails, CheckFails, NeverAnswered, Steps
<1> QED
  BY <1>12, <1>13, <1>14, <1>15, <1>16, <1>17, <1>18 DEF Test

\* The loops of all tests run out, for any arguments and whatever the network does:
\* what is left of AlwaysEnds without fairness.
THEOREM LoopsRunOut == Spec => StepsRunOut
<1> DEFINE RunsOut == IF Test \/ NeverAnswered THEN StepsLeft' \in 0..(StepsLeft - 1)
                                               ELSE StepsLeft' = StepsLeft
<1>1. ASSUME IInv, [Next]_vars PROVE [RunsOut]_vars
  BY <1>1, NetworkUsesNone, TestUsesSteps DEF Next, IInv
<1>2. IInv /\ [Next]_vars => [RunsOut]_vars
  BY <1>1
<1> QED
  BY <1>2, Invariance, PTL DEF Spec, StepsRunOut
=============================================================================
