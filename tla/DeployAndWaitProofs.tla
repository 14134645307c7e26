------------------------- MODULE DeployAndWaitProofs -------------------------
(***************************************************************************)
(* Proofs about DeployAndWait for any blocks, callers and arguments, and  *)
(* for integers of any width.                                              *)
(***************************************************************************)
EXTENDS DeployAndWait, TLAPS

USE NoBlockAssumption, EntriesAssumption, ArgumentsAssumption, WidthsAssumption
    DEF CHECK_INTERVAL_SEC, RETRY_DELAY_SEC, Phases, Ends

\* Quotients of naturals: the number of attempts, and what it leaves of a timeout.
LEMMA Quotient ==
  ASSUME NEW t \in Nat, NEW p \in Nat \ {0}
  PROVE  /\ t \div p \in Nat
         /\ p * (t \div p) <= t
         /\ p # 1 => 2 * (t \div p) <= t
<1>1. t \div p \in Int /\ p * (t \div p) <= t /\ t < p * (t \div p) + p
  OBVIOUS
<1>2. t \div p \in Nat
  BY <1>1
<1>3. p # 1 => 2 * (t \div p) <= p * (t \div p)
  BY <1>2
<1>4. QED
  BY <1>1, <1>2, <1>3

\* A remainder is no larger than what it is taken of.
LEMMA Remainder ==
  ASSUME NEW n \in Nat, NEW m \in Nat \ {0}
  PROVE  n % m \in Nat /\ n % m <= n /\ n % m < m /\ (n < m => n % m = n)
<1>1. n % m \in 0..(m - 1) /\ (n < m => n % m = n)
  OBVIOUS
<1>2. CASE n < m
  BY <1>1, <1>2
<1>3. CASE ~(n < m)
  BY <1>1, <1>3
<1>4. QED
  BY <1>1, <1>2, <1>3

\* The arguments are numbers, and so are the seconds left of them by the conversion.
LEMMA Seconds ==
  ASSUME TypeOK
  PROVE  /\ args \in ArgumentTypes /\ Callable(entry, args)
         /\ args.max_wait \in Nat /\ args.check_interval \in Nat /\ args.amount \in Nat
         /\ AskedFinalization \in Nat
         /\ DeployTimeout \in Nat /\ DeployTimeout <= args.max_wait
         /\ FinalizationTimeout \in Nat /\ FinalizationTimeout <= AskedFinalization
<1>1. args \in ArgumentTypes /\ Callable(entry, args)
  BY DEF TypeOK
<1>2. /\ args.max_wait \in Nat /\ args.check_interval \in Nat /\ args.amount \in Nat
      /\ AskedFinalization \in Nat
  BY <1>1 DEF ArgumentTypes, AskedFinalization
<1>3. QED
  BY <1>1, <1>2, Remainder DEF DeployTimeout, FinalizationTimeout

\* The numbers of attempts are naturals.
LEMMA Attempts ==
  ASSUME TypeOK
  PROVE  /\ args.check_interval # 0 => MaxBlockWait \in Nat
         /\ MaxFinalization \in Nat \ {0}
<1>1. args.check_interval # 0 => MaxBlockWait \in Nat
  BY Seconds, Quotient DEF MaxBlockWait
<1>2. MaxFinalization \in Nat \ {0}
  BY Seconds, Quotient DEF MaxFinalization
<1>3. QED
  BY <1>1, <1>2

\* `as i64' yields less than half of the range, never more than a natural it is
\* taken of, and exactly it if it fits.
LEMMA Signed ==
  ASSUME NEW n \in Int
  PROVE  /\ AsI64(n) \in Int /\ AsI64(n) <= Half
         /\ n >= 0 => AsI64(n) <= n
         /\ n >= 0 /\ n < Half => AsI64(n) = n
<1>1. n % U64 \in 0..(U64 - 1) /\ Half \in Nat /\ Half <= U64
  BY Quotient DEF Half
<1>2. n >= 0 => n % U64 <= n /\ (n < U64 => n % U64 = n)
  BY Remainder
<1>3. QED
  BY <1>1, <1>2 DEF AsI64

\* A factor of at least one leaves no natural smaller.
LEMMA Times ==
  ASSUME NEW n \in Nat, NEW k \in Nat \ {0}
  PROVE  n * k \in Nat /\ n <= n * k
OBVIOUS

\* The expiration that is sent is the one asked for, or an earlier one.
LEMMA ExpiryArrives ==
  ASSUME TypeOK
  PROVE  /\ ExpirySent <= AskedExpiry
         /\ ~Overflows /\ args.expiry.value < Half => ExpirySent = AskedExpiry
<1> DEFINE v == args.expiry.value
           s == Now + AsI64(v) * MILLIS
<1>1. args.expiry \in Expiries
  BY Seconds DEF ArgumentTypes
<1>2. v \in Int /\ (args.expiry.how = "in" => v \in 0..(U64 - 1))
  BY <1>1, Seconds DEF Expiries, Callable
<1>3. CASE args.expiry.how # "in"
  BY <1>2, <1>3 DEF ExpirySent, AskedExpiry
<1>4. CASE args.expiry.how = "in"
  <2>1. /\ v \in Nat /\ AsI64(v) \in Int /\ Half \in Nat
        /\ v * MILLIS \in Nat /\ v <= v * MILLIS
    <3>1. v \in Nat /\ MILLIS \in Nat \ {0} /\ Half \in Nat
      BY <1>2, <1>4, Quotient DEF Half
    <3>2. AsI64(v) \in Int
      BY <3>1, Signed
    <3> HIDE DEF v
    <3>3. QED
      BY <3>1, <3>2, Times
  <2>2. AsI64(v) * MILLIS \in Int /\ s \in Int
    BY <2>1
  <2>3. ExpirySent = AsI64(s) /\ AskedExpiry = Now + v * MILLIS
    BY <1>4 DEF ExpirySent, AskedExpiry
  <2>4. CASE v < Half
    <3>1. AsI64(v) = v
      BY <2>1, <2>4, Signed
    <3>2. s = AskedExpiry /\ s >= 0
      BY <2>1, <2>3, <3>1
    <3>3. ~Overflows => s < Half
      BY <1>4, <2>2 DEF Overflows, InI64
    <3> HIDE DEF s
    <3>4. AsI64(s) <= s /\ (s < Half => AsI64(s) = s)
      BY <2>2, <3>2, Signed
    <3>5. QED
      BY <2>3, <3>2, <3>3, <3>4
  <2>5. CASE ~(v < Half)
    <3> HIDE DEF s
    <3>1. AsI64(s) \in Int /\ AsI64(s) <= Half
      BY <2>2, Signed
    <3>2. QED
      BY <2>1, <2>3, <2>5, <3>1
  <2>6. QED
    BY <2>4, <2>5
<1>5. QED
  BY <1>3, <1>4

\* The amount that is sent is the one asked for, or a smaller one.
LEMMA AmountArrives ==
  ASSUME TypeOK
  PROVE  /\ AmountSent <= AskedAmount
         /\ entry = "transfer_command" /\ ~Overflows => AmountSent = AskedAmount
<1>1. AskedAmount \in Nat
  BY Seconds, Times DEF AskedAmount
<1>2. AmountSent <= AskedAmount /\ (AskedAmount < U64 => AmountSent = AskedAmount)
  BY <1>1, Remainder DEF AmountSent
<1>3. QED
  BY <1>1, <1>2 DEF Overflows

\* The invariant is made of what the properties say and what they rest on.
LEMMA IInvImplies ==
  ASSUME IInv
  PROVE  /\ TypeOK /\ SuccessIsFinal /\ WaitsAreBounded /\ TransferCommandIsHonest
         /\ ArgumentsArrive /\ WaitNeedsAProposer
<1>1. TypeOK /\ SuccessIsFinal /\ TransferCommandIsHonest
  BY DEF IInv, DetailIsBelieved, HonestReport, TransferCommandIsHonest
<1>2. ASSUME pc = "locating", args.check_interval # 1
      PROVE  waited <= args.max_wait
  <2>1. CASE args.check_interval = 0
    BY <1>1, <1>2, <2>1, Seconds DEF IInv, SleepsAreCounted
  <2>2. CASE args.check_interval # 0
    <3>1. waited = 2 * attempts /\ (attempts < MaxBlockWait \/ attempts = 0)
      BY <1>2, <2>2 DEF IInv, SleepsAreCounted, Locating
    <3>2. MaxBlockWait \in Nat /\ 2 * MaxBlockWait <= DeployTimeout
      BY <1>1, <1>2, <2>2, Seconds, Quotient DEF MaxBlockWait
    <3>3. attempts \in Nat /\ DeployTimeout \in Nat /\ DeployTimeout <= args.max_wait
          /\ args.max_wait \in Nat
      BY <1>1, Seconds DEF TypeOK
    <3>4. QED
      BY <3>1, <3>2, <3>3
  <2>3. QED
    BY <2>1, <2>2
<1>3. ASSUME pc = "confirming" PROVE waited <= AskedFinalization
  <2> DEFINE n == FinalizationTimeout \div RETRY_DELAY_SEC
  <2>1. /\ FinalizationTimeout \in Nat /\ n \in Nat /\ 5 * n <= FinalizationTimeout
        /\ FinalizationTimeout <= AskedFinalization /\ AskedFinalization \in Nat
    BY <1>1, Seconds, Quotient
  <2>2. waited = 5 * attempts /\ attempts < (IF n < 1 THEN 1 ELSE n) /\ attempts \in Nat
    BY <1>1, <1>3 DEF IInv, SleepsAreCounted, MaxFinalization, TypeOK
  <2> HIDE DEF n
  <2>3. QED
    BY <2>1, <2>2
<1>4. ArgumentsArrive
  BY <1>1, AmountArrives, ExpiryArrives DEF IInv, DeployIsPrepared, ArgumentsArrive
<1>5. WaitNeedsAProposer
  BY <1>1 DEF IInv, ChainIsCausal, NothingUnasked, SuccessIsFinal, WaitNeedsAProposer
<1>6. QED
  BY <1>1, <1>2, <1>3, <1>4, <1>5 DEF WaitsAreBounded

LEMMA InitInv == Init => IInv
<1> SUFFICES ASSUME Init PROVE IInv
  OBVIOUS
<1>1. /\ pc = "preparing" /\ status = "unasked" /\ included = {} /\ finalised = {}
      /\ live = FALSE /\ silent = FALSE /\ proposed = FALSE
  BY DEF Init
<1>2. TypeOK
  BY DEF Init, TypeOK, Phases
<1>3. /\ ChainIsCausal /\ DeployIsPrepared /\ NothingUnasked /\ SuccessIsFinal
      /\ DetailIsBelieved /\ SleepsAreCounted /\ HonestReport
  BY <1>1 DEF ChainIsCausal, DeployIsPrepared, NothingUnasked, SuccessIsFinal, Confirmed,
     DetailIsBelieved, SleepsAreCounted, Locating, HonestReport
<1>4. QED
  BY <1>2, <1>3 DEF IInv

\* The numbers derived from the arguments stay as they are with them.
LEMMA SameArguments ==
  ASSUME entry' = entry, args' = args
  PROVE  /\ MaxBlockWait' = MaxBlockWait /\ MaxFinalization' = MaxFinalization
         /\ Overflows' = Overflows
BY DEF MaxBlockWait, DeployTimeout, MaxFinalization, FinalizationTimeout, AskedFinalization,
   Overflows, AskedAmount, InI64, AsI64, Half

\* A step of the chain disturbs only what is known about the chain.
LEMMA ChainStep ==
  ASSUME IInv, NEW b \in Blocks, Include(b) \/ Finalise(b)
  PROVE  IInv'
<1>1. UNCHANGED <<entry, args, pc, attempts, waited, block, status, errored, silent,
                  heartbeat, proposed, live, fails>>
  BY DEF Include, Finalise, call, loop, result, shard
<1>2. /\ live /\ included \subseteq included' /\ finalised \subseteq finalised'
      /\ included' \subseteq Blocks /\ finalised' \subseteq included'
      /\ heartbeat \/ proposed
  BY DEF Include, Finalise, IInv, TypeOK, ChainIsCausal, NothingUnasked
<1>3. TypeOK' /\ ChainIsCausal' /\ SuccessIsFinal' /\ NothingUnasked'
  BY <1>1, <1>2 DEF IInv, TypeOK, ChainIsCausal, SuccessIsFinal, NothingUnasked
<1>4. DeployIsPrepared' /\ DetailIsBelieved' /\ SleepsAreCounted' /\ HonestReport'
  BY <1>1, SameArguments DEF IInv, DeployIsPrepared, DetailIsBelieved, SleepsAreCounted,
     Locating, HonestReport
<1>5. QED
  BY <1>3, <1>4 DEF IInv

\* What no step of the client before the detail request changes, except the pc, the
\* loop, the block and whether the deploy is live.
Quiet == /\ UNCHANGED <<entry, args, status, errored, silent, heartbeat, proposed, included,
                        finalised, fails>>
         /\ ~silent

\* A client step that is no phase of a loop: the parts of the invariant that only
\* mention what Quiet leaves alone, and those that the loops are about.
LEMMA QuietStep ==
  ASSUME IInv, Quiet, pc' \in Phases \cup Ends, pc' \notin {"proposing", "ok"},
         pc # "ok", attempts' \in Nat, waited' \in Nat,
         block' \in Blocks \cup {NoBlock}, live' \in BOOLEAN
  PROVE  TypeOK' /\ NothingUnasked' /\ DetailIsBelieved' /\ HonestReport'
<1>1. TypeOK'
  BY DEF IInv, TypeOK, Quiet
<1>2. NothingUnasked'
  BY DEF IInv, NothingUnasked, Quiet
<1>3. DetailIsBelieved' /\ HonestReport'
  BY DEF IInv, DetailIsBelieved, HonestReport, Quiet
<1>4. QED
  BY <1>1, <1>2, <1>3

\* Everything that happens to the arguments before anything is sent.
LEMMA PrepareStep ==
  ASSUME IInv, ~silent, Reject \/ ArgumentOverflow \/ Prepare \/ KeyFails
  PROVE  IInv'
<1>1. /\ Quiet /\ UNCHANGED <<attempts, waited, block, live>>
      /\ pc \in {"preparing", "deploying"} /\ pc' \in {"deploying", "failed", "panicked"}
      /\ pc' = "deploying" => ~(args.checked /\ Overflows)
  BY DEF Reject, ArgumentOverflow, Prepare, KeyFails, Quiet, call, loop, result, chain, shard
<1>2. ~live /\ included = {}
  BY <1>1 DEF IInv, ChainIsCausal
<1>3. TypeOK' /\ NothingUnasked' /\ DetailIsBelieved' /\ HonestReport'
  BY <1>1, QuietStep DEF IInv, TypeOK
<1>4. ChainIsCausal' /\ SuccessIsFinal'
  BY <1>1, <1>2 DEF IInv, ChainIsCausal, SuccessIsFinal, Confirmed, Quiet
<1>5. DeployIsPrepared'
  BY <1>1, <1>2, SameArguments DEF DeployIsPrepared, Quiet
<1>6. SleepsAreCounted'
  BY <1>1 DEF SleepsAreCounted, Locating
<1>7. QED
  BY <1>3, <1>4, <1>5, <1>6 DEF IInv

\* Everything that can happen while the deploy is submitted and located.
LEMMA LocateStep ==
  ASSUME IInv, ~silent,
         \/ DeployAccepted \/ DeployFails \/ DivideByZero \/ NoAttempts
         \/ (\E b \in Blocks : Found(b)) \/ FindFails
  PROVE  IInv'
<1>1. Quiet /\ attempts' \in Nat /\ waited' \in Nat
  BY DEF IInv, TypeOK, Quiet, DeployAccepted, DeployFails, DivideByZero, NoAttempts, Found,
     FindFails, Enter, call, loop, result, chain, shard
<1>2. /\ live' \in BOOLEAN /\ block' \in Blocks \cup {NoBlock}
      /\ pc \in {"deploying", "locating"}
      /\ pc' \in {"locating", "confirming", "failed", "panicked"}
  BY DEF IInv, TypeOK, DeployAccepted, DeployFails, DivideByZero, NoAttempts, Found,
     FindFails, Deploying, Locating, Enter, result, chain
<1>3. TypeOK' /\ NothingUnasked' /\ DetailIsBelieved' /\ HonestReport'
  BY <1>1, <1>2, QuietStep
<1>4. ChainIsCausal' /\ SuccessIsFinal'
  <2>1. CASE DeployAccepted \/ DeployFails
    <3>1. included = {}
      BY <2>1 DEF DeployAccepted, DeployFails, Deploying, IInv, ChainIsCausal
    <3>2. QED
      BY <1>1, <2>1, <3>1 DEF DeployAccepted, DeployFails, IInv, ChainIsCausal,
         SuccessIsFinal, Confirmed, Enter, result, Quiet
  <2>2. CASE DivideByZero \/ NoAttempts \/ FindFails
    BY <2>2 DEF DivideByZero, NoAttempts, FindFails, Locating, IInv, ChainIsCausal,
       SuccessIsFinal, Confirmed, result, chain, shard
  <2>3. CASE \E b \in Blocks : Found(b)
    BY <2>3 DEF Found, Locating, IInv, ChainIsCausal, SuccessIsFinal, Confirmed, Enter, chain,
       shard
  <2>4. QED
    BY <2>1, <2>2, <2>3
<1>5. DeployIsPrepared'
  <2>1. pc = "deploying" \/ live
    BY <1>2 DEF IInv, ChainIsCausal
  <2>2. QED
    BY <1>1, <2>1, SameArguments DEF IInv, DeployIsPrepared, Quiet
<1>6. SleepsAreCounted'
  <2>1. MaxFinalization' \in Nat \ {0}
    BY <1>1, Attempts, SameArguments DEF IInv, Quiet
  <2>2. 0 = CHECK_INTERVAL_SEC * 0 /\ 0 = RETRY_DELAY_SEC * 0
    OBVIOUS
  <2>3. CASE DeployAccepted \/ \E b \in Blocks : Found(b)
    BY <2>1, <2>2, <2>3 DEF SleepsAreCounted, Locating, DeployAccepted, Found, Enter
  <2>4. CASE DeployFails \/ DivideByZero \/ NoAttempts \/ FindFails
    BY <2>4 DEF SleepsAreCounted, Locating, DeployFails, DivideByZero, NoAttempts, FindFails
  <2>5. QED
    BY <2>3, <2>4
<1>7. QED
  BY <1>3, <1>4, <1>5, <1>6 DEF IInv

\* Everything that can happen while a block is confirmed and its data read.
LEMMA ConfirmStep ==
  ASSUME IInv, ~silent, Finalized \/ ObserverFails \/ ReadData
  PROVE  IInv'
<1>1. /\ Quiet /\ live' = live /\ block' = block /\ attempts' \in Nat /\ waited' \in Nat
      /\ pc \in {"confirming", "reading"} /\ pc' \in {"reading", "detailing", "failed"}
  BY DEF IInv, TypeOK, Quiet, Finalized, ObserverFails, ReadData, Enter, call, loop, result,
     chain, shard
<1>2. TypeOK' /\ NothingUnasked' /\ DetailIsBelieved' /\ HonestReport'
  BY <1>1, QuietStep DEF IInv, TypeOK
<1>3. ChainIsCausal' /\ SuccessIsFinal'
  BY <1>1 DEF IInv, ChainIsCausal, SuccessIsFinal, Confirmed, Finalized, ObserverFails,
     ReadData, Quiet
<1>4. DeployIsPrepared'
  BY <1>1, SameArguments DEF IInv, DeployIsPrepared, Quiet
<1>5. SleepsAreCounted'
  BY <1>1 DEF SleepsAreCounted, Locating
<1>6. QED
  BY <1>2, <1>3, <1>4, <1>5 DEF IInv

\* An answer that is not yet the one hoped for: one more attempt, one more sleep.
LEMMA RetryStep ==
  ASSUME IInv, ~silent, NotFound \/ NotFinalized
  PROVE  IInv'
<1>1. /\ Quiet /\ UNCHANGED <<block, live>> /\ attempts' = attempts + 1
      /\ pc \in {"locating", "confirming"} /\ pc' \in {"failed", pc}
  BY DEF NotFound, NotFinalized, Locating, Quiet, call, result, chain, shard
<1>2. TypeOK
  BY DEF IInv
<1>3. TypeOK' /\ NothingUnasked' /\ DetailIsBelieved' /\ HonestReport'
  <2>1. waited' \in Nat /\ attempts' \in Nat
    BY <1>1, <1>2 DEF NotFound, NotFinalized, TypeOK
  <2>2. QED
    BY <1>1, <1>2, <2>1, QuietStep DEF TypeOK
<1>4. ChainIsCausal' /\ SuccessIsFinal'
  BY <1>1 DEF IInv, ChainIsCausal, SuccessIsFinal, Confirmed, Quiet
<1>5. DeployIsPrepared'
  BY <1>1, SameArguments DEF IInv, DeployIsPrepared, ChainIsCausal, Quiet
<1>6. SleepsAreCounted'
  <2>1. MaxBlockWait' = MaxBlockWait /\ MaxFinalization' = MaxFinalization /\ args' = args
    BY <1>1, SameArguments DEF Quiet
  <2>2. MaxFinalization \in Nat \ {0} /\ (args.check_interval # 0 => MaxBlockWait \in Nat)
    BY <1>2, Attempts
  <2>3. CASE NotFound
    BY <1>1, <1>2, <2>1, <2>2, <2>3 DEF NotFound, IInv, TypeOK, SleepsAreCounted, Locating
  <2>4. CASE NotFinalized
    BY <1>1, <1>2, <2>1, <2>2, <2>4 DEF NotFinalized, IInv, TypeOK, SleepsAreCounted, Locating
  <2>5. QED
    BY <2>3, <2>4
<1>7. QED
  BY <1>3, <1>4, <1>5, <1>6 DEF IInv

\* The last steps settle what is reported, and may ask for a block.
LEMMA ReportStep ==
  ASSUME IInv, ~silent, ReadDetail \/ Report \/ Propose
  PROVE  IInv'
<1>1. /\ UNCHANGED <<entry, args, attempts, waited, block, silent, heartbeat, live, included,
                      finalised, fails>>
      /\ pc \in {"detailing", "reporting", "proposing"}
      /\ pc' \in {"reporting", "proposing", "ok", "failed"}
  BY DEF ReadDetail, Report, Propose, call, loop, result, chain, shard
<1>2. TypeOK'
  <2>1. /\ status' \in {"unasked", "success", "not_found", "server_error", "unreadable"}
        /\ errored' \in BOOLEAN /\ proposed' \in BOOLEAN
    BY DEF IInv, TypeOK, ReadDetail, Report, Propose, result, chain
  <2>2. QED
    BY <1>1, <2>1 DEF IInv, TypeOK
<1>3. ChainIsCausal' /\ SuccessIsFinal'
  BY <1>1 DEF IInv, ChainIsCausal, SuccessIsFinal, Confirmed
<1>4. NothingUnasked'
  <2>1. heartbeat /\ ~proposed
    BY <1>1 DEF IInv, NothingUnasked, SuccessIsFinal, Confirmed
  <2>2. proposed' => pc' = "ok"
    BY <2>1 DEF ReadDetail, Report, Propose, chain
  <2>3. QED
    BY <1>1, <2>1, <2>2 DEF NothingUnasked
<1>5. DeployIsPrepared' /\ SleepsAreCounted'
  BY <1>1, SameArguments DEF IInv, DeployIsPrepared, SleepsAreCounted, Locating
<1>6. DetailIsBelieved' /\ HonestReport'
  BY DEF IInv, TypeOK, DetailIsBelieved, HonestReport, ReadDetail, Report, Propose, call,
     result, chain, shard
<1>7. QED
  BY <1>2, <1>3, <1>4, <1>5, <1>6 DEF IInv

\* A request that is never answered: what is asked for may have been done.
LEMMA SilentStep ==
  ASSUME IInv, NeverAnswered
  PROVE  IInv'
<1>1. /\ UNCHANGED <<entry, args, pc, attempts, waited, block, status, errored, heartbeat,
                      proposed, included, finalised, fails>>
      /\ silent' = TRUE /\ ~silent /\ live' \in BOOLEAN
      /\ pc # "deploying" => live' = live
      /\ pc # "preparing"
  BY DEF NeverAnswered, Requesting, Deploying, Locating, IInv, TypeOK, call, loop, result, shard
<1>2. live => live'
  BY <1>1 DEF IInv, ChainIsCausal
<1>3. TypeOK' /\ ChainIsCausal' /\ SuccessIsFinal' /\ NothingUnasked'
  BY <1>1, <1>2 DEF IInv, TypeOK, ChainIsCausal, SuccessIsFinal, NothingUnasked
<1>4. DeployIsPrepared' /\ DetailIsBelieved' /\ SleepsAreCounted' /\ HonestReport'
  BY <1>1, <1>2, SameArguments DEF IInv, DeployIsPrepared, DetailIsBelieved,
     SleepsAreCounted, Locating, HonestReport
<1>5. QED
  BY <1>3, <1>4 DEF IInv

LEMMA StepInv == IInv /\ [Next]_vars => IInv'
<1> SUFFICES ASSUME IInv, [Next]_vars PROVE IInv'
  OBVIOUS
<1>1. CASE \E b \in Blocks : Include(b) \/ Finalise(b)
  BY <1>1, ChainStep
<1>2. CASE NeverAnswered
  BY <1>2, SilentStep
<1>3. CASE ClientStep
  <2>1. ~silent
    BY <1>3 DEF ClientStep
  <2>2. CASE Reject \/ ArgumentOverflow \/ Prepare \/ KeyFails
    BY <2>1, <2>2, PrepareStep
  <2>3. CASE \/ DeployAccepted \/ DeployFails \/ DivideByZero \/ NoAttempts
             \/ (\E b \in Blocks : Found(b)) \/ FindFails
    BY <2>1, <2>3, LocateStep
  <2>4. CASE NotFound \/ NotFinalized
    BY <2>1, <2>4, RetryStep
  <2>5. CASE Finalized \/ ObserverFails \/ ReadData
    BY <2>1, <2>5, ConfirmStep
  <2>6. CASE ReadDetail \/ Report \/ Propose
    BY <2>1, <2>6, ReportStep
  <2>7. QED
    BY <1>3, <2>2, <2>3, <2>4, <2>5, <2>6 DEF ClientStep
<1>4. CASE UNCHANGED vars
  <2>1. TypeOK' /\ ChainIsCausal' /\ SuccessIsFinal' /\ NothingUnasked'
    BY <1>4 DEF vars, IInv, TypeOK, ChainIsCausal, SuccessIsFinal, NothingUnasked
  <2>2. DeployIsPrepared' /\ DetailIsBelieved' /\ SleepsAreCounted' /\ HonestReport'
    BY <1>4, SameArguments DEF vars, IInv, DeployIsPrepared, DetailIsBelieved,
       SleepsAreCounted, Locating, HonestReport
  <2>3. QED
    BY <2>1, <2>2 DEF IInv
<1>5. QED
  BY <1>1, <1>2, <1>3, <1>4 DEF Next

\* The inductive invariant holds in every reachable state, for any arguments.
THEOREM Invariance == Spec => []IInv
BY InitInv, StepInv, PTL DEF Spec

\* Every variable keeps to its type.
THEOREM TypeCorrect == Spec => []TypeOK
<1>1. IInv => TypeOK
  BY IInvImplies
<1>2. QED
  BY <1>1, Invariance, PTL

\* deploy_and_wait reads data and succeeds only once its block is final.
THEOREM SuccessMeansFinal == Spec => []SuccessIsFinal
<1>1. IInv => SuccessIsFinal
  BY IInvImplies
<1>2. QED
  BY <1>1, Invariance, PTL

\* Neither polling loop sleeps longer than its caller asked for, except the first
\* one when check_interval is a single second.
THEOREM BoundedWaits == Spec => []WaitsAreBounded
<1>1. IInv => WaitsAreBounded
  BY IInvImplies
<1>2. QED
  BY <1>1, Invariance, PTL

\* No deploy carries more dust or a later expiration than was asked for.
THEOREM SentIsAsked == Spec => []ArgumentsArrive
<1>1. IInv => ArgumentsArrive
  BY IInvImplies
<1>2. QED
  BY <1>1, Invariance, PTL

\* How far it goes that deploy-and-wait asks for a block last and not, as
\* docs/commands/propose.md has it, before it waits: where nobody makes blocks
\* unasked, no call comes to ask for one and none succeeds, --propose or not.
THEOREM ProposeComesTooLate == Spec => []WaitNeedsAProposer
<1>1. IInv => WaitNeedsAProposer
  BY IInvImplies
<1>2. QED
  BY <1>1, Invariance, PTL

\* The transfer command reports success for no deploy it was told had errored.
THEOREM HonestTransfer == Spec => []TransferCommandIsHonest
<1>1. IInv => TransferCommandIsHonest
  BY IInvImplies
<1>2. QED
  BY <1>1, Invariance, PTL

-----------------------------------------------------------------------------
\* Nothing but the client uses up its steps.
LEMMA OthersUseNone ==
  ASSUME NeverAnswered \/ (\E b \in Blocks : Include(b) \/ Finalise(b)) \/ UNCHANGED vars
  PROVE  StepsLeft' = StepsLeft
<1>1. UNCHANGED <<entry, args, pc, attempts>>
  BY DEF NeverAnswered, Include, Finalise, call, loop, vars
<1>2. MaxBlockWait' = MaxBlockWait /\ MaxFinalization' = MaxFinalization
  BY <1>1, SameArguments
<1> QED
  BY <1>1, <1>2 DEF StepsLeft

\* Each step of the client leads to a later phase or to a later attempt.
LEMMA ClientUsesSteps ==
  ASSUME IInv, ClientStep
  PROVE  StepsLeft' \in 0..(StepsLeft - 1)
<1> DEFINE located == IF args.check_interval = 0 THEN 0 ELSE MaxBlockWait
           F == MaxFinalization
<1>1. entry' = entry /\ args' = args
  BY DEF ClientStep, Reject, ArgumentOverflow, Prepare, KeyFails, DeployAccepted, DeployFails,
     DivideByZero, NoAttempts, Found, NotFound, FindFails, Finalized, NotFinalized,
     ObserverFails, ReadData, ReadDetail, Report, Propose, call
<1>2. located \in Nat /\ F \in Nat \ {0} /\ attempts \in Nat
  BY Attempts DEF IInv, TypeOK
<1>3. located' = located /\ F' = F
  BY <1>1, SameArguments
<1>4. /\ pc = "locating" => attempts <= located
      /\ pc = "confirming" => attempts < F
  BY <1>2 DEF IInv, SleepsAreCounted, Locating
<1>5. /\ pc = "preparing"  => StepsLeft = located + F + 7
      /\ pc = "deploying"  => StepsLeft = located + F + 6
      /\ pc = "locating"   => StepsLeft = located - attempts + F + 5
      /\ pc = "confirming" => StepsLeft = F - attempts + 4
      /\ pc = "reading"    => StepsLeft = 4
      /\ pc = "detailing"  => StepsLeft = 3
      /\ pc = "reporting"  => StepsLeft = 2
      /\ pc = "proposing"  => StepsLeft = 1
  BY DEF StepsLeft
<1>6. /\ pc' = "deploying"  => StepsLeft' = located + F + 6
      /\ pc' = "locating"   => StepsLeft' = located - attempts' + F + 5
      /\ pc' = "confirming" => StepsLeft' = F - attempts' + 4
      /\ pc' = "reading"    => StepsLeft' = 4
      /\ pc' = "detailing"  => StepsLeft' = 3
      /\ pc' = "reporting"  => StepsLeft' = 2
      /\ pc' = "proposing"  => StepsLeft' = 1
      /\ pc' \in Ends       => StepsLeft' = 0
  BY <1>3 DEF StepsLeft
<1> HIDE DEF located, F
<1>7. CASE Reject \/ ArgumentOverflow \/ Prepare \/ KeyFails \/ DeployFails
  BY <1>2, <1>5, <1>6, <1>7
  DEF Reject, ArgumentOverflow, Prepare, KeyFails, DeployFails, Deploying
<1>8. CASE DeployAccepted
  BY <1>2, <1>5, <1>6, <1>8 DEF DeployAccepted, Deploying, Enter
<1>9. CASE DivideByZero \/ NoAttempts \/ FindFails
  BY <1>2, <1>4, <1>5, <1>6, <1>9 DEF DivideByZero, NoAttempts, FindFails, Locating
<1>10. CASE \E b \in Blocks : Found(b)
  BY <1>2, <1>4, <1>5, <1>6, <1>10 DEF Found, Locating, Enter
<1>11. CASE NotFound
  <2>1. pc = "locating" /\ attempts' = attempts + 1 /\ attempts < located
    BY <1>11 DEF NotFound, Locating, located
  <2>2. pc' \in {"failed", "locating"}
    BY <1>11, <2>1 DEF NotFound
  <2> QED
    BY <1>2, <1>5, <1>6, <2>1, <2>2
<1>12. CASE NotFinalized
  <2>1. /\ pc = "confirming" /\ attempts' = attempts + 1
        /\ pc' = "failed" \/ (pc' = "confirming" /\ attempts' < F)
    BY <1>2, <1>12 DEF NotFinalized, F
  <2> QED
    BY <1>2, <1>4, <1>5, <1>6, <2>1
<1>13. CASE Finalized \/ ObserverFails
  BY <1>2, <1>4, <1>5, <1>6, <1>13 DEF Finalized, ObserverFails, Enter
<1>14. CASE ReadData \/ ReadDetail \/ Report \/ Propose
  BY <1>5, <1>6, <1>14 DEF ReadData, ReadDetail, Report, Propose
<1> QED
  BY <1>7, <1>8, <1>9, <1>10, <1>11, <1>12, <1>13, <1>14 DEF ClientStep

\* The loops of a call run out, for any arguments and whatever the network does: what
\* is left of AlwaysEnds without fairness.
THEOREM LoopsRunOut == Spec => StepsRunOut
<1>1. IInv /\ [Next]_vars =>
        [IF ClientStep THEN StepsLeft' \in 0..(StepsLeft - 1) ELSE StepsLeft' = StepsLeft]_vars
  BY OthersUseNone, ClientUsesSteps DEF Next
<1> QED
  BY <1>1, Invariance, PTL DEF Spec, StepsRunOut
=============================================================================
