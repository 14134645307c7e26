----------------------------- MODULE MCLoadTest -----------------------------
(***************************************************************************)
(* An instance of LoadTest: usual calls of up to two tests, and calls that *)
(* differ from them in their waits, in the depth or in the amount.         *)
(***************************************************************************)
EXTENDS LoadTest

Usual == [num_tests |-> 2, amount |-> 1, chain_depth |-> 3, check_interval |-> 2,
          inclusion_timeout |-> 3, finalization_timeout |-> 5, checked |-> FALSE]

\* Intervals of zero, timeouts of zero and below, at and above one interval; with 8
\* for 2^32, ten attempts of no time become two.
Waits == {[Usual EXCEPT !.num_tests = 1, !.check_interval = c, !.inclusion_timeout = i,
                        !.finalization_timeout = f] :
            c \in {0, 2}, i \in {0, 2, 3}, f \in {1, 5, 10}}

\* A depth that may bury a final block, and one that is taken for -1.
Depths == {[Usual EXCEPT !.chain_depth = d] : d \in {1, 7}}

\* With 64 for 2^64 and 10 for DUST_FACTOR: 6 still fits, 7 does not.
Amounts == {[Usual EXCEPT !.amount = n, !.num_tests = 1, !.checked = b] :
              n \in {6, 7}, b \in BOOLEAN}

EveryArgument == {Usual, [Usual EXCEPT !.num_tests = 0]} \cup Waits \cup Depths \cup Amounts
=============================================================================
