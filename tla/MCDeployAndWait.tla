--------------------------- MODULE MCDeployAndWait ---------------------------
(***************************************************************************)
(* Instances of DeployAndWait: one usual call, and calls that differ from  *)
(* it in their waits, in their amount, in their expiration, in --propose   *)
(* or in a fault.                                                          *)
(***************************************************************************)
EXTENDS DeployAndWait

EveryEntry == AllEntries

Never == [how |-> "never", value |-> 0]

Usual == [max_wait |-> 4, finalization_timeout |-> 5, check_interval |-> 2, amount |-> 1,
          expiry |-> Never, propose |-> FALSE, fault |-> "none", checked |-> FALSE]

\* With 16 for 2^32: below, at and above one interval, and 22 that becomes 6.
Waits == {[Usual EXCEPT !.max_wait = w, !.finalization_timeout = f, !.check_interval = c] :
            w \in {0, 4, 9, 22}, f \in {0, 14, 22}, c \in {0, 1, 2, 5}}

\* With 64 for 2^64 and 10 for DUST_FACTOR: 6 still fits, 7 does not.
Amounts == {[Usual EXCEPT !.amount = n, !.checked = b] : n \in {6, 7}, b \in BOOLEAN}

\* From 5, and with 3 for 1000 milliseconds: 8 still fits, 9 overflows the sum, 11
\* the product; 40 and 60 are taken for -24 and -4, of which the first overflows.
ExpiryArguments ==
  {[Usual EXCEPT !.expiry = [how |-> "in", value |-> v], !.checked = b] :
     v \in {1, 8, 9, 11, 40, 60}, b \in BOOLEAN}
  \cup {[Usual EXCEPT !.expiry = [how |-> "at", value |-> v]] : v \in {-1, 0, 7}}

Others == {[Usual EXCEPT !.propose = p, !.fault = f] :
             p \in BOOLEAN, f \in {"none", "input", "key"}}

EveryArgument == Waits \cup Amounts \cup ExpiryArguments \cup Others
=============================================================================
