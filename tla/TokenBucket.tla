----------------------------- MODULE TokenBucket -----------------------------
(***************************************************************************)
(* What the rate limiter promises of one bucket: a level that is never     *)
(* forgotten, and calls that refill it up to their stamp and take the cost *)
(* if it is there.  No keys, no expiry, no script, no retries.             *)
(***************************************************************************)
EXTENDS Integers

CONSTANTS
    Cap,     \* max_tokens
    Cost,    \* cost of a request
    Stamps   \* the times a call may carry

VARIABLES
    level,   \* what the last call left
    stamp    \* the time it carried

bucketVars == <<level, stamp>>

Init ==
    /\ level = Cap
    /\ stamp = 0

Regained(at) == IF at < stamp THEN 0 ELSE at - stamp

Refilled(at) ==
    IF level + Regained(at) > Cap THEN Cap ELSE level + Regained(at)

Admit(at) ==
    /\ Refilled(at) >= Cost
    /\ level' = Refilled(at) - Cost
    /\ stamp' = at

Refuse(at) ==
    /\ Refilled(at) < Cost
    /\ level' = Refilled(at)
    /\ stamp' = at

(* The store may lose everything it holds.                                 *)
Lose ==
    /\ level' = Cap
    /\ stamp' = 0

Next ==
    \/ \E at \in Stamps : Admit(at) \/ Refuse(at)
    \/ Lose

Spec == Init /\ [][Next]_bucketVars
=============================================================================
