---------------------------- MODULE TokenFamilies ----------------------------
(***************************************************************************)
(* What the refresh tokens promise, whatever requests overlap: the tokens  *)
(* of a session descend from its one login, a successor is only made for a *)
(* token that is gone already, and a token that was revoked or is gone is  *)
(* never good again.  No requests, no versions, no clock.  Two overlapping *)
(* refreshes may both replace a token: that is not ruled out here.         *)
(***************************************************************************)
CONSTANTS
    Tokens, Sessions,
    None  \* the parent of a login's token

VARIABLES
    status,   \* of each token
    session,  \* the session it belongs to
    parent    \* the token it replaced, or None

familyVars == <<status, session, parent>>

Stored == {"active", "expired", "revoked"}
Family(s) == {t \in Tokens : status[t] # "free" /\ session[t] = s}

Init ==
    /\ status = [t \in Tokens |-> "free"]
    /\ session \in [Tokens -> Sessions]
    /\ parent = [t \in Tokens |-> None]

Enter(t, s, p) ==
    /\ status[t] = "free"
    /\ status' = [status EXCEPT ![t] = "active"]
    /\ session' = [session EXCEPT ![t] = s]
    /\ parent' = [parent EXCEPT ![t] = p]

(* The token of the session's login.                                       *)
Issue(t, s) ==
    /\ Enter(t, s, None)
    /\ Family(s) = {}

(* The token of a refresh that presented p.                                *)
Succeed(t, p) ==
    /\ status[p] = "deleted"
    /\ Enter(t, session[p], p)

Withdraw(t) ==
    /\ status[t] \in Stored
    /\ status' = [status EXCEPT ![t] = "deleted"]
    /\ UNCHANGED <<session, parent>>

Expire(t) ==
    /\ status[t] = "active"
    /\ status' = [status EXCEPT ![t] = "expired"]
    /\ UNCHANGED <<session, parent>>

Revoke(S) ==
    /\ \A t \in S : status[t] \in Stored
    /\ status' = [t \in Tokens |-> IF t \in S THEN "revoked" ELSE status[t]]
    /\ UNCHANGED <<session, parent>>

Next ==
    \/ \E S \in SUBSET Tokens : Revoke(S)
    \/ \E t \in Tokens : \/ Withdraw(t)
                         \/ Expire(t)
                         \/ \E p \in Tokens : Succeed(t, p)
                         \/ \E s \in Sessions : Issue(t, s)

Spec == Init /\ [][Next]_familyVars
=============================================================================
