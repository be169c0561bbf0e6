----------------------------- MODULE UserAccount -----------------------------
(***************************************************************************)
(* One account: registration, e-mail verification, password login with     *)
(* lockout, password reset, and the user rotation, which share the users   *)
(* row.                                                                    *)
(*                                                                         *)
(* Login, verification and rotation write the row through                  *)
(* UserRepository.update, which selects the row again and assigns every    *)
(* column from the entity the handler read earlier; the ORM then writes    *)
(* the columns that differ from the row just selected.  Each awaited call  *)
(* is an action, so another request may run between the read, the second   *)
(* select and the UPDATE.  A refusal writes nothing and is a stuttering    *)
(* step.                                                                   *)
(***************************************************************************)
EXTENDS Integers, Sequences, FiniteSets

CONSTANTS
    Requests,      \* concurrent requests about the account
    Registrars, Verifiers, Logins, Rotators, Requesters, Confirmers,
                   \* the requests that may be such an operation
    Passwords,
    LockAfter,     \* failed logins that lock the account (5)
    LockTime,      \* length of the lockout (15 minutes), in clock ticks
    TokenTime,     \* lifetime of a reset token (15 minutes)
    Window,        \* window of the reset limit (1 hour)
    MaxPerWindow,  \* MAX_REQUESTS_PER_HOUR (3)
    MaxResets,     \* bound: reset tokens ever created
    MaxAttempts,   \* bound: failed logins counted in the row
    MaxVersion,    \* bound: min_token_version
    MaxTime        \* bound: last clock tick

ASSUME RolesAssumption ==
    /\ Registrars \cup Verifiers \cup Logins \cup Rotators \cup Requesters
         \cup Confirmers \subseteq Requests
    /\ IsFiniteSet(Requesters)
ASSUME PasswordsAssumption == Passwords # {}
ASSUME LimitsAssumption ==
    /\ LockAfter \in Nat \ {0} /\ LockTime \in Nat \ {0}
    /\ TokenTime \in Nat /\ Window \in Nat /\ MaxPerWindow \in Nat
    /\ MaxResets \in Nat /\ MaxAttempts \in Nat /\ MaxVersion \in Nat
    /\ MaxTime \in Nat

VARIABLES
    now,         \* the clock
    registered,  \* whether the users row exists
    user,        \* the users row
    link,        \* the email_verification_tokens row
    resets,      \* the password_reset_tokens rows, oldest first
    live,        \* passwords by which live refresh tokens were obtained
    req          \* locals of each request

vars == <<now, registered, user, link, resets, live, req>>

(* locked_until is 0 for NULL; is_active is never cleared by the program.  *)
Row == [pwd : Passwords, verified : BOOLEAN, attempts : Nat, lock : Nat,
        min : Nat]
Columns == {"pwd", "verified", "attempts", "lock", "min"}
Links == {"none", "unused", "expired", "used"}
ResetRows == [at : Nat, used : BOOLEAN]

Pcs == {"idle", "insert", "link", "verify", "select", "commit", "useLink",
        "issue", "save", "password", "useToken", "revoke"}
Ops == {"failed", "login", "verify", "rotate"}

(* ent: the entity as changed by the handler.  cols: the columns to write. *)
(* op: what update() is called for.  pw: the password submitted.           *)
Locals == [pc : Pcs, op : Ops, ent : Row, cols : SUBSET Columns,
           pw : Passwords, tok : Nat]

AnyPassword == CHOOSE w \in Passwords : TRUE
NewUser(w) == [pwd |-> w, verified |-> FALSE, attempts |-> 0, lock |-> 0,
               min |-> 1]
Idle == [pc |-> "idle", op |-> "login", ent |-> NewUser(AnyPassword),
         cols |-> {}, pw |-> AnyPassword, tok |-> 0]

Finish(p) == req' = [req EXCEPT ![p] = Idle]
Begin(p, pc, w, t) ==
    req' = [req EXCEPT ![p] = [Idle EXCEPT !.pc = pc, !.pw = w, !.tok = t]]
Goto(p, pc) == Begin(p, pc, AnyPassword, 0)
Update(p, op, ent, w) ==
    req' = [req EXCEPT ![p] = [Idle EXCEPT !.pc = "select", !.op = op,
                                           !.ent = ent, !.pw = w]]

Init ==
    /\ now = 0
    /\ registered = FALSE
    /\ user = NewUser(AnyPassword)
    /\ link = "none"
    /\ resets = <<>>
    /\ live = {}
    /\ req = [p \in Requests |-> Idle]

----------------------------------------------------------------------------
(* RegisterUserHandler.handle.                                             *)

RegisterFind(p, w) ==
    /\ req[p].pc = "idle"
    /\ p \in Registrars
    /\ ~registered
    /\ Begin(p, "insert", w, 0)
    /\ UNCHANGED <<now, registered, user, link, resets, live>>

(* users.email is unique: a second insertion fails, and is answered.       *)
RegisterInsert(p) ==
    /\ req[p].pc = "insert"
    /\ IF registered
         THEN Finish(p) /\ UNCHANGED <<registered, user>>
         ELSE /\ registered' = TRUE
              /\ user' = NewUser(req[p].pw)
              /\ Goto(p, "link")
    /\ UNCHANGED <<now, link, resets, live>>

RegisterLink(p) ==
    /\ req[p].pc = "link"
    /\ link' = "unused"
    /\ Finish(p)
    /\ UNCHANGED <<now, registered, user, resets, live>>

----------------------------------------------------------------------------
(* UserRepository.update.                                                  *)

UpdateSelect(p) ==
    /\ req[p].pc = "select"
    /\ req' = [req EXCEPT ![p] =
                 [@ EXCEPT !.pc = "commit",
                           !.cols = {c \in Columns :
                                       req[p].ent[c] # user[c]}]]
    /\ UNCHANGED <<now, registered, user, link, resets, live>>

(* The UPDATE sets the columns cols and leaves the others as they now are. *)
Written(ent, cols) ==
    [pwd |-> IF "pwd" \in cols THEN ent.pwd ELSE user.pwd,
     verified |-> IF "verified" \in cols THEN ent.verified ELSE user.verified,
     attempts |-> IF "attempts" \in cols THEN ent.attempts ELSE user.attempts,
     lock |-> IF "lock" \in cols THEN ent.lock ELSE user.lock,
     min |-> IF "min" \in cols THEN ent.min ELSE user.min]

UpdateCommit(p) ==
    /\ req[p].pc = "commit"
    /\ user' = Written(req[p].ent, req[p].cols)
    /\ \/ req[p].op = "login" /\ Begin(p, "issue", req[p].pw, 0)
       \/ req[p].op = "verify" /\ Goto(p, "useLink")
       \/ req[p].op \in {"failed", "rotate"} /\ Finish(p)
    /\ UNCHANGED <<now, registered, link, resets, live>>

----------------------------------------------------------------------------
(* VerifyEmailHandler.handle.                                              *)

VerifyFind(p) ==
    /\ req[p].pc = "idle"
    /\ p \in Verifiers
    /\ link = "unused"
    /\ Begin(p, "verify", AnyPassword, 0)
    /\ UNCHANGED <<now, registered, user, link, resets, live>>

VerifyUser(p) ==
    /\ req[p].pc = "verify"
    /\ Update(p, "verify", [user EXCEPT !.verified = TRUE], AnyPassword)
    /\ UNCHANGED <<now, registered, user, link, resets, live>>

VerifyUseLink(p) ==
    /\ req[p].pc = "useLink"
    /\ link' = "used"
    /\ Finish(p)
    /\ UNCHANGED <<now, registered, user, resets, live>>

----------------------------------------------------------------------------
(* AuthenticateUserHandler.handle, then the tokens of POST /sessions.      *)

IsLocked(u) == now < u.lock

(* Mutant: the lock ends before it starts.                                 *)
LockBackwards(u) ==
    [u EXCEPT !.attempts = @ + 1,
              !.lock = IF u.attempts + 1 >= LockAfter THEN now - LockTime
                                                      ELSE @]

(* User.increment_failed_login: the counter outlives the lock.             *)
IncrementFailed(u) ==
    [u EXCEPT !.attempts = @ + 1,
              !.lock = IF u.attempts + 1 >= LockAfter THEN now + LockTime
                                                      ELSE @]

(* Mutant: the row starts anew.                                            *)
ResetAll(u) == [NewUser(u.pwd) EXCEPT !.verified = u.verified]

ResetFailed(u) == [u EXCEPT !.attempts = 0, !.lock = 0]

(* Mutant: a wrong password is counted, and the login goes on.             *)
AuthenticateOn(p, w) ==
    IF user.attempts > 0 \/ w # user.pwd
      THEN /\ user.attempts < MaxAttempts
           /\ Update(p, "login", IncrementFailed(user), w)
      ELSE Begin(p, "issue", w, 0)

Authenticate(p, w) ==
    \/ /\ w # user.pwd
       /\ user.attempts < MaxAttempts
       /\ Update(p, "failed", IncrementFailed(user), AnyPassword)
    \/ /\ w = user.pwd
       /\ IF user.attempts > 0
            THEN Update(p, "login", ResetFailed(user), w)
            ELSE Begin(p, "issue", w, 0)

(* Mutant: the lock is not looked at.                                      *)
LoginWhileLocked(p, w) ==
    /\ req[p].pc = "idle"
    /\ p \in Logins
    /\ registered /\ user.verified
    /\ Authenticate(p, w)
    /\ UNCHANGED <<now, registered, user, link, resets, live>>

LoginFind(p, w) ==
    /\ req[p].pc = "idle"
    /\ p \in Logins
    /\ registered /\ user.verified /\ ~IsLocked(user)
    /\ Authenticate(p, w)
    /\ UNCHANGED <<now, registered, user, link, resets, live>>

IssueTokens(p) ==
    /\ req[p].pc = "issue"
    /\ live' = live \cup {req[p].pw}
    /\ Finish(p)
    /\ UNCHANGED <<now, registered, user, link, resets>>

----------------------------------------------------------------------------
(* TriggerUserTokenRotationHandler.handle.                                 *)

RotateRead(p) ==
    /\ req[p].pc = "idle"
    /\ p \in Rotators
    /\ registered
    /\ user.min < MaxVersion
    /\ Update(p, "rotate", [user EXCEPT !.min = @ + 1], AnyPassword)
    /\ UNCHANGED <<now, registered, user, link, resets, live>>

----------------------------------------------------------------------------
(* RequestPasswordResetHandler.handle.                                     *)

Recent(t) == {i \in 1..Len(resets) : resets[i].at >= t - Window}

(* Mutant: one request too many.                                           *)
RequestOneMore(p) ==
    /\ req[p].pc = "idle"
    /\ p \in Requesters
    /\ registered /\ user.verified
    /\ Cardinality(Recent(now)) <= MaxPerWindow
    /\ Begin(p, "save", AnyPassword, 0)
    /\ UNCHANGED <<now, registered, user, link, resets, live>>

RequestCount(p) ==
    /\ req[p].pc = "idle"
    /\ p \in Requesters
    /\ registered /\ user.verified
    /\ Cardinality(Recent(now)) < MaxPerWindow
    /\ Begin(p, "save", AnyPassword, 0)
    /\ UNCHANGED <<now, registered, user, link, resets, live>>

RequestSave(p) ==
    /\ req[p].pc = "save"
    /\ Len(resets) < MaxResets
    /\ resets' = Append(resets, [at |-> now, used |-> FALSE])
    /\ Finish(p)
    /\ UNCHANGED <<now, registered, user, link, live>>

----------------------------------------------------------------------------
(* ConfirmPasswordResetHandler.handle.                                     *)

(* Mutant: a used token is found too.                                      *)
ConfirmFindUsed(p, i, w) ==
    /\ req[p].pc = "idle"
    /\ p \in Confirmers
    /\ now <= resets[i].at + TokenTime
    /\ Begin(p, "password", w, i)
    /\ UNCHANGED <<now, registered, user, link, resets, live>>

(* A token is good until expires_at, inclusive.                            *)
ConfirmFind(p, i, w) ==
    /\ req[p].pc = "idle"
    /\ p \in Confirmers
    /\ ~resets[i].used
    /\ now <= resets[i].at + TokenTime
    /\ Begin(p, "password", w, i)
    /\ UNCHANGED <<now, registered, user, link, resets, live>>

(* UserRepository.update_password writes that column only.                 *)
ConfirmPassword(p) ==
    /\ req[p].pc = "password"
    /\ user' = [user EXCEPT !.pwd = req[p].pw]
    /\ Begin(p, "useToken", AnyPassword, req[p].tok)
    /\ UNCHANGED <<now, registered, link, resets, live>>

ConfirmUse(p) ==
    /\ req[p].pc = "useToken"
    /\ resets' = [resets EXCEPT ![req[p].tok] = [@ EXCEPT !.used = TRUE]]
    /\ Goto(p, "revoke")
    /\ UNCHANGED <<now, registered, user, link, live>>

(* revoke_all_for_user, in one step: TokenRotation has its parts.          *)
ConfirmRevoke(p) ==
    /\ req[p].pc = "revoke"
    /\ live' = {}
    /\ Finish(p)
    /\ UNCHANGED <<now, registered, user, link, resets>>

----------------------------------------------------------------------------
(* The worker dies or the request is cancelled.                            *)
Crash(p) ==
    /\ req[p].pc # "idle"
    /\ Finish(p)
    /\ UNCHANGED <<now, registered, user, link, resets, live>>

Tick ==
    /\ now < MaxTime
    /\ now' = now + 1
    /\ UNCHANGED <<registered, user, link, resets, live, req>>

LinkExpires ==
    /\ link = "unused"
    /\ link' = "expired"
    /\ UNCHANGED <<now, registered, user, resets, live, req>>

(* Logout, or expiry of the refresh tokens obtained with a password.       *)
TokensEnd(w) ==
    /\ w \in live
    /\ live' = live \ {w}
    /\ UNCHANGED <<now, registered, user, link, resets, req>>

Start(p) ==
    \/ \E w \in Passwords : RegisterFind(p, w) \/ LoginFind(p, w)
    \/ \E i \in 1..Len(resets), w \in Passwords : ConfirmFind(p, i, w)
    \/ VerifyFind(p)
    \/ RotateRead(p)
    \/ RequestCount(p)

Step(p) ==
    \/ RegisterInsert(p)
    \/ RegisterLink(p)
    \/ UpdateSelect(p)
    \/ UpdateCommit(p)
    \/ VerifyUser(p)
    \/ VerifyUseLink(p)
    \/ IssueTokens(p)
    \/ RequestSave(p)
    \/ ConfirmPassword(p)
    \/ ConfirmUse(p)
    \/ ConfirmRevoke(p)

Next ==
    \/ \E p \in Requests : Start(p) \/ Step(p) \/ Crash(p)
    \/ \E w \in Passwords : TokensEnd(w)
    \/ Tick
    \/ LinkExpires

Spec == Init /\ [][Next]_vars

----------------------------------------------------------------------------
(* Every variable has its type.                                            *)
TypeOK ==
    /\ now \in Nat
    /\ registered \in BOOLEAN
    /\ user \in Row
    /\ link \in Links
    /\ resets \in Seq(ResetRows)
    /\ live \subseteq Passwords
    /\ req \in [Requests -> Locals]

(* Reset requests that overlap each count the tokens before the others'    *)
(* are saved, but n of them create at most n - 1 tokens over the limit in  *)
(* any window: the excess does not grow from one window or round of        *)
(* requests to the next.                                                   *)
ResetLimit ==
    Recent(now) # {} =>
      Cardinality(Recent(now)) < MaxPerWindow + Cardinality(Requesters)

(* A used token of which no confirmation still holds the copy it read is   *)
(* never again good for a new password.                                    *)
Spent(i) ==
    /\ i \in 1..Len(resets) /\ resets[i].used
    /\ \A p \in Requests : ~(req[p].pc = "password" /\ req[p].tok = i)
SpentForGood == [][\A i \in 1..MaxResets : Spent(i) => Spent(i)']_vars

Holds(p) == req[p].pc \in {"select", "commit"}

(* While the account is locked, and no login or update that read the row   *)
(* before is under way, the lock stands until its time and nobody signs    *)
(* in.                                                                     *)
Locked ==
    /\ registered /\ IsLocked(user)
    /\ \A p \in Requests : /\ req[p].pc # "issue"
                           /\ Holds(p) => req[p].ent.lock = user.lock
LockHolds ==
    [][Locked /\ now' < user.lock => Locked' /\ live' \subseteq live]_vars

(* Once a rotation of the user has raised the minimum version, and no      *)
(* request holds the row as it was before, nothing lowers it again: no     *)
(* login, verification, reset or second rotation, and no retry.            *)
Raised(v) ==
    /\ registered /\ user.min >= v
    /\ \A p \in Requests : Holds(p) => req[p].ent.min >= v
RotationStands == [][\A v \in 1..MaxVersion : Raised(v) => Raised(v)']_vars

(* A password that was replaced, with its refresh tokens revoked, gives    *)
(* nobody access again, once no request that read it is under way: not     *)
(* through a login, and not by a stale row written back over the reset.    *)
Replaced(w) ==
    /\ registered /\ user.pwd # w /\ w \notin live
    /\ \A p \in Requests :
          /\ Holds(p) => req[p].ent.pwd # w
          /\ req[p].pc \in {"issue", "password"} => req[p].pw # w
ChosenAgain(w) ==
    \E p \in Requests : req[p].pc = "idle" /\ req'[p].pc = "password"
                                           /\ req'[p].pw = w
ReplacedForGood ==
    [][\A w \in Passwords : Replaced(w) => Replaced(w)' \/ ChosenAgain(w)]_vars

----------------------------------------------------------------------------
(* What the documentation says and the code does not do.                   *)

(* The password of an account changes only by a confirmed reset.           *)
ResetKept ==
    [][registered /\ user'.pwd # user.pwd =>
         \E p \in Requests : req[p].pc = "password"
                             /\ req'[p].pc = "useToken"]_vars
=============================================================================
