------------------------- MODULE UserAccountProofs -------------------------
(* Theorems about UserAccount, for every number of requests, whatever      *)
(* operations they may be, and all limits and durations.                   *)
EXTENDS UserAccount, FiniteSetTheorems, SequenceTheorems, TLAPS

LEMMA AnyPasswordIsOne == AnyPassword \in Passwords
BY PasswordsAssumption DEF AnyPassword

LEMMA NewUserIsRow == ASSUME NEW w \in Passwords PROVE NewUser(w) \in Row
BY DEF NewUser, Row

LEMMA IdleIsLocals == Idle \in Locals
BY AnyPasswordIsOne, NewUserIsRow DEF Idle, Locals, Pcs, Ops

(* The ways a request goes on, each to well-typed locals.                  *)
LEMMA BeginTypes ==
  ASSUME TypeOK, NEW p \in Requests, NEW pc \in Pcs, NEW w \in Passwords,
         NEW t \in Nat, Begin(p, pc, w, t)
  PROVE  req' \in [Requests -> Locals]
<1>1. [Idle EXCEPT !.pc = pc, !.pw = w, !.tok = t] \in Locals
  BY IdleIsLocals DEF Locals
<1>2. QED
  BY <1>1 DEF Begin, TypeOK

LEMMA UpdateTypes ==
  ASSUME TypeOK, NEW p \in Requests, NEW op \in Ops, NEW e \in Row,
         NEW w \in Passwords, Update(p, op, e, w)
  PROVE  req' \in [Requests -> Locals]
<1>1. [Idle EXCEPT !.pc = "select", !.op = op, !.ent = e, !.pw = w] \in Locals
  BY IdleIsLocals DEF Locals, Pcs
<1>2. QED
  BY <1>1 DEF Update, TypeOK

LEMMA FinishTypes ==
  ASSUME TypeOK, NEW p \in Requests, Finish(p)
  PROVE  req' \in [Requests -> Locals]
BY IdleIsLocals DEF Finish, TypeOK

LEMMA RowTypes ==
  ASSUME TypeOK
  PROVE  /\ IncrementFailed(user) \in Row /\ ResetFailed(user) \in Row
         /\ [user EXCEPT !.verified = TRUE] \in Row
         /\ [user EXCEPT !.min = @ + 1] \in Row
         /\ \A w \in Passwords : [user EXCEPT !.pwd = w] \in Row
         /\ \A c : \A e \in Row : Written(e, c) \in Row
<1>0. user \in Row /\ now \in Nat
  BY DEF TypeOK
<1>1. IncrementFailed(user) \in Row
  <2> DEFINE l == IF user.attempts + 1 >= LockAfter THEN now + LockTime
                                                    ELSE user.lock
  <2>1. user.attempts + 1 \in Nat /\ l \in Nat
    BY <1>0, LimitsAssumption DEF Row
  <2>2. IncrementFailed(user) =
          [user EXCEPT !.attempts = user.attempts + 1, !.lock = l]
    BY DEF IncrementFailed
  <2> HIDE DEF l
  <2>3. \A a, k \in Nat : [user EXCEPT !.attempts = a, !.lock = k] \in Row
    BY <1>0 DEF Row
  <2>4. QED
    BY <2>1, <2>2, <2>3
<1>2. /\ ResetFailed(user) \in Row
      /\ [user EXCEPT !.verified = TRUE] \in Row
      /\ [user EXCEPT !.min = @ + 1] \in Row
  <2>1. ResetFailed(user) \in Row
    BY <1>0 DEF Row, ResetFailed
  <2>2. [user EXCEPT !.verified = TRUE] \in Row
    BY <1>0 DEF Row
  <2>3. user.min + 1 \in Nat
    BY <1>0 DEF Row
  <2>4. \A m \in Nat : [user EXCEPT !.min = m] \in Row
    BY <1>0 DEF Row
  <2>5. QED
    BY <2>1, <2>2, <2>3, <2>4
<1>3. \A w \in Passwords : [user EXCEPT !.pwd = w] \in Row
  BY DEF TypeOK, Row
<1>4. ASSUME NEW e \in Row, NEW c
      PROVE  Written(e, c) \in Row
  BY DEF TypeOK, Row, Written
<1>5. QED
  BY <1>1, <1>2, <1>3, <1>4

(* What each request step writes.                                          *)
LEMMA StartTypes ==
  ASSUME TypeOK, NEW p \in Requests, Start(p)
  PROVE  TypeOK'
<1> USE AnyPasswordIsOne
<1>1. UNCHANGED <<now, registered, user, link, resets, live>>
  BY DEF Start, RegisterFind, LoginFind, ConfirmFind, VerifyFind, RotateRead,
         RequestCount
<1>2. req' \in [Requests -> Locals]
  <2>1. ASSUME NEW w \in Passwords, RegisterFind(p, w)
        PROVE  req' \in [Requests -> Locals]
    BY <2>1, BeginTypes DEF RegisterFind, Pcs
  <2>2. ASSUME NEW w \in Passwords, LoginFind(p, w)
        PROVE  req' \in [Requests -> Locals]
    BY <2>2, BeginTypes, UpdateTypes, RowTypes
       DEF LoginFind, Authenticate, Pcs, Ops
  <2>3. ASSUME NEW i \in 1..Len(resets), NEW w \in Passwords,
               ConfirmFind(p, i, w)
        PROVE  req' \in [Requests -> Locals]
    <3>1. i \in Nat
      BY DEF TypeOK
    <3>2. QED
      BY <2>3, <3>1, BeginTypes DEF ConfirmFind, Pcs
  <2>4. CASE VerifyFind(p)
    BY <2>4, BeginTypes DEF VerifyFind, Pcs
  <2>5. CASE RotateRead(p)
    BY <2>5, UpdateTypes, RowTypes DEF RotateRead, Ops
  <2>6. CASE RequestCount(p)
    BY <2>6, BeginTypes DEF RequestCount, Pcs
  <2>7. QED
    BY <2>1, <2>2, <2>3, <2>4, <2>5, <2>6 DEF Start
<1>3. QED
  BY <1>1, <1>2 DEF TypeOK

LEMMA StepTypes ==
  ASSUME TypeOK, NEW p \in Requests, Step(p)
  PROVE  TypeOK'
<1> USE AnyPasswordIsOne DEF Goto
<1>0. /\ req[p] \in Locals /\ req[p].pw \in Passwords /\ req[p].tok \in Nat
      /\ req[p].ent \in Row
  BY DEF TypeOK, Locals
<1>1. CASE RegisterInsert(p)
  <2>1. req' \in [Requests -> Locals]
    BY <1>1, BeginTypes, FinishTypes DEF RegisterInsert, Pcs
  <2>2. user' \in Row
    BY <1>0, <1>1, NewUserIsRow DEF RegisterInsert, TypeOK
  <2>3. QED
    BY <1>1, <2>1, <2>2 DEF RegisterInsert, TypeOK
<1>2. CASE RegisterLink(p) \/ VerifyUseLink(p)
  BY <1>2, FinishTypes DEF RegisterLink, VerifyUseLink, TypeOK, Links
<1>3. CASE UpdateSelect(p)
  <2>1. [req[p] EXCEPT !.pc = "commit",
           !.cols = {c \in Columns : req[p].ent[c] # user[c]}] \in Locals
    BY <1>0 DEF Locals, Pcs
  <2>2. QED
    BY <1>3, <2>1 DEF UpdateSelect, TypeOK
<1>4. CASE UpdateCommit(p)
  <2>1. user' \in Row
    BY <1>0, <1>4, RowTypes DEF UpdateCommit
  <2>2. req' \in [Requests -> Locals]
    BY <1>0, <1>4, BeginTypes, FinishTypes DEF UpdateCommit, Pcs
  <2>3. QED
    BY <1>4, <2>1, <2>2 DEF UpdateCommit, TypeOK
<1>5. CASE VerifyUser(p)
  BY <1>5, UpdateTypes, RowTypes DEF VerifyUser, Ops, TypeOK
<1>6. CASE IssueTokens(p)
  BY <1>0, <1>6, FinishTypes DEF IssueTokens, TypeOK
<1>7. CASE RequestSave(p)
  <2>1. [at |-> now, used |-> FALSE] \in ResetRows
    BY DEF TypeOK, ResetRows
  <2>2. resets' \in Seq(ResetRows)
    BY <1>7, <2>1 DEF RequestSave, TypeOK
  <2>3. QED
    BY <1>7, <2>2, FinishTypes DEF RequestSave, TypeOK
<1>8. CASE ConfirmPassword(p)
  BY <1>0, <1>8, BeginTypes, RowTypes DEF ConfirmPassword, Pcs, TypeOK
<1>9. CASE ConfirmUse(p)
  <2>1. resets' \in Seq(ResetRows)
    <3>1. ASSUME NEW i \in 1..Len(resets)
          PROVE  [resets[i] EXCEPT !.used = TRUE] \in ResetRows
      <4>1. resets[i] \in ResetRows
        BY DEF TypeOK
      <4>2. QED
        BY <4>1 DEF ResetRows
    <3>2. CASE req[p].tok \in 1..Len(resets)
      <4>1. resets' = [resets EXCEPT ![req[p].tok] =
                         [resets[req[p].tok] EXCEPT !.used = TRUE]]
        BY <1>9 DEF ConfirmUse
      <4>2. QED
        BY <3>1, <3>2, <4>1, ExceptSeq DEF TypeOK
    <3>3. CASE req[p].tok \notin 1..Len(resets)
      <4>1. DOMAIN resets = 1..Len(resets) /\ resets \in Seq(ResetRows)
        BY DEF TypeOK
      <4>2. resets' = resets
        BY <1>9, <3>3, <4>1 DEF ConfirmUse
      <4>3. QED
        BY <4>1, <4>2
    <3>4. QED
      BY <3>2, <3>3
  <2>2. QED
    BY <1>9, <2>1, BeginTypes DEF ConfirmUse, Pcs, TypeOK
<1>10. CASE ConfirmRevoke(p)
  BY <1>10, FinishTypes DEF ConfirmRevoke, TypeOK
<1>11. QED
  BY <1>1, <1>2, <1>3, <1>4, <1>5, <1>6, <1>7, <1>8, <1>9, <1>10 DEF Step

LEMMA AccountStepTypes ==
  ASSUME TypeOK, [Next]_vars
  PROVE  TypeOK'
<1>1. ASSUME NEW p \in Requests, Crash(p)
      PROVE  TypeOK'
  BY <1>1, FinishTypes DEF Crash, TypeOK
<1>2. CASE UNCHANGED vars \/ Tick \/ LinkExpires
           \/ \E w \in Passwords : TokensEnd(w)
  BY <1>2 DEF vars, Tick, LinkExpires, TokensEnd, TypeOK, Links
<1>3. QED
  BY <1>1, <1>2, StartTypes, StepTypes DEF Next

(* Every variable keeps its type, the locals of interleaved requests and   *)
(* the row assembled by an UPDATE included.                                *)
THEOREM AccountTypes == Spec => []TypeOK
<1>1. Init => TypeOK
  <2>1. SUFFICES ASSUME Init
                 PROVE  TypeOK
    OBVIOUS
  <2>2. user \in Row
    BY <2>1, AnyPasswordIsOne, NewUserIsRow DEF Init
  <2>3. req \in [Requests -> Locals]
    BY <2>1, IdleIsLocals DEF Init
  <2>4. resets \in Seq(ResetRows)
    BY <2>1 DEF Init
  <2>5. QED
    BY <2>1, <2>2, <2>3, <2>4 DEF Init, TypeOK, Links
<1>2. TypeOK /\ [Next]_vars => TypeOK'
  BY AccountStepTypes
<1>3. QED
  BY <1>1, <1>2, PTL DEF Spec

----------------------------------------------------------------------------
(* Where a request can have come from.                                     *)

LEMMA OneRequestSteps ==
  ASSUME TypeOK, [Next]_vars
  PROVE  \/ req' = req
         \/ \E p \in Requests : /\ Start(p) \/ Step(p) \/ Crash(p)
                                /\ \E x : req' = [req EXCEPT ![p] = x]
<1>1. ASSUME NEW p \in Requests, Start(p) \/ Step(p) \/ Crash(p)
      PROVE  \E x : req' = [req EXCEPT ![p] = x]
  <2>1. CASE Start(p)
    BY <2>1 DEF Start, RegisterFind, LoginFind, ConfirmFind, VerifyFind,
                RotateRead, RequestCount, Authenticate, Begin, Update
  <2>2. CASE Step(p)
    <3>1. CASE \/ RegisterInsert(p) \/ RegisterLink(p) \/ UpdateSelect(p)
               \/ VerifyUser(p) \/ VerifyUseLink(p) \/ IssueTokens(p)
      BY <3>1 DEF RegisterInsert, RegisterLink, UpdateSelect, VerifyUser,
                  VerifyUseLink, IssueTokens, Finish, Goto, Begin, Update
    <3>2. CASE \/ RequestSave(p) \/ ConfirmPassword(p) \/ ConfirmUse(p)
               \/ ConfirmRevoke(p) \/ UpdateCommit(p)
      BY <3>2 DEF RequestSave, ConfirmPassword, ConfirmUse, ConfirmRevoke,
                  UpdateCommit, Finish, Goto, Begin
    <3>3. QED
      BY <2>2, <3>1, <3>2 DEF Step
  <2>3. CASE Crash(p)
    BY <2>3 DEF Crash, Finish
  <2>4. QED
    BY <1>1, <2>1, <2>2, <2>3
<1>2. CASE UNCHANGED vars \/ Tick \/ LinkExpires
           \/ \E w \in Passwords : TokensEnd(w)
  BY <1>2 DEF vars, Tick, LinkExpires, TokensEnd
<1>3. QED
  BY <1>1, <1>2 DEF Next

(* The locals a login, verification or rotation starts with.               *)
FreshUpdate(x) ==
    /\ x.pc = "select" /\ x.ent.pwd = user.pwd /\ x.ent.min >= user.min
    /\ \/ x.op \in {"verify", "rotate"} /\ x.ent.lock = user.lock
       \/ x.op = "failed" /\ ~IsLocked(user)
       \/ x.op = "login" /\ x.pw = user.pwd /\ x.ent.lock = 0
          /\ ~IsLocked(user)

(* How the locals of a request come to hold an entity, an accepted         *)
(* password or a reset token.                                              *)
Origin(x, y) ==
    \/ y.pc \notin {"select", "commit", "issue", "password"}
    \/ FreshUpdate(y)
    \/ /\ y.pc = "commit" /\ x.pc = "select"
       /\ y.ent = x.ent /\ y.op = x.op /\ y.pw = x.pw
    \/ y.pc = "issue" /\ y.pw = user.pwd /\ ~IsLocked(user)
    \/ y.pc = "issue" /\ x.pc = "commit" /\ x.op = "login" /\ y.pw = x.pw
    \/ /\ y.pc = "password" /\ x.pc = "idle"
       /\ y.tok \in 1..Len(resets) /\ ~resets[y.tok].used

LEMMA StartOrigin ==
  ASSUME TypeOK, NEW p \in Requests, Start(p)
  PROVE  Origin(req[p], req'[p])
<1>0. /\ \A pc, w, t : Begin(p, pc, w, t) =>
           req'[p].pc = pc /\ req'[p].pw = w /\ req'[p].tok = t
      /\ \A op, e, w : Update(p, op, e, w) =>
           /\ req'[p].pc = "select" /\ req'[p].op = op
           /\ req'[p].ent = e /\ req'[p].pw = w
  BY DEF Begin, Update, Idle, TypeOK
<1>1. /\ user \in Row /\ user.min \in Nat
      /\ IncrementFailed(user).pwd = user.pwd
      /\ IncrementFailed(user).min = user.min
      /\ ResetFailed(user).pwd = user.pwd /\ ResetFailed(user).lock = 0
      /\ ResetFailed(user).min = user.min
      /\ [user EXCEPT !.min = @ + 1].pwd = user.pwd
      /\ [user EXCEPT !.min = @ + 1].lock = user.lock
      /\ [user EXCEPT !.min = @ + 1].min = user.min + 1
  BY DEF IncrementFailed, ResetFailed, Row, TypeOK
<1>2. ASSUME NEW w \in Passwords, LoginFind(p, w)
      PROVE  Origin(req[p], req'[p])
  <2>1. ~IsLocked(user) /\ Authenticate(p, w)
    BY <1>2 DEF LoginFind
  <2>2. CASE Update(p, "failed", IncrementFailed(user), AnyPassword)
    BY <1>0, <1>1, <2>1, <2>2 DEF Origin, FreshUpdate
  <2>3. CASE w = user.pwd /\ Update(p, "login", ResetFailed(user), w)
    BY <1>0, <1>1, <2>1, <2>3 DEF Origin, FreshUpdate
  <2>4. CASE w = user.pwd /\ Begin(p, "issue", w, 0)
    BY <1>0, <2>1, <2>4 DEF Origin
  <2>5. QED
    BY <2>1, <2>2, <2>3, <2>4 DEF Authenticate
<1>3. ASSUME NEW i \in 1..Len(resets), NEW w \in Passwords,
             ConfirmFind(p, i, w)
      PROVE  Origin(req[p], req'[p])
  BY <1>0, <1>3 DEF ConfirmFind, Origin
<1>4. CASE RotateRead(p)
  <2>1. /\ req'[p].pc = "select" /\ req'[p].op = "rotate"
        /\ req'[p].ent = [user EXCEPT !.min = @ + 1]
    BY <1>0, <1>4 DEF RotateRead
  <2>2. /\ req'[p].ent.pwd = user.pwd /\ req'[p].ent.lock = user.lock
        /\ req'[p].ent.min >= user.min
    BY <1>1, <2>1
  <2>3. QED
    BY <2>1, <2>2 DEF Origin, FreshUpdate
<1>5. CASE \/ \E w \in Passwords : RegisterFind(p, w)
           \/ VerifyFind(p) \/ RequestCount(p)
  BY <1>0, <1>5 DEF RegisterFind, VerifyFind, RequestCount, Origin
<1>6. QED
  BY <1>2, <1>3, <1>4, <1>5 DEF Start

LEMMA StepOrigin ==
  ASSUME TypeOK, NEW p \in Requests, Step(p)
  PROVE  Origin(req[p], req'[p])
<1>a. /\ \A pc, w, t : Begin(p, pc, w, t) =>
           req'[p].pc = pc /\ req'[p].pw = w /\ req'[p].tok = t
      /\ \A op, e, w : Update(p, op, e, w) =>
           /\ req'[p].pc = "select" /\ req'[p].op = op
           /\ req'[p].ent = e /\ req'[p].pw = w
  BY DEF Begin, Update, Idle, TypeOK
<1>b. Finish(p) => req'[p].pc = "idle"
  BY DEF Finish, Idle, TypeOK
<1>0. /\ \A pc, w, t : Begin(p, pc, w, t) =>
           req'[p].pc = pc /\ req'[p].pw = w /\ req'[p].tok = t
      /\ Finish(p) => req'[p].pc = "idle"
      /\ \A op, e, w : Update(p, op, e, w) =>
           /\ req'[p].pc = "select" /\ req'[p].op = op
           /\ req'[p].ent = e /\ req'[p].pw = w
  BY <1>a, <1>b
<1> USE DEF Goto
<1>1. CASE UpdateSelect(p)
  <2>1. req[p] \in Locals
    BY DEF TypeOK
  <2>2. req'[p] = [req[p] EXCEPT !.pc = "commit",
                     !.cols = {c \in Columns : req[p].ent[c] # user[c]}]
    BY <1>1 DEF UpdateSelect, TypeOK
  <2>3. /\ req'[p].pc = "commit" /\ req[p].pc = "select"
        /\ req'[p].ent = req[p].ent /\ req'[p].op = req[p].op
        /\ req'[p].pw = req[p].pw
    BY <1>1, <2>1, <2>2 DEF UpdateSelect, Locals
  <2>4. QED
    BY <2>3 DEF Origin
<1>2. CASE UpdateCommit(p)
  BY <1>0, <1>2 DEF UpdateCommit, Origin
<1>3. CASE VerifyUser(p)
  <2>1. /\ [user EXCEPT !.verified = TRUE].pwd = user.pwd
        /\ [user EXCEPT !.verified = TRUE].lock = user.lock
        /\ [user EXCEPT !.verified = TRUE].min >= user.min
    BY DEF TypeOK, Row
  <2>2. QED
    BY <1>0, <1>3, <2>1 DEF VerifyUser, Origin, FreshUpdate
<1>4. CASE \/ RegisterInsert(p) \/ RegisterLink(p) \/ VerifyUseLink(p)
           \/ IssueTokens(p) \/ RequestSave(p)
  BY <1>0, <1>4 DEF RegisterInsert, RegisterLink, VerifyUseLink, IssueTokens,
                    RequestSave, Origin
<1>5. CASE ConfirmPassword(p) \/ ConfirmUse(p) \/ ConfirmRevoke(p)
  BY <1>0, <1>5 DEF ConfirmPassword, ConfirmUse, ConfirmRevoke, Origin
<1>6. QED
  BY <1>1, <1>2, <1>3, <1>4, <1>5 DEF Step

LEMMA Origins ==
  ASSUME TypeOK, [Next]_vars, NEW p \in Requests
  PROVE  req'[p] = req[p] \/ Origin(req[p], req'[p])
<1>1. ASSUME NEW q \in Requests, NEW x, req' = [req EXCEPT ![q] = x],
             Start(q) \/ Step(q) \/ Crash(q)
      PROVE  req'[p] = req[p] \/ Origin(req[p], req'[p])
  <2>1. CASE q # p
    BY <1>1, <2>1 DEF TypeOK
  <2>2. CASE q = p /\ Crash(q)
    BY <2>2 DEF Crash, Finish, Idle, Origin, TypeOK
  <2>3. CASE q = p /\ ~Crash(q)
    BY <1>1, <2>3, StartOrigin, StepOrigin
  <2>4. QED
    BY <2>1, <2>2, <2>3
<1>2. QED
  BY <1>1, OneRequestSteps

----------------------------------------------------------------------------
(* Reset tokens.                                                           *)

LEMMA StepResets ==
  ASSUME TypeOK, [Next]_vars, NEW i \in 1..Len(resets), resets[i].used
  PROVE  i \in 1..Len(resets') /\ resets'[i].used
<1>1. ASSUME NEW p \in Requests, RequestSave(p)
      PROVE  i \in 1..Len(resets') /\ resets'[i].used
  BY <1>1 DEF RequestSave, TypeOK
<1>2. ASSUME NEW p \in Requests, ConfirmUse(p)
      PROVE  i \in 1..Len(resets') /\ resets'[i].used
  <2>1. /\ Len(resets') = Len(resets)
        /\ resets'[i] = IF i = req[p].tok
                          THEN [resets[i] EXCEPT !.used = TRUE]
                          ELSE resets[i]
    <3>1. resets' = [resets EXCEPT ![req[p].tok] =
                       [resets[req[p].tok] EXCEPT !.used = TRUE]]
      BY <1>2 DEF ConfirmUse
    <3>2. resets \in Seq(ResetRows) /\ DOMAIN resets = 1..Len(resets)
      BY DEF TypeOK
    <3>3. DOMAIN resets' = 1..Len(resets) /\ Len(resets) \in Nat
      BY <3>1, <3>2
    <3>4. Len(resets') = Len(resets)
      BY <3>3, <3>2, AccountStepTypes DEF TypeOK
    <3>5. QED
      BY <3>1, <3>2, <3>4
  <2>2. resets[i] \in ResetRows
    BY DEF TypeOK
  <2>3. QED
    BY <2>1, <2>2 DEF ResetRows
<1>3. ASSUME NEW p \in Requests,
             \/ Start(p) \/ RegisterInsert(p) \/ RegisterLink(p)
             \/ UpdateSelect(p) \/ UpdateCommit(p) \/ VerifyUser(p)
             \/ VerifyUseLink(p) \/ IssueTokens(p) \/ ConfirmPassword(p)
             \/ ConfirmRevoke(p) \/ Crash(p)
      PROVE  resets' = resets
  BY <1>3 DEF Start, RegisterFind, LoginFind, ConfirmFind, VerifyFind,
              RotateRead, RequestCount, RegisterInsert, RegisterLink,
              UpdateSelect, UpdateCommit, VerifyUser, VerifyUseLink,
              IssueTokens, ConfirmPassword, ConfirmRevoke, Crash
<1>4. CASE UNCHANGED vars \/ Tick \/ LinkExpires
           \/ \E w \in Passwords : TokensEnd(w)
  BY <1>4 DEF vars, Tick, LinkExpires, TokensEnd
<1>5. QED
  BY <1>1, <1>2, <1>3, <1>4 DEF Next, Step

(* A reset token marked as used changes no password again, once the        *)
(* confirmations that read it before are over.                             *)
THEOREM SpentIsFinal == Spec => SpentForGood
<1> DEFINE Body == \A i \in 1..MaxResets : Spent(i) => Spent(i)'
<1>1. ASSUME TypeOK, [Next]_vars
      PROVE  Body
  <2>1. SUFFICES ASSUME NEW i \in 1..MaxResets, Spent(i)
                 PROVE  Spent(i)'
    OBVIOUS
  <2>2. i \in 1..Len(resets') /\ resets'[i].used
    BY <1>1, <2>1, StepResets DEF Spent
  <2>3. ASSUME NEW p \in Requests, req'[p].pc = "password", req'[p].tok = i
        PROVE  FALSE
    BY <1>1, <2>1, <2>3, Origins DEF Spent, Origin, FreshUpdate
  <2>4. QED
    BY <2>2, <2>3 DEF Spent
<1>2. TypeOK /\ [Next]_vars => [Body]_vars
  BY <1>1
<1>3. Spec => [][Body]_vars
  BY <1>2, AccountTypes, PTL DEF Spec
<1>4. QED
  BY <1>3 DEF SpentForGood

----------------------------------------------------------------------------
(* The row, and the refresh tokens.                                        *)

LEMMA UserWriters ==
  ASSUME TypeOK, [Next]_vars
  PROVE  /\ registered => registered'
         /\ \/ user' = user
            \/ ~registered
            \/ \E p \in Requests : UpdateCommit(p) \/ ConfirmPassword(p)
         /\ live' \subseteq live \/ \E p \in Requests : IssueTokens(p)
<1>1. ASSUME NEW p \in Requests,
             \/ Start(p) \/ RegisterLink(p) \/ UpdateSelect(p) \/ VerifyUser(p)
             \/ VerifyUseLink(p) \/ RequestSave(p) \/ ConfirmUse(p)
             \/ Crash(p)
      PROVE  UNCHANGED <<registered, user, live>>
  BY <1>1 DEF Start, RegisterFind, LoginFind, ConfirmFind, VerifyFind,
              RotateRead, RequestCount, RegisterLink, UpdateSelect,
              VerifyUser, VerifyUseLink, RequestSave, ConfirmUse, Crash
<1>2. ASSUME NEW p \in Requests,
             RegisterInsert(p) \/ UpdateCommit(p) \/ ConfirmPassword(p)
      PROVE  /\ live' = live
             /\ registered => registered'
             /\ RegisterInsert(p) /\ registered => user' = user
  BY <1>2 DEF RegisterInsert, UpdateCommit, ConfirmPassword
<1>3. ASSUME NEW p \in Requests, ConfirmRevoke(p)
      PROVE  UNCHANGED <<registered, user>> /\ live' \subseteq live
  BY <1>3 DEF ConfirmRevoke
<1>4. ASSUME NEW p \in Requests, IssueTokens(p)
      PROVE  UNCHANGED <<registered, user>>
  BY <1>4 DEF IssueTokens
<1>5. CASE UNCHANGED vars \/ Tick \/ LinkExpires
           \/ \E w \in Passwords : TokensEnd(w)
  BY <1>5 DEF vars, Tick, LinkExpires, TokensEnd
<1>6. QED
  BY <1>1, <1>2, <1>3, <1>4, <1>5 DEF Next, Step

(* A column after a step is the one before, or one of an entity held, or   *)
(* the new password of a confirmation.                                     *)
LEMMA ColumnSources ==
  ASSUME TypeOK, [Next]_vars, registered
  PROVE  /\ \/ user'.lock = user.lock
            \/ \E p \in Requests : Holds(p) /\ user'.lock = req[p].ent.lock
         /\ \/ user'.min = user.min
            \/ \E p \in Requests : Holds(p) /\ user'.min = req[p].ent.min
         /\ \/ user'.pwd = user.pwd
            \/ \E p \in Requests : Holds(p) /\ user'.pwd = req[p].ent.pwd
            \/ \E p \in Requests : /\ req[p].pc = "password"
                                   /\ user'.pwd = req[p].pw
<1>1. ASSUME NEW p \in Requests, UpdateCommit(p)
      PROVE  /\ Holds(p) /\ user'.lock \in {user.lock, req[p].ent.lock}
             /\ user'.min \in {user.min, req[p].ent.min}
             /\ user'.pwd \in {user.pwd, req[p].ent.pwd}
  BY <1>1 DEF UpdateCommit, Written, Holds
<1>2. ASSUME NEW p \in Requests, ConfirmPassword(p)
      PROVE  /\ req[p].pc = "password" /\ user'.lock = user.lock
             /\ user'.min = user.min
             /\ user'.pwd = req[p].pw
  BY <1>2 DEF ConfirmPassword, TypeOK, Row
<1>3. QED
  BY <1>1, <1>2, UserWriters

(* A login that updates the row has accepted the password it read, and     *)
(* clears the lock.                                                        *)
LoginsHeld ==
    \A p \in Requests : Holds(p) /\ req[p].op = "login" =>
                          req[p].pw = req[p].ent.pwd /\ req[p].ent.lock = 0

LEMMA LoginsHeldStep ==
  ASSUME TypeOK, [Next]_vars, LoginsHeld
  PROVE  LoginsHeld'
<1>1. ASSUME NEW p \in Requests
      PROVE  Holds(p)' /\ req'[p].op = "login" =>
               req'[p].pw = req'[p].ent.pwd /\ req'[p].ent.lock = 0
  BY Origins DEF Origin, FreshUpdate, Holds, LoginsHeld
<1>2. LoginsHeld' <=> \A p \in Requests :
        Holds(p)' /\ req'[p].op = "login" =>
          req'[p].pw = req'[p].ent.pwd /\ req'[p].ent.lock = 0
  BY DEF LoginsHeld
<1>3. QED
  BY <1>1, <1>2

THEOREM AccountInvariant == Spec => [](TypeOK /\ LoginsHeld)
<1>1. Init => LoginsHeld
  <2>1. Init => \A p \in Requests : req[p].pc = "idle"
    BY DEF Init, Idle
  <2>2. QED
    BY <2>1 DEF LoginsHeld, Holds
<1>2. TypeOK /\ LoginsHeld /\ [Next]_vars => LoginsHeld'
  BY LoginsHeldStep
<1>3. QED
  BY <1>1, <1>2, AccountTypes, PTL DEF Spec

(* Once every request that read the row before the lock is over, nobody    *)
(* signs in and nothing ends the lock before its time: no counter reset,   *)
(* verification, rotation or password reset.                               *)
THEOREM LockIsKept == Spec => LockHolds
<1> DEFINE Body == Locked /\ now' < user.lock => Locked' /\ live' \subseteq live
<1>1. ASSUME TypeOK, LoginsHeld, [Next]_vars
      PROVE  Body
  <2>1. SUFFICES ASSUME Locked, now' < user.lock
                 PROVE  Locked' /\ live' \subseteq live
    OBVIOUS
  <2>2. registered' /\ user'.lock = user.lock
    BY <1>1, <2>1, UserWriters, ColumnSources DEF Locked
  <2>3. now < user.lock /\ 0 <= now /\ user.lock \in Nat
    BY <1>1, <2>1 DEF Locked, IsLocked, TypeOK, Row
  <2>4. \A p \in Requests : ~(req[p].pc = "commit" /\ req[p].op = "login")
    BY <1>1, <2>1, <2>3 DEF LoginsHeld, Locked, Holds, TypeOK
  <2>5. ASSUME NEW p \in Requests
        PROVE  req'[p].pc # "issue" /\ (Holds(p)' => req'[p].ent.lock = user.lock)
    <3>1. req'[p] = req[p] \/ Origin(req[p], req'[p])
      BY <1>1, Origins
    <3>2. ~IsLocked(user) => FALSE
      BY <2>1 DEF Locked
    <3>3. QED
      BY <2>1, <2>4, <3>1, <3>2 DEF Locked, Origin, FreshUpdate, Holds
  <2>6. live' \subseteq live
    BY <1>1, <2>1, UserWriters DEF Locked, IssueTokens
  <2>7. QED
    BY <2>1, <2>2, <2>5, <2>6 DEF Locked, IsLocked, Holds
<1>2. TypeOK /\ LoginsHeld /\ [Next]_vars => [Body]_vars
  BY <1>1
<1>3. Spec => [][Body]_vars
  BY <1>2, AccountInvariant, PTL DEF Spec
<1>4. QED
  BY <1>3 DEF LockHolds

(* Once every request that read the row before a rotation is over, nothing *)
(* lowers the minimum version again: no login, verification, password      *)
(* reset, crash or further rotation, and no request that starts later.     *)
THEOREM RotationIsFinal == Spec => RotationStands
<1> DEFINE Body == \A v \in 1..MaxVersion : Raised(v) => Raised(v)'
<1>1. ASSUME TypeOK, [Next]_vars
      PROVE  Body
  <2>1. SUFFICES ASSUME NEW v \in 1..MaxVersion, Raised(v)
                 PROVE  Raised(v)'
    OBVIOUS
  <2>2. registered' /\ user'.min >= v
    BY <1>1, <2>1, UserWriters, ColumnSources DEF Raised
  <2>3. ASSUME NEW p \in Requests, Holds(p)'
        PROVE  req'[p].ent.min >= v
    <3>1. req'[p] = req[p] \/ Origin(req[p], req'[p])
      BY <1>1, Origins
    <3>2. ASSUME FreshUpdate(req'[p])
          PROVE  req'[p].ent.min >= v
      <4>1. req'[p].ent.min \in Nat /\ user.min \in Nat /\ v \in Nat
        BY <1>1, AccountStepTypes, LimitsAssumption
           DEF TypeOK, Locals, Row
      <4>2. QED
        BY <2>1, <3>2, <4>1 DEF FreshUpdate, Raised
    <3>3. QED
      BY <2>1, <2>3, <3>1, <3>2 DEF Raised, Origin, Holds
  <2>4. QED
    BY <2>2, <2>3 DEF Raised
<1>2. TypeOK /\ [Next]_vars => [Body]_vars
  BY <1>1
<1>3. Spec => [][Body]_vars
  BY <1>2, AccountTypes, PTL DEF Spec
<1>4. QED
  BY <1>3 DEF RotationStands

(* A password that was replaced and signed out everywhere stays useless    *)
(* until a confirmation chooses it again; a stale row can restore it only  *)
(* if it was read while the password was still good.                       *)
THEOREM ReplacedIsFinal == Spec => ReplacedForGood
<1> DEFINE Body == \A w \in Passwords :
                     Replaced(w) => Replaced(w)' \/ ChosenAgain(w)
<1>1. ASSUME TypeOK, LoginsHeld, [Next]_vars
      PROVE  Body
  <2>1. SUFFICES ASSUME NEW w \in Passwords, Replaced(w), ~ChosenAgain(w)
                 PROVE  Replaced(w)'
    OBVIOUS
  <2>2. registered' /\ user'.pwd # w
    BY <1>1, <2>1, UserWriters, ColumnSources DEF Replaced
  <2>3. w \notin live'
    BY <1>1, <2>1, UserWriters DEF Replaced, IssueTokens
  <2>4. ASSUME NEW p \in Requests
        PROVE  /\ Holds(p)' => req'[p].ent.pwd # w
               /\ req'[p].pc \in {"issue", "password"} => req'[p].pw # w
    <3>1. req'[p] = req[p] \/ Origin(req[p], req'[p])
      BY <1>1, Origins
    <3>2. req[p].pc = "commit" /\ req[p].op = "login" => req[p].pw # w
      BY <1>1, <2>1 DEF LoginsHeld, Replaced, Holds
    <3>3. ~(req[p].pc = "idle" /\ req'[p].pc = "password" /\ req'[p].pw = w)
      BY <2>1 DEF ChosenAgain
    <3>4. QED
      BY <2>1, <3>1, <3>2, <3>3 DEF Replaced, Origin, FreshUpdate, Holds
  <2>5. QED
    BY <2>2, <2>3, <2>4 DEF Replaced, Holds
<1>2. TypeOK /\ LoginsHeld /\ [Next]_vars => [Body]_vars
  BY <1>1
<1>3. Spec => [][Body]_vars
  BY <1>2, AccountInvariant, PTL DEF Spec
<1>4. QED
  BY <1>3 DEF ReplacedForGood

----------------------------------------------------------------------------
(* The reset limit, for any number of overlapping reset requests.          *)

(* The requests that have counted the tokens and have yet to save one.     *)
Saving == {p \in Requests : req[p].pc = "save"}

(* What is saved and what is still to be saved: a request joins only while *)
(* the tokens are below the limit, and takes its own place with it.        *)
ResetInv ==
    /\ Saving \subseteq Requesters
    /\ Saving # {} \/ Recent(now) # {} =>
         Cardinality(Recent(now)) + Cardinality(Saving)
           < MaxPerWindow + Cardinality(Requesters)

LEMMA RequestersAreFinite ==
  /\ IsFiniteSet(Requesters) /\ Cardinality(Requesters) \in Nat
  /\ \A S \in SUBSET Requesters :
       /\ IsFiniteSet(S) /\ Cardinality(S) \in Nat
       /\ Cardinality(S) <= Cardinality(Requesters)
BY RolesAssumption, FS_Subset, FS_CardinalityType

LEMMA RecentIsFinite ==
  ASSUME TypeOK
  PROVE  /\ IsFiniteSet(Recent(now)) /\ Cardinality(Recent(now)) \in Nat
         /\ \A S \in SUBSET Recent(now) :
              /\ Cardinality(S) \in Nat
              /\ Cardinality(S) <= Cardinality(Recent(now))
<1>1. IsFiniteSet(1..Len(resets))
  BY FS_Interval DEF TypeOK
<1>2. Recent(now) \subseteq 1..Len(resets)
  BY DEF Recent
<1>3. IsFiniteSet(Recent(now))
  BY <1>1, <1>2, FS_Subset
<1>4. ASSUME NEW S \in SUBSET Recent(now)
      PROVE  /\ Cardinality(S) \in Nat
             /\ Cardinality(S) <= Cardinality(Recent(now))
  BY <1>3, FS_Subset, FS_CardinalityType
<1>5. QED
  BY <1>3, <1>4, FS_CardinalityType

(* Only a saved request adds to the window.                                *)
LEMMA RecentShrinks ==
  ASSUME TypeOK, [Next]_vars, \A p \in Requests : ~RequestSave(p)
  PROVE  Recent(now)' \subseteq Recent(now)
<1>1. ASSUME NEW p \in Requests, ConfirmUse(p)
      PROVE  Recent(now)' = Recent(now)
  <2>1. resets' = [resets EXCEPT ![req[p].tok] =
                     [resets[req[p].tok] EXCEPT !.used = TRUE]]
    BY <1>1 DEF ConfirmUse
  <2>2. resets \in Seq(ResetRows) /\ DOMAIN resets = 1..Len(resets)
    BY DEF TypeOK
  <2>3. DOMAIN resets' = 1..Len(resets) /\ Len(resets) \in Nat
    BY <2>1, <2>2
  <2>4. Len(resets') = Len(resets)
    BY <2>2, <2>3, AccountStepTypes DEF TypeOK
  <2>5. \A i \in 1..Len(resets) : resets[i] \in ResetRows
    BY <2>2
  <2>6. \A i \in 1..Len(resets) : resets'[i].at = resets[i].at
    BY <2>1, <2>2, <2>5 DEF ResetRows
  <2>7. QED
    BY <1>1, <2>4, <2>6 DEF ConfirmUse, Recent
<1>2. ASSUME NEW p \in Requests,
             \/ Start(p) \/ RegisterInsert(p) \/ RegisterLink(p)
             \/ UpdateSelect(p) \/ UpdateCommit(p) \/ VerifyUser(p)
             \/ VerifyUseLink(p) \/ IssueTokens(p) \/ ConfirmPassword(p)
             \/ ConfirmRevoke(p) \/ Crash(p)
      PROVE  UNCHANGED <<now, resets>>
  BY <1>2 DEF Start, RegisterFind, LoginFind, ConfirmFind, VerifyFind,
              RotateRead, RequestCount, RegisterInsert, RegisterLink,
              UpdateSelect, UpdateCommit, VerifyUser, VerifyUseLink,
              IssueTokens, ConfirmPassword, ConfirmRevoke, Crash
<1>3. CASE Tick
  <2>1. resets' = resets /\ now' = now + 1 /\ now \in Nat
    BY <1>3 DEF Tick, TypeOK
  <2>2. \A i \in 1..Len(resets) : resets[i].at \in Nat
    <3>1. \A i \in 1..Len(resets) : resets[i] \in ResetRows
      BY DEF TypeOK
    <3>2. QED
      BY <3>1 DEF ResetRows
  <2>3. \A a \in Nat : a >= now' - Window => a >= now - Window
    BY <2>1, LimitsAssumption
  <2>4. QED
    BY <2>1, <2>2, <2>3 DEF Recent
<1>4. UNCHANGED vars \/ LinkExpires \/ (\E w \in Passwords : TokensEnd(w))
        => UNCHANGED <<now, resets>>
  BY DEF vars, LinkExpires, TokensEnd
<1>5. UNCHANGED <<now, resets>> => Recent(now)' = Recent(now)
  BY DEF Recent
<1>6. QED
  BY <1>1, <1>2, <1>3, <1>4, <1>5 DEF Next, Step

LEMMA SaveAdds ==
  ASSUME TypeOK, NEW p \in Requests, RequestSave(p)
  PROVE  Recent(now)' \subseteq Recent(now) \cup {Len(resets) + 1}
<1>1. /\ resets' = Append(resets, [at |-> now, used |-> FALSE])
      /\ now' = now /\ resets \in Seq(ResetRows)
  BY DEF RequestSave, TypeOK
<1>2. /\ Len(resets') = Len(resets) + 1 /\ Len(resets) \in Nat
      /\ \A i \in 1..Len(resets) : resets'[i] = resets[i]
  BY <1>1
<1>3. QED
  BY <1>1, <1>2 DEF Recent

(* A request reaches its save only by counting.                            *)
LEMMA SaveBegins ==
  ASSUME TypeOK, [Next]_vars, NEW p \in Requests, req'[p].pc = "save"
  PROVE  req'[p] = req[p] \/ RequestCount(p)
<1>1. ASSUME NEW q \in Requests, NEW x, req' = [req EXCEPT ![q] = x],
             Start(q) \/ Step(q) \/ Crash(q)
      PROVE  req'[p] = req[p] \/ RequestCount(p)
  <2>1. CASE q # p
    BY <1>1, <2>1 DEF TypeOK
  <2>2. CASE q = p
    <3>1. \A pc, w, t : Begin(p, pc, w, t) => pc = "save"
      BY DEF Begin, Idle, TypeOK
    <3>2. ~Finish(p) /\ \A op, e, w : ~Update(p, op, e, w)
      <4>1. Finish(p) => req'[p].pc = "idle"
        BY DEF Finish, Idle, TypeOK
      <4>2. \A op, e, w : Update(p, op, e, w) => req'[p].pc = "select"
        BY DEF Update, Idle, TypeOK
      <4>3. QED
        BY <4>1, <4>2
    <3>3. CASE Start(p)
      BY <3>1, <3>2, <3>3 DEF Start, RegisterFind, LoginFind, ConfirmFind,
                              VerifyFind, RotateRead, Authenticate
    <3>4. ~UpdateSelect(p)
      BY DEF UpdateSelect, TypeOK, Locals
    <3>5. CASE Step(p)
      BY <3>1, <3>2, <3>4, <3>5
         DEF Step, RegisterInsert, RegisterLink, UpdateCommit, VerifyUser,
             VerifyUseLink, IssueTokens, RequestSave, ConfirmPassword,
             ConfirmUse, ConfirmRevoke, Goto
    <3>6. QED
      BY <1>1, <2>2, <3>2, <3>3, <3>5 DEF Crash
  <2>3. QED
    BY <2>1, <2>2
<1>2. QED
  BY <1>1, OneRequestSteps

(* A saved token takes the place its request had.                          *)
LEMMA SaveKeepsResets ==
  ASSUME TypeOK, ResetInv, NEW p \in Requests, RequestSave(p)
  PROVE  ResetInv'
<1> DEFINE n == Cardinality(Recent(now))
           k == Cardinality(Saving)
<1>1. /\ n \in Nat /\ k \in Nat /\ MaxPerWindow \in Nat
      /\ Cardinality(Requesters) \in Nat
  BY RecentIsFinite, RequestersAreFinite, LimitsAssumption DEF ResetInv
<1>2. p \in Saving /\ Saving' \subseteq Saving \ {p}
  <2>1. req[p].pc = "save" /\ req' = [req EXCEPT ![p] = Idle]
    BY DEF RequestSave, Finish
  <2>2. req'[p].pc = "idle" /\ \A q \in Requests \ {p} : req'[q] = req[q]
    BY <2>1 DEF Idle, TypeOK
  <2>3. QED
    BY <2>1, <2>2 DEF Saving
<1>3. n' <= n + 1 /\ n' \in Nat
  <2>1. IsFiniteSet(Recent(now))
    BY RecentIsFinite
  <2>2. /\ IsFiniteSet(Recent(now) \cup {Len(resets) + 1})
        /\ Cardinality(Recent(now) \cup {Len(resets) + 1}) =
             IF Len(resets) + 1 \in Recent(now) THEN n ELSE n + 1
    BY <2>1, FS_AddElement, Zenon
  <2>3. Recent(now)' \subseteq Recent(now) \cup {Len(resets) + 1}
    BY SaveAdds
  <2>4. n' <= Cardinality(Recent(now) \cup {Len(resets) + 1})
    BY <2>2, <2>3, FS_Subset, Zenon
  <2>5. n' \in Nat
    BY <2>2, <2>3, FS_Subset, FS_CardinalityType
  <2>6. QED
    BY <1>1, <2>2, <2>4, <2>5
<1>4. k' <= k - 1 /\ k' \in Nat
  <2>1. IsFiniteSet(Saving)
    BY RequestersAreFinite DEF ResetInv
  <2>2. IsFiniteSet(Saving \ {p}) /\ Cardinality(Saving \ {p}) = k - 1
    BY <1>2, <2>1, FS_RemoveElement
  <2>3. k' <= Cardinality(Saving \ {p}) /\ k' \in Nat
    BY <1>2, <2>2, FS_Subset, FS_CardinalityType
  <2>4. QED
    BY <2>2, <2>3
<1>5. n + k < MaxPerWindow + Cardinality(Requesters)
  BY <1>2 DEF ResetInv
<1>6. n' + k' < MaxPerWindow + Cardinality(Requesters)
  BY <1>1, <1>3, <1>4, <1>5
<1>7. QED
  BY <1>2, <1>6 DEF ResetInv

(* A request that counts finds a place left.                               *)
LEMMA CountKeepsResets ==
  ASSUME TypeOK, ResetInv, [Next]_vars, NEW p \in Requests, RequestCount(p)
  PROVE  ResetInv'
<1>1. Saving' \subseteq Requesters
  <2>1. ASSUME NEW q \in Requests, req'[q].pc = "save"
        PROVE  q \in Requesters
    BY <2>1, SaveBegins DEF ResetInv, Saving, RequestCount
  <2>2. QED
    BY <2>1 DEF Saving
<1>2. Recent(now)' = Recent(now) /\ Cardinality(Recent(now)) < MaxPerWindow
  BY DEF RequestCount, Recent
<1>3. /\ Cardinality(Recent(now)) \in Nat /\ MaxPerWindow \in Nat
      /\ Cardinality(Saving') \in Nat
      /\ Cardinality(Saving') <= Cardinality(Requesters)
      /\ Cardinality(Requesters) \in Nat
  BY <1>1, RecentIsFinite, RequestersAreFinite, LimitsAssumption
<1>4. QED
  BY <1>1, <1>2, <1>3 DEF ResetInv

(* Any other step makes neither more tokens recent nor more requests save. *)
LEMMA OthersKeepResets ==
  ASSUME TypeOK, ResetInv, [Next]_vars,
         \A p \in Requests : ~RequestSave(p) /\ ~RequestCount(p)
  PROVE  ResetInv'
<1> DEFINE n == Cardinality(Recent(now))
           k == Cardinality(Saving)
<1>1. Saving' \subseteq Saving
  BY SaveBegins DEF Saving
<1>2. Recent(now)' \subseteq Recent(now)
  BY RecentShrinks
<1>3. n \in Nat /\ n' \in Nat /\ n' <= n
  BY <1>2, RecentIsFinite
<1>4. k \in Nat /\ k' \in Nat /\ k' <= k
  BY <1>1, RequestersAreFinite, FS_Subset DEF ResetInv
<1>5. MaxPerWindow \in Nat /\ Cardinality(Requesters) \in Nat
  BY RequestersAreFinite, LimitsAssumption
<1>6. SUFFICES ASSUME Saving' # {} \/ Recent(now)' # {}
               PROVE  n' + k' < MaxPerWindow + Cardinality(Requesters)
  BY <1>1 DEF ResetInv
<1>7. n + k < MaxPerWindow + Cardinality(Requesters)
  BY <1>1, <1>2, <1>6 DEF ResetInv
<1>8. QED
  BY <1>3, <1>4, <1>5, <1>7

(* However many reset requests of an account overlap, n of them create at  *)
(* most n - 1 tokens over the limit in any window, whatever else runs or   *)
(* dies between their counts and their saves.                              *)
THEOREM ResetLimitHolds == Spec => []ResetLimit
<1>1. Init => ResetInv
  BY DEF Init, Idle, Recent, Saving, ResetInv
<1>2. TypeOK /\ ResetInv /\ [Next]_vars => ResetInv'
  BY SaveKeepsResets, CountKeepsResets, OthersKeepResets
<1>3. TypeOK /\ ResetInv => ResetLimit
  <2>1. SUFFICES ASSUME TypeOK, ResetInv, Recent(now) # {}
                 PROVE  Cardinality(Recent(now))
                          < MaxPerWindow + Cardinality(Requesters)
    BY DEF ResetLimit
  <2>2. Cardinality(Recent(now)) \in Nat /\ Cardinality(Saving) \in Nat
    BY <2>1, RecentIsFinite, RequestersAreFinite DEF ResetInv
  <2>3. QED
    BY <2>1, <2>2, RequestersAreFinite, LimitsAssumption DEF ResetInv
<1>4. QED
  BY <1>1, <1>2, <1>3, AccountTypes, PTL DEF Spec

(* In particular, requests that do not overlap keep the limit.             *)
COROLLARY LoneRequester ==
  ASSUME \A p, q \in Requesters : p = q
  PROVE  Spec => [](Cardinality(Recent(now)) <= MaxPerWindow)
<1>1. Cardinality(Requesters) <= 1
  <2>1. CASE Requesters = {}
    BY <2>1, FS_EmptySet
  <2>2. ASSUME NEW p \in Requesters
        PROVE  Cardinality(Requesters) <= 1
    <3>1. Requesters = {p}
      OBVIOUS
    <3>2. Cardinality({p}) = 1
      BY FS_Singleton, Zenon
    <3>3. QED
      BY <3>1, <3>2
  <2>3. QED
    BY <2>1, <2>2
<1>2. ASSUME TypeOK, ResetLimit
      PROVE  Cardinality(Recent(now)) <= MaxPerWindow
  <2>1. /\ Cardinality(Recent(now)) \in Nat /\ Cardinality(Requesters) \in Nat
        /\ MaxPerWindow \in Nat
    BY <1>2, RecentIsFinite, RequestersAreFinite, LimitsAssumption
  <2>2. CASE Recent(now) = {}
    BY <2>1, <2>2, FS_EmptySet
  <2>3. CASE Recent(now) # {}
    BY <1>1, <1>2, <2>1, <2>3 DEF ResetLimit
  <2>4. QED
    BY <2>2, <2>3
<1>3. TypeOK /\ ResetLimit => Cardinality(Recent(now)) <= MaxPerWindow
  BY <1>2
<1>4. QED
  BY <1>3, ResetLimitHolds, AccountTypes, PTL
=============================================================================
