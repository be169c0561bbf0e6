------------------------ MODULE TokenRotationProofs ------------------------
(***************************************************************************)
(* What TokenRotation guarantees for every set of users, sessions and      *)
(* requests, every grace period and every bound.                           *)
(***************************************************************************)
EXTENDS TokenRotation, FiniteSetTheorems, TLAPS

USE UserOfAssumption, BoundsAssumption

LEMMA AnyInRange == AnySession \in Sessions /\ AnyUser \in Users
  BY DEF AnySession, AnyUser

(* Insert takes a row that is free.                                        *)
LEMMA FreeIdIsFree ==
  ASSUME \E t \in TokenIds : tokens[t].st = "free"
  PROVE  FreeId \in TokenIds /\ tokens[FreeId].st = "free"
  BY DEF FreeId

----------------------------------------------------------------------------
(* Type correctness.                                                       *)

LEMMA InitTypeOK == Init => TypeOK
  BY AnyInRange DEF Init, TypeOK, FirstConfig, NoConfig, Never, Configs, Rows,
     RowStates, RefreshIdle, LoginIdle, RotateIdle, UserRotateIdle, RevokeIdle,
     RefreshLocals, RefreshPcs, LoginLocals, RotateLocals, UserRotateLocals,
     RevokeLocals

LEMMA InsertTypeOK ==
  ASSUME TypeOK, NEW s \in Sessions, NEW v \in Nat,
         NEW from \in TokenIds \cup {0}, Insert(s, v, from)
  PROVE  /\ tokens' \in [TokenIds -> Rows]
         /\ origin' \in [TokenIds -> TokenIds \cup {0}]
  BY FreeIdIsFree DEF Insert, TypeOK, Rows, RowStates

LEMMA RefreshLocalsTypes ==
  /\ RefreshIdle \in RefreshLocals
  /\ \A t \in TokenIds :
       [RefreshIdle EXCEPT !.pc = "user", !.tok = t] \in RefreshLocals
  /\ \A x \in RefreshLocals, p \in RefreshPcs, n \in Nat, c \in Configs :
       /\ [x EXCEPT !.pc = p] \in RefreshLocals
       /\ [x EXCEPT !.pc = p, !.min = n] \in RefreshLocals
       /\ [x EXCEPT !.pc = p, !.cfg = c] \in RefreshLocals
<1>1. /\ RefreshIdle \in RefreshLocals
      /\ \A t \in TokenIds :
           [RefreshIdle EXCEPT !.pc = "user", !.tok = t] \in RefreshLocals
  BY DEF RefreshIdle, RefreshLocals, RefreshPcs, NoConfig, Configs, Never
<1>2. ASSUME NEW x \in RefreshLocals, NEW p \in RefreshPcs, NEW n \in Nat,
             NEW c \in Configs
      PROVE  /\ [x EXCEPT !.pc = p] \in RefreshLocals
             /\ [x EXCEPT !.pc = p, !.min = n] \in RefreshLocals
             /\ [x EXCEPT !.pc = p, !.cfg = c] \in RefreshLocals
  BY DEF RefreshLocals
<1>3. QED
  BY <1>1, <1>2

(* The locals stay typed when one request's are replaced by typed ones.    *)
LEMMA RefreshLocalsStep ==
  ASSUME TypeOK, NEW r \in Refreshers, NEW x \in RefreshLocals,
         refresh' = [refresh EXCEPT ![r] = x]
  PROVE  refresh' \in [Refreshers -> RefreshLocals]
  BY DEF TypeOK

(* A refresh under way has read a row that was inserted, and has removed   *)
(* it when it inserts another.                                             *)
HoldsRow ==
    \A r \in Refreshers :
        InFlight(r) => /\ refresh[r].tok \in TokenIds
                       /\ InUse(refresh[r].tok)
                       /\ refresh[r].pc = "save" =>
                            tokens[refresh[r].tok].st = "deleted"

LEMMA RefreshTypeOK ==
  ASSUME TypeOK, HoldsRow, NEW r \in Refreshers,
         \/ \E t \in TokenIds : RefreshFind(r, t)
         \/ RefreshReadUser(r) \/ RefreshCacheGet(r) \/ RefreshDbGet(r)
         \/ RefreshCacheSet(r) \/ RefreshCheck(r) \/ RefreshSelectOld(r)
         \/ RefreshCrash(r)
  PROVE  TypeOK'
<1>0. /\ refresh[r] \in RefreshLocals
      /\ config \in Configs /\ cache \in Configs
      /\ refresh[r].pc # "idle" => refresh[r].tok \in TokenIds
  BY DEF TypeOK, HoldsRow, InFlight
<1>1. \E x \in RefreshLocals : refresh' = [refresh EXCEPT ![r] = x]
  <2>1. CASE \E t \in TokenIds : RefreshFind(r, t)
    BY <2>1, RefreshLocalsTypes DEF RefreshFind
  <2>2. CASE RefreshReadUser(r)
    <3>1. userMin[OwnerOfToken(refresh[r].tok)] \in Nat
      BY <1>0, <2>2 DEF RefreshReadUser, TypeOK, OwnerOfToken, Rows
    <3>2. QED
      BY <1>0, <2>2, <3>1, RefreshLocalsTypes DEF RefreshReadUser, RefreshPcs
  <2>3. CASE RefreshCacheGet(r)
    BY <1>0, <2>3, RefreshLocalsTypes DEF RefreshCacheGet, RefreshPcs
  <2>4. CASE RefreshDbGet(r)
    BY <1>0, <2>4, RefreshLocalsTypes DEF RefreshDbGet, RefreshPcs
  <2>5. CASE RefreshCacheSet(r)
    BY <1>0, <2>5, RefreshLocalsTypes DEF RefreshCacheSet, RefreshPcs
  <2>6. CASE RefreshCheck(r)
    BY <1>0, <2>6, RefreshLocalsTypes DEF RefreshCheck, RefreshPcs
  <2>7. CASE RefreshSelectOld(r)
    BY <1>0, <2>7, RefreshLocalsTypes DEF RefreshSelectOld, RefreshPcs
  <2>8. CASE RefreshCrash(r)
    BY <1>0, <2>8, RefreshLocalsTypes DEF RefreshCrash
  <2>9. QED
    BY <2>1, <2>2, <2>3, <2>4, <2>5, <2>6, <2>7, <2>8
<1>2. refresh' \in [Refreshers -> RefreshLocals]
  BY <1>1, RefreshLocalsStep
<1>3. /\ cache' \in Configs
      /\ UNCHANGED <<config, userMin, tokens, now, login, rotate, userRotate,
                     revoke, origin>>
  BY <1>0, RefreshLocalsTypes
     DEF shared, RefreshFind, RefreshReadUser, RefreshCacheGet, RefreshDbGet,
         RefreshCacheSet, RefreshCheck, RefreshSelectOld, RefreshCrash,
         RefreshLocals
<1>4. QED
  BY <1>2, <1>3 DEF TypeOK

LEMMA RefreshWriteTypeOK ==
  ASSUME TypeOK, HoldsRow, NEW r \in Refreshers,
         RefreshDelete(r) \/ RefreshSave(r)
  PROVE  TypeOK'
<1>0. /\ refresh[r] \in RefreshLocals /\ refresh[r].cfg.ver \in Nat
      /\ refresh[r].tok \in TokenIds
      /\ tokens[refresh[r].tok] \in Rows
  BY DEF TypeOK, HoldsRow, InFlight, RefreshDelete, RefreshSave, RefreshLocals,
         Configs
<1>1. CASE RefreshDelete(r)
  <2>1. tokens' \in [TokenIds -> Rows]
    <3>1. [tokens[refresh[r].tok] EXCEPT !.st = "deleted"] \in Rows
      BY <1>0 DEF Rows, RowStates
    <3>2. QED
      BY <1>0, <1>1, <3>1 DEF TypeOK, RefreshDelete
  <2>2. refresh' \in [Refreshers -> RefreshLocals]
    <3>1. [refresh[r] EXCEPT !.pc = "save"] \in RefreshLocals
      BY <1>0 DEF RefreshPcs, RefreshLocals
    <3>2. QED
      BY <1>1, <3>1, RefreshLocalsStep DEF RefreshDelete
  <2>3. QED
    BY <1>1, <2>1, <2>2 DEF TypeOK, RefreshDelete
<1>2. CASE RefreshSave(r)
  <2>1. /\ tokens' \in [TokenIds -> Rows]
        /\ origin' \in [TokenIds -> TokenIds \cup {0}]
    <3>1. tokens[refresh[r].tok].sess \in Sessions
      BY <1>0 DEF Rows
    <3>2. Insert(tokens[refresh[r].tok].sess, refresh[r].cfg.ver, refresh[r].tok)
      BY <1>2 DEF RefreshSave
    <3>3. QED
      BY <1>0, <3>1, <3>2, InsertTypeOK
  <2>2. refresh' \in [Refreshers -> RefreshLocals]
    BY <1>2, RefreshLocalsTypes, RefreshLocalsStep DEF RefreshSave
  <2>3. QED
    BY <1>2, <2>1, <2>2 DEF TypeOK, RefreshSave
<1>3. QED
  BY <1>1, <1>2

LEMMA LoginTypeOK ==
  ASSUME TypeOK, NEW l \in Logins,
         (\E s \in Sessions : LoginReadConfig(l, s)) \/ LoginSave(l)
  PROVE  TypeOK'
<1>1. CASE \E s \in Sessions : LoginReadConfig(l, s)
  BY <1>1 DEF TypeOK, LoginReadConfig, LoginLocals, Configs, shared
<1>2. CASE LoginSave(l)
  <2>1. login[l] \in LoginLocals /\ LoginIdle \in LoginLocals
    BY AnyInRange DEF TypeOK, LoginIdle, LoginLocals
  <2>2. /\ tokens' \in [TokenIds -> Rows]
        /\ origin' \in [TokenIds -> TokenIds \cup {0}]
    BY <1>2, <2>1, InsertTypeOK DEF LoginSave, LoginLocals
  <2>3. QED
    BY <1>2, <2>1, <2>2 DEF TypeOK, LoginSave
<1>3. QED
  BY <1>1, <1>2

LEMMA RotateTypeOK ==
  ASSUME TypeOK, NEW g \in Rotators,
         RotateRead(g) \/ RotateStep(g) \/ RotateCrash(g)
  PROVE  TypeOK'
<1>0. /\ rotate[g] \in RotateLocals /\ RotateIdle \in RotateLocals
      /\ config.ver \in Nat /\ now \in Nat /\ NoConfig \in Configs
      /\ \A p \in {"select", "commit", "invalidate"} :
           [rotate[g] EXCEPT !.pc = p] \in RotateLocals
  BY DEF TypeOK, RotateLocals, RotateIdle, Configs, NoConfig, Never
<1>1. ~RotateCommit(g) =>
        \E x \in RotateLocals : rotate' = [rotate EXCEPT ![g] = x]
  <2>1. CASE RotateRead(g)
    <3>1. [pc |-> "select", new |-> config.ver + 1, at |-> now,
           raced |-> FALSE] \in RotateLocals
      BY <1>0 DEF RotateLocals
    <3>2. QED
      BY <1>0, <2>1, <3>1 DEF RotateRead
  <2>2. CASE RotateSelect(g) \/ RotateInvalidate(g) \/ RotateCrash(g)
    BY <1>0, <2>2 DEF RotateSelect, RotateInvalidate, RotateCrash
  <2>3. QED
    BY <2>1, <2>2 DEF RotateStep
<1>2. rotate' \in [Rotators -> RotateLocals]
  <2>1. CASE RotateCommit(g)
    <3>1. /\ [RotateIdle EXCEPT !.pc = "invalidate"] \in RotateLocals
          /\ \A h \in Rotators :
               [rotate[h] EXCEPT !.raced = (rotate[h].pc = "commit")]
                 \in RotateLocals
      BY <1>0 DEF TypeOK, RotateLocals
    <3>2. QED
      BY <2>1, <3>1 DEF RotateCommit
  <2>2. QED
    BY <1>1, <2>1 DEF TypeOK
<1>3. config' \in Configs /\ cache' \in Configs
  BY <1>0 DEF TypeOK, shared, RotateRead, RotateStep, RotateSelect,
              RotateCommit, RotateInvalidate, RotateCrash, RotateLocals, Configs
<1>4. UNCHANGED <<userMin, tokens, now, refresh, login, userRotate, revoke,
                  origin>>
  BY DEF shared, RotateRead, RotateStep, RotateSelect, RotateCommit,
         RotateInvalidate, RotateCrash
<1>5. QED
  BY <1>2, <1>3, <1>4 DEF TypeOK

LEMMA UserRotateTypeOK ==
  ASSUME TypeOK, NEW g \in UserRotators,
         \/ \E u \in Users : UserRotateRead(g, u)
         \/ UserRotateSelect(g) \/ UserRotateCommit(g)
  PROVE  TypeOK'
<1>0. /\ userRotate[g] \in UserRotateLocals
      /\ UserRotateIdle \in UserRotateLocals
  BY AnyInRange DEF TypeOK, UserRotateIdle, UserRotateLocals
<1>1. CASE \E u \in Users : UserRotateRead(g, u)
  BY <1>1 DEF TypeOK, UserRotateRead, UserRotateLocals, shared
<1>2. CASE UserRotateSelect(g)
  <2>1. [userRotate[g] EXCEPT !.pc = "commit",
                              !.seen = userMin[userRotate[g].user]]
          \in UserRotateLocals
    BY <1>0 DEF TypeOK, UserRotateLocals
  <2>2. QED
    BY <1>2, <2>1 DEF TypeOK, UserRotateSelect, shared
<1>3. CASE UserRotateCommit(g)
  BY <1>0, <1>3 DEF TypeOK, UserRotateCommit, UserRotateLocals
<1>4. QED
  BY <1>1, <1>2, <1>3

LEMMA RevokeTypeOK ==
  ASSUME TypeOK, NEW v \in Revokers,
         \/ \E t \in TokenIds : LogoutFind(v, t)
         \/ LogoutSelect(v) \/ (\E u \in Users : ResetSelect(v, u))
         \/ RevokeCommit(v)
  PROVE  TypeOK'
<1>0. RevokeIdle \in RevokeLocals
  BY AnyInRange DEF RevokeIdle, RevokeLocals
<1>2. CASE \E t \in TokenIds : LogoutFind(v, t)
  <2>1. \A s \in Sessions :
          [RevokeIdle EXCEPT !.pc = "select", !.sess = s] \in RevokeLocals
    BY AnyInRange DEF RevokeIdle, RevokeLocals
  <2>2. \A t \in TokenIds : tokens[t].sess \in Sessions
    BY DEF TypeOK, Rows
  <2>3. \E x \in RevokeLocals : revoke' = [revoke EXCEPT ![v] = x]
    BY <1>2, <2>1, <2>2 DEF LogoutFind
  <2>4. QED
    BY <1>2, <2>3 DEF TypeOK, LogoutFind, shared
<1>3. CASE LogoutSelect(v) \/ \E u \in Users : ResetSelect(v, u)
  <2>1. ASSUME NEW S
        PROVE  [pc |-> "commit", sess |-> AnySession, sel |-> LiveRows(S),
                seen |-> StoredRows(S)] \in RevokeLocals
    BY AnyInRange DEF LiveRows, StoredRows, RevokeLocals
  <2>2. \E x \in RevokeLocals : revoke' = [revoke EXCEPT ![v] = x]
    BY <1>3, <2>1 DEF LogoutSelect, ResetSelect, Select
  <2>3. QED
    BY <1>3, <2>2 DEF TypeOK, LogoutSelect, ResetSelect, shared
<1>4. CASE RevokeCommit(v)
  <2>1. \A t \in TokenIds : [tokens[t] EXCEPT !.st = "revoked"] \in Rows
    BY DEF TypeOK, Rows, RowStates
  <2>2. tokens' \in [TokenIds -> Rows]
    BY <1>4, <2>1 DEF TypeOK, RevokeCommit
  <2>3. QED
    BY <1>0, <1>4, <2>2 DEF TypeOK, RevokeCommit
<1>5. QED
  BY <1>2, <1>3, <1>4

LEMMA TimeTypeOK ==
  ASSUME TypeOK, Tick \/ (\E t \in TokenIds : TokenExpires(t)) \/ CacheExpires
  PROVE  TypeOK'
<1>1. CASE Tick
  BY <1>1 DEF TypeOK, Tick
<1>2. CASE \E t \in TokenIds : TokenExpires(t)
  <2>1. \A t \in TokenIds : [tokens[t] EXCEPT !.st = "expired"] \in Rows
    BY DEF TypeOK, Rows, RowStates
  <2>2. QED
    BY <1>2, <2>1 DEF TypeOK, TokenExpires
<1>3. CASE CacheExpires
  BY <1>3 DEF TypeOK, CacheExpires, NoConfig, Configs, Never
<1>4. QED
  BY <1>1, <1>2, <1>3

----------------------------------------------------------------------------
(* HoldsRow is inductive with TypeOK: a row once inserted keeps its        *)
(* session and its versions, one that is not live never becomes live, and  *)
(* a deleted one stays deleted.                                            *)

RowsPersist ==
    \A t \in TokenIds :
        /\ InUse(t) => /\ tokens'[t].st # "free"
                       /\ tokens'[t].sess = tokens[t].sess
                       /\ tokens'[t].ver = tokens[t].ver
                       /\ tokens'[t].gver = tokens[t].gver
        /\ (InUse(t) /\ tokens[t].st \notin Live) => tokens'[t].st \notin Live
        /\ tokens[t].st = "deleted" => tokens'[t].st = "deleted"

LEMMA InsertPersists ==
  ASSUME TypeOK, NEW s, NEW v, NEW from, Insert(s, v, from)
  PROVE  RowsPersist
  BY FreeIdIsFree DEF Insert, RowsPersist, InUse, Live, TypeOK, Rows

(* The only steps that write the refresh_tokens table, or its history.     *)
LEMMA TokenWriters ==
  ASSUME [Next]_vars
  PROVE  \/ UNCHANGED <<tokens, origin>>
         \/ \E r \in Refreshers : RefreshDelete(r) \/ RefreshSave(r)
         \/ \E l \in Logins : LoginSave(l)
         \/ \E v \in Revokers : RevokeCommit(v)
         \/ \E t \in TokenIds : TokenExpires(t)
<1>1. ASSUME NEW r \in Refreshers,
             \/ \E t \in TokenIds : RefreshFind(r, t)
             \/ RefreshReadUser(r) \/ RefreshCacheGet(r) \/ RefreshDbGet(r)
             \/ RefreshCacheSet(r) \/ RefreshCheck(r) \/ RefreshSelectOld(r)
             \/ RefreshCrash(r)
      PROVE  UNCHANGED <<tokens, origin>>
  BY <1>1 DEF RefreshFind, RefreshReadUser, RefreshCacheGet, RefreshDbGet,
              RefreshCacheSet, RefreshCheck, RefreshSelectOld, RefreshCrash,
              shared
<1>2. ASSUME \/ \E l \in Logins, s \in Sessions : LoginReadConfig(l, s)
             \/ \E g \in Rotators :
                  RotateRead(g) \/ RotateStep(g) \/ RotateCrash(g)
             \/ \E g \in UserRotators :
                  \/ \E u \in Users : UserRotateRead(g, u)
                  \/ UserRotateSelect(g) \/ UserRotateCommit(g)
             \/ \E v \in Revokers :
                  \/ \E t \in TokenIds : LogoutFind(v, t)
                  \/ LogoutSelect(v)
                  \/ \E u \in Users : ResetSelect(v, u)
             \/ Tick \/ CacheExpires
      PROVE  UNCHANGED <<tokens, origin>>
  BY <1>2 DEF LoginReadConfig, RotateRead, RotateStep, RotateSelect,
              RotateCommit, RotateInvalidate, RotateCrash, UserRotateRead,
              UserRotateSelect, UserRotateCommit, LogoutFind, LogoutSelect,
              ResetSelect, Tick, CacheExpires, shared
<1>3. QED
  BY <1>1, <1>2 DEF Next, RefreshStep, vars, shared

LEMMA StepPersists ==
  ASSUME TypeOK, HoldsRow, [Next]_vars
  PROVE  RowsPersist
<1>1. CASE UNCHANGED tokens
  BY <1>1 DEF RowsPersist, InUse, Live
<1>2. ASSUME NEW r \in Refreshers, RefreshDelete(r)
      PROVE  RowsPersist
  BY <1>2 DEF RefreshDelete, RowsPersist, InUse, Live, TypeOK, Rows, HoldsRow,
              InFlight
<1>3. ASSUME NEW r \in Refreshers, RefreshSave(r)
      PROVE  RowsPersist
  BY <1>3, InsertPersists DEF RefreshSave
<1>4. ASSUME NEW l \in Logins, LoginSave(l)
      PROVE  RowsPersist
  BY <1>4, InsertPersists DEF LoginSave
<1>5. ASSUME NEW v \in Revokers, RevokeCommit(v)
      PROVE  RowsPersist
  <2>1. revoke[v].sel \subseteq TokenIds
    BY DEF TypeOK, RevokeLocals
  <2>2. CASE UNCHANGED tokens
    BY <2>2, <1>1
  <2>3. QED
    BY <1>5, <2>1, <2>2 DEF RevokeCommit, RowsPersist, InUse, Live, TypeOK, Rows
<1>6. ASSUME NEW t \in TokenIds, TokenExpires(t)
      PROVE  RowsPersist
  BY <1>6 DEF TokenExpires, RowsPersist, InUse, Live, TypeOK, Rows
<1>7. QED
  BY <1>1, <1>2, <1>3, <1>4, <1>5, <1>6, TokenWriters

LEMMA StepTypeOK ==
  ASSUME TypeOK, HoldsRow, [Next]_vars
  PROVE  TypeOK'
<1>1. CASE UNCHANGED vars
  BY <1>1 DEF TypeOK, vars, shared
<1>2. CASE Next
  BY <1>2, RefreshTypeOK, RefreshWriteTypeOK, LoginTypeOK, RotateTypeOK,
     UserRotateTypeOK, RevokeTypeOK, TimeTypeOK DEF Next, RefreshStep
<1>3. QED
  BY <1>1, <1>2

(* Only a request's own steps change its locals.                           *)
LEMMA RefreshActsOnItself ==
  ASSUME TypeOK, [Next]_vars, NEW r \in Refreshers, refresh'[r] # refresh[r]
  PROVE  \/ \E t \in TokenIds : RefreshFind(r, t)
         \/ RefreshStep(r) \/ RefreshCrash(r)
<1>1. refresh' # refresh
  OBVIOUS
<1>2. PICK q \in Refreshers : \/ \E t \in TokenIds : RefreshFind(q, t)
                              \/ RefreshStep(q) \/ RefreshCrash(q)
  BY <1>1
     DEF Next, vars, LoginReadConfig, LoginSave, RotateRead, RotateStep,
         RotateSelect, RotateCommit, RotateInvalidate, RotateCrash,
         UserRotateRead, UserRotateSelect, UserRotateCommit, LogoutFind,
         LogoutSelect, ResetSelect, RevokeCommit, Tick, TokenExpires,
         CacheExpires
<1>3. q # r => refresh'[r] = refresh[r]
  BY <1>2 DEF TypeOK, RefreshStep, RefreshFind, RefreshReadUser,
              RefreshCacheGet, RefreshDbGet, RefreshCacheSet, RefreshCheck,
              RefreshSelectOld, RefreshDelete, RefreshSave, RefreshCrash
<1>4. QED
  BY <1>2, <1>3

LEMMA StepHoldsRow ==
  ASSUME TypeOK, HoldsRow, [Next]_vars
  PROVE  HoldsRow'
<1> DEFINE Holds(r) == /\ refresh'[r].tok \in TokenIds
                       /\ tokens'[refresh'[r].tok].st # "free"
                       /\ refresh'[r].pc = "save" =>
                            tokens'[refresh'[r].tok].st = "deleted"
<1>1. SUFFICES ASSUME NEW r \in Refreshers, refresh'[r].pc # "idle"
               PROVE  Holds(r)
  BY DEF HoldsRow, InFlight, InUse
<1>2. RowsPersist
  BY StepPersists
<1>3. /\ refresh[r] \in RefreshLocals
      /\ \A x \in RefreshLocals :
           refresh' = [refresh EXCEPT ![r] = x] => refresh'[r] = x
  BY DEF TypeOK
<1>4. refresh[r].pc # "idle" =>
        /\ refresh[r].tok \in TokenIds /\ InUse(refresh[r].tok)
        /\ refresh[r].pc = "save" => tokens[refresh[r].tok].st = "deleted"
  BY DEF HoldsRow, InFlight
<1>5. CASE refresh'[r] = refresh[r]
  <2>1. refresh[r].pc # "idle"
    BY <1>1, <1>5
  <2>2. QED
    BY <1>2, <1>4, <1>5, <2>1 DEF RowsPersist, InUse
<1>6. ASSUME NEW t \in TokenIds, RefreshFind(r, t)
      PROVE  Holds(r)
  <2>1. refresh'[r].tok = t /\ refresh'[r].pc = "user" /\ tokens' = tokens
    BY <1>6 DEF RefreshFind, TypeOK, RefreshIdle, shared
  <2>2. QED
    BY <1>6, <2>1 DEF RefreshFind, InUse
<1>7. ASSUME \/ RefreshReadUser(r) \/ RefreshCacheGet(r) \/ RefreshDbGet(r)
             \/ RefreshCacheSet(r) \/ RefreshCheck(r) \/ RefreshSelectOld(r)
      PROVE  Holds(r)
  <2>1. /\ refresh[r].pc \notin {"idle", "save"}
        /\ refresh'[r].tok = refresh[r].tok
        /\ refresh'[r].pc # "save"
        /\ tokens' = tokens
    <3>1. CASE RefreshReadUser(r) \/ RefreshCacheGet(r) \/ RefreshDbGet(r)
      BY <1>1, <1>3, <3>1
         DEF RefreshReadUser, RefreshCacheGet, RefreshDbGet, TypeOK,
             RefreshLocals, shared
    <3>2. CASE RefreshCacheSet(r)
      BY <1>3, <3>2 DEF RefreshCacheSet, TypeOK, RefreshLocals
    <3>3. CASE RefreshCheck(r) \/ RefreshSelectOld(r)
      BY <1>1, <1>3, <3>3
         DEF RefreshCheck, RefreshSelectOld, TypeOK, RefreshLocals,
             RefreshIdle, shared
    <3>4. QED
      BY <1>7, <3>1, <3>2, <3>3
  <2>2. QED
    BY <1>4, <2>1 DEF InUse
<1>8. ASSUME RefreshDelete(r)
      PROVE  Holds(r)
  <2>1. /\ refresh[r].pc = "delete"
        /\ refresh'[r].tok = refresh[r].tok
    BY <1>3, <1>8 DEF RefreshDelete, TypeOK, RefreshLocals
  <2>2. tokens'[refresh[r].tok].st = "deleted"
    BY <1>4, <1>8, <2>1 DEF RefreshDelete, TypeOK, Rows
  <2>3. QED
    BY <1>4, <2>1, <2>2 DEF InUse
<1>9. ~RefreshSave(r) /\ ~RefreshCrash(r)
  BY <1>1, <1>3 DEF RefreshSave, RefreshCrash, RefreshIdle, TypeOK
<1>10. QED
  BY <1>5, <1>6, <1>7, <1>8, <1>9, RefreshActsOnItself DEF RefreshStep

(* The part of the inductive invariant every result below rests on.        *)
Base == TypeOK /\ HoldsRow

LEMMA BaseInvariant == Spec => []Base
<1>1. Init => Base
  BY InitTypeOK DEF Init, Base, HoldsRow, InFlight, RefreshIdle
<1>2. Base /\ [Next]_vars => Base'
  BY StepTypeOK, StepHoldsRow DEF Base
<1>3. QED
  BY <1>1, <1>2, PTL DEF Spec

(* Every table, cache entry and request of the model holds values of its   *)
(* type: in particular a refresh never uses a row it has not found.        *)
THEOREM TypeCorrect == Spec => []TypeOK
<1>1. Base => TypeOK
  BY DEF Base
<1>2. QED
  BY <1>1, BaseInvariant, PTL

----------------------------------------------------------------------------
(* Delete before save.                                                     *)

ReplacedGone ==
    \A t \in TokenIds :
        origin[t] # 0 => InUse(origin[t]) /\ tokens[origin[t]].st \notin Live

LEMMA OriginStep ==
  ASSUME Base, [Next]_vars, NEW t \in TokenIds
  PROVE  \/ origin'[t] \in {0, origin[t]}
         \/ \E r \in Refreshers : /\ refresh[r].pc = "save"
                                  /\ origin'[t] = refresh[r].tok
<1>1. CASE UNCHANGED origin
  BY <1>1
<1>2. ASSUME NEW r \in Refreshers, RefreshSave(r)
      PROVE  \/ origin'[t] = origin[t]
             \/ refresh[r].pc = "save" /\ origin'[t] = refresh[r].tok
  BY <1>2 DEF RefreshSave, Insert, Base, TypeOK
<1>3. ASSUME NEW l \in Logins, LoginSave(l)
      PROVE  origin'[t] \in {0, origin[t]}
  BY <1>3 DEF LoginSave, Insert, Base, TypeOK
<1>4. QED
  BY <1>1, <1>2, <1>3
     DEF Next, vars, shared, RefreshStep, RefreshFind, RefreshReadUser,
         RefreshCacheGet, RefreshDbGet, RefreshCacheSet, RefreshCheck,
         RefreshSelectOld, RefreshDelete, RefreshCrash, LoginReadConfig,
         RotateRead, RotateStep, RotateSelect, RotateCommit, RotateInvalidate,
         RotateCrash, UserRotateRead, UserRotateSelect, UserRotateCommit,
         LogoutFind, LogoutSelect, ResetSelect, RevokeCommit, Tick,
         TokenExpires, CacheExpires

LEMMA ReplacedInvariant == Spec => []ReplacedGone
<1>1. Init => ReplacedGone
  BY DEF Init, ReplacedGone
<1>2. ASSUME Base, ReplacedGone, [Next]_vars
      PROVE  ReplacedGone'
  <2>1. SUFFICES ASSUME NEW t \in TokenIds, origin'[t] # 0
                 PROVE  /\ tokens'[origin'[t]].st # "free"
                        /\ tokens'[origin'[t]].st \notin Live
    BY DEF ReplacedGone, InUse
  <2>2. RowsPersist /\ origin[t] \in TokenIds \cup {0}
    BY <1>2, StepPersists DEF Base, TypeOK
  <2>3. CASE origin'[t] = origin[t]
    BY <1>2, <2>1, <2>2, <2>3 DEF ReplacedGone, RowsPersist, InUse
  <2>4. ASSUME NEW r \in Refreshers, refresh[r].pc = "save",
               origin'[t] = refresh[r].tok
        PROVE  tokens'[origin'[t]].st = "deleted"
    BY <1>2, <2>2, <2>4 DEF Base, HoldsRow, InFlight, RowsPersist
  <2>5. QED
    BY <1>2, <2>1, <2>3, <2>4, OriginStep DEF Live
<1>3. QED
  BY <1>1, <1>2, BaseInvariant, PTL DEF Spec

(* A token that has been replaced can never be presented again, whatever   *)
(* crashes and interleavings: the order delete, then save, is enough.      *)
THEOREM ReplacementSafe == Spec => []ReplacedTokenIsGone
<1>1. ReplacedGone => ReplacedTokenIsGone
  BY DEF ReplacedGone, ReplacedTokenIsGone
<1>2. QED
  BY <1>1, ReplacedInvariant, PTL

----------------------------------------------------------------------------
(* The two implementations of the version rule.                            *)

VersionsEqual == \A t \in TokenIds : tokens[t].gver = tokens[t].ver

LEMMA StepVersionsEqual ==
  ASSUME Base, VersionsEqual, [Next]_vars
  PROVE  VersionsEqual'
<1> USE DEF Base, TypeOK, Rows, VersionsEqual
<1>1. CASE UNCHANGED tokens
  BY <1>1
<1>2. ASSUME NEW s, NEW v, NEW from, Insert(s, v, from)
      PROVE  VersionsEqual'
  BY <1>2 DEF Insert
<1>3. ASSUME NEW r \in Refreshers, RefreshDelete(r)
      PROVE  VersionsEqual'
  BY <1>3 DEF RefreshDelete
<1>4. ASSUME NEW v \in Revokers, RevokeCommit(v)
      PROVE  VersionsEqual'
  BY <1>4 DEF RevokeCommit
<1>5. ASSUME NEW t \in TokenIds, TokenExpires(t)
      PROVE  VersionsEqual'
  BY <1>5 DEF TokenExpires
<1>6. \/ UNCHANGED tokens
      \/ \E r \in Refreshers : RefreshDelete(r) \/ RefreshSave(r)
      \/ \E l \in Logins : LoginSave(l)
      \/ \E v \in Revokers : RevokeCommit(v)
      \/ \E t \in TokenIds : TokenExpires(t)
  BY TokenWriters
<1>7. QED
  BY <1>1, <1>2, <1>3, <1>4, <1>5, <1>6 DEF RefreshSave, LoginSave

(* On every reachable token, the handler's rule and the entity's agree.    *)
THEOREM OneVersionRule == Spec => []RulesAgree
<1>1. Init => VersionsEqual
  BY DEF Init, VersionsEqual
<1>2. Base /\ VersionsEqual /\ [Next]_vars => VersionsEqual'
  BY StepVersionsEqual
<1>3. Base /\ VersionsEqual => RulesAgree
  BY DEF Base, TypeOK, VersionsEqual, RulesAgree, HandlerRejects,
         EntityRejects
<1>4. QED
  BY <1>1, <1>2, <1>3, BaseInvariant, PTL DEF Spec

----------------------------------------------------------------------------
(* No copy of the global version gets ahead of the row, and the row does   *)
(* not go back, but for a rotation that another one overtook.              *)

(* A rotation that was not overtaken since it selected is about to write a *)
(* version above the row's.                                                *)
Rising ==
    \A g \in Rotators :
        (rotate[g].pc = "commit" /\ ~rotate[g].raced)
          => rotate[g].new > config.ver

LEMMA ConfigWriters ==
  ASSUME [Next]_vars
  PROVE  UNCHANGED config \/ \E g \in Rotators : RotateCommit(g)
<1>1. ASSUME NEW r \in Refreshers,
             \/ \E t \in TokenIds : RefreshFind(r, t)
             \/ RefreshStep(r) \/ RefreshCrash(r)
      PROVE  UNCHANGED config
  BY <1>1 DEF RefreshFind, RefreshStep, RefreshReadUser, RefreshCacheGet,
              RefreshDbGet, RefreshCacheSet, RefreshCheck, RefreshSelectOld,
              RefreshDelete, RefreshSave, RefreshCrash, shared
<1>2. QED
  BY <1>1
     DEF Next, vars, shared, LoginReadConfig, LoginSave, RotateRead,
         RotateStep, RotateSelect, RotateInvalidate, RotateCrash,
         UserRotateRead, UserRotateSelect, UserRotateCommit, LogoutFind,
         LogoutSelect, ResetSelect, RevokeCommit, Tick, TokenExpires,
         CacheExpires

LEMMA StepRising ==
  ASSUME Base, Rising, [Next]_vars
  PROVE  Rising' /\ (Overtaken \/ config'.ver >= config.ver)
<1>0. config.ver \in Nat /\ rotate \in [Rotators -> RotateLocals]
  BY DEF Base, TypeOK, Configs
<1>1. CASE UNCHANGED <<config, rotate>>
  BY <1>0, <1>1 DEF Rising
<1>2. ASSUME NEW g \in Rotators,
             \/ RotateRead(g) \/ RotateSelect(g) \/ RotateInvalidate(g)
             \/ RotateCrash(g)
      PROVE  Rising' /\ config'.ver >= config.ver
  <2>1. /\ config' = config
        /\ \A h \in Rotators : h # g => rotate'[h] = rotate[h]
    BY <1>0, <1>2 DEF RotateRead, RotateSelect, RotateInvalidate, RotateCrash,
                      shared
  <2>2. rotate'[g].pc = "commit" => rotate'[g].new > config.ver
    <3>1. rotate[g] \in RotateLocals
      BY <1>0
    <3>2. CASE RotateSelect(g)
      <4>1. CASE rotate[g].new <= config.ver
        BY <1>0, <3>2, <4>1 DEF RotateSelect, RotateIdle
      <4>2. CASE ~(rotate[g].new <= config.ver)
        BY <1>0, <3>1, <3>2, <4>2 DEF RotateSelect, RotateLocals
      <4>3. QED
        BY <4>1, <4>2
    <3>3. CASE RotateRead(g) \/ RotateInvalidate(g) \/ RotateCrash(g)
      BY <1>0, <3>3 DEF RotateRead, RotateInvalidate, RotateCrash, RotateIdle
    <3>4. QED
      BY <1>2, <3>2, <3>3
  <2>3. QED
    BY <1>0, <2>1, <2>2 DEF Rising
<1>3. ASSUME NEW g \in Rotators, RotateCommit(g)
      PROVE  Rising' /\ (Overtaken \/ config'.ver >= config.ver)
  <2>1. /\ config'.ver = rotate[g].new /\ rotate[g].new \in Nat
        /\ rotate[g].pc = "commit" /\ rotate'[g].pc = "invalidate"
    BY <1>0, <1>3 DEF RotateCommit, RotateIdle, RotateLocals
  <2>2. ASSUME NEW h \in Rotators, h # g, rotate'[h].pc = "commit"
        PROVE  rotate'[h].raced
    BY <1>0, <1>3, <2>2 DEF RotateCommit, RotateLocals
  <2>3. Overtaken \/ config'.ver >= config.ver
    BY <1>0, <2>1 DEF Overtaken, Rising
  <2>4. QED
    BY <2>1, <2>2, <2>3 DEF Rising
<1>5. \/ UNCHANGED <<config, rotate>>
      \/ \E g \in Rotators : \/ RotateRead(g) \/ RotateSelect(g)
                             \/ RotateCommit(g) \/ RotateInvalidate(g)
                             \/ RotateCrash(g)
  BY ConfigWriters
     DEF Next, vars, shared, RefreshStep, RefreshFind, RefreshReadUser,
         RefreshCacheGet, RefreshDbGet, RefreshCacheSet, RefreshCheck,
         RefreshSelectOld, RefreshDelete, RefreshSave, RefreshCrash,
         LoginReadConfig, LoginSave, RotateStep, UserRotateRead,
         UserRotateSelect, UserRotateCommit, LogoutFind, LogoutSelect,
         ResetSelect, RevokeCommit, Tick, TokenExpires, CacheExpires
<1>6. QED
  BY <1>1, <1>2, <1>3, <1>5

(* The bound by the version of the row, for each copy.                     *)
CopiesBelow(n) ==
    /\ cache.ver <= n
    /\ \A t \in TokenIds : tokens[t].ver <= n
    /\ \A r \in Refreshers : refresh[r].cfg.ver <= n
    /\ \A l \in Logins : login[l].ver <= n

LEMMA RefreshCopies ==
  ASSUME Base, CopiesBelow(config.ver), NEW r \in Refreshers,
         (\E t \in TokenIds : RefreshFind(r, t)) \/ RefreshStep(r)
           \/ RefreshCrash(r)
  PROVE  /\ cache'.ver <= config.ver
         /\ \A q \in Refreshers : refresh'[q].cfg.ver <= config.ver
         /\ \A t \in TokenIds : tokens'[t].ver <= config.ver
         /\ login' = login
<1>1. /\ config.ver \in Nat /\ cache.ver \in Nat
      /\ refresh \in [Refreshers -> RefreshLocals]
      /\ refresh[r].cfg.ver <= config.ver
      /\ cache.ver <= config.ver
  BY DEF Base, TypeOK, Configs, CopiesBelow
<1>2. /\ cache' \in {cache, refresh[r].cfg}
      /\ login' = login
  BY DEF RefreshFind, RefreshStep, RefreshReadUser, RefreshCacheGet,
         RefreshDbGet, RefreshCacheSet, RefreshCheck, RefreshSelectOld,
         RefreshDelete, RefreshSave, RefreshCrash, shared
<1>3. ASSUME NEW q \in Refreshers
      PROVE  refresh'[q].cfg \in {refresh[q].cfg, NoConfig, cache, config}
  <2>1. CASE q # r
    BY <1>1, <2>1
       DEF RefreshFind, RefreshStep, RefreshReadUser, RefreshCacheGet,
           RefreshDbGet, RefreshCacheSet, RefreshCheck, RefreshSelectOld,
           RefreshDelete, RefreshSave, RefreshCrash
  <2>2. CASE RefreshReadUser(r)
    <3>1. refresh'[r].cfg = refresh[r].cfg
      BY <1>1, <2>2 DEF RefreshReadUser, RefreshLocals
    <3>2. QED
      BY <2>1, <3>1
  <2>3. CASE RefreshCacheGet(r) \/ RefreshDbGet(r)
    <3>1. refresh'[r].cfg \in {refresh[r].cfg, cache, config}
      BY <1>1, <2>3 DEF RefreshCacheGet, RefreshDbGet, RefreshLocals
    <3>2. QED
      BY <2>1, <3>1
  <2>4. CASE RefreshCacheSet(r) \/ RefreshDelete(r)
    <3>1. \E p \in RefreshPcs :
            refresh' = [refresh EXCEPT ![r] = [refresh[r] EXCEPT !.pc = p]]
      BY <2>4 DEF RefreshCacheSet, RefreshDelete, RefreshPcs
    <3>2. QED
      BY <1>1, <2>1, <3>1 DEF RefreshLocals
  <2>5. CASE \/ \E t \in TokenIds : RefreshFind(r, t)
             \/ RefreshSave(r) \/ RefreshCrash(r)
    <3>1. RefreshIdle.cfg = NoConfig
      BY DEF RefreshIdle
    <3>2. ASSUME NEW t \in TokenIds
          PROVE  [RefreshIdle EXCEPT !.pc = "user", !.tok = t].cfg = NoConfig
      BY DEF RefreshIdle
    <3>3. \E x : x.cfg = NoConfig /\ refresh' = [refresh EXCEPT ![r] = x]
      BY <2>5, <3>1, <3>2 DEF RefreshFind, RefreshSave, RefreshCrash
    <3>4. QED
      BY <1>1, <2>1, <3>3
  <2>6. CASE RefreshCheck(r) \/ RefreshSelectOld(r)
    <3>1. \E p \in RefreshPcs :
            refresh' \in
              {[refresh EXCEPT ![r] = [refresh[r] EXCEPT !.pc = p]],
               [refresh EXCEPT ![r] = RefreshIdle]}
      BY <2>6 DEF RefreshCheck, RefreshSelectOld, RefreshPcs
    <3>2. QED
      BY <1>1, <2>1, <3>1 DEF RefreshLocals, RefreshIdle
  <2>7. QED
    BY <2>2, <2>3, <2>4, <2>5, <2>6 DEF RefreshStep
<1>4. ASSUME NEW t \in TokenIds
      PROVE  tokens'[t].ver \in {tokens[t].ver, refresh[r].cfg.ver}
  <2>1. CASE RefreshSave(r)
    BY <2>1, FreeIdIsFree DEF RefreshSave, Insert, Base, TypeOK, Rows
  <2>2. CASE RefreshDelete(r)
    BY <2>2 DEF RefreshDelete, Base, TypeOK, Rows
  <2>3. CASE UNCHANGED tokens
    BY <2>3
  <2>4. QED
    BY <2>1, <2>2, <2>3
       DEF RefreshFind, RefreshStep, RefreshReadUser, RefreshCacheGet,
           RefreshDbGet, RefreshCacheSet, RefreshCheck, RefreshSelectOld,
           RefreshCrash, shared
<1>5. QED
  BY <1>1, <1>2, <1>3, <1>4 DEF NoConfig, CopiesBelow

LEMMA OtherCopies ==
  ASSUME Base, CopiesBelow(config.ver),
         \/ UNCHANGED vars
         \/ \E l \in Logins : \/ \E s \in Sessions : LoginReadConfig(l, s)
                              \/ LoginSave(l)
         \/ \E g \in Rotators : RotateRead(g) \/ RotateStep(g) \/ RotateCrash(g)
         \/ \E g \in UserRotators : \/ \E u \in Users : UserRotateRead(g, u)
                                    \/ UserRotateSelect(g)
                                    \/ UserRotateCommit(g)
         \/ \E v \in Revokers : \/ \E t \in TokenIds : LogoutFind(v, t)
                                \/ LogoutSelect(v)
                                \/ \E u \in Users : ResetSelect(v, u)
                                \/ RevokeCommit(v)
         \/ Tick \/ CacheExpires \/ \E t \in TokenIds : TokenExpires(t)
  PROVE  /\ cache'.ver <= config.ver
         /\ refresh' = refresh
         /\ \A t \in TokenIds : tokens'[t].ver <= config.ver
         /\ \A l \in Logins : login'[l].ver <= config.ver
<1>1. /\ config.ver \in Nat /\ cache.ver <= config.ver
      /\ \A l \in Logins : login[l].ver <= config.ver
      /\ \A t \in TokenIds : tokens[t].ver <= config.ver
  BY DEF Base, TypeOK, Configs, CopiesBelow
<1>2. cache' \in {cache, NoConfig} /\ refresh' = refresh
  BY DEF vars, shared, LoginReadConfig, LoginSave, RotateRead, RotateStep,
         RotateSelect, RotateCommit, RotateInvalidate, RotateCrash,
         UserRotateRead, UserRotateSelect, UserRotateCommit, LogoutFind,
         LogoutSelect, ResetSelect, RevokeCommit, Tick, TokenExpires,
         CacheExpires
<1>3. ASSUME NEW l \in Logins
      PROVE  login'[l].ver \in {login[l].ver, 0, config.ver}
  <2>1. ASSUME NEW m \in Logins,
               (\E s \in Sessions : LoginReadConfig(m, s)) \/ LoginSave(m)
        PROVE  login'[l].ver \in {login[l].ver, 0, config.ver}
    BY <2>1 DEF Base, TypeOK, LoginReadConfig, LoginSave, LoginIdle
  <2>2. CASE UNCHANGED login
    BY <2>2
  <2>3. QED
    BY <2>1, <2>2
       DEF vars, RotateRead, RotateStep, RotateSelect, RotateCommit,
           RotateInvalidate, RotateCrash, UserRotateRead, UserRotateSelect,
           UserRotateCommit, LogoutFind, LogoutSelect, ResetSelect,
           RevokeCommit, Tick, TokenExpires, CacheExpires
<1>4. ASSUME NEW t \in TokenIds
      PROVE  tokens'[t].ver <= config.ver
  <2>1. ASSUME NEW l \in Logins, LoginSave(l)
        PROVE  tokens'[t].ver \in {tokens[t].ver, login[l].ver}
    BY <2>1, FreeIdIsFree DEF LoginSave, Insert, Base, TypeOK, Rows
  <2>2. ASSUME NEW v \in Revokers, RevokeCommit(v)
        PROVE  tokens'[t].ver = tokens[t].ver
    BY <2>2 DEF RevokeCommit, Base, TypeOK, Rows
  <2>3. ASSUME NEW x \in TokenIds, TokenExpires(x)
        PROVE  tokens'[t].ver = tokens[t].ver
    BY <2>3 DEF TokenExpires, Base, TypeOK, Rows
  <2>4. CASE UNCHANGED tokens
    BY <1>1, <2>4
  <2>5. QED
    BY <1>1, <2>1, <2>2, <2>3, <2>4
       DEF vars, shared, LoginReadConfig, RotateRead, RotateStep,
           RotateSelect, RotateCommit, RotateInvalidate, RotateCrash,
           UserRotateRead, UserRotateSelect, UserRotateCommit, LogoutFind,
           LogoutSelect, ResetSelect, Tick, CacheExpires
<1>5. QED
  BY <1>1, <1>2, <1>3, <1>4 DEF NoConfig

LEMMA StepCopies ==
  ASSUME Base, Base', config'.ver >= config.ver, CopiesBelow(config.ver),
         [Next]_vars
  PROVE  NoVersionAhead'
<1>1. /\ cache'.ver <= config.ver
      /\ \A q \in Refreshers : refresh'[q].cfg.ver <= config.ver
      /\ \A t \in TokenIds : tokens'[t].ver <= config.ver
      /\ \A l \in Logins : login'[l].ver <= config.ver
  BY RefreshCopies, OtherCopies DEF Next, CopiesBelow
<1>2. /\ config.ver \in Nat /\ config'.ver \in Nat /\ cache'.ver \in Nat
      /\ \A q \in Refreshers : refresh'[q].cfg.ver \in Nat
      /\ \A t \in TokenIds : tokens'[t].ver \in Nat
      /\ \A l \in Logins : login'[l].ver \in Nat
  BY DEF Base, TypeOK, Configs, RefreshLocals, Rows, LoginLocals
<1>3. QED
  BY <1>1, <1>2 DEF NoVersionAhead

LEMMA RisingInvariant == Spec => [](Base /\ Rising)
<1>1. Init => Rising
  BY DEF Init, Rising, RotateIdle
<1>2. Base /\ Rising /\ [Next]_vars => Rising'
  BY StepRising
<1>3. QED
  BY <1>1, <1>2, BaseInvariant, PTL DEF Spec

(* The row's version goes back, and something gets ahead of it, only by a  *)
(* rotation that another one overtook between its select and its commit.   *)
THEOREM VersionsOnlyRise == Spec => VersionsBackOnlyByOverlap
<1> DEFINE Body == Overtaken \/ /\ config'.ver >= config.ver
                                /\ NoVersionAhead => NoVersionAhead'
<1>1. ASSUME Base, Base', Rising, [Next]_vars
      PROVE  Body
  <2>1. NoVersionAhead => CopiesBelow(config.ver)
    BY DEF NoVersionAhead, CopiesBelow
  <2>2. QED
    BY <1>1, <2>1, StepRising, StepCopies
<1>2. Base /\ Base' /\ Rising /\ [Next]_vars => [Body]_vars
  BY <1>1
<1>3. Spec => [][Body]_vars
  BY <1>2, RisingInvariant, PTL DEF Spec
<1>4. QED
  BY <1>3 DEF VersionsBackOnlyByOverlap

(* As long as no rotation overtakes another, nothing in the system ever    *)
(* holds a global version above the row's, however many rotations run.     *)
THEOREM VersionsNeverAhead ==
  Spec /\ [][~Overtaken]_vars => []NoVersionAhead
<1>1. Init => NoVersionAhead
  BY DEF Init, NoVersionAhead, FirstConfig, NoConfig, RefreshIdle, LoginIdle
<1>2. ASSUME Base, Base', Rising, [Next]_vars, [~Overtaken]_vars,
             NoVersionAhead
      PROVE  NoVersionAhead'
  <2>1. CopiesBelow(config.ver)
    BY <1>2 DEF NoVersionAhead, CopiesBelow
  <2>2. CASE UNCHANGED vars
    BY <1>2, <2>2 DEF vars, shared, NoVersionAhead
  <2>3. CASE ~Overtaken
    BY <1>2, <2>1, <2>3, StepRising, StepCopies
  <2>4. QED
    BY <1>2, <2>2, <2>3
<1>3. QED
  BY <1>1, <1>2, RisingInvariant, PTL DEF Spec

----------------------------------------------------------------------------
(* Refusal is final.                                                       *)

LEMMA StepTime ==
  ASSUME Base, [Next]_vars
  PROVE  now \in Nat /\ now' >= now
<1>1. now \in Nat
  BY DEF Base, TypeOK
<1>2. CASE Tick
  BY <1>1, <1>2 DEF Tick
<1>3. ASSUME NEW r \in Refreshers,
             \/ \E t \in TokenIds : RefreshFind(r, t)
             \/ RefreshStep(r) \/ RefreshCrash(r)
      PROVE  now' = now
  BY <1>3 DEF RefreshFind, RefreshStep, RefreshReadUser, RefreshCacheGet,
              RefreshDbGet, RefreshCacheSet, RefreshCheck, RefreshSelectOld,
              RefreshDelete, RefreshSave, RefreshCrash, shared
<1>4. ASSUME NEW l \in Logins,
             (\E s \in Sessions : LoginReadConfig(l, s)) \/ LoginSave(l)
      PROVE  now' = now
  BY <1>4 DEF LoginReadConfig, LoginSave, shared
<1>5. ASSUME NEW g \in Rotators,
             RotateRead(g) \/ RotateStep(g) \/ RotateCrash(g)
      PROVE  now' = now
  BY <1>5 DEF RotateRead, RotateStep, RotateSelect, RotateCommit,
              RotateInvalidate, RotateCrash, shared
<1>6. ASSUME NEW g \in UserRotators,
             \/ \E u \in Users : UserRotateRead(g, u)
             \/ UserRotateSelect(g) \/ UserRotateCommit(g)
      PROVE  now' = now
  BY <1>6 DEF UserRotateRead, UserRotateSelect, UserRotateCommit, shared
<1>7. ASSUME NEW v \in Revokers,
             \/ \E t \in TokenIds : LogoutFind(v, t)
             \/ LogoutSelect(v) \/ (\E u \in Users : ResetSelect(v, u))
             \/ RevokeCommit(v)
      PROVE  now' = now
  BY <1>7 DEF LogoutFind, LogoutSelect, ResetSelect, RevokeCommit, shared
<1>8. CacheExpires \/ (\E t \in TokenIds : TokenExpires(t)) => now' = now
  BY DEF CacheExpires, TokenExpires
<1>9. CASE Next
  <2>1. Tick \/ now' = now
    BY <1>3, <1>4, <1>5, <1>6, <1>7, <1>8, <1>9 DEF Next
  <2>2. QED
    BY <1>1, <1>2, <2>1
<1>10. CASE UNCHANGED vars
  BY <1>1, <1>10 DEF vars, shared
<1>11. QED
  BY <1>9, <1>10

LEMMA StepKeepsRefused ==
  ASSUME Base, Base', Rising, VersionsEqual, [Next]_vars, ~Overtaken,
         NEW t \in TokenIds, Refused(t),
         userMin[OwnerOfToken(t)] <= config.ver
  PROVE  Refused(t)'
<1> DEFINE row == tokens[t]
           min == userMin[OwnerOfToken(t)]
           min2 == userMin'[UserOf[tokens'[t].sess]]
<1>1. /\ tokens'[t].st # "free" /\ tokens'[t].sess = row.sess
      /\ tokens'[t].ver = row.ver /\ tokens'[t].gver = row.gver
      /\ row.gver = row.ver /\ row.ver \in Nat
  BY StepPersists DEF Base, RowsPersist, Refused, VersionsEqual, TypeOK, Rows
<1>2. /\ config.ver \in Nat /\ config'.ver \in Nat
      /\ config.rotatedAt \in Nat \cup {Never}
      /\ min \in Nat /\ min2 \in Nat /\ min <= config.ver
  <2>1. UserOf[row.sess] \in Users /\ UserOf[tokens'[t].sess] \in Users
    BY DEF Base, TypeOK, Rows
  <2>2. QED
    BY <2>1 DEF Base, TypeOK, Configs, OwnerOfToken
<1>3. HandlerRejects(row, config, min)
  BY DEF Refused
<1>4. row.ver < config.ver
  BY <1>1, <1>2, <1>3 DEF HandlerRejects, Required
<1>5. CASE config' = config
  <2>1. \/ ~(config'.rotatedAt # Never /\ now' - config'.rotatedAt <= Grace)
        \/ row.gver < config.ver - 1
    <3>1. ~WithinGrace(config) \/ row.gver < config.ver - 1
      BY <1>2, <1>3 DEF HandlerRejects, Required
    <3>2. now \in Nat /\ now' \in Nat /\ now' >= now /\ Grace \in Nat
      BY StepTime DEF Base, TypeOK
    <3>3. QED
      BY <1>2, <1>5, <3>1, <3>2 DEF WithinGrace, Never
  <2>2. QED
    BY <1>1, <1>2, <1>4, <1>5, <2>1
       DEF Refused, InUse, OwnerOfToken, HandlerRejects, WithinGrace, Required
<1>6. ASSUME NEW g \in Rotators, RotateCommit(g)
      PROVE  Refused(t)'
  <2>1. config'.ver > config.ver
    <3>1. /\ rotate[g] \in RotateLocals /\ config'.ver = rotate[g].new
          /\ rotate[g].pc = "commit" /\ rotate'[g].pc = "invalidate"
      BY <1>6 DEF RotateCommit, RotateIdle, Base, TypeOK
    <3>2. QED
      BY <3>1 DEF Rising, Overtaken
  <2>2. QED
    BY <1>1, <1>2, <1>4, <2>1
       DEF Refused, InUse, OwnerOfToken, HandlerRejects, Required
<1>7. QED
  BY <1>5, <1>6, ConfigWriters

(* No passing of time and no later rotation re-admits a token that the     *)
(* global version has ruled out, unless it overtook another rotation: a    *)
(* grace window covers one version back and no more.                       *)
THEOREM RefusalIsFinal == Spec => GloballyRefusedStaysRefused
<1> DEFINE Body == \A t \in TokenIds :
                     (Refused(t) /\ userMin[OwnerOfToken(t)] <= config.ver)
                       => Refused(t)' \/ Overtaken
<1>1. Init => VersionsEqual
  BY DEF Init, VersionsEqual
<1>2. Base /\ VersionsEqual /\ [Next]_vars => VersionsEqual'
  BY StepVersionsEqual
<1>3. Base /\ Base' /\ Rising /\ VersionsEqual /\ [Next]_vars => [Body]_vars
  BY StepKeepsRefused
<1>4. Spec => [][Body]_vars
  BY <1>1, <1>2, <1>3, RisingInvariant, PTL DEF Spec
<1>5. QED
  BY <1>4 DEF GloballyRefusedStaysRefused

----------------------------------------------------------------------------
(* A dead session stays dead.                                              *)

LEMMA InsertFills ==
  ASSUME Base, NEW s, NEW v, NEW from, Insert(s, v, from),
         NEW t \in TokenIds, tokens[t].st = "free",
         tokens'[t].st # "free"
  PROVE  tokens'[t].sess = s
  BY FreeIdIsFree DEF Insert, Base, TypeOK, Rows

(* A row that enters the table live has the session of a login or of the   *)
(* row that a refresh has just removed.                                    *)
LEMMA NewRowSession ==
  ASSUME Base, [Next]_vars, NEW t \in TokenIds, tokens[t].st = "free",
         tokens'[t].st \in Live
  PROVE  \/ \E r \in Refreshers :
              InFlight(r) /\ tokens'[t].sess = tokens[refresh[r].tok].sess
         \/ \E l \in Logins :
              login[l].pc = "save" /\ tokens'[t].sess = login[l].sess
<1>1. ASSUME NEW r \in Refreshers, RefreshDelete(r) PROVE FALSE
  BY <1>1 DEF RefreshDelete, Base, TypeOK, Rows, Live
<1>2. ASSUME NEW r \in Refreshers, RefreshSave(r)
      PROVE  InFlight(r) /\ tokens'[t].sess = tokens[refresh[r].tok].sess
  BY <1>2, InsertFills DEF RefreshSave, InFlight, Live
<1>3. ASSUME NEW l \in Logins, LoginSave(l)
      PROVE  login[l].pc = "save" /\ tokens'[t].sess = login[l].sess
  BY <1>3, InsertFills DEF LoginSave, Live
<1>4. ASSUME NEW v \in Revokers, RevokeCommit(v) PROVE FALSE
  BY <1>4 DEF RevokeCommit, Base, TypeOK, Rows, Live
<1>5. ASSUME NEW x \in TokenIds, TokenExpires(x) PROVE FALSE
  BY <1>5 DEF TokenExpires, Base, TypeOK, Rows, Live
<1>6. QED
  BY <1>1, <1>2, <1>3, <1>4, <1>5, TokenWriters DEF Live

LEMMA NewReadSession ==
  ASSUME Base, [Next]_vars, NEW r \in Refreshers, refresh'[r].pc # "idle"
  PROVE  \/ InFlight(r) /\ refresh'[r].tok = refresh[r].tok
         \/ /\ refresh'[r].tok \in TokenIds
            /\ tokens[refresh'[r].tok].st = "active"
            /\ tokens' = tokens
<1>0. refresh[r] \in RefreshLocals
  BY DEF Base, TypeOK
<1>1. CASE refresh'[r] = refresh[r]
  BY <1>1 DEF InFlight
<1>2. ASSUME NEW t \in TokenIds, RefreshFind(r, t)
      PROVE  /\ refresh'[r].tok = t /\ tokens[t].st = "active"
             /\ tokens' = tokens
  BY <1>2 DEF RefreshFind, Base, TypeOK, RefreshIdle, shared
<1>3. CASE RefreshReadUser(r)
  BY <1>0, <1>3 DEF RefreshReadUser, Base, TypeOK, RefreshLocals, InFlight
<1>4. CASE RefreshCacheGet(r) \/ RefreshDbGet(r)
  <2>1. refresh[r].pc # "idle"
    BY <1>4 DEF RefreshCacheGet, RefreshDbGet
  <2>2. \E p \in RefreshPcs, c \in {cache, config} :
          refresh'[r] \in {[refresh[r] EXCEPT !.pc = p],
                          [refresh[r] EXCEPT !.pc = p, !.cfg = c]}
    BY <1>4 DEF RefreshCacheGet, RefreshDbGet, Base, TypeOK, RefreshPcs
  <2>3. QED
    BY <1>0, <2>1, <2>2 DEF RefreshLocals, InFlight
<1>5. CASE RefreshCacheSet(r)
  BY <1>0, <1>5 DEF RefreshCacheSet, Base, TypeOK, RefreshLocals, InFlight
<1>6. CASE RefreshCheck(r) \/ RefreshSelectOld(r)
  <2>1. refresh'[r] # RefreshIdle
    BY DEF RefreshIdle
  <2>2. \/ refresh'[r] = RefreshIdle
        \/ /\ InFlight(r)
           /\ \E p \in RefreshPcs : refresh'[r] = [refresh[r] EXCEPT !.pc = p]
    BY <1>6 DEF RefreshCheck, RefreshSelectOld, Base, TypeOK, RefreshPcs,
                InFlight
  <2>3. QED
    BY <1>0, <2>1, <2>2 DEF RefreshLocals
<1>7. CASE RefreshDelete(r)
  BY <1>0, <1>7 DEF RefreshDelete, Base, TypeOK, RefreshLocals, InFlight
<1>8. ~RefreshSave(r) /\ ~RefreshCrash(r)
  BY DEF RefreshSave, RefreshCrash, RefreshIdle, Base, TypeOK
<1>9. QED
  BY <1>1, <1>2, <1>3, <1>4, <1>5, <1>6, <1>7, <1>8, RefreshActsOnItself
     DEF Base, RefreshStep

LEMMA NewLoginSession ==
  ASSUME Base, [Next]_vars, NEW l \in Logins, login'[l].pc = "save",
         login'[l] # login[l]
  PROVE  /\ NewSession(login'[l].sess)
         /\ \A m \in Logins \ {l} : login'[m] = login[m]
<1>1. ASSUME NEW m \in Logins, NEW s \in Sessions, LoginReadConfig(m, s)
      PROVE  /\ NewSession(login'[l].sess)
             /\ \A k \in Logins \ {l} : login'[k] = login[k]
  BY <1>1 DEF LoginReadConfig, Base, TypeOK
<1>2. ASSUME NEW m \in Logins, LoginSave(m) PROVE FALSE
  BY <1>2 DEF LoginSave, LoginIdle, Base, TypeOK
<1>3. UNCHANGED login \/ \E m \in Logins :
        LoginSave(m) \/ \E s \in Sessions : LoginReadConfig(m, s)
  <2>1. ASSUME NEW r \in Refreshers,
               \/ \E t \in TokenIds : RefreshFind(r, t)
               \/ RefreshStep(r) \/ RefreshCrash(r)
        PROVE  UNCHANGED login
    BY <2>1 DEF RefreshFind, RefreshStep, RefreshReadUser, RefreshCacheGet,
                RefreshDbGet, RefreshCacheSet, RefreshCheck, RefreshSelectOld,
                RefreshDelete, RefreshSave, RefreshCrash
  <2>2. ASSUME NEW g \in Rotators,
               RotateRead(g) \/ RotateStep(g) \/ RotateCrash(g)
        PROVE  UNCHANGED login
    BY <2>2 DEF RotateRead, RotateStep, RotateSelect, RotateCommit,
                RotateInvalidate, RotateCrash
  <2>3. ASSUME NEW g \in UserRotators,
               \/ \E u \in Users : UserRotateRead(g, u)
               \/ UserRotateSelect(g) \/ UserRotateCommit(g)
        PROVE  UNCHANGED login
    BY <2>3 DEF UserRotateRead, UserRotateSelect, UserRotateCommit
  <2>4. ASSUME NEW v \in Revokers,
               \/ \E t \in TokenIds : LogoutFind(v, t)
               \/ LogoutSelect(v) \/ (\E u \in Users : ResetSelect(v, u))
               \/ RevokeCommit(v)
        PROVE  UNCHANGED login
    BY <2>4 DEF LogoutFind, LogoutSelect, ResetSelect, RevokeCommit
  <2>5. ASSUME \/ Tick \/ CacheExpires
               \/ \E t \in TokenIds : TokenExpires(t)
        PROVE  UNCHANGED login
    BY <2>5 DEF Tick, TokenExpires, CacheExpires
  <2>6. UNCHANGED vars => UNCHANGED login
    BY DEF vars
  <2>7. CASE Next
    BY <2>1, <2>2, <2>3, <2>4, <2>5, <2>7 DEF Next
  <2>8. QED
    BY <2>6, <2>7
<1>4. QED
  BY <1>1, <1>2, <1>3

LEMMA StepKeepsDead ==
  ASSUME Base, Base', [Next]_vars, NEW s \in Sessions, Used(s), Dead(s)
  PROVE  Dead(s)'
<1>0. RowsPersist
  BY StepPersists DEF Base
<1>1. ASSUME NEW t \in TokenIds, tokens'[t].sess = s
      PROVE  tokens'[t].st \notin Live
  <2>1. CASE InUse(t)
    BY <1>0, <1>1, <2>1 DEF RowsPersist, Dead
  <2>2. CASE ~InUse(t)
    BY <1>1, <2>2, NewRowSession DEF InUse, Dead
  <2>3. QED
    BY <2>1, <2>2
<1>2. ASSUME NEW r \in Refreshers, refresh'[r].pc # "idle"
      PROVE  tokens'[refresh'[r].tok].sess # s
  <2>1. CASE InFlight(r) /\ refresh'[r].tok = refresh[r].tok
    BY <1>0, <2>1 DEF RowsPersist, Dead, Base, HoldsRow
  <2>2. CASE /\ refresh'[r].tok \in TokenIds
             /\ tokens[refresh'[r].tok].st = "active"
             /\ tokens' = tokens
    BY <2>2 DEF Dead, Live
  <2>3. QED
    BY <1>2, <2>1, <2>2, NewReadSession
<1>3. ASSUME NEW l \in Logins, login'[l].pc = "save"
      PROVE  login'[l].sess # s
  <2>1. CASE login'[l] = login[l]
    BY <1>3, <2>1 DEF Dead
  <2>2. CASE login'[l] # login[l]
    BY <1>3, <2>2, NewLoginSession DEF NewSession, Used, InUse
  <2>3. QED
    BY <2>1, <2>2
<1>4. QED
  BY <1>1, <1>2, <1>3 DEF Dead, InFlight

(* Once a session has been used and nothing live or under way is left of   *)
(* it, it gets no token again, whichever way it ended.                     *)
THEOREM DeadIsFinal == Spec => DeadSessionStaysDead
<1> DEFINE Body == \A s \in Sessions : (Used(s) /\ Dead(s)) => Dead(s)'
<1>1. Base /\ Base' /\ [Next]_vars => [Body]_vars
  BY StepKeepsDead
<1>2. Spec => [][Body]_vars
  BY <1>1, BaseInvariant, PTL DEF Spec
<1>3. QED
  BY <1>2 DEF DeadSessionStaysDead

----------------------------------------------------------------------------
(* A revocation that ends leaves only newer tokens.                        *)

(* The rows a revocation saw and did not select are out of use.            *)
Covered ==
    \A v \in Revokers :
        revoke[v].pc = "commit" =>
            \A t \in revoke[v].seen \ revoke[v].sel :
                InUse(t) /\ tokens[t].st \notin Live

(* Which requests change the locals of the revocations, and how.           *)
LEMMA RevokeWriters ==
  ASSUME Base, [Next]_vars, NEW v \in Revokers, revoke'[v] # revoke[v]
  PROVE  \/ \E t \in TokenIds : LogoutFind(v, t)
         \/ LogoutSelect(v) \/ (\E u \in Users : ResetSelect(v, u))
         \/ RevokeCommit(v)
<1>1. ASSUME NEW r \in Refreshers,
             \/ \E t \in TokenIds : RefreshFind(r, t)
             \/ RefreshStep(r) \/ RefreshCrash(r)
      PROVE  revoke' = revoke
  BY <1>1 DEF RefreshFind, RefreshStep, RefreshReadUser, RefreshCacheGet,
              RefreshDbGet, RefreshCacheSet, RefreshCheck, RefreshSelectOld,
              RefreshDelete, RefreshSave, RefreshCrash
<1>2. ASSUME NEW l \in Logins,
             (\E s \in Sessions : LoginReadConfig(l, s)) \/ LoginSave(l)
      PROVE  revoke' = revoke
  BY <1>2 DEF LoginReadConfig, LoginSave
<1>3. ASSUME NEW g \in Rotators,
             RotateRead(g) \/ RotateStep(g) \/ RotateCrash(g)
      PROVE  revoke' = revoke
  BY <1>3 DEF RotateRead, RotateStep, RotateSelect, RotateCommit,
              RotateInvalidate, RotateCrash
<1>4. ASSUME NEW g \in UserRotators,
             \/ \E u \in Users : UserRotateRead(g, u)
             \/ UserRotateSelect(g) \/ UserRotateCommit(g)
      PROVE  revoke' = revoke
  BY <1>4 DEF UserRotateRead, UserRotateSelect, UserRotateCommit
<1>5. ASSUME \/ Tick \/ CacheExpires
             \/ \E t \in TokenIds : TokenExpires(t)
             \/ UNCHANGED vars
      PROVE  revoke' = revoke
  BY <1>5 DEF Tick, TokenExpires, CacheExpires, vars
<1>6. ASSUME NEW w \in Revokers, w # v,
             \/ \E t \in TokenIds : LogoutFind(w, t)
             \/ LogoutSelect(w) \/ (\E u \in Users : ResetSelect(w, u))
             \/ RevokeCommit(w)
      PROVE  revoke'[v] = revoke[v]
  BY <1>6 DEF LogoutFind, LogoutSelect, ResetSelect, Select, RevokeCommit,
              Base, TypeOK
<1>7. revoke' # revoke
  OBVIOUS
<1>8. CASE Next
  <2>1. \E w \in Revokers :
          \/ \E t \in TokenIds : LogoutFind(w, t)
          \/ LogoutSelect(w) \/ (\E u \in Users : ResetSelect(w, u))
          \/ RevokeCommit(w)
    BY <1>1, <1>2, <1>3, <1>4, <1>5, <1>7, <1>8 DEF Next
  <2>2. QED
    BY <1>6, <2>1
<1>9. CASE UNCHANGED vars
  BY <1>5, <1>7, <1>9
<1>10. QED
  BY <1>8, <1>9

LEMMA StepCovered ==
  ASSUME Base, Covered, [Next]_vars
  PROVE  Covered'
<1> SUFFICES ASSUME NEW v \in Revokers, revoke'[v].pc = "commit",
                    NEW t \in revoke'[v].seen \ revoke'[v].sel
             PROVE  InUse(t)' /\ tokens'[t].st \notin Live
  BY DEF Covered
<1>0. revoke \in [Revokers -> RevokeLocals]
  BY DEF Base, TypeOK
<1>1. CASE revoke'[v] = revoke[v]
  <2>1. t \in TokenIds /\ InUse(t) /\ tokens[t].st \notin Live
    BY <1>0, <1>1 DEF Covered, RevokeLocals
  <2>2. QED
    BY <2>1, StepPersists DEF Base, RowsPersist, InUse
<1>2. CASE LogoutSelect(v) \/ \E u \in Users : ResetSelect(v, u)
  <2>1. /\ UNCHANGED tokens
        /\ \E S : revoke'[v] = [pc |-> "commit", sess |-> AnySession,
                                sel |-> LiveRows(S), seen |-> StoredRows(S)]
    BY <1>0, <1>2 DEF LogoutSelect, ResetSelect, Select, shared
  <2>2. PICK S : t \in StoredRows(S) /\ t \notin LiveRows(S)
    BY <2>1
  <2>3. QED
    BY <2>1, <2>2 DEF StoredRows, LiveRows, InTable, Live, InUse
<1>3. ASSUME \/ \E x \in TokenIds : LogoutFind(v, x)
             \/ RevokeCommit(v)
      PROVE  FALSE
  <2>1. ASSUME NEW x \in TokenIds, LogoutFind(v, x)
        PROVE  revoke'[v].pc = "select"
    BY <1>0, <2>1 DEF LogoutFind, RevokeIdle
  <2>2. RevokeCommit(v) => revoke'[v].pc = "idle"
    BY <1>0 DEF RevokeCommit, RevokeIdle
  <2>3. QED
    BY <1>3, <2>1, <2>2
<1>4. QED
  BY <1>1, <1>2, <1>3, RevokeWriters

LEMMA StepRevokes ==
  ASSUME Base, Covered, [Next]_vars, NEW v \in Revokers,
         revoke[v].pc = "commit", revoke'[v].pc = "idle"
  PROVE  \/ \A t \in revoke[v].seen : tokens'[t].st \notin Live
         \/ /\ UNCHANGED tokens
            /\ \E t \in revoke[v].sel : tokens[t].st = "deleted"
<1>0. /\ revoke \in [Revokers -> RevokeLocals]
      /\ tokens \in [TokenIds -> Rows]
      /\ revoke[v].sel \subseteq TokenIds /\ revoke[v].seen \subseteq TokenIds
  BY DEF Base, TypeOK, RevokeLocals
<1>1. RevokeCommit(v)
  BY <1>0, RevokeWriters DEF LogoutFind, LogoutSelect, ResetSelect, Select
<1>2. CASE /\ UNCHANGED tokens
           /\ \E t \in revoke[v].sel : tokens[t].st = "deleted"
  BY <1>2
<1>3. CASE tokens' = [t \in TokenIds |->
                        IF t \in revoke[v].sel
                                  \ {x \in revoke[v].sel :
                                        tokens[x].st = "deleted"}
                          THEN [tokens[t] EXCEPT !.st = "revoked"]
                          ELSE tokens[t]]
  <2>1. SUFFICES ASSUME NEW t \in revoke[v].seen
                 PROVE  tokens'[t].st \notin Live
    OBVIOUS
  <2>2. CASE t \notin revoke[v].sel
    BY <1>0, <1>3, <2>2 DEF Covered
  <2>3. CASE t \in revoke[v].sel /\ tokens[t].st = "deleted"
    BY <1>0, <1>3, <2>3 DEF Live
  <2>4. CASE t \in revoke[v].sel /\ tokens[t].st # "deleted"
    BY <1>0, <1>3, <2>4 DEF Live, Rows
  <2>5. QED
    BY <2>2, <2>3, <2>4
<1>4. QED
  BY <1>1, <1>2, <1>3 DEF RevokeCommit

(* What is still usable after a logout or a password reset was inserted    *)
(* after its selection, or it rolled back, because of a refresh, and       *)
(* changed nothing.                                                        *)
THEOREM RevocationIsThorough == Spec => RevocationLeavesOnlyNew
<1> DEFINE Body ==
      \A v \in Revokers :
        (revoke[v].pc = "commit" /\ revoke'[v].pc = "idle") =>
          \/ \A t \in revoke[v].seen : tokens'[t].st \notin Live
          \/ /\ UNCHANGED tokens
             /\ \E t \in revoke[v].sel : tokens[t].st = "deleted"
<1>1. Init => Covered
  BY DEF Init, Covered, RevokeIdle
<1>2. Base /\ Covered /\ [Next]_vars => Covered'
  BY StepCovered
<1>3. Base /\ Covered /\ [Next]_vars => [Body]_vars
  BY StepRevokes
<1>4. Spec => [][Body]_vars
  BY <1>1, <1>2, <1>3, BaseInvariant, PTL DEF Spec
<1>5. QED
  BY <1>4 DEF RevocationLeavesOnlyNew

----------------------------------------------------------------------------
(* Families of tokens.                                                     *)

(* What a revocation has selected was inserted.                            *)
Selected == \A v \in Revokers : \A t \in revoke[v].sel : InUse(t)

(* A login about to insert its token has its session to itself.            *)
LoginsAlone ==
    \A l \in Logins : login[l].pc = "save" =>
        /\ \A t \in TokenIds : InUse(t) => tokens[t].sess # login[l].sess
        /\ \A m \in Logins : login[m].pc = "save" /\ m # l =>
                               login[m].sess # login[l].sess

LEMMA StepSelected ==
  ASSUME Base, Selected, [Next]_vars
  PROVE  Selected'
<1> SUFFICES ASSUME NEW v \in Revokers, NEW t \in revoke'[v].sel
             PROVE  InUse(t)'
  BY DEF Selected
<1>0. revoke \in [Revokers -> RevokeLocals]
  BY DEF Base, TypeOK
<1>1. CASE revoke'[v] = revoke[v]
  <2>1. t \in TokenIds /\ InUse(t)
    BY <1>0, <1>1 DEF Selected, RevokeLocals
  <2>2. QED
    BY <2>1, StepPersists DEF Base, RowsPersist, InUse
<1>2. CASE LogoutSelect(v) \/ \E u \in Users : ResetSelect(v, u)
  <2>1. /\ UNCHANGED tokens
        /\ \E S : revoke'[v] = [pc |-> "commit", sess |-> AnySession,
                                sel |-> LiveRows(S), seen |-> StoredRows(S)]
    BY <1>0, <1>2 DEF LogoutSelect, ResetSelect, Select, shared
  <2>2. PICK S : t \in LiveRows(S)
    BY <2>1
  <2>3. QED
    BY <2>1, <2>2 DEF LiveRows, Live, InUse
<1>3. ASSUME \/ \E x \in TokenIds : LogoutFind(v, x)
             \/ RevokeCommit(v)
      PROVE  FALSE
  <2>1. ASSUME NEW x \in TokenIds, LogoutFind(v, x)
        PROVE  revoke'[v].sel = {}
    BY <1>0, <2>1 DEF LogoutFind, RevokeIdle
  <2>2. RevokeCommit(v) => revoke'[v].sel = {}
    BY <1>0 DEF RevokeCommit, RevokeIdle
  <2>3. QED
    BY <1>3, <2>1, <2>2
<1>4. QED
  BY <1>1, <1>2, <1>3, RevokeWriters

(* A row enters the table by the save of a refresh or of a login.          *)
LEMMA NewRows ==
  ASSUME Base, Selected, [Next]_vars, NEW t \in TokenIds,
         ~InUse(t), InUse(t)'
  PROVE  \/ \E r \in Refreshers :
              /\ RefreshSave(r)
              /\ tokens'[t].sess = tokens[refresh[r].tok].sess
         \/ \E l \in Logins :
              LoginSave(l) /\ tokens'[t].sess = login[l].sess
<1>0. tokens \in [TokenIds -> Rows] /\ tokens[t].st = "free"
  BY DEF Base, TypeOK, InUse
<1>1. ASSUME NEW r \in Refreshers, RefreshDelete(r) PROVE FALSE
  <2>1. refresh[r].tok # t
    BY <1>0, <1>1 DEF RefreshDelete, Base, HoldsRow, InFlight, InUse
  <2>2. QED
    BY <1>0, <1>1, <2>1 DEF RefreshDelete, InUse
<1>2. ASSUME NEW r \in Refreshers, RefreshSave(r)
      PROVE  tokens'[t].sess = tokens[refresh[r].tok].sess
  BY <1>0, <1>2, InsertFills DEF RefreshSave, InUse
<1>3. ASSUME NEW l \in Logins, LoginSave(l)
      PROVE  tokens'[t].sess = login[l].sess
  BY <1>0, <1>3, InsertFills DEF LoginSave, InUse
<1>4. ASSUME NEW v \in Revokers, RevokeCommit(v) PROVE FALSE
  <2>1. t \notin revoke[v].sel
    BY DEF Selected
  <2>2. QED
    BY <1>0, <1>4, <2>1 DEF RevokeCommit, InUse
<1>5. ASSUME NEW x \in TokenIds, TokenExpires(x) PROVE FALSE
  BY <1>0, <1>5 DEF TokenExpires, InUse
<1>6. QED
  BY <1>1, <1>2, <1>3, <1>4, <1>5, TokenWriters DEF InUse

LEMMA StepLoginsAlone ==
  ASSUME Base, Selected, LoginsAlone, [Next]_vars
  PROVE  LoginsAlone'
<1>0. RowsPersist
  BY StepPersists DEF Base
<1> SUFFICES ASSUME NEW l \in Logins, login'[l].pc = "save"
             PROVE  /\ \A t \in TokenIds :
                         InUse(t)' => tokens'[t].sess # login'[l].sess
                    /\ \A m \in Logins : login'[m].pc = "save" /\ m # l =>
                                           login'[m].sess # login'[l].sess
  BY DEF LoginsAlone, InUse
<1> DEFINE Alone(s) == \A m \in Logins \ {l} :
                         login[m].pc = "save" => login[m].sess # s
<1>1. /\ \A t \in TokenIds : InUse(t) => tokens[t].sess # login'[l].sess
      /\ Alone(login'[l].sess)
  <2>1. CASE login'[l] = login[l]
    BY <2>1 DEF LoginsAlone
  <2>2. CASE login'[l] # login[l]
    BY <2>2, NewLoginSession DEF NewSession, InUse
  <2>3. QED
    BY <2>1, <2>2
<1>2. ASSUME NEW t \in TokenIds, InUse(t)'
      PROVE  tokens'[t].sess # login'[l].sess
  <2>1. CASE InUse(t)
    BY <1>0, <1>1, <2>1 DEF RowsPersist
  <2>2. ASSUME NEW r \in Refreshers, RefreshSave(r)
        PROVE  tokens[refresh[r].tok].sess # login'[l].sess
    BY <1>1, <2>2 DEF RefreshSave, Base, HoldsRow, InFlight
  <2>3. ASSUME NEW m \in Logins, LoginSave(m)
        PROVE  login[m].sess # login'[l].sess
    <3>1. login[m].pc = "save" /\ login'[m] = LoginIdle
      BY <2>3 DEF LoginSave, Base, TypeOK
    <3>2. m # l
      BY <3>1 DEF LoginIdle
    <3>3. QED
      BY <1>1, <3>1, <3>2
  <2>4. QED
    BY <1>2, <2>1, <2>2, <2>3, NewRows
<1>3. ASSUME NEW m \in Logins, login'[m].pc = "save", m # l
      PROVE  login'[m].sess # login'[l].sess
  <2>1. CASE login'[m] = login[m]
    BY <1>1, <1>3, <2>1
  <2>2. CASE login'[m] # login[m]
    <3>1. login'[l] = login[l] /\ NewSession(login'[m].sess)
      BY <1>3, <2>2, NewLoginSession
    <3>2. QED
      BY <3>1 DEF NewSession
  <2>3. QED
    BY <2>1, <2>2
<1>4. QED
  BY <1>2, <1>3

(* The insertion of a row is the entry of a token.                         *)
LEMMA InsertEnters ==
  ASSUME Base, NEW s, NEW v, NEW from, Insert(s, v, from)
  PROVE  \E t \in TokenIds : Families!Enter(t, s, from)
<1>1. PICK x \in TokenIds : x = FreeId /\ tokens[x].st = "free"
  BY FreeIdIsFree DEF Insert
<1>2. /\ tokens \in [TokenIds -> Rows]
      /\ tokens' = [tokens EXCEPT ![x] =
                       [st |-> "active", sess |-> s, ver |-> v, gver |-> v]]
      /\ origin' = [origin EXCEPT ![x] = from]
  BY <1>1 DEF Insert, Base, TypeOK
<1>3. \A t \in TokenIds :
         /\ tokens'[t].st = IF t = x THEN "active" ELSE tokens[t].st
         /\ tokens'[t].sess = IF t = x THEN s ELSE tokens[t].sess
  BY <1>1, <1>2
<1>4. Families!Enter(x, s, from)
  BY <1>1, <1>2, <1>3 DEF Families!Enter
<1>5. QED
  BY <1>4

LEMMA FamilySteps ==
  ASSUME Base, Selected, LoginsAlone, [Next]_vars
  PROVE  [Families!Next]_(Families!familyVars)
<1>0. /\ tokens \in [TokenIds -> Rows]
      /\ \A t \in TokenIds : tokens[t].st # "free" /\ tokens[t].st # "deleted"
                              => tokens[t].st \in Families!Stored
  BY DEF Base, TypeOK, Rows, RowStates, Families!Stored
<1>1. CASE UNCHANGED <<tokens, origin>>
  BY <1>1 DEF Families!familyVars
<1>2. ASSUME NEW r \in Refreshers, RefreshDelete(r)
      PROVE  [Families!Next]_(Families!familyVars)
  <2>1. PICK x \in TokenIds : x = refresh[r].tok /\ tokens[x].st # "free"
    BY <1>2 DEF RefreshDelete, Base, HoldsRow, InFlight, InUse
  <2>2. /\ \A t \in TokenIds :
             /\ tokens'[t].st = IF t = x THEN "deleted" ELSE tokens[t].st
             /\ tokens'[t].sess = tokens[t].sess
        /\ origin' = origin
    BY <1>0, <1>2, <2>1 DEF RefreshDelete, Rows
  <2>3. CASE tokens[x].st = "deleted"
    BY <2>2, <2>3 DEF Families!familyVars
  <2>4. CASE tokens[x].st # "deleted"
    <3>1. Families!Withdraw(x)
      BY <1>0, <2>1, <2>2, <2>4 DEF Families!Withdraw
    <3>2. QED
      BY <2>1, <3>1 DEF Families!Next
  <2>5. QED
    BY <2>3, <2>4
<1>3. ASSUME NEW r \in Refreshers, RefreshSave(r)
      PROVE  Families!Next
  <2>1. PICK p \in TokenIds : p = refresh[r].tok /\ tokens[p].st = "deleted"
    BY <1>3 DEF RefreshSave, Base, HoldsRow, InFlight
  <2>2. PICK s, v : s = tokens[p].sess /\ Insert(s, v, p)
    BY <1>3, <2>1 DEF RefreshSave
  <2>3. PICK t \in TokenIds : Families!Enter(t, s, p)
    BY <2>2, InsertEnters
  <2>4. Families!Succeed(t, p)
    BY <2>1, <2>2, <2>3 DEF Families!Succeed, Families!Enter
  <2>5. QED
    BY <2>4 DEF Families!Next
<1>4. ASSUME NEW l \in Logins, LoginSave(l)
      PROVE  Families!Next
  <2>1. PICK s \in Sessions : login[l].pc = "save" /\ s = login[l].sess
    BY <1>4 DEF LoginSave, Base, TypeOK, LoginLocals
  <2>2. PICK t \in TokenIds : Families!Enter(t, s, 0)
    <3>1. PICK v : Insert(s, v, 0)
      BY <1>4, <2>1 DEF LoginSave
    <3>2. QED
      BY <3>1, InsertEnters
  <2>3. Families!Family(s) = {}
    BY <2>1 DEF LoginsAlone, InUse, Families!Family
  <2>4. Families!Issue(t, s)
    BY <2>2, <2>3 DEF Families!Issue
  <2>5. QED
    BY <2>4 DEF Families!Next
<1>5. ASSUME NEW v \in Revokers, RevokeCommit(v), ~UNCHANGED tokens
      PROVE  Families!Next
  <2>1. PICK S \in SUBSET TokenIds :
          /\ S = {t \in revoke[v].sel : tokens[t].st # "deleted"}
          /\ \A t \in S : tokens[t].st \in Families!Stored
    <3>1. revoke[v].sel \subseteq TokenIds
      BY DEF Base, TypeOK, RevokeLocals
    <3>2. {t \in revoke[v].sel : tokens[t].st # "deleted"}
            \in SUBSET TokenIds
      BY <3>1
    <3>3. \A t \in revoke[v].sel : tokens[t].st # "deleted" =>
                                    tokens[t].st \in Families!Stored
      BY <1>0, <3>1 DEF Selected, InUse
    <3>4. QED
      BY <3>2, <3>3
  <2>2. /\ \A t \in TokenIds :
             /\ tokens'[t].st = IF t \in S THEN "revoked" ELSE tokens[t].st
             /\ tokens'[t].sess = tokens[t].sess
        /\ origin' = origin
    BY <1>0, <1>5, <2>1 DEF RevokeCommit, Rows
  <2>3. Families!Revoke(S)
    BY <2>1, <2>2 DEF Families!Revoke
  <2>4. QED
    BY <2>1, <2>3 DEF Families!Next
<1>6. ASSUME NEW x \in TokenIds, TokenExpires(x)
      PROVE  Families!Next
  <2>1. /\ \A t \in TokenIds :
             /\ tokens'[t].st = IF t = x THEN "expired" ELSE tokens[t].st
             /\ tokens'[t].sess = tokens[t].sess
        /\ origin' = origin /\ tokens[x].st = "active"
    BY <1>0, <1>6 DEF TokenExpires, Rows
  <2>2. Families!Expire(x)
    BY <2>1 DEF Families!Expire
  <2>3. QED
    BY <2>2 DEF Families!Next
<1>7. \A v \in Revokers : RevokeCommit(v) => origin' = origin
  BY DEF RevokeCommit
<1>8. QED
  BY <1>1, <1>2, <1>3, <1>4, <1>5, <1>6, <1>7, TokenWriters

(* The refresh, login, logout and reset requests, however they overlap and *)
(* die, make nothing but the families of TokenFamilies: every step is one  *)
(* of its steps, or leaves the families as they are.                       *)
THEOREM FamiliesHold == Spec => TokensDescendFromLogins
<1> DEFINE IInv == Base /\ Selected /\ LoginsAlone
<1>1. Init => IInv /\ Families!Init
  <2>1. SUFFICES ASSUME Init
                 PROVE  Selected /\ LoginsAlone /\ Families!Init
    BY InitTypeOK DEF Init, Base, HoldsRow, InFlight, RefreshIdle
  <2>2. Selected /\ LoginsAlone
    BY <2>1 DEF Init, Selected, LoginsAlone, RevokeIdle, LoginIdle
  <2>3. /\ \A t \in TokenIds : /\ tokens[t].st = "free"
                               /\ tokens[t].sess \in Sessions
        /\ origin = [t \in TokenIds |-> 0]
    BY <2>1, AnyInRange DEF Init
  <2>4. QED
    BY <2>2, <2>3 DEF Families!Init
<1>2. Base /\ Selected /\ LoginsAlone /\ [Next]_vars =>
        Selected' /\ LoginsAlone' /\ [Families!Next]_(Families!familyVars)
  BY StepSelected, StepLoginsAlone, FamilySteps
<1>3. QED
  BY <1>1, <1>2, BaseInvariant, PTL
     DEF Spec, TokensDescendFromLogins, Families!Spec

----------------------------------------------------------------------------
(* How many tokens replace one.                                            *)

LEMMA SuccessorsAreFinite ==
  ASSUME NEW t
  PROVE  /\ Cardinality(Refreshers) \in Nat
         /\ IsFiniteSet(Successors(t)) /\ IsFiniteSet(Presenting(t))
         /\ Cardinality(Successors(t)) \in Nat
         /\ Cardinality(Presenting(t)) \in Nat
         /\ Cardinality(Successors(t)') \in Nat
         /\ Cardinality(Presenting(t)') \in Nat
         /\ Cardinality(Presenting(t)') <= Cardinality(Refreshers)
<1>1. IsFiniteSet(TokenIds) /\ IsFiniteSet(Refreshers)
  BY FS_Interval, RefreshersAssumption, BoundsAssumption DEF TokenIds
<1>2. /\ Successors(t) \subseteq TokenIds
      /\ Successors(t)' \subseteq TokenIds
      /\ Presenting(t) \subseteq Refreshers
      /\ Presenting(t)' \subseteq Refreshers
  BY DEF Successors, Presenting
<1>3. QED
  BY <1>1, <1>2, FS_Subset, FS_CardinalityType

(* A token that a request comes to present has not been replaced.          *)
LEMMA PresentedAnew ==
  ASSUME Base, ReplacedGone, [Next]_vars, NEW t \in TokenIds,
         NEW r \in Presenting(t)', r \notin Presenting(t)
  PROVE  Successors(t)' = {}
<1>1. r \in Refreshers /\ refresh'[r].pc # "idle" /\ refresh'[r].tok = t
  BY DEF Presenting, InFlight
<1>2. tokens[t].st = "active" /\ tokens' = tokens
  BY <1>1, NewReadSession DEF Presenting
<1>3. \A s, v, from : ~Insert(s, v, from)
  <2>1. SUFFICES ASSUME NEW s, NEW v, NEW from, Insert(s, v, from)
                 PROVE  FALSE
    OBVIOUS
  <2>2. tokens'[FreeId].st = "active"
    BY <2>1, FreeIdIsFree DEF Insert, Base, TypeOK
  <2>3. QED
    BY <1>2, <2>1, <2>2, FreeIdIsFree DEF Insert
<1>4. origin' = origin
  BY <1>3, TokenWriters
     DEF RefreshDelete, RefreshSave, LoginSave, RevokeCommit, TokenExpires
<1>5. QED
  BY <1>2, <1>4 DEF Successors, ReplacedGone, Live, TokenIds

LEMMA SuccessorStep ==
  ASSUME Base, ReplacedGone, SuccessorLimit, [Next]_vars, NEW t \in TokenIds
  PROVE  Cardinality(Successors(t)') + Cardinality(Presenting(t)')
           <= Cardinality(Refreshers)
<1> DEFINE n == Cardinality(Successors(t))
           k == Cardinality(Presenting(t))
           m == Cardinality(Refreshers)
<1>0. /\ n + k <= m /\ n \in Nat /\ k \in Nat /\ m \in Nat
      /\ n' \in Nat /\ k' \in Nat /\ k' <= m
  BY SuccessorsAreFinite DEF SuccessorLimit
<1>1. CASE Presenting(t)' \subseteq Presenting(t)
  <2>1. k' <= k
    BY <1>1, SuccessorsAreFinite, FS_Subset
  <2>2. CASE Successors(t)' \subseteq Successors(t)
    <3>1. n' <= n
      BY <2>2, SuccessorsAreFinite, FS_Subset
    <3>2. QED
      BY <1>0, <2>1, <3>1
  <2>3. ASSUME NEW r \in Refreshers, RefreshSave(r), refresh[r].tok = t
        PROVE  n' + k' <= m
    <3>1. /\ Successors(t)' \subseteq Successors(t) \cup {FreeId}
          /\ r \in Presenting(t) /\ Presenting(t)' \subseteq Presenting(t) \ {r}
      <4>1. refresh[r].pc = "save" /\ refresh'[r] = RefreshIdle
        BY <2>3 DEF RefreshSave, Base, TypeOK
      <4>2. origin' = [origin EXCEPT ![FreeId] = t]
        BY <2>3 DEF RefreshSave, Insert
      <4>3. QED
        BY <1>1, <2>3, <4>1, <4>2
           DEF Successors, Presenting, InFlight, RefreshIdle, Base, TypeOK
    <3>2. n' <= n + 1
      <4>1. /\ IsFiniteSet(Successors(t) \cup {FreeId})
            /\ Cardinality(Successors(t) \cup {FreeId}) =
                 IF FreeId \in Successors(t) THEN n ELSE n + 1
        BY SuccessorsAreFinite, FS_AddElement, Zenon
      <4>2. n' <= Cardinality(Successors(t) \cup {FreeId})
        BY <3>1, <4>1, FS_Subset
      <4>3. QED
        BY <1>0, <4>1, <4>2
    <3>3. k' <= k - 1
      <4>1. /\ IsFiniteSet(Presenting(t) \ {r})
            /\ Cardinality(Presenting(t) \ {r}) = k - 1
        BY <3>1, SuccessorsAreFinite, FS_RemoveElement
      <4>2. QED
        BY <3>1, <4>1, FS_Subset
    <3>4. QED
      BY <1>0, <3>2, <3>3
  <2>4. \/ Successors(t)' \subseteq Successors(t)
        \/ \E r \in Refreshers : RefreshSave(r) /\ refresh[r].tok = t
    <3>1. CASE origin' = origin
      BY <3>1 DEF Successors
    <3>2. ASSUME NEW r \in Refreshers, RefreshSave(r), refresh[r].tok # t
          PROVE  Successors(t)' \subseteq Successors(t)
      BY <3>2 DEF RefreshSave, Insert, Successors, Base, TypeOK
    <3>3. ASSUME NEW l \in Logins, LoginSave(l)
          PROVE  Successors(t)' \subseteq Successors(t)
      BY <3>3 DEF LoginSave, Insert, Successors, Base, TypeOK, TokenIds
    <3>4. \/ origin' = origin
          \/ \E r \in Refreshers : RefreshSave(r)
          \/ \E l \in Logins : LoginSave(l)
      BY TokenWriters DEF RefreshDelete, RevokeCommit, TokenExpires
    <3>5. QED
      BY <3>1, <3>2, <3>3, <3>4
  <2>5. QED
    BY <2>2, <2>3, <2>4
<1>2. CASE ~(Presenting(t)' \subseteq Presenting(t))
  <2>1. Successors(t)' = {}
    BY <1>2, PresentedAnew
  <2>2. n' = 0
    BY <2>1, FS_EmptySet
  <2>3. QED
    BY <1>0, <2>2
<1>3. QED
  BY <1>1, <1>2

(* Overlapping refreshes may replace one token more than once, but each    *)
(* only once, and none that comes after the first replacement: a token     *)
(* never has more successors than requests that can present it at once.    *)
THEOREM SuccessorsLimited == Spec => []SuccessorLimit
<1>1. Init => SuccessorLimit
  <2>1. SUFFICES ASSUME Init, NEW t \in TokenIds
                 PROVE  Cardinality(Successors(t)) + Cardinality(Presenting(t))
                          <= Cardinality(Refreshers)
    BY DEF SuccessorLimit
  <2>2. Successors(t) = {} /\ Presenting(t) = {}
    BY <2>1 DEF Init, Successors, Presenting, InFlight, RefreshIdle, TokenIds
  <2>3. QED
    BY <2>2, FS_EmptySet, SuccessorsAreFinite
<1>2. Base /\ ReplacedGone /\ SuccessorLimit /\ [Next]_vars => SuccessorLimit'
  <2>1. SUFFICES ASSUME Base, ReplacedGone, SuccessorLimit, [Next]_vars
                 PROVE  SuccessorLimit'
    OBVIOUS
  <2>2. QED
    BY <2>1, SuccessorStep DEF SuccessorLimit
<1>3. QED
  BY <1>1, <1>2, BaseInvariant, ReplacedInvariant, PTL DEF Spec

(* In particular, where refreshes do not overlap a token is for one use.   *)
COROLLARY OneAtATime ==
  ASSUME \A q, r \in Refreshers : q = r
  PROVE  Spec => []OneSuccessor
<1>1. Cardinality(Refreshers) <= 1
  <2>1. CASE Refreshers = {}
    BY <2>1, FS_EmptySet
  <2>2. ASSUME NEW r \in Refreshers
        PROVE  Cardinality(Refreshers) <= 1
    <3>1. Refreshers = {r}
      OBVIOUS
    <3>2. QED
      BY <3>1, FS_Singleton
  <2>3. QED
    BY <2>1, <2>2
<1>2. ASSUME Base, SuccessorLimit
      PROVE  OneSuccessor
  <2>1. SUFFICES ASSUME NEW s \in TokenIds, NEW t \in TokenIds,
                        origin[s] # 0, origin[s] = origin[t], s # t
                 PROVE  FALSE
    BY DEF OneSuccessor
  <2> DEFINE p == origin[s]
  <2>2. p \in TokenIds /\ {s, t} \subseteq Successors(p)
    BY <1>2, <2>1 DEF Successors, Base, TypeOK
  <2>3. Cardinality({s, t}) = 2
    <3>1. IsFiniteSet({s}) /\ Cardinality({s}) = 1
      BY FS_Singleton
    <3>2. Cardinality({s} \cup {t}) = 1 + 1
      BY <2>1, <3>1, FS_AddElement
    <3>3. {s, t} = {s} \cup {t}
      OBVIOUS
    <3>4. QED
      BY <3>2, <3>3
  <2>4. Cardinality({s, t}) <= Cardinality(Successors(p))
    BY <2>2, SuccessorsAreFinite, FS_Subset
  <2>5. QED
    BY <1>1, <1>2, <2>2, <2>3, <2>4, SuccessorsAreFinite DEF SuccessorLimit
<1>3. Base /\ SuccessorLimit => OneSuccessor
  BY <1>2
<1>4. QED
  BY <1>3, BaseInvariant, SuccessorsLimited, PTL
=============================================================================
