--------------------------- MODULE TokenRotation ---------------------------
(***************************************************************************)
(* Refresh tokens, their breach-rotation versions, and the cached security *)
(* configuration.                                                          *)
(*                                                                         *)
(* Every HTTP request is a coroutine that awaits PostgreSQL or Redis       *)
(* several times, and every repository method commits on its own, so each  *)
(* awaited call that reads or writes shared state is one action here.      *)
(* Isolation is READ COMMITTED and no row is locked, so what one request   *)
(* read may have changed when it writes.                                   *)
(*                                                                         *)
(* A request that fails without writing anything ends where it started and *)
(* is a stuttering step: presenting a token that no live row matches, or   *)
(* one that has expired, has no action.                                    *)
(***************************************************************************)
EXTENDS Integers, FiniteSets

CONSTANTS
    Users, Sessions,
    UserOf,        \* sessions.user_id of each session
    MaxTokens,     \* bound: rows ever inserted in refresh_tokens
    Refreshers,    \* concurrent POST /tokens requests
    Logins,        \* concurrent token generations after a login
    Rotators,      \* concurrent POST /admin/security/rotations
    UserRotators,  \* concurrent POST /admin/users/{id}/rotations
    Revokers,      \* concurrent logouts and password-reset confirmations
    Grace,         \* security_config.grace_period_seconds, in clock ticks
    MaxVersion,    \* bound: highest version a rotation may write
    MaxTime        \* bound: last clock tick

ASSUME UserOfAssumption == /\ UserOf \in [Sessions -> Users]
                           /\ Sessions # {}
ASSUME RefreshersAssumption == IsFiniteSet(Refreshers)
ASSUME BoundsAssumption == /\ MaxTokens \in Nat
                           /\ Grace \in Nat
                           /\ MaxVersion \in Nat
                           /\ MaxTime \in Nat

VARIABLES
    config,      \* the security_config row
    cache,       \* the Redis entry security:global_version
    userMin,     \* users.min_token_version
    tokens,      \* the refresh_tokens table
    now,         \* the clock
    refresh,     \* locals of each refresh request
    login,       \* locals of each token generation
    rotate,      \* locals of each global rotation
    userRotate,  \* locals of each user rotation
    revoke,      \* locals of each logout or password reset
    origin       \* history: the token a row replaced, 0 for a login's row

shared == <<config, cache, userMin, tokens, now>>
vars == <<shared, refresh, login, rotate, userRotate, revoke, origin>>

TokenIds == 1..MaxTokens
Never == -1

(* last_rotation_at is NULL until the first rotation.                      *)
FirstConfig == [ver |-> 1, rotatedAt |-> Never]
(* What GET answers for a missing key.                                     *)
NoConfig == [ver |-> 0, rotatedAt |-> Never]
Configs == [ver : Nat, rotatedAt : Nat \cup {Never}]

(* A row that has not been inserted, or was deleted, is not in the table;  *)
(* a deleted one keeps its columns here, as the request that read it does. *)
(* "expired" is a row whose expires_at has passed and revoked_at is NULL.  *)
RowStates == {"free", "active", "expired", "revoked", "deleted"}
Live == {"active", "expired"}
InTable == {"active", "expired", "revoked"}
Rows == [st : RowStates, sess : Sessions, ver : Nat, gver : Nat]

RefreshPcs == {"idle", "user", "cacheGet", "dbGet", "cacheSet", "check",
               "select", "delete", "save"}
RefreshLocals == [pc : RefreshPcs, tok : TokenIds \cup {0}, min : Nat,
                  cfg : Configs]
LoginLocals == [pc : {"idle", "save"}, sess : Sessions, ver : Nat]
(* raced is history: another rotation has committed since this one         *)
(* selected the row and found its version higher.                          *)
RotateLocals == [pc : {"idle", "select", "commit", "invalidate"},
                 new : Nat, at : Nat, raced : BOOLEAN]
UserRotateLocals == [pc : {"idle", "select", "commit"}, user : Users,
                     new : Nat, seen : Nat]
(* seen is history: the rows in the table when sel was selected.           *)
RevokeLocals == [pc : {"idle", "select", "commit"}, sess : Sessions,
                 sel : SUBSET TokenIds, seen : SUBSET TokenIds]

AnySession == CHOOSE s \in Sessions : TRUE
AnyUser == CHOOSE u \in Users : TRUE

RefreshIdle == [pc |-> "idle", tok |-> 0, min |-> 0, cfg |-> NoConfig]
LoginIdle == [pc |-> "idle", sess |-> AnySession, ver |-> 0]
RotateIdle == [pc |-> "idle", new |-> 0, at |-> 0, raced |-> FALSE]
UserRotateIdle == [pc |-> "idle", user |-> AnyUser, new |-> 0, seen |-> 0]
RevokeIdle == [pc |-> "idle", sess |-> AnySession, sel |-> {}, seen |-> {}]

----------------------------------------------------------------------------
(* The version rule.                                                       *)

(* SecurityConfig.is_within_grace_period: inclusive at the far end.        *)
WithinGrace(c) == c.rotatedAt # Never /\ now - c.rotatedAt <= Grace

Required(c, min) == IF c.ver >= min THEN c.ver ELSE min

(* Mutant: the grace period admits any old token.                          *)
GraceAdmitsAll(row, c, min) == row.ver < Required(c, min) /\ ~WithinGrace(c)

(* The refresh handler's rule looks at global_version_at_issuance ...      *)
HandlerRejects(row, c, min) ==
    /\ row.ver < Required(c, min)
    /\ ~WithinGrace(c) \/ row.gver < Required(c, min) - 1

(* ... the entity's should_reject_token_version looks at token_version.    *)
EntityRejects(row, c, min) ==
    /\ row.ver < Required(c, min)
    /\ WithinGrace(c) => row.ver < Required(c, min) - 1

----------------------------------------------------------------------------
Init ==
    /\ config = FirstConfig
    /\ cache = NoConfig
    /\ userMin = [u \in Users |-> 1]
    /\ tokens = [t \in TokenIds |->
                   [st |-> "free", sess |-> AnySession, ver |-> 0, gver |-> 0]]
    /\ now = 0
    /\ refresh = [r \in Refreshers |-> RefreshIdle]
    /\ login = [l \in Logins |-> LoginIdle]
    /\ rotate = [g \in Rotators |-> RotateIdle]
    /\ userRotate = [g \in UserRotators |-> UserRotateIdle]
    /\ revoke = [v \in Revokers |-> RevokeIdle]
    /\ origin = [t \in TokenIds |-> 0]

(* refresh_tokens.user_id: a row's user is its session's.                  *)
OwnerOfToken(t) == UserOf[tokens[t].sess]

(* RefreshTokenRepository.save: a new row, in a commit of its own.         *)
FreeId == CHOOSE t \in TokenIds : tokens[t].st = "free"

(* Mutant: the successor keeps the issuance version of the row it replaces. *)
InsertKeepingIssuance(s, v, from) ==
    /\ \E t \in TokenIds : tokens[t].st = "free"
    /\ tokens' = [tokens EXCEPT ![FreeId] =
                    [st |-> "active", sess |-> s, ver |-> v,
                     gver |-> IF from = 0 THEN v ELSE tokens[from].gver]]
    /\ origin' = [origin EXCEPT ![FreeId] = from]

Insert(s, v, from) ==
    /\ \E t \in TokenIds : tokens[t].st = "free"
    /\ tokens' = [tokens EXCEPT ![FreeId] =
                    [st |-> "active", sess |-> s, ver |-> v, gver |-> v]]
    /\ origin' = [origin EXCEPT ![FreeId] = from]

----------------------------------------------------------------------------
(* RefreshAccessTokenHandler.handle.                                       *)

(* Mutant: revoked rows are scanned too.                                   *)
FindRevokedToo(r, t) ==
    /\ refresh[r].pc = "idle"
    /\ tokens[t].st \in {"active", "revoked"}
    /\ refresh' = [refresh EXCEPT ![r] =
                     [RefreshIdle EXCEPT !.pc = "user", !.tok = t]]
    /\ UNCHANGED <<shared, login, rotate, userRotate, revoke, origin>>

(* find_by_token_verification scans the rows that are not revoked; the     *)
(* handler then refuses an expired one.                                    *)
RefreshFind(r, t) ==
    /\ refresh[r].pc = "idle"
    /\ tokens[t].st = "active"
    /\ refresh' = [refresh EXCEPT ![r] =
                     [RefreshIdle EXCEPT !.pc = "user", !.tok = t]]
    /\ UNCHANGED <<shared, login, rotate, userRotate, revoke, origin>>

RefreshReadUser(r) ==
    /\ refresh[r].pc = "user"
    /\ refresh' = [refresh EXCEPT ![r] =
                     [@ EXCEPT !.pc = "cacheGet",
                               !.min = userMin[OwnerOfToken(refresh[r].tok)]]]
    /\ UNCHANGED <<shared, login, rotate, userRotate, revoke, origin>>

(* A Redis error reads as a miss.                                          *)
RefreshCacheGet(r) ==
    /\ refresh[r].pc = "cacheGet"
    /\ \/ /\ cache # NoConfig
          /\ refresh' = [refresh EXCEPT ![r] =
                           [@ EXCEPT !.pc = "check", !.cfg = cache]]
       \/ refresh' = [refresh EXCEPT ![r] = [@ EXCEPT !.pc = "dbGet"]]
    /\ UNCHANGED <<shared, login, rotate, userRotate, revoke, origin>>

RefreshDbGet(r) ==
    /\ refresh[r].pc = "dbGet"
    /\ refresh' = [refresh EXCEPT ![r] =
                     [@ EXCEPT !.pc = "cacheSet", !.cfg = config]]
    /\ UNCHANGED <<shared, login, rotate, userRotate, revoke, origin>>

(* SETEX with cache_security_ttl; an error is logged and ignored.          *)
RefreshCacheSet(r) ==
    /\ refresh[r].pc = "cacheSet"
    /\ cache' \in {cache, refresh[r].cfg}
    /\ refresh' = [refresh EXCEPT ![r] = [@ EXCEPT !.pc = "check"]]
    /\ UNCHANGED <<config, userMin, tokens, now, login, rotate, userRotate,
                   revoke, origin>>

(* The is_active test that follows is left out: no operation clears it.    *)
RefreshCheck(r) ==
    LET row == tokens[refresh[r].tok] IN
    /\ refresh[r].pc = "check"
    /\ IF HandlerRejects(row, refresh[r].cfg, refresh[r].min)
         THEN refresh' = [refresh EXCEPT ![r] = RefreshIdle]
         ELSE refresh' = [refresh EXCEPT ![r] = [@ EXCEPT !.pc = "select"]]
    /\ UNCHANGED <<shared, login, rotate, userRotate, revoke, origin>>

(* delete() selects the row again, by id alone: scalar_one raises when the *)
(* row is gone.                                                            *)
RefreshSelectOld(r) ==
    /\ refresh[r].pc = "select"
    /\ IF tokens[refresh[r].tok].st \in InTable
         THEN refresh' = [refresh EXCEPT ![r] = [@ EXCEPT !.pc = "delete"]]
         ELSE refresh' = [refresh EXCEPT ![r] = RefreshIdle]
    /\ UNCHANGED <<shared, login, rotate, userRotate, revoke, origin>>

(* Mutant: the old row is left in the table.                               *)
DeleteForgotten(r) ==
    /\ refresh[r].pc = "delete"
    /\ refresh' = [refresh EXCEPT ![r] = [@ EXCEPT !.pc = "save"]]
    /\ UNCHANGED <<shared, login, rotate, userRotate, revoke, origin>>

(* A DELETE that matches no row is only a warning of the ORM.              *)
RefreshDelete(r) ==
    /\ refresh[r].pc = "delete"
    /\ tokens' = [tokens EXCEPT ![refresh[r].tok] =
                                  [@ EXCEPT !.st = "deleted"]]
    /\ refresh' = [refresh EXCEPT ![r] = [@ EXCEPT !.pc = "save"]]
    /\ UNCHANGED <<config, cache, userMin, now, login, rotate, userRotate,
                   revoke, origin>>

RefreshSave(r) ==
    /\ refresh[r].pc = "save"
    /\ Insert(tokens[refresh[r].tok].sess, refresh[r].cfg.ver, refresh[r].tok)
    /\ refresh' = [refresh EXCEPT ![r] = RefreshIdle]
    /\ UNCHANGED <<config, cache, userMin, now, login, rotate, userRotate,
                   revoke>>

(* The worker dies, or the client goes away and the handler is cancelled.  *)
RefreshCrash(r) ==
    /\ refresh[r].pc # "idle"
    /\ refresh' = [refresh EXCEPT ![r] = RefreshIdle]
    /\ UNCHANGED <<shared, login, rotate, userRotate, revoke, origin>>

----------------------------------------------------------------------------
(* GenerateAuthTokensHandler.handle, called once for a session just        *)
(* created; it reads the row and not the cache.                            *)

NewSession(s) ==
    /\ \A t \in TokenIds : tokens[t].st # "free" => tokens[t].sess # s
    /\ \A l \in Logins : login[l].pc = "save" => login[l].sess # s

LoginReadConfig(l, s) ==
    /\ login[l].pc = "idle"
    /\ NewSession(s)
    /\ login' = [login EXCEPT ![l] =
                   [pc |-> "save", sess |-> s, ver |-> config.ver]]
    /\ UNCHANGED <<shared, refresh, rotate, userRotate, revoke, origin>>

LoginSave(l) ==
    /\ login[l].pc = "save"
    /\ Insert(login[l].sess, login[l].ver, 0)
    /\ login' = [login EXCEPT ![l] = LoginIdle]
    /\ UNCHANGED <<config, cache, userMin, now, refresh, rotate, userRotate,
                   revoke>>

----------------------------------------------------------------------------
(* TriggerGlobalTokenRotationHandler and update_global_version.            *)

RotateRead(g) ==
    /\ rotate[g].pc = "idle"
    /\ config.ver < MaxVersion
    /\ rotate' = [rotate EXCEPT ![g] =
                    [pc |-> "select", new |-> config.ver + 1, at |-> now,
                     raced |-> FALSE]]
    /\ UNCHANGED <<shared, refresh, login, userRotate, revoke, origin>>

(* Mutant: a version that is not above the row's is written all the same.  *)
SelectUnchecked(g) ==
    /\ rotate[g].pc = "select"
    /\ rotate' = [rotate EXCEPT ![g] = [@ EXCEPT !.pc = "commit"]]
    /\ UNCHANGED <<shared, refresh, login, userRotate, revoke, origin>>

(* The row is selected afresh; a version not above it is a ValueError.     *)
RotateSelect(g) ==
    /\ rotate[g].pc = "select"
    /\ IF rotate[g].new <= config.ver
         THEN rotate' = [rotate EXCEPT ![g] = RotateIdle]
         ELSE rotate' = [rotate EXCEPT ![g] = [@ EXCEPT !.pc = "commit"]]
    /\ UNCHANGED <<shared, refresh, login, userRotate, revoke, origin>>

RotateCommit(g) ==
    /\ rotate[g].pc = "commit"
    /\ config' = [ver |-> rotate[g].new, rotatedAt |-> rotate[g].at]
    /\ rotate' = [h \in Rotators |->
                    IF h = g
                      THEN [RotateIdle EXCEPT !.pc = "invalidate"]
                      ELSE [rotate[h] EXCEPT !.raced =
                                               rotate[h].pc = "commit"]]
    /\ UNCHANGED <<cache, userMin, tokens, now, refresh, login, userRotate,
                   revoke, origin>>

(* DEL of the cache key; an error is logged and ignored.  The rotation is  *)
(* then reported as succeeded.                                             *)
RotateInvalidate(g) ==
    /\ rotate[g].pc = "invalidate"
    /\ cache' \in {cache, NoConfig}
    /\ rotate' = [rotate EXCEPT ![g] = RotateIdle]
    /\ UNCHANGED <<config, userMin, tokens, now, refresh, login, userRotate,
                   revoke, origin>>

RotateCrash(g) ==
    /\ rotate[g].pc # "idle"
    /\ rotate' = [rotate EXCEPT ![g] = RotateIdle]
    /\ UNCHANGED <<shared, refresh, login, userRotate, revoke, origin>>

----------------------------------------------------------------------------
(* TriggerUserTokenRotationHandler and UserRepository.update.              *)

UserRotateRead(g, u) ==
    /\ userRotate[g].pc = "idle"
    /\ userMin[u] < MaxVersion
    /\ userRotate' = [userRotate EXCEPT ![g] =
                        [pc |-> "select", user |-> u, new |-> userMin[u] + 1,
                         seen |-> 0]]
    /\ UNCHANGED <<shared, refresh, login, rotate, revoke, origin>>

UserRotateSelect(g) ==
    /\ userRotate[g].pc = "select"
    /\ userRotate' = [userRotate EXCEPT ![g] =
                        [@ EXCEPT !.pc = "commit",
                                  !.seen = userMin[userRotate[g].user]]]
    /\ UNCHANGED <<shared, refresh, login, rotate, revoke, origin>>

(* The ORM writes the column only if it differs from the selected value.   *)
UserRotateCommit(g) ==
    /\ userRotate[g].pc = "commit"
    /\ userMin' = IF userRotate[g].new = userRotate[g].seen
                    THEN userMin
                    ELSE [userMin EXCEPT ![userRotate[g].user] =
                                            userRotate[g].new]
    /\ userRotate' = [userRotate EXCEPT ![g] = UserRotateIdle]
    /\ UNCHANGED <<config, cache, tokens, now, refresh, login, rotate, revoke,
                   origin>>

----------------------------------------------------------------------------
(* Revocation: LogoutUserHandler finds the session of the token presented  *)
(* and revokes the session's rows; ConfirmPasswordResetHandler revokes the *)
(* user's rows.  Both select the live rows first and update them at the    *)
(* commit.                                                                 *)

(* Mutant: the sessions of the rows instead of the rows.                   *)
LiveSessions(S) ==
    {tokens[t].sess : t \in {x \in TokenIds : tokens[x].sess \in S}}

(* Mutant: rows past their expires_at are not selected.                    *)
UnexpiredRows(S) ==
    {t \in TokenIds : tokens[t].st = "active" /\ tokens[t].sess \in S}

LiveRows(S) ==
    {t \in TokenIds : tokens[t].st \in Live /\ tokens[t].sess \in S}
StoredRows(S) ==
    {t \in TokenIds : tokens[t].st \in InTable /\ tokens[t].sess \in S}

Select(v, S) ==
    revoke' = [revoke EXCEPT ![v] =
                 [pc |-> "commit", sess |-> AnySession,
                  sel |-> LiveRows(S), seen |-> StoredRows(S)]]

LogoutFind(v, t) ==
    /\ revoke[v].pc = "idle"
    /\ tokens[t].st \in Live
    /\ revoke' = [revoke EXCEPT ![v] =
                    [RevokeIdle EXCEPT !.pc = "select",
                                       !.sess = tokens[t].sess]]
    /\ UNCHANGED <<shared, refresh, login, rotate, userRotate, origin>>

LogoutSelect(v) ==
    /\ revoke[v].pc = "select"
    /\ Select(v, {revoke[v].sess})
    /\ UNCHANGED <<shared, refresh, login, rotate, userRotate, origin>>

ResetSelect(v, u) ==
    /\ revoke[v].pc = "idle"
    /\ Select(v, {s \in Sessions : UserOf[s] = u})
    /\ UNCHANGED <<shared, refresh, login, rotate, userRotate, origin>>

(* An UPDATE of one row that has been deleted meanwhile raises and rolls   *)
(* back; whether the driver reports the count of a batch is not fixed, so  *)
(* a larger selection either rolls back or revokes the rows still there.   *)
RevokeCommit(v) ==
    LET sel == revoke[v].sel
        gone == {t \in sel : tokens[t].st = "deleted"}
    IN
    /\ revoke[v].pc = "commit"
    /\ \/ /\ gone = {} \/ Cardinality(sel) > 1
          /\ tokens' = [t \in TokenIds |->
                          IF t \in sel \ gone
                            THEN [tokens[t] EXCEPT !.st = "revoked"]
                            ELSE tokens[t]]
       \/ gone # {} /\ UNCHANGED tokens
    /\ revoke' = [revoke EXCEPT ![v] = RevokeIdle]
    /\ UNCHANGED <<config, cache, userMin, now, refresh, login, rotate,
                   userRotate, origin>>

----------------------------------------------------------------------------
(* Time: the clock, a token's 30 days, and the cache entry's 60 seconds    *)
(* (or an eviction by Redis).                                              *)

Tick ==
    /\ now < MaxTime
    /\ now' = now + 1
    /\ UNCHANGED <<config, cache, userMin, tokens, refresh, login, rotate,
                   userRotate, revoke, origin>>

TokenExpires(t) ==
    /\ tokens[t].st = "active"
    /\ tokens' = [tokens EXCEPT ![t] = [@ EXCEPT !.st = "expired"]]
    /\ UNCHANGED <<config, cache, userMin, now, refresh, login, rotate,
                   userRotate, revoke, origin>>

(* Mutant: the cache entry is stored without a TTL.                        *)
CacheKept == FALSE

CacheExpires ==
    /\ cache # NoConfig
    /\ cache' = NoConfig
    /\ UNCHANGED <<config, userMin, tokens, now, refresh, login, rotate,
                   userRotate, revoke, origin>>

----------------------------------------------------------------------------
RefreshStep(r) ==
    \/ RefreshReadUser(r)
    \/ RefreshCacheGet(r)
    \/ RefreshDbGet(r)
    \/ RefreshCacheSet(r)
    \/ RefreshCheck(r)
    \/ RefreshSelectOld(r)
    \/ RefreshDelete(r)
    \/ RefreshSave(r)

RotateStep(g) == RotateSelect(g) \/ RotateCommit(g) \/ RotateInvalidate(g)

Next ==
    \/ \E r \in Refreshers : \/ \E t \in TokenIds : RefreshFind(r, t)
                             \/ RefreshStep(r)
                             \/ RefreshCrash(r)
    \/ \E l \in Logins : \/ \E s \in Sessions : LoginReadConfig(l, s)
                         \/ LoginSave(l)
    \/ \E g \in Rotators : \/ RotateRead(g)
                           \/ RotateStep(g)
                           \/ RotateCrash(g)
    \/ \E g \in UserRotators : \/ \E u \in Users : UserRotateRead(g, u)
                               \/ UserRotateSelect(g)
                               \/ UserRotateCommit(g)
    \/ \E v \in Revokers : \/ \E t \in TokenIds : LogoutFind(v, t)
                           \/ LogoutSelect(v)
                           \/ \E u \in Users : ResetSelect(v, u)
                           \/ RevokeCommit(v)
    \/ Tick
    \/ \E t \in TokenIds : TokenExpires(t)
    \/ CacheExpires

(* A started request runs to its end or dies: the event loop schedules     *)
(* every ready coroutine.  Redis drops an entry when its TTL is over.      *)
Fairness ==
    /\ \A r \in Refreshers : WF_vars(RefreshStep(r))
    /\ \A g \in Rotators : WF_vars(RotateStep(g))
    /\ WF_vars(CacheExpires)

Spec == Init /\ [][Next]_vars /\ Fairness

----------------------------------------------------------------------------
(* Every variable has its type.                                            *)
TypeOK ==
    /\ config \in Configs
    /\ cache \in Configs
    /\ userMin \in [Users -> Nat]
    /\ tokens \in [TokenIds -> Rows]
    /\ now \in Nat
    /\ refresh \in [Refreshers -> RefreshLocals]
    /\ login \in [Logins -> LoginLocals]
    /\ rotate \in [Rotators -> RotateLocals]
    /\ userRotate \in [UserRotators -> UserRotateLocals]
    /\ revoke \in [Revokers -> RevokeLocals]
    /\ origin \in [TokenIds -> TokenIds \cup {0}]

InUse(t) == tokens[t].st # "free"

(* No copy of the global version is ahead of the row.                      *)
NoVersionAhead ==
    /\ cache.ver <= config.ver
    /\ \A t \in TokenIds : tokens[t].ver <= config.ver
    /\ \A r \in Refreshers : refresh[r].cfg.ver <= config.ver
    /\ \A l \in Logins : login[l].ver <= config.ver

(* A rotation commits although another one did so after it had selected.   *)
Overtaken ==
    \E g \in Rotators : /\ rotate[g].pc = "commit" /\ rotate[g].raced
                        /\ rotate'[g].pc = "invalidate"

(* The row's version goes back, and a token, a cache entry or a request    *)
(* gets ahead of it and so survives the next rotation, only when one       *)
(* rotation overtakes another between its select and its commit: every     *)
(* version is read from the row, directly or through the cache.            *)
VersionsBackOnlyByOverlap ==
    [][Overtaken \/ /\ config'.ver >= config.ver
                    /\ NoVersionAhead => NoVersionAhead']_vars

(* The two implementations of the version rule, the refresh handler's on   *)
(* global_version_at_issuance and SecurityConfig's on token_version, give  *)
(* the same verdict on every stored token, by the row or by the cache.     *)
RulesAgree ==
    \A t \in TokenIds, c \in {config, cache}, u \in Users :
        InUse(t) => (HandlerRejects(tokens[t], c, userMin[u])
                       <=> EntityRejects(tokens[t], c, userMin[u]))

(* Rotation deletes before it saves: whenever a successor row exists, the  *)
(* token it replaced can no longer be presented, even if the worker died   *)
(* or another request worked on the same token.                            *)
ReplacedTokenIsGone ==
    \A t \in TokenIds :
        origin[t] # 0 => tokens[origin[t]].st \notin Live

InFlight(r) == refresh[r].pc # "idle"

(* Find, delete and save are commits of their own, so refreshes that       *)
(* overlap can each put a row in the place of one token; but each does so  *)
(* once, and none that comes after the first of them: the rows that have   *)
(* replaced a token and the requests that still may are never more than    *)
(* the requests that can run at once.                                      *)
Successors(t) == {x \in TokenIds : origin[x] = t}
Presenting(t) == {r \in Refreshers : InFlight(r) /\ refresh[r].tok = t}
SuccessorLimit ==
    \A t \in TokenIds :
        Cardinality(Successors(t)) + Cardinality(Presenting(t))
          <= Cardinality(Refreshers)

(* A session none of whose rows is live, with no request that still may    *)
(* add one.                                                                *)
Dead(s) ==
    /\ \A t \in TokenIds : tokens[t].sess = s => tokens[t].st \notin Live
    /\ \A r \in Refreshers :
           InFlight(r) => tokens[refresh[r].tok].sess # s
    /\ \A l \in Logins : login[l].pc = "save" => login[l].sess # s
Used(s) == \E t \in TokenIds : InUse(t) /\ tokens[t].sess = s

(* Once a session is dead, through logout, password reset, expiry or a     *)
(* refresh that died half way, no later request revives it.                *)
DeadSessionStaysDead ==
    [][\A s \in Sessions : (Used(s) /\ Dead(s)) => Dead(s)']_vars

(* A logout or a password reset that ends leaves no token usable that was  *)
(* in the table when it selected, whatever refreshes delete and insert in  *)
(* between; or it ends in a roll-back, because a refresh deleted a row it  *)
(* had selected, and then it has changed no row at all.                    *)
RevocationLeavesOnlyNew ==
    [][\A v \in Revokers :
         (revoke[v].pc = "commit" /\ revoke'[v].pc = "idle") =>
           \/ \A t \in revoke[v].seen : tokens'[t].st \notin Live
           \/ /\ UNCHANGED tokens
              /\ \E t \in revoke[v].sel : tokens[t].st = "deleted"]_vars

(* The tables and requests as the families of tokens they make.            *)
Families == INSTANCE TokenFamilies
              WITH Tokens <- TokenIds, None <- 0,
                   status <- [t \in TokenIds |-> tokens[t].st],
                   session <- [t \in TokenIds |-> tokens[t].sess],
                   parent <- origin

(* However requests overlap and die, all tokens of a session descend from  *)
(* its one login, each replaces one that is gone, no row changes its       *)
(* session, and none that is revoked or gone is used again.                *)
TokensDescendFromLogins == Families!Spec

(* A token the version rule refuses is refused for ever, whatever the      *)
(* clock and later rotations do, unless a rotation overtakes another, and  *)
(* as long as the user's own minimum is not above the global one: if it    *)
(* is, a global rotation opens a grace window for the tokens the user's    *)
(* rotation had refused.                                                   *)
Refused(t) ==
    InUse(t) /\ HandlerRejects(tokens[t], config,
                               userMin[OwnerOfToken(t)])
GloballyRefusedStaysRefused ==
    [][\A t \in TokenIds :
         (Refused(t) /\ userMin[OwnerOfToken(t)] <= config.ver)
           => Refused(t)' \/ Overtaken]_vars

(* A rotation reaches every refresh in the end: from some moment on the    *)
(* cache holds no configuration older than it, even if the invalidation    *)
(* failed or a concurrent refresh stored the old row after it, unless an   *)
(* overtaken rotation takes the version back.                              *)
RotationReachesCache ==
    \A v \in 2..MaxVersion :
        (config.ver = v) ~> \/ [](cache.ver = 0 \/ cache.ver >= v)
                            \/ config.ver < v

----------------------------------------------------------------------------
(* What the documentation says and the code does not do.                   *)

(* A token generated from the configuration row in force, as a login does, *)
(* passes the version check of the next refresh: logging in again is what  *)
(* the documentation prescribes after a rejection.                         *)
ReLoginAccepted ==
    \A u \in Users, s \in Sessions :
        UserOf[s] = u =>
            ~HandlerRejects([st |-> "active", sess |-> s, ver |-> config.ver,
                             gver |-> config.ver], config, userMin[u])

(* A refresh token is for one use: at most one row replaces it.            *)
OneSuccessor ==
    \A s, t \in TokenIds :
        (InUse(s) /\ InUse(t) /\ origin[s] # 0 /\ origin[s] = origin[t])
          => s = t
=============================================================================
