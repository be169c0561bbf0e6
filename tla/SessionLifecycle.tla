-------------------------- MODULE SessionLifecycle --------------------------
(***************************************************************************)
(* One user's sessions: the rows in PostgreSQL, their copies in Redis      *)
(* (session:{id}) and the index of those copies (user:{id}:sessions).      *)
(*                                                                         *)
(* A request is a coroutine; between two awaited calls any other request   *)
(* may run.  The index is a JSON list that is read, changed and written    *)
(* back in two Redis calls.  No two users share any of this state, so one  *)
(* user is enough; a request about somebody else's session, or one that is *)
(* answered without writing anything, is a stuttering step.                *)
(***************************************************************************)
EXTENDS Integers, FiniteSets

CONSTANTS
    Sessions,     \* bound: session ids that may be created
    Requests,     \* concurrent requests of the user
    Creators,     \* those of them that may be logins
    MaxSessions,  \* User.get_max_sessions()
    RedisFails    \* whether a Redis call may fail

ASSUME SessionsAssumption == Sessions # {} /\ IsFiniteSet(Sessions)
ASSUME RequestsAssumption == Creators \subseteq Requests
ASSUME LimitAssumption == MaxSessions \in Nat \ {0}
ASSUME RedisAssumption == RedisFails \in BOOLEAN

VARIABLES
    row,     \* sessions.is_revoked and expires_at of each session
    born,    \* the order of sessions.created_at, 0 for no row
    cached,  \* the sessions that have a session:{id} key
    index,   \* the list under user:{id}:sessions
    req      \* locals of each request

vars == <<row, born, cached, index, req>>

(* "expired": expires_at has passed and is_revoked is still false.         *)
RowStates == {"none", "active", "expired", "revoked"}
NotRevoked == {"active", "expired"}

Pcs == {"idle", "pick", "mark", "uncache", "unindexRead", "unindexWrite",
        "insert", "read", "cache", "indexRead", "indexWrite", "list", "sweep"}
AnySession == CHOOSE s \in Sessions : TRUE

(* idx: the index as read.  flag: a login that has yet to insert its row,  *)
(* or a bulk revocation that spares sess.  raced is history: the login     *)
(* counted more sessions than the limit, or another login has inserted a   *)
(* row since it counted.                                                   *)
Locals == [pc : Pcs, sess : Sessions, idx : SUBSET Sessions, flag : BOOLEAN,
           raced : BOOLEAN]

At(pc, s, flag, raced) ==
    [pc |-> pc, sess |-> s, idx |-> {}, flag |-> flag, raced |-> raced]
Idle == At("idle", AnySession, FALSE, FALSE)

Start(p, pc, s, flag) ==
    req' = [req EXCEPT ![p] = At(pc, s, flag, req[p].raced)]
Goto(p, pc) == Start(p, pc, req[p].sess, req[p].flag)
Finish(p) == req' = [req EXCEPT ![p] = Idle]

(* A login that has counted the sessions and has yet to insert its row.    *)
Evicting == {"uncache", "unindexRead", "unindexWrite"}
LoggingIn(x) ==
    \/ x.pc \in {"pick", "insert"}
    \/ x.pc \in Evicting \cup {"mark"} /\ x.flag

(* Mutant: the list of ids is stored inside another list.                  *)
WritesNested(new, old) == {{new}}

(* A failed Redis write leaves the key as it was; a failed read of the     *)
(* index is taken for an empty index.                                      *)
Writes(new, old) == IF RedisFails THEN {new, old} ELSE {new}
IndexReads == Writes(index, {})

Init ==
    /\ row = [s \in Sessions |-> "none"]
    /\ born = [s \in Sessions |-> 0]
    /\ cached = {}
    /\ index = {}
    /\ req = [p \in Requests |-> Idle]

----------------------------------------------------------------------------
(* CreateSessionHandler.handle.                                            *)

Active == {s \in Sessions : row[s] = "active"}

(* Mutant: a user at the limit may log in once more without an eviction.   *)
CreateCountLate(p) ==
    /\ req[p].pc = "idle"
    /\ p \in Creators
    /\ req' = [req EXCEPT ![p] =
                 At(IF Cardinality(Active) > MaxSessions THEN "pick"
                                                         ELSE "insert",
                    AnySession, TRUE, Cardinality(Active) > MaxSessions)]
    /\ UNCHANGED <<row, born, cached, index>>

(* count_active_sessions.                                                  *)
CreateCount(p) ==
    /\ req[p].pc = "idle"
    /\ p \in Creators
    /\ req' = [req EXCEPT ![p] =
                 At(IF Cardinality(Active) >= MaxSessions THEN "pick"
                                                          ELSE "insert",
                    AnySession, TRUE, Cardinality(Active) > MaxSessions)]
    /\ UNCHANGED <<row, born, cached, index>>

(* get_oldest_active_session: by now there may be none to evict.           *)
EvictPick(p) ==
    /\ req[p].pc = "pick"
    /\ \/ /\ Active = {}
          /\ Goto(p, "insert")
       \/ \E s \in Active :
             /\ \A x \in Active : born[s] <= born[x]
             /\ Start(p, "mark", s, TRUE)
    /\ UNCHANGED <<row, born, cached, index>>

InsertRow(p) ==
    /\ req[p].pc = "insert"
    /\ \E s \in Sessions :
          /\ row[s] = "none"
          /\ row' = [row EXCEPT ![s] = "active"]
          /\ born' = [born EXCEPT ![s] = 1 + Cardinality({x \in Sessions :
                                                            row[x] # "none"})]
          /\ req' = [q \in Requests |->
                       IF q = p
                         THEN At("cache", s, FALSE, FALSE)
                         ELSE [req[q] EXCEPT !.raced =
                                 req[q].raced \/ LoggingIn(req[q])]]
    /\ UNCHANGED <<cached, index>>

----------------------------------------------------------------------------
(* RevokeSessionHandler.handle; the eviction of a login ends the same way. *)

RevokeFind(p, s) ==
    /\ req[p].pc = "idle"
    /\ row[s] \in NotRevoked
    /\ Start(p, "mark", s, FALSE)
    /\ UNCHANGED <<row, born, cached, index>>

(* SessionRepository.save of the copy read before, now marked revoked.     *)
MarkRevoked(p) ==
    /\ req[p].pc = "mark"
    /\ row' = [row EXCEPT ![req[p].sess] = "revoked"]
    /\ Goto(p, "uncache")
    /\ UNCHANGED <<born, cached, index>>

Uncache(p) ==
    /\ req[p].pc = "uncache"
    /\ cached' \in Writes(cached \ {req[p].sess}, cached)
    /\ Goto(p, "unindexRead")
    /\ UNCHANGED <<row, born, index>>

(* remove_user_session.                                                    *)
UnindexRead(p) ==
    /\ req[p].pc = "unindexRead"
    /\ \E i \in IndexReads :
          req' = [req EXCEPT ![p] = [@ EXCEPT !.pc = "unindexWrite",
                                              !.idx = i]]
    /\ UNCHANGED <<row, born, cached, index>>

UnindexWrite(p) ==
    /\ req[p].pc = "unindexWrite"
    /\ index' \in Writes(req[p].idx \ {req[p].sess}, index)
    /\ IF req[p].flag THEN Start(p, "insert", AnySession, TRUE) ELSE Finish(p)
    /\ UNCHANGED <<row, born, cached>>

----------------------------------------------------------------------------
(* RevokeAllSessionsHandler.handle.                                        *)

(* One UPDATE, except_session_id spared if given; without one, s is        *)
(* AnySession.                                                             *)
BulkMark(p, s, keep) ==
    /\ req[p].pc = "idle"
    /\ IF keep THEN row[s] # "none" ELSE s = AnySession
    /\ row' = [x \in Sessions |->
                 IF row[x] \in NotRevoked /\ ~(keep /\ x = s)
                   THEN "revoked" ELSE row[x]]
    /\ Start(p, "list", s, keep)
    /\ UNCHANGED <<born, cached, index>>

(* The spared session is read again, and cached if it is not revoked.      *)
AfterSweep(p) ==
    IF req[p].flag THEN Start(p, "read", req[p].sess, FALSE) ELSE Finish(p)

(* delete_all_for_user: the index says what to delete.                     *)
BulkList(p) ==
    /\ req[p].pc = "list"
    /\ \E i \in IndexReads :
          IF i = {}
            THEN AfterSweep(p)
            ELSE req' = [req EXCEPT ![p] = [@ EXCEPT !.pc = "sweep",
                                                     !.idx = i]]
    /\ UNCHANGED <<row, born, cached, index>>

BulkUncache(p, s) ==
    /\ req[p].pc = "sweep"
    /\ s \in req[p].idx
    /\ cached' \in Writes(cached \ {s}, cached)
    /\ req' = [req EXCEPT ![p] = [@ EXCEPT !.idx = req[p].idx \ {s}]]
    /\ UNCHANGED <<row, born, index>>

BulkDropIndex(p) ==
    /\ req[p].pc = "sweep"
    /\ req[p].idx = {}
    /\ index' \in Writes({}, index)
    /\ AfterSweep(p)
    /\ UNCHANGED <<row, born, cached>>

----------------------------------------------------------------------------
(* Every reader of a session looks in the cache, then in the table, and    *)
(* stores what it found there: get_current_active_user, the two helpers of *)
(* the sessions router, GetSessionHandler.                                 *)

FillMiss(p, s) ==
    /\ req[p].pc = "idle"
    /\ row[s] # "none"
    /\ s \notin cached \/ RedisFails
    /\ Start(p, "read", s, FALSE)
    /\ UNCHANGED <<row, born, cached, index>>

(* Mutant: the row is cached without a look at is_revoked.                 *)
FillUnchecked(p) ==
    /\ req[p].pc = "read"
    /\ Goto(p, "cache")
    /\ UNCHANGED <<row, born, cached, index>>

FillRead(p) ==
    /\ req[p].pc = "read"
    /\ IF row[req[p].sess] \in NotRevoked THEN Goto(p, "cache") ELSE Finish(p)
    /\ UNCHANGED <<row, born, cached, index>>

(* RedisSessionCache.set; when the SETEX fails the index is left alone.    *)
CacheSet(p) ==
    /\ req[p].pc = "cache"
    /\ \/ /\ cached' = cached \cup {req[p].sess}
          /\ Goto(p, "indexRead")
       \/ /\ RedisFails
          /\ Finish(p)
          /\ UNCHANGED cached
    /\ UNCHANGED <<row, born, index>>

(* add_user_session.                                                       *)
IndexRead(p) ==
    /\ req[p].pc = "indexRead"
    /\ \E i \in IndexReads :
          req' = [req EXCEPT ![p] = [@ EXCEPT !.pc = "indexWrite", !.idx = i]]
    /\ UNCHANGED <<row, born, cached, index>>

IndexWrite(p) ==
    /\ req[p].pc = "indexWrite"
    /\ index' \in Writes(req[p].idx \cup {req[p].sess}, index)
    /\ Finish(p)
    /\ UNCHANGED <<row, born, cached>>

----------------------------------------------------------------------------
(* The worker dies or the request is cancelled.                            *)
Crash(p) ==
    /\ req[p].pc # "idle"
    /\ Finish(p)
    /\ UNCHANGED <<row, born, cached, index>>

SessionExpires(s) ==
    /\ row[s] = "active"
    /\ row' = [row EXCEPT ![s] = "expired"]
    /\ UNCHANGED <<born, cached, index, req>>

(* The TTL of a copy ends with the session, or Redis evicts it sooner.     *)
(* Mutant: the copy is stored without a TTL.                               *)
CopyKept(s) == FALSE

CopyExpires(s) ==
    /\ s \in cached
    /\ cached' = cached \ {s}
    /\ UNCHANGED <<row, born, index, req>>

IndexExpires ==
    /\ index # {}
    /\ index' = {}
    /\ UNCHANGED <<row, born, cached, req>>

Step(p) ==
    \/ EvictPick(p)
    \/ InsertRow(p)
    \/ MarkRevoked(p)
    \/ Uncache(p)
    \/ UnindexRead(p)
    \/ UnindexWrite(p)
    \/ BulkList(p)
    \/ \E s \in Sessions : BulkUncache(p, s)
    \/ BulkDropIndex(p)
    \/ FillRead(p)
    \/ CacheSet(p)
    \/ IndexRead(p)
    \/ IndexWrite(p)

Begin(p) ==
    \/ CreateCount(p)
    \/ \E s \in Sessions : RevokeFind(p, s)
    \/ \E s \in Sessions, keep \in BOOLEAN : BulkMark(p, s, keep)
    \/ \E s \in Sessions : FillMiss(p, s)

Next ==
    \/ \E p \in Requests : Begin(p) \/ Step(p) \/ Crash(p)
    \/ \E s \in Sessions : SessionExpires(s) \/ CopyExpires(s)
    \/ IndexExpires

(* A started request runs to its end or dies, and every copy in Redis has  *)
(* a TTL.                                                                  *)
Fairness ==
    /\ \A p \in Requests : WF_vars(Step(p))
    /\ \A s \in Sessions : WF_vars(CopyExpires(s))

Spec == Init /\ [][Next]_vars /\ Fairness

----------------------------------------------------------------------------
(* Every variable has its type.                                            *)
TypeOK ==
    /\ row \in [Sessions -> RowStates]
    /\ born \in [Sessions -> Nat]
    /\ cached \subseteq Sessions
    /\ index \subseteq Sessions
    /\ req \in [Requests -> Locals]

(* A user within the limit goes above it only by a login that overlaps     *)
(* another one: whatever revocations, expiries and crashes come between    *)
(* the count, the eviction and the insertion, a login during which no      *)
(* other has inserted a row keeps the limit.                               *)
SessionLimit == Cardinality(Active) <= MaxSessions
OverlapInserts ==
    \E p \in Requests : /\ req[p].pc = "insert" /\ req[p].raced
                        /\ req'[p].pc = "cache"
LimitExceededOnlyByOverlap ==
    [][SessionLimit => SessionLimit' \/ OverlapInserts]_vars

(* Some request has read the session's row as not revoked and has yet to   *)
(* store the copy.                                                         *)
HoldsCopy(p, s) == req[p].pc = "cache" /\ req[p].sess = s
Gone(s) ==
    /\ row[s] = "revoked"
    /\ s \notin cached
    /\ \A p \in Requests : ~HoldsCopy(p, s)

(* A revoked session that is out of the cache, and of which no request     *)
(* still holds an old copy, is refused for ever: no reader, re-caching or  *)
(* write of a stale row brings it back.                                    *)
GoneForGood == [][\A s \in Sessions : Gone(s) => Gone(s)']_vars

(* However the revocation, its Redis calls and the readers interleave or   *)
(* fail, from some moment on the revoked session is not in the cache.      *)
RevocationReachesCache ==
    \A s \in Sessions : (row[s] = "revoked") ~> [](s \notin cached)

----------------------------------------------------------------------------
(* What the documentation says and the code does not do.                   *)

(* A revoked session is out of the cache when the revocation is over.      *)
Quiet == \A p \in Requests : req[p].pc = "idle"
RevokedIsUncached ==
    Quiet => \A s \in Sessions : row[s] = "revoked" => s \notin cached
=============================================================================
