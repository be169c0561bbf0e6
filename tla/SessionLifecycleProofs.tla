---------------------- MODULE SessionLifecycleProofs ----------------------
(***************************************************************************)
(* What SessionLifecycle guarantees for any number of sessions and         *)
(* requests, any limit, and with or without Redis failures.                *)
(***************************************************************************)
EXTENDS SessionLifecycle, FiniteSetTheorems, TLAPS

USE SessionsAssumption, RequestsAssumption, LimitAssumption, RedisAssumption

LEMMA AnySessionIsOne == AnySession \in Sessions
  BY DEF AnySession

LEMMA ActiveIsFinite == IsFiniteSet(Active) /\ Cardinality(Active) \in Nat
<1>1. Active \subseteq Sessions
  BY DEF Active
<1>2. QED
  BY <1>1, FS_Subset, FS_CardinalityType

----------------------------------------------------------------------------
(* Type correctness.                                                       *)

LEMMA LocalsTypes ==
  /\ Idle \in Locals
  /\ \A pc \in Pcs, s \in Sessions, f, r \in BOOLEAN :
       At(pc, s, f, r) \in Locals
  BY AnySessionIsOne DEF Idle, Locals, Pcs, At

LEMMA ReadsAreSubsets == index \subseteq Sessions =>
                           \A i \in IndexReads : i \subseteq Sessions
  BY DEF IndexReads, Writes

(* A login that counts more sessions than the limit knows it.              *)
LEMMA CountLocals ==
  ASSUME NEW p \in Requests, CreateCount(p)
  PROVE  \E pc \in {"pick", "insert"}, r \in BOOLEAN :
           /\ req' = [req EXCEPT ![p] = At(pc, AnySession, TRUE, r)]
           /\ pc = "insert" => Cardinality(Active) < MaxSessions
           /\ ~r => Cardinality(Active) <= MaxSessions
<1> DEFINE over == Cardinality(Active) > MaxSessions
           pc == IF Cardinality(Active) >= MaxSessions THEN "pick" ELSE "insert"
<1>1. over \in BOOLEAN /\ pc \in {"pick", "insert"}
  OBVIOUS
<1>2. req' = [req EXCEPT ![p] = At(pc, AnySession, TRUE, over)]
  BY DEF CreateCount
<1>3. /\ pc = "insert" => Cardinality(Active) < MaxSessions
      /\ ~over => Cardinality(Active) <= MaxSessions
  BY ActiveIsFinite, LimitAssumption
<1> HIDE DEF over, pc
<1>4. QED
  BY <1>1, <1>2, <1>3

(* An insertion tells the logins it overtakes, and changes nothing else of *)
(* theirs.                                                                 *)
LEMMA InsertLocals ==
  ASSUME TypeOK, NEW p \in Requests, InsertRow(p)
  PROVE  /\ req' \in [Requests -> Locals]
         /\ \E s \in Sessions : /\ row[s] = "none"
                                /\ row' = [row EXCEPT ![s] = "active"]
                                /\ req'[p] = At("cache", s, FALSE, FALSE)
         /\ \A q \in Requests \ {p} :
              /\ req'[q].pc = req[q].pc /\ req'[q].sess = req[q].sess
              /\ req'[q].flag = req[q].flag
              /\ req'[q].raced = (req[q].raced \/ LoggingIn(req[q]))
<1> DEFINE Told(q) == [req[q] EXCEPT !.raced =
                         req[q].raced \/ LoggingIn(req[q])]
<1>1. PICK s \in Sessions :
        /\ row[s] = "none" /\ row' = [row EXCEPT ![s] = "active"]
        /\ req' = [q \in Requests |->
                     IF q = p THEN At("cache", s, FALSE, FALSE) ELSE Told(q)]
  BY ONLY InsertRow(p) DEF InsertRow
<1>2. ASSUME NEW q \in Requests
      PROVE  /\ Told(q) \in Locals
             /\ Told(q).pc = req[q].pc /\ Told(q).sess = req[q].sess
             /\ Told(q).flag = req[q].flag
             /\ Told(q).raced = (req[q].raced \/ LoggingIn(req[q]))
  <2>1. req[q] \in Locals /\ (req[q].raced \/ LoggingIn(req[q])) \in BOOLEAN
    BY DEF TypeOK
  <2> HIDE DEF LoggingIn
  <2>2. \A b \in BOOLEAN : LET x == [req[q] EXCEPT !.raced = b]
                           IN  /\ x \in Locals
                               /\ x.pc = req[q].pc /\ x.sess = req[q].sess
                               /\ x.flag = req[q].flag /\ x.raced = b
    BY <2>1 DEF Locals
  <2>3. QED
    BY <2>1, <2>2
<1>3. At("cache", s, FALSE, FALSE) \in Locals
  BY LocalsTypes DEF Pcs
<1> HIDE DEF Told
<1>4. QED
  BY <1>1, <1>2, <1>3

(* Any other step of request p writes no other request's locals, and its   *)
(* own to a typed value.                                                   *)
LEMMA StepLocals ==
  ASSUME TypeOK, NEW p \in Requests, Begin(p) \/ Step(p) \/ Crash(p),
         ~InsertRow(p)
  PROVE  \E x \in Locals : req' = [req EXCEPT ![p] = x]
<1> USE LocalsTypes, AnySessionIsOne
<1>0. /\ req[p] \in Locals /\ req[p].sess \in Sessions
      /\ req[p].flag \in BOOLEAN /\ req[p].raced \in BOOLEAN
  BY DEF TypeOK, Locals
<1>1. ASSUME NEW i \in SUBSET Sessions, NEW pc \in Pcs
      PROVE  /\ [req[p] EXCEPT !.pc = pc, !.idx = i] \in Locals
             /\ [req[p] EXCEPT !.idx = i] \in Locals
  BY <1>0 DEF Locals
<1>2. CASE Begin(p)
  <2>1. CASE CreateCount(p)
    BY <2>1, CountLocals DEF Pcs
  <2>2. CASE ~CreateCount(p)
    BY <1>0, <1>2, <2>2 DEF Begin, RevokeFind, BulkMark, FillMiss, Start, Pcs
  <2>3. QED
    BY <2>1, <2>2
<1>3. CASE EvictPick(p) \/ MarkRevoked(p) \/ Uncache(p)
  BY <1>0, <1>3 DEF EvictPick, MarkRevoked, Uncache, Start, Goto, Pcs, Active
<1>4. CASE UnindexRead(p) \/ IndexRead(p)
  <2>1. \A i \in IndexReads : i \in SUBSET Sessions
    BY ReadsAreSubsets DEF TypeOK
  <2>2. QED
    BY <1>1, <1>4, <2>1 DEF UnindexRead, IndexRead, Pcs
<1>5. CASE UnindexWrite(p) \/ FillRead(p) \/ CacheSet(p) \/ IndexWrite(p)
           \/ BulkDropIndex(p)
  BY <1>0, <1>5 DEF UnindexWrite, FillRead, CacheSet, IndexWrite,
                    BulkDropIndex, AfterSweep, Start, Goto, Finish, Pcs
<1>6. CASE BulkList(p)
  <2>1. \A i \in IndexReads : i \in SUBSET Sessions
    BY ReadsAreSubsets DEF TypeOK
  <2>2. CASE AfterSweep(p)
    BY <1>0, <2>2 DEF AfterSweep, Start, Finish, Pcs
  <2>3. ASSUME NEW i \in IndexReads,
               req' = [req EXCEPT ![p] =
                         [req[p] EXCEPT !.pc = "sweep", !.idx = i]]
        PROVE  \E x \in Locals : req' = [req EXCEPT ![p] = x]
    <3>1. [req[p] EXCEPT !.pc = "sweep", !.idx = i] \in Locals
      BY <1>1, <2>1 DEF Pcs
    <3>2. QED
      BY <2>3, <3>1
  <2>4. AfterSweep(p) \/ \E i \in IndexReads :
          req' = [req EXCEPT ![p] = [req[p] EXCEPT !.pc = "sweep", !.idx = i]]
    BY <1>6 DEF BulkList
  <2>5. QED
    BY <2>2, <2>3, <2>4
<1>7. ASSUME NEW s \in Sessions, BulkUncache(p, s)
      PROVE  \E x \in Locals : req' = [req EXCEPT ![p] = x]
  <2>1. req[p].idx \ {s} \in SUBSET Sessions
    BY <1>0 DEF Locals
  <2>2. [req[p] EXCEPT !.idx = req[p].idx \ {s}] \in Locals
    BY <1>1, <2>1 DEF Pcs
  <2>3. QED
    BY <1>7, <2>2 DEF BulkUncache
<1>8. CASE Crash(p)
  BY <1>8 DEF Crash, Finish
<1>9. QED
  BY <1>2, <1>3, <1>4, <1>5, <1>6, <1>7, <1>8 DEF Step

(* The steps that write a row: a login inserts, a revocation marks, time   *)
(* expires.                                                                *)
LEMMA RowWriters ==
  ASSUME [Next]_vars
  PROVE  \/ row' = row
         \/ \E p \in Requests : InsertRow(p) \/ MarkRevoked(p)
         \/ \E p \in Requests, x \in Sessions, keep \in BOOLEAN :
              BulkMark(p, x, keep)
         \/ \E x \in Sessions : SessionExpires(x)
<1>1. ASSUME NEW p \in Requests,
             \/ CreateCount(p) \/ (\E x \in Sessions : RevokeFind(p, x))
             \/ (\E x \in Sessions : FillMiss(p, x))
             \/ EvictPick(p) \/ Uncache(p) \/ UnindexRead(p)
             \/ UnindexWrite(p) \/ BulkList(p)
             \/ (\E x \in Sessions : BulkUncache(p, x))
             \/ BulkDropIndex(p) \/ FillRead(p) \/ CacheSet(p)
             \/ IndexRead(p) \/ IndexWrite(p) \/ Crash(p)
      PROVE  row' = row
  BY <1>1 DEF CreateCount, RevokeFind, FillMiss, EvictPick, Uncache,
              UnindexRead, UnindexWrite, BulkList, BulkUncache, BulkDropIndex,
              FillRead, CacheSet, IndexRead, IndexWrite, Crash
<1>2. (\E x \in Sessions : CopyExpires(x)) \/ IndexExpires \/ UNCHANGED vars
        => row' = row
  BY DEF CopyExpires, IndexExpires, vars
<1>3. QED
  BY <1>1, <1>2 DEF Next, Begin, Step

LEMMA StepRow ==
  ASSUME TypeOK, [Next]_vars
  PROVE  /\ row' \in [Sessions -> RowStates]
         /\ \A s \in Sessions :
              \/ row'[s] = row[s]
              \/ \E p \in Requests : /\ InsertRow(p) /\ row[s] = "none"
                                     /\ row'[s] = "active"
              \/ row[s] \in NotRevoked /\ row'[s] \in {"revoked", "expired"}
              \/ \E p \in Requests : MarkRevoked(p) /\ row'[s] = "revoked"
<1> USE DEF TypeOK, RowStates, NotRevoked
<1>1. ASSUME NEW p \in Requests, InsertRow(p)
      PROVE  /\ row' \in [Sessions -> RowStates]
             /\ \A s \in Sessions :
                  \/ row'[s] = row[s]
                  \/ row[s] = "none" /\ row'[s] = "active"
  <2>1. PICK x \in Sessions : /\ row[x] = "none"
                              /\ row' = [row EXCEPT ![x] = "active"]
    BY ONLY <1>1 DEF InsertRow
  <2>2. QED
    BY <2>1
<1>2. ASSUME NEW p \in Requests, MarkRevoked(p)
      PROVE  /\ row' \in [Sessions -> RowStates]
             /\ \A s \in Sessions : row'[s] \in {row[s], "revoked"}
  BY <1>2 DEF MarkRevoked
<1>3. ASSUME NEW p \in Requests, NEW x \in Sessions, NEW keep \in BOOLEAN,
             BulkMark(p, x, keep)
      PROVE  /\ row' \in [Sessions -> RowStates]
             /\ \A s \in Sessions :
                  \/ row'[s] = row[s]
                  \/ row[s] \in NotRevoked /\ row'[s] = "revoked"
  BY <1>3 DEF BulkMark
<1>4. ASSUME NEW x \in Sessions, SessionExpires(x)
      PROVE  /\ row' \in [Sessions -> RowStates]
             /\ \A s \in Sessions :
                  \/ row'[s] = row[s]
                  \/ row[s] \in NotRevoked /\ row'[s] = "expired"
  BY <1>4 DEF SessionExpires
<1>5. CASE row' = row
  BY <1>5
<1>6. QED
  BY <1>1, <1>2, <1>3, <1>4, <1>5, RowWriters

LEMMA StepCached ==
  ASSUME TypeOK, [Next]_vars
  PROVE  /\ index' \subseteq Sessions
         /\ \/ cached' \subseteq cached
            \/ \E p \in Requests : /\ CacheSet(p)
                                   /\ cached' = cached \cup {req[p].sess}
<1>0. \A p \in Requests : req[p] \in Locals
  BY DEF TypeOK
<1>1. ASSUME NEW p \in Requests, CacheSet(p)
      PROVE  /\ index' = index
             /\ cached' = cached \/ cached' = cached \cup {req[p].sess}
  BY <1>1 DEF CacheSet
<1>2. ASSUME NEW p \in Requests,
             \/ Uncache(p) \/ (\E s \in Sessions : BulkUncache(p, s))
      PROVE  index' = index /\ cached' \subseteq cached
  BY <1>2 DEF Uncache, BulkUncache, Writes
<1>3. ASSUME NEW p \in Requests,
             UnindexWrite(p) \/ IndexWrite(p) \/ BulkDropIndex(p)
      PROVE  index' \subseteq Sessions /\ cached' = cached
  BY <1>0, <1>3 DEF UnindexWrite, IndexWrite, BulkDropIndex, Writes, TypeOK,
                    Locals
<1>4. ASSUME NEW p \in Requests,
             \/ Begin(p) \/ EvictPick(p) \/ InsertRow(p) \/ MarkRevoked(p)
             \/ UnindexRead(p) \/ BulkList(p) \/ FillRead(p)
             \/ IndexRead(p) \/ Crash(p)
      PROVE  index' = index /\ cached' = cached
  BY <1>4 DEF Begin, CreateCount, RevokeFind, BulkMark, FillMiss, EvictPick,
              InsertRow, MarkRevoked, UnindexRead, BulkList, FillRead,
              IndexRead, Crash
<1>5. \/ \E s \in Sessions : SessionExpires(s) \/ CopyExpires(s)
      \/ IndexExpires \/ UNCHANGED vars
      => index' \in {index, {}} /\ cached' \subseteq cached
  BY DEF SessionExpires, CopyExpires, IndexExpires, vars
<1>6. index \subseteq Sessions
  BY DEF TypeOK
<1>7. QED
  BY <1>1, <1>2, <1>3, <1>4, <1>5, <1>6 DEF Next, Step

LEMMA StepBorn ==
  ASSUME TypeOK, [Next]_vars
  PROVE  born' \in [Sessions -> Nat]
<1>1. ASSUME NEW p \in Requests, InsertRow(p)
      PROVE  born' \in [Sessions -> Nat]
  <2>1. \A S \in SUBSET Sessions : Cardinality(S) \in Nat
    BY FS_Subset, FS_CardinalityType
  <2>2. 1 + Cardinality({x \in Sessions : row[x] # "none"}) \in Nat
    BY <2>1
  <2>3. QED
    BY <1>1, <2>2 DEF InsertRow, TypeOK
<1>2. ASSUME NEW p \in Requests,
             \/ Begin(p) \/ EvictPick(p) \/ MarkRevoked(p) \/ Uncache(p)
             \/ UnindexRead(p) \/ UnindexWrite(p) \/ BulkList(p)
             \/ (\E s \in Sessions : BulkUncache(p, s))
             \/ BulkDropIndex(p) \/ FillRead(p) \/ CacheSet(p)
             \/ IndexRead(p) \/ IndexWrite(p) \/ Crash(p)
      PROVE  born' = born
  BY <1>2 DEF Begin, CreateCount, RevokeFind, BulkMark, FillMiss, EvictPick,
              MarkRevoked, Uncache, UnindexRead, UnindexWrite, BulkList,
              BulkUncache, BulkDropIndex, FillRead, CacheSet, IndexRead,
              IndexWrite, Crash
<1>3. \/ \E s \in Sessions : SessionExpires(s) \/ CopyExpires(s)
      \/ IndexExpires \/ UNCHANGED vars
      => born' = born
  BY DEF SessionExpires, CopyExpires, IndexExpires, vars
<1>4. QED
  BY <1>1, <1>2, <1>3 DEF Next, Step, TypeOK

LEMMA StepReq ==
  ASSUME TypeOK, [Next]_vars
  PROVE  \/ req' = req
         \/ \E p \in Requests : InsertRow(p)
         \/ \E p \in Requests : /\ Begin(p) \/ Step(p) \/ Crash(p)
                                /\ ~InsertRow(p)
                                /\ \E x \in Locals :
                                     req' = [req EXCEPT ![p] = x]
<1>1. \/ \E s \in Sessions : SessionExpires(s) \/ CopyExpires(s)
      \/ IndexExpires \/ UNCHANGED vars
      => req' = req
  BY DEF SessionExpires, CopyExpires, IndexExpires, vars
<1>2. QED
  BY <1>1, StepLocals DEF Next

LEMMA StepTypeOK ==
  ASSUME TypeOK, [Next]_vars
  PROVE  TypeOK'
<1>1. row' \in [Sessions -> RowStates]
  BY StepRow
<1>2. req' \in [Requests -> Locals]
  BY StepReq, InsertLocals DEF TypeOK
<1>3. cached' \subseteq Sessions
  BY StepCached DEF TypeOK, CacheSet, Locals
<1>4. QED
  BY <1>1, <1>2, <1>3, StepCached, StepBorn DEF TypeOK

THEOREM SessionTypes == Spec => []TypeOK
<1>1. Init => TypeOK
  BY LocalsTypes DEF Init, TypeOK, RowStates
<1>2. TypeOK /\ [Next]_vars => TypeOK'
  BY StepTypeOK
<1>3. QED
  BY <1>1, <1>2, PTL DEF Spec

----------------------------------------------------------------------------
(* A revoked session does not come back.                                   *)

LEMMA StepHoldsCopy ==
  ASSUME TypeOK, [Next]_vars, NEW p \in Requests, NEW s \in Sessions,
         HoldsCopy(p, s)'
  PROVE  HoldsCopy(p, s) \/ row[s] \in NotRevoked \/ row[s] = "none"
<1>1. CASE req' = req
  BY <1>1 DEF HoldsCopy
<1>2. ASSUME NEW q \in Requests, q # p, NEW x \in Locals,
             req' = [req EXCEPT ![q] = x]
      PROVE  HoldsCopy(p, s)
  BY <1>2 DEF HoldsCopy, TypeOK
<1>3. ASSUME Begin(p) \/ Step(p) \/ Crash(p), ~InsertRow(p)
      PROVE  row[s] \in NotRevoked \/ row[s] = "none" \/ HoldsCopy(p, s)
  <2>1. req'[p].pc = "cache" /\ req'[p].sess = s
    BY DEF HoldsCopy
  <2>3. CASE FillRead(p)
    BY <2>1, <2>3 DEF FillRead, Start, Goto, Finish, At, Idle, TypeOK
  <2>4. CASE Begin(p) \/ Crash(p)
    BY <2>1, <2>4 DEF Begin, Crash, CreateCount, RevokeFind, BulkMark,
                      FillMiss, Start, Finish, At, Idle, TypeOK
  <2>5. CASE \/ EvictPick(p) \/ MarkRevoked(p) \/ Uncache(p) \/ UnindexWrite(p)
             \/ BulkDropIndex(p) \/ IndexWrite(p) \/ CacheSet(p)
    <3>1. \/ Finish(p)
          \/ \E pc, y, f : pc # "cache" /\ Start(p, pc, y, f)
      <4>1. CASE EvictPick(p)
        BY <4>1 DEF EvictPick, Goto
      <4>2. CASE MarkRevoked(p) \/ Uncache(p)
        BY <4>2 DEF MarkRevoked, Uncache, Goto
      <4>3. CASE UnindexWrite(p) \/ BulkDropIndex(p)
        BY <4>3 DEF UnindexWrite, BulkDropIndex, AfterSweep
      <4>4. CASE IndexWrite(p) \/ CacheSet(p)
        BY <4>4 DEF IndexWrite, CacheSet, Goto
      <4>5. QED
        BY <2>5, <4>1, <4>2, <4>3, <4>4
    <3>2. QED
      BY <2>1, <3>1 DEF Start, Finish, At, Idle, TypeOK
  <2>6. CASE UnindexRead(p) \/ IndexRead(p)
    BY <2>1, <2>6 DEF UnindexRead, IndexRead, TypeOK, Locals
  <2>7. CASE BulkList(p)
    <3>1. AfterSweep(p) \/ \E i : req' = [req EXCEPT ![p] =
            [req[p] EXCEPT !.pc = "sweep", !.idx = i]]
      BY <2>7 DEF BulkList
    <3>2. CASE AfterSweep(p)
      BY <2>1, <3>2 DEF AfterSweep, Start, Finish, At, Idle, TypeOK
    <3>3. ASSUME NEW i, req' = [req EXCEPT ![p] =
                                  [req[p] EXCEPT !.pc = "sweep", !.idx = i]]
          PROVE  FALSE
      <4>1. req \in [Requests -> Locals] /\ req[p] \in Locals
        BY DEF TypeOK
      <4>2. req'[p].pc = "sweep"
        BY <3>3, <4>1 DEF Locals
      <4>3. QED
        BY <2>1, <4>2
    <3>4. QED
      BY <3>1, <3>2, <3>3
  <2>8. ASSUME NEW y \in Sessions, BulkUncache(p, y)
        PROVE  FALSE
    BY <2>1, <2>8 DEF BulkUncache, TypeOK, Locals
  <2>9. QED
    BY <1>3, <2>3, <2>4, <2>5, <2>6, <2>7, <2>8 DEF Step
<1>4. ASSUME NEW q \in Requests, InsertRow(q)
      PROVE  HoldsCopy(p, s) \/ row[s] = "none"
  <2>1. PICK x \in Sessions : /\ row[x] = "none"
                              /\ req'[q] = At("cache", x, FALSE, FALSE)
    BY <1>4, InsertLocals
  <2>2. q # p => req'[p].pc = req[p].pc /\ req'[p].sess = req[p].sess
    BY <1>4, InsertLocals
  <2>3. QED
    BY <2>1, <2>2 DEF HoldsCopy, At
<1>5. QED
  BY <1>1, <1>2, <1>3, <1>4, StepReq

(* Once a session is revoked, out of the cache, and no request is about to *)
(* cache what it read before the revocation, no sequence of logins,        *)
(* readers, revocations, failures and crashes brings it back.              *)
THEOREM RevocationIsFinal == Spec => GoneForGood
<1> DEFINE Body == \A s \in Sessions : Gone(s) => Gone(s)'
<1>1. ASSUME TypeOK, [Next]_vars
      PROVE  Body
  <2>1. SUFFICES ASSUME NEW s \in Sessions, Gone(s)
                 PROVE  Gone(s)'
    OBVIOUS
  <2>2. row'[s] = "revoked"
    BY <1>1, <2>1, StepRow DEF Gone, NotRevoked
  <2>3. s \notin cached'
    BY <1>1, <2>1, StepCached DEF Gone, CacheSet, HoldsCopy
  <2>4. \A p \in Requests : ~HoldsCopy(p, s)'
    BY <1>1, <2>1, StepHoldsCopy DEF Gone, NotRevoked
  <2>5. QED
    BY <2>2, <2>3, <2>4 DEF Gone
<1>2. TypeOK /\ [Next]_vars => [Body]_vars
  BY <1>1
<1>3. Spec => [][Body]_vars
  BY <1>2, SessionTypes, PTL DEF Spec
<1>4. QED
  BY <1>3 DEF GoneForGood

----------------------------------------------------------------------------
(* The session limit.                                                      *)

(* A login that no other has overtaken has found the user within the       *)
(* limit, and has room for its row, or will have by marking its victim.    *)
WithRoom(p) ==
    LoggingIn(req[p]) /\ ~req[p].raced =>
      /\ req[p].pc = "pick" => Cardinality(Active) <= MaxSessions
      /\ req[p].pc = "mark" => Cardinality(Active \ {req[p].sess}) < MaxSessions
      /\ req[p].pc \in Evicting \cup {"insert"} =>
           Cardinality(Active) < MaxSessions

LEMMA Counts ==
  ASSUME NEW A \in SUBSET Sessions, NEW B \in SUBSET A
  PROVE  /\ Cardinality(A) \in Nat /\ Cardinality(B) \in Nat
         /\ Cardinality(B) <= Cardinality(A)
         /\ \A x \in Sessions :
              Cardinality(A \cup {x}) <= Cardinality(A) + 1
         /\ \A x \in A : Cardinality(A \ {x}) = Cardinality(A) - 1
<1>1. IsFiniteSet(A) /\ IsFiniteSet(B)
  BY FS_Subset
<1>2. Cardinality(A) \in Nat /\ Cardinality(B) \in Nat
  BY <1>1, FS_CardinalityType
<1>3. Cardinality(B) <= Cardinality(A)
  BY <1>1, FS_Subset
<1>4. ASSUME NEW x \in Sessions
      PROVE  Cardinality(A \cup {x}) <= Cardinality(A) + 1
  <2>1. Cardinality(A \cup {x}) =
          IF x \in A THEN Cardinality(A) ELSE Cardinality(A) + 1
    BY <1>1, FS_AddElement, Zenon
  <2>2. QED
    BY <1>2, <2>1
<1>5. ASSUME NEW x \in A
      PROVE  Cardinality(A \ {x}) = Cardinality(A) - 1
  BY <1>1, FS_RemoveElement
<1>6. QED
  BY <1>2, <1>3, <1>4, <1>5

(* Only a login adds an active session.                                    *)
LEMMA ActiveShrinks ==
  ASSUME TypeOK, [Next]_vars, \A p \in Requests : ~InsertRow(p)
  PROVE  /\ Active' \subseteq Active /\ Active \subseteq Sessions
         /\ Cardinality(Active') \in Nat /\ Cardinality(Active) \in Nat
         /\ Cardinality(Active') <= Cardinality(Active)
         /\ \A x \in Sessions :
              Cardinality(Active' \ {x}) <= Cardinality(Active \ {x})
<1>1. Active' \subseteq Active /\ Active \subseteq Sessions
  BY StepRow DEF Active
<1>2. \A x \in Sessions : /\ Active' \ {x} \subseteq Active \ {x}
                          /\ Active \ {x} \subseteq Sessions
  BY <1>1
<1>3. QED
  BY <1>1, <1>2, Counts

LEMMA InsertKeepsRoom ==
  ASSUME TypeOK, NEW p \in Requests, InsertRow(p), NEW q \in Requests
  PROVE  WithRoom(q)'
<1>1. CASE q = p
  <2>1. PICK s \in Sessions : req'[p] = At("cache", s, FALSE, FALSE)
    BY InsertLocals
  <2>2. ~LoggingIn(req'[q])
    BY <1>1, <2>1 DEF At, LoggingIn, Evicting
  <2>3. QED
    BY <2>2 DEF WithRoom
<1>2. CASE q # p
  <2>1. /\ req'[q].pc = req[q].pc /\ req'[q].flag = req[q].flag
        /\ req'[q].raced = (req[q].raced \/ LoggingIn(req[q]))
    BY <1>2, InsertLocals
  <2>2. LoggingIn(req'[q]) => req'[q].raced
    BY <2>1 DEF LoggingIn
  <2>3. QED
    BY <2>2 DEF WithRoom
<1>3. QED
  BY <1>1, <1>2

(* The row of a login that no other has overtaken fits into the limit.     *)
LEMMA InsertKeepsLimit ==
  ASSUME TypeOK, NEW p \in Requests, WithRoom(p), InsertRow(p)
  PROVE  SessionLimit' \/ OverlapInserts
<1>1. PICK s \in Sessions : /\ row' = [row EXCEPT ![s] = "active"]
                            /\ req'[p] = At("cache", s, FALSE, FALSE)
  BY InsertLocals
<1>2. req[p].pc = "insert" /\ req'[p].pc = "cache"
  BY <1>1 DEF InsertRow, At
<1>3. CASE req[p].raced
  BY <1>2, <1>3 DEF OverlapInserts
<1>4. CASE ~req[p].raced
  <2>1. Cardinality(Active) < MaxSessions
    BY <1>2, <1>4 DEF WithRoom, LoggingIn
  <2>2. Active' = Active \cup {s} /\ Active \subseteq Sessions
    BY <1>1 DEF Active, TypeOK
  <2>3. QED
    BY <2>1, <2>2, Counts DEF SessionLimit
<1>5. QED
  BY <1>3, <1>4

LEMMA ActiveAfterMark ==
  ASSUME TypeOK, NEW p \in Requests, MarkRevoked(p)
  PROVE  /\ Active' = Active \ {req[p].sess}
         /\ req'[p] = At("uncache", req[p].sess, req[p].flag, req[p].raced)
BY DEF MarkRevoked, Goto, Start, At, Active, TypeOK, RowStates

LEMMA NoClaim ==
  ASSUME NEW p \in Requests, ~LoggingIn(req'[p])
  PROVE  WithRoom(p)'
BY DEF WithRoom

(* What a step of p that is not an insertion leaves of p's own room.       *)
LEMMA OwnRoom ==
  ASSUME TypeOK, NEW p \in Requests, WithRoom(p),
         Begin(p) \/ Step(p) \/ Crash(p), ~InsertRow(p)
  PROVE  WithRoom(p)'
<1>1. /\ req[p] \in Locals /\ p \in DOMAIN req
      /\ \A x : [req EXCEPT ![p] = x][p] = x
  BY DEF TypeOK
<1>2. CASE CreateCount(p)
  <2>1. PICK pc \in {"pick", "insert"}, r \in BOOLEAN :
          /\ req' = [req EXCEPT ![p] = At(pc, AnySession, TRUE, r)]
          /\ pc = "insert" => Cardinality(Active) < MaxSessions
          /\ ~r => Cardinality(Active) <= MaxSessions
    BY <1>2, CountLocals
  <2>2. Active' = Active /\ req'[p] = At(pc, AnySession, TRUE, r)
    BY <1>1, <1>2, <2>1 DEF CreateCount, Active
  <2>3. QED
    BY <2>1, <2>2 DEF At, WithRoom, Evicting
<1>3. CASE EvictPick(p)
  <2>1. Active' = Active /\ req[p].pc = "pick"
    BY <1>3 DEF EvictPick, Active
  <2>2. CASE /\ Active = {}
             /\ req'[p] = At("insert", req[p].sess, req[p].flag, req[p].raced)
    <3>1. Cardinality(Active) = 0 /\ MaxSessions \in Nat \ {0}
      BY <2>2, FS_EmptySet, LimitAssumption
    <3>2. QED
      BY <2>1, <2>2, <3>1 DEF At, WithRoom, Evicting
  <2>3. ASSUME NEW s \in Active, req'[p] = At("mark", s, TRUE, req[p].raced)
        PROVE  WithRoom(p)'
    <3>1. /\ Cardinality(Active \ {s}) = Cardinality(Active) - 1
          /\ Cardinality(Active) \in Nat
      BY Counts DEF Active
    <3>2. ~req[p].raced => Cardinality(Active \ {s}) < MaxSessions
      BY <2>1, <3>1, LimitAssumption DEF WithRoom, LoggingIn
    <3>3. QED
      BY <2>1, <2>3, <3>2 DEF At, WithRoom, Evicting
  <2>4. QED
    BY <1>1, <1>3, <2>2, <2>3 DEF EvictPick, Start, Goto
<1>4. CASE MarkRevoked(p)
  <2>1. /\ Active' = Active \ {req[p].sess}
        /\ req'[p] = At("uncache", req[p].sess, req[p].flag, req[p].raced)
    BY <1>4, ActiveAfterMark
  <2>2. req[p].pc = "mark"
    BY <1>4 DEF MarkRevoked
  <2>3. QED
    BY <2>1, <2>2 DEF At, WithRoom, LoggingIn, Evicting
<1>5. CASE Uncache(p) \/ UnindexRead(p)
  <2>1. /\ Active' = Active /\ req[p].pc \in Evicting
        /\ req'[p].pc \in Evicting /\ req'[p].flag = req[p].flag
        /\ req'[p].raced = req[p].raced
    <3>1. CASE Uncache(p)
      <4>1. req'[p] = At("unindexRead", req[p].sess, req[p].flag,
                         req[p].raced)
        BY <1>1, <3>1 DEF Uncache, Goto, Start
      <4>2. QED
        BY <3>1, <4>1 DEF Uncache, At, Active, Evicting
    <3>2. CASE UnindexRead(p)
      <4>1. PICK i \in IndexReads : req'[p] =
              [req[p] EXCEPT !.pc = "unindexWrite", !.idx = i]
        BY <1>1, <3>2 DEF UnindexRead
      <4>2. QED
        BY <1>1, <3>2, <4>1 DEF UnindexRead, Active, Evicting, Locals
    <3>3. QED
      BY <1>5, <3>1, <3>2
  <2>2. QED
    BY <2>1 DEF WithRoom, LoggingIn, Evicting
<1>6. CASE UnindexWrite(p)
  <2>1. /\ Active' = Active /\ req[p].pc \in Evicting
        /\ \/ /\ req[p].flag
              /\ req'[p] = At("insert", AnySession, TRUE, req[p].raced)
           \/ req'[p] = Idle
    BY <1>1, <1>6 DEF UnindexWrite, Start, Finish, Active, Evicting
  <2>2. QED
    BY <2>1 DEF WithRoom, LoggingIn, Evicting, At, Idle
<1>7. CASE \/ \E s \in Sessions : RevokeFind(p, s) \/ FillMiss(p, s)
           \/ \E s \in Sessions, keep \in BOOLEAN : BulkMark(p, s, keep)
  <2>1. ASSUME NEW pc \in {"mark", "read"}, NEW s \in Sessions,
               Start(p, pc, s, FALSE)
        PROVE  WithRoom(p)'
    BY <1>1, <2>1, NoClaim DEF Start, LoggingIn, At, Evicting
  <2>2. ASSUME NEW s \in Sessions, NEW f \in BOOLEAN, Start(p, "list", s, f)
        PROVE  WithRoom(p)'
    BY <1>1, <2>2, NoClaim DEF Start, LoggingIn, At, Evicting
  <2>3. QED
    BY <1>7, <2>1, <2>2 DEF RevokeFind, FillMiss, BulkMark
<1>8. CASE Finish(p) \/ AfterSweep(p)
  BY <1>1, <1>8, NoClaim DEF Finish, AfterSweep, Start, LoggingIn, At,
                             Evicting, Idle
<1>9. ASSUME NEW i, NEW pc \in {"sweep", "indexWrite"},
             req' = [req EXCEPT ![p] = [req[p] EXCEPT !.pc = pc, !.idx = i]]
      PROVE  WithRoom(p)'
  <2>1. req'[p].pc = pc
    BY <1>1, <1>9 DEF Locals
  <2>2. QED
    BY <2>1, NoClaim DEF LoggingIn, Evicting
<1>10. CASE BulkList(p) \/ BulkDropIndex(p) \/ IndexRead(p)
  BY <1>8, <1>9, <1>10 DEF BulkList, BulkDropIndex, IndexRead
<1>11. ASSUME NEW s \in Sessions, BulkUncache(p, s)
       PROVE  WithRoom(p)'
  <2>1. req'[p].pc = "sweep"
    BY <1>1, <1>11 DEF BulkUncache, Locals
  <2>2. QED
    BY <2>1, NoClaim DEF LoggingIn, Evicting
<1>12. ASSUME NEW pc \in {"cache", "indexRead"}, Goto(p, pc)
       PROVE  WithRoom(p)'
  BY <1>1, <1>12, NoClaim DEF Goto, Start, LoggingIn, At, Evicting
<1>13. CASE FillRead(p) \/ CacheSet(p) \/ IndexWrite(p) \/ Crash(p)
  BY <1>8, <1>12, <1>13 DEF FillRead, CacheSet, IndexWrite, Crash
<1>14. QED
  BY <1>2, <1>3, <1>4, <1>5, <1>6, <1>7, <1>10, <1>11, <1>13 DEF Begin, Step

LEMMA RoomKept ==
  ASSUME TypeOK, \A p \in Requests : WithRoom(p), [Next]_vars,
         \A p \in Requests : ~InsertRow(p), NEW q \in Requests
  PROVE  WithRoom(q)'
<1>1. ASSUME req'[q] = req[q]
      PROVE  WithRoom(q)'
  <2>1. /\ Cardinality(Active') \in Nat /\ Cardinality(Active) \in Nat
        /\ Cardinality(Active') <= Cardinality(Active)
    BY ActiveShrinks
  <2>2. /\ Cardinality(Active' \ {req[q].sess}) \in Nat
        /\ Cardinality(Active \ {req[q].sess}) \in Nat
        /\ Cardinality(Active' \ {req[q].sess})
             <= Cardinality(Active \ {req[q].sess})
    <3>1. /\ Active' \ {req[q].sess} \subseteq Active \ {req[q].sess}
          /\ Active \ {req[q].sess} \subseteq Sessions
      BY ActiveShrinks
    <3>2. QED
      BY <3>1, Counts
  <2>3. QED
    BY <1>1, <2>1, <2>2, LimitAssumption DEF WithRoom
<1>2. CASE req' = req
  BY <1>1, <1>2
<1>3. ASSUME NEW p \in Requests, Begin(p) \/ Step(p) \/ Crash(p),
             NEW x \in Locals, req' = [req EXCEPT ![p] = x]
      PROVE  WithRoom(q)'
  <2>1. CASE q = p
    BY <1>3, <2>1, OwnRoom
  <2>2. CASE q # p
    BY <1>1, <1>3, <2>2 DEF TypeOK
  <2>3. QED
    BY <2>1, <2>2
<1>4. QED
  BY <1>2, <1>3, StepReq

RoomInv == \A p \in Requests : WithRoom(p)

LEMMA RoomAlways == Spec => [](TypeOK /\ RoomInv)
<1>1. Init => RoomInv
  BY DEF Init, Idle, At, RoomInv, WithRoom, LoggingIn, Evicting
<1>2. ASSUME TypeOK, RoomInv, [Next]_vars
      PROVE  RoomInv'
  BY <1>2, InsertKeepsRoom, RoomKept DEF RoomInv
<1>3. TypeOK /\ RoomInv /\ [Next]_vars => RoomInv'
  BY <1>2
<1>4. QED
  BY <1>1, <1>3, SessionTypes, PTL DEF Spec

LEMMA StepLimit ==
  ASSUME TypeOK, RoomInv, [Next]_vars, SessionLimit
  PROVE  SessionLimit' \/ OverlapInserts
<1>1. CASE \E p \in Requests : InsertRow(p)
  BY <1>1, InsertKeepsLimit DEF RoomInv
<1>2. CASE \A p \in Requests : ~InsertRow(p)
  BY <1>2, ActiveShrinks, LimitAssumption DEF SessionLimit
<1>3. QED
  BY <1>1, <1>2

(* Whatever runs between a login's count, its eviction and its insertion,  *)
(* a user within the limit goes above it only by a login that another has  *)
(* overtaken, or that found the user above it.                             *)
THEOREM LimitGuarded == Spec => LimitExceededOnlyByOverlap
<1> DEFINE Body == SessionLimit => SessionLimit' \/ OverlapInserts
<1>1. TypeOK /\ RoomInv /\ [Next]_vars => [Body]_vars
  BY StepLimit
<1>2. Spec => [][Body]_vars
  BY <1>1, RoomAlways, PTL DEF Spec
<1>3. QED
  BY <1>2 DEF LimitExceededOnlyByOverlap

(* Logins of one user that do not overlap never exceed the limit.          *)
THEOREM LimitHolds == Spec /\ [][~OverlapInserts]_vars => []SessionLimit
<1>1. Init => SessionLimit
  <2>1. SUFFICES ASSUME Init
                 PROVE  SessionLimit
    OBVIOUS
  <2>2. Active = {}
    BY <2>1 DEF Init, Active
  <2>3. QED
    BY <2>2, FS_EmptySet, LimitAssumption DEF SessionLimit
<1>2. TypeOK /\ RoomInv /\ SessionLimit /\ [Next]_vars
        /\ [~OverlapInserts]_vars => SessionLimit'
  <2>1. CASE UNCHANGED vars
    BY <2>1 DEF vars, SessionLimit, Active
  <2>2. CASE ~OverlapInserts
    BY <2>2, StepLimit
  <2>3. QED
    BY <2>1, <2>2
<1>3. QED
  BY <1>1, <1>2, RoomAlways, PTL DEF Spec
=============================================================================
