--------------------------- MODULE RateLimitProofs ---------------------------
(* Theorems about RateLimit, for every number of requests, every rule and  *)
(* every longest time a call is under way.                                 *)
EXTENDS RateLimit, TLAPS

(* The script's helpers, on a typed bucket.                                *)
LEMMA RefillTypes ==
  ASSUME TypeOK, NEW at \in Times
  PROVE  /\ Elapsed(at) \in Nat
         /\ Current(at) \in 0..Cap
         /\ Left(at) \in 0..Cap
         /\ SetBack(at) \in Nat
<1>0. Cap \in Nat /\ Cost \in Nat /\ bucket.level \in 0..Cap
      /\ bucket.stamp \in Nat /\ at \in Nat
  BY RuleAssumption, TimeAssumption DEF TypeOK, Buckets, Times
<1>1. Elapsed(at) \in Nat
  BY <1>0 DEF Elapsed
<1>2. Current(at) \in 0..Cap
  BY <1>0, <1>1 DEF Current, Full
<1>3. Left(at) \in 0..Cap
  BY <1>0, <1>2 DEF Left
<1>4. SetBack(at) \in Nat
  BY <1>0 DEF SetBack
<1>5. QED
  BY <1>1, <1>2, <1>3, <1>4

(* What one run of the script takes.                                       *)
Taken(at) == IF Current(at) >= Cost THEN Cost ELSE 0

LEMMA NoteTypes ==
  ASSUME TypeOK, NEW h \in [Times -> Nat], NEW x \in Nat
  PROVE  /\ Note(h, x) \in [Times -> Nat]
         /\ \A a \in Times : Note(h, x)[a] = IF a <= now THEN h[a] + x ELSE h[a]
BY DEF Note

LEMMA ScriptTypes ==
  ASSUME TypeOK, NEW at \in Times, RunScript(at)
  PROVE  /\ bucket' = [level |-> Left(at), stamp |-> at, until |-> now + Ttl]
         /\ bucket' \in Buckets
         /\ charged' \in [Times -> Nat]
         /\ given' \in [Times -> Nat]
         /\ \A a \in Times :
              /\ charged'[a] = IF a <= now THEN charged[a] + Taken(at)
                                           ELSE charged[a]
              /\ given'[a] = IF a <= now THEN given[a] + SetBack(at)
                                         ELSE given[a]
         /\ Left(at) + Taken(at) = Current(at)
         /\ Taken(at) \in Nat
<1>1. /\ Left(at) \in 0..Cap /\ SetBack(at) \in Nat /\ Current(at) \in 0..Cap
      /\ Cap \in Nat /\ Cost \in Nat /\ now \in Nat /\ Buffer \in Nat
  BY RefillTypes, RuleAssumption, LagAssumption, TimeAssumption
     DEF TypeOK, Times
<1>2. Taken(at) \in Nat /\ Left(at) + Taken(at) = Current(at)
  BY <1>1 DEF Taken, Left
<1>3. now + Ttl \in Nat
  BY <1>1 DEF Ttl
<1>4. bucket' \in Buckets
  BY <1>1, <1>3 DEF RunScript, Buckets
<1>5. charged' = Note(charged, Taken(at)) /\ given' = Note(given, SetBack(at))
  BY DEF RunScript, Taken
<1>6. charged \in [Times -> Nat] /\ given \in [Times -> Nat]
  BY DEF TypeOK
<1>7. /\ Note(charged, Taken(at)) \in [Times -> Nat]
      /\ \A a \in Times : Note(charged, Taken(at))[a] =
           IF a <= now THEN charged[a] + Taken(at) ELSE charged[a]
  BY <1>2, <1>6, NoteTypes
<1>8. /\ Note(given, SetBack(at)) \in [Times -> Nat]
      /\ \A a \in Times : Note(given, SetBack(at))[a] =
           IF a <= now THEN given[a] + SetBack(at) ELSE given[a]
  BY <1>1, <1>6, NoteTypes
<1>9. bucket' = [level |-> Left(at), stamp |-> at, until |-> now + Ttl]
  BY DEF RunScript
<1>10. QED
  BY <1>2, <1>4, <1>5, <1>7, <1>8, <1>9

LEMMA NothingTypes ==
  /\ NothingSince \in [Times -> Nat]
  /\ \A a \in Times : NothingSince[a] = 0
  /\ NoBucket \in Buckets
  /\ Idle \in Locals
BY RuleAssumption, TimeAssumption
   DEF NothingSince, NoBucket, Buckets, Idle, Locals, Times

LEMMA TypeStep ==
  ASSUME TypeOK, [Next]_vars
  PROVE  TypeOK'
<1> USE NothingTypes
<1>0. Times \subseteq Nat /\ now \in Times /\ req \in [Requests -> Locals]
  BY TimeAssumption DEF TypeOK, Times
<1>1. ASSUME NEW p \in Requests, Arrive(p)
      PROVE  TypeOK'
  BY <1>0, <1>1 DEF Arrive, TypeOK, Locals
<1>2. ASSUME NEW p \in Requests, Load(p)
      PROVE  TypeOK'
  BY <1>0, <1>2 DEF Load, TypeOK, Locals
<1>3. ASSUME NEW p \in Requests, Consume(p)
      PROVE  TypeOK'
  <2>1. req[p].at \in Times /\ RunScript(req[p].at)
    BY <1>0, <1>3 DEF Consume, Locals
  <2>2. req' \in [Requests -> Locals]
    BY <1>0, <1>3 DEF Consume, Locals
  <2>3. QED
    BY <1>3, <2>1, <2>2, ScriptTypes DEF Consume, TypeOK
<1>4. ASSUME NEW p \in Requests, FailOpen(p)
      PROVE  TypeOK'
  BY <1>0, <1>4 DEF FailOpen, TypeOK
<1>5. CASE RedisRestart
  BY <1>5 DEF RedisRestart, TypeOK
<1>6. CASE ProcessRestart
  BY <1>6 DEF ProcessRestart, TypeOK
<1>7. CASE Tick
  BY <1>7, TimeAssumption DEF Tick, TypeOK, Times
<1>8. CASE UNCHANGED vars
  BY <1>8 DEF vars, TypeOK
<1>9. QED
  BY <1>1, <1>2, <1>3, <1>4, <1>5, <1>6, <1>7, <1>8 DEF Next

LEMMA TypeInit ==
  ASSUME Init
  PROVE  TypeOK
<1>1. now \in Times
  BY TimeAssumption DEF Init, Times
<1>2. req \in [Requests -> Locals]
  BY NothingTypes DEF Init
<1>3. QED
  BY <1>1, <1>2, NothingTypes DEF Init, TypeOK

(* The level of a bucket never leaves 0..max_tokens, whatever the order in *)
(* which stamped calls run.                                                *)
THEOREM TypeCorrect == Spec => []TypeOK
<1>1. Init => TypeOK
  BY TypeInit
<1>2. TypeOK /\ [Next]_vars => TypeOK'
  BY TypeStep
<1>3. QED
  BY <1>1, <1>2, PTL DEF Spec

----------------------------------------------------------------------------
(* The inductive invariant.                                                *)

(* No stamp is later than the clock.                                       *)
Stamped ==
    /\ bucket.stamp <= now
    /\ \A p \in Requests : req[p].at <= now

(* The keys outlive a refill counted from the stamp they hold.             *)
Kept ==
    /\ bucket.until = 0 => charged = NothingSince /\ bucket = NoBucket
    /\ bucket.until # 0 => bucket.until >= bucket.stamp + Cap + Lag

Future == \A a \in Times : a > now => charged[a] = 0

(* WindowBound, with what the bucket holds counted in.                     *)
Bound ==
    \A a \in 0..now :
        \/ charged[a] = 0
        \/ charged[a] + bucket.level - bucket.stamp
             <= Cap - a + Lag + given[a]

(* What the bucket lacks has been charged.                                 *)
Accounted ==
    Alive => \E a \in 0..now :
                bucket.level + charged[a] >= Cap + bucket.stamp - a

IInv == TypeOK /\ Stamped /\ Kept /\ Future /\ Bound /\ Accounted

LEMMA ConstantsTypes ==
  /\ Cap \in Nat /\ Cap > 0 /\ Cost \in Nat /\ Cost > 0
  /\ Buffer \in Nat /\ Lag \in Nat /\ Lag <= Buffer
  /\ MaxTime \in Nat
BY RuleAssumption, LagAssumption, TimeAssumption

LEMMA StateTypes ==
  ASSUME TypeOK
  PROVE  /\ now \in Nat /\ now <= MaxTime
         /\ bucket.level \in 0..Cap /\ bucket.stamp \in Nat
         /\ bucket.until \in Nat
         /\ \A a \in 0..now : a \in Times /\ charged[a] \in Nat
                              /\ given[a] \in Nat
         /\ \A p \in Requests : req[p].at \in Times /\ req[p].at \in Nat
BY ConstantsTypes DEF TypeOK, Times, Buckets, Locals

LEMMA InvInit ==
  ASSUME Init
  PROVE  IInv
<1>1. TypeOK
  BY TypeInit
<1>2. Stamped /\ Kept /\ Future /\ Bound
  BY NothingTypes, ConstantsTypes
     DEF Init, Stamped, Kept, Future, Bound, NoBucket, Idle, Times
<1>3. Accounted
  BY DEF Init, Accounted, Alive, NoBucket
<1>4. QED
  BY <1>1, <1>2, <1>3 DEF IInv

(* How the level a call finds compares with the one stored.                *)
LEMMA Refilled ==
  ASSUME TypeOK, NEW at \in Times
  PROVE  /\ ~Alive => Current(at) = Cap
         /\ Alive => \/ Current(at) = Cap
                     \/ Current(at) = bucket.level + Elapsed(at)
         /\ Alive /\ at >= bucket.stamp
              => Current(at) <= bucket.level + at - bucket.stamp
         /\ Alive /\ at < bucket.stamp
              => /\ Current(at) = bucket.level
                 /\ SetBack(at) = bucket.stamp - at
         /\ Elapsed(at) >= at - bucket.stamp
<1>1. /\ Cap \in Nat /\ bucket.level \in 0..Cap /\ bucket.stamp \in Nat
      /\ at \in Nat
  BY ConstantsTypes, StateTypes DEF Times
<1>2. QED
  BY <1>1 DEF Current, Full, Elapsed, SetBack

LEMMA ScriptStep ==
  ASSUME IInv, NEW at \in Times, at <= now, now <= at + Lag,
         RunScript(at), now' = now
  PROVE  Kept' /\ Future' /\ Bound' /\ Accounted'
<1> DEFINE L == Left(at)
           T == Taken(at)
           C == Current(at)
<1>0. /\ TypeOK /\ Stamped /\ Kept /\ Future /\ Bound /\ Accounted
      /\ Cap \in Nat /\ Cap > 0 /\ Lag \in Nat /\ Buffer \in Nat
      /\ Lag <= Buffer
      /\ now \in Nat /\ at \in Nat /\ bucket.level \in 0..Cap
      /\ bucket.stamp \in Nat /\ bucket.until \in Nat
  BY ConstantsTypes, StateTypes DEF IInv, Times
<1>1. /\ bucket' = [level |-> L, stamp |-> at, until |-> now + Ttl]
      /\ \A a \in Times :
           charged'[a] = IF a <= now THEN charged[a] + T ELSE charged[a]
      /\ \A a \in Times :
           given'[a] = IF a <= now THEN given[a] + SetBack(at) ELSE given[a]
      /\ L + T = C /\ T \in Nat
  BY <1>0, ScriptTypes
<1>2. L \in 0..Cap /\ C \in 0..Cap /\ SetBack(at) \in Nat /\ Elapsed(at) \in Nat
  BY <1>0, RefillTypes
<1>3. /\ bucket'.level = L /\ bucket'.stamp = at
      /\ bucket'.until = now + Cap + Buffer
  BY <1>0, <1>1 DEF Ttl
<1>4. /\ ~Alive => C = Cap
      /\ Alive => C = Cap \/ C = bucket.level + Elapsed(at)
      /\ Alive /\ at >= bucket.stamp => C <= bucket.level + at - bucket.stamp
      /\ Alive /\ at < bucket.stamp
           => C = bucket.level /\ SetBack(at) = bucket.stamp - at
      /\ Elapsed(at) >= at - bucket.stamp
  BY <1>0, Refilled
<1>5. \A a \in 0..now :
        /\ a \in Nat /\ a <= now
        /\ charged[a] \in Nat /\ given[a] \in Nat
        /\ charged'[a] = charged[a] + T
        /\ given'[a] = given[a] + SetBack(at)
  BY <1>0, <1>1, StateTypes
<1> HIDE DEF L, T, C
<1>6. Kept'
  BY <1>0, <1>3 DEF Kept
<1>7. Future'
  BY <1>0, <1>1, now' = now DEF Future, Times
<1>8. Bound'
  <2> SUFFICES ASSUME NEW a \in 0..now
               PROVE  (charged[a] + T) + L - at
                        <= Cap - a + Lag + (given[a] + SetBack(at))
    BY <1>3, <1>5, now' = now DEF Bound
  <2>1. /\ a \in Nat /\ a <= now /\ charged[a] \in Nat /\ given[a] \in Nat
        /\ \/ charged[a] = 0
           \/ charged[a] + bucket.level - bucket.stamp
                <= Cap - a + Lag + given[a]
    BY <1>0, <1>5 DEF Bound
  <2>2. CASE charged[a] = 0
    BY <1>0, <1>1, <1>2, <2>1, <2>2
  <2>3. CASE charged[a] # 0 /\ Alive /\ at >= bucket.stamp
    BY <1>0, <1>1, <1>2, <1>4, <2>1, <2>3
  <2>4. CASE charged[a] # 0 /\ Alive /\ at < bucket.stamp
    BY <1>0, <1>1, <1>2, <1>4, <2>1, <2>4
  <2>5. CASE charged[a] # 0 /\ ~Alive
    <3>1. bucket.until # 0
      <4>1. a \in Times
        BY <1>0, StateTypes
      <4>2. QED
        BY <1>0, <2>5, <4>1, NothingTypes DEF Kept
    <3>2. now >= bucket.stamp + Cap + Lag
      BY <1>0, <2>5, <3>1 DEF Kept, Alive
    <3>3. QED
      BY <1>0, <1>1, <1>2, <1>4, <2>1, <2>5, <3>2
  <2>6. QED
    BY <1>0, <2>2, <2>3, <2>4, <2>5
<1>9. Accounted'
  <2> SUFFICES \E a \in 0..now : L + (charged[a] + T) >= Cap + at - a
    BY <1>3, <1>5, now' = now DEF Accounted
  <2>1. CASE C = Cap
    <3>1. L + (charged[now] + T) >= Cap + at - now
      BY <1>0, <1>1, <1>2, <1>5, <2>1
    <3>2. QED
      BY <1>0, <3>1
  <2>2. CASE Alive /\ C = bucket.level + Elapsed(at)
    <3>1. PICK a \in 0..now :
            bucket.level + charged[a] >= Cap + bucket.stamp - a
      BY <1>0, <2>2 DEF Accounted
    <3>2. L + (charged[a] + T) >= Cap + at - a
      BY <1>0, <1>1, <1>2, <1>4, <1>5, <2>2, <3>1
    <3>3. QED
      BY <3>2
  <2>3. QED
    BY <1>4, <2>1, <2>2
<1>10. QED
  BY <1>6, <1>7, <1>8, <1>9

(* Everything but the clock and the requests stays.                        *)
LEMMA StillStep ==
  ASSUME IInv, UNCHANGED <<now, bucket, charged, given>>
  PROVE  Kept' /\ Future' /\ Bound' /\ Accounted'
BY DEF IInv, Kept, Future, Bound, Accounted, Alive

LEMMA TickStep ==
  ASSUME IInv, Tick
  PROVE  Kept' /\ Future' /\ Bound' /\ Accounted'
<1>0. /\ now \in Nat /\ now + 1 \in Times /\ now' = now + 1
      /\ bucket' = bucket /\ charged' = charged /\ given' = given
      /\ bucket.until \in Nat /\ bucket.stamp \in Nat /\ bucket.level \in 0..Cap
      /\ TypeOK /\ Kept /\ Future /\ Bound /\ Accounted
  BY ConstantsTypes, StateTypes DEF IInv, Tick, Times
<1>1. Kept' /\ Future'
  BY <1>0 DEF Kept, Future, Times
<1>2. Bound'
  <2>1. charged[now + 1] = 0
    BY <1>0 DEF Future
  <2>2. \A a \in 0..(now + 1) : a \in 0..now \/ a = now + 1
    BY <1>0
  <2>3. QED
    BY <1>0, <2>1, <2>2 DEF Bound
<1>3. Accounted'
  <2>1. Alive' => Alive
    BY <1>0 DEF Alive
  <2>2. \A a \in 0..now : a \in 0..(now + 1)
    BY <1>0
  <2>3. QED
    BY <1>0, <2>1, <2>2 DEF Accounted
<1>4. QED
  BY <1>1, <1>2, <1>3

LEMMA StampStep ==
  ASSUME IInv, [Next]_vars
  PROVE  Stamped'
<1>0. /\ now \in Nat /\ bucket.stamp \in Nat /\ bucket.stamp <= now
      /\ req \in [Requests -> Locals]
      /\ \A p \in Requests : req[p].at <= now /\ req[p].at \in Nat
      /\ Idle.at = 0 /\ NoBucket.stamp = 0
  BY StateTypes DEF IInv, Stamped, Idle, NoBucket, TypeOK
<1>1. ASSUME NEW p \in Requests, Arrive(p) \/ Load(p) \/ FailOpen(p)
      PROVE  Stamped'
  BY <1>0, <1>1 DEF Arrive, Load, FailOpen, Stamped
<1>2. ASSUME NEW p \in Requests, Consume(p)
      PROVE  Stamped'
  <2>1. bucket'.stamp = req[p].at /\ now' = now
    BY <1>2 DEF Consume, RunScript
  <2>2. \A q \in Requests : req'[q].at <= now
    BY <1>0, <1>2 DEF Consume, Locals
  <2>3. QED
    BY <1>0, <2>1, <2>2 DEF Stamped
<1>3. CASE RedisRestart
  BY <1>0, <1>3 DEF RedisRestart, Stamped
<1>4. CASE ProcessRestart
  BY <1>0, <1>4 DEF ProcessRestart, Stamped
<1>5. CASE Tick
  BY <1>0, <1>5 DEF Tick, Stamped
<1>6. CASE UNCHANGED vars
  BY <1>0, <1>6 DEF vars, Stamped
<1>7. QED
  BY <1>1, <1>2, <1>3, <1>4, <1>5, <1>6 DEF Next

LEMMA InvStep ==
  ASSUME IInv, [Next]_vars
  PROVE  IInv'
<1>1. TypeOK' /\ Stamped'
  BY TypeStep, StampStep DEF IInv
<1>2. Kept' /\ Future' /\ Bound' /\ Accounted'
  <2>1. ASSUME NEW p \in Requests, Consume(p)
        PROVE  Kept' /\ Future' /\ Bound' /\ Accounted'
    <3>1. req[p].at \in Times /\ req[p].at <= now
      BY StateTypes DEF IInv, Stamped
    <3>2. RunScript(req[p].at) /\ now <= req[p].at + Lag /\ now' = now
      BY <2>1 DEF Consume
    <3>3. QED
      BY <3>1, <3>2, ScriptStep
  <2>2. ASSUME NEW p \in Requests, Arrive(p) \/ Load(p) \/ FailOpen(p)
        PROVE  Kept' /\ Future' /\ Bound' /\ Accounted'
    BY <2>2, StillStep DEF Arrive, Load, FailOpen
  <2>3. CASE RedisRestart
    <3>1. CASE UNCHANGED <<bucket, charged, given>>
      BY <2>3, <3>1, StillStep DEF RedisRestart
    <3>2. CASE bucket' = NoBucket /\ charged' = NothingSince
      <4>1. now' = now /\ now \in Nat /\ \A a \in 0..now : a \in Times
        BY <2>3, StateTypes DEF RedisRestart, IInv
      <4>2. bucket'.until = 0
        BY <3>2 DEF NoBucket
      <4>3. QED
        BY <3>2, <4>1, <4>2, NothingTypes
           DEF Kept, Future, Bound, Accounted, Alive
    <3>3. QED
      BY <2>3, <3>1, <3>2 DEF RedisRestart
  <2>4. CASE ProcessRestart
    BY <2>4, StillStep DEF ProcessRestart
  <2>5. CASE Tick
    BY <2>5, TickStep
  <2>6. CASE UNCHANGED vars
    BY <2>6, StillStep DEF vars
  <2>7. QED
    BY <2>1, <2>2, <2>3, <2>4, <2>5, <2>6 DEF Next
<1>3. QED
  BY <1>1, <1>2 DEF IInv

LEMMA InvariantHolds == Spec => []IInv
<1>1. Init => IInv
  BY InvInit
<1>2. IInv /\ [Next]_vars => IInv'
  BY InvStep
<1>3. QED
  BY <1>1, <1>2, PTL DEF Spec

----------------------------------------------------------------------------
(* However many requests run, however late and in what order, a window     *)
(* admits no more than the capacity, the refill and what was given twice.  *)
THEOREM WindowIsBounded == Spec => []WindowBound
<1>1. IInv => WindowBound
  <2> SUFFICES ASSUME IInv, NEW a \in 0..now
               PROVE  charged[a] <= Cap + (now - a) + Lag + given[a]
    BY DEF WindowBound
  <2>1. /\ Cap \in Nat /\ Lag \in Nat /\ now \in Nat /\ a \in Nat /\ a <= now
        /\ bucket.level \in 0..Cap /\ bucket.stamp \in Nat
        /\ bucket.stamp <= now /\ charged[a] \in Nat /\ given[a] \in Nat
    BY ConstantsTypes, StateTypes DEF IInv, Stamped
  <2>2. \/ charged[a] = 0
        \/ charged[a] + bucket.level - bucket.stamp <= Cap - a + Lag + given[a]
    BY DEF IInv, Bound
  <2>3. QED
    BY <2>1, <2>2
<1>2. QED
  BY <1>1, InvariantHolds, PTL

(* Whoever is refused is refused on account of what was charged: no refill *)
(* is lost to a refusal, a call sent twice or a late call.                 *)
THEOREM RefusalsAreDue == Spec => []NoUndueRefusal
<1>1. IInv => NoUndueRefusal
  <2> SUFFICES ASSUME IInv, NEW p \in Requests, Current(req[p].at) < Cost
               PROVE  \E a \in 0..now :
                        charged[a] + Cost > Cap + (req[p].at - a)
    BY DEF NoUndueRefusal
  <2> DEFINE at == req[p].at
  <2>1. /\ Cap \in Nat /\ Cost \in Nat /\ now \in Nat
        /\ at \in Times /\ at \in Nat /\ at <= now
        /\ bucket.level \in 0..Cap /\ bucket.stamp \in Nat
        /\ \A a \in 0..now : charged[a] \in Nat
    BY ConstantsTypes, StateTypes DEF IInv, Stamped
  <2>2. /\ ~Alive => Current(at) = Cap
        /\ Alive => \/ Current(at) = Cap
                    \/ Current(at) = bucket.level + Elapsed(at)
        /\ Elapsed(at) >= at - bucket.stamp /\ Elapsed(at) \in Nat
    BY <2>1, Refilled, RefillTypes DEF IInv
  <2> HIDE DEF at
  <2>3. Current(at) < Cost
    BY DEF at
  <2>4. CASE Current(at) = Cap
    <3>1. now \in 0..now /\ charged[now] + Cost > Cap + (at - now)
      BY <2>1, <2>3, <2>4
    <3>2. QED
      BY <3>1 DEF at
  <2>5. CASE Alive /\ Current(at) = bucket.level + Elapsed(at)
    <3>1. PICK a \in 0..now :
            bucket.level + charged[a] >= Cap + bucket.stamp - a
      BY <2>5 DEF IInv, Accounted
    <3>2. charged[a] + Cost > Cap + (at - a)
      BY <2>1, <2>2, <2>3, <2>5, <3>1
    <3>3. QED
      BY <3>2 DEF at
  <2>6. QED
    BY <2>2, <2>4, <2>5
<1>2. QED
  BY <1>1, InvariantHolds, PTL

----------------------------------------------------------------------------
(* What a call finds is what it would find in a bucket that never expired. *)
LEMMA SameLevel ==
  ASSUME IInv, NEW at \in Times, now <= at + Lag
  PROVE  Current(at) = Bucket!Refilled(at)
<1>1. /\ Cap \in Nat /\ Lag \in Nat /\ now \in Nat /\ at \in Nat
      /\ bucket.level \in 0..Cap /\ bucket.stamp \in Nat
      /\ bucket.until \in Nat
  BY ConstantsTypes, StateTypes DEF IInv, Times
<1>2. CASE Alive
  BY <1>1, <1>2
     DEF Current, Full, Elapsed, Bucket!Refilled, Bucket!Regained
<1>3. CASE ~Alive /\ bucket.until # 0
  <2>1. at >= bucket.stamp + Cap
    BY <1>1, <1>3 DEF IInv, Kept, Alive
  <2>2. QED
    BY <1>1, <1>3, <2>1
       DEF Current, Bucket!Refilled, Bucket!Regained
<1>4. CASE bucket.until = 0
  <2>1. bucket = NoBucket
    BY <1>4 DEF IInv, Kept
  <2>2. QED
    BY <1>1, <1>4, <2>1
       DEF NoBucket, Alive, Current, Bucket!Refilled, Bucket!Regained
<1>5. QED
  BY <1>2, <1>3, <1>4

(* However long a key is gone and however late a call runs, the bucket is  *)
(* the one of TokenBucket: nothing is regained by expiry.                  *)
THEOREM ExpiryHidden == Spec => ExpiryIsInvisible
<1>1. Init => Bucket!Init
  BY DEF Init, NoBucket, Bucket!Init
<1>2. ASSUME IInv, [Next]_vars
      PROVE  [Bucket!Next]_(Bucket!bucketVars)
  <2>1. ASSUME NEW p \in Requests, Consume(p)
        PROVE  Bucket!Next
    <3> DEFINE at == req[p].at
    <3>1. at \in Times /\ now <= at + Lag /\ RunScript(at)
      BY <1>2, <2>1, StateTypes DEF Consume, IInv
    <3>2. Current(at) = Bucket!Refilled(at)
      BY <1>2, <3>1, SameLevel
    <3>3. bucket'.level = Left(at) /\ bucket'.stamp = at
      BY <3>1 DEF RunScript
    <3>4. Bucket!Admit(at) \/ Bucket!Refuse(at)
      <4>1. Current(at) \in 0..Cap /\ Cost \in Nat
        BY <1>2, <3>1, RefillTypes, ConstantsTypes DEF IInv
      <4>2. QED
        BY <3>2, <3>3, <4>1 DEF Left, Bucket!Admit, Bucket!Refuse
    <3>5. QED
      BY <3>1, <3>4 DEF Bucket!Next
  <2>2. CASE RedisRestart
    BY <2>2 DEF RedisRestart, NoBucket, Bucket!Next, Bucket!Lose,
                Bucket!bucketVars
  <2>3. ASSUME bucket' = bucket
        PROVE  UNCHANGED Bucket!bucketVars
    BY <2>3 DEF Bucket!bucketVars
  <2>4. QED
    BY <1>2, <2>1, <2>2, <2>3
       DEF Next, vars, Arrive, Load, FailOpen, ProcessRestart, Tick
<1>3. QED
  BY <1>1, <1>2, InvariantHolds, PTL DEF Spec, ExpiryIsInvisible, Bucket!Spec
=============================================================================
