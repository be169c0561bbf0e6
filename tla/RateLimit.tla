------------------------------ MODULE RateLimit ------------------------------
(***************************************************************************)
(* The token bucket of one endpoint and one identifier.                    *)
(*                                                                         *)
(* A check is a Lua script that Redis runs as one step, but the request    *)
(* stamps it with its own clock before it is sent: by the time it runs,    *)
(* other requests may have run with later stamps.  A call whose reply is   *)
(* lost is sent again with the same stamp.  Any error admits the request.  *)
(*                                                                         *)
(* Levels and costs are counted in what the bucket regains in one clock    *)
(* tick, and the clocks of the processes and of Redis are one.             *)
(***************************************************************************)
EXTENDS Integers

CONSTANTS
    Requests,  \* concurrent requests for the endpoint
    Cap,       \* max_tokens
    Cost,      \* cost of a request
    Buffer,    \* the 60 seconds by which a key outlives its refill
    Lag,       \* the longest a call is under way, from its stamp
    MaxTime    \* bound: last clock tick

ASSUME RuleAssumption == Cap \in Nat \ {0} /\ Cost \in Nat \ {0}
ASSUME LagAssumption == Buffer \in Nat /\ Lag \in Nat /\ Lag <= Buffer
ASSUME TimeAssumption == MaxTime \in Nat

VARIABLES
    now,      \* the clock
    bucket,   \* the keys :tokens and :time, and when they expire
    script,   \* whether Redis holds the script
    sha,      \* whether the process believes it does
    req,      \* locals of each request
    charged,  \* history: what was taken from the bucket since each time
    given     \* history: how far its time was set back since each time

vars == <<now, bucket, script, sha, req, charged, given>>

Times == 0..MaxTime
Buckets == [level : 0..Cap, stamp : Times, until : Nat]
(* Keys that have expired, or were never written, are missing.             *)
NoBucket == [level |-> Cap, stamp |-> 0, until |-> 0]
Alive == now < bucket.until

Locals == [pc : {"idle", "load", "sent", "resent"}, at : Times]
Idle == [pc |-> "idle", at |-> 0]
Called(p) == req[p].pc \in {"sent", "resent"}

NothingSince == [a \in Times |-> 0]
(* h, with x more since every time up to now.                              *)
Note(h, x) == [a \in Times |-> IF a <= now THEN h[a] + x ELSE h[a]]

Init ==
    /\ now = 0
    /\ bucket = NoBucket
    /\ script = FALSE
    /\ sha = FALSE
    /\ req = [p \in Requests |-> Idle]
    /\ charged = NothingSince
    /\ given = NothingSince

----------------------------------------------------------------------------
(* token_bucket.lua.                                                       *)

(* Mutant: the guard against a negative elapsed time is missing.           *)
ElapsedUnguarded(at) == at - bucket.stamp

Elapsed(at) == IF at < bucket.stamp THEN 0 ELSE at - bucket.stamp

Full(x) == IF x > Cap THEN Cap ELSE x

Current(at) == IF Alive THEN Full(bucket.level + Elapsed(at)) ELSE Cap

(* Mutant: a refusal stores the level found and the new time.              *)
LeftUnfilled(at) ==
    IF Current(at) >= Cost THEN Current(at) - Cost ELSE bucket.level

Left(at) == IF Current(at) >= Cost THEN Current(at) - Cost ELSE Current(at)

(* Mutant: the keys live as long as it takes to refill one request.        *)
TtlOfOne == Cost + Buffer

Ttl == Cap + Buffer

SetBack(at) == IF Alive /\ at < bucket.stamp THEN bucket.stamp - at ELSE 0

RunScript(at) ==
    /\ bucket' = [level |-> Left(at), stamp |-> at, until |-> now + Ttl]
    /\ charged' = Note(charged, IF Current(at) >= Cost THEN Cost ELSE 0)
    /\ given' = Note(given, SetBack(at))

----------------------------------------------------------------------------
(* TokenBucketAdapter.is_allowed and RedisStorage.check_and_consume.       *)

(* The process loads the script once, and remembers that it did.           *)
Arrive(p) ==
    /\ req[p].pc = "idle"
    /\ req' = [req EXCEPT ![p] = IF sha THEN [pc |-> "sent", at |-> now]
                                        ELSE [pc |-> "load", at |-> now]]
    /\ UNCHANGED <<now, bucket, script, sha, charged, given>>

(* Whoever waited for the lock finds the script loaded.                    *)
Load(p) ==
    /\ req[p].pc = "load"
    /\ script' = (script \/ ~sha)
    /\ sha' = TRUE
    /\ req' = [req EXCEPT ![p] = [pc |-> "sent", at |-> now]]
    /\ UNCHANGED <<now, bucket, charged, given>>

(* EVALSHA; if the reply is lost the call is made once more, as it was.    *)
Consume(p) ==
    /\ Called(p)
    /\ script
    /\ now <= req[p].at + Lag
    /\ RunScript(req[p].at)
    /\ \/ req' = [req EXCEPT ![p] = Idle]
       \/ /\ req[p].pc = "sent"
          /\ req' = [req EXCEPT ![p].pc = "resent"]
    /\ UNCHANGED <<now, script, sha>>

(* No connection, no answer or no such script: the request is admitted and *)
(* nothing is charged.  A cancelled request ends the same way.             *)
FailOpen(p) ==
    /\ req[p].pc # "idle"
    /\ req' = [req EXCEPT ![p] = Idle]
    /\ UNCHANGED <<now, bucket, script, sha, charged, given>>

----------------------------------------------------------------------------
(* Redis restarts without its scripts, and with its data or without.  In   *)
(* the second case the history starts anew.                                *)
RedisRestart ==
    /\ script' = FALSE
    /\ \/ UNCHANGED <<bucket, charged, given>>
       \/ /\ bucket' = NoBucket
          /\ charged' = NothingSince
          /\ given' = NothingSince
    /\ UNCHANGED <<now, sha, req>>

ProcessRestart ==
    /\ sha' = FALSE
    /\ req' = [p \in Requests |-> Idle]
    /\ UNCHANGED <<now, bucket, script, charged, given>>

Tick ==
    /\ now < MaxTime
    /\ now' = now + 1
    /\ UNCHANGED <<bucket, script, sha, req, charged, given>>

Next ==
    \/ \E p \in Requests : Arrive(p) \/ Load(p) \/ Consume(p) \/ FailOpen(p)
    \/ RedisRestart
    \/ ProcessRestart
    \/ Tick

Spec == Init /\ [][Next]_vars

----------------------------------------------------------------------------
(* Every variable has its type; in particular the level stays within what *)
(* the bucket holds, whatever the order of the stamps.                     *)
TypeOK ==
    /\ now \in Times
    /\ bucket \in Buckets
    /\ script \in BOOLEAN
    /\ sha \in BOOLEAN
    /\ req \in [Requests -> Locals]
    /\ charged \in [Times -> Nat]
    /\ given \in [Times -> Nat]

(* In no interval up to now does the bucket admit more than its capacity   *)
(* and what it regained, in spite of calls that run late and out of order  *)
(* and of keys that expire and are forgotten.  Lag: the interval is one of *)
(* running, the refill one of stamps.  given: each call that runs with an  *)
(* older stamp than the one before lets the bucket regain the time between *)
(* the two once more.                                                      *)
WindowBound ==
    \A a \in 0..now : charged[a] <= Cap + (now - a) + Lag + given[a]

(* A request is refused only if since some moment so much has been charged *)
(* that not even the refill from then to its stamp leaves its cost: no     *)
(* refill is lost to refusals, retries or an order of arrival.             *)
NoUndueRefusal ==
    \A p \in Requests :
        (Called(p) /\ Current(req[p].at) < Cost)
          => \E a \in 0..now : charged[a] + Cost > Cap + (req[p].at - a)

(* The bucket without its keys: no expiry, whenever it comes and however   *)
(* late the next call runs, is visible in what a call finds.               *)
Bucket == INSTANCE TokenBucket
            WITH Stamps <- Times, level <- bucket.level, stamp <- bucket.stamp

(* Each run of the script does to the level what a bucket that never       *)
(* expires would do, and nothing else but a loss of all data touches it.   *)
ExpiryIsInvisible == Bucket!Spec
=============================================================================
