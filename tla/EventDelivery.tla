--------------------------- MODULE EventDelivery ---------------------------
(***************************************************************************)
(* How a change of a balance reaches the user's browser.                   *)
(*                                                                         *)
(* A sync commits balances and, when it has saved its connection, publishes *)
(* AccountBalanceUpdated; the portfolio handler sums the balances, compares *)
(* the sum with the one it cached before, caches it, and announces a       *)
(* change.  The SSE handler sends the announcement to the user's Redis     *)
(* channel and appends it to the user's stream; the client retries either  *)
(* command once when the reply is late, so Redis may run it twice.  A      *)
(* browser that reconnects is first sent what the stream holds after its   *)
(* Last-Event-ID and is subscribed to the channel only then.  Everything   *)
(* here is fail-open: an error is logged and the publisher goes on.        *)
(* Events are numbered in the order of their first PUBLISH.                *)
(***************************************************************************)
EXTENDS Integers, Sequences, SequencesExt

CONSTANTS
    Recalcs,    \* syncs, with the handlers they run, at the same time
    Totals,     \* bound: sums of the balances
    MaxEvents,  \* bound: announcements
    MaxResends, \* bound: announcements that are sent twice
    MaxLen      \* retention_max_len

ASSUME TotalsAssumption == 0 \in Totals
ASSUME BoundAssumption == MaxEvents \in Nat
ASSUME LengthAssumption == MaxLen \in Nat \ {0}

VARIABLES
    total,   \* what sum_balances_for_user would return
    cached,  \* portfolio:networth:{user_id}; 0 for no key
    calc,    \* each sync, and the locals of its _recalculate_networth
    sent,    \* the number of events published so far
    stream,  \* sse:stream:{user_id}, oldest entry first
    client,  \* the browser's connection
    said,    \* history: the net worth last announced
    upset,   \* history: since then, something kept `said` from being true
    crossed, \* history: events whose order in the stream is not that of
             \* their PUBLISH
    resent,  \* history: events whose PUBLISH or XADD ran twice
    missed   \* history: events that no replay owes to the browser

worthVars == <<total, cached, said, upset>>
streamVars == <<sent, stream, client, crossed, resent, missed>>
vars == <<worthVars, calc, streamVars>>

Events == 1..MaxEvents

(* synced: committed, and not announced yet.  republish, restore: the      *)
(* command ran, and the client will send it again.  raced: a change or     *)
(* another call overlapped with this one, or Redis failed it.              *)
Working == {"sum", "get", "set", "publish"}
Sending == {"republish", "store"}
Pcs == Working \cup Sending \cup {"idle", "synced", "restore"}
Locals == [pc : Pcs, sum : Totals, prev : Totals, event : Events \cup {0},
           raced : BOOLEAN]
Idle == [pc |-> "idle", sum |-> 0, prev |-> 0, event |-> 0, raced |-> FALSE]

(* box: on its way to the browser.  last: its Last-Event-ID, 0 for none.   *)
Clients == [pc : {"off", "replay", "live"}, box : Seq(Events),
            last : Events \cup {0}, had : SUBSET Events]

Init ==
    /\ total = 0
    /\ cached = 0
    /\ calc = [r \in Recalcs |-> Idle]
    /\ sent = 0
    /\ stream = <<>>
    /\ client = [pc |-> "off", box |-> <<>>, last |-> 0, had |-> {}]
    /\ said = 0
    /\ upset = FALSE
    /\ crossed = {}
    /\ resent = {}
    /\ missed = {}

Continue(r, l) == calc' = [calc EXCEPT ![r] = l]

At(pc) == {r \in Recalcs : calc[r].pc \in pc}

(* Whoever is at work does not run alone any more.                         *)
Overlapped ==
    [q \in Recalcs |-> IF calc[q].pc \in Working
                      THEN [calc[q] EXCEPT !.raced = TRUE]
                      ELSE calc[q]]

(* Published and not yet in the stream.                                    *)
Pending == {calc[r].event : r \in At(Sending)}

(* One more event may be sent twice: a bound.                              *)
MayResend(e) ==
    LET resending == {calc[r].event : r \in At({"republish", "restore"})} IN
    Cardinality(resent \cup resending \cup {e}) <= MaxResends

----------------------------------------------------------------------------
(* SyncAccountsHandler and PortfolioEventHandler.                          *)

(* Mutant: the previous balance is read after the update, so that no       *)
(* change is ever noted.                                                   *)
CommitUnnoticed(r, t) ==
    /\ calc[r].pc \in {"idle", "synced"}
    /\ sent < MaxEvents
    /\ total' = t
    /\ calc' = [Overlapped EXCEPT ![r] = Idle]
    /\ upset' = (upset \/ At(Working) # {})
    /\ UNCHANGED <<cached, said, streamVars>>

(* A sync commits an account with a new balance; it announces it later.    *)
Commit(r, t) ==
    /\ calc[r].pc \in {"idle", "synced"}
    /\ sent < MaxEvents
    /\ total' = t
    /\ calc' = [Overlapped EXCEPT ![r] = [Idle EXCEPT !.pc = "synced"]]
    /\ upset' = (upset \/ At(Working) # {})
    /\ UNCHANGED <<cached, said, streamVars>>

(* AccountBalanceUpdated of what was committed; from idle, another one of  *)
(* the same sync, or AccountHoldingsUpdated.  The handler starts.          *)
Announce(r) ==
    /\ calc[r].pc \in {"idle", "synced"}
    /\ sent < MaxEvents
    /\ calc' = [Overlapped EXCEPT ![r] = [Idle EXCEPT !.pc = "sum",
                                          !.raced = At(Working) # {}]]
    /\ upset' = (upset \/ At(Working) # {})
    /\ UNCHANGED <<total, cached, said, streamVars>>

(* The sum changes and nobody is told: an import, an account opened or     *)
(* closed with the balance it had, an old copy of an account saved whole.  *)
Silent(t) ==
    /\ total' = t
    /\ t # total
    /\ calc' = Overlapped
    /\ upset' = TRUE
    /\ UNCHANGED <<cached, said, streamVars>>

(* Mutant: the balances are added to the cached net worth.                 *)
SumAdded(r) ==
    /\ calc[r].pc = "sum"
    /\ Continue(r, [calc[r] EXCEPT !.pc = "get", !.sum = total + cached])
    /\ UNCHANGED <<worthVars, streamVars>>

Sum(r) ==
    /\ calc[r].pc = "sum"
    /\ Continue(r, [calc[r] EXCEPT !.pc = "get", !.sum = total])
    /\ UNCHANGED <<worthVars, streamVars>>

(* Mutant: the cached text is not read.                                    *)
GetNothing(r) ==
    /\ calc[r].pc = "get"
    /\ Continue(r, [calc[r] EXCEPT !.pc = "set", !.prev = 0])
    /\ UNCHANGED <<worthVars, streamVars>>

(* A failed read is taken for 0.                                           *)
GetPrevious(r) ==
    /\ calc[r].pc = "get"
    /\ \/ /\ Continue(r, [calc[r] EXCEPT !.pc = "set", !.prev = cached])
          /\ UNCHANGED upset
       \/ /\ Continue(r, [calc[r] EXCEPT !.pc = "set", !.prev = 0,
                                         !.raced = TRUE])
          /\ upset' = TRUE
    /\ UNCHANGED <<total, cached, said, streamVars>>

(* The sum is cached, or that fails, executed or not; it is announced if   *)
(* it changed.                                                             *)
SetCurrent(r) ==
    LET next(raced) == IF calc[r].sum = calc[r].prev THEN Idle
                       ELSE [calc[r] EXCEPT !.pc = "publish",
                                            !.raced = raced] IN
    /\ calc[r].pc = "set"
    /\ \/ /\ cached' = calc[r].sum
          /\ Continue(r, next(calc[r].raced))
          /\ UNCHANGED upset
       \/ /\ Continue(r, next(TRUE))
          /\ upset' = TRUE
          /\ cached' \in {cached, calc[r].sum}
    /\ UNCHANGED <<total, said, streamVars>>

----------------------------------------------------------------------------
(* SSEEventHandler and RedisSSEPublisher.                                  *)

Receive(e) ==
    IF client.pc = "live" THEN [client EXCEPT !.box = Append(@, e)] ELSE client

(* PUBLISH: only those who are subscribed get it.  The reply comes, or the *)
(* client waits for it in vain.                                            *)
Publish(r) ==
    /\ calc[r].pc = "publish"
    /\ sent < MaxEvents
    /\ sent' = sent + 1
    /\ client' = Receive(sent + 1)
    /\ said' = calc[r].sum
    /\ upset' = calc[r].raced
    /\ missed' = IF client.pc = "replay" THEN missed \cup {sent + 1}
                 ELSE missed
    /\ \/ Continue(r, [Idle EXCEPT !.pc = "store", !.event = sent + 1])
       \/ /\ MayResend(sent + 1)
          /\ Continue(r, [Idle EXCEPT !.pc = "republish", !.event = sent + 1,
                                      !.sum = calc[r].sum])
    /\ UNCHANGED <<total, cached, stream, crossed, resent>>

(* retry_on_timeout: the same PUBLISH, once more.                          *)
Republish(r) ==
    /\ calc[r].pc = "republish"
    /\ client' = Receive(calc[r].event)
    /\ resent' = resent \cup {calc[r].event}
    /\ said' = calc[r].sum
    /\ upset' = (upset \/ said # calc[r].sum)
    /\ Continue(r, [Idle EXCEPT !.pc = "store", !.event = calc[r].event])
    /\ UNCHANGED <<total, cached, sent, stream, crossed, missed>>

(* XADD with an approximate MAXLEN: the n oldest entries go.               *)
Xadd(e) ==
    LET older == {x \in Pending : x < e} IN
    \E n \in 0..Len(stream) :
       /\ n = 0 \/ Len(stream) + 1 - n >= MaxLen
       /\ stream' = Append(SubSeq(stream, n + 1, Len(stream)), e)
       /\ missed' = missed \cup (ToSet(stream) \ ToSet(stream'))
                           \cup (IF older = {} THEN {} ELSE {e})
       /\ crossed' = crossed \cup older

Store(r) ==
    /\ calc[r].pc = "store"
    /\ Xadd(calc[r].event)
    /\ \/ Continue(r, Idle)
       \/ /\ MayResend(calc[r].event)
          /\ Continue(r, [calc[r] EXCEPT !.pc = "restore"])
    /\ UNCHANGED <<worthVars, sent, client, resent>>

(* retry_on_timeout: the same XADD, which makes a second entry.            *)
StoreAgain(r) ==
    /\ calc[r].pc = "restore"
    /\ Xadd(calc[r].event)
    /\ resent' = resent \cup {calc[r].event}
    /\ Continue(r, Idle)
    /\ UNCHANGED <<worthVars, sent, client>>

(* The TTL of the stream is set once and not renewed.                      *)
StreamExpires ==
    /\ stream # <<>>
    /\ stream' = <<>>
    /\ missed' = missed \cup ToSet(stream)
    /\ UNCHANGED <<worthVars, calc, sent, client, crossed, resent>>

(* Redis refuses the command, the connection of a sync cannot be saved, or *)
(* the process dies.                                                       *)
Abandon(r) ==
    /\ calc[r].pc # "idle"
    /\ upset' = (upset \/ calc[r].pc \in Working \cup {"synced"})
    /\ missed' = IF calc[r].pc \in Sending THEN missed \cup {calc[r].event}
                 ELSE missed
    /\ Continue(r, Idle)
    /\ UNCHANGED <<total, cached, said, sent, stream, client, crossed, resent>>

----------------------------------------------------------------------------
(* The stream route and RedisSSESubscriber.                                *)

(* Where the stream has the event that the browser names.                  *)
Places == {i \in 1..Len(stream) : stream[i] = client.last}

(* Mutant: the replay begins with the event the browser names.             *)
MissedAndLast(i) == SubSeq(stream, i, Len(stream))

(* Mutant: only the newest entry of the stream is sent.                    *)
MissedNewest(i) ==
    IF i = Len(stream) THEN <<>> ELSE <<stream[Len(stream)]>>

(* get_missed_events: what follows place i.                                *)
Missed(i) == SubSeq(stream, i + 1, Len(stream))

(* What follows the first place of the browser's last event is replayed;   *)
(* nothing if it is not there, or the stream cannot be read.               *)
Connect ==
    /\ client.pc = "off"
    /\ \/ \E i \in Places :
             /\ \A j \in Places : i <= j
             /\ client' = [client EXCEPT !.pc = "replay", !.box = Missed(i)]
             /\ missed' = missed \cup Pending \cup
                   (IF client.last \in resent
                    THEN {stream[j] : j \in 1..(i - 1)} ELSE {})
       \/ /\ client' = [client EXCEPT !.pc = "replay"]
          /\ missed' = missed \cup 1..sent
    /\ UNCHANGED <<worthVars, calc, sent, stream, crossed, resent>>

Subscribe ==
    /\ client.pc = "replay"
    /\ client.box = <<>>
    /\ client' = [client EXCEPT !.pc = "live"]
    /\ UNCHANGED <<worthVars, calc, sent, stream, crossed, resent, missed>>

Deliver ==
    /\ client.box # <<>>
    /\ client' = [client EXCEPT !.box = Tail(@), !.last = Head(client.box),
                                !.had = @ \cup {Head(client.box)}]
    /\ UNCHANGED <<worthVars, calc, sent, stream, crossed, resent, missed>>

(* The connection is lost with what was on its way.                        *)
Drop ==
    /\ client.pc # "off"
    /\ client' = [client EXCEPT !.pc = "off", !.box = <<>>]
    /\ UNCHANGED <<worthVars, calc, sent, stream, crossed, resent, missed>>

Next ==
    \/ \E r \in Recalcs :
          \/ \E t \in Totals : Commit(r, t)
          \/ Announce(r)
          \/ Sum(r)
          \/ GetPrevious(r)
          \/ SetCurrent(r)
          \/ Publish(r)
          \/ Republish(r)
          \/ Store(r)
          \/ StoreAgain(r)
          \/ Abandon(r)
    \/ \E t \in Totals : Silent(t)
    \/ StreamExpires
    \/ Connect
    \/ Subscribe
    \/ Deliver
    \/ Drop

Spec == Init /\ [][Next]_vars

----------------------------------------------------------------------------
(* Every variable has its type.                                            *)
TypeOK ==
    /\ total \in Totals
    /\ cached \in Totals
    /\ calc \in [Recalcs -> Locals]
    /\ sent \in 0..MaxEvents
    /\ stream \in Seq(Events)
    /\ client \in Clients
    /\ said \in Totals
    /\ upset \in BOOLEAN
    /\ crossed \in SUBSET Events
    /\ resent \in SUBSET Events
    /\ missed \in SUBSET Events

(* When no recalculation is under way, the net worth that was cached is    *)
(* the one last announced, and, when no sync has a commit to announce,     *)
(* the sum of the balances, unless since the last clean announcement       *)
(* a recalculation overlapped with a change or with another one or lost a  *)
(* Redis call, a sync died between commit and announcement, the sum        *)
(* changed silently, or an older announcement was sent again; the next     *)
(* recalculation that runs alone and announces repairs all of these.       *)
Settled ==
    At(Working) = {} /\ ~upset =>
        /\ cached = said
        /\ At({"synced"}) = {} => cached = total

(* The announcements form a chain, under the same proviso: each one starts *)
(* from the net worth that the one before announced.                       *)
Chained ==
    [][\A r \in Recalcs :
          calc[r].pc = "publish" /\ calc'[r].pc \in Sending /\ ~upset =>
             calc[r].prev = said]_vars

(* A step in which the browser receives the first event in the box.        *)
Delivers ==
    /\ client.box # <<>>
    /\ client'.box = Tail(client.box)
    /\ client'.pc = client.pc

(* The browser receives newer and newer events, across its connections and *)
(* from replay to live; the exception are events that another one,         *)
(* published later, overtook on the way to the stream, and events that     *)
(* were sent twice.  As long as it receives none of these, it receives     *)
(* each event after all the older ones it had, so none of them twice.      *)
OnlyForward ==
    [][Delivers =>
          LET e == Head(client.box)
              odd == crossed \cup resent IN
          /\ e > client.last \/ e \in odd
          /\ (client.had \cup {e}) \cap odd = {} =>
                \A x \in client.had : x < e]_vars

(* A browser that is subscribed and has received what was on its way has   *)
(* had every event, but for those that no replay could have sent it:       *)
(* published between a replay and its subscription, on their way to the    *)
(* stream at that time, stored out of order, gone from the stream or never *)
(* in it, published when the browser's last event was not in it, or in the *)
(* stream before a last event that was sent twice.                         *)
NothingElseMissed ==
    client.pc = "live" /\ client.box = <<>> =>
        1..sent \subseteq client.had \cup missed
=============================================================================
