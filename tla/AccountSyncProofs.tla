------------------------- MODULE AccountSyncProofs -------------------------
(***************************************************************************)
(* What AccountSync guarantees for any number of overlapping syncs,        *)
(* holdings and transactions.                                              *)
(***************************************************************************)
EXTENDS AccountSync, TLAPS

USE ItemsAssumption

(* Steps of request p, but for its saves of the account.                   *)
StepOf(p) ==
    \/ \E state \in {"open", "closed"} : AccountsFind(p, state)
    \/ HoldingsStart(p)
    \/ HoldingsFetched(p)
    \/ \E h \in Holdings :
          \/ \E report \in Reports \ {"absent"} : HoldingFind(p, h, report)
          \/ ClearSelect(p, h)
    \/ HoldingWrite(p)
    \/ ListHoldings(p)
    \/ ClearWrite(p)
    \/ TransactionsStart(p)
    \/ TransactionsFetched(p)
    \/ \E t \in Transactions : TransactionFind(p, t)
    \/ TransactionInsert(p)
    \/ ImportFind(p)
    \/ ImportEnd(p)
    \/ Answer(p)
    \/ Abandon(p)

LEMMA Steps ==
  ASSUME Next
  PROVE  \E p \in Requests : StepOf(p) \/ SaveAccount(p) \/ ImportSave(p)
  BY DEF Next, StepOf

----------------------------------------------------------------------------
(* The inductive invariant.                                                *)

(* What the sync with the locals l will leave of a holding.                *)
Seen(l, h) == IF l.pend[h] = "none" THEN hold[h] ELSE l.pend[h]

Looping == {"items", "write", "clear", "clearWrite"}

(* Which loops a request may be in, and what it has locked.                *)
InPlace(l) ==
    /\ l.pc \in {"clear", "clearWrite"} => l.kind = "holdings"
    /\ l.pc \in {"fetch", "items", "write"} =>
          l.kind \in {"holdings", "transactions", "import"}
    /\ l.pc = "save" => l.kind \in {"accounts", "import"}
    /\ l.kind # "holdings" \/ l.pc \notin Looping =>
          \A h \in Holdings : l.pend[h] = "none"

(* The transactions read so far are stored.                                *)
Stored(l) ==
    l.kind \in {"transactions", "import"} =>
        /\ l.pc = "fetch" => l.want = {}
        /\ l.pc = "items" => l.want \subseteq txn \cup l.todo
        /\ l.pc = "write" => /\ l.cur \in Transactions
                             /\ l.want \subseteq txn \cup l.todo \cup {l.cur}
        /\ l.pc = "done" => l.want \subseteq txn

(* The account entity is the row, unless the row was written meanwhile.    *)
Copied(l) ==
    /\ l.kind \in {"holdings", "transactions"}
    /\ l.pc \notin {"idle", "done"}
    /\ "acct" \notin l.over
    => l.copy = acct

(* The two loops over the holdings.                                        *)
Looped(l) ==
    l.kind = "holdings" =>
        /\ l.pc = "fetch" => \A h \in Holdings : l.answer[h] = "absent"
        /\ l.pc \in {"items", "write"} =>
              \A h \in Holdings : l.answer[h] = "absent" => l.pend[h] = "none"
        /\ l.pc \in {"fetch", "items", "write"} => l.todo = {}
        /\ l.pc = "write" => /\ l.cur \in Holdings
                             /\ l.answer[l.cur] # "absent"
                             /\ l.pend[l.cur] = "none"
                             /\ l.val = "none" => l.answer[l.cur] = "held"
        /\ l.pc \in {"clear", "clearWrite"} =>
              /\ l.todo \subseteq {h \in Holdings : l.answer[h] = "absent"}
              /\ \A h \in l.todo : l.pend[h] = "none"
              /\ \A h \in Holdings : l.pend[h] # "stuck"
        /\ l.pc = "clearWrite" => /\ l.cur \in Holdings \ l.todo
                                  /\ l.answer[l.cur] = "absent"
                                  /\ l.pend[l.cur] = "none"

(* A write that changes a column of a row is one the answer asked for.     *)
Asked(answer, old, new) ==
    /\ old = "none" \/ Active(old) =>
          Active(new) \/ answer \in {"absent", "short"}
    /\ ~Active(old) /\ Active(new) => answer = "held"
    /\ ~Negative(old) /\ Negative(new) => answer = "short"

(* What is flushed was asked for, and a row that was there still is.       *)
Reported(l) ==
    /\ \A h \in Holdings :
          l.pend[h] # "none" => Asked(l.answer[h], hold[h], l.pend[h])
    /\ l.kind = "holdings" /\ l.pc = "write" /\ l.val # "none" =>
          hold[l.cur] # "none"

(* Without an overlap, the loops bring the rows to their result.           *)
Exact(l) ==
    l.kind = "holdings" /\ l.pc \in Looping /\ "hold" \notin l.over =>
        /\ \A h \in Holdings : l.answer[h] # "absent" =>
              \/ l.pc = "write" /\ h = l.cur
              \/ Seen(l, h) = Result(l.answer[h], hold[h])
        /\ l.pc = "write" => /\ l.val = hold[l.cur]
                             /\ ~Negative(l.val)
        /\ l.pc \in {"clear", "clearWrite"} =>
              \A h \in Holdings : l.answer[h] = "absent" =>
                 IF h \in l.todo \/ (l.pc = "clearWrite" /\ h = l.cur)
                 THEN l.pend[h] = "none" /\ hold[h] = "active"
                 ELSE Seen(l, h) = Result("absent", hold[h])
        /\ l.pc = "clearWrite" => l.val = "active"

Good(l) ==
    InPlace(l) /\ Stored(l) /\ Copied(l) /\ Looped(l) /\ Reported(l) /\ Exact(l)

(* A row is locked by one request at a time.                               *)
Locked ==
    \A p, q \in Requests : p # q =>
        \A h \in Holdings : req[p].pend[h] = "none" \/ req[q].pend[h] = "none"

IInv ==
    TypeOK /\ NeverBlocked /\ Locked /\ \A p \in Requests : Good(req[p])

LEMMA IdleGood ==
  /\ Idle \in Locals
  /\ Idle.pc = "idle" /\ Idle.kind = "none"
  /\ \A h \in Holdings : Idle.pend[h] = "none"
  /\ Good(Idle)
<1>1. Idle \in Locals
  BY DEF Idle, Locals, Pcs, Kinds, AccountStates, HoldingStates, NoAnswer,
         Unwritten, Reports
<1>2. /\ Idle.pc = "idle" /\ Idle.kind = "none"
      /\ \A h \in Holdings : Idle.pend[h] = "none"
  BY DEF Idle, Unwritten
<1>3. Good(Idle)
  BY <1>2 DEF Good, InPlace, Stored, Copied, Looped, Reported, Exact
<1>4. QED
  BY <1>1, <1>2, <1>3

LEMMA InitInv == Init => IInv
<1> SUFFICES ASSUME Init PROVE IInv
  OBVIOUS
<1>1. TypeOK /\ NeverBlocked
  BY IdleGood DEF Init, TypeOK, AccountStates, HoldingStates, NeverBlocked
<1>2. \A p \in Requests : req[p] = Idle
  BY DEF Init
<1>3. Locked
  BY <1>2, IdleGood DEF Locked
<1>4. QED
  BY <1>1, <1>2, <1>3, IdleGood DEF IInv

LEMMA LocalTypes ==
  ASSUME TypeOK, NEW p \in Requests
  PROVE  /\ req[p] \in Locals
         /\ req[p].pend \in [Holdings -> HoldingStates]
         /\ req[p].answer \in [Holdings -> Reports]
         /\ req[p].copy \in AccountStates /\ req[p].val \in HoldingStates
         /\ req[p].todo \subseteq Holdings \cup Transactions
         /\ req[p].cur \in Holdings \cup Transactions \cup {"none"}
         /\ req[p].over \subseteq {"acct", "hold"}
         /\ req[p].want \subseteq Transactions
         /\ hold \in [Holdings -> HoldingStates]
  BY DEF TypeOK, Locals

(* A step of p to l that commits neither the account nor its holdings.     *)
LEMMA MoveInv ==
  ASSUME IInv, NEW p \in Requests, NEW l \in Locals, Continue(p, l),
         UNCHANGED <<acct, hold, file>>, txn' \in SUBSET Transactions,
         txn \subseteq txn',
         \A h \in Holdings : \/ l.pend[h] = "none"
                             \/ req[p].pend[h] # "none"
                             \/ Lockers(p, h) = {},
         InPlace(l), Stored(l)', Copied(l), Looped(l), Reported(l), Exact(l)
  PROVE  IInv'
<1>1. \A q \in Requests : req'[q] = IF q = p THEN l ELSE req[q]
  BY DEF Continue, IInv, TypeOK
<1>2. TypeOK' /\ NeverBlocked'
  BY DEF Continue, IInv, TypeOK, NeverBlocked
<1>3. Locked'
  <2>1. ASSUME NEW q \in Requests, q # p, NEW h \in Holdings,
               l.pend[h] # "none"
        PROVE  req[q].pend[h] = "none"
    <3>1. CASE req[p].pend[h] # "none"
      BY <2>1, <3>1 DEF IInv, Locked
    <3>2. CASE Lockers(p, h) = {}
      BY <2>1, <3>2 DEF Lockers
    <3>3. QED
      BY <2>1, <3>1, <3>2
  <2>2. QED
    BY <1>1, <2>1 DEF IInv, Locked
<1>4. ASSUME NEW q \in Requests
      PROVE  Good(req[q])'
  <2>1. CASE q = p
    <3>1. req'[q] = l
      BY <1>1, <2>1
    <3>2. InPlace(req[q])' /\ Copied(req[q])' /\ Looped(req[q])'
      BY <3>1 DEF InPlace, Copied, Looped
    <3>3. Stored(req[q])'
      BY <3>1 DEF Stored
    <3>4. Reported(req[q])' /\ Exact(req[q])'
      BY <3>1 DEF Reported, Exact, Seen
    <3>5. QED
      BY <3>2, <3>3, <3>4 DEF Good
  <2>2. CASE q # p
    <3>1. req'[q] = req[q] /\ Good(req[q])
      BY <1>1, <2>2 DEF IInv
    <3>2. InPlace(req[q])' /\ Copied(req[q])' /\ Looped(req[q])'
      BY <3>1 DEF Good, InPlace, Copied, Looped
    <3>3. Stored(req[q])'
      BY <3>1 DEF Good, Stored
    <3>4. Reported(req[q])' /\ Exact(req[q])'
      BY <3>1 DEF Good, Reported, Exact, Seen
    <3>5. QED
      BY <3>2, <3>3, <3>4 DEF Good
  <2>3. QED
    BY <2>1, <2>2
<1>5. QED
  BY <1>2, <1>3, <1>4 DEF IInv

(* The same for a step that stores nothing and takes no lock.              *)
LEMMA ReadInv ==
  ASSUME IInv, NEW p \in Requests, NEW l \in Locals, Continue(p, l),
         UNCHANGED <<acct, hold, txn, file>>,
         \/ \A h \in Holdings : l.pend[h] = "none"
         \/ l.pend = req[p].pend,
         InPlace(l), Stored(l), Copied(l), Looped(l), Reported(l), Exact(l)
  PROVE  IInv'
<1>1. Stored(l)' /\ txn' \in SUBSET Transactions
  BY DEF Stored, IInv, TypeOK
<1>2. QED
  BY <1>1, MoveInv

LEMMA GoodAt ==
  ASSUME IInv, NEW p \in Requests
  PROVE  /\ InPlace(req[p]) /\ Stored(req[p]) /\ Copied(req[p])
         /\ Looped(req[p]) /\ Reported(req[p]) /\ Exact(req[p])
         /\ TypeOK /\ NeverBlocked
  BY DEF IInv, Good

(* Locals in which no holding is locked.                                   *)
LEMMA UnlockedGood ==
  ASSUME NEW l, \A h \in Holdings : l.pend[h] = "none"
  PROVE  /\ l.pc \notin Looping \/ l.kind # "holdings" => Reported(l)
         /\ l.pc \notin Looping \/ l.kind # "holdings" => Exact(l)
         /\ l.pc \notin Looping \cup {"fetch"} \/ l.kind # "holdings" =>
               Looped(l)
  BY DEF Reported, Exact, Looped, Looping

----------------------------------------------------------------------------
(* The beginnings and ends of the syncs.                                   *)

LEMMA DoneIs ==
  ASSUME TypeOK, NEW p \in Requests
  PROVE  /\ Done(p) \in Locals
         /\ Done(p).pc = "done" /\ Done(p).kind = req[p].kind
         /\ Done(p).want = req[p].want
         /\ \A h \in Holdings : Done(p).pend[h] = "none"
<1>1. req[p] \in Locals /\ Idle \in Locals
  BY LocalTypes, IdleGood
<1>2. Done(p).pend = Idle.pend
  BY DEF Done, Idle
<1>3. QED
  BY <1>1, <1>2, IdleGood DEF Done, Idle, Locals, Pcs

LEMMA DoneGood ==
  ASSUME TypeOK, NEW p \in Requests
  PROVE  /\ InPlace(Done(p)) /\ Copied(Done(p)) /\ Looped(Done(p))
         /\ Reported(Done(p)) /\ Exact(Done(p))
         /\ (req[p].kind \in {"transactions", "import"} =>
                req[p].want \subseteq txn) => Stored(Done(p))
<1>1. Looped(Done(p)) /\ Reported(Done(p)) /\ Exact(Done(p))
  BY DoneIs, UnlockedGood DEF Looping
<1>2. InPlace(Done(p)) /\ Copied(Done(p))
  BY DoneIs DEF InPlace, Copied
<1>3. (req[p].kind \in {"transactions", "import"} =>
          req[p].want \subseteq txn) => Stored(Done(p))
  BY DoneIs DEF Stored
<1>4. QED
  BY <1>1, <1>2, <1>3

LEMMA AccountsFindInv ==
  ASSUME IInv, NEW p \in Requests, NEW state \in {"open", "closed"},
         AccountsFind(p, state)
  PROVE  IInv'
<1> DEFINE l == [Idle EXCEPT !.pc = "save", !.kind = "accounts",
                             !.copy = state,
                             !.val = IF acct = "none" THEN "none" ELSE "active"]
<1>1. CASE Continue(p, l)
  <2>1. l \in Locals /\ l.pend = Idle.pend
    BY IdleGood DEF Locals, Pcs, Kinds, AccountStates, HoldingStates, Idle
  <2>2. l.pc = "save" /\ l.kind = "accounts"
    BY DEF Idle
  <2>3. \A h \in Holdings : l.pend[h] = "none"
    BY <2>1, IdleGood
  <2> HIDE DEF l
  <2>4. InPlace(l) /\ Stored(l) /\ Copied(l)
    BY <2>2, <2>3 DEF InPlace, Stored, Copied
  <2>5. Looped(l) /\ Reported(l) /\ Exact(l)
    BY <2>2, <2>3, UnlockedGood
  <2>6. QED
    BY <1>1, <2>1, <2>3, <2>4, <2>5, ReadInv DEF AccountsFind
<1>2. CASE Continue(p, [Idle EXCEPT !.pc = "done", !.kind = "accounts"])
  <2> DEFINE m == [Idle EXCEPT !.pc = "done", !.kind = "accounts"]
  <2>1. m \in Locals /\ m.pend = Idle.pend
    BY IdleGood DEF Locals, Pcs, Kinds, Idle
  <2>2. m.pc = "done" /\ m.kind = "accounts"
    BY DEF Idle
  <2>3. \A h \in Holdings : m.pend[h] = "none"
    BY <2>1, IdleGood
  <2> HIDE DEF m
  <2>4. InPlace(m) /\ Stored(m) /\ Copied(m)
    BY <2>2, <2>3 DEF InPlace, Stored, Copied
  <2>5. Looped(m) /\ Reported(m) /\ Exact(m)
    BY <2>2, <2>3, UnlockedGood
  <2>6. Continue(p, m)
    BY <1>2 DEF m
  <2>7. QED
    BY <2>1, <2>3, <2>4, <2>5, <2>6, ReadInv DEF AccountsFind
<1>3. QED
  BY <1>1, <1>2 DEF AccountsFind

(* The start of a sync of holdings or transactions.                        *)
LEMMA StartInv ==
  ASSUME IInv, NEW p \in Requests, NEW k \in {"holdings", "transactions"},
         Continue(p, [Idle EXCEPT !.pc = "fetch", !.kind = k, !.copy = acct]),
         UNCHANGED <<acct, hold, txn, file>>
  PROVE  IInv'
<1> DEFINE l == [Idle EXCEPT !.pc = "fetch", !.kind = k, !.copy = acct]
<1>1. l \in Locals /\ l.pend = Idle.pend
  BY IdleGood DEF Locals, Pcs, Kinds, IInv, TypeOK, Idle
<1>2. /\ l.pc = "fetch" /\ l.kind = k /\ l.copy = acct /\ l.want = {}
      /\ l.todo = {}
      /\ \A h \in Holdings : l.answer[h] = "absent"
  BY DEF Idle, NoAnswer
<1>3. \A h \in Holdings : l.pend[h] = "none"
  BY <1>1, IdleGood
<1> HIDE DEF l
<1>4. InPlace(l) /\ Stored(l) /\ Copied(l)
  BY <1>2, <1>3 DEF InPlace, Stored, Copied
<1>5. Looped(l) /\ Reported(l) /\ Exact(l)
  BY <1>2, <1>3, UnlockedGood DEF Looping, Looped
<1>6. Continue(p, l)
  BY DEF l
<1>7. QED
  BY <1>1, <1>3, <1>4, <1>5, <1>6, ReadInv

LEMMA EndInv ==
  ASSUME IInv, NEW p \in Requests, Continue(p, Idle),
         UNCHANGED <<acct, hold, txn, file>>
  PROVE  IInv'
  BY IdleGood, ReadInv DEF Good

----------------------------------------------------------------------------
(* The holdings.                                                           *)

LEMMA HoldingsFetchedInv ==
  ASSUME IInv, NEW p \in Requests, HoldingsFetched(p)
  PROVE  IInv'
<1> DEFINE l == [req[p] EXCEPT !.pc = "items", !.over = @ \ {"hold"}]
<1>1. req[p] \in Locals /\ req[p].pc = "fetch" /\ req[p].kind = "holdings"
  BY GoodAt, LocalTypes DEF HoldingsFetched
<1>2. /\ l \in Locals /\ l.pend = req[p].pend /\ l.pc = "items"
      /\ l.kind = "holdings" /\ l.copy = req[p].copy
      /\ l.answer = req[p].answer /\ l.todo = req[p].todo
      /\ "acct" \in l.over <=> "acct" \in req[p].over
  BY <1>1 DEF Locals, Pcs
<1> HIDE DEF l
<1>3. \A h \in Holdings : l.pend[h] = "none"
  BY <1>1, <1>2, GoodAt DEF InPlace, Looping
<1>4. \A h \in Holdings : l.answer[h] = "absent"
  BY <1>1, <1>2, GoodAt DEF Looped
<1>5. InPlace(l) /\ Stored(l)
  BY <1>2, <1>3 DEF InPlace, Stored
<1>6. Copied(l)
  BY <1>1, <1>2, GoodAt DEF Copied
<1>7. Looped(l) /\ Reported(l) /\ Exact(l)
  BY <1>1, <1>2, <1>3, <1>4, GoodAt DEF Looped, Reported, Exact
<1>8. Continue(p, l) /\ UNCHANGED <<acct, hold, txn, file>>
  BY DEF HoldingsFetched, l
<1>9. QED
  BY <1>2, <1>5, <1>6, <1>7, <1>8, ReadInv

(* What an UPDATE leaves of the row.                                       *)
LEMMA OverwrittenIs ==
  ASSUME NEW val \in HoldingStates, NEW new \in {"active", "inactive", "short"},
         NEW now \in HoldingStates, NEW x \in Overwritten(val, new, now)
  PROVE  /\ x \in HoldingStates \ {"none"}
         /\ val = now /\ ~Negative(val) => x = new
         /\ Active(now) /\ ~Active(x) => ~Active(new)
         /\ ~Active(now) /\ Active(x) => Active(new)
         /\ ~Negative(now) /\ Negative(x) => Negative(new)
         /\ now # "stuck" /\ new = "inactive" => x # "stuck"
  BY DEF Overwritten, Active, Negative, HoldingStates

(* What the sync makes of the rows.                                        *)
LEMMA Results ==
  /\ \A report \in Reports, now \in HoldingStates :
        Negative(now) => Result(report, now) = now
  /\ Result("held", "none") = "active" /\ Result("short", "none") = "none"
  /\ \A report \in Reports \ {"absent"}, now \in HoldingStates \ {"none"} :
        ~Negative(now) => Result(report, now) = Updated(report)
  /\ Result("absent", "active") = "inactive"
  /\ \A now \in {"none", "inactive", "short"} : Result("absent", now) = now
  /\ \A report \in Reports :
        /\ Updated(report) \in {"active", "short"}
        /\ Updated(report) # "active" => report = "short"
        /\ Updated(report) # "short" => report # "short"
  BY DEF Result, Updated, Reports, HoldingStates, Negative

LEMMA HoldingFindInv ==
  ASSUME IInv, NEW p \in Requests, NEW h \in Holdings,
         NEW report \in Reports \ {"absent"}, HoldingFind(p, h, report)
  PROVE  IInv'
<1>1. /\ req[p] \in Locals /\ req[p].pc = "items" /\ req[p].kind = "holdings"
      /\ req[p].answer[h] = "absent" /\ req[p].pend[h] = "none"
      /\ req[p].answer \in [Holdings -> Reports]
      /\ hold \in [Holdings -> HoldingStates]
      /\ View(p, h) = hold[h]
  BY GoodAt, LocalTypes DEF HoldingFind, Looped, View
<1>2. InPlace(req[p]) /\ Copied(req[p]) /\ Looped(req[p]) /\ Reported(req[p])
      /\ Exact(req[p])
  BY GoodAt
<1>3. PICK l \in Locals :
         /\ Continue(p, l) /\ l.kind = "holdings" /\ l.pend = req[p].pend
         /\ l.copy = req[p].copy /\ l.over = req[p].over
         /\ l.todo = req[p].todo
         /\ l.answer = [req[p].answer EXCEPT ![h] = report]
         /\ \/ /\ l.pc = "items"
               /\ \/ Negative(hold[h])
                  \/ hold[h] = "none" /\ report = "short"
            \/ /\ l.pc = "write" /\ l.cur = h /\ l.val = hold[h]
               /\ ~Negative(hold[h])
               /\ ~(hold[h] = "none" /\ report = "short")
  <2>1. CASE Negative(hold[h]) \/ (hold[h] = "none" /\ report = "short")
    <3> DEFINE l == [req[p] EXCEPT !.answer[h] = report]
    <3>1. /\ l \in Locals /\ l.kind = "holdings" /\ l.pend = req[p].pend
          /\ l.copy = req[p].copy /\ l.over = req[p].over /\ l.pc = "items"
          /\ l.answer = [req[p].answer EXCEPT ![h] = report]
          /\ l.todo = req[p].todo
      BY <1>1 DEF Locals
    <3>2. Continue(p, l)
      BY <1>1, <2>1 DEF HoldingFind
    <3>3. QED
      BY <2>1, <3>1, <3>2
  <2>2. CASE ~Negative(hold[h]) /\ ~(hold[h] = "none" /\ report = "short")
    <3> DEFINE l == [req[p] EXCEPT !.answer[h] = report, !.pc = "write",
                                   !.cur = h, !.val = View(p, h)]
    <3>1. /\ l \in Locals /\ l.kind = "holdings" /\ l.pend = req[p].pend
          /\ l.copy = req[p].copy /\ l.over = req[p].over /\ l.pc = "write"
          /\ l.answer = [req[p].answer EXCEPT ![h] = report]
          /\ l.todo = req[p].todo
          /\ l.cur = h /\ l.val = hold[h]
      BY <1>1 DEF Locals, Pcs
    <3>2. /\ ~Negative(View(p, h))
          /\ ~(View(p, h) = "none" /\ report = "short")
      BY <1>1, <2>2
    <3>3. Continue(p, l)
      BY <3>2 DEF HoldingFind
    <3> HIDE DEF l
    <3>4. QED
      BY <2>2, <3>1, <3>3
  <2>3. QED
    BY <2>1, <2>2
<1>4. /\ l.answer[h] = report /\ report # "absent"
      /\ \A g \in Holdings \ {h} : l.answer[g] = req[p].answer[g]
      /\ l.pend[h] = "none"
  BY <1>1, <1>3
<1>5. InPlace(l) /\ Stored(l)
  BY <1>3 DEF InPlace, Stored, Looping
<1>6. Copied(l)
  BY <1>1, <1>2, <1>3 DEF Copied
<1>7. Looped(l)
  <2>1. l.pc = "write" /\ l.val = "none" => report = "held"
    BY <1>3 DEF Reports
  <2>2. QED
    BY <1>1, <1>2, <1>3, <1>4, <2>1 DEF Looped
<1>8. Reported(l)
  BY <1>2, <1>3, <1>4 DEF Reported
<1>9. Exact(l)
  <2>1. SUFFICES ASSUME "hold" \notin req[p].over PROVE Exact(l)
    BY <1>3 DEF Exact
  <2>2. \A g \in Holdings \ {h} : l.answer[g] # "absent" =>
           Seen(l, g) = Result(l.answer[g], hold[g])
    BY <1>1, <1>2, <1>3, <1>4, <2>1 DEF Exact, Looping, Seen
  <2>3. l.pc = "items" => Seen(l, h) = Result(l.answer[h], hold[h])
    BY <1>1, <1>3, <1>4, Results DEF Seen
  <2>4. QED
    BY <1>3, <1>4, <2>2, <2>3 DEF Exact
<1>10. QED
  BY <1>3, <1>5, <1>6, <1>7, <1>8, <1>9, ReadInv DEF HoldingFind

(* What the INSERT or UPDATE of the position in hand leaves.               *)
Written(p, x) ==
    \/ req[p].val = "none" /\ hold[req[p].cur] = "none" /\ x = "active"
    \/ /\ req[p].val # "none"
       /\ x \in Overwritten(req[p].val, Updated(req[p].answer[req[p].cur]),
                            View(p, req[p].cur))

LEMMA HoldingWritten ==
  ASSUME IInv, NEW p \in Requests, HoldingWrite(p)
  PROVE  /\ req[p].cur \in Holdings
         /\ \E l \in Locals, x \in HoldingStates :
               /\ Continue(p, l) /\ l.pc = "items" /\ l.kind = req[p].kind
               /\ l.answer = req[p].answer /\ l.copy = req[p].copy
               /\ l.over = req[p].over /\ l.todo = req[p].todo
               /\ l.pend = [req[p].pend EXCEPT ![req[p].cur] = x]
               /\ Written(p, x)
<1> DEFINE h == req[p].cur
           m(x) == [req[p] EXCEPT !.pc = "items", !.val = "none",
                                  !.cur = "none", !.pend[h] = x]
<1>1. h \in Holdings /\ req[p] \in Locals
  BY GoodAt, LocalTypes DEF HoldingWrite
<1>2. PICK x \in IF req[p].val = "none" THEN {"active"}
                  ELSE Overwritten(req[p].val, Updated(req[p].answer[h]),
                                   View(p, h)) :
         /\ req[p].val = "none" => hold[h] = "none"
         /\ Continue(p, m(x))
  BY DEF HoldingWrite
<1>3. x \in HoldingStates /\ Written(p, x)
  BY <1>2 DEF Overwritten, HoldingStates, Written
<1>4. /\ m(x) \in Locals /\ m(x).pc = "items" /\ m(x).kind = req[p].kind
      /\ m(x).answer = req[p].answer /\ m(x).copy = req[p].copy
      /\ m(x).over = req[p].over /\ m(x).todo = req[p].todo
      /\ m(x).pend = [req[p].pend EXCEPT ![h] = x]
  BY <1>1, <1>3 DEF Locals, Pcs, HoldingStates
<1> HIDE DEF m
<1>5. QED
  BY <1>1, <1>2, <1>3, <1>4

LEMMA HoldingWriteInv ==
  ASSUME IInv, NEW p \in Requests, HoldingWrite(p)
  PROVE  IInv'
<1> DEFINE h == req[p].cur
<1>1. /\ h \in Holdings /\ req[p] \in Locals /\ req[p].pc = "write"
      /\ Lockers(p, h) = {} /\ req[p].cur \notin Transactions
      /\ req[p].pend \in [Holdings -> HoldingStates]
      /\ req[p].answer \in [Holdings -> Reports]
      /\ hold \in [Holdings -> HoldingStates] /\ req[p].val \in HoldingStates
      /\ UNCHANGED <<acct, hold, txn, file>>
  BY GoodAt, LocalTypes DEF HoldingWrite
<1>2. InPlace(req[p]) /\ Copied(req[p]) /\ Looped(req[p]) /\ Reported(req[p])
      /\ Exact(req[p]) /\ Stored(req[p]) /\ TypeOK
  BY GoodAt
<1>3. req[p].kind = "holdings"
  BY <1>1, <1>2 DEF InPlace, Stored
<1>4. /\ req[p].answer[h] # "absent" /\ req[p].pend[h] = "none"
      /\ View(p, h) = hold[h]
  BY <1>1, <1>2, <1>3 DEF Looped, View
<1>0. PICK l \in Locals, x \in HoldingStates :
         /\ Continue(p, l) /\ l.pc = "items" /\ l.kind = req[p].kind
         /\ l.answer = req[p].answer /\ l.copy = req[p].copy
         /\ l.over = req[p].over /\ l.todo = req[p].todo
         /\ l.pend = [req[p].pend EXCEPT ![req[p].cur] = x]
         /\ Written(p, x)
  BY HoldingWritten
<1>5. /\ Continue(p, l) /\ l.pc = "items" /\ l.kind = "holdings"
      /\ l.answer = req[p].answer /\ l.copy = req[p].copy
      /\ l.over = req[p].over /\ l.todo = req[p].todo
      /\ l.pend = [req[p].pend EXCEPT ![h] = x]
      /\ \/ req[p].val = "none" /\ hold[h] = "none" /\ x = "active"
         \/ /\ req[p].val # "none"
            /\ x \in Overwritten(req[p].val, Updated(req[p].answer[h]), hold[h])
  BY <1>0, <1>3, <1>4 DEF Written
<1>6. l.pend[h] = x /\ \A g \in Holdings \ {h} : l.pend[g] = req[p].pend[g]
  BY <1>1, <1>5
<1> HIDE DEF h
<1>7. InPlace(l) /\ Stored(l)'
  BY <1>5 DEF InPlace, Stored, Looping
<1>8. Copied(l)
  BY <1>1, <1>2, <1>3, <1>5 DEF Copied
<1>9. Looped(l)
  BY <1>1, <1>2, <1>3, <1>4, <1>5, <1>6 DEF Looped
<1>10. Reported(l)
  <2>1. Asked(req[p].answer[h], hold[h], x)
    <3>1. req[p].answer[h] \in Reports \ {"absent"}
      BY <1>1, <1>4
    <3>2. CASE req[p].val = "none"
      <4>1. hold[h] = "none" /\ x = "active" /\ req[p].answer[h] = "held"
        BY <1>1, <1>2, <1>3, <1>5, <3>2 DEF Looped, h
      <4>2. QED
        BY <4>1 DEF Asked, Active, Negative
    <3>3. CASE req[p].val # "none"
      <4>1. hold[h] # "none"
        BY <1>1, <1>2, <1>3, <3>3 DEF Reported, h
      <4>2. QED
        BY <1>1, <1>5, <3>1, <3>3, <4>1, OverwrittenIs
           DEF Asked, Updated, Active, Negative, Reports
    <3>4. QED
      BY <3>2, <3>3
  <2>2. QED
    BY <1>2, <1>5, <1>6, <2>1 DEF Reported
<1>11. Exact(l)
  <2>1. SUFFICES ASSUME "hold" \notin req[p].over PROVE Exact(l)
    BY <1>5 DEF Exact
  <2>2. /\ req[p].val = hold[h]
        /\ ~Negative(req[p].val)
        /\ req[p].val = "none" => req[p].answer[h] = "held"
        /\ \A g \in Holdings \ {h} : req[p].answer[g] # "absent" =>
              Seen(req[p], g) = Result(req[p].answer[g], hold[g])
    BY <1>1, <1>2, <1>3, <2>1 DEF Exact, Looped, Looping, h
  <2>3. x = Result(req[p].answer[h], hold[h]) /\ x # "none"
    <3>1. req[p].answer[h] \in Reports \ {"absent"}
      BY <1>1, <1>4
    <3>2. CASE req[p].val = "none"
      BY <1>5, <2>2, <3>1, <3>2, Results
    <3>3. CASE req[p].val # "none"
      BY <1>1, <1>5, <2>2, <3>1, <3>3, Results, OverwrittenIs
    <3>4. QED
      BY <3>2, <3>3
  <2>4. \A g \in Holdings : l.answer[g] # "absent" =>
           Seen(l, g) = Result(l.answer[g], hold[g])
    BY <1>5, <1>6, <2>2, <2>3 DEF Seen
  <2>5. QED
    BY <1>5, <2>4 DEF Exact
<1>12. \A g \in Holdings : \/ l.pend[g] = "none"
                           \/ req[p].pend[g] # "none"
                           \/ Lockers(p, g) = {}
  BY <1>1, <1>6
<1>13. QED
  BY <1>1, <1>2, <1>5, <1>7, <1>8, <1>9, <1>10, <1>11, <1>12, MoveInv
     DEF TypeOK

LEMMA ListHoldingsInv ==
  ASSUME IInv, NEW p \in Requests, ListHoldings(p)
  PROVE  IInv'
<1> DEFINE l == [req[p] EXCEPT !.pc = "clear", !.todo = Unseen(p)]
<1>1. /\ req[p] \in Locals /\ req[p].pc = "items" /\ req[p].kind = "holdings"
      /\ hold \in [Holdings -> HoldingStates]
      /\ req[p].pend \in [Holdings -> HoldingStates]
      /\ Unseen(p) \subseteq Holdings
      /\ \A h \in Holdings : View(p, h) # "stuck"
  BY GoodAt, LocalTypes DEF ListHoldings, Unseen
<1>2. InPlace(req[p]) /\ Copied(req[p]) /\ Looped(req[p]) /\ Reported(req[p])
      /\ Exact(req[p])
  BY GoodAt
<1>3. /\ l \in Locals /\ l.pc = "clear" /\ l.kind = "holdings"
      /\ l.pend = req[p].pend /\ l.answer = req[p].answer
      /\ l.copy = req[p].copy /\ l.over = req[p].over /\ l.todo = Unseen(p)
  BY <1>1 DEF Locals, Pcs
<1>4. Continue(p, l) /\ UNCHANGED <<acct, hold, txn, file>>
  BY DEF ListHoldings
<1> HIDE DEF l
<1>5. InPlace(l) /\ Stored(l)
  BY <1>3 DEF InPlace, Stored, Looping
<1>6. Copied(l)
  BY <1>1, <1>2, <1>3 DEF Copied
<1>7. Looped(l)
  BY <1>1, <1>2, <1>3 DEF Looped, Unseen, View
<1>8. Reported(l)
  BY <1>2, <1>3 DEF Reported
<1>9. Exact(l)
  <2>1. SUFFICES ASSUME "hold" \notin req[p].over PROVE Exact(l)
    BY <1>3 DEF Exact
  <2>2. \A g \in Holdings : l.answer[g] # "absent" =>
           Seen(l, g) = Result(l.answer[g], hold[g])
    BY <1>1, <1>2, <1>3, <2>1 DEF Exact, Looping, Seen
  <2>3. ASSUME NEW g \in Holdings, l.answer[g] = "absent"
        PROVE  IF g \in l.todo
               THEN l.pend[g] = "none" /\ hold[g] = "active"
               ELSE Seen(l, g) = Result("absent", hold[g])
    <3>1. l.pend[g] = "none" /\ View(p, g) = hold[g] /\ Seen(l, g) = hold[g]
      BY <1>1, <1>2, <1>3, <2>3 DEF Looped, View, Seen
    <3>2. g \in l.todo <=> hold[g] = "active"
      BY <1>1, <1>3, <2>3, <3>1 DEF Unseen, Active
    <3>3. hold[g] # "active" => Result("absent", hold[g]) = hold[g]
      BY <1>1, <3>1, Results DEF HoldingStates
    <3>4. QED
      BY <3>1, <3>2, <3>3
  <2>4. QED
    BY <1>3, <2>2, <2>3 DEF Exact
<1>10. QED
  BY <1>3, <1>4, <1>5, <1>6, <1>7, <1>8, <1>9, ReadInv

LEMMA ClearSelectInv ==
  ASSUME IInv, NEW p \in Requests, NEW h \in Holdings, ClearSelect(p, h)
  PROVE  IInv'
<1> DEFINE l == [req[p] EXCEPT !.todo = @ \ {h}, !.pc = "clearWrite",
                               !.cur = h, !.val = View(p, h)]
<1>1. /\ req[p] \in Locals /\ req[p].pc = "clear" /\ h \in req[p].todo
      /\ hold \in [Holdings -> HoldingStates]
      /\ req[p].pend \in [Holdings -> HoldingStates]
      /\ req[p].todo \subseteq Holdings \cup Transactions
  BY GoodAt, LocalTypes DEF ClearSelect
<1>2. InPlace(req[p]) /\ Copied(req[p]) /\ Looped(req[p]) /\ Reported(req[p])
      /\ Exact(req[p])
  BY GoodAt
<1>3. req[p].kind = "holdings"
  BY <1>1, <1>2 DEF InPlace
<1>4. View(p, h) \in HoldingStates
  BY <1>1 DEF View
<1>5. /\ l \in Locals /\ l.pc = "clearWrite" /\ l.kind = "holdings"
      /\ l.pend = req[p].pend /\ l.answer = req[p].answer
      /\ l.copy = req[p].copy /\ l.over = req[p].over
      /\ l.todo = req[p].todo \ {h} /\ l.cur = h /\ l.val = View(p, h)
  BY <1>1, <1>3, <1>4 DEF Locals, Pcs
<1>6. Continue(p, l) /\ UNCHANGED <<acct, hold, txn, file>>
  BY DEF ClearSelect
<1> HIDE DEF l
<1>7. InPlace(l) /\ Stored(l)
  BY <1>5 DEF InPlace, Stored, Looping
<1>8. Copied(l)
  BY <1>1, <1>2, <1>3, <1>5 DEF Copied
<1>9. Looped(l)
  BY <1>1, <1>2, <1>3, <1>5 DEF Looped
<1>10. Reported(l)
  BY <1>2, <1>5 DEF Reported
<1>11. Exact(l)
  <2>1. SUFFICES ASSUME "hold" \notin req[p].over PROVE Exact(l)
    BY <1>5 DEF Exact
  <2>2. \A g \in Holdings : l.answer[g] # "absent" =>
           Seen(l, g) = Result(l.answer[g], hold[g])
    BY <1>1, <1>2, <1>3, <1>5, <2>1 DEF Exact, Looping, Seen
  <2>3. \A g \in Holdings : l.answer[g] = "absent" =>
           IF g \in l.todo \/ g = l.cur
           THEN l.pend[g] = "none" /\ hold[g] = "active"
           ELSE Seen(l, g) = Result("absent", hold[g])
    BY <1>1, <1>2, <1>3, <1>5, <2>1 DEF Exact, Looping, Seen
  <2>4. l.answer[h] = "absent"
    BY <1>1, <1>2, <1>3, <1>5 DEF Looped
  <2>5. l.val = "active"
    BY <1>5, <2>3, <2>4 DEF View
  <2>6. QED
    BY <1>5, <2>2, <2>3, <2>5 DEF Exact
<1>12. QED
  BY <1>5, <1>6, <1>7, <1>8, <1>9, <1>10, <1>11, ReadInv

LEMMA ClearWriteInv ==
  ASSUME IInv, NEW p \in Requests, ClearWrite(p)
  PROVE  IInv'
<1> DEFINE h == req[p].cur
           m(x) == [req[p] EXCEPT !.pc = "clear", !.val = "none",
                                  !.cur = "none", !.pend[h] = x]
<1>1. /\ req[p] \in Locals /\ req[p].pc = "clearWrite"
      /\ Lockers(p, h) = {}
      /\ req[p].pend \in [Holdings -> HoldingStates]
      /\ hold \in [Holdings -> HoldingStates]
      /\ req[p].val \in HoldingStates
      /\ UNCHANGED <<acct, hold, txn, file>>
  BY GoodAt, LocalTypes DEF ClearWrite
<1>2. InPlace(req[p]) /\ Copied(req[p]) /\ Looped(req[p]) /\ Reported(req[p])
      /\ Exact(req[p]) /\ TypeOK /\ NeverBlocked
  BY GoodAt
<1>3. /\ req[p].kind = "holdings" /\ h \in Holdings
      /\ req[p].answer[h] = "absent" /\ View(p, h) = hold[h]
      /\ hold[h] # "stuck"
  BY <1>1, <1>2 DEF InPlace, Looped, View, NeverBlocked
<1>4. PICK x \in Overwritten(req[p].val, "inactive", View(p, h)) :
         Continue(p, m(x))
  BY DEF ClearWrite
<1>5. x \in Overwritten(req[p].val, "inactive", hold[h])
  BY <1>3, <1>4
<1>6. /\ x \in HoldingStates \ {"none"} /\ x # "stuck"
      /\ req[p].val = hold[h] /\ ~Negative(hold[h]) => x = "inactive"
      /\ ~Active(hold[h]) => ~Active(x)
      /\ ~Negative(hold[h]) => ~Negative(x)
  <2>1. ~Active("inactive") /\ ~Negative("inactive")
    BY DEF Active, Negative
  <2>2. QED
    BY <1>1, <1>3, <1>5, <2>1, OverwrittenIs
<1>7. PICK l \in Locals :
         /\ Continue(p, l) /\ l.pc = "clear" /\ l.kind = "holdings"
         /\ l.pend = [req[p].pend EXCEPT ![h] = x]
         /\ l.answer = req[p].answer /\ l.copy = req[p].copy
         /\ l.over = req[p].over /\ l.todo = req[p].todo
  <2>1. /\ m(x) \in Locals /\ m(x).pc = "clear" /\ m(x).kind = "holdings"
        /\ m(x).pend = [req[p].pend EXCEPT ![h] = x]
        /\ m(x).answer = req[p].answer /\ m(x).copy = req[p].copy
        /\ m(x).over = req[p].over /\ m(x).todo = req[p].todo
    BY <1>1, <1>3, <1>6 DEF Locals, Pcs, HoldingStates
  <2> HIDE DEF m
  <2>2. QED
    BY <1>4, <2>1
<1>8. l.pend[h] = x /\ \A g \in Holdings \ {h} : l.pend[g] = req[p].pend[g]
  BY <1>1, <1>3, <1>7
<1>9. InPlace(l) /\ Stored(l)'
  BY <1>7 DEF InPlace, Stored, Looping
<1>10. Copied(l)
  BY <1>1, <1>2, <1>3, <1>7 DEF Copied
<1>11. Looped(l)
  BY <1>1, <1>2, <1>3, <1>6, <1>7, <1>8 DEF Looped
<1>12. Reported(l)
  <2>1. Asked(req[p].answer[h], hold[h], x)
    BY <1>3, <1>6 DEF Asked
  <2>2. QED
    BY <1>2, <1>7, <1>8, <2>1 DEF Reported
<1>13. Exact(l)
  <2>1. SUFFICES ASSUME "hold" \notin req[p].over PROVE Exact(l)
    BY <1>7 DEF Exact
  <2>2. /\ req[p].val = "active" /\ hold[h] = "active"
        /\ \A g \in Holdings : req[p].answer[g] # "absent" =>
              Seen(req[p], g) = Result(req[p].answer[g], hold[g])
        /\ \A g \in Holdings \ {h} : req[p].answer[g] = "absent" =>
              IF g \in req[p].todo
              THEN req[p].pend[g] = "none" /\ hold[g] = "active"
              ELSE Seen(req[p], g) = Result("absent", hold[g])
    BY <1>1, <1>2, <1>3, <2>1 DEF Exact, Looping
  <2>3. x = "inactive"
    BY <1>6, <2>2 DEF Negative
  <2>4. \A g \in Holdings : l.answer[g] # "absent" =>
           Seen(l, g) = Result(l.answer[g], hold[g])
    BY <1>3, <1>7, <1>8, <2>2 DEF Seen
  <2>5. h \notin req[p].todo
    BY <1>1, <1>2, <1>3 DEF Looped
  <2>6. \A g \in Holdings : l.answer[g] = "absent" =>
           IF g \in l.todo
           THEN l.pend[g] = "none" /\ hold[g] = "active"
           ELSE Seen(l, g) = Result("absent", hold[g])
    BY <1>3, <1>7, <1>8, <2>2, <2>3, <2>5, Results DEF Seen
  <2>7. QED
    BY <1>7, <2>4, <2>6 DEF Exact
<1>14. \A g \in Holdings : \/ l.pend[g] = "none"
                           \/ req[p].pend[g] # "none"
                           \/ Lockers(p, g) = {}
  BY <1>1, <1>8
<1>15. QED
  BY <1>1, <1>2, <1>7, <1>9, <1>10, <1>11, <1>12, <1>13, <1>14, MoveInv
     DEF TypeOK

----------------------------------------------------------------------------
(* The transactions.                                                       *)

LEMMA TransactionsFetchedInv ==
  ASSUME IInv, NEW p \in Requests, TransactionsFetched(p)
  PROVE  IInv'
<1>1. /\ req[p] \in Locals /\ req[p].pc = "fetch"
      /\ req[p].kind \in {"transactions", "import"}
      /\ UNCHANGED <<acct, hold, txn, file>>
  BY GoodAt, LocalTypes DEF TransactionsFetched
<1>2. InPlace(req[p]) /\ Stored(req[p]) /\ Copied(req[p]) /\ TypeOK
  BY GoodAt
<1>3. ASSUME NEW ts \in SUBSET Transactions,
             Continue(p, [req[p] EXCEPT !.pc = "items", !.want = ts,
                                        !.todo = ts])
      PROVE  IInv'
  <2> DEFINE l == [req[p] EXCEPT !.pc = "items", !.want = ts, !.todo = ts]
  <2>1. /\ l \in Locals /\ l.pc = "items" /\ l.kind = req[p].kind
        /\ l.want = ts /\ l.todo = ts /\ l.copy = req[p].copy
        /\ l.over = req[p].over /\ l.pend = req[p].pend
    BY <1>1 DEF Locals, Pcs
  <2>2. Continue(p, l)
    BY <1>3
  <2> HIDE DEF l
  <2>3. \A h \in Holdings : l.pend[h] = "none"
    BY <1>1, <1>2, <2>1 DEF InPlace
  <2>4. InPlace(l) /\ Stored(l) /\ Copied(l)
    BY <1>1, <1>2, <2>1, <2>3 DEF InPlace, Stored, Copied
  <2>5. Looped(l) /\ Reported(l) /\ Exact(l)
    BY <1>1, <2>1, <2>3, UnlockedGood
  <2>6. QED
    BY <1>1, <2>1, <2>2, <2>4, <2>5, ReadInv
<1>4. ASSUME Continue(p, Done(p))
      PROVE  IInv'
  <2>1. req[p].want \subseteq txn
    BY <1>1, <1>2 DEF Stored
  <2>2. QED
    BY <1>1, <1>2, <1>4, <2>1, DoneIs, DoneGood, ReadInv
<1>5. QED
  BY <1>3, <1>4 DEF TransactionsFetched

LEMMA TransactionFindInv ==
  ASSUME IInv, NEW p \in Requests, NEW t \in Transactions,
         TransactionFind(p, t)
  PROVE  IInv'
<1>1. /\ req[p] \in Locals /\ req[p].pc = "items" /\ t \in req[p].todo
      /\ UNCHANGED <<acct, hold, txn, file>>
  BY GoodAt, LocalTypes DEF TransactionFind
<1>2. InPlace(req[p]) /\ Stored(req[p]) /\ Copied(req[p]) /\ Looped(req[p])
      /\ Reported(req[p]) /\ Exact(req[p])
  BY GoodAt
<1>3. req[p].kind \in {"transactions", "import"}
  BY <1>1, <1>2 DEF InPlace, Looped
<1>4. \A h \in Holdings : req[p].pend[h] = "none"
  BY <1>2, <1>3 DEF InPlace
<1>5. PICK l \in Locals :
         /\ Continue(p, l) /\ l.kind = req[p].kind
         /\ l.want = req[p].want /\ l.todo = req[p].todo \ {t}
         /\ l.copy = req[p].copy /\ l.over = req[p].over
         /\ l.pend = req[p].pend
         /\ \/ l.pc = "items" /\ t \in txn
            \/ l.pc = "write" /\ l.cur = t
  <2> DEFINE m == [req[p] EXCEPT !.todo = @ \ {t}]
             n == [req[p] EXCEPT !.todo = @ \ {t}, !.pc = "write", !.cur = t]
  <2>1. CASE t \in txn
    <3>1. /\ m \in Locals /\ m.kind = req[p].kind /\ m.want = req[p].want
          /\ m.todo = req[p].todo \ {t} /\ m.copy = req[p].copy
          /\ m.over = req[p].over /\ m.pend = req[p].pend /\ m.pc = "items"
      BY <1>1, <1>3 DEF Locals
    <3>2. Continue(p, m)
      BY <2>1 DEF TransactionFind
    <3> HIDE DEF m
    <3>3. QED
      BY <2>1, <3>1, <3>2
  <2>2. CASE t \notin txn
    <3>1. /\ n \in Locals /\ n.kind = req[p].kind /\ n.want = req[p].want
          /\ n.todo = req[p].todo \ {t} /\ n.copy = req[p].copy
          /\ n.over = req[p].over /\ n.pend = req[p].pend /\ n.pc = "write"
          /\ n.cur = t
      BY <1>1, <1>3 DEF Locals, Pcs
    <3>2. Continue(p, n)
      BY <2>2 DEF TransactionFind
    <3> HIDE DEF n
    <3>3. QED
      BY <3>1, <3>2
  <2>3. QED
    BY <2>1, <2>2
<1>6. InPlace(l) /\ Copied(l)
  BY <1>1, <1>2, <1>3, <1>4, <1>5 DEF InPlace, Copied
<1>7. Stored(l)
  BY <1>1, <1>2, <1>3, <1>5 DEF Stored
<1>8. Looped(l) /\ Reported(l) /\ Exact(l)
  BY <1>3, <1>4, <1>5, UnlockedGood
<1>9. QED
  BY <1>1, <1>5, <1>6, <1>7, <1>8, ReadInv

LEMMA TransactionInsertInv ==
  ASSUME IInv, NEW p \in Requests, TransactionInsert(p)
  PROVE  IInv'
<1> DEFINE m == [req[p] EXCEPT !.pc = "items", !.cur = "none"]
<1>1. /\ req[p] \in Locals /\ req[p].pc = "write"
      /\ req[p].cur \in Transactions /\ txn' = txn \cup {req[p].cur}
      /\ UNCHANGED <<acct, hold, file>>
  BY GoodAt, LocalTypes DEF TransactionInsert
<1>2. InPlace(req[p]) /\ Stored(req[p]) /\ Copied(req[p]) /\ Looped(req[p])
      /\ TypeOK
  BY GoodAt
<1>3. req[p].kind \in {"transactions", "import"}
  BY <1>1, <1>2 DEF InPlace, Looped
<1>4. PICK l \in Locals :
         /\ Continue(p, l) /\ l.pc = "items" /\ l.kind = req[p].kind
         /\ l.want = req[p].want /\ l.todo = req[p].todo
         /\ l.copy = req[p].copy /\ l.over = req[p].over
         /\ l.pend = req[p].pend
  <2>1. /\ m \in Locals /\ m.pc = "items" /\ m.kind = req[p].kind
        /\ m.want = req[p].want /\ m.todo = req[p].todo
        /\ m.copy = req[p].copy /\ m.over = req[p].over
        /\ m.pend = req[p].pend
    BY <1>1, <1>3 DEF Locals, Pcs
  <2>2. Continue(p, m)
    BY DEF TransactionInsert
  <2> HIDE DEF m
  <2>3. QED
    BY <2>1, <2>2
<1>5. \A h \in Holdings : l.pend[h] = "none"
  BY <1>2, <1>3, <1>4 DEF InPlace
<1>6. InPlace(l) /\ Copied(l)
  BY <1>1, <1>2, <1>3, <1>4, <1>5 DEF InPlace, Copied
<1>7. Stored(l)'
  BY <1>1, <1>2, <1>3, <1>4 DEF Stored
<1>8. Looped(l) /\ Reported(l) /\ Exact(l)
  BY <1>3, <1>4, <1>5, UnlockedGood
<1>9. txn' \in SUBSET Transactions
  BY <1>1, <1>2 DEF TypeOK
<1>10. QED
  BY <1>1, <1>4, <1>5, <1>6, <1>7, <1>8, <1>9, MoveInv

----------------------------------------------------------------------------
(* The beginning and the end of an import.                                 *)

LEMMA ImportFindInv ==
  ASSUME IInv, NEW p \in Requests, ImportFind(p)
  PROVE  IInv'
<1> DEFINE l == [Idle EXCEPT !.pc = "save", !.kind = "import",
                             !.copy = IF acct = "none" THEN "open" ELSE acct,
                             !.val = IF acct = "none" THEN "none" ELSE "active"]
<1>1. l \in Locals /\ l.pend = Idle.pend
  BY IdleGood DEF Locals, Pcs, Kinds, AccountStates, HoldingStates, Idle, IInv,
                  TypeOK
<1>2. l.pc = "save" /\ l.kind = "import"
  BY DEF Idle
<1>3. \A h \in Holdings : l.pend[h] = "none"
  BY <1>1, IdleGood
<1>4. Continue(p, l) /\ UNCHANGED <<acct, hold, txn, file>>
  BY DEF ImportFind
<1> HIDE DEF l
<1>5. InPlace(l) /\ Stored(l) /\ Copied(l)
  BY <1>2, <1>3 DEF InPlace, Stored, Copied
<1>6. Looped(l) /\ Reported(l) /\ Exact(l)
  BY <1>2, <1>3, UnlockedGood
<1>7. QED
  BY <1>1, <1>3, <1>4, <1>5, <1>6, ReadInv

LEMMA ImportEndInv ==
  ASSUME IInv, NEW p \in Requests, ImportEnd(p)
  PROVE  IInv'
<1>1. req[p].want \subseteq txn
  BY GoodAt DEF ImportEnd, Stored
<1>2. QED
  BY <1>1, GoodAt, DoneIs, DoneGood, ReadInv DEF ImportEnd

----------------------------------------------------------------------------
(* The closing save.                                                       *)

(* What a commit of p does to the locals of the requests.                  *)
LEMMA CommittedIs ==
  ASSUME TypeOK, NEW p \in Requests, NEW l \in Locals, Committed(p, l)
  PROVE  /\ req'[p] = l
         /\ req' \in [Requests -> Locals]
         /\ \A q \in Requests \ {p} :
               /\ req'[q].pc = req[q].pc /\ req'[q].kind = req[q].kind
               /\ req'[q].copy = req[q].copy /\ req'[q].answer = req[q].answer
               /\ req'[q].want = req[q].want /\ req'[q].todo = req[q].todo
               /\ req'[q].cur = req[q].cur /\ req'[q].val = req[q].val
               /\ req'[q].pend = req[q].pend
               /\ req[q].over \subseteq req'[q].over
               /\ req[q].pc \notin {"idle", "done"} =>
                     /\ "acct" \notin req'[q].over => acct' = acct
                     /\ "hold" \notin req'[q].over => hold' = hold
<1> DEFINE late == {x \in {"acct", "hold"} :
                       \/ x = "acct" /\ acct' # acct
                       \/ x = "hold" /\ hold' # hold}
<1>1. late \subseteq {"acct", "hold"}
  OBVIOUS
<1>2. /\ "acct" \notin late => acct' = acct
      /\ "hold" \notin late => hold' = hold
  OBVIOUS
<1>3. req' = [q \in Requests |->
                 IF q = p THEN l
                 ELSE IF req[q].pc \in {"idle", "done"} THEN req[q]
                 ELSE [req[q] EXCEPT !.over = @ \cup late]]
  BY DEF Committed
<1> HIDE DEF late
<1>4. ASSUME NEW q \in Requests \ {p}
      PROVE  /\ req'[q] \in Locals
             /\ req'[q].pc = req[q].pc /\ req'[q].kind = req[q].kind
             /\ req'[q].copy = req[q].copy /\ req'[q].answer = req[q].answer
             /\ req'[q].want = req[q].want /\ req'[q].todo = req[q].todo
             /\ req'[q].cur = req[q].cur /\ req'[q].val = req[q].val
             /\ req'[q].pend = req[q].pend
             /\ req[q].over \subseteq req'[q].over
             /\ req[q].pc \notin {"idle", "done"} => late \subseteq req'[q].over
  <2>1. req[q] \in Locals
    BY LocalTypes
  <2>2. CASE req[q].pc \in {"idle", "done"}
    BY <1>3, <2>1, <2>2
  <2>3. CASE req[q].pc \notin {"idle", "done"}
    <3>1. req'[q] = [req[q] EXCEPT !.over = @ \cup late]
      BY <1>3, <2>3
    <3>2. QED
      BY <1>1, <2>1, <3>1 DEF Locals
  <2>4. QED
    BY <2>2, <2>3
<1>5. req'[p] = l /\ req' \in [Requests -> Locals]
  BY <1>3, <1>4
<1>6. QED
  BY <1>2, <1>4, <1>5

(* The others stay as they are, if the rows that they have locked do.      *)
LEMMA OthersGood ==
  ASSUME IInv, NEW p \in Requests, NEW l \in Locals, Committed(p, l),
         txn' = txn, NEW q \in Requests \ {p},
         \A h \in Holdings : req[q].pend[h] # "none" => hold'[h] = hold[h],
         \A h \in Holdings : hold[h] # "none" => hold'[h] # "none"
  PROVE  Good(req[q])'
<1>1. /\ req'[q].pc = req[q].pc /\ req'[q].kind = req[q].kind
      /\ req'[q].copy = req[q].copy /\ req'[q].answer = req[q].answer
      /\ req'[q].want = req[q].want /\ req'[q].todo = req[q].todo
      /\ req'[q].cur = req[q].cur /\ req'[q].val = req[q].val
      /\ req'[q].pend = req[q].pend
      /\ req[q].over \subseteq req'[q].over
      /\ req[q].pc \notin {"idle", "done"} =>
            /\ "acct" \notin req'[q].over => acct' = acct
            /\ "hold" \notin req'[q].over => hold' = hold
  BY CommittedIs, GoodAt
<1>2. /\ InPlace(req[q]) /\ Stored(req[q]) /\ Copied(req[q])
      /\ Looped(req[q]) /\ Reported(req[q]) /\ Exact(req[q])
  BY GoodAt
<1>3. InPlace(req[q])' /\ Looped(req[q])'
  BY <1>1, <1>2 DEF InPlace, Looped
<1>4. Stored(req[q])'
  BY <1>1, <1>2 DEF Stored
<1>5. Copied(req[q])'
  BY <1>1, <1>2 DEF Copied
<1>6. Reported(req[q])'
  <2>1. req[q].kind = "holdings" /\ req[q].pc = "write" =>
           req[q].cur \in Holdings
    BY <1>2 DEF Looped
  <2>2. QED
    BY <1>1, <1>2, <2>1 DEF Reported
<1>7. Exact(req[q])'
  <2>1. SUFFICES ASSUME req[q].pc \in Looping, "hold" \notin req'[q].over
                 PROVE  Exact(req[q])'
    BY <1>1 DEF Exact
  <2>2. hold' = hold /\ "hold" \notin req[q].over
    BY <1>1, <2>1 DEF Looping
  <2>3. QED
    BY <1>1, <1>2, <2>1, <2>2 DEF Exact, Seen
<1>8. QED
  BY <1>3, <1>4, <1>5, <1>6, <1>7 DEF Good

(* The holdings as p leaves them.                                          *)
LEMMA SaveAccountIs ==
  ASSUME IInv, NEW p \in Requests, SaveAccount(p)
  PROVE  /\ req[p] \in Locals /\ Saving(p) /\ UNCHANGED <<txn, file>>
         /\ acct' = req[p].copy /\ acct' \in AccountStates
         /\ hold' \in [Holdings -> HoldingStates]
         /\ \A h \in Holdings : hold'[h] = View(p, h)
         /\ Done(p) \in Locals /\ Committed(p, Done(p))
<1>1. /\ req[p] \in Locals /\ req[p].copy \in AccountStates
      /\ req[p].pend \in [Holdings -> HoldingStates]
      /\ hold \in [Holdings -> HoldingStates] /\ Done(p) \in Locals
  BY GoodAt, LocalTypes, DoneIs
<1>2. \A h \in Holdings : View(p, h) \in HoldingStates
  BY <1>1 DEF View
<1>3. hold' = [h \in Holdings |-> View(p, h)]
  BY DEF SaveAccount
<1>4. QED
  BY <1>1, <1>2, <1>3 DEF SaveAccount, Saved

LEMMA SaveAccountInv ==
  ASSUME IInv, NEW p \in Requests, SaveAccount(p)
  PROVE  IInv'
<1>1. /\ req'[p] = Done(p)
      /\ req' \in [Requests -> Locals]
      /\ \A q \in Requests \ {p} : req'[q].pend = req[q].pend
  BY SaveAccountIs, CommittedIs, GoodAt
<1>2. TypeOK' /\ NeverBlocked'
  <2>1. TypeOK'
    BY <1>1, SaveAccountIs, GoodAt DEF TypeOK
  <2>2. \A h \in Holdings : req[p].pend[h] # "stuck"
    BY SaveAccountIs, GoodAt DEF Saving, InPlace, Looped, Looping
  <2>3. QED
    BY <2>1, <2>2, SaveAccountIs, GoodAt DEF View, NeverBlocked
<1>3. \A h \in Holdings : req'[p].pend[h] = "none"
  BY <1>1, DoneIs, GoodAt
<1>4. Locked'
  BY <1>1, <1>3 DEF IInv, Locked
<1>5. Good(req[p])'
  <2>1. req'[p].pc = "done" /\ req'[p].kind = req[p].kind
        /\ req'[p].want = req[p].want
    BY <1>1, DoneIs, GoodAt
  <2>2. req[p].kind \in {"transactions", "import"} =>
           req[p].want \subseteq txn
    BY SaveAccountIs, GoodAt DEF Saving, Stored
  <2>3. InPlace(req[p])' /\ Copied(req[p])' /\ Looped(req[p])'
    BY <1>3, <2>1 DEF InPlace, Copied, Looped
  <2>4. Stored(req[p])'
    BY <2>1, <2>2, SaveAccountIs DEF Stored
  <2>5. Reported(req[p])' /\ Exact(req[p])'
    BY <1>3, <2>1 DEF Reported, Exact, Looping
  <2>6. QED
    BY <2>3, <2>4, <2>5 DEF Good
<1>6. ASSUME NEW q \in Requests \ {p}
      PROVE  Good(req[q])'
  <2>1. \A h \in Holdings : req[q].pend[h] # "none" => hold'[h] = hold[h]
    BY SaveAccountIs DEF View, IInv, Locked
  <2>2. \A h \in Holdings : hold[h] # "none" => hold'[h] # "none"
    BY SaveAccountIs DEF View
  <2>3. QED
    BY <2>1, <2>2, SaveAccountIs, OthersGood
<1>7. QED
  BY <1>2, <1>4, <1>5, <1>6 DEF IInv

(* An import's save of the account, and its way to the transactions.       *)
LEMMA ImportSaveIs ==
  ASSUME IInv, NEW p \in Requests, ImportSave(p)
  PROVE  /\ req[p] \in Locals /\ req[p].pc = "save"
         /\ req[p].kind = "import"
         /\ acct' \in AccountStates /\ UNCHANGED <<hold, txn, file>>
         /\ \E l \in Locals :
               /\ Committed(p, l)
               /\ l.pc = "fetch" /\ l.kind = "import" /\ l.want = {}
               /\ \A h \in Holdings : l.pend[h] = "none"
<1> DEFINE m == [Idle EXCEPT !.pc = "fetch", !.kind = "import"]
<1>1. /\ req[p] \in Locals /\ req[p].copy \in AccountStates
      /\ m \in Locals /\ m.pend = Idle.pend
  BY GoodAt, LocalTypes, IdleGood DEF Locals, Pcs, Kinds, Idle
<1>2. m.pc = "fetch" /\ m.kind = "import" /\ m.want = {}
  BY DEF Idle
<1>3. \A h \in Holdings : m.pend[h] = "none"
  BY <1>1, IdleGood
<1>4. Committed(p, m)
  BY DEF ImportSave
<1> HIDE DEF m
<1>5. QED
  BY <1>1, <1>2, <1>3, <1>4 DEF ImportSave

LEMMA ImportSaveInv ==
  ASSUME IInv, NEW p \in Requests, ImportSave(p)
  PROVE  IInv'
<1>1. PICK l \in Locals :
         /\ Committed(p, l)
         /\ l.pc = "fetch" /\ l.kind = "import" /\ l.want = {}
         /\ \A h \in Holdings : l.pend[h] = "none"
  BY ImportSaveIs
<1>2. UNCHANGED <<hold, txn, file>> /\ acct' \in AccountStates
  BY ImportSaveIs
<1>3. /\ req'[p] = l /\ req' \in [Requests -> Locals]
      /\ \A q \in Requests \ {p} : req'[q].pend = req[q].pend
  BY <1>1, GoodAt, CommittedIs
<1>4. TypeOK' /\ NeverBlocked'
  BY <1>2, <1>3, GoodAt DEF TypeOK, NeverBlocked
<1>5. Locked'
  BY <1>1, <1>3 DEF IInv, Locked
<1>6. Good(req[p])'
  <2>1. InPlace(req[p])' /\ Copied(req[p])' /\ Looped(req[p])'
    BY <1>1, <1>3 DEF InPlace, Copied, Looped
  <2>2. Stored(req[p])' /\ Reported(req[p])' /\ Exact(req[p])'
    BY <1>1, <1>3 DEF Stored, Reported, Exact
  <2>3. QED
    BY <2>1, <2>2 DEF Good
<1>7. \A q \in Requests \ {p} : Good(req[q])'
  BY <1>1, <1>2, OthersGood
<1>8. QED
  BY <1>4, <1>5, <1>6, <1>7 DEF IInv

----------------------------------------------------------------------------
(* The invariant is inductive.                                             *)

LEMMA StepInv ==
  ASSUME IInv, NEW p \in Requests, StepOf(p)
  PROVE  IInv'
<1>1. CASE \E state \in {"open", "closed"} : AccountsFind(p, state)
  BY <1>1, AccountsFindInv
<1>2. CASE HoldingsStart(p) \/ TransactionsStart(p)
  BY <1>2, StartInv DEF HoldingsStart, TransactionsStart
<1>3. CASE HoldingsFetched(p)
  BY <1>3, HoldingsFetchedInv
<1>4. CASE \E h \in Holdings, report \in Reports \ {"absent"} :
              HoldingFind(p, h, report)
  BY <1>4, HoldingFindInv
<1>5. CASE \E h \in Holdings : ClearSelect(p, h)
  BY <1>5, ClearSelectInv
<1>6. CASE HoldingWrite(p)
  BY <1>6, HoldingWriteInv
<1>7. CASE ListHoldings(p)
  BY <1>7, ListHoldingsInv
<1>8. CASE ClearWrite(p)
  BY <1>8, ClearWriteInv
<1>9. CASE TransactionsFetched(p)
  BY <1>9, TransactionsFetchedInv
<1>10. CASE \E t \in Transactions : TransactionFind(p, t)
  BY <1>10, TransactionFindInv
<1>11. CASE TransactionInsert(p)
  BY <1>11, TransactionInsertInv
<1>12. CASE ImportFind(p) \/ ImportEnd(p)
  BY <1>12, ImportFindInv, ImportEndInv
<1>13. CASE Answer(p) \/ Abandon(p)
  BY <1>13, EndInv DEF Answer, Abandon
<1>14. QED
  BY <1>1, <1>2, <1>3, <1>4, <1>5, <1>6, <1>7, <1>8, <1>9, <1>10, <1>11,
     <1>12, <1>13 DEF StepOf

LEMMA NextInv == IInv /\ [Next]_vars => IInv'
<1> SUFFICES ASSUME IInv, [Next]_vars PROVE IInv'
  OBVIOUS
<1>1. CASE Next
  BY <1>1, Steps, StepInv, SaveAccountInv, ImportSaveInv
<1>2. CASE UNCHANGED vars
  <2>1. UNCHANGED <<acct, hold, txn, file, req>>
    BY <1>2 DEF vars
  <2>2. TypeOK' /\ NeverBlocked' /\ Locked'
    BY <2>1 DEF IInv, TypeOK, NeverBlocked, Locked
  <2>3. ASSUME NEW q \in Requests
        PROVE  Good(req[q])'
    <3>1. /\ InPlace(req[q]) /\ Stored(req[q]) /\ Copied(req[q])
          /\ Looped(req[q]) /\ Reported(req[q]) /\ Exact(req[q])
      BY GoodAt
    <3>2. /\ InPlace(req[q])' /\ Stored(req[q])' /\ Copied(req[q])'
          /\ Looped(req[q])' /\ Reported(req[q])' /\ Exact(req[q])'
      BY <2>1, <3>1 DEF InPlace, Stored, Copied, Looped, Reported, Exact, Seen
    <3>3. QED
      BY <3>2 DEF Good
  <2>4. QED
    BY <2>2, <2>3 DEF IInv
<1>3. QED
  BY <1>1, <1>2

LEMMA Inductive == Spec => []IInv
  BY InitInv, NextInv, PTL DEF Spec

(* Every variable has its type.                                            *)
THEOREM TypeCorrect == Spec => []TypeOK
<1>1. IInv => TypeOK
  BY DEF IInv
<1>2. QED
  BY <1>1, Inductive, PTL

(* No committed row makes list_by_account raise.                           *)
THEOREM AlwaysListed == Spec => []NeverBlocked
<1>1. IInv => NeverBlocked
  BY DEF IInv
<1>2. QED
  BY <1>1, Inductive, PTL

(* A transactions sync, or an import, that answers Success has stored all  *)
(* it was told.                                                            *)
THEOREM NothingIsLost == Spec => []NothingLost
<1>1. IInv => NothingLost
  BY DEF IInv, Good, Stored, NothingLost
<1>2. QED
  BY <1>1, Inductive, PTL

----------------------------------------------------------------------------
(* Which steps store something, and which end a sync.                      *)

LEMMA StepKeeps ==
  ASSUME NEW p \in Requests, StepOf(p)
  PROVE  acct' = acct /\ hold' = hold /\ \E l : Continue(p, l)
<1>1. acct' = acct /\ hold' = hold
  BY DEF StepOf, AccountsFind, HoldingsStart, HoldingsFetched, HoldingFind,
         HoldingWrite, ListHoldings, ClearSelect, ClearWrite,
         TransactionsStart, TransactionsFetched, TransactionFind,
         TransactionInsert, ImportFind, ImportEnd, Answer, Abandon
<1>2. \E l : Continue(p, l)
  BY DEF StepOf, AccountsFind, HoldingsStart, HoldingsFetched, HoldingFind,
         HoldingWrite, ListHoldings, ClearSelect, ClearWrite,
         TransactionsStart, TransactionsFetched, TransactionFind,
         TransactionInsert, ImportFind, ImportEnd, Answer, Abandon
<1>3. QED
  BY <1>1, <1>2

(* A request in a loop goes on in a loop, or gives up.                     *)
LEMMA StepGoesOn ==
  ASSUME IInv, NEW p \in Requests, StepOf(p),
         req[p].pc \in {"save", "clear", "items"}, req[p].kind # "import"
  PROVE  req'[p].pc # "done"
<1>1. req[p] \in Locals /\ req \in [Requests -> Locals]
  BY GoodAt DEF TypeOK
<1>2. ASSUME NEW h \in Holdings, NEW report \in Reports \ {"absent"},
             HoldingFind(p, h, report)
      PROVE  req'[p].pc # "done"
  <2>1. \E l : Continue(p, l) /\ l.pc \in {"items", "write"}
    <3> DEFINE m == [req[p] EXCEPT !.answer[h] = report]
               n == [req[p] EXCEPT !.answer[h] = report, !.pc = "write",
                                   !.cur = h, !.val = View(p, h)]
    <3>1. m.pc = "items" /\ n.pc = "write"
      BY <1>1, <1>2 DEF HoldingFind, Locals
    <3>2. Continue(p, m) \/ Continue(p, n)
      BY <1>2 DEF HoldingFind
    <3> HIDE DEF m, n
    <3>3. QED
      BY <3>1, <3>2
  <2>2. QED
    BY <1>1, <2>1 DEF Continue
<1>3. ASSUME ListHoldings(p) \/ \E h \in Holdings : ClearSelect(p, h)
      PROVE  req'[p].pc # "done"
  <2>1. CASE ListHoldings(p)
    BY <1>1, <2>1 DEF ListHoldings, Continue, Locals
  <2>2. ASSUME NEW h \in Holdings, ClearSelect(p, h)
        PROVE  req'[p].pc # "done"
    BY <1>1, <2>2 DEF ClearSelect, Continue, Locals
  <2>3. QED
    BY <1>3, <2>1, <2>2
<1>4. ASSUME NEW t \in Transactions, TransactionFind(p, t)
      PROVE  req'[p].pc # "done"
  <2>1. CASE t \in txn
    BY <1>1, <1>4, <2>1 DEF TransactionFind, Continue, Locals
  <2>2. CASE t \notin txn
    <3> DEFINE m == [req[p] EXCEPT !.todo = @ \ {t}, !.pc = "write", !.cur = t]
    <3>1. m.pc = "write"
      BY <1>1 DEF Locals
    <3>2. Continue(p, m)
      BY <1>4, <2>2 DEF TransactionFind
    <3> HIDE DEF m
    <3>3. QED
      BY <1>1, <3>1, <3>2 DEF Continue
  <2>3. QED
    BY <2>1, <2>2
<1>5. CASE Abandon(p)
  BY <1>1, <1>5, IdleGood DEF Abandon, Continue
<1>6. QED
  BY <1>2, <1>3, <1>4, <1>5
     DEF StepOf, AccountsFind, HoldingsStart, HoldingsFetched, HoldingWrite,
         ClearWrite, TransactionsStart, TransactionsFetched,
         TransactionInsert, ImportFind, ImportEnd, Answer

(* Only its closing save brings a sync that is at its end to "done".       *)
LEMMA OnlySavesEnd ==
  ASSUME IInv, [Next]_vars, NEW p \in Requests, Saving(p),
         req'[p].pc = "done"
  PROVE  SaveAccount(p)
<1>1. req[p].pc \in {"save", "clear", "items"} /\ req[p].kind # "import"
  BY DEF Saving
<1>2. Next
  BY <1>1 DEF vars
<1>3. PICK q \in Requests : StepOf(q) \/ SaveAccount(q) \/ ImportSave(q)
  BY <1>2, Steps
<1>4. CASE q = p
  BY <1>1, <1>3, <1>4, StepGoesOn, ImportSaveIs
<1>5. CASE q # p
  <2>1. req'[p].pc = req[p].pc
    <3>1. CASE StepOf(q)
      BY <1>5, <3>1, StepKeeps, GoodAt DEF Continue, TypeOK
    <3>2. CASE SaveAccount(q)
      BY <1>5, <3>2, SaveAccountIs, CommittedIs, GoodAt
    <3>3. CASE ImportSave(q)
      BY <1>5, <3>3, ImportSaveIs, CommittedIs, GoodAt
    <3>4. QED
      BY <1>3, <3>1, <3>2, <3>3
  <2>2. QED
    BY <1>1, <2>1
<1>6. QED
  BY <1>4, <1>5

(* Only a closing save stores anything of the holdings.                    *)
LEMMA OnlySavesStore ==
  ASSUME IInv, [Next]_vars, hold' # hold
  PROVE  \E p \in Requests : /\ SaveAccount(p)
                             /\ Saving(p)
                             /\ req'[p].pc = "done"
<1>1. Next
  BY DEF vars
<1>2. PICK p \in Requests : StepOf(p) \/ SaveAccount(p) \/ ImportSave(p)
  BY <1>1, Steps
<1>3. SaveAccount(p)
  BY <1>2, StepKeeps, ImportSaveIs
<1>4. Saving(p) /\ req'[p] = Done(p)
  BY <1>3, SaveAccountIs, CommittedIs, GoodAt
<1>5. QED
  BY <1>3, <1>4, DoneIs, GoodAt

(* The holdings change only at the end of a sync, and then, unless another *)
(* one was committed since the provider answered, to what it reported, but *)
(* for the rows with a negative quantity, which stay.                      *)
THEOREM PortfolioReplaced == Spec => ReplacedAsAWhole
<1> DEFINE Ends(p) == Saving(p) /\ req'[p].pc = "done"
           Alone(p) == /\ req[p].kind = "holdings"
                       /\ Saving(p)
                       /\ req'[p].pc = "done"
                       /\ "hold" \notin req[p].over
           A == /\ hold' # hold => \E p \in Requests : Ends(p)
                /\ \A p \in Requests :
                      Alone(p) => hold' = [h \in Holdings |->
                                          Result(req[p].answer[h], hold[h])]
<1>1. ASSUME IInv, [Next]_vars, hold' # hold
      PROVE  \E p \in Requests : Ends(p)
  BY <1>1, OnlySavesStore
<1>2. ASSUME IInv, [Next]_vars, NEW p \in Requests, Alone(p)
      PROVE  hold' = [h \in Holdings |-> Result(req[p].answer[h], hold[h])]
  <2>1. SaveAccount(p)
    BY <1>2, OnlySavesEnd
  <2>2. req[p].pc = "clear" /\ req[p].todo = {}
    BY <1>2 DEF Saving
  <2>3. \A h \in Holdings : View(p, h) = Result(req[p].answer[h], hold[h])
    BY <1>2, <2>2, GoodAt DEF Exact, Looping, View, Seen
  <2>4. hold' = [h \in Holdings |-> View(p, h)]
    BY <2>1 DEF SaveAccount
  <2>5. QED
    BY <2>3, <2>4
<1>3. IInv /\ [Next]_vars => [A]_vars
  BY <1>1, <1>2
<1>4. QED
  BY <1>3, Inductive, PTL DEF Spec, ReplacedAsAWhole

(* A position is closed only by a sync whose answer did not hold it and    *)
(* opened only by one whose answer did, and a quantity is made negative    *)
(* only by one that was told of a short sale.                              *)
THEOREM AsReported == Spec => OnlyAsReported
<1> DEFINE By(p, h) ==
              /\ req[p].kind = "holdings"
              /\ Saving(p)
              /\ req'[p].pc = "done"
              /\ hold[h] = "none" \/ Active(hold[h]) =>
                    Active(hold'[h]) \/ req[p].answer[h] \in {"absent", "short"}
              /\ ~Active(hold[h]) /\ Active(hold'[h]) =>
                    req[p].answer[h] = "held"
              /\ ~Negative(hold[h]) /\ Negative(hold'[h]) =>
                    req[p].answer[h] = "short"
           A == \A h \in Holdings : hold'[h] # hold[h] =>
                   \E p \in Requests : By(p, h)
<1>1. ASSUME IInv, [Next]_vars, NEW h \in Holdings, hold'[h] # hold[h]
      PROVE  \E p \in Requests : By(p, h)
  <2>1. PICK p \in Requests : /\ SaveAccount(p)
                              /\ Saving(p)
                              /\ req'[p].pc = "done"
    BY <1>1, OnlySavesStore
  <2>2. hold'[h] = req[p].pend[h] /\ req[p].pend[h] \notin {"none", hold[h]}
    BY <1>1, <2>1, SaveAccountIs DEF View
  <2>3. req[p].kind = "holdings"
    BY <1>1, <2>2, GoodAt DEF InPlace
  <2>4. Asked(req[p].answer[h], hold[h], hold'[h])
    BY <1>1, <2>2, GoodAt DEF Reported
  <2>5. QED
    BY <2>1, <2>3, <2>4 DEF Asked, Active, Negative
<1>2. IInv /\ [Next]_vars => [A]_vars
  BY <1>1
<1>3. QED
  BY <1>2, Inductive, PTL DEF Spec, OnlyAsReported

(* A sync of holdings or transactions opens or closes the account only if  *)
(* the account was committed while it ran.                                 *)
THEOREM NotReopened == Spec => ReopenedOnlyByOverlap
<1> DEFINE Reopens(p) == /\ Saving(p)
                         /\ req'[p].pc = "done"
                         /\ acct' # acct
                         /\ req[p].kind # "accounts"
           A == \A p \in Requests : Reopens(p) => "acct" \in req[p].over
<1>1. ASSUME IInv, [Next]_vars, NEW p \in Requests, Reopens(p)
      PROVE  "acct" \in req[p].over
  <2>1. acct' = req[p].copy
    BY <1>1, OnlySavesEnd, SaveAccountIs
  <2>2. /\ req[p].kind \in {"holdings", "transactions"}
        /\ req[p].pc \in {"clear", "items"}
    BY <1>1 DEF Saving
  <2>3. QED
    BY <1>1, <2>1, <2>2, GoodAt DEF Copied
<1>2. IInv /\ [Next]_vars => [A]_vars
  BY <1>1
<1>3. QED
  BY <1>2, Inductive, PTL DEF Spec, ReopenedOnlyByOverlap
=============================================================================
