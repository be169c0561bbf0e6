---------------------------- MODULE AccountSync ----------------------------
(***************************************************************************)
(* One account of a provider connection: its row, its holdings and its     *)
(* transactions, as overlapping synchronisations write them, or, if the    *)
(* connection is one of file imports, overlapping imports: no sync can     *)
(* decrypt the credentials of such a connection.                           *)
(*                                                                         *)
(* Account and transaction saves commit; a holding save only flushes, so   *)
(* that all holdings of a sync are committed with the account's save at    *)
(* its end.  Until then the rows it wrote are locked.  An UPDATE names     *)
(* only the columns that differ from the row as the save selected it.      *)
(* When a statement fails the session refuses everything that follows: the *)
(* remaining items are counted as errors, the closing save raises and the  *)
(* request ends with what it had committed, which is Abandon.  The guards  *)
(* before the provider is asked are those of ProviderConnection's SyncFind *)
(* (and the interval between syncs, which "force" lifts).                  *)
(***************************************************************************)
CONSTANTS
    Holdings,      \* provider_holding_ids
    Transactions,  \* provider_transaction_ids
    Requests       \* concurrent requests

ASSUME ItemsAssumption == Holdings \cap Transactions = {}

VARIABLES
    acct,  \* accounts.is_active of the row
    hold,  \* each row of holdings: is_active and the sign of quantity
    txn,   \* the transactions that have a row
    file,  \* whether the account's connection is one of file imports
    req    \* locals of each request

vars == <<acct, hold, txn, file, req>>

AccountStates == {"none", "open", "closed"}

(* A row whose quantity is negative is "short", or, if is_active says that *)
(* the position is open, "stuck".  No entity can be made of either.        *)
HoldingStates == {"none", "active", "inactive", "short", "stuck"}
Active(row) == row \in {"active", "stuck"}
Negative(row) == row \in {"short", "stuck"}

(* What the provider says of a position: not there, held, or sold short,   *)
(* of which the mappers make a negative quantity.  They leave out one with *)
(* no quantity and give an unknown asset type the type "other".            *)
Reports == {"absent", "held", "short"}

Kinds == {"none", "accounts", "holdings", "transactions", "import"}
Pcs == {"idle", "fetch", "items", "write", "clear", "clearWrite", "save",
        "done"}

(* copy: the account entity.  answer: as far as the loop has read it.      *)
(* todo: items of the loop.  val: the row as selected.  pend: flushed,     *)
(* uncommitted; "none" for a row not written.  over (history): what        *)
(* another request has committed since this one read it.                   *)
Locals == [pc : Pcs, kind : Kinds, copy : AccountStates,
           answer : [Holdings -> Reports], want : SUBSET Transactions,
           todo : SUBSET (Holdings \cup Transactions),
           cur : Holdings \cup Transactions \cup {"none"},
           val : HoldingStates, pend : [Holdings -> HoldingStates],
           over : SUBSET {"acct", "hold"}]

NoAnswer == [h \in Holdings |-> "absent"]
Unwritten == [h \in Holdings |-> "none"]
Idle == [pc |-> "idle", kind |-> "none", copy |-> "none", answer |-> NoAnswer,
         want |-> {}, todo |-> {}, cur |-> "none", val |-> "none",
         pend |-> Unwritten, over |-> {}]

Init ==
    /\ acct = "none"
    /\ hold = [h \in Holdings |-> "none"]
    /\ txn = {}
    /\ file \in BOOLEAN
    /\ req = [p \in Requests |-> Idle]

Continue(p, l) == req' = [req EXCEPT ![p] = l]

Done(p) == [Idle EXCEPT !.pc = "done", !.kind = req[p].kind,
                        !.want = req[p].want]

(* p goes on as l, and what it commits overtakes the others.               *)
Committed(p, l) ==
    req' = [q \in Requests |->
               IF q = p THEN l
               ELSE IF req[q].pc \in {"idle", "done"} THEN req[q]
               ELSE [req[q] EXCEPT
                        !.over = @ \cup {x \in {"acct", "hold"} :
                                           \/ x = "acct" /\ acct' # acct
                                           \/ x = "hold" /\ hold' # hold}]]

(* What the session of p reads of a holding, and who else has it locked.   *)
View(p, h) == IF req[p].pend[h] = "none" THEN hold[h] ELSE req[p].pend[h]
Lockers(p, h) == {q \in Requests \ {p} : req[q].pend[h] # "none"}

----------------------------------------------------------------------------
(* SyncAccountsHandler: fetch, then an upsert of each account.             *)

(* _update_account_from_provider_data may find nothing to change.          *)
AccountsFind(p, state) ==
    /\ req[p].pc = "idle"
    /\ ~file
    /\ \/ Continue(p, [Idle EXCEPT !.pc = "save", !.kind = "accounts",
                                   !.copy = state,
                                   !.val = IF acct = "none" THEN "none"
                                           ELSE "active"])
       \/ /\ acct = state
          /\ Continue(p, [Idle EXCEPT !.pc = "done", !.kind = "accounts"])
    /\ UNCHANGED <<acct, hold, txn, file>>

----------------------------------------------------------------------------
(* SyncHoldingsHandler.                                                    *)

HoldingsStart(p) ==
    /\ req[p].pc = "idle"
    /\ ~file
    /\ acct # "none"
    /\ Continue(p, [Idle EXCEPT !.pc = "fetch", !.kind = "holdings",
                                !.copy = acct])
    /\ UNCHANGED <<acct, hold, txn, file>>

(* The provider's answer; from here on the holdings are read.              *)
HoldingsFetched(p) ==
    /\ req[p].pc = "fetch"
    /\ req[p].kind = "holdings"
    /\ Continue(p, [req[p] EXCEPT !.pc = "items", !.over = @ \ {"hold"}])
    /\ UNCHANGED <<acct, hold, txn, file>>

(* The next position of the answer: find_by_provider_holding_id and the    *)
(* SELECT of save.  The find raises if the row's quantity is negative, a   *)
(* new entity if the reported one is: an error is counted and the loop     *)
(* goes on.                                                                *)
HoldingFind(p, h, report) ==
    /\ req[p].pc = "items"
    /\ req[p].kind = "holdings"
    /\ req[p].answer[h] = "absent"
    /\ Continue(p, IF \/ Negative(View(p, h))
                      \/ View(p, h) = "none" /\ report = "short"
                   THEN [req[p] EXCEPT !.answer[h] = report]
                   ELSE [req[p] EXCEPT !.answer[h] = report, !.pc = "write",
                                       !.cur = h, !.val = View(p, h)])
    /\ UNCHANGED <<acct, hold, txn, file>>

(* update_from_sync takes the quantity over: is_active says quantity > 0.  *)
Updated(report) == IF report = "short" THEN "short" ELSE "active"

(* What an UPDATE of the row, now as it is, to new may leave: is_active is *)
(* written only if it differs from the row as selected, the quantity, of   *)
(* which val and new tell the sign alone, if it does.                      *)
Overwritten(val, new, now) ==
    {x \in HoldingStates \ {"none"} :
       /\ Active(x) <=> IF Active(val) <=> Active(new) THEN Active(now)
                        ELSE Active(new)
       /\ \/ Negative(x) <=> Negative(new)
          \/ /\ Negative(val) <=> Negative(new)
             /\ Negative(x) <=> Negative(now)}

(* Mutant: each holding's save commits.                                    *)
HoldingCommit(p) ==
    LET h == req[p].cur IN
    /\ req[p].pc = "write"
    /\ h \in Holdings
    /\ Lockers(p, h) = {}
    /\ req[p].val = "none" => hold[h] = "none"
    /\ hold' = [hold EXCEPT ![h] = IF req[p].val = "none" THEN "active"
                                   ELSE Updated(req[p].answer[h])]
    /\ Committed(p, [req[p] EXCEPT !.pc = "items"])
    /\ UNCHANGED <<acct, txn, file>>

(* The INSERT of a new holding, or the UPDATE of one that is there.  It    *)
(* waits for the row's lock.                                               *)
HoldingWrite(p) ==
    LET h == req[p].cur
        new == Updated(req[p].answer[h]) IN
    /\ req[p].pc = "write"
    /\ h \in Holdings
    /\ Lockers(p, h) = {}
    /\ \E x \in IF req[p].val = "none" THEN {"active"}
              ELSE Overwritten(req[p].val, new, View(p, h)) :
          /\ req[p].val = "none" => hold[h] = "none"
          /\ Continue(p, [req[p] EXCEPT !.pc = "items", !.val = "none",
                                        !.cur = "none", !.pend[h] = x])
    /\ UNCHANGED <<acct, hold, txn, file>>

(* Mutant: a holding just created is not remembered as seen.               *)
UnseenUpdated(p) ==
    {h \in Holdings : /\ Active(View(p, h))
                      /\ ~(req[p].answer[h] # "absent" /\ hold[h] # "none")}

(* list_by_account, active ones only, without those in the answer.         *)
Unseen(p) ==
    {h \in Holdings : Active(View(p, h)) /\ req[p].answer[h] = "absent"}

(* Mutant: rows that no entity can be made of are passed over.             *)
ListReadable(p) ==
    /\ req[p].pc = "items"
    /\ req[p].kind = "holdings"
    /\ Continue(p, [req[p] EXCEPT !.pc = "clear",
                                  !.todo = {h \in Unseen(p) :
                                              ~Negative(View(p, h))}])
    /\ UNCHANGED <<acct, hold, txn, file>>

(* A row that is active with a negative quantity makes list_by_account     *)
(* raise, and with it the sync: nothing but Abandon is left.               *)
ListHoldings(p) ==
    /\ req[p].pc = "items"
    /\ req[p].kind = "holdings"
    /\ \A h \in Holdings : View(p, h) # "stuck"
    /\ Continue(p, [req[p] EXCEPT !.pc = "clear", !.todo = Unseen(p)])
    /\ UNCHANGED <<acct, hold, txn, file>>

ClearSelect(p, h) ==
    /\ req[p].pc = "clear"
    /\ h \in req[p].todo
    /\ Continue(p, [req[p] EXCEPT !.todo = @ \ {h}, !.pc = "clearWrite",
                                  !.cur = h, !.val = View(p, h)])
    /\ UNCHANGED <<acct, hold, txn, file>>

ClearWrite(p) ==
    LET h == req[p].cur IN
    /\ req[p].pc = "clearWrite"
    /\ Lockers(p, h) = {}
    /\ \E x \in Overwritten(req[p].val, "inactive", View(p, h)) :
          Continue(p, [req[p] EXCEPT !.pc = "clear", !.val = "none",
                                     !.cur = "none", !.pend[h] = x])
    /\ UNCHANGED <<acct, hold, txn, file>>

----------------------------------------------------------------------------
(* SyncTransactionsHandler.                                                *)

(* One account by its id, whatever its state, or the connection's active   *)
(* accounts.                                                               *)
TransactionsStart(p) ==
    /\ req[p].pc = "idle"
    /\ ~file
    /\ acct # "none"
    /\ Continue(p, [Idle EXCEPT !.pc = "fetch", !.kind = "transactions",
                                !.copy = acct])
    /\ UNCHANGED <<acct, hold, txn, file>>

(* The provider's transactions, or the file's.  If the provider fails, the *)
(* account is skipped and not saved.  want: the transactions an entity can *)
(* be made of; one in an unknown currency is counted as an error and left  *)
(* out here, or, in a file, ends the import.                               *)
TransactionsFetched(p) ==
    /\ req[p].pc = "fetch"
    /\ req[p].kind \in {"transactions", "import"}
    /\ \/ \E ts \in SUBSET Transactions :
             Continue(p, [req[p] EXCEPT !.pc = "items", !.want = ts,
                                        !.todo = ts])
       \/ Continue(p, Done(p))
    /\ UNCHANGED <<acct, hold, txn, file>>

(* A transaction that is there is left as it is.                           *)
TransactionFind(p, t) ==
    /\ req[p].pc = "items"
    /\ t \in req[p].todo
    /\ IF t \in txn
       THEN Continue(p, [req[p] EXCEPT !.todo = @ \ {t}])
       ELSE Continue(p, [req[p] EXCEPT !.todo = @ \ {t}, !.pc = "write",
                                       !.cur = t])
    /\ UNCHANGED <<acct, hold, txn, file>>

(* Mutant: a duplicate key ends the loop and the request goes on.          *)
TransactionInsertOrStop(p) ==
    /\ req[p].pc = "write"
    /\ req[p].cur \in Transactions
    /\ txn' = txn \cup {req[p].cur}
    /\ Continue(p, [req[p] EXCEPT !.pc = "items", !.cur = "none",
                                  !.todo = IF req[p].cur \in txn THEN {}
                                           ELSE @])
    /\ UNCHANGED <<acct, hold, file>>

(* The INSERT commits; the unique index refuses a second row.              *)
TransactionInsert(p) ==
    /\ req[p].pc = "write"
    /\ req[p].cur \in Transactions \ txn
    /\ txn' = txn \cup {req[p].cur}
    /\ Continue(p, [req[p] EXCEPT !.pc = "items", !.cur = "none"])
    /\ UNCHANGED <<acct, hold, file>>

----------------------------------------------------------------------------
(* ImportFromFileHandler: the account first, then TransactionsFetched and  *)
(* the loop over the file's transactions, of which nothing is swallowed.   *)
(* Its last save is that of the connection.                                *)

(* An account in a file is an open one.                                    *)
ImportFind(p) ==
    /\ req[p].pc = "idle"
    /\ file
    /\ Continue(p, [Idle EXCEPT !.pc = "save", !.kind = "import",
                                !.copy = IF acct = "none" THEN "open"
                                         ELSE acct,
                                !.val = IF acct = "none" THEN "none"
                                        ELSE "active"])
    /\ UNCHANGED <<acct, hold, txn, file>>

ImportSave(p) ==
    /\ req[p].pc = "save"
    /\ req[p].kind = "import"
    /\ req[p].val = "none" => acct = "none"
    /\ acct' = req[p].copy
    /\ UNCHANGED <<hold, txn, file>>
    /\ Committed(p, [Idle EXCEPT !.pc = "fetch", !.kind = "import"])

ImportEnd(p) ==
    /\ req[p].pc = "items"
    /\ req[p].kind = "import"
    /\ req[p].todo = {}
    /\ Continue(p, Done(p))
    /\ UNCHANGED <<acct, hold, txn, file>>

----------------------------------------------------------------------------
(* Mutant: a synchronised account counts as active again.                  *)
SavedOpen(p) == IF req[p].kind = "accounts" THEN req[p].copy ELSE "open"

(* Mutant: an account that is there is stored as it was selected.          *)
SavedSelected(p) == IF req[p].val = "none" THEN req[p].copy ELSE req[p].val

(* mark_synced only stamps the entity that was read at the beginning.      *)
Saved(p) == req[p].copy

(* The loops are over.                                                     *)
Saving(p) ==
    CASE req[p].kind = "accounts" -> req[p].pc = "save"
      [] req[p].kind = "holdings" -> req[p].pc = "clear" /\ req[p].todo = {}
      [] req[p].kind = "transactions" ->
            req[p].pc = "items" /\ req[p].todo = {}
      [] OTHER -> FALSE

(* AccountRepository.save, which commits the holdings flushed before.  An  *)
(* account that another sync created meanwhile cannot be created again.    *)
SaveAccount(p) ==
    /\ Saving(p)
    /\ req[p].kind = "accounts" /\ req[p].val = "none" => acct = "none"
    /\ acct' = Saved(p)
    /\ hold' = [h \in Holdings |-> View(p, h)]
    /\ Committed(p, Done(p))
    /\ UNCHANGED <<txn, file>>

(* The Succeeded event and the answer.                                     *)
Answer(p) ==
    /\ req[p].pc = "done"
    /\ Continue(p, Idle)
    /\ UNCHANGED <<acct, hold, txn, file>>

(* An exception, a failed statement, a lock wait that PostgreSQL ends      *)
(* because it is a deadlock, or a crash: what was flushed is rolled back.  *)
Abandon(p) ==
    /\ req[p].pc \notin {"idle", "done"}
    /\ Continue(p, Idle)
    /\ UNCHANGED <<acct, hold, txn, file>>

Next ==
    \E p \in Requests :
       \/ \E state \in {"open", "closed"} : AccountsFind(p, state)
       \/ HoldingsStart(p)
       \/ HoldingsFetched(p)
       \/ \E h \in Holdings :
             \/ \E report \in Reports \ {"absent"} : HoldingFind(p, h, report)
             \/ ClearSelect(p, h)
       \/ HoldingWrite(p)
       \/ ListHoldings(p)
       \/ ClearWrite(p)
       \/ TransactionsStart(p)
       \/ TransactionsFetched(p)
       \/ \E t \in Transactions : TransactionFind(p, t)
       \/ TransactionInsert(p)
       \/ ImportFind(p)
       \/ ImportSave(p)
       \/ ImportEnd(p)
       \/ SaveAccount(p)
       \/ Answer(p)
       \/ Abandon(p)

Spec == Init /\ [][Next]_vars

----------------------------------------------------------------------------
(* Every variable has its type.                                            *)
TypeOK ==
    /\ acct \in AccountStates
    /\ hold \in [Holdings -> HoldingStates]
    /\ txn \in SUBSET Transactions
    /\ file \in BOOLEAN
    /\ req \in [Requests -> Locals]

(* What a sync makes of a row that nobody else touches.                    *)
Result(report, now) ==
    IF Negative(now) THEN now
    ELSE IF now = "none" THEN IF report = "held" THEN "active" ELSE "none"
    ELSE IF report = "absent" THEN "inactive"
    ELSE Updated(report)

(* The portfolio of an account is replaced as a whole: the holdings change *)
(* only when a sync comes to its end, and then, unless another holdings    *)
(* sync was committed since this one was answered, to what the provider    *)
(* reported, but for the rows with a negative quantity: what it reports of *)
(* those is never stored.  A sync that dies halfway leaves no trace.       *)
ReplacedAsAWhole ==
    [][/\ hold' # hold =>
             \E p \in Requests : Saving(p) /\ req'[p].pc = "done"
       /\ \A p \in Requests :
             /\ req[p].kind = "holdings"
             /\ Saving(p)
             /\ req'[p].pc = "done"
             /\ "hold" \notin req[p].over
             => hold' = [h \in Holdings |->
                            Result(req[p].answer[h], hold[h])]]_vars

(* Even when syncs overlap, a position is closed only by one whose answer  *)
(* did not hold it and opened only by one whose answer did, and only a     *)
(* sync that was told of a short sale makes a quantity negative.  A row is *)
(* new as an open one.                                                     *)
OnlyAsReported ==
    [][\A h \in Holdings : hold'[h] # hold[h] =>
          \E p \in Requests :
             /\ req[p].kind = "holdings"
             /\ Saving(p)
             /\ req'[p].pc = "done"
             /\ hold[h] = "none" \/ Active(hold[h]) =>
                   Active(hold'[h]) \/ req[p].answer[h] \in {"absent", "short"}
             /\ ~Active(hold[h]) /\ Active(hold'[h]) =>
                   req[p].answer[h] = "held"
             /\ ~Negative(hold[h]) /\ Negative(hold'[h]) =>
                   req[p].answer[h] = "short"]_vars

(* No committed row makes list_by_account raise, which would end every     *)
(* later sync of the account: a row that the UPDATEs of overlapping syncs  *)
(* leave active with a negative quantity is seen by the sync that wrote    *)
(* it, before its end.                                                     *)
NeverBlocked == \A h \in Holdings : hold[h] # "stuck"

(* A transactions sync that answers Success has stored every well-formed   *)
(* transaction the provider reported, and an import every one of its file, *)
(* also when another request stored some of them first.                    *)
NothingLost ==
    \A p \in Requests :
        req[p].kind \in {"transactions", "import"} /\ req[p].pc = "done" =>
            req[p].want \subseteq txn

(* A sync of holdings or transactions opens or closes the account only     *)
(* when an account was committed while it ran: its closing save writes     *)
(* back the whole entity that it read at the beginning.                    *)
ReopenedOnlyByOverlap ==
    [][\A p \in Requests :
          /\ Saving(p)
          /\ req'[p].pc = "done"
          /\ acct' # acct
          /\ req[p].kind # "accounts"
          => "acct" \in req[p].over]_vars
=============================================================================
