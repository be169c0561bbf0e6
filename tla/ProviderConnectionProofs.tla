---------------------- MODULE ProviderConnectionProofs ----------------------
(***************************************************************************)
(* What ProviderConnection guarantees for any number of connections, OAuth *)
(* states and requests, with or without Redis failures.                    *)
(***************************************************************************)
EXTENDS ProviderConnection, TLAPS

USE ConnectionsAssumption, FileAssumption, RedisAssumption

Sources == States \cup {"file"}

(* Steps without a parameter p of their own, and those of request p.       *)
StepOf(p) ==
    \/ \E st \in States : CallbackRead(p, st)
    \/ CallbackDelete(p)
    \/ Insert(p)
    \/ ImportLook(p)
    \/ SyncSave(p)
    \/ DisconnectSave(p)
    \/ GetFill(p)
    \/ Abandon(p)
    \/ \E c \in Connections :
          SyncFind(p, c) \/ DisconnectFind(p, c) \/ GetMiss(p, c)

LEMMA Steps ==
  ASSUME Next
  PROVE  \/ \E st \in States : Initiate(st) \/ StateExpires(st)
         \/ \E c \in Connections : CacheExpires(c)
         \/ \E p \in Requests : StepOf(p)
  BY DEF Next, StepOf

----------------------------------------------------------------------------
(* Type correctness, and that there are connections at all.                *)

LEMMA RowTypes ==
  /\ \A x \in Sources : ActiveFrom(x) \in Rows /\ ActiveFrom(x) # NoRow
  /\ \A r \in Rows \cup {NoRow} : Disconnected(r).from = r.from
  /\ \A r \in Rows : Disconnected(r) \in Rows /\ r # NoRow
  /\ NoRow.from \notin Sources
  /\ \A r \in Rows : r.from \in Sources
<1>1. \A x \in Sources : ActiveFrom(x) \in Rows
  BY DEF ActiveFrom, Rows, Sources
<1>2. \A r \in Rows : r # NoRow /\ r.from \in Sources /\ NoRow.from \notin Sources
  BY DEF Rows, NoRow, Sources
<1>3. \A r \in Rows \cup {NoRow} : Disconnected(r).from = r.from
  BY DEF Rows, NoRow, Disconnected
<1>4. \A r \in Rows : Disconnected(r) \in Rows
  BY DEF Rows, Disconnected
<1>5. NoRow.from \notin Sources
  BY DEF NoRow, Sources
<1>6. QED
  BY <1>1, <1>2, <1>3, <1>4, <1>5

LEMMA LoadedTypes ==
  ASSUME NEW c \in Connections
  PROVE  /\ Idle \in Locals
         /\ \A pc \in Pcs, r \in Rows \cup {NoRow} : Loaded(pc, c, r) \in Locals
<1>1. AnyConnection \in Connections
  BY DEF AnyConnection
<1>2. QED
  BY <1>1 DEF Idle, Locals, Pcs, Loaded

(* A step of p replaces the locals of p and may mark others as raced.      *)
LEMMA OvertakeTypes ==
  ASSUME req \in [Requests -> Locals], NEW p \in Requests,
         NEW l \in Locals, NEW others, Overtake(p, l, others)
  PROVE  req' \in [Requests -> Locals]
<1>1. ASSUME NEW q \in Requests
      PROVE  [req[q] EXCEPT !.raced = TRUE] \in Locals
  <2>1. req[q] \in Locals
    OBVIOUS
  <2>2. QED
    BY <2>1 DEF Locals
<1>2. QED
  BY <1>1 DEF Overtake

(* What p writes, and what is left of the others' locals.                  *)
LEMMA OvertakeEffect ==
  ASSUME req \in [Requests -> Locals], NEW p \in Requests,
         NEW l \in Locals, NEW others, Overtake(p, l, others)
  PROVE  /\ req'[p] = l
         /\ \A q \in Requests \ {p} :
               /\ req'[q].pc = req[q].pc
               /\ req'[q].conn = req[q].conn
               /\ req'[q].copy = req[q].copy
               /\ req'[q].from = req[q].from
               /\ req'[q].raced = (req[q].raced \/ q \in others)
<1>1. req'[p] = l
  BY DEF Overtake
<1>2. ASSUME NEW q \in Requests \ {p}
      PROVE  /\ req'[q].pc = req[q].pc
             /\ req'[q].conn = req[q].conn
             /\ req'[q].copy = req[q].copy
             /\ req'[q].from = req[q].from
             /\ req'[q].raced = (req[q].raced \/ q \in others)
  <2>1. req[q] \in Locals
    OBVIOUS
  <2>2. CASE q \in others
    BY <2>1, <2>2 DEF Overtake, Locals
  <2>3. CASE q \notin others
    BY <2>1, <2>3 DEF Overtake, Locals
  <2>4. QED
    BY <2>2, <2>3
<1>3. QED
  BY <1>1, <1>2

----------------------------------------------------------------------------
(* The inductive invariant.                                                *)

Loading == {"sync", "disconnect"}
Looking == {"delete", "insert"}
PairedRow(r) == (r.status = "active") <=> r.creds
Made(x) == \E c \in Connections : row[c].from = x
Dead == {"kept", "gone"}

(* What was loaded is a row; it has the source of the row it was loaded    *)
(* from, and is that row unless the request was raced.                     *)
LoadedInv ==
    \A p \in Requests : req[p].pc \in Loading =>
        /\ req[p].copy \in Rows
        /\ row[req[p].conn].from = req[p].copy.from
        /\ ~req[p].raced => row[req[p].conn] = req[p].copy

(* Status and credentials agree, also in the copies under way.             *)
PairedInv ==
    /\ \A c \in Connections : PairedRow(row[c]) /\ PairedRow(cached[c])
    /\ \A p \in Requests : PairedRow(req[p].copy)

(* A request about to create a connection found none, unless it was raced; *)
(* a state that made one is not readable as fresh any more.                *)
LookedInv ==
    \A p \in Requests :
        /\ req[p].pc \in Looking /\ ~req[p].raced => ~Made(req[p].from)
        /\ req[p].pc = "delete" => req[p].from \in States
        /\ req[p].pc = "insert" /\ req[p].from \in States =>
              oauth[req[p].from] \in Dead
SpentInv == \A st \in States : Made(st) => oauth[st] \in Dead

IInv == TypeOK /\ LoadedInv /\ PairedInv /\ LookedInv /\ SpentInv

LEMMA InitInv == Init => IInv
<1> SUFFICES ASSUME Init PROVE IInv
  OBVIOUS
<1>1. Idle \in Locals
  BY LoadedTypes
<1>2. TypeOK
  BY <1>1 DEF Init, TypeOK, OauthStates
<1>3. LoadedInv /\ LookedInv
  BY DEF Init, Idle, LoadedInv, LookedInv, Loading, Looking
<1>4. PairedInv
  BY DEF Init, Idle, PairedInv, PairedRow, NoRow
<1>5. SpentInv
  BY RowTypes DEF Init, SpentInv, Made, Sources
<1>6. QED
  BY <1>2, <1>3, <1>4, <1>5 DEF IInv

----------------------------------------------------------------------------
(* Steps that leave the rows alone.                                        *)

LEMMA SkipInv ==
  ASSUME IInv, NEW p \in Requests, UNCHANGED <<row, oauth>>,
         cached' \in [Connections -> Rows \cup {NoRow}],
         \A c \in Connections : PairedRow(cached'[c]),
         NEW l \in Locals, Continue(p, l),
         l.pc \in Loading => l.copy \in Rows /\ l.copy = row[l.conn],
         PairedRow(l.copy),
         l.pc \in Looking /\ ~l.raced => ~Made(l.from),
         l.pc = "delete" => l.from \in States,
         l.pc = "insert" /\ l.from \in States => oauth[l.from] \in Dead
  PROVE  IInv'
<1>1. /\ Overtake(p, l, {})
      /\ req \in [Requests -> Locals]
  BY DEF Continue, IInv, TypeOK
<1>2. TypeOK'
  BY <1>1, OvertakeTypes DEF IInv, TypeOK
<1>3. /\ req'[p] = l
      /\ \A q \in Requests \ {p} :
            /\ req'[q].pc = req[q].pc
            /\ req'[q].conn = req[q].conn
            /\ req'[q].copy = req[q].copy
            /\ req'[q].from = req[q].from
            /\ req'[q].raced = (req[q].raced \/ q \in {})
  BY <1>1, OvertakeEffect
<1>4. \A x : Made(x)' <=> Made(x)
  BY DEF Made
<1>5. LoadedInv'
  BY <1>3 DEF IInv, LoadedInv
<1>6. PairedInv'
  BY <1>3 DEF IInv, PairedInv, PairedRow
<1>7. LookedInv' /\ SpentInv'
  BY <1>3, <1>4 DEF IInv, LookedInv, SpentInv
<1>8. QED
  BY <1>2, <1>5, <1>6, <1>7 DEF IInv

LEMMA LoadInv ==
  ASSUME IInv, NEW p \in Requests, NEW c \in Connections, NEW pc \in Pcs,
         pc \notin Looking, row[c] # NoRow,
         Continue(p, Loaded(pc, c, row[c])), UNCHANGED <<row, cached, oauth>>
  PROVE  IInv'
<1> DEFINE l == Loaded(pc, c, row[c])
<1>1. row[c] \in Rows /\ cached \in [Connections -> Rows \cup {NoRow}]
  BY DEF IInv, TypeOK
<1>2. l \in Locals
  BY <1>1, LoadedTypes
<1>3. l.pc = pc /\ l.conn = c /\ l.copy = row[c]
  BY DEF Loaded, Idle
<1>4. PairedRow(l.copy) /\ \A d \in Connections : PairedRow(cached[d])
  BY <1>3 DEF IInv, PairedInv
<1> HIDE DEF l
<1>5. Continue(p, l)
  BY DEF l
<1>6. QED
  BY <1>1, <1>2, <1>3, <1>4, <1>5, SkipInv DEF Looking

LEMMA IdleInv ==
  ASSUME IInv, NEW p \in Requests, Continue(p, Idle), UNCHANGED <<row, oauth>>,
         cached' \in [Connections -> Rows \cup {NoRow}],
         \A c \in Connections : PairedRow(cached'[c])
  PROVE  IInv'
<1>1. Idle \in Locals
  BY LoadedTypes
<1>2. Idle.pc = "idle" /\ PairedRow(Idle.copy)
  BY DEF Idle, PairedRow, NoRow
<1>3. QED
  BY <1>1, <1>2, SkipInv DEF Loading, Looking

LEMMA CacheTypes ==
  ASSUME IInv
  PROVE  /\ cached \in [Connections -> Rows \cup {NoRow}]
         /\ \A c \in Connections : PairedRow(cached[c])
         /\ req \in [Requests -> Locals]
  BY DEF IInv, TypeOK, PairedInv

LEMMA CallbackReadInv ==
  ASSUME IInv, NEW p \in Requests, NEW st \in States, CallbackRead(p, st)
  PROVE  IInv'
<1> DEFINE l == [Idle EXCEPT !.pc = "delete", !.from = st,
                             !.raced = (oauth[st] = "kept")]
<1>1. l \in Locals
  BY DEF Idle, Locals, Pcs, AnyConnection
<1>2. /\ l.pc = "delete" /\ l.from = st /\ l.copy = NoRow
      /\ l.raced = (oauth[st] = "kept")
  BY DEF Idle
<1>3. ~l.raced => ~Made(l.from)
  BY <1>2 DEF CallbackRead, IInv, SpentInv, Dead
<1>4. PairedRow(l.copy)
  BY <1>2 DEF PairedRow, NoRow
<1> HIDE DEF l
<1>5. Continue(p, l) /\ UNCHANGED <<row, cached, oauth>>
  BY DEF CallbackRead, l
<1>6. QED
  BY <1>1, <1>2, <1>3, <1>4, <1>5, SkipInv, CacheTypes DEF Loading, Looking

LEMMA CallbackDeleteInv ==
  ASSUME IInv, NEW p \in Requests, CallbackDelete(p)
  PROVE  IInv'
<1> DEFINE l == [req[p] EXCEPT !.pc = "insert"]
<1>0. req[p] \in Locals /\ req \in [Requests -> Locals]
  BY CacheTypes
<1>1. l \in Locals
  BY <1>0 DEF Locals, Pcs
<1>2. /\ l.pc = "insert" /\ l.from = req[p].from
      /\ l.copy = req[p].copy /\ l.raced = req[p].raced
  BY <1>0 DEF Locals
<1> HIDE DEF l
<1>3. Overtake(p, l, {})
  BY DEF CallbackDelete, Continue, l
<1>4. req' \in [Requests -> Locals]
  BY <1>0, <1>1, <1>3, OvertakeTypes
<1>5. /\ req'[p] = l
      /\ \A q \in Requests \ {p} :
            /\ req'[q].pc = req[q].pc
            /\ req'[q].conn = req[q].conn
            /\ req'[q].copy = req[q].copy
            /\ req'[q].from = req[q].from
            /\ req'[q].raced = (req[q].raced \/ q \in {})
  BY <1>0, <1>1, <1>3, OvertakeEffect
<1>6. req[p].from \in States /\ req[p].pc = "delete"
  BY DEF CallbackDelete, IInv, LookedInv
<1>7. /\ oauth' \in [States -> OauthStates]
      /\ oauth'[req[p].from] \in Dead
      /\ \A st \in States : oauth[st] \in Dead => oauth'[st] \in Dead
  BY <1>6 DEF CallbackDelete, IInv, TypeOK, Dead, OauthStates
<1>8. UNCHANGED <<row, cached>> /\ \A x : Made(x)' <=> Made(x)
  BY DEF CallbackDelete, Made
<1>9. TypeOK'
  BY <1>4, <1>7, <1>8 DEF IInv, TypeOK
<1>10. LoadedInv' /\ PairedInv'
  <2>1. LoadedInv'
    BY <1>2, <1>5, <1>8 DEF IInv, LoadedInv, Loading
  <2>2. PairedInv'
    BY <1>2, <1>5, <1>8 DEF IInv, PairedInv, PairedRow
  <2>3. QED
    BY <2>1, <2>2
<1>11. LookedInv'
  BY <1>2, <1>5, <1>6, <1>7, <1>8 DEF IInv, LookedInv, Looking
<1>12. SpentInv'
  BY <1>7, <1>8 DEF IInv, SpentInv
<1>13. QED
  BY <1>9, <1>10, <1>11, <1>12 DEF IInv

LEMMA ImportLookInv ==
  ASSUME IInv, NEW p \in Requests, ImportLook(p)
  PROVE  IInv'
<1>1. ASSUME NEW c \in Connections, row[c].from = "file",
             Continue(p, Loaded("sync", c, row[c]))
      PROVE  IInv'
  <2>1. row[c] # NoRow
    BY <1>1, RowTypes DEF Sources
  <2>2. QED
    BY <1>1, <2>1, LoadInv DEF ImportLook, Pcs, Looking
<1>2. ASSUME \A c \in Connections : row[c].from # "file",
             Continue(p, [Idle EXCEPT !.pc = "insert"])
      PROVE  IInv'
  <2> DEFINE l == [Idle EXCEPT !.pc = "insert"]
  <2>1. l \in Locals
    BY DEF Idle, Locals, Pcs, AnyConnection
  <2>2. l.pc = "insert" /\ l.from = "file" /\ PairedRow(l.copy)
    BY DEF Idle, PairedRow, NoRow
  <2>3. ~Made(l.from)
    BY <1>2, <2>2 DEF Made
  <2> HIDE DEF l
  <2>4. Continue(p, l) /\ UNCHANGED <<row, cached, oauth>>
    BY <1>2 DEF l, ImportLook
  <2>5. QED
    BY <2>1, <2>2, <2>3, <2>4, SkipInv, CacheTypes DEF Loading, Looking
<1>3. QED
  BY <1>1, <1>2 DEF ImportLook

----------------------------------------------------------------------------
(* Steps that write a row.                                                 *)

LEMMA InsertInv ==
  ASSUME IInv, NEW p \in Requests, Insert(p)
  PROVE  IInv'
<1>0. req[p] \in Locals /\ req[p].from \in Sources /\ req[p].pc = "insert"
  BY CacheTypes DEF Insert, Locals, Sources
<1> DEFINE x == req[p].from
           new == ActiveFrom(x)
<1>1. PICK c \in Connections :
         /\ row[c] = NoRow
         /\ row' = [row EXCEPT ![c] = new]
         /\ Overtake(p, IF x = "file" THEN Loaded("sync", c, ActiveFrom("file"))
                        ELSE Idle, LookedBefore(x))
  BY DEF Insert
<1> DEFINE l == IF x = "file" THEN Loaded("sync", c, ActiveFrom("file"))
                ELSE Idle
<1>2. new \in Rows /\ new.from = x /\ new # NoRow /\ PairedRow(new)
  BY <1>0, RowTypes DEF ActiveFrom, PairedRow
<1>3. /\ l \in Locals /\ l.pc \in {"idle", "sync"} /\ PairedRow(l.copy)
      /\ l.pc = "sync" => l.copy = new /\ l.conn = c
  <2>1. CASE x = "file"
    <3>1. l = Loaded("sync", c, new)
      BY <2>1
    <3>2. l \in Locals
      BY <1>2, <3>1, LoadedTypes DEF Pcs
    <3>3. l.pc = "sync" /\ l.copy = new /\ l.conn = c
      BY <3>1 DEF Loaded, Idle
    <3>4. QED
      BY <1>2, <3>2, <3>3
  <2>2. CASE x # "file"
    BY <2>2, LoadedTypes DEF Idle, PairedRow, NoRow
  <2>3. QED
    BY <2>1, <2>2
<1>4. /\ UNCHANGED <<cached, oauth>>
      /\ row' \in [Connections -> Rows \cup {NoRow}]
      /\ \A d \in Connections : row'[d] = IF d = c THEN new ELSE row[d]
  BY <1>1, <1>2 DEF Insert, IInv, TypeOK
<1> HIDE DEF l, new
<1>5. Overtake(p, l, LookedBefore(x))
  BY <1>1 DEF l
<1>6. /\ req' \in [Requests -> Locals]
      /\ req'[p] = l
      /\ \A q \in Requests \ {p} :
            /\ req'[q].pc = req[q].pc
            /\ req'[q].conn = req[q].conn
            /\ req'[q].copy = req[q].copy
            /\ req'[q].from = req[q].from
            /\ req'[q].raced = (req[q].raced \/ q \in LookedBefore(x))
  BY <1>3, <1>5, CacheTypes, OvertakeTypes, OvertakeEffect
<1>7. TypeOK'
  BY <1>4, <1>6 DEF IInv, TypeOK
<1>8. \A y \in Sources : Made(y)' => Made(y) \/ y = x
  BY <1>2, <1>4 DEF Made
<1>9. LoadedInv'
  <2>1. ASSUME NEW q \in Requests \ {p}, req[q].pc \in Loading
        PROVE  req[q].conn # c
    BY <1>0, <1>1, <2>1, RowTypes DEF IInv, LoadedInv
  <2>2. \A q \in Requests : req[q].conn \in Connections
    BY CacheTypes DEF Locals
  <2>3. ASSUME NEW q \in Requests \ {p}, req'[q].pc \in Loading
        PROVE  /\ req'[q].copy \in Rows
               /\ row'[req'[q].conn].from = req'[q].copy.from
               /\ ~req'[q].raced => row'[req'[q].conn] = req'[q].copy
    <3>1. req[q].pc \in Loading
      BY <1>6, <2>3
    <3>2. /\ req[q].copy \in Rows
          /\ row[req[q].conn].from = req[q].copy.from
          /\ ~req[q].raced => row[req[q].conn] = req[q].copy
      BY <3>1 DEF IInv, LoadedInv
    <3>3. row'[req[q].conn] = row[req[q].conn]
      BY <1>4, <2>1, <2>2, <3>1
    <3>4. QED
      BY <1>6, <3>2, <3>3
  <2>4. req'[p].pc \in Loading =>
           /\ req'[p].copy \in Rows
           /\ row'[req'[p].conn].from = req'[p].copy.from
           /\ ~req'[p].raced => row'[req'[p].conn] = req'[p].copy
    BY <1>2, <1>3, <1>4, <1>6 DEF Loading
  <2>5. QED
    BY <2>3, <2>4 DEF LoadedInv
<1>10. PairedInv'
  BY <1>2, <1>3, <1>4, <1>6 DEF IInv, PairedInv, PairedRow
<1>11. LookedInv'
  <2>1. \A q \in Requests : req[q].from \in Sources
    BY CacheTypes DEF Locals, Sources
  <2>2. ASSUME NEW q \in Requests \ {p}, req[q].pc \in Looking,
               ~req'[q].raced
        PROVE  ~Made(req[q].from)'
    <3>1. ~req[q].raced /\ req[q].from # x /\ req'[q].from = req[q].from
      BY <1>6, <2>2 DEF LookedBefore, Looking
    <3>2. ~Made(req[q].from)
      BY <2>2, <3>1 DEF IInv, LookedInv
    <3>3. \A d \in Connections : row'[d].from # req[q].from
      BY <1>2, <1>4, <3>1, <3>2 DEF Made
    <3>4. QED
      BY <3>1, <3>3 DEF Made
  <2>3. ASSUME NEW q \in Requests
        PROVE  /\ req'[q].pc \in Looking /\ ~req'[q].raced => ~Made(req[q].from)'
               /\ req'[q].pc = "delete" => req'[q].from \in States
               /\ req'[q].pc = "insert" /\ req'[q].from \in States =>
                     oauth'[req'[q].from] \in Dead
    <3>1. CASE q = p
      BY <1>3, <1>6, <3>1 DEF Looking
    <3>2. CASE q # p
      BY <1>4, <1>6, <2>2, <3>2 DEF IInv, LookedInv
    <3>3. QED
      BY <3>1, <3>2
  <2>4. QED
    BY <2>3 DEF LookedInv, Made
<1>12. SpentInv'
  <2>1. x \in States => oauth[x] \in Dead
    BY <1>0 DEF IInv, LookedInv
  <2>2. QED
    BY <1>4, <1>8, <2>1 DEF IInv, SpentInv, Sources
<1>13. QED
  BY <1>7, <1>9, <1>10, <1>11, <1>12 DEF IInv

(* A save of r, which has the source of the row it replaces.               *)
LEMMA SaveInv ==
  ASSUME IInv, NEW p \in Requests, NEW c \in Connections, NEW r \in Rows,
         r.from = row[c].from, PairedRow(r),
         row' = [row EXCEPT ![c] = r],
         Overtake(p, Idle, LoadedBefore(c)), UNCHANGED <<cached, oauth>>
  PROVE  IInv'
<1>1. Idle \in Locals /\ Idle.pc = "idle" /\ PairedRow(Idle.copy)
  BY LoadedTypes DEF Idle, PairedRow, NoRow
<1>2. /\ row' \in [Connections -> Rows \cup {NoRow}]
      /\ \A d \in Connections : row'[d] = IF d = c THEN r ELSE row[d]
  BY DEF IInv, TypeOK
<1>3. /\ req' \in [Requests -> Locals]
      /\ req'[p] = Idle
      /\ \A q \in Requests \ {p} :
            /\ req'[q].pc = req[q].pc
            /\ req'[q].conn = req[q].conn
            /\ req'[q].copy = req[q].copy
            /\ req'[q].from = req[q].from
            /\ req'[q].raced = (req[q].raced \/ q \in LoadedBefore(c))
  BY <1>1, CacheTypes, OvertakeTypes, OvertakeEffect
<1>4. TypeOK'
  BY <1>2, <1>3 DEF IInv, TypeOK
<1>5. \A x : Made(x)' <=> Made(x)
  BY <1>2 DEF Made
<1>6. LoadedInv'
  <2>1. \A q \in Requests : req[q].conn \in Connections
    BY CacheTypes DEF Locals
  <2>2. ASSUME NEW q \in Requests \ {p}, req[q].pc \in Loading
        PROVE  /\ req[q].copy \in Rows
               /\ row'[req[q].conn].from = req[q].copy.from
               /\ ~req'[q].raced => row'[req[q].conn] = req[q].copy
    <3>1. /\ req[q].copy \in Rows
          /\ row[req[q].conn].from = req[q].copy.from
          /\ ~req[q].raced => row[req[q].conn] = req[q].copy
      BY <2>2 DEF IInv, LoadedInv
    <3>2. CASE req[q].conn = c
      <4>1. q \in LoadedBefore(c)
        BY <2>2, <3>2 DEF LoadedBefore, Loading
      <4>2. QED
        BY <1>2, <1>3, <3>1, <3>2, <4>1
    <3>3. CASE req[q].conn # c
      <4>1. row'[req[q].conn] = row[req[q].conn]
        BY <1>2, <2>1, <3>3
      <4>2. QED
        BY <1>3, <3>1, <4>1
    <3>4. QED
      BY <3>2, <3>3
  <2>3. ASSUME NEW q \in Requests, req'[q].pc \in Loading
        PROVE  /\ req'[q].copy \in Rows
               /\ row'[req'[q].conn].from = req'[q].copy.from
               /\ ~req'[q].raced => row'[req'[q].conn] = req'[q].copy
    <3>1. q # p
      BY <1>1, <1>3, <2>3 DEF Loading
    <3>2. req[q].pc \in Loading
      BY <1>3, <2>3, <3>1
    <3>3. QED
      BY <1>3, <2>2, <3>1, <3>2
  <2>4. QED
    BY <2>3 DEF LoadedInv
<1>7. PairedInv'
  BY <1>1, <1>2, <1>3 DEF IInv, PairedInv, PairedRow
<1>8. LookedInv'
  BY <1>1, <1>3, <1>5 DEF IInv, LookedInv, Looking
<1>9. SpentInv'
  BY <1>5 DEF IInv, SpentInv
<1>10. QED
  BY <1>4, <1>6, <1>7, <1>8, <1>9 DEF IInv

(* A save of the loaded entity, changed or not.                            *)
LEMMA LoadedSaveInv ==
  ASSUME IInv, NEW p \in Requests, req[p].pc \in Loading
  PROVE  /\ req[p].conn \in Connections
         /\ req[p].copy \in Rows
         /\ req[p].copy.from = row[req[p].conn].from
         /\ PairedRow(req[p].copy)
  BY CacheTypes DEF IInv, LoadedInv, PairedInv, Locals

LEMMA SyncSaveInv ==
  ASSUME IInv, NEW p \in Requests, SyncSave(p)
  PROVE  IInv'
<1>1. req[p].pc \in Loading
  BY DEF SyncSave, Loading
<1>2. QED
  BY <1>1, LoadedSaveInv, SaveInv DEF SyncSave

LEMMA DisconnectSaveInv ==
  ASSUME IInv, NEW p \in Requests, DisconnectSave(p)
  PROVE  IInv'
<1> DEFINE r == Disconnected(req[p].copy)
<1>1. req[p].pc \in Loading
  BY DEF DisconnectSave, Loading
<1>2. r \in Rows /\ r.from = req[p].copy.from
  BY <1>1, LoadedSaveInv, RowTypes
<1>3. PairedRow(r)
  BY <1>1, LoadedSaveInv DEF Disconnected, PairedRow, Rows
<1> HIDE DEF r
<1>4. /\ row' = [row EXCEPT ![req[p].conn] = r]
      /\ Overtake(p, Idle, LoadedBefore(req[p].conn))
      /\ UNCHANGED <<cached, oauth>>
  BY DEF DisconnectSave, r
<1>5. QED
  BY <1>1, <1>2, <1>3, <1>4, LoadedSaveInv, SaveInv

----------------------------------------------------------------------------
(* Every step keeps the invariant.                                         *)

LEMMA StateInv ==
  ASSUME IInv, NEW st \in States, Initiate(st) \/ StateExpires(st)
  PROVE  IInv'
<1>1. /\ oauth' \in [States -> OauthStates]
      /\ \A x \in States : oauth[x] \in Dead => oauth'[x] \in Dead
      /\ UNCHANGED <<row, cached, req>>
  BY DEF Initiate, StateExpires, IInv, TypeOK, Dead, OauthStates
<1>2. \A x : Made(x)' <=> Made(x)
  BY <1>1 DEF Made
<1>3. TypeOK' /\ LoadedInv' /\ PairedInv'
  BY <1>1 DEF IInv, TypeOK, LoadedInv, PairedInv
<1>4. LookedInv' /\ SpentInv'
  BY <1>1, <1>2 DEF IInv, LookedInv, SpentInv
<1>5. QED
  BY <1>3, <1>4 DEF IInv

LEMMA CacheExpiresInv ==
  ASSUME IInv, NEW c \in Connections, CacheExpires(c)
  PROVE  IInv'
<1>1. UNCHANGED <<row, oauth, req>> /\ TypeOK'
  BY DEF CacheExpires, IInv, TypeOK
<1>2. \A x : Made(x)' <=> Made(x)
  BY <1>1 DEF Made
<1>3. \A d \in Connections : PairedRow(cached'[d])
  BY CacheTypes DEF CacheExpires, PairedRow, NoRow
<1>4. LoadedInv' /\ PairedInv'
  BY <1>1, <1>3 DEF IInv, LoadedInv, PairedInv, PairedRow
<1>5. LookedInv' /\ SpentInv'
  BY <1>1, <1>2 DEF IInv, LookedInv, SpentInv
<1>6. QED
  BY <1>1, <1>4, <1>5 DEF IInv

LEMMA StepInv ==
  ASSUME IInv, NEW p \in Requests, StepOf(p)
  PROVE  IInv'
<1>1. ASSUME NEW st \in States, CallbackRead(p, st) PROVE IInv'
  BY <1>1, CallbackReadInv
<1>2. CASE CallbackDelete(p)
  BY <1>2, CallbackDeleteInv
<1>3. CASE Insert(p)
  BY <1>3, InsertInv
<1>4. CASE ImportLook(p)
  BY <1>4, ImportLookInv
<1>5. CASE SyncSave(p)
  BY <1>5, SyncSaveInv
<1>6. CASE DisconnectSave(p)
  BY <1>6, DisconnectSaveInv
<1>7. CASE GetFill(p)
  <2>1. /\ req[p].copy \in Rows \cup {NoRow}
        /\ PairedRow(req[p].copy)
    BY CacheTypes DEF Locals, IInv, PairedInv
  <2>2. /\ cached' \in [Connections -> Rows \cup {NoRow}]
        /\ \A c \in Connections : PairedRow(cached'[c])
    BY <1>7, <2>1, CacheTypes DEF GetFill
  <2>3. QED
    BY <1>7, <2>2, IdleInv DEF GetFill
<1>8. CASE Abandon(p)
  BY <1>8, CacheTypes, IdleInv DEF Abandon
<1>9. ASSUME NEW c \in Connections,
             SyncFind(p, c) \/ DisconnectFind(p, c) \/ GetMiss(p, c)
      PROVE  IInv'
  <2>1. PICK pc \in Pcs \ Looking :
           Continue(p, Loaded(pc, c, row[c])) /\ UNCHANGED <<row, cached, oauth>>
    BY <1>9 DEF SyncFind, DisconnectFind, GetMiss, Pcs, Looking
  <2>2. row[c] # NoRow
    BY <1>9, RowTypes DEF SyncFind, DisconnectFind, GetMiss, Sources
  <2>3. QED
    BY <2>1, <2>2, LoadInv
<1>10. QED
  BY <1>1, <1>2, <1>3, <1>4, <1>5, <1>6, <1>7, <1>8, <1>9 DEF StepOf

LEMMA NextInv == IInv /\ [Next]_vars => IInv'
<1> SUFFICES ASSUME IInv, [Next]_vars PROVE IInv'
  OBVIOUS
<1>1. CASE UNCHANGED vars
  BY <1>1 DEF vars, IInv, TypeOK, LoadedInv, PairedInv, LookedInv, SpentInv,
              Made
<1>2. CASE Next
  BY <1>2, Steps, StateInv, CacheExpiresInv, StepInv
<1>3. QED
  BY <1>1, <1>2

LEMMA Inductive == Spec => []IInv
  BY InitInv, NextInv, PTL DEF Spec

(* Every variable has its type.                                            *)
THEOREM TypeCorrect == Spec => []TypeOK
<1>1. IInv => TypeOK
  BY DEF IInv
<1>2. QED
  BY <1>1, Inductive, PTL

(* An ACTIVE connection always has credentials and a disconnected one      *)
(* never has, in PostgreSQL and in Redis.                                  *)
THEOREM PairedAlways == Spec => []Paired
<1>1. IInv => Paired
  BY DEF IInv, PairedInv, PairedRow, Paired
<1>2. QED
  BY <1>1, Inductive, PTL

----------------------------------------------------------------------------
(* What a step does to one row.                                            *)

RowWriters(p) == Insert(p) \/ SyncSave(p) \/ DisconnectSave(p)

LEMMA RowSteps ==
  ASSUME IInv, [Next]_vars, NEW c \in Connections, row'[c] # row[c]
  PROVE  \E p \in Requests : RowWriters(p)
<1>1. CASE UNCHANGED vars
  BY <1>1 DEF vars
<1>2. CASE Next
  BY <1>2, Steps DEF StepOf, RowWriters, Initiate, StateExpires, CacheExpires,
     CallbackRead, CallbackDelete, ImportLook, GetFill, Abandon, SyncFind,
     DisconnectFind, GetMiss
<1>3. QED
  BY <1>1, <1>2

LEMMA SaveEffect ==
  ASSUME IInv, NEW p \in Requests, NEW c \in Connections, row'[c] # row[c],
         SyncSave(p) \/ DisconnectSave(p)
  PROVE  /\ req[p].conn = c
         /\ row[c] \in Rows
         /\ SyncSave(p) => row'[c] = req[p].copy
         /\ DisconnectSave(p) => row'[c] = Disconnected(req[p].copy)
         /\ req'[p].pc = "idle"
         /\ ~req[p].raced => row[c] = req[p].copy
<1>1. req[p].pc \in Loading
  BY DEF SyncSave, DisconnectSave, Loading
<1>2. req[p].conn = c
  BY <1>1, LoadedSaveInv DEF SyncSave, DisconnectSave, IInv, TypeOK
<1>3. /\ SyncSave(p) => row'[c] = req[p].copy
      /\ DisconnectSave(p) => row'[c] = Disconnected(req[p].copy)
  BY <1>2 DEF SyncSave, DisconnectSave, IInv, TypeOK
<1>4. row[c] \in Rows
  <2>1. req[p].copy \in Rows /\ req[p].copy.from = row[c].from
    BY <1>1, <1>2, LoadedSaveInv
  <2>2. row[c] # NoRow
    BY <2>1, RowTypes
  <2>3. QED
    BY <2>2 DEF IInv, TypeOK
<1>5. req'[p].pc = "idle"
  BY DEF SyncSave, DisconnectSave, Overtake, Idle
<1>6. ~req[p].raced => row[c] = req[p].copy
  BY <1>1, <1>2 DEF IInv, LoadedInv
<1>7. QED
  BY <1>2, <1>3, <1>4, <1>5, <1>6

(* A disconnection is undone only by a request that had loaded the entity  *)
(* before it.                                                              *)
THEOREM NotRevived == Spec => RevivedOnlyByOverlap
<1> DEFINE Overlap(c) == \E p \in Requests : /\ req[p].pc = "sync"
                                             /\ req[p].conn = c
                                             /\ req[p].raced
                                             /\ req'[p].pc = "idle"
           A == \A c \in Connections :
                   row[c].status = "disconnected" /\ row'[c].status = "active"
                   => Overlap(c)
<1>1. ASSUME IInv, [Next]_vars, NEW c \in Connections,
             row[c].status = "disconnected", row'[c].status = "active"
      PROVE  Overlap(c)
  <2>1. row'[c] # row[c]
    BY <1>1
  <2>2. PICK p \in Requests : RowWriters(p)
    BY <1>1, <2>1, RowSteps
  <2>3. ~Insert(p)
    <3>1. row[c] # NoRow
      BY <1>1 DEF NoRow
    <3>2. SUFFICES ASSUME Insert(p) PROVE row'[c] = row[c]
      BY <2>1
    <3>3. QED
      BY <1>1, <3>1, <3>2 DEF Insert, IInv, TypeOK
  <2>4. ~DisconnectSave(p)
    <3>1. SUFFICES ASSUME DisconnectSave(p) PROVE FALSE
      OBVIOUS
    <3>2. row'[c] = Disconnected(req[p].copy) /\ req[p].pc \in Loading
      BY <1>1, <2>1, <3>1, SaveEffect DEF DisconnectSave, Loading
    <3>3. req[p].copy \in Rows
      BY <1>1, <3>2, LoadedSaveInv
    <3>4. QED
      BY <1>1, <3>2, <3>3 DEF Disconnected, Rows
  <2>5. SyncSave(p)
    BY <2>2, <2>3, <2>4 DEF RowWriters
  <2>6. req[p].raced
    BY <1>1, <2>1, <2>5, SaveEffect
  <2>7. QED
    BY <1>1, <2>1, <2>5, <2>6, SaveEffect DEF SyncSave
<1>2. IInv /\ [Next]_vars => [A]_vars
  BY <1>1
<1>3. QED
  BY <1>2, Inductive, PTL DEF Spec, RevivedOnlyByOverlap

(* A second connection of an OAuth state or of the imports is created only *)
(* by a request that another one overtook.                                 *)
THEOREM NotDuplicated == Spec => SecondOnlyByOverlap
<1> DEFINE Twice(c) == /\ row[c] = NoRow
                       /\ row'[c] # NoRow
                       /\ \E d \in Connections : row[d].from = row'[c].from
           Overlap(c) == \E p \in Requests : /\ req[p].pc = "insert"
                                             /\ req[p].from = row'[c].from
                                             /\ req[p].raced
                                             /\ req'[p].pc # "insert"
           A == \A c \in Connections : Twice(c) => Overlap(c)
<1>1. ASSUME IInv, [Next]_vars, NEW c \in Connections, Twice(c)
      PROVE  Overlap(c)
  <2>1. row'[c] # row[c]
    BY <1>1
  <2>2. PICK p \in Requests : RowWriters(p)
    BY <1>1, <2>1, RowSteps
  <2>3. Insert(p)
    <3>1. row[c] \notin Rows
      BY <1>1, RowTypes
    <3>2. QED
      BY <1>1, <2>1, <2>2, <3>1, SaveEffect DEF RowWriters
  <2>4. req[p].pc = "insert" /\ req[p].from \in Sources
    BY <1>1, <2>3, CacheTypes DEF Insert, Locals, Sources
  <2>5. row'[c].from = req[p].from
    <3>1. row'[c] = ActiveFrom(req[p].from)
      BY <1>1, <2>1, <2>3 DEF Insert, IInv, TypeOK
    <3>2. QED
      BY <3>1 DEF ActiveFrom
  <2>6. req[p].raced
    BY <1>1, <2>4, <2>5 DEF IInv, LookedInv, Looking, Made
  <2>7. req'[p].pc # "insert"
    <3>1. PICK d \in Connections :
             Overtake(p, IF req[p].from = "file"
                         THEN Loaded("sync", d, ActiveFrom("file"))
                         ELSE Idle, LookedBefore(req[p].from))
      BY <2>3 DEF Insert
    <3>2. req'[p] = IF req[p].from = "file"
                    THEN Loaded("sync", d, ActiveFrom("file"))
                    ELSE Idle
      BY <3>1 DEF Overtake
    <3>3. QED
      BY <3>2 DEF Loaded, Idle
  <2>8. QED
    BY <2>4, <2>5, <2>6, <2>7
<1>2. IInv /\ [Next]_vars => [A]_vars
  BY <1>1
<1>3. QED
  BY <1>2, Inductive, PTL DEF Spec, SecondOnlyByOverlap
=============================================================================
