------------------------ MODULE EventDeliveryProofs ------------------------
(***************************************************************************)
(* What EventDelivery guarantees for any number of recalculations, sums,   *)
(* announcements and entries of the stream.                                *)
(***************************************************************************)
EXTENDS EventDelivery, TLAPS, SequenceTheorems

USE TotalsAssumption, BoundAssumption, LengthAssumption

(* Steps that a call at work takes, and steps of what follows it.          *)
WorkOf(r) == Sum(r) \/ GetPrevious(r) \/ SetCurrent(r)
StepOf(r) ==
    \/ WorkOf(r)
    \/ Publish(r)
    \/ Republish(r)
    \/ Store(r)
    \/ StoreAgain(r)
    \/ Abandon(r)

(* Steps by which others overlap with the calls at work.                   *)
Interrupts ==
    \/ \E r \in Recalcs, t \in Totals : Commit(r, t)
    \/ \E r \in Recalcs : Announce(r)
    \/ \E t \in Totals : Silent(t)

ClientStep == Connect \/ Subscribe \/ Deliver \/ Drop

LEMMA Steps ==
  ASSUME Next
  PROVE  \/ Interrupts
         \/ \E r \in Recalcs : StepOf(r)
         \/ StreamExpires
         \/ ClientStep
  BY DEF Next, StepOf, WorkOf, Interrupts, ClientStep

----------------------------------------------------------------------------
(* Type correctness.                                                       *)

LEMMA NoEvents == <<>> \in Seq(Events)
  OBVIOUS

LEMMA StreamTypes ==
  ASSUME NEW s \in Seq(Events)
  PROVE  /\ \A e \in Events : Append(s, e) \in Seq(Events)
         /\ s # <<>> => Tail(s) \in Seq(Events) /\ Head(s) \in Events
         /\ ToSet(s) \subseteq Events
<1>1. \A e \in Events : Append(s, e) \in Seq(Events)
  OBVIOUS
<1>2. s # <<>> => Tail(s) \in Seq(Events) /\ Head(s) \in Events
  OBVIOUS
<1>3. ToSet(s) \subseteq Events
  BY DEF ToSet
<1>4. QED
  BY <1>1, <1>2, <1>3

LEMMA IdleTypes == Idle \in Locals /\ Idle.pc = "idle"
  BY DEF Idle, Locals, Pcs

LEMMA CalcTypes ==
  ASSUME TypeOK, NEW r \in Recalcs
  PROVE  /\ calc[r] \in Locals
         /\ calc[r].pc \in Pcs /\ calc[r].sum \in Totals
         /\ calc[r].prev \in Totals /\ calc[r].event \in Events \cup {0}
         /\ calc[r].raced \in BOOLEAN
  BY DEF TypeOK, Locals

LEMMA PendingTypes ==
  ASSUME TypeOK
  PROVE  Pending \subseteq Events \cup {0}
  BY CalcTypes DEF Pending, At

(* An event in the box of a live connection.                               *)
LEMMA ReceiveTypes ==
  ASSUME client \in Clients, NEW e \in Events
  PROVE  Receive(e) \in Clients
<1>1. Append(client.box, e) \in Seq(Events)
  BY StreamTypes DEF Clients
<1>2. QED
  BY <1>1 DEF Receive, Clients

----------------------------------------------------------------------------
(* The order of events in a sequence.                                      *)

(* Before: a comes before the first b.                                     *)
In(s, a) == \E i \in 1..Len(s) : s[i] = a
Prec(s, a, b) == \E i, j \in 1..Len(s) : i < j /\ s[i] = a /\ s[j] = b
Before(s, a, b) == \E i \in 1..Len(s) : s[i] = a /\ \A j \in 1..i : s[j] # b

LEMMA InPrec ==
  ASSUME NEW s, NEW a, NEW b, Prec(s, a, b)
  PROVE  In(s, a) /\ In(s, b)
  BY DEF In, Prec

LEMMA EmptyOrder ==
  ASSUME NEW a, NEW b
  PROVE  ~In(<<>>, a) /\ ~Prec(<<>>, a, b) /\ ~Before(<<>>, a, b)
  BY DEF In, Prec, Before

LEMMA AppendOrder ==
  ASSUME NEW s \in Seq(Events), NEW e \in Events, NEW a, NEW b
  PROVE  /\ In(Append(s, e), a) <=> In(s, a) \/ a = e
         /\ Prec(Append(s, e), a, b) => \/ Prec(s, a, b)
                                        \/ In(s, a) /\ b = e
         /\ Before(s, a, b) => Before(Append(s, e), a, b)
         /\ In(s, a) /\ ~In(s, e) => Before(Append(s, e), a, e)
<1> DEFINE t == Append(s, e)
<1>1. /\ Len(s) \in Nat /\ Len(t) = Len(s) + 1
      /\ t[Len(s) + 1] = e
      /\ \A i \in 1..Len(s) : t[i] = s[i]
  OBVIOUS
<1> HIDE DEF t
<1>2. \A i \in 1..Len(t) : i \in 1..Len(s) \/ i = Len(s) + 1
  BY <1>1
<1>3. In(t, a) <=> In(s, a) \/ a = e
  <2>1. ASSUME In(t, a) PROVE In(s, a) \/ a = e
    BY <1>1, <1>2, <2>1 DEF In
  <2>2. ASSUME In(s, a) PROVE In(t, a)
    BY <1>1, <2>2 DEF In
  <2>3. Len(s) + 1 \in 1..Len(t)
    BY <1>1
  <2>4. QED
    BY <1>1, <2>1, <2>2, <2>3 DEF In
<1>4. ASSUME Prec(t, a, b)
      PROVE  Prec(s, a, b) \/ (In(s, a) /\ b = e)
  <2>1. PICK i \in 1..Len(t), j \in 1..Len(t) : i < j /\ t[i] = a /\ t[j] = b
    BY <1>4 DEF Prec
  <2>2. i \in 1..Len(s) /\ s[i] = a
    BY <1>1, <2>1
  <2>3. CASE j \in 1..Len(s)
    BY <1>1, <2>1, <2>2, <2>3 DEF Prec
  <2>4. CASE j = Len(s) + 1
    BY <1>1, <2>1, <2>2, <2>4 DEF In
  <2>5. QED
    BY <1>2, <2>1, <2>3, <2>4
<1>5. ASSUME Before(s, a, b) PROVE Before(t, a, b)
  <2>1. PICK i \in 1..Len(s) : s[i] = a /\ \A j \in 1..i : s[j] # b
    BY <1>5 DEF Before
  <2>2. i \in 1..Len(t) /\ t[i] = a /\ \A j \in 1..i : t[j] # b
    BY <1>1, <2>1
  <2>3. QED
    BY <2>2 DEF Before
<1>6. ASSUME In(s, a), ~In(s, e) PROVE Before(t, a, e)
  <2>1. PICK i \in 1..Len(s) : s[i] = a
    BY <1>6 DEF In
  <2>2. \A j \in 1..i : s[j] # e
    BY <1>1, <1>6, <2>1 DEF In
  <2>3. i \in 1..Len(t) /\ t[i] = a /\ \A j \in 1..i : t[j] # e
    BY <1>1, <2>1, <2>2
  <2>4. QED
    BY <2>3 DEF Before
<1>7. QED
  BY <1>3, <1>4, <1>5, <1>6 DEF t

LEMMA TailOrder ==
  ASSUME NEW s \in Seq(Events), s # <<>>, NEW a, NEW b
  PROVE  /\ In(s, Head(s))
         /\ In(Tail(s), a) => In(s, a) /\ Prec(s, Head(s), a)
         /\ In(s, a) => a = Head(s) \/ In(Tail(s), a)
         /\ Prec(Tail(s), a, b) => Prec(s, a, b)
         /\ Before(s, a, b) => a = Head(s) \/ Before(Tail(s), a, b)
         /\ ~Before(s, a, Head(s))
<1> DEFINE t == Tail(s)
<1>1. /\ Len(s) \in Nat \ {0} /\ Len(t) = Len(s) - 1
      /\ Head(s) = s[1]
      /\ \A i \in 1..Len(t) : t[i] = s[i + 1]
  OBVIOUS
<1> HIDE DEF t
<1>2. \A i \in 1..Len(t) : i + 1 \in 1..Len(s)
  BY <1>1
<1>3. 1 \in 1..Len(s)
  BY <1>1
<1>4. ASSUME In(t, a) PROVE In(s, a) /\ Prec(s, Head(s), a)
  <2>1. PICK i \in 1..Len(t) : t[i] = a
    BY <1>4 DEF In
  <2>2. s[i + 1] = a /\ i + 1 \in 1..Len(s) /\ 1 < i + 1
    BY <1>1, <1>2, <2>1
  <2>3. QED
    BY <1>1, <1>3, <2>2 DEF In, Prec
<1>5. ASSUME In(s, a), a # Head(s) PROVE In(t, a)
  <2>1. PICK i \in 1..Len(s) : s[i] = a
    BY <1>5 DEF In
  <2>2. i # 1
    BY <1>1, <1>5, <2>1
  <2>3. i - 1 \in 1..Len(t) /\ t[i - 1] = a
    BY <1>1, <2>1, <2>2
  <2>4. QED
    BY <2>3 DEF In
<1>6. ASSUME Prec(t, a, b) PROVE Prec(s, a, b)
  <2>1. PICK i \in 1..Len(t), j \in 1..Len(t) : i < j /\ t[i] = a /\ t[j] = b
    BY <1>6 DEF Prec
  <2>2. /\ i + 1 \in 1..Len(s) /\ j + 1 \in 1..Len(s) /\ i + 1 < j + 1
        /\ s[i + 1] = a /\ s[j + 1] = b
    BY <1>1, <1>2, <2>1
  <2>3. QED
    BY <2>2 DEF Prec
<1>7. In(s, Head(s))
  BY <1>1, <1>3 DEF In
<1>8. ASSUME Before(s, a, b), a # Head(s) PROVE Before(t, a, b)
  <2>1. PICK i \in 1..Len(s) : s[i] = a /\ \A j \in 1..i : s[j] # b
    BY <1>8 DEF Before
  <2>2. i # 1
    BY <1>1, <1>8, <2>1
  <2>3. i - 1 \in 1..Len(t) /\ t[i - 1] = a
    BY <1>1, <2>1, <2>2
  <2>4. ASSUME NEW j \in 1..(i - 1) PROVE t[j] # b
    <3>1. j \in 1..Len(t) /\ j + 1 \in 1..i
      BY <1>1, <2>1, <2>4
    <3>2. QED
      BY <1>1, <2>1, <3>1
  <2>5. QED
    BY <2>3, <2>4 DEF Before
<1>9. ~Before(s, a, Head(s))
  <2>1. \A i \in 1..Len(s) : 1 \in 1..i
    BY <1>1
  <2>2. QED
    BY <1>1, <2>1 DEF Before
<1>10. QED
  BY <1>4, <1>5, <1>6, <1>7, <1>8, <1>9 DEF t

(* What is left of a sequence without its first k elements.                *)
Suffix(s, k) == SubSeq(s, k + 1, Len(s))

LEMMA SuffixOrder ==
  ASSUME NEW s \in Seq(Events), NEW k \in 0..Len(s)
  PROVE  /\ Suffix(s, k) \in Seq(Events)
         /\ \A a : In(Suffix(s, k), a) => In(s, a)
         /\ \A a, b : Prec(Suffix(s, k), a, b) => Prec(s, a, b)
         /\ \A a : In(Suffix(s, k), a) => \A j \in 1..k : Prec(s, s[j], a)
         /\ \A a : In(s, a) => In(Suffix(s, k), a) \/ \E j \in 1..k : s[j] = a
         /\ \A a, b :
               In(Suffix(s, k), b) /\ Prec(s, a, b) /\ ~Prec(s, b, b) =>
                  Before(Suffix(s, k), a, b) \/ \E j \in 1..k : s[j] = a
<1> DEFINE t == Suffix(s, k)
<1>0. t = SubSeq(s, k + 1, Len(s))
  BY DEF Suffix
<1> HIDE DEF t
<1>1. Len(s) \in Nat /\ \A i \in 1..Len(s) : s[i] \in Events
  OBVIOUS
<1>2. t \in Seq(Events) /\ Len(t) = Len(s) - k
  <2>1. \A j \in (k + 1)..Len(s) : s[j] \in Events
    BY <1>1
  <2>2. t \in Seq(Events)
    BY <1>0, <1>1, <2>1, SubSeqProperties
  <2>3. Len(t) = IF k + 1 <= Len(s) THEN Len(s) - (k + 1) + 1 ELSE 0
    BY <1>0, <1>1, <2>1, SubSeqProperties
  <2>4. QED
    BY <1>1, <2>2, <2>3
<1>3. ASSUME NEW i \in 1..Len(t)
      PROVE  t[i] = s[k + i] /\ k + i \in 1..Len(s)
  <2>1. \A j \in (k + 1)..Len(s) : s[j] \in Events
    BY <1>1
  <2>2. \A j \in 1..(Len(s) - (k + 1) + 1) : t[j] = s[(k + 1) + j - 1]
    BY <1>0, <1>1, <2>1, SubSeqProperties
  <2>3. i \in 1..(Len(s) - (k + 1) + 1) /\ (k + 1) + i - 1 = k + i
    BY <1>1, <1>2, <1>3
  <2>4. QED
    BY <1>1, <1>2, <2>2, <2>3
<1>4. ASSUME NEW a, In(t, a)
      PROVE  In(s, a) /\ \A j \in 1..k : Prec(s, s[j], a)
  <2>1. PICK i \in 1..Len(t) : t[i] = a
    BY <1>4 DEF In
  <2>2. k + i \in 1..Len(s) /\ s[k + i] = a
    BY <1>3, <2>1
  <2>3. \A j \in 1..k : j \in 1..Len(s) /\ j < k + i
    BY <1>1, <1>2, <2>1
  <2>4. QED
    BY <2>2, <2>3 DEF In, Prec
<1>5. ASSUME NEW a, NEW b, Prec(t, a, b) PROVE Prec(s, a, b)
  <2>1. PICK i \in 1..Len(t), j \in 1..Len(t) : i < j /\ t[i] = a /\ t[j] = b
    BY <1>5 DEF Prec
  <2>2. /\ k + i \in 1..Len(s) /\ k + j \in 1..Len(s) /\ k + i < k + j
        /\ s[k + i] = a /\ s[k + j] = b
    BY <1>2, <1>3, <2>1
  <2>3. QED
    BY <2>2 DEF Prec
<1>6. ASSUME NEW i \in 1..Len(s), i > k
      PROVE  i - k \in 1..Len(t) /\ t[i - k] = s[i]
  <2>1. i - k \in 1..Len(t) /\ k + (i - k) = i
    BY <1>1, <1>2, <1>6
  <2>2. QED
    BY <1>3, <2>1
<1>7. ASSUME NEW a, In(s, a)
      PROVE  In(t, a) \/ \E j \in 1..k : s[j] = a
  <2>1. PICK i \in 1..Len(s) : s[i] = a
    BY <1>7 DEF In
  <2>2. CASE i > k
    BY <1>6, <2>1, <2>2 DEF In
  <2>3. CASE i \in 1..k
    BY <2>1, <2>3
  <2>4. QED
    BY <2>1, <2>2, <2>3
<1>8. ASSUME NEW a, NEW b, Prec(s, a, b), ~Prec(s, b, b), In(t, b)
      PROVE  Before(t, a, b) \/ \E j \in 1..k : s[j] = a
  <2>1. PICK i \in 1..Len(s), j \in 1..Len(s) : i < j /\ s[i] = a /\ s[j] = b
    BY <1>8 DEF Prec
  <2>2. CASE i \in 1..k
    BY <2>1, <2>2
  <2>3. CASE i > k
    <3>1. i - k \in 1..Len(t) /\ t[i - k] = a
      BY <1>6, <2>1, <2>3
    <3>2. ASSUME NEW m \in 1..(i - k), t[m] = b PROVE FALSE
      <4>1. m \in 1..Len(t) /\ k + m < j
        BY <1>2, <2>1, <3>1, <3>2
      <4>2. k + m \in 1..Len(s) /\ s[k + m] = b
        BY <1>3, <3>2, <4>1
      <4>3. QED
        BY <1>8, <2>1, <4>1, <4>2 DEF Prec
    <3>3. QED
      BY <3>1, <3>2 DEF Before
  <2>4. QED
    BY <2>1, <2>2, <2>3
<1>9. QED
  BY <1>2, <1>4, <1>5, <1>7, <1>8 DEF t

----------------------------------------------------------------------------
(* The inductive invariant.                                                *)

(* Calls whose event was published and may still be stored; events that    *)
(* may come out of turn.                                                   *)
OnTheWay == Sending \cup {"restore"}
Odd == crossed \cup resent

(* Calls that overlap know it, and it is noted that they did.              *)
Alone ==
    \A r \in At(Working) : /\ ~calc[r].raced => At(Working) = {r}
                           /\ calc[r].raced => upset

(* What a call that runs alone has read is still so.                       *)
Fresh ==
    \A r \in Recalcs : ~calc[r].raced =>
        /\ calc[r].pc \in {"get", "set", "publish"} => calc[r].sum = total
        /\ calc[r].pc = "set" => calc[r].prev = cached
        /\ calc[r].pc = "publish" => cached = calc[r].sum

(* The cached sum is the announced one, until the call at work changes it. *)
Announced ==
    ~upset =>
        /\ At(Working) = {} => /\ cached = said
                               /\ At({"synced"}) = {} => cached = total
        /\ \A r \in At({"sum", "get", "set"}) : cached = said
        /\ \A r \in At({"publish"}) : calc[r].prev = said

WorthInv == Alone /\ Fresh /\ Announced

(* Each event of a call was published and is the event of no other call;   *)
(* it is not in the stream before its first XADD.                          *)
Numbered ==
    \A r \in Recalcs : calc[r].pc \in OnTheWay =>
        /\ calc[r].event \in 1..sent
        /\ calc[r].pc \in Sending => ~In(stream, calc[r].event)
        /\ \A q \in Recalcs \ {r} :
              calc[q].pc \in OnTheWay => calc[q].event # calc[r].event

(* The stream: what it holds, what it will hold, and in which order.       *)
Kept ==
    \A e \in 1..sent : e \in missed \/ e \in Pending \/ In(stream, e)
Ordered ==
    \A a, b \in Events :
        /\ In(stream, a) => a \in 1..sent
        /\ Prec(stream, b, b) => b \in resent
        /\ Prec(stream, a, b) => a < b \/ b \in Odd
        /\ In(stream, a) /\ b \in Pending /\ a > b =>
              a \in missed /\ b \in crossed

(* What is on its way to the browser.                                      *)
Forward ==
    /\ client.had \cap Odd = {} => \A x \in client.had : x <= client.last
    /\ \A a \in Events : In(client.box, a) =>
          /\ a \in 1..sent
          /\ a > client.last \/ a \in Odd
          /\ client.pc = "replay" => a \notin Pending
    /\ \A a, b \in Events : Prec(client.box, a, b) => a < b \/ b \in Odd
Coming ==
    /\ client.pc = "off" => client.box = <<>>
    /\ client.last \in client.had \cup {0}
    /\ client.last \in 0..sent

(* What should come before b to the browser does so, has come, or never    *)
(* will.                                                                   *)
Leads(a, b) == a \in client.had \cup missed \/ Before(client.box, a, b)
Leading ==
    \A a, b \in Events : In(client.box, b) =>
        /\ client.pc = "live" /\ a < b => Leads(a, b)
        /\ b \notin resent /\ Prec(stream, a, b) => Leads(a, b)

(* What the browser has, or will never have.                               *)
Covered ==
    /\ client.pc # "off" =>
          \A e \in 1..sent : e \in client.had \cup missed \/ In(client.box, e)
    /\ client.last \notin resent =>
          \A a \in Events : Prec(stream, a, client.last) =>
             a \in client.had \cup missed
    /\ client.last \in Pending =>
          \A a \in 1..(client.last - 1) : a \in client.had \cup missed

DeliveryInv ==
    /\ Numbered
    /\ Kept
    /\ Ordered
    /\ Forward
    /\ Coming
    /\ Leading
    /\ Covered

IInv == TypeOK /\ WorthInv /\ DeliveryInv

LEMMA InitInv == Init => IInv
<1> SUFFICES ASSUME Init PROVE IInv
  OBVIOUS
<1>1. TypeOK
  <2>1. client \in Clients
    BY NoEvents DEF Init, Clients
  <2>2. calc \in [Recalcs -> Locals]
    BY IdleTypes DEF Init
  <2>3. sent \in 0..MaxEvents
    BY DEF Init
  <2>4. QED
    BY <2>1, <2>2, <2>3, NoEvents DEF Init, TypeOK
<1>2. WorthInv
  BY DEF Init, WorthInv, Alone, Fresh, Announced, At, Working, Idle
<1>3. Pending = {}
  BY DEF Init, Pending, At, Idle, Sending
<1>4. /\ stream = <<>> /\ sent = 0 /\ client.box = <<>> /\ client.had = {}
      /\ client.pc = "off" /\ client.last = 0
  BY DEF Init
<1>5. Numbered /\ Kept
  BY <1>4 DEF Init, Numbered, Kept, Idle, OnTheWay, Sending
<1>6. /\ \A a, b : ~In(stream, a) /\ ~Prec(stream, a, b)
      /\ \A a, b : ~In(client.box, a) /\ ~Prec(client.box, a, b)
  BY <1>4, EmptyOrder
<1>7. Ordered /\ Forward /\ Coming /\ Leading /\ Covered
  <2>1. Ordered /\ Leading
    BY <1>6 DEF Ordered, Leading
  <2>2. Forward
    BY <1>4, <1>6 DEF Forward
  <2>3. Coming
    BY <1>4 DEF Coming
  <2>4. Covered
    BY <1>3, <1>4, <1>6 DEF Covered
  <2>5. QED
    BY <2>1, <2>2, <2>3, <2>4
<1>8. QED
  BY <1>1, <1>2, <1>5, <1>7 DEF IInv, DeliveryInv

----------------------------------------------------------------------------
(* Type correctness of each step.                                          *)

LEMMA OverlappedTypes ==
  ASSUME TypeOK
  PROVE  /\ Overlapped \in [Recalcs -> Locals]
         /\ \A q \in Recalcs :
               /\ Overlapped[q].pc = calc[q].pc
               /\ Overlapped[q].sum = calc[q].sum
               /\ Overlapped[q].prev = calc[q].prev
               /\ Overlapped[q].event = calc[q].event
               /\ calc[q].pc \in Working => Overlapped[q].raced
               /\ calc[q].pc \notin Working => Overlapped[q] = calc[q]
<1>1. ASSUME NEW q \in Recalcs
      PROVE  /\ Overlapped[q] \in Locals
             /\ Overlapped[q].pc = calc[q].pc
             /\ Overlapped[q].sum = calc[q].sum
             /\ Overlapped[q].prev = calc[q].prev
             /\ Overlapped[q].event = calc[q].event
             /\ calc[q].pc \in Working => Overlapped[q].raced
             /\ calc[q].pc \notin Working => Overlapped[q] = calc[q]
  BY CalcTypes DEF Overlapped, Locals
<1>2. QED
  BY <1>1 DEF Overlapped

LEMMA InterruptTypes ==
  ASSUME TypeOK, Interrupts
  PROVE  TypeOK'
<1>1. UNCHANGED <<cached, said, streamVars>> /\ upset' \in BOOLEAN
  BY DEF Interrupts, Commit, Announce, Silent, TypeOK
<1>2. total' \in Totals
  BY DEF Interrupts, Commit, Announce, Silent, TypeOK
<1>3. /\ [Idle EXCEPT !.pc = "synced"] \in Locals
      /\ [Idle EXCEPT !.pc = "sum", !.raced = At(Working) # {}] \in Locals
  BY DEF Idle, Locals, Pcs, Working
<1>4. calc' \in [Recalcs -> Locals]
  BY <1>3, OverlappedTypes DEF Interrupts, Commit, Announce, Silent
<1>5. QED
  BY <1>1, <1>2, <1>4 DEF TypeOK, streamVars

LEMMA XaddTypes ==
  ASSUME TypeOK, Numbered, NEW e \in Events, Xadd(e)
  PROVE  stream' \in Seq(Events) /\ missed' \in SUBSET Events
         /\ crossed' \in SUBSET Events
<1>1. stream \in Seq(Events) /\ missed \subseteq Events /\ crossed \subseteq Events
  BY DEF TypeOK
<1>2. PICK n \in 0..Len(stream) :
         stream' = Append(SubSeq(stream, n + 1, Len(stream)), e)
  BY DEF Xadd
<1>3. SubSeq(stream, n + 1, Len(stream)) \in Seq(Events)
  BY <1>1, SuffixOrder DEF Suffix
<1>4. stream' \in Seq(Events)
  BY <1>2, <1>3, StreamTypes
<1>5. missed' \in SUBSET Events
  BY <1>1, StreamTypes DEF Xadd
<1>6. Pending \subseteq Events
  BY DEF Pending, At, Numbered, Events, TypeOK, OnTheWay
<1>7. crossed' \in SUBSET Events
  BY <1>1, <1>6 DEF Xadd
<1>8. QED
  BY <1>4, <1>5, <1>7

LEMMA StepTypes ==
  ASSUME TypeOK, Numbered, NEW r \in Recalcs, StepOf(r)
  PROVE  TypeOK'
<1> USE DEF TypeOK, worthVars, streamVars, Continue
<1>1. CASE Sum(r)
  <2>1. [calc[r] EXCEPT !.pc = "get", !.sum = total] \in Locals
    BY CalcTypes DEF Locals, Pcs, Working
  <2>2. QED
    BY <1>1, <2>1 DEF Sum
<1>2. CASE GetPrevious(r)
  <2>1. /\ [calc[r] EXCEPT !.pc = "set", !.prev = cached] \in Locals
        /\ [calc[r] EXCEPT !.pc = "set", !.prev = 0, !.raced = TRUE] \in Locals
    BY CalcTypes DEF Locals, Pcs, Working
  <2>2. QED
    BY <1>2, <2>1 DEF GetPrevious
<1>3. CASE SetCurrent(r)
  <2>1. \A x \in BOOLEAN :
           [calc[r] EXCEPT !.pc = "publish", !.raced = x] \in Locals
    BY CalcTypes DEF Locals, Pcs, Working
  <2>2. calc' \in [Recalcs -> Locals]
    BY <1>3, <2>1, CalcTypes, IdleTypes DEF SetCurrent
  <2>3. QED
    BY <1>3, <2>2, CalcTypes DEF SetCurrent
<1>4. CASE Publish(r)
  <2>1. sent + 1 \in Events /\ sent' \in 0..MaxEvents
    BY <1>4 DEF Publish, Events
  <2>2. /\ [Idle EXCEPT !.pc = "store", !.event = sent + 1] \in Locals
        /\ [Idle EXCEPT !.pc = "republish", !.event = sent + 1,
                        !.sum = calc[r].sum] \in Locals
    BY <2>1, CalcTypes DEF Idle, Locals, Pcs, Sending
  <2>3. client' \in Clients
    BY <1>4, <2>1, ReceiveTypes DEF Publish
  <2>4. missed' \in SUBSET Events
    BY <1>4, <2>1 DEF Publish
  <2>5. calc' \in [Recalcs -> Locals]
    BY <1>4, <2>2 DEF Publish
  <2>6. QED
    BY <1>4, <2>1, <2>3, <2>4, <2>5, CalcTypes DEF Publish
<1>5. CASE Republish(r)
  <2>1. calc[r].event \in Events
    BY <1>5 DEF Republish, Numbered, Events, OnTheWay, Sending
  <2>2. [Idle EXCEPT !.pc = "store", !.event = calc[r].event] \in Locals
    BY <2>1 DEF Idle, Locals, Pcs, Sending
  <2>3. client' \in Clients
    BY <1>5, <2>1, ReceiveTypes DEF Republish
  <2>4. QED
    BY <1>5, <2>1, <2>2, <2>3, CalcTypes DEF Republish
<1>6. CASE Store(r) \/ StoreAgain(r)
  <2>1. calc[r].event \in Events
    BY <1>6 DEF Store, StoreAgain, Numbered, Events, OnTheWay, Sending
  <2>2. Xadd(calc[r].event)
    BY <1>6 DEF Store, StoreAgain
  <2>3. /\ stream' \in Seq(Events) /\ missed' \in SUBSET Events
        /\ crossed' \in SUBSET Events
    BY <2>1, <2>2, XaddTypes
  <2>4. [calc[r] EXCEPT !.pc = "restore"] \in Locals
    BY CalcTypes DEF Locals, Pcs
  <2>5. calc' \in [Recalcs -> Locals]
    BY <1>6, <2>4, IdleTypes DEF Store, StoreAgain
  <2>6. resent' \in SUBSET Events
    BY <1>6, <2>1 DEF Store, StoreAgain
  <2>7. QED
    BY <1>6, <2>3, <2>5, <2>6 DEF Store, StoreAgain
<1>7. CASE Abandon(r)
  <2>1. calc[r].pc \in Sending => calc[r].event \in Events
    BY DEF Numbered, Events, OnTheWay
  <2>2. QED
    BY <1>7, <2>1, IdleTypes, CalcTypes DEF Abandon
<1>8. QED
  BY <1>1, <1>2, <1>3, <1>4, <1>5, <1>6, <1>7 DEF StepOf, WorkOf

LEMMA ClientTypes ==
  ASSUME TypeOK, Numbered, ClientStep \/ StreamExpires
  PROVE  TypeOK'
<1> USE DEF TypeOK, worthVars, streamVars
<1>1. CASE StreamExpires
  BY <1>1, StreamTypes DEF StreamExpires
<1>2. CASE Connect
  <2>1. \A i \in Places : /\ Missed(i) \in Seq(Events)
                          /\ {stream[j] : j \in 1..(i - 1)} \subseteq Events
    BY SuffixOrder DEF Missed, Places, Suffix
  <2>2. client' \in Clients
    BY <1>2, <2>1 DEF Connect, Clients
  <2>3. Pending \subseteq Events /\ 1..sent \subseteq Events
    BY DEF Pending, At, Numbered, Events, OnTheWay
  <2>4. missed' \in SUBSET Events
    BY <1>2, <2>1, <2>3 DEF Connect
  <2>5. QED
    BY <1>2, <2>2, <2>4 DEF Connect
<1>3. CASE Subscribe
  BY <1>3 DEF Subscribe, Clients
<1>4. CASE Deliver
  <2>1. Tail(client.box) \in Seq(Events) /\ Head(client.box) \in Events
    BY <1>4, StreamTypes DEF Deliver, Clients
  <2>2. /\ client \in Clients
        /\ client' = [client EXCEPT !.box = Tail(client.box),
                                    !.last = Head(client.box),
                                    !.had = client.had \cup {Head(client.box)}]
    BY <1>4 DEF Deliver
  <2>3. client' \in Clients
    BY <2>1, <2>2 DEF Clients
  <2>4. QED
    BY <1>4, <2>3 DEF Deliver
<1>5. CASE Drop
  <2>1. client \in Clients /\ client' = [client EXCEPT !.pc = "off", !.box = <<>>]
    BY <1>5 DEF Drop
  <2>2. client' \in Clients
    BY <2>1, NoEvents DEF Clients
  <2>3. QED
    BY <1>5, <2>2 DEF Drop
<1>6. QED
  BY <1>1, <1>2, <1>3, <1>4, <1>5 DEF ClientStep

----------------------------------------------------------------------------
(* Recalculations.                                                         *)

(* Steps of others than the calls at work.                                 *)
LEMMA RestInv ==
  ASSUME WorthInv, UNCHANGED <<total, cached>>,
         upset => upset',
         \/ upset'
         \/ UNCHANGED said /\ At({"synced"})' = At({"synced"}),
         \A q \in Recalcs : \/ calc'[q] = calc[q]
                            \/ calc[q].pc \notin Working /\ calc'[q].pc \notin Working
  PROVE  WorthInv'
<1>1. \A S \in SUBSET Working : At(S)' = At(S)
  BY DEF At
<1>2. /\ Working \in SUBSET Working
      /\ {"sum", "get", "set"} \in SUBSET Working
      /\ {"publish"} \in SUBSET Working
  BY DEF Working
<1>3. /\ At(Working)' = At(Working)
      /\ At({"sum", "get", "set"})' = At({"sum", "get", "set"})
      /\ At({"publish"})' = At({"publish"})
  BY <1>1, <1>2
<1>4. \A q \in At(Working) : calc'[q] = calc[q]
  BY DEF At
<1>5. Alone'
  BY <1>3, <1>4 DEF WorthInv, Alone
<1>6. Fresh'
  BY DEF WorthInv, Fresh, Working
<1>7. Announced'
  <2>1. \A q \in At({"publish"}) : calc'[q] = calc[q]
    BY DEF At, Working
  <2>2. CASE upset'
    BY <2>2 DEF Announced
  <2>3. CASE ~upset'
    BY <1>3, <2>1, <2>3 DEF WorthInv, Announced
  <2>4. QED
    BY <2>2, <2>3
<1>8. QED
  BY <1>5, <1>6, <1>7 DEF WorthInv

(* A change or the start of a call, while others may be at work.           *)
LEMMA InterruptWorth ==
  ASSUME TypeOK, WorthInv, Interrupts
  PROVE  WorthInv'
<1>1. UNCHANGED <<cached, said>>
  BY DEF Interrupts, Commit, Announce, Silent
<1>2. /\ At(Working) # {} => upset'
      /\ upset => upset'
  BY DEF Interrupts, Commit, Announce, Silent
<1>3. ASSUME NEW q \in At(Working)
      PROVE  calc'[q].pc = calc[q].pc /\ calc'[q].raced
  <2>1. q \in Recalcs /\ calc[q].pc \in Working
    BY DEF At
  <2>2. calc'[q] = Overlapped[q]
    BY <2>1, OverlappedTypes
       DEF Interrupts, Commit, Announce, Silent, Working
  <2>3. QED
    BY <2>1, <2>2, OverlappedTypes
<1>4. ASSUME NEW q \in Recalcs, q \notin At(Working), calc'[q].pc \in Working
      PROVE  /\ calc'[q].pc = "sum"
             /\ calc'[q].raced = (At(Working) # {})
             /\ \A x \in Recalcs \ {q} : x \notin At(Working) => calc'[x] = calc[x]
             /\ UNCHANGED total
  <2>1. \A x \in Recalcs : x \notin At(Working) => Overlapped[x] = calc[x]
    BY OverlappedTypes DEF At
  <2>2. calc[q].pc \notin Working
    BY <1>4 DEF At
  <2>3. ASSUME NEW r \in Recalcs, NEW t \in Totals, Commit(r, t) PROVE FALSE
    <3>1. calc'[q].pc = "synced" \/ calc'[q] = calc[q]
      BY <1>4, <2>1, <2>3, OverlappedTypes DEF Commit, Idle
    <3>2. QED
      BY <1>4, <2>2, <3>1 DEF Working
  <2>4. ASSUME NEW t \in Totals, Silent(t) PROVE FALSE
    BY <1>4, <2>1, <2>2, <2>4 DEF Silent
  <2>5. PICK r \in Recalcs : Announce(r)
    BY <2>3, <2>4 DEF Interrupts
  <2>6. \A x \in Recalcs \ {r} : calc'[x] = Overlapped[x]
    BY <2>5, OverlappedTypes DEF Announce
  <2>7. q = r
    BY <1>4, <2>1, <2>2, <2>6
  <2>8. calc'[r].pc = "sum" /\ calc'[r].raced = (At(Working) # {})
    BY <2>5, OverlappedTypes DEF Announce, Idle
  <2>9. UNCHANGED total
    BY <2>5 DEF Announce
  <2>10. QED
    BY <2>1, <2>6, <2>7, <2>8, <2>9
<1>5. Alone'
  <2>1. ASSUME NEW q \in At(Working)'
        PROVE  /\ ~calc'[q].raced => At(Working)' = {q}
               /\ calc'[q].raced => upset'
    <3>1. q \in Recalcs /\ calc'[q].pc \in Working
      BY DEF At
    <3>2. CASE q \in At(Working)
      BY <1>2, <1>3, <3>2
    <3>3. CASE q \notin At(Working)
      <4>1. CASE At(Working) # {}
        <5>1. calc'[q].raced
          BY <1>4, <3>1, <3>3, <4>1
        <5>2. QED
          BY <1>2, <4>1, <5>1
      <4>2. CASE At(Working) = {}
        <5>1. ~calc'[q].raced
          BY <1>4, <3>1, <3>3, <4>2
        <5>2. \A x \in Recalcs \ {q} : calc'[x] = calc[x] /\ calc[x].pc \notin Working
          BY <1>4, <3>1, <3>3, <4>2 DEF At
        <5>3. QED
          BY <3>1, <5>1, <5>2 DEF At
      <4>3. QED
        BY <4>1, <4>2
    <3>4. QED
      BY <3>2, <3>3
  <2>2. QED
    BY <2>1 DEF Alone
<1>6. Fresh'
  <2>1. ASSUME NEW q \in Recalcs, ~calc'[q].raced
        PROVE  calc'[q].pc \notin {"get", "set", "publish"}
    BY <1>3, <1>4, <2>1 DEF Working
  <2>2. QED
    BY <2>1 DEF Fresh
<1>7. Announced'
  <2>1. SUFFICES ASSUME ~upset'
                 PROVE  /\ At(Working)' = {} =>
                              /\ cached' = said'
                              /\ At({"synced"})' = {} => cached' = total'
                        /\ \A q \in At({"sum", "get", "set"})' : cached' = said'
                        /\ \A q \in At({"publish"})' : calc'[q].prev = said'
    BY DEF Announced
  <2>2. At(Working) = {} /\ ~upset /\ cached = said
    BY <1>2, <2>1 DEF WorthInv, Announced
  <2>3. At({"publish"})' = {}
    BY <1>4, <2>2 DEF At, Working
  <2>4. ASSUME At(Working)' = {}, At({"synced"})' = {} PROVE cached' = total'
    <3>1. \A r \in Recalcs, t \in Totals : ~Commit(r, t)
      <4>1. SUFFICES ASSUME NEW r \in Recalcs, NEW t \in Totals, Commit(r, t)
                     PROVE  FALSE
        OBVIOUS
      <4>2. calc'[r].pc = "synced"
        BY <4>1, OverlappedTypes DEF Commit, Idle
      <4>3. QED
        BY <2>4, <4>2 DEF At
    <3>2. \A r \in Recalcs : ~Announce(r)
      <4>1. SUFFICES ASSUME NEW r \in Recalcs, Announce(r) PROVE FALSE
        OBVIOUS
      <4>2. calc'[r].pc = "sum"
        BY <4>1, OverlappedTypes DEF Announce, Idle
      <4>3. QED
        BY <2>4, <4>2 DEF At, Working
    <3>3. \A t \in Totals : ~Silent(t)
      BY <2>1 DEF Silent
    <3>4. QED
      BY <3>1, <3>2, <3>3 DEF Interrupts
  <2>5. QED
    BY <1>1, <2>2, <2>3, <2>4
<1>8. QED
  BY <1>5, <1>6, <1>7 DEF WorthInv

(* What the invariant says of the call that takes the next step.           *)
LEMMA WorkerFacts ==
  ASSUME WorthInv, NEW r \in At(Working)
  PROVE  /\ ~calc[r].raced => At(Working) = {r}
         /\ calc[r].raced => upset
         /\ ~upset => At(Working) = {r}
         /\ ~calc[r].raced /\ calc[r].pc \in {"get", "set", "publish"} =>
               calc[r].sum = total
         /\ ~calc[r].raced /\ calc[r].pc = "set" => calc[r].prev = cached
         /\ ~calc[r].raced /\ calc[r].pc = "publish" => cached = calc[r].sum
         /\ ~upset /\ calc[r].pc \in {"sum", "get", "set"} => cached = said
         /\ ~upset /\ calc[r].pc = "publish" => calc[r].prev = said
<1>1. /\ ~calc[r].raced => At(Working) = {r}
      /\ calc[r].raced => upset
  BY DEF WorthInv, Alone
<1>2. r \in Recalcs
  BY DEF At
<1>3. /\ ~calc[r].raced /\ calc[r].pc \in {"get", "set", "publish"} =>
            calc[r].sum = total
      /\ ~calc[r].raced /\ calc[r].pc = "set" => calc[r].prev = cached
      /\ ~calc[r].raced /\ calc[r].pc = "publish" => cached = calc[r].sum
  BY <1>2 DEF WorthInv, Fresh
<1>4. /\ ~upset /\ calc[r].pc \in {"sum", "get", "set"} => cached = said
      /\ ~upset /\ calc[r].pc = "publish" => calc[r].prev = said
  BY <1>2 DEF WorthInv, Announced, At
<1>5. ~upset => At(Working) = {r}
  BY <1>1
<1>6. QED
  BY <1>1, <1>3, <1>4, <1>5

(* A step of r that leaves it at work as l, or done.                       *)
LEMMA MoveWorth ==
  ASSUME TypeOK, WorthInv, NEW r \in At(Working), NEW l \in Locals,
         calc' = [calc EXCEPT ![r] = l], UNCHANGED total,
         l.pc \in Working \/ (l.pc \in {"idle", "store", "republish"} /\ ~l.raced),
         l.pc \in Working => (calc[r].raced => l.raced) /\ (l.raced => upset'),
         (upset => upset') \/ (~upset' /\ At(Working) = {r} /\ l.pc \in Sending),
         l.pc \in Working /\ ~l.raced =>
            /\ l.pc \in {"get", "set", "publish"} => l.sum = total
            /\ l.pc = "set" => l.prev = cached'
            /\ l.pc = "publish" => cached' = l.sum,
         ~upset' /\ At(Working) = {r} =>
            /\ l.pc \notin Working => cached' = total /\ said' = total
            /\ l.pc \in {"sum", "get", "set"} => cached' = said'
            /\ l.pc = "publish" => l.prev = said'
  PROVE  WorthInv'
<1>1. r \in Recalcs /\ calc'[r] = l /\ \A q \in Recalcs \ {r} : calc'[q] = calc[q]
  BY DEF At, TypeOK
<1>2. /\ l.pc \in Working => At(Working)' = At(Working)
      /\ l.pc \notin Working => At(Working)' = At(Working) \ {r}
  BY <1>1 DEF At
<1>3. Alone'
  <2>1. ASSUME NEW q \in At(Working)'
        PROVE  /\ ~calc'[q].raced => At(Working)' = {q}
               /\ calc'[q].raced => upset'
    <3>1. CASE q = r
      <4>1. l.pc \in Working
        BY <1>1, <3>1 DEF At
      <4>2. QED
        BY <1>1, <1>2, <3>1, <4>1, WorkerFacts
    <3>2. CASE q # r
      <4>1. q \in At(Working) /\ calc'[q] = calc[q]
        BY <1>1, <3>2 DEF At
      <4>2. calc[q].raced /\ upset
        BY <3>2, <4>1, WorkerFacts, CalcTypes DEF At
      <4>3. upset'
        BY <3>2, <4>1, <4>2
      <4>4. QED
        BY <4>1, <4>2, <4>3
    <3>3. QED
      BY <3>1, <3>2
  <2>2. QED
    BY <2>1 DEF Alone
<1>4. Fresh'
  <2>1. ASSUME NEW q \in Recalcs \ {r}, ~calc[q].raced
        PROVE  calc[q].pc \notin Working
    BY <2>1, WorkerFacts DEF At
  <2>2. \A q \in Recalcs \ {r} :
           ~calc'[q].raced => calc'[q].pc \notin {"get", "set", "publish"}
    BY <1>1, <2>1 DEF Working
  <2>3. l.pc \in {"get", "set", "publish"} => l.pc \in Working
    BY DEF Working
  <2>4. QED
    BY <1>1, <2>2, <2>3 DEF Fresh
<1>5. Announced'
  <2>1. SUFFICES ASSUME ~upset'
                 PROVE  /\ At(Working)' = {} =>
                              /\ cached' = said'
                              /\ At({"synced"})' = {} => cached' = total'
                        /\ \A q \in At({"sum", "get", "set"})' : cached' = said'
                        /\ \A q \in At({"publish"})' : calc'[q].prev = said'
    BY DEF Announced
  <2>2. At(Working) = {r}
    BY <2>1, WorkerFacts
  <2>3. \A q \in Recalcs : calc'[q].pc \in Working => q = r
    BY <1>2, <2>2 DEF At
  <2>4. At(Working)' = {} => l.pc \notin Working
    BY <1>2
  <2>5. ASSUME NEW q \in Recalcs, calc'[q].pc \in {"sum", "get", "set", "publish"}
        PROVE  q = r
    BY <2>3, <2>5 DEF Working
  <2>6. QED
    BY <1>1, <2>1, <2>2, <2>4, <2>5 DEF At
<1>6. QED
  BY <1>3, <1>4, <1>5 DEF WorthInv

LEMMA StepWorth ==
  ASSUME TypeOK, WorthInv, NEW r \in Recalcs, StepOf(r)
  PROVE  WorthInv'
<1>0. calc[r] \in Locals /\ calc[r].raced \in BOOLEAN /\ Idle \in Locals
  BY CalcTypes, IdleTypes
<1>1. Idle.pc = "idle" /\ ~Idle.raced
  BY DEF Idle
<1>2. CASE Sum(r)
  <2> DEFINE l == [calc[r] EXCEPT !.pc = "get", !.sum = total]
  <2>1. /\ r \in At(Working) /\ calc[r].pc = "sum"
        /\ UNCHANGED <<total, cached, said, upset>>
    BY <1>2 DEF Sum, At, Working, worthVars
  <2>2. /\ l \in Locals /\ l.pc = "get" /\ l.sum = total
        /\ l.raced = calc[r].raced
    BY <1>0 DEF Locals, Pcs, Working, TypeOK
  <2>3. calc' = [calc EXCEPT ![r] = l]
    BY <1>2 DEF Sum, Continue
  <2> HIDE DEF l
  <2>4. "get" \in Working
    BY DEF Working
  <2>5. QED
    BY <2>1, <2>2, <2>3, <2>4, MoveWorth, WorkerFacts
<1>3. CASE GetPrevious(r)
  <2>1. /\ r \in At(Working) /\ calc[r].pc = "get"
        /\ UNCHANGED <<total, cached, said>>
    BY <1>3 DEF GetPrevious, At, Working
  <2>2. "set" \in Working
    BY DEF Working
  <2>3. CASE /\ Continue(r, [calc[r] EXCEPT !.pc = "set", !.prev = cached])
             /\ UNCHANGED upset
    <3> DEFINE l == [calc[r] EXCEPT !.pc = "set", !.prev = cached]
    <3>1. /\ l \in Locals /\ l.pc = "set" /\ l.sum = calc[r].sum
          /\ l.prev = cached /\ l.raced = calc[r].raced
      BY <1>0 DEF Locals, Pcs, Working, TypeOK
    <3>2. calc' = [calc EXCEPT ![r] = l]
      BY <2>3 DEF Continue
    <3> HIDE DEF l
    <3>3. QED
      BY <2>1, <2>2, <2>3, <3>1, <3>2, MoveWorth, WorkerFacts
  <2>4. CASE /\ Continue(r, [calc[r] EXCEPT !.pc = "set", !.prev = 0,
                                           !.raced = TRUE])
             /\ upset' = TRUE
    <3> DEFINE l == [calc[r] EXCEPT !.pc = "set", !.prev = 0, !.raced = TRUE]
    <3>1. l \in Locals /\ l.pc = "set" /\ l.raced
      BY <1>0 DEF Locals, Pcs, Working
    <3>2. calc' = [calc EXCEPT ![r] = l]
      BY <2>4 DEF Continue
    <3> HIDE DEF l
    <3>3. QED
      BY <2>1, <2>2, <2>4, <3>1, <3>2, MoveWorth
  <2>5. QED
    BY <1>3, <2>3, <2>4 DEF GetPrevious
<1>4. CASE SetCurrent(r)
  <2> DEFINE next(raced) == IF calc[r].sum = calc[r].prev THEN Idle
                            ELSE [calc[r] EXCEPT !.pc = "publish",
                                                 !.raced = raced]
  <2>1. /\ r \in At(Working) /\ calc[r].pc = "set" /\ UNCHANGED <<total, said>>
    BY <1>4 DEF SetCurrent, At, Working
  <2>2. ASSUME NEW x \in BOOLEAN
        PROVE  /\ next(x) \in Locals
               /\ \/ calc[r].sum = calc[r].prev /\ next(x) = Idle
                  \/ /\ next(x).pc = "publish" /\ next(x).raced = x
                     /\ next(x).sum = calc[r].sum
                     /\ next(x).prev = calc[r].prev
    BY <1>0 DEF Locals, Pcs, Working
  <2>3. "publish" \in Working /\ "idle" \notin Working
    BY DEF Working
  <2>4. CASE /\ cached' = calc[r].sum
             /\ Continue(r, next(calc[r].raced))
             /\ UNCHANGED upset
    <3> DEFINE l == next(calc[r].raced)
    <3>1. /\ l \in Locals
          /\ \/ calc[r].sum = calc[r].prev /\ l = Idle
             \/ /\ l.pc = "publish" /\ l.raced = calc[r].raced
                /\ l.sum = calc[r].sum /\ l.prev = calc[r].prev
      BY <1>0, <2>2
    <3>2. calc' = [calc EXCEPT ![r] = l]
      BY <2>4 DEF Continue
    <3> HIDE DEF next, l
    <3>3. ~upset => ~calc[r].raced
      BY <2>1, WorkerFacts
    <3>4. QED
      BY <1>1, <2>1, <2>3, <2>4, <3>1, <3>2, <3>3, MoveWorth, WorkerFacts
  <2>5. CASE Continue(r, next(TRUE)) /\ upset' = TRUE
    <3> DEFINE l == next(TRUE)
    <3>1. l \in Locals /\ (l = Idle \/ (l.pc = "publish" /\ l.raced))
      BY <2>2
    <3>2. calc' = [calc EXCEPT ![r] = l]
      BY <2>5 DEF Continue
    <3> HIDE DEF next, l
    <3>3. QED
      BY <1>1, <2>1, <2>3, <2>5, <3>1, <3>2, MoveWorth
  <2>6. QED
    BY <1>4, <2>4, <2>5 DEF SetCurrent
<1>5. CASE Publish(r)
  <2>1. /\ r \in At(Working) /\ calc[r].pc = "publish"
        /\ UNCHANGED <<total, cached>>
        /\ said' = calc[r].sum /\ upset' = calc[r].raced
    BY <1>5 DEF Publish, At, Working
  <2>2. PICK l \in Locals : /\ l.pc \in Sending /\ ~l.raced
                            /\ calc' = [calc EXCEPT ![r] = l]
    <3>1. sent + 1 \in Events
      BY <1>5 DEF Publish, TypeOK, Events
    <3>2. \E l \in {[Idle EXCEPT !.pc = "store", !.event = sent + 1],
                   [Idle EXCEPT !.pc = "republish", !.event = sent + 1,
                                !.sum = calc[r].sum]} :
             calc' = [calc EXCEPT ![r] = l]
      BY <1>5 DEF Publish, Continue
    <3>3. \A l \in {[Idle EXCEPT !.pc = "store", !.event = sent + 1],
                   [Idle EXCEPT !.pc = "republish", !.event = sent + 1,
                                !.sum = calc[r].sum]} :
             l \in Locals /\ l.pc \in Sending /\ ~l.raced
      BY <3>1, CalcTypes DEF Idle, Locals, Pcs, Sending
    <3>4. QED
      BY <3>2, <3>3
  <2>3. \A pc \in Sending : pc \notin Working /\ pc \in {"store", "republish"}
    BY DEF Working, Sending
  <2>4. l.pc \notin Working
    BY <2>2, <2>3
  <2>5. l.pc \in {"idle", "store", "republish"} /\ ~l.raced
    BY <2>2, <2>3
  <2>6. (upset => upset') \/ (~upset' /\ At(Working) = {r} /\ l.pc \in Sending)
    BY <1>0, <2>1, <2>2, WorkerFacts
  <2>7. ~upset' => cached' = total /\ said' = total
    BY <1>0, <2>1, WorkerFacts
  <2>8. l.pc \notin {"sum", "get", "set", "publish"}
    BY <2>4 DEF Working
  <2>9. QED
    BY <2>1, <2>2, <2>4, <2>5, <2>6, <2>7, <2>8, MoveWorth
<1>6. CASE Republish(r)
  <2>1. /\ calc[r].pc = "republish" /\ calc'[r].pc = "store"
        /\ \A q \in Recalcs \ {r} : calc'[q] = calc[q]
        /\ UNCHANGED <<total, cached>>
        /\ upset => upset'
        /\ upset' \/ UNCHANGED said
    BY <1>6 DEF Republish, Continue, TypeOK, Idle
  <2>2. calc[r].pc \notin Working /\ calc'[r].pc \notin Working
    BY <2>1 DEF Working
  <2>3. At({"synced"})' = At({"synced"})
    BY <2>1 DEF At
  <2>4. QED
    BY <2>1, <2>2, <2>3, RestInv
<1>7. CASE Store(r) \/ StoreAgain(r)
  <2>1. /\ calc[r].pc \in {"store", "restore"}
        /\ calc'[r].pc \in {"idle", "restore"}
    BY <1>0, <1>1, <1>7 DEF Store, StoreAgain, Continue, TypeOK, Locals
  <2>2. /\ \A q \in Recalcs \ {r} : calc'[q] = calc[q]
        /\ UNCHANGED <<total, cached, said, upset>>
    BY <1>7 DEF Store, StoreAgain, Continue, TypeOK, worthVars
  <2>3. At({"synced"})' = At({"synced"})
    BY <2>1, <2>2 DEF At
  <2>4. calc[r].pc \notin Working /\ calc'[r].pc \notin Working
    BY <2>1 DEF Working
  <2>5. QED
    BY <2>2, <2>3, <2>4, RestInv
<1>8. CASE Abandon(r)
  <2>1. /\ calc' = [calc EXCEPT ![r] = Idle] /\ calc'[r] = Idle
        /\ \A q \in Recalcs \ {r} : calc'[q] = calc[q]
        /\ UNCHANGED <<total, cached, said>>
        /\ upset' = (upset \/ calc[r].pc \in Working \cup {"synced"})
        /\ "idle" \notin Working
    BY <1>8 DEF Abandon, Continue, TypeOK, Working
  <2>2. CASE calc[r].pc \in Working
    <3>1. r \in At(Working) /\ upset'
      BY <2>1, <2>2 DEF At
    <3>2. QED
      BY <1>0, <1>1, <2>1, <3>1, MoveWorth
  <2>3. CASE calc[r].pc \notin Working
    <3>1. upset' \/ At({"synced"})' = At({"synced"})
      BY <1>1, <2>1, <2>3 DEF At
    <3>2. upset' \/ UNCHANGED <<said, upset>>
      BY <2>1, <2>3 DEF TypeOK
    <3>3. QED
      BY <1>1, <2>1, <2>3, <3>1, <3>2, RestInv
  <2>4. QED
    BY <2>2, <2>3
<1>9. QED
  BY <1>2, <1>3, <1>4, <1>5, <1>6, <1>7, <1>8 DEF StepOf, WorkOf

LEMMA ClientWorth ==
  ASSUME WorthInv, ClientStep \/ StreamExpires
  PROVE  WorthInv'
<1>1. UNCHANGED worthVars /\ UNCHANGED calc
  BY DEF ClientStep, Connect, Subscribe, Deliver, Drop, StreamExpires
<1>2. UNCHANGED <<total, cached, said, upset>> /\ At({"synced"})' = At({"synced"})
  BY <1>1 DEF worthVars, At
<1>3. QED
  BY <1>1, <1>2, RestInv

----------------------------------------------------------------------------
(* Deliveries.                                                             *)

(* Steps that change neither the stream nor the client, nor who sends.     *)
LEMMA AsideInv ==
  ASSUME DeliveryInv, UNCHANGED streamVars,
         \A q \in Recalcs :
            \/ calc'[q] = calc[q]
            \/ /\ calc[q].pc \notin OnTheWay /\ calc'[q].pc \notin OnTheWay
            \/ calc'[q].pc = calc[q].pc /\ calc'[q].event = calc[q].event
  PROVE  DeliveryInv'
<1>1. Pending' = Pending
  BY DEF Pending, At, OnTheWay
<1>2. UNCHANGED <<sent, stream, client, crossed, resent, missed>>
  BY DEF streamVars
<1>3. \A q \in Recalcs : calc'[q].pc \in OnTheWay =>
         calc'[q].pc = calc[q].pc /\ calc'[q].event = calc[q].event
  OBVIOUS
<1>4. Numbered'
  BY <1>2, <1>3 DEF DeliveryInv, Numbered, In
<1>5. Odd' = Odd
  BY <1>2 DEF Odd
<1>6. Kept' /\ Ordered'
  BY <1>1, <1>2, <1>5 DEF DeliveryInv, Kept, Ordered, In, Prec
<1>7. Forward' /\ Coming'
  BY <1>1, <1>2, <1>5 DEF DeliveryInv, Forward, Coming, In, Prec
<1>8. Leading'
  BY <1>2 DEF DeliveryInv, Leading, Leads, In, Prec, Before
<1>9. Covered'
  BY <1>1, <1>2 DEF DeliveryInv, Covered, In, Prec
<1>10. QED
  BY <1>4, <1>6, <1>7, <1>8, <1>9 DEF DeliveryInv

(* The events that calls are about to store.                               *)
LEMMA PendingIs ==
  ASSUME TypeOK, Numbered
  PROVE  /\ \A e : e \in Pending <=>
               \E q \in Recalcs : calc[q].pc \in Sending /\ calc[q].event = e
         /\ \A e \in Pending : e \in 1..sent /\ e \in Events /\ ~In(stream, e)
         /\ 1..sent \subseteq Events
         /\ \A q \in Recalcs : calc[q].pc \in OnTheWay =>
               /\ calc[q].event \in 1..sent /\ calc[q].event \in Events
               /\ calc[q].pc \in Sending => calc[q].event \in Pending
               /\ calc[q].pc \notin Sending => calc[q].event \notin Pending
<1>1. \A e : e \in Pending <=>
         \E q \in Recalcs : calc[q].pc \in Sending /\ calc[q].event = e
  BY DEF Pending, At
<1>2. 1..sent \subseteq Events
  BY DEF TypeOK, Events
<1>3. \A e \in Pending : e \in 1..sent /\ e \in Events /\ ~In(stream, e)
  BY <1>1, <1>2 DEF Numbered, OnTheWay
<1>4. ASSUME NEW q \in Recalcs, calc[q].pc \in OnTheWay
      PROVE  /\ calc[q].event \in 1..sent /\ calc[q].event \in Events
             /\ calc[q].pc \in Sending => calc[q].event \in Pending
             /\ calc[q].pc \notin Sending => calc[q].event \notin Pending
  <2>1. \A x \in Recalcs \ {q} :
           calc[x].pc \in OnTheWay => calc[x].event # calc[q].event
    BY <1>4 DEF Numbered
  <2>2. Sending \subseteq OnTheWay
    BY DEF OnTheWay
  <2>3. calc[q].event \in 1..sent /\ calc[q].event \in Events
    BY <1>2, <1>4 DEF Numbered
  <2>4. QED
    BY <1>1, <2>1, <2>2, <2>3
<1>5. QED
  BY <1>1, <1>2, <1>3, <1>4

LEMMA PendingAfter ==
  ASSUME TypeOK, Numbered, NEW r \in Recalcs, NEW l \in Locals,
         calc' = [calc EXCEPT ![r] = l]
  PROVE  \A e : e \in Pending' <=>
            \/ l.pc \in Sending /\ e = l.event
            \/ e \in Pending /\ ~(calc[r].pc \in Sending /\ calc[r].event = e)
<1>1. \A q \in Recalcs : calc'[q] = IF q = r THEN l ELSE calc[q]
  BY DEF TypeOK
<1>2. \A e : e \in Pending' <=>
         \E q \in Recalcs : calc'[q].pc \in Sending /\ calc'[q].event = e
  BY DEF Pending, At
<1>3. ASSUME NEW q \in Recalcs, calc[q].pc \in Sending, q # r
      PROVE  ~(calc[r].pc \in Sending /\ calc[r].event = calc[q].event)
  BY <1>3 DEF Numbered, OnTheWay
<1>4. QED
  BY <1>1, <1>2, <1>3, PendingIs

(* r goes on with its event, or is done, or begins with a new one.         *)
LEMMA NumberedAfter ==
  ASSUME TypeOK, Numbered, NEW r \in Recalcs, NEW l \in Locals,
         calc' = [calc EXCEPT ![r] = l], sent' \in {sent, sent + 1},
         l.pc \in OnTheWay =>
            /\ \/ calc[r].pc \in OnTheWay /\ l.event = calc[r].event
               \/ l.event = sent + 1 /\ sent' = sent + 1
            /\ l.pc \in Sending => ~In(stream', l.event),
         \A e : In(stream', e) => \/ In(stream, e)
                                  \/ /\ calc[r].pc \in OnTheWay
                                     /\ e = calc[r].event
  PROVE  Numbered'
<1>1. \A q \in Recalcs : calc'[q] = IF q = r THEN l ELSE calc[q]
  BY DEF TypeOK
<1>2. /\ 1..sent \subseteq 1..sent'
      /\ sent + 1 \notin 1..sent
      /\ sent' = sent + 1 => sent + 1 \in 1..sent'
  BY DEF TypeOK
<1>3. ASSUME NEW q \in Recalcs \ {r}, calc[q].pc \in OnTheWay
      PROVE  /\ calc[q].event \in 1..sent /\ calc[q].event # sent + 1
             /\ calc[q].pc \in Sending => ~In(stream, calc[q].event)
             /\ \A x \in Recalcs \ {q} :
                   calc[x].pc \in OnTheWay => calc[x].event # calc[q].event
  <2>1. /\ calc[q].event \in 1..sent
        /\ calc[q].pc \in Sending => ~In(stream, calc[q].event)
        /\ \A x \in Recalcs \ {q} :
              calc[x].pc \in OnTheWay => calc[x].event # calc[q].event
    BY <1>3 DEF Numbered
  <2>2. QED
    BY <1>2, <2>1
<1>4. l.pc \in OnTheWay => l.event \in 1..sent'
  BY <1>2 DEF Numbered
<1>5. ASSUME NEW q \in Recalcs, calc'[q].pc \in OnTheWay
      PROVE  /\ calc'[q].event \in 1..sent'
             /\ calc'[q].pc \in Sending => ~In(stream', calc'[q].event)
             /\ \A x \in Recalcs \ {q} :
                   calc'[x].pc \in OnTheWay => calc'[x].event # calc'[q].event
  <2>1. CASE q = r
    <3>1. calc'[q] = l /\ l.pc \in OnTheWay
      BY <1>1, <1>5, <2>1
    <3>2. \A x \in Recalcs \ {q} :
             calc[x].pc \in OnTheWay => calc[x].event # l.event
      BY <1>3, <2>1, <3>1
    <3>3. QED
      BY <1>1, <1>4, <2>1, <3>1, <3>2
  <2>2. CASE q # r
    <3>1. calc'[q] = calc[q] /\ calc[q].pc \in OnTheWay
      BY <1>1, <1>5, <2>2
    <3>2. l.pc \in OnTheWay => l.event # calc[q].event
      BY <1>3, <2>2, <3>1
    <3>3. \A x \in Recalcs \ {q} :
             calc'[x].pc \in OnTheWay => calc'[x].event # calc[q].event
      BY <1>1, <1>3, <2>2, <3>1, <3>2
    <3>4. calc[q].pc \in Sending => ~In(stream', calc[q].event)
      BY <1>3, <2>2, <3>1
    <3>5. calc[q].event \in 1..sent'
      BY <1>2, <1>3, <2>2, <3>1
    <3>6. QED
      BY <3>1, <3>3, <3>4, <3>5
  <2>3. QED
    BY <2>1, <2>2
<1>6. QED
  BY <1>5 DEF Numbered, In

(* What a client that is subscribed gets.                                  *)
LEMMA ReceiveOrder ==
  ASSUME client \in Clients, NEW e \in Events, NEW c, c = Receive(e)
  PROVE  /\ c.pc = client.pc /\ c.last = client.last /\ c.had = client.had
         /\ client.pc # "live" => c.box = client.box
         /\ \A a, b :
               /\ In(c.box, a) => In(client.box, a) \/ (a = e /\ client.pc = "live")
               /\ In(client.box, a) => In(c.box, a)
               /\ client.pc = "live" => In(c.box, e)
               /\ Prec(c.box, a, b) =>
                     \/ Prec(client.box, a, b)
                     \/ In(client.box, a) /\ b = e /\ client.pc = "live"
               /\ Before(client.box, a, b) => Before(c.box, a, b)
               /\ client.pc = "live" /\ In(client.box, a) /\ ~In(client.box, e) =>
                     Before(c.box, a, e)
<1>1. /\ c.pc = client.pc /\ c.last = client.last /\ c.had = client.had
      /\ c.box = IF client.pc = "live" THEN Append(client.box, e) ELSE client.box
  BY DEF Receive, Clients
<1>2. client.box \in Seq(Events)
  BY DEF Clients
<1>3. CASE client.pc = "live"
  <2>1. ASSUME NEW a, NEW b
        PROVE  /\ In(Append(client.box, e), a) <=> In(client.box, a) \/ a = e
               /\ Prec(Append(client.box, e), a, b) =>
                     Prec(client.box, a, b) \/ (In(client.box, a) /\ b = e)
               /\ Before(client.box, a, b) => Before(Append(client.box, e), a, b)
               /\ In(client.box, a) /\ ~In(client.box, e) =>
                     Before(Append(client.box, e), a, e)
    BY <1>2, AppendOrder
  <2>2. c.box = Append(client.box, e)
    BY <1>1, <1>3
  <2>3. In(c.box, e)
    BY <2>1, <2>2, Zenon
  <2>4. QED
    BY <1>1, <1>3, <2>1, <2>2, <2>3, Zenon
<1>4. CASE client.pc # "live"
  BY <1>1, <1>4
<1>5. QED
  BY <1>3, <1>4

LEMMA PublishDelivery ==
  ASSUME TypeOK, DeliveryInv, NEW r \in Recalcs, Publish(r)
  PROVE  DeliveryInv'
<1> DEFINE e == sent + 1
<1>1. /\ sent' = e /\ e \in Events /\ e \in Nat /\ sent \in Nat
      /\ UNCHANGED <<stream, crossed, resent>> /\ calc[r].pc = "publish"
  BY DEF Publish, TypeOK, Events
<1>2. PICK l \in Locals : /\ l.pc \in Sending /\ l.event = e
                          /\ calc' = [calc EXCEPT ![r] = l]
  <2>1. \E l \in {[Idle EXCEPT !.pc = "store", !.event = e],
                  [Idle EXCEPT !.pc = "republish", !.event = e,
                               !.sum = calc[r].sum]} :
           calc' = [calc EXCEPT ![r] = l]
    BY DEF Publish, Continue
  <2>2. \A l \in {[Idle EXCEPT !.pc = "store", !.event = e],
                  [Idle EXCEPT !.pc = "republish", !.event = e,
                               !.sum = calc[r].sum]} :
           l \in Locals /\ l.pc \in Sending /\ l.event = e
    BY <1>1, CalcTypes DEF Idle, Locals, Pcs, Sending
  <2>3. QED
    BY <2>1, <2>2
<1>3. client' = Receive(e) /\ client \in Clients
  BY DEF Publish, TypeOK
<1>4. missed' = IF client.pc = "replay" THEN missed \cup {e} ELSE missed
  BY DEF Publish
<1>5. \A x \in 1..sent : x < e /\ x \in 1..sent' /\ x \in Events
  BY <1>1, PendingIs DEF DeliveryInv
<1>6. e \in 1..sent' /\ e \notin 1..sent /\ client.last < e /\ client.last \in 0..sent'
      /\ \A x \in 1..sent' : x \in 1..sent \/ x = e
  BY <1>1 DEF DeliveryInv, Coming
<1> HIDE DEF e
<1>7. \A x : x \in Pending' <=> x \in Pending \/ x = e
  <2>1. calc[r].pc \notin Sending
    BY <1>1 DEF Sending
  <2>2. QED
    BY <1>2, <2>1, PendingAfter DEF DeliveryInv
<1>8. /\ \A x : In(stream, x)' <=> In(stream, x)
      /\ \A x, y : Prec(stream, x, y)' <=> Prec(stream, x, y)
      /\ ~In(stream, e) /\ \A x : ~Prec(stream, x, e)
      /\ Odd' = Odd
  <2>1. ~In(stream, e)
    BY <1>1, <1>6 DEF DeliveryInv, Ordered
  <2>2. QED
    BY <1>1, <2>1, InPrec DEF In, Prec, Odd
<1>9. Numbered'
  <2>1. \A x : In(stream', x) => In(stream, x)
    BY <1>1
  <2>2. ~In(stream', e)
    BY <1>1, <1>8
  <2>3. e = sent + 1
    BY DEF e
  <2>4. QED
    BY <1>1, <1>2, <2>1, <2>2, <2>3, NumberedAfter DEF DeliveryInv
<1>10. Kept'
  BY <1>4, <1>6, <1>7, <1>8 DEF DeliveryInv, Kept
<1>11. Ordered'
  <2>1. ASSUME NEW a \in Events, NEW b \in Events
        PROVE  /\ In(stream, a) => a \in 1..sent'
               /\ Prec(stream, b, b) => b \in resent
               /\ Prec(stream, a, b) => a < b \/ b \in Odd
               /\ In(stream, a) /\ b \in Pending' /\ a > b =>
                     a \in missed' /\ b \in crossed
    <3>1. In(stream, a) => a \in 1..sent' /\ a < e
      BY <1>5 DEF DeliveryInv, Ordered
    <3>2. In(stream, a) /\ b \in Pending' /\ a > b =>
             a \in missed' /\ b \in crossed
      <4>1. In(stream, a) => ~(a > e)
        BY <1>1, <3>1 DEF Events
      <4>2. QED
        BY <1>4, <1>7, <4>1 DEF DeliveryInv, Ordered
    <3>3. QED
      BY <3>1, <3>2 DEF DeliveryInv, Ordered
  <2>2. QED
    BY <1>1, <1>8, <2>1 DEF Ordered
<1>12. /\ client'.pc = client.pc /\ client'.last = client.last
       /\ client'.had = client.had
       /\ client.pc # "live" => client'.box = client.box
       /\ \A a, b :
             /\ In(client'.box, a) =>
                   In(client.box, a) \/ (a = e /\ client.pc = "live")
             /\ In(client.box, a) => In(client'.box, a)
             /\ client.pc = "live" => In(client'.box, e)
             /\ Prec(client'.box, a, b) =>
                   \/ Prec(client.box, a, b)
                   \/ In(client.box, a) /\ b = e /\ client.pc = "live"
             /\ Before(client.box, a, b) => Before(client'.box, a, b)
             /\ client.pc = "live" /\ In(client.box, a) /\ ~In(client.box, e) =>
                   Before(client'.box, a, e)
  BY <1>1, <1>3, ReceiveOrder
<1>13. \A a \in Events : In(client.box, a) => a \in 1..sent
  BY DEF DeliveryInv, Forward
<1>14. Forward'
  <2>1. ASSUME NEW a \in Events, In(client'.box, a)
        PROVE  /\ a \in 1..sent'
               /\ a > client.last \/ a \in Odd
               /\ client.pc = "replay" => a \notin Pending'
    <3>1. CASE In(client.box, a)
      <4>1. a \in 1..sent /\ a # e
        BY <1>6, <1>13, <3>1
      <4>2. QED
        BY <1>5, <1>7, <3>1, <4>1 DEF DeliveryInv, Forward
    <3>2. CASE a = e /\ client.pc = "live"
      BY <1>1, <1>6, <3>2 DEF DeliveryInv, Coming
    <3>3. QED
      BY <1>12, <2>1, <3>1, <3>2
  <2>2. ASSUME NEW a \in Events, NEW b \in Events, Prec(client'.box, a, b)
        PROVE  a < b \/ b \in Odd
    <3>1. CASE Prec(client.box, a, b)
      BY <3>1 DEF DeliveryInv, Forward
    <3>2. CASE In(client.box, a) /\ b = e
      BY <1>5, <1>13, <3>2
    <3>3. QED
      BY <1>12, <2>2, <3>1, <3>2
  <2>3. client'.had \cap Odd' = {} => \A x \in client'.had : x <= client'.last
    BY <1>8, <1>12 DEF DeliveryInv, Forward
  <2>4. QED
    BY <1>8, <1>12, <2>1, <2>2, <2>3 DEF Forward
<1>15. Coming'
  BY <1>6, <1>12 DEF DeliveryInv, Coming
<1>16. ASSUME client.pc # "off", NEW x \in 1..sent'
       PROVE  x \in client.had \cup missed' \/ In(client'.box, x)
  <2>1. CASE x \in 1..sent
    BY <1>4, <1>12, <1>16, <2>1 DEF DeliveryInv, Covered
  <2>2. CASE x = e
    BY <1>3, <1>4, <1>12, <1>16, <2>2 DEF Clients
  <2>3. QED
    BY <1>6, <2>1, <2>2
<1>17. Leading'
  <2>1. ASSUME NEW a \in Events, NEW b \in Events, In(client'.box, b),
               \/ client.pc = "live" /\ a < b
               \/ b \notin resent /\ Prec(stream, a, b)
        PROVE  a \in client.had \cup missed' \/ Before(client'.box, a, b)
    <3>1. CASE In(client.box, b)
      <4>1. Leads(a, b)
        BY <2>1, <3>1 DEF DeliveryInv, Leading
      <4>2. QED
        BY <1>4, <1>12, <4>1 DEF Leads
    <3>2. CASE ~In(client.box, b)
      <4>1. b = e /\ client.pc = "live" /\ a < e
        BY <1>8, <1>12, <2>1, <3>2
      <4>2. a \in 1..sent
        BY <1>1, <4>1 DEF Events, e
      <4>3. a \in client.had \cup missed \/ In(client.box, a)
        BY <4>1, <4>2 DEF DeliveryInv, Covered
      <4>4. QED
        BY <1>4, <1>12, <3>2, <4>1, <4>3
    <3>3. QED
      BY <3>1, <3>2
  <2>2. QED
    BY <1>1, <1>8, <1>12, <2>1 DEF Leading, Leads
<1>18. Covered'
  <2>1. client.last \in Pending' => client.last \in Pending
    BY <1>1, <1>6, <1>7 DEF DeliveryInv, Coming
  <2>2. QED
    BY <1>1, <1>4, <1>8, <1>12, <1>16, <2>1 DEF DeliveryInv, Covered
<1>19. QED
  BY <1>9, <1>10, <1>11, <1>14, <1>15, <1>17, <1>18 DEF DeliveryInv

LEMMA RepublishDelivery ==
  ASSUME TypeOK, DeliveryInv, NEW r \in Recalcs, Republish(r)
  PROVE  DeliveryInv'
<1> DEFINE e == calc[r].event
           l == [Idle EXCEPT !.pc = "store", !.event = e]
<1>1. /\ calc[r].pc = "republish" /\ calc[r].pc \in Sending
      /\ calc[r].pc \in OnTheWay
      /\ UNCHANGED <<sent, stream, crossed, missed>>
      /\ resent' = resent \cup {e}
      /\ calc' = [calc EXCEPT ![r] = l]
      /\ client' = Receive(e) /\ client \in Clients
  BY DEF Republish, Continue, TypeOK, Sending, OnTheWay
<1>2. e \in 1..sent /\ e \in Events /\ e \in Pending /\ ~In(stream, e)
  BY <1>1, PendingIs DEF DeliveryInv
<1>3. l \in Locals /\ l.pc \in Sending /\ l.event = e /\ l.pc \in OnTheWay
  BY <1>2 DEF Idle, Locals, Pcs, Sending, OnTheWay
<1> HIDE DEF l
<1>4. \A x : x \in Pending' <=> x \in Pending
  BY <1>1, <1>2, <1>3, PendingAfter DEF DeliveryInv
<1>5. Numbered'
  <2>1. \A x : In(stream', x) => In(stream, x)
    BY <1>1
  <2>2. ~In(stream', e)
    BY <1>1, <1>2
  <2>3. QED
    BY <1>1, <1>3, <2>1, <2>2, NumberedAfter DEF DeliveryInv
<1> HIDE DEF e
<1>6. /\ \A x : In(stream, x)' <=> In(stream, x)
      /\ \A x, y : Prec(stream, x, y)' <=> Prec(stream, x, y)
      /\ Odd' = Odd \cup {e}
  BY <1>1 DEF In, Prec, Odd
<1>7. Kept' /\ Ordered'
  BY <1>1, <1>4, <1>6 DEF DeliveryInv, Kept, Ordered
<1>8. /\ client'.pc = client.pc /\ client'.last = client.last
      /\ client'.had = client.had
      /\ client.pc # "live" => client'.box = client.box
      /\ \A a, b :
            /\ In(client'.box, a) =>
                  In(client.box, a) \/ (a = e /\ client.pc = "live")
            /\ In(client.box, a) => In(client'.box, a)
            /\ client.pc = "live" => In(client'.box, e)
            /\ Prec(client'.box, a, b) =>
                  \/ Prec(client.box, a, b)
                  \/ In(client.box, a) /\ b = e /\ client.pc = "live"
            /\ Before(client.box, a, b) => Before(client'.box, a, b)
            /\ client.pc = "live" /\ In(client.box, a) /\ ~In(client.box, e) =>
                  Before(client'.box, a, e)
  BY <1>1, <1>2, ReceiveOrder
<1>9. Forward'
  <2>1. ASSUME NEW a \in Events, In(client'.box, a)
        PROVE  /\ a \in 1..sent
               /\ a > client.last \/ a \in Odd \cup {e}
               /\ client.pc = "replay" => a \notin Pending
    BY <1>2, <1>8, <2>1 DEF DeliveryInv, Forward
  <2>2. ASSUME NEW a \in Events, NEW b \in Events, Prec(client'.box, a, b)
        PROVE  a < b \/ b \in Odd \cup {e}
    BY <1>8, <2>2 DEF DeliveryInv, Forward
  <2>3. client.had \cap (Odd \cup {e}) = {} =>
           \A x \in client.had : x <= client.last
    BY DEF DeliveryInv, Forward
  <2>4. QED
    BY <1>1, <1>4, <1>6, <1>8, <2>1, <2>2, <2>3 DEF Forward
<1>10. Coming'
  BY <1>1, <1>8 DEF DeliveryInv, Coming
<1>11. Leading'
  <2>1. ASSUME NEW a \in Events, NEW b \in Events, In(client'.box, b),
               \/ client.pc = "live" /\ a < b
               \/ b \notin resent' /\ Prec(stream, a, b)
        PROVE  a \in client.had \cup missed \/ Before(client'.box, a, b)
    <3>1. CASE In(client.box, b)
      <4>1. Leads(a, b)
        BY <1>1, <2>1, <3>1 DEF DeliveryInv, Leading
      <4>2. QED
        BY <1>8, <4>1 DEF Leads
    <3>2. CASE ~In(client.box, b)
      <4>1. b = e /\ client.pc = "live" /\ a < e
        BY <1>1, <1>8, <2>1, <3>2
      <4>2. a \in 1..sent
        BY <1>2, <4>1 DEF Events, TypeOK
      <4>3. a \in client.had \cup missed \/ In(client.box, a)
        BY <4>1, <4>2 DEF DeliveryInv, Covered
      <4>4. QED
        BY <1>8, <3>2, <4>1, <4>3
    <3>3. QED
      BY <3>1, <3>2
  <2>2. QED
    BY <1>1, <1>6, <1>8, <2>1 DEF Leading, Leads
<1>12. Covered'
  BY <1>1, <1>4, <1>6, <1>8 DEF DeliveryInv, Covered
<1>13. QED
  BY <1>5, <1>7, <1>9, <1>10, <1>11, <1>12 DEF DeliveryInv

(* The stream with the event e, and without some of its oldest entries.    *)
LEMMA XaddOrder ==
  ASSUME TypeOK, NEW e \in Events, Xadd(e)
  PROVE  /\ \A a : In(stream', a) => In(stream, a) \/ a = e
         /\ In(stream', e)
         /\ \A a : In(stream, a) => In(stream', a) \/ a \in missed'
         /\ \A a, b : Prec(stream', a, b) =>
               \/ Prec(stream, a, b)
               \/ In(stream, a) /\ b = e
<1>1. PICK n \in 0..Len(stream) :
         /\ stream' = Append(SubSeq(stream, n + 1, Len(stream)), e)
         /\ ToSet(stream) \ ToSet(stream') \subseteq missed'
  BY DEF Xadd
<1> DEFINE t == Suffix(stream, n)
<1>2. stream \in Seq(Events)
  BY DEF TypeOK
<1>3. /\ t \in Seq(Events)
      /\ \A a : In(t, a) => In(stream, a)
      /\ \A a, b : Prec(t, a, b) => Prec(stream, a, b)
  BY <1>2, SuffixOrder
<1> HIDE DEF t
<1>4. ASSUME NEW a, NEW b
      PROVE  /\ In(stream', a) <=> In(t, a) \/ a = e
             /\ Prec(stream', a, b) => Prec(t, a, b) \/ (In(t, a) /\ b = e)
  <2>1. stream' = Append(t, e)
    BY <1>1 DEF t, Suffix
  <2>2. /\ In(Append(t, e), a) <=> In(t, a) \/ a = e
        /\ Prec(Append(t, e), a, b) => Prec(t, a, b) \/ (In(t, a) /\ b = e)
    BY <1>3, AppendOrder
  <2>3. QED
    BY <2>1, <2>2
<1>5. ASSUME NEW a, In(stream, a) PROVE In(stream', a) \/ a \in missed'
  <2>1. /\ a \in ToSet(stream)
        /\ a \in ToSet(stream') => In(stream', a)
    BY <1>5 DEF In, ToSet
  <2>2. QED
    BY <1>1, <2>1
<1>6. QED
  BY <1>3, <1>4, <1>5

LEMMA StoreDelivery ==
  ASSUME TypeOK, DeliveryInv, NEW r \in Recalcs, Store(r) \/ StoreAgain(r)
  PROVE  DeliveryInv'
<1> DEFINE e == calc[r].event
           older == {x \in Pending : x < e}
<1>1. /\ calc[r].pc \in {"store", "restore"} /\ calc[r].pc \in OnTheWay
      /\ calc[r].pc \in Sending <=> calc[r].pc = "store"
      /\ UNCHANGED <<sent, client>>
      /\ Xadd(e)
      /\ missed \subseteq missed'
      /\ older # {} => e \in missed'
      /\ crossed' = crossed \cup older
      /\ resent \subseteq resent'
      /\ calc[r].pc = "restore" => e \in resent'
  BY DEF Store, StoreAgain, Xadd, OnTheWay, Sending
<1>2. PICK l \in Locals : /\ l.pc \notin Sending
                          /\ l.pc \in OnTheWay => l.event = e
                          /\ calc' = [calc EXCEPT ![r] = l]
  <2>1. \E l \in {Idle, [calc[r] EXCEPT !.pc = "restore"]} :
           calc' = [calc EXCEPT ![r] = l]
    BY DEF Store, StoreAgain, Continue
  <2>2. ASSUME NEW l \in {Idle, [calc[r] EXCEPT !.pc = "restore"]}
        PROVE  l \in Locals /\ l.pc \notin Sending
               /\ (l.pc \in OnTheWay => l.event = e)
    BY CalcTypes, IdleTypes DEF Locals, Pcs, Sending, OnTheWay
  <2>3. QED
    BY <2>1, <2>2
<1>3. e \in 1..sent /\ e \in Events
      /\ (calc[r].pc = "store" => e \in Pending /\ ~In(stream, e))
      /\ (calc[r].pc = "restore" => e \notin Pending)
  BY <1>1, PendingIs DEF DeliveryInv
<1>4. /\ \A a : In(stream', a) => In(stream, a) \/ a = e
      /\ In(stream', e)
      /\ \A a : In(stream, a) => In(stream', a) \/ a \in missed'
      /\ \A a, b : Prec(stream', a, b) =>
            Prec(stream, a, b) \/ (In(stream, a) /\ b = e)
  BY <1>1, <1>3, XaddOrder
<1>5. \A x : x \in Pending' <=> x \in Pending /\ x # e
  BY <1>1, <1>2, <1>3, PendingAfter DEF DeliveryInv
<1>6. Numbered'
  <2>1. \A x : In(stream', x) =>
           In(stream, x) \/ (calc[r].pc \in OnTheWay /\ x = calc[r].event)
    BY <1>1, <1>4
  <2>2. QED
    BY <1>1, <1>2, <2>1, NumberedAfter DEF DeliveryInv
<1> HIDE DEF e
<1>7. /\ \A x \in Pending : x \in 1..sent /\ x \in Events /\ ~In(stream, x)
      /\ e \in Int /\ Odd \subseteq Odd'
      /\ \A x \in Pending' : x < e => e \in missed' /\ x \in crossed'
  BY <1>1, <1>3, <1>5, PendingIs DEF DeliveryInv, Events, Odd
(* In the stream before e.                                                 *)
<1>8. ASSUME NEW a \in Events, In(stream, a), e \notin resent'
      PROVE  /\ e \in Pending /\ a \in 1..sent /\ a # e
             /\ a > e => a \in missed /\ e \in crossed
  <2>1. e \in Pending /\ ~In(stream, e)
    BY <1>1, <1>3, <1>8
  <2>2. QED
    BY <1>3, <1>8, <2>1 DEF DeliveryInv, Ordered
<1>9. Kept'
  <2>1. \A x \in 1..sent : x \in missed' \/ x \in Pending' \/ In(stream', x)
    BY <1>1, <1>4, <1>5 DEF DeliveryInv, Kept
  <2>2. QED
    BY <1>1, <2>1 DEF Kept, In
<1>10. Ordered'
  <2>1. ASSUME NEW a \in Events, NEW b \in Events
        PROVE  /\ In(stream', a) => a \in 1..sent
               /\ Prec(stream', b, b) => b \in resent'
               /\ Prec(stream', a, b) => a < b \/ b \in Odd'
               /\ In(stream', a) /\ b \in Pending' /\ a > b =>
                     a \in missed' /\ b \in crossed'
    <3>1. In(stream', a) => a \in 1..sent
      BY <1>3, <1>4 DEF DeliveryInv, Ordered
    <3>2. Prec(stream', b, b) => b \in resent'
      <4>1. Prec(stream, b, b) => b \in resent'
        BY <1>1 DEF DeliveryInv, Ordered
      <4>2. In(stream, b) /\ b = e => b \in resent'
        BY <1>8
      <4>3. QED
        BY <1>4, <4>1, <4>2
    <3>3. Prec(stream', a, b) => a < b \/ b \in Odd'
      <4>1. Prec(stream, a, b) => a < b \/ b \in Odd'
        BY <1>7 DEF DeliveryInv, Ordered
      <4>2. In(stream, a) /\ b = e => a < b \/ b \in Odd'
        <5>1. In(stream, a) => a < e \/ e \in resent' \/ e \in crossed
          BY <1>7, <1>8 DEF Events
        <5>2. QED
          BY <1>1, <5>1 DEF Odd
      <4>3. QED
        BY <1>4, <4>1, <4>2
    <3>4. In(stream', a) /\ b \in Pending' /\ a > b =>
             a \in missed' /\ b \in crossed'
      <4>1. CASE In(stream, a)
        BY <1>1, <1>5, <4>1 DEF DeliveryInv, Ordered
      <4>2. CASE a = e
        BY <1>7, <4>2 DEF Events
      <4>3. QED
        BY <1>4, <4>1, <4>2
    <3>5. QED
      BY <3>1, <3>2, <3>3, <3>4
  <2>2. QED
    BY <1>1, <2>1 DEF Ordered, In, Prec
<1>11. Forward'
  <2>1. ASSUME NEW a \in Events, In(client.box, a)
        PROVE  /\ a \in 1..sent
               /\ a > client.last \/ a \in Odd'
               /\ client.pc = "replay" => a \notin Pending'
    BY <1>5, <1>7, <2>1 DEF DeliveryInv, Forward
  <2>2. ASSUME NEW a \in Events, NEW b \in Events, Prec(client.box, a, b)
        PROVE  a < b \/ b \in Odd'
    BY <1>7, <2>2 DEF DeliveryInv, Forward
  <2>3. client.had \cap Odd' = {} => \A x \in client.had : x <= client.last
    BY <1>7 DEF DeliveryInv, Forward
  <2>4. QED
    BY <1>1, <2>1, <2>2, <2>3 DEF Forward, In, Prec
<1>12. Coming'
  BY <1>1 DEF DeliveryInv, Coming
<1>13. Leading'
  <2>1. ASSUME NEW a \in Events, NEW b \in Events, In(client.box, b),
               \/ client.pc = "live" /\ a < b
               \/ b \notin resent' /\ Prec(stream', a, b)
        PROVE  a \in client.had \cup missed' \/ Before(client.box, a, b)
    <3>1. CASE \/ client.pc = "live" /\ a < b
               \/ b \notin resent /\ Prec(stream, a, b)
      <4>1. Leads(a, b)
        BY <2>1, <3>1 DEF DeliveryInv, Leading
      <4>2. QED
        BY <1>1, <4>1 DEF Leads
    <3>2. CASE b = e /\ e \notin resent' /\ In(stream, a)
      <4>1. e \in Pending /\ a # e /\ (a > e => a \in missed)
        BY <1>8, <3>2
      <4>2. client.pc = "live"
        <5>1. client.pc \in {"off", "replay", "live"}
          BY DEF TypeOK, Clients
        <5>2. client.pc # "off"
          BY <2>1, EmptyOrder DEF DeliveryInv, Coming
        <5>3. client.pc # "replay"
          BY <2>1, <3>2, <4>1 DEF DeliveryInv, Forward
        <5>4. QED
          BY <5>1, <5>2, <5>3
      <4>3. CASE a > e
        BY <1>1, <4>1, <4>3
      <4>4. CASE a < e
        BY <2>1, <3>1, <3>2, <4>2, <4>4
      <4>5. QED
        BY <1>7, <4>1, <4>3, <4>4 DEF Events
    <3>3. QED
      BY <1>1, <1>4, <2>1, <3>1, <3>2
  <2>2. QED
    BY <1>1, <2>1 DEF Leading, Leads, In, Prec, Before
<1>14. Covered'
  <2>1. client.pc # "off" =>
           \A x \in 1..sent : x \in client.had \cup missed' \/ In(client.box, x)
    BY <1>1 DEF DeliveryInv, Covered
  <2>2. ASSUME NEW a \in Events, client.last \notin resent',
               Prec(stream', a, client.last)
        PROVE  a \in client.had \cup missed'
    <3>1. CASE Prec(stream, a, client.last)
      BY <1>1, <2>2, <3>1 DEF DeliveryInv, Covered
    <3>2. CASE In(stream, a) /\ client.last = e
      <4>1. e \in Pending /\ a # e /\ a \in 1..sent /\ (a > e => a \in missed)
        BY <1>8, <2>2, <3>2
      <4>2. CASE a > e
        BY <1>1, <4>1, <4>2
      <4>3. CASE a < e
        <5>1. a \in 1..(client.last - 1)
          BY <1>7, <3>2, <4>1, <4>3 DEF Events
        <5>2. QED
          BY <1>1, <3>2, <4>1, <5>1 DEF DeliveryInv, Covered
      <4>4. QED
        BY <1>7, <4>1, <4>2, <4>3 DEF Events
    <3>3. QED
      BY <1>4, <2>2, <3>1, <3>2
  <2>3. client.last \in Pending' =>
           \A a \in 1..(client.last - 1) : a \in client.had \cup missed'
    BY <1>1, <1>5 DEF DeliveryInv, Covered
  <2>4. QED
    BY <1>1, <2>1, <2>2, <2>3 DEF Covered, In, Prec
<1>15. QED
  BY <1>6, <1>9, <1>10, <1>11, <1>12, <1>13, <1>14 DEF DeliveryInv

LEMMA ExpiresDelivery ==
  ASSUME TypeOK, DeliveryInv, StreamExpires
  PROVE  DeliveryInv'
<1>1. /\ stream' = <<>> /\ UNCHANGED <<calc, sent, client, crossed, resent>>
      /\ missed' = missed \cup ToSet(stream)
  BY DEF StreamExpires
<1>2. \A a, b : ~In(stream', a) /\ ~Prec(stream', a, b)
  BY <1>1, EmptyOrder
<1>3. \A a : In(stream, a) => a \in missed'
  BY <1>1 DEF In, ToSet
<1>4. Pending' = Pending /\ Odd' = Odd
  BY <1>1 DEF Pending, At, Odd
<1>5. Numbered'
  BY <1>1, <1>2 DEF DeliveryInv, Numbered, In
<1>6. Kept'
  <2>1. \A e \in 1..sent : e \in missed' \/ e \in Pending
    BY <1>1, <1>3 DEF DeliveryInv, Kept
  <2>2. QED
    BY <1>1, <1>4, <2>1 DEF Kept
<1>7. \A a, b : ~In(stream, a)' /\ ~Prec(stream, a, b)'
  BY <1>2 DEF In, Prec
<1>8. Ordered'
  BY <1>7 DEF Ordered
<1>9. /\ \A a : In(client.box, a)' <=> In(client.box, a)
      /\ \A a, b : Prec(client.box, a, b)' <=> Prec(client.box, a, b)
      /\ \A a, b : Before(client.box, a, b)' <=> Before(client.box, a, b)
  BY <1>1 DEF In, Prec, Before
<1>10. Forward' /\ Coming'
  BY <1>1, <1>4, <1>9 DEF DeliveryInv, Forward, Coming
<1>11. Leading'
  BY <1>1, <1>7, <1>9 DEF DeliveryInv, Leading, Leads
<1>12. Covered'
  <2>1. \A a : ~Prec(stream, a, client.last)'
    BY <1>2 DEF Prec
  <2>2. QED
    BY <1>1, <1>4, <1>9, <2>1 DEF DeliveryInv, Covered
<1>13. QED
  BY <1>5, <1>6, <1>8, <1>10, <1>11, <1>12 DEF DeliveryInv

LEMMA AbandonDelivery ==
  ASSUME TypeOK, DeliveryInv, NEW r \in Recalcs, Abandon(r)
  PROVE  DeliveryInv'
<1>1. /\ calc' = [calc EXCEPT ![r] = Idle]
      /\ UNCHANGED <<sent, stream, client, crossed, resent>>
      /\ missed \subseteq missed'
      /\ calc[r].pc \in Sending => calc[r].event \in missed'
  BY DEF Abandon, Continue
<1>2. Idle \in Locals /\ Idle.pc \notin OnTheWay /\ Idle.pc \notin Sending
  BY IdleTypes DEF OnTheWay, Sending
<1>3. /\ \A e : e \in Pending' => e \in Pending
      /\ \A e \in Pending : e \in Pending' \/ e \in missed'
  <2>1. \A e : e \in Pending' <=>
           e \in Pending /\ ~(calc[r].pc \in Sending /\ calc[r].event = e)
    BY <1>1, <1>2, PendingAfter DEF DeliveryInv
  <2>2. QED
    BY <1>1, <2>1
<1>4. /\ \A a : In(stream, a)' <=> In(stream, a)
      /\ \A a, b : Prec(stream, a, b)' <=> Prec(stream, a, b)
      /\ \A a : In(client.box, a)' <=> In(client.box, a)
      /\ \A a, b : Prec(client.box, a, b)' <=> Prec(client.box, a, b)
      /\ \A a, b : Before(client.box, a, b)' <=> Before(client.box, a, b)
      /\ \A a : Prec(stream, a, client.last)' <=> Prec(stream, a, client.last)
      /\ Odd' = Odd
  BY <1>1 DEF In, Prec, Before, Odd
<1>5. Numbered'
  <2>1. \A x : In(stream', x) => In(stream, x)
    BY <1>1
  <2>2. QED
    BY <1>1, <1>2, <2>1, NumberedAfter DEF DeliveryInv
<1>6. Kept'
  BY <1>1, <1>3, <1>4 DEF DeliveryInv, Kept
<1>7. Ordered'
  BY <1>1, <1>3, <1>4 DEF DeliveryInv, Ordered
<1>8. Forward' /\ Coming'
  BY <1>1, <1>3, <1>4 DEF DeliveryInv, Forward, Coming
<1>9. Leading'
  BY <1>1, <1>4 DEF DeliveryInv, Leading, Leads
<1>10. Covered'
  BY <1>1, <1>3, <1>4 DEF DeliveryInv, Covered
<1>11. QED
  BY <1>5, <1>6, <1>7, <1>8, <1>9, <1>10 DEF DeliveryInv

(* Steps of the browser's connection.                                      *)
LEMMA ClientKept ==
  ASSUME DeliveryInv, UNCHANGED <<calc, sent, stream, crossed, resent>>,
         missed \subseteq missed'
  PROVE  /\ Pending' = Pending /\ Odd' = Odd
         /\ \A a : In(stream, a)' <=> In(stream, a)
         /\ \A a, b : Prec(stream, a, b)' <=> Prec(stream, a, b)
         /\ Numbered' /\ Kept' /\ Ordered'
<1>1. Pending' = Pending /\ Odd' = Odd
  BY DEF Pending, At, Odd
<1>2. /\ \A a : In(stream, a)' <=> In(stream, a)
      /\ \A a, b : Prec(stream, a, b)' <=> Prec(stream, a, b)
  BY DEF In, Prec
<1>3. Numbered'
  BY DEF DeliveryInv, Numbered, In
<1>4. Kept' /\ Ordered'
  BY <1>1, <1>2 DEF DeliveryInv, Kept, Ordered
<1>5. QED
  BY <1>1, <1>2, <1>3, <1>4

(* The replay is the part of the stream behind a place of the browser's    *)
(* last event.                                                             *)
LEMMA ReplayOrder ==
  ASSUME TypeOK, DeliveryInv, Connect, client'.box # <<>>
  PROVE  /\ \A a : In(client'.box, a) =>
               In(stream, a) /\ Prec(stream, client.last, a)
         /\ \A a, b : Prec(client'.box, a, b) => Prec(stream, a, b)
         /\ \A a, b \in Events :
               In(client'.box, b) /\ Prec(stream, a, b) /\ b \notin resent =>
                  a \in client.had \cup missed' \/ Before(client'.box, a, b)
<1>1. client \in Clients /\ client.pc = "off" /\ client.box = <<>>
      /\ stream \in Seq(Events)
  BY DEF Connect, TypeOK, DeliveryInv, Coming
<1>2. PICK i \in Places :
         /\ client' = [client EXCEPT !.pc = "replay", !.box = Missed(i)]
         /\ missed' = missed \cup Pending \cup
               (IF client.last \in resent
                THEN {stream[j] : j \in 1..(i - 1)} ELSE {})
  <2>1. CASE client' = [client EXCEPT !.pc = "replay"]
    BY <1>1, <2>1 DEF Clients
  <2>2. QED
    BY <2>1 DEF Connect
<1> DEFINE t == client'.box
<1>3. /\ i \in 1..Len(stream) /\ stream[i] = client.last
      /\ t = Suffix(stream, i)
  BY <1>1, <1>2 DEF Places, Missed, Clients, Suffix
<1>4. i \in 0..Len(stream) /\ i \in 1..i /\ Len(stream) \in Nat
  BY <1>1, <1>3
<1> HIDE DEF t
<1>5. /\ \A a : In(t, a) => In(stream, a)
      /\ \A a, b : Prec(t, a, b) => Prec(stream, a, b)
      /\ \A a : In(t, a) => \A j \in 1..i : Prec(stream, stream[j], a)
      /\ \A a, b : In(t, b) /\ Prec(stream, a, b) /\ ~Prec(stream, b, b) =>
            Before(t, a, b) \/ \E j \in 1..i : stream[j] = a
  BY <1>1, <1>3, <1>4, SuffixOrder
<1>6. ASSUME NEW a \in Events, NEW j \in 1..i, stream[j] = a
      PROVE  a \in client.had \cup missed'
  <2>1. CASE j = i
    <3>1. a = client.last
      BY <1>3, <1>6, <2>1
    <3>2. QED
      BY <3>1 DEF DeliveryInv, Coming, Events
  <2>2. CASE j < i
    <3>1. Prec(stream, a, client.last) /\ j \in 1..(i - 1)
      BY <1>3, <1>4, <1>6, <2>2 DEF Prec
    <3>2. CASE client.last \in resent
      BY <1>2, <1>6, <3>1, <3>2
    <3>3. CASE client.last \notin resent
      BY <1>2, <3>1, <3>3 DEF DeliveryInv, Covered
    <3>4. QED
      BY <3>2, <3>3
  <2>3. QED
    BY <1>4, <2>1, <2>2
<1>7. ASSUME NEW a \in Events, NEW b \in Events,
             In(t, b), Prec(stream, a, b), b \notin resent
      PROVE  a \in client.had \cup missed' \/ Before(t, a, b)
  <2>1. ~Prec(stream, b, b)
    BY <1>7 DEF DeliveryInv, Ordered
  <2>2. QED
    BY <1>5, <1>6, <1>7, <2>1
<1>8. \A a : In(t, a) => Prec(stream, client.last, a)
  BY <1>3, <1>4, <1>5
<1>9. QED
  BY <1>5, <1>7, <1>8 DEF t

(* All that was published comes with the replay or is accounted for.       *)
LEMMA ReplayCovers ==
  ASSUME TypeOK, DeliveryInv, Connect, NEW x \in 1..sent
  PROVE  x \in client.had \cup missed' \/ In(client'.box, x)
<1>1. client \in Clients /\ stream \in Seq(Events) /\ x \in Events
  BY PendingIs DEF TypeOK, DeliveryInv
<1>2. CASE missed' = missed \cup 1..sent
  BY <1>2
<1>3. ASSUME NEW i \in Places,
             client' = [client EXCEPT !.pc = "replay", !.box = Missed(i)],
             missed' = missed \cup Pending \cup
                (IF client.last \in resent
                 THEN {stream[j] : j \in 1..(i - 1)} ELSE {})
      PROVE  x \in client.had \cup missed' \/ In(client'.box, x)
  <2>1. /\ i \in 1..Len(stream) /\ stream[i] = client.last
        /\ client'.box = Suffix(stream, i)
    BY <1>1, <1>3 DEF Places, Missed, Clients, Suffix
  <2>2. i \in 0..Len(stream) /\ i \in 1..i /\ Len(stream) \in Nat
    BY <1>1, <2>1
  <2>3. CASE x \in missed \cup Pending
    BY <1>3, <2>3
  <2>4. CASE In(stream, x)
    <3>1. In(client'.box, x) \/ \E j \in 1..i : stream[j] = x
      <4>1. In(Suffix(stream, i), x) \/ \E j \in 1..i : stream[j] = x
        BY <1>1, <2>2, <2>4, SuffixOrder
      <4>2. QED
        BY <2>1, <4>1
    <3>2. ASSUME NEW j \in 1..i, stream[j] = x
          PROVE  x \in client.had \cup missed'
      <4>1. CASE j = i
        BY <2>1, <3>2, <4>1 DEF DeliveryInv, Coming
      <4>2. CASE j < i
        <5>1. Prec(stream, x, client.last) /\ j \in 1..(i - 1)
          BY <2>1, <2>2, <3>2, <4>2 DEF Prec
        <5>2. CASE client.last \in resent
          BY <1>3, <3>2, <5>1, <5>2
        <5>3. CASE client.last \notin resent
          BY <1>1, <1>3, <5>1, <5>3 DEF DeliveryInv, Covered
        <5>4. QED
          BY <5>2, <5>3
      <4>3. QED
        BY <2>2, <4>1, <4>2
    <3>3. QED
      BY <3>1, <3>2
  <2>5. QED
    BY <2>3, <2>4 DEF DeliveryInv, Kept
<1>4. QED
  BY <1>2, <1>3 DEF Connect

LEMMA ConnectDelivery ==
  ASSUME TypeOK, DeliveryInv, Connect
  PROVE  DeliveryInv'
<1>1. /\ client.pc = "off" /\ client.box = <<>> /\ client \in Clients
      /\ client.last \in client.had \cup {0} /\ client.last \in 0..sent
      /\ UNCHANGED <<calc, sent, stream, crossed, resent>>
      /\ missed \subseteq missed'
  BY DEF Connect, TypeOK, DeliveryInv, Coming
<1>2. /\ client'.pc = "replay" /\ client'.last = client.last
      /\ client'.had = client.had
  BY <1>1 DEF Connect, Clients
<1>3. /\ \A a : In(client'.box, a) =>
            In(stream, a) /\ Prec(stream, client.last, a)
      /\ \A a, b : Prec(client'.box, a, b) => Prec(stream, a, b)
      /\ \A a, b \in Events :
            In(client'.box, b) /\ Prec(stream, a, b) /\ b \notin resent =>
               a \in client.had \cup missed' \/ Before(client'.box, a, b)
  <2>1. CASE client'.box = <<>>
    BY <2>1, EmptyOrder
  <2>2. QED
    BY <2>1, ReplayOrder
<1>4. \A x \in 1..sent : x \in client.had \cup missed' \/ In(client'.box, x)
  BY ReplayCovers
<1>5. /\ Pending' = Pending /\ Odd' = Odd
      /\ \A a, b : Prec(stream, a, b)' <=> Prec(stream, a, b)
      /\ Numbered' /\ Kept' /\ Ordered'
  BY <1>1, ClientKept
<1>6. Forward'
  <2>1. ASSUME NEW a \in Events, In(client'.box, a)
        PROVE  /\ a \in 1..sent
               /\ a > client.last \/ a \in Odd
               /\ a \notin Pending
    <3>1. In(stream, a) /\ Prec(stream, client.last, a)
      BY <1>3, <2>1
    <3>2. client.last \in Events
      <4>1. In(stream, client.last) /\ stream \in Seq(Events)
        BY <3>1, InPrec DEF TypeOK
      <4>2. QED
        BY <4>1 DEF In
    <3>3. client.last < a \/ a \in Odd
      BY <3>1, <3>2 DEF DeliveryInv, Ordered
    <3>4. QED
      BY <3>1, <3>2, <3>3, PendingIs DEF DeliveryInv, Ordered, Events
  <2>2. ASSUME NEW a \in Events, NEW b \in Events, Prec(client'.box, a, b)
        PROVE  a < b \/ b \in Odd
    BY <1>3, <2>2 DEF DeliveryInv, Ordered
  <2>3. client.had \cap Odd = {} => \A x \in client.had : x <= client.last
    BY DEF DeliveryInv, Forward
  <2>4. QED
    BY <1>1, <1>2, <1>5, <2>1, <2>2, <2>3 DEF Forward, In, Prec
<1>7. Coming'
  BY <1>1, <1>2 DEF Coming
<1>8. Leading'
  BY <1>1, <1>2, <1>3, <1>5 DEF Leading, Leads, In, Before
<1>9. Covered'
  <2>1. \A a : Prec(stream, a, client.last)' <=> Prec(stream, a, client.last)
    BY <1>1, <1>2 DEF Prec
  <2>2. /\ client.last \notin resent =>
              \A a \in Events : Prec(stream, a, client.last) =>
                 a \in client.had \cup missed'
        /\ client.last \in Pending =>
              \A a \in 1..(client.last - 1) : a \in client.had \cup missed'
    BY <1>1 DEF DeliveryInv, Covered
  <2>3. QED
    BY <1>1, <1>2, <1>4, <1>5, <2>1, <2>2 DEF Covered, In
<1>10. QED
  BY <1>5, <1>6, <1>7, <1>8, <1>9 DEF DeliveryInv

LEMMA SubscribeDelivery ==
  ASSUME TypeOK, DeliveryInv, Subscribe \/ Drop
  PROVE  DeliveryInv'
<1>1. /\ client \in Clients
      /\ UNCHANGED <<calc, sent, stream, crossed, resent, missed>>
  BY DEF TypeOK, Subscribe, Drop
<1>2. /\ client'.last = client.last /\ client'.had = client.had
      /\ client'.box = <<>>
      /\ client'.pc = "off" \/ (client.pc # "off" /\ client.box = <<>>)
  BY <1>1 DEF Subscribe, Drop, Clients
<1>3. /\ Pending' = Pending /\ Odd' = Odd
      /\ \A a, b : Prec(stream, a, b)' <=> Prec(stream, a, b)
      /\ Numbered' /\ Kept' /\ Ordered'
  BY <1>1, ClientKept
<1>4. \A a, b : ~In(client.box, a)' /\ ~Prec(client.box, a, b)'
  BY <1>2, EmptyOrder DEF In, Prec
<1>5. Forward' /\ Coming'
  BY <1>1, <1>2, <1>3, <1>4 DEF DeliveryInv, Forward, Coming
<1>6. Leading'
  BY <1>4 DEF Leading
<1>7. Covered'
  <2>1. \A a : Prec(stream, a, client.last)' <=> Prec(stream, a, client.last)
    BY <1>1, <1>2 DEF Prec
  <2>2. client'.pc # "off" =>
           \A x \in 1..sent : x \in client.had \cup missed
    BY <1>2, EmptyOrder DEF DeliveryInv, Covered
  <2>3. QED
    BY <1>1, <1>2, <1>3, <2>1, <2>2 DEF DeliveryInv, Covered
<1>8. QED
  BY <1>3, <1>5, <1>6, <1>7 DEF DeliveryInv

LEMMA DeliverDelivery ==
  ASSUME TypeOK, DeliveryInv, Deliver
  PROVE  DeliveryInv'
<1> DEFINE h == Head(client.box)
<1>1. /\ client \in Clients /\ client.box \in Seq(Events) /\ client.box # <<>>
      /\ client.pc \in {"off", "replay", "live"} /\ client.had \subseteq Events
      /\ UNCHANGED <<calc, sent, stream, crossed, resent, missed>>
  BY DEF TypeOK, Deliver, Clients
<1>2. /\ client'.pc = client.pc /\ client'.last = h
      /\ client'.had = client.had \cup {h}
      /\ client'.box = Tail(client.box)
  BY <1>1 DEF Deliver, Clients
<1>3. h \in Events
  BY <1>1, StreamTypes
<1>4. /\ In(client.box, h)
      /\ \A a : In(client'.box, a) => In(client.box, a) /\ Prec(client.box, h, a)
      /\ \A a : In(client.box, a) => a = h \/ In(client'.box, a)
      /\ \A a, b : Prec(client'.box, a, b) => Prec(client.box, a, b)
      /\ \A a, b : Before(client.box, a, b) => a = h \/ Before(client'.box, a, b)
      /\ \A a : ~Before(client.box, a, h)
  <2>1. ASSUME NEW a, NEW b
        PROVE  /\ In(client.box, Head(client.box))
               /\ In(Tail(client.box), a) =>
                     In(client.box, a) /\ Prec(client.box, Head(client.box), a)
               /\ In(client.box, a) =>
                     a = Head(client.box) \/ In(Tail(client.box), a)
               /\ Prec(Tail(client.box), a, b) => Prec(client.box, a, b)
               /\ Before(client.box, a, b) =>
                     a = Head(client.box) \/ Before(Tail(client.box), a, b)
               /\ ~Before(client.box, a, Head(client.box))
    BY <1>1, TailOrder
  <2> DEFINE t == Tail(client.box)
  <2>2. client'.box = t
    BY <1>2
  <2> HIDE DEF t
  <2>3. ASSUME NEW a, NEW b
        PROVE  /\ In(client.box, h)
               /\ In(t, a) => In(client.box, a) /\ Prec(client.box, h, a)
               /\ In(client.box, a) => a = h \/ In(t, a)
               /\ Prec(t, a, b) => Prec(client.box, a, b)
               /\ Before(client.box, a, b) => a = h \/ Before(t, a, b)
               /\ ~Before(client.box, a, h)
    BY <2>1, Zenon DEF t
  <2> HIDE DEF h
  <2>4. QED
    BY <2>2, <2>3
<1> HIDE DEF h
<1>5. client.pc # "off"
  BY <1>1 DEF DeliveryInv, Coming
<1>6. /\ Pending' = Pending /\ Odd' = Odd
      /\ \A a, b : Prec(stream, a, b)' <=> Prec(stream, a, b)
      /\ Numbered' /\ Kept' /\ Ordered'
  BY <1>1, ClientKept
<1>7. /\ h \in 1..sent /\ (h > client.last \/ h \in Odd)
      /\ (client.pc = "replay" => h \notin Pending)
  BY <1>3, <1>4 DEF DeliveryInv, Forward
<1>8. Forward'
  <2>1. ASSUME NEW a \in Events, In(client'.box, a)
        PROVE  /\ a \in 1..sent
               /\ a > h \/ a \in Odd
               /\ client.pc = "replay" => a \notin Pending
    <3>1. h < a \/ a \in Odd
      BY <1>3, <1>4, <2>1 DEF DeliveryInv, Forward
    <3>2. QED
      BY <1>3, <1>4, <2>1, <3>1 DEF DeliveryInv, Forward, Events
  <2>2. ASSUME NEW a \in Events, NEW b \in Events, Prec(client'.box, a, b)
        PROVE  a < b \/ b \in Odd
    BY <1>4, <2>2 DEF DeliveryInv, Forward
  <2>3. ASSUME client'.had \cap Odd = {}, NEW x \in client'.had
        PROVE  x <= h
    <3>1. h \notin Odd /\ client.had \cap Odd = {}
      BY <1>2, <2>3
    <3>2. h > client.last /\ \A y \in client.had : y <= client.last
      BY <1>7, <3>1 DEF DeliveryInv, Forward
    <3>3. client.last \in Nat
      BY DEF DeliveryInv, Coming
    <3>4. QED
      BY <1>1, <1>2, <1>3, <2>3, <3>2, <3>3 DEF Events
  <2>4. QED
    BY <1>1, <1>2, <1>6, <2>1, <2>2, <2>3 DEF Forward, In, Prec
<1>9. Coming'
  BY <1>1, <1>2, <1>5, <1>7 DEF Coming
<1>10. ASSUME NEW a \in Events, NEW b \in Events, Leads(a, b)
       PROVE  \/ a \in client'.had \cup missed
              \/ Before(client'.box, a, b) /\ b # h
  <2>1. CASE a \in client.had \cup missed
    BY <1>2, <2>1
  <2>2. CASE Before(client.box, a, b)
    BY <1>2, <1>4, <2>2
  <2>3. QED
    BY <1>10, <2>1, <2>2 DEF Leads
<1>11. Leading'
  <2>1. ASSUME NEW a \in Events, NEW b \in Events, In(client'.box, b),
               \/ client.pc = "live" /\ a < b
               \/ b \notin resent /\ Prec(stream, a, b)
        PROVE  a \in client'.had \cup missed \/ Before(client'.box, a, b)
    <3>1. Leads(a, b)
      BY <1>4, <2>1 DEF DeliveryInv, Leading
    <3>2. QED
      BY <1>10, <3>1
  <2>2. QED
    BY <1>1, <1>2, <1>6, <2>1 DEF Leading, Leads, In, Before
<1>12. Covered'
  <2>1. \A x \in 1..sent : x \in client'.had \cup missed \/ In(client'.box, x)
    BY <1>2, <1>4, <1>5 DEF DeliveryInv, Covered
  <2>2. ASSUME NEW a \in Events, h \notin resent, Prec(stream, a, h)
        PROVE  a \in client'.had \cup missed
    <3>1. Leads(a, h)
      BY <1>3, <1>4, <2>2 DEF DeliveryInv, Leading
    <3>2. QED
      BY <1>3, <1>10, <3>1
  <2>3. ASSUME h \in Pending, NEW a \in 1..(h - 1)
        PROVE  a \in client'.had \cup missed
    <3>1. a \in Events /\ a < h
      BY <1>7, <2>3 DEF Events, TypeOK
    <3>2. client.pc = "live"
      BY <1>1, <1>5, <1>7, <2>3
    <3>3. Leads(a, h)
      BY <1>3, <1>4, <3>1, <3>2 DEF DeliveryInv, Leading
    <3>4. QED
      BY <1>3, <1>10, <3>1, <3>3
  <2>4. \A a : Prec(stream, a, client.last)' <=> Prec(stream, a, h)
    BY <1>1, <1>2 DEF Prec
  <2>5. QED
    BY <1>1, <1>2, <1>6, <2>1, <2>2, <2>3, <2>4 DEF Covered, In
<1>13. QED
  BY <1>6, <1>8, <1>9, <1>11, <1>12 DEF DeliveryInv

----------------------------------------------------------------------------
(* Every step keeps the invariant.                                         *)

LEMMA StepDelivery ==
  ASSUME TypeOK, DeliveryInv, NEW r \in Recalcs, StepOf(r)
  PROVE  DeliveryInv'
<1>1. CASE WorkOf(r)
  <2>1. UNCHANGED streamVars
    BY <1>1 DEF WorkOf, Sum, GetPrevious, SetCurrent
  <2>2. \A pc \in OnTheWay : pc \in {"republish", "store", "restore"}
    BY DEF OnTheWay, Sending
  <2>3. calc[r].pc \notin OnTheWay
    BY <1>1, <2>2 DEF WorkOf, Sum, GetPrevious, SetCurrent
  <2>4. PICK l : calc' = [calc EXCEPT ![r] = l] /\ l.pc \notin OnTheWay
    <3>1. /\ Idle.pc \notin OnTheWay
          /\ [calc[r] EXCEPT !.pc = "get", !.sum = total].pc \notin OnTheWay
          /\ [calc[r] EXCEPT !.pc = "set", !.prev = cached].pc \notin OnTheWay
          /\ [calc[r] EXCEPT !.pc = "set", !.prev = 0,
                             !.raced = TRUE].pc \notin OnTheWay
          /\ \A x \in BOOLEAN :
                [calc[r] EXCEPT !.pc = "publish", !.raced = x].pc \notin OnTheWay
      BY <2>2, CalcTypes, IdleTypes DEF Locals
    <3>2. CASE Sum(r)
      BY <3>1, <3>2 DEF Sum, Continue
    <3>3. CASE GetPrevious(r)
      BY <3>1, <3>3 DEF GetPrevious, Continue
    <3>4. CASE SetCurrent(r)
      BY <3>1, <3>4, CalcTypes DEF SetCurrent, Continue
    <3>5. QED
      BY <1>1, <3>2, <3>3, <3>4 DEF WorkOf
  <2>5. \A q \in Recalcs :
           \/ calc'[q] = calc[q]
           \/ calc[q].pc \notin OnTheWay /\ calc'[q].pc \notin OnTheWay
    BY <2>3, <2>4 DEF TypeOK
  <2>6. QED
    BY <2>1, <2>5, AsideInv
<1>2. CASE Publish(r)
  BY <1>2, PublishDelivery
<1>3. CASE Republish(r)
  BY <1>3, RepublishDelivery
<1>4. CASE Store(r) \/ StoreAgain(r)
  BY <1>4, StoreDelivery
<1>5. CASE Abandon(r)
  BY <1>5, AbandonDelivery
<1>6. QED
  BY <1>1, <1>2, <1>3, <1>4, <1>5 DEF StepOf

LEMMA InterruptDelivery ==
  ASSUME TypeOK, DeliveryInv, Interrupts
  PROVE  DeliveryInv'
<1>1. UNCHANGED streamVars
  BY DEF Interrupts, Commit, Announce, Silent
<1>2. \A pc \in OnTheWay : pc \in {"republish", "store", "restore"}
  BY DEF OnTheWay, Sending
<1>3. \A l \in Locals : l.pc \in {"idle", "sum", "synced"} => l.pc \notin OnTheWay
  BY <1>2
<1>4. ASSUME NEW r \in Recalcs, NEW l, l.pc \notin OnTheWay,
             calc[r].pc \in {"idle", "synced"},
             calc' = [Overlapped EXCEPT ![r] = l]
      PROVE  DeliveryInv'
  <2>1. calc[r].pc \notin OnTheWay /\ calc'[r].pc \notin OnTheWay
    BY <1>2, <1>4, OverlappedTypes
  <2>2. \A q \in Recalcs \ {r} :
           calc'[q].pc = calc[q].pc /\ calc'[q].event = calc[q].event
    BY <1>4, OverlappedTypes
  <2>3. QED
    BY <1>1, <2>1, <2>2, AsideInv
<1>5. /\ [Idle EXCEPT !.pc = "synced"].pc \notin OnTheWay
      /\ [Idle EXCEPT !.pc = "sum", !.raced = At(Working) # {}].pc \notin OnTheWay
  BY <1>2 DEF Idle
<1>6. ASSUME NEW r \in Recalcs, NEW t \in Totals, Commit(r, t)
      PROVE  DeliveryInv'
  BY <1>4, <1>5, <1>6 DEF Commit
<1>7. ASSUME NEW r \in Recalcs, Announce(r)
      PROVE  DeliveryInv'
  BY <1>4, <1>5, <1>7 DEF Announce
<1>8. ASSUME NEW t \in Totals, Silent(t)
      PROVE  DeliveryInv'
  <2>1. \A q \in Recalcs :
           calc'[q].pc = calc[q].pc /\ calc'[q].event = calc[q].event
    BY <1>8, OverlappedTypes DEF Silent
  <2>2. QED
    BY <1>1, <2>1, AsideInv
<1>9. QED
  BY <1>6, <1>7, <1>8 DEF Interrupts

LEMMA NextInv == IInv /\ [Next]_vars => IInv'
<1> SUFFICES ASSUME IInv, [Next]_vars PROVE IInv'
  OBVIOUS
<1>0. TypeOK /\ WorthInv /\ DeliveryInv /\ Numbered
  BY DEF IInv, DeliveryInv
<1>1. CASE UNCHANGED vars
  <2>1. UNCHANGED worthVars /\ UNCHANGED calc /\ UNCHANGED streamVars
    BY <1>1 DEF vars
  <2>2. TypeOK'
    BY <1>0, <2>1 DEF TypeOK, worthVars, streamVars
  <2>3. /\ UNCHANGED <<total, cached, said, upset>>
        /\ At({"synced"})' = At({"synced"})
    BY <2>1 DEF worthVars, At
  <2>4. WorthInv'
    BY <1>0, <2>1, <2>3, RestInv
  <2>5. DeliveryInv'
    BY <1>0, <2>1, AsideInv
  <2>6. QED
    BY <2>2, <2>4, <2>5 DEF IInv
<1>2. CASE Interrupts
  BY <1>0, <1>2, InterruptTypes, InterruptWorth, InterruptDelivery DEF IInv
<1>3. ASSUME NEW r \in Recalcs, StepOf(r)
      PROVE  IInv'
  BY <1>0, <1>3, StepTypes, StepWorth, StepDelivery DEF IInv
<1>4. CASE StreamExpires
  BY <1>0, <1>4, ClientTypes, ClientWorth, ExpiresDelivery DEF IInv
<1>5. CASE ClientStep
  <2>1. DeliveryInv'
    BY <1>0, <1>5, ConnectDelivery, SubscribeDelivery, DeliverDelivery
       DEF ClientStep
  <2>2. QED
    BY <1>0, <1>5, <2>1, ClientTypes, ClientWorth DEF IInv
<1>6. QED
  BY <1>1, <1>2, <1>3, <1>4, <1>5, Steps

LEMMA Inductive == Spec => []IInv
  BY InitInv, NextInv, PTL DEF Spec

(* Every variable has its type.                                            *)
THEOREM TypeCorrect == Spec => []TypeOK
<1>1. IInv => TypeOK
  BY DEF IInv
<1>2. QED
  BY <1>1, Inductive, PTL

(* With every commit announced, and without overlaps and failures since    *)
(* the last clean announcement, the cached and the announced net worth are *)
(* the sum of the balances.                                                *)
THEOREM WorthSettles == Spec => []Settled
<1>1. IInv => Settled
  BY DEF IInv, WorthInv, Announced, Settled
<1>2. QED
  BY <1>1, Inductive, PTL

(* Under the same proviso each announcement starts where the one before    *)
(* ended.                                                                  *)
THEOREM WorthIsChained == Spec => Chained
<1> DEFINE A == \A r \in Recalcs :
                  calc[r].pc = "publish" /\ calc'[r].pc \in Sending /\ ~upset =>
                     calc[r].prev = said
<1>1. IInv => A
  BY DEF IInv, WorthInv, Announced, At
<1>2. IInv /\ [Next]_vars => [A]_vars
  BY <1>1
<1>3. QED
  BY <1>2, Inductive, PTL DEF Spec, Chained

(* The browser receives events in the order of their announcement, and     *)
(* none twice, until it receives one that was overtaken or sent twice.     *)
THEOREM DeliveryIsForward == Spec => OnlyForward
<1> DEFINE A == Delivers =>
                  LET e == Head(client.box)
                      odd == crossed \cup resent IN
                  /\ e > client.last \/ e \in odd
                  /\ (client.had \cup {e}) \cap odd = {} =>
                        \A x \in client.had : x < e
<1>1. ASSUME IInv, client.box # <<>>
      PROVE  /\ Head(client.box) > client.last \/ Head(client.box) \in Odd
             /\ (client.had \cup {Head(client.box)}) \cap Odd = {} =>
                   \A x \in client.had : x < Head(client.box)
  <2> DEFINE e == Head(client.box)
  <2>1. client.box \in Seq(Events) /\ client.had \subseteq Events
    BY <1>1 DEF IInv, TypeOK, Clients
  <2>2. In(client.box, e) /\ e \in Events
    BY <1>1, <2>1, TailOrder, StreamTypes
  <2> HIDE DEF e
  <2>3. e > client.last \/ e \in Odd
    BY <1>1, <2>2 DEF IInv, DeliveryInv, Forward
  <2>4. ASSUME (client.had \cup {e}) \cap Odd = {}, NEW x \in client.had
        PROVE  x < e
    <3>1. x <= client.last /\ e > client.last
      BY <1>1, <2>3, <2>4 DEF IInv, DeliveryInv, Forward
    <3>2. client.last \in Nat /\ x \in Nat /\ e \in Nat
      BY <1>1, <2>1, <2>2, <2>4 DEF IInv, DeliveryInv, Coming, Events
    <3>3. QED
      BY <3>1, <3>2
  <2>5. QED
    BY <2>3, <2>4 DEF e
<1>2. IInv /\ [Next]_vars => [A]_vars
  BY <1>1 DEF Delivers, Odd
<1>3. QED
  BY <1>2, Inductive, PTL DEF Spec, OnlyForward

(* A subscribed browser that has received what was on its way lacks only   *)
(* events that no replay could have sent it.                               *)
THEOREM MissesAreAccounted == Spec => []NothingElseMissed
<1>1. IInv => NothingElseMissed
  <2>1. SUFFICES ASSUME IInv, client.pc = "live", client.box = <<>>,
                        NEW e \in 1..sent
                 PROVE  e \in client.had \cup missed
    BY DEF NothingElseMissed
  <2>2. ~In(client.box, e)
    BY <2>1, EmptyOrder
  <2>3. QED
    BY <2>1, <2>2 DEF IInv, DeliveryInv, Covered
<1>2. QED
  BY <1>1, Inductive, PTL
=============================================================================
