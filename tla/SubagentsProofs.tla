--------------------------- MODULE SubagentsProofs ---------------------------
(***************************************************************************)
(* Proofs about Subagents, for any children, messages and limit.           *)
(*                                                                         *)
(* Messages: the types of what concerns them, that each child keeps the    *)
(* order of its messages and loses none, and that every execution but the  *)
(* first stems from a message.  The order alone is not inductive.  A       *)
(* launch takes the head of a queue that senders and stops changed while   *)
(* it was prepared, and a Run that goes on holds its messages beside the   *)
(* queue; the invariant says what each of these knows of the queue.        *)
(*                                                                         *)
(* Rest: the parent hears of every child that comes to rest.               *)
(*                                                                         *)
(* Slots: who loads or runs owns one, and there are no more than the       *)
(* limit.  The invariant says who may wait: nobody who is at work or is    *)
(* being prepared, and to start only a worker that has not begun.          *)
(***************************************************************************)
EXTENDS Subagents, SequenceTheorems, FiniteSetTheorems, TLAPS

\* The pcs of a worker whose Run is under way, and takes messages.
UnderWay == {"running", "parked"}

\* What becomes of messages, as the parent would hear it.
Told(f) == [k \in 1..Len(f) |-> f[k].msg]

FateNames == {"injected", "launched", "retained", "superseded", "cancelled", "lost"}

\* The worker w, the launch l, the queue q, the fates f and the messages s of one child.
ChildTypes(w, l, q, f, s) ==
  /\ w \in Worker /\ l \in Launches
  /\ q \in Seq(Messages) /\ f \in Seq(MessageFates) /\ s \in Seq(Messages)

\* Only a Run that is under way holds messages, and then none is queued.
InboxUse(w, q) ==
  /\ w.pc \notin UnderWay => w.inbox = <<>>
  /\ w.pc \in UnderWay => q = <<>>

\* The executions of a child are its first and those of messages that met their fate, and
\* messages are sent only to a child that was started.
Counted(w, f, s) == w.gen <= Len(f) + 1 /\ (s # <<>> => w.gen > 0)

InOrder(w, q, f, s) == Told(f) \o w.inbox \o q = s

\* A launch is prepared beside no worker, for a message that was accepted and that, while it
\* is wanted, is still the head of the queue.
LaunchUse(w, l, q, s) ==
  l.at # "idle" => /\ w.pc = "none"
                   /\ l.msg \in ToSet(s)
                   /\ l.msg \in ToSet(q) => q # <<>> /\ Head(q) = l.msg

ChildInv(w, l, q, f, s) ==
  InboxUse(w, q) /\ Counted(w, f, s) /\ InOrder(w, q, f, s) /\ LaunchUse(w, l, q, s)

MessageInv == \A c \in Children : ChildInv(worker[c], launch[c], queue[c], fate[c], sent[c])

IInv == MessageTypes /\ MessageInv

(***************************************************************************)
(* Sequences of messages and of their fates                                *)
(***************************************************************************)

\* What a fate record is made of.
LEMMA FateFields ==
  /\ \A x \in MessageFates : x.msg \in Messages
  /\ \A m \in Messages, what \in FateNames : [msg |-> m, fate |-> what] \in MessageFates
BY DEF MessageFates, FateNames

\* The fates of messages are as many, and are told in their order.
LEMMA FatesOf ==
  ASSUME NEW ms \in Seq(Messages), NEW what \in FateNames
  PROVE  /\ Fates(ms, what) \in Seq(MessageFates)
         /\ Len(Fates(ms, what)) = Len(ms)
         /\ \A k \in 1..Len(ms) : Fates(ms, what)[k].msg = ms[k]
<1>1. Len(ms) \in Nat /\ \A k \in 1..Len(ms) : ms[k] \in Messages
  BY LenProperties, ElementOfSeq
<1>2. \A k \in 1..Len(ms) : Fates(ms, what)[k] = [msg |-> ms[k], fate |-> what]
  BY DEF Fates
<1>3. Fates(ms, what) \in [1..Len(ms) -> MessageFates]
  BY <1>1, FateFields DEF Fates
<1> QED BY <1>1, <1>2, <1>3

LEMMA ToldOf ==
  ASSUME NEW f \in Seq(MessageFates)
  PROVE  /\ Told(f) \in Seq(Messages)
         /\ Len(Told(f)) = Len(f)
         /\ \A k \in 1..Len(f) : Told(f)[k] = f[k].msg
<1>1. Len(f) \in Nat /\ \A k \in 1..Len(f) : f[k] \in MessageFates
  BY LenProperties, ElementOfSeq
<1>2. Told(f) \in [1..Len(f) -> Messages]
  BY <1>1, FateFields DEF Told
<1> QED BY <1>1, <1>2 DEF Told

\* A sequence that lists one sequence and then another is their concatenation.
LEMMA ConcatOf ==
  ASSUME NEW a \in Seq(Messages), NEW b \in Seq(Messages), NEW t \in Seq(Messages),
         Len(t) = Len(a) + Len(b),
         \A k \in 1..Len(t) : t[k] = IF k <= Len(a) THEN a[k] ELSE b[k - Len(a)]
  PROVE  t = a \o b
<1>1. Len(a) \in Nat /\ Len(b) \in Nat
  BY LenProperties
<1>2. /\ a \o b \in Seq(Messages) /\ Len(a \o b) = Len(a) + Len(b)
      /\ \A k \in 1..Len(a \o b) : (a \o b)[k] = IF k <= Len(a) THEN a[k] ELSE b[k - Len(a)]
  OBVIOUS
<1>3. \A k \in 1..Len(t) : t[k] = (a \o b)[k]
  BY <1>1, <1>2
<1> DEFINE u == a \o b
<1>4. u \in Seq(Messages) /\ Len(t) = Len(u) /\ \A k \in 1..Len(t) : t[k] = u[k]
  BY <1>2, <1>3
<1> HIDE DEF u
<1>5. t = u
  BY <1>4, SeqEqual
<1> QED BY <1>5 DEF u

LEMMA FateConcat ==
  ASSUME NEW f \in Seq(MessageFates), NEW g \in Seq(MessageFates)
  PROVE  /\ f \o g \in Seq(MessageFates)
         /\ Len(f \o g) = Len(f) + Len(g)
         /\ \A k \in 1..Len(f \o g) :
              (f \o g)[k] = IF k <= Len(f) THEN f[k] ELSE g[k - Len(f)]
OBVIOUS

LEMMA ToldConcat ==
  ASSUME NEW f \in Seq(MessageFates), NEW g \in Seq(MessageFates)
  PROVE  Told(f \o g) = Told(f) \o Told(g)
<1> DEFINE h == f \o g
<1>1. /\ h \in Seq(MessageFates) /\ Len(h) = Len(f) + Len(g)
      /\ \A k \in 1..Len(h) : h[k] = IF k <= Len(f) THEN f[k] ELSE g[k - Len(f)]
  BY FateConcat
<1>2. Len(f) \in Nat /\ Len(g) \in Nat
  BY LenProperties
<1> HIDE DEF h
<1>3. /\ Told(f) \in Seq(Messages) /\ Told(g) \in Seq(Messages) /\ Told(h) \in Seq(Messages)
      /\ Len(Told(f)) = Len(f) /\ Len(Told(g)) = Len(g) /\ Len(Told(h)) = Len(h)
      /\ \A k \in 1..Len(f) : Told(f)[k] = f[k].msg
      /\ \A k \in 1..Len(g) : Told(g)[k] = g[k].msg
      /\ \A k \in 1..Len(h) : Told(h)[k] = h[k].msg
  BY <1>1, ToldOf
<1>4. ASSUME NEW k \in 1..Len(h)
      PROVE  Told(h)[k] = IF k <= Len(f) THEN Told(f)[k] ELSE Told(g)[k - Len(f)]
  <2>1. CASE k <= Len(f)
    BY <1>1, <1>2, <1>3, <2>1
  <2>2. CASE ~(k <= Len(f))
    <3>1. k - Len(f) \in 1..Len(g)
      BY <1>1, <1>2, <2>2
    <3> QED BY <1>1, <1>2, <1>3, <2>2, <3>1
  <2> QED BY <2>1, <2>2
<1> DEFINE a == Told(f)
           b == Told(g)
           t == Told(h)
<1>5. /\ a \in Seq(Messages) /\ b \in Seq(Messages) /\ t \in Seq(Messages)
      /\ Len(t) = Len(a) + Len(b)
      /\ \A k \in 1..Len(t) : t[k] = IF k <= Len(a) THEN a[k] ELSE b[k - Len(a)]
  BY <1>1, <1>3, <1>4
<1> HIDE DEF a, b, t
<1>6. t = a \o b
  BY <1>5, ConcatOf
<1> QED BY <1>6 DEF a, b, t, h

\* Meeting a fate adds the messages to what is told.
LEMMA ToldMet ==
  ASSUME NEW f \in Seq(MessageFates), NEW ms \in Seq(Messages), NEW what \in FateNames
  PROVE  /\ f \o Fates(ms, what) \in Seq(MessageFates)
         /\ Len(f \o Fates(ms, what)) = Len(f) + Len(ms)
         /\ Told(f \o Fates(ms, what)) = Told(f) \o ms
<1> DEFINE g == Fates(ms, what)
<1>1. g \in Seq(MessageFates) /\ Len(g) = Len(ms) /\ \A k \in 1..Len(ms) : g[k].msg = ms[k]
  BY FatesOf
<1> HIDE DEF g
<1>2. f \o g \in Seq(MessageFates) /\ Len(f \o g) = Len(f) + Len(ms)
  BY <1>1, FateConcat
<1>3. Told(g) = ms
  BY <1>1, ToldOf, SeqEqual
<1>4. Told(f \o g) = Told(f) \o ms
  BY <1>1, <1>3, ToldConcat
<1> QED BY <1>2, <1>4 DEF g

\* Putting sequences together in two ways, and taking one apart at its head.
LEMMA Assoc ==
  ASSUME NEW a \in Seq(Messages), NEW b \in Seq(Messages), NEW d \in Seq(Messages)
  PROVE  (a \o b) \o d = a \o (b \o d)
OBVIOUS

LEMMA Empties ==
  ASSUME NEW a \in Seq(Messages)
  PROVE  a \o <<>> = a /\ <<>> \o a = a
OBVIOUS

LEMMA Appended ==
  ASSUME NEW a \in Seq(Messages), NEW m \in Messages
  PROVE  /\ Append(a, m) \in Seq(Messages) /\ Append(a, m) = a \o <<m>>
         /\ <<m>> \in Seq(Messages)
OBVIOUS

LEMMA HeadFirst ==
  ASSUME NEW q \in Seq(Messages), q # <<>>
  PROVE  /\ Head(q) \in Messages /\ Tail(q) \in Seq(Messages)
         /\ <<Head(q)>> \in Seq(Messages) /\ Len(<<Head(q)>>) = 1
         /\ <<Head(q)>> \o Tail(q) = q
OBVIOUS

(***************************************************************************)
(* Where the messages of one child are                                     *)
(***************************************************************************)

\* The messages of a Run meet their fate.
LEMMA OrderMet ==
  ASSUME NEW f \in Seq(MessageFates), NEW i \in Seq(Messages), NEW q \in Seq(Messages),
         NEW what \in FateNames
  PROVE  Told(f \o Fates(i, what)) \o <<>> \o q = Told(f) \o i \o q
<1>1. Told(f \o Fates(i, what)) = Told(f) \o i
  BY ToldMet
<1>2. Told(f) \in Seq(Messages)
  BY ToldOf
<1> DEFINE t == Told(f)
<1>3. t \in Seq(Messages)
  BY <1>2
<1> HIDE DEF t
<1>4. t \o i \in Seq(Messages)
  BY <1>3
<1>5. t \o i \o <<>> = t \o i
  BY <1>4, Empties
<1> QED BY <1>1, <1>5 DEF t

\* The head of the queue meets its fate.
LEMMA OrderShifted ==
  ASSUME NEW f \in Seq(MessageFates), NEW q \in Seq(Messages), q # <<>>,
         NEW what \in FateNames
  PROVE  Told(f \o Fates(<<Head(q)>>, what)) \o <<>> \o Tail(q) = Told(f) \o <<>> \o q
<1> DEFINE t == Told(f)
           i == <<Head(q)>>
           r == Tail(q)
<1>1. t \in Seq(Messages) /\ i \in Seq(Messages) /\ r \in Seq(Messages) /\ i \o r = q
  BY ToldOf, HeadFirst
<1>2. Told(f \o Fates(i, what)) \o <<>> \o r = t \o i \o r
  BY <1>1, OrderMet
<1> HIDE DEF t, i, r
<1>3. t \o i \o r = t \o q
  BY <1>1, Assoc
<1>4. t \o <<>> = t
  BY <1>1, Empties
<1> QED BY <1>2, <1>3, <1>4 DEF t, i, r

\* A stop takes everything away.
AllDropped(f, i, u, q, v) == f \o (Fates(i, u) \o Fates(q, v))
Whole(f, i, q) == Told(f) \o i \o q

LEMMA OrderDropped ==
  ASSUME NEW f \in Seq(MessageFates), NEW i \in Seq(Messages), NEW q \in Seq(Messages),
         NEW u \in FateNames, NEW v \in FateNames
  PROVE  /\ AllDropped(f, i, u, q, v) \in Seq(MessageFates)
         /\ Len(AllDropped(f, i, u, q, v)) >= Len(f)
         /\ Whole(AllDropped(f, i, u, q, v), <<>>, <<>>) = Whole(f, i, q)
<1> DEFINE t == Told(f)
           x == Fates(i, u)
           y == Fates(q, v)
<1>1. /\ t \in Seq(Messages) /\ x \in Seq(MessageFates) /\ y \in Seq(MessageFates)
      /\ Told(f \o x) = t \o i
      /\ f \o x \in Seq(MessageFates) /\ Len(f \o x) = Len(f) + Len(i)
  BY ToldOf, FatesOf, ToldMet
<1>2. /\ Told((f \o x) \o y) = Told(f \o x) \o q
      /\ (f \o x) \o y \in Seq(MessageFates) /\ Len((f \o x) \o y) = Len(f \o x) + Len(q)
  BY <1>1, ToldMet
<1> HIDE DEF t, x, y
<1>3. (f \o x) \o y = f \o (x \o y)
  BY <1>1
<1>4. t \o i \o q \in Seq(Messages)
  BY <1>1
<1>5. t \o i \o q \o <<>> \o <<>> = t \o i \o q
  BY <1>4, Empties
<1>6. Len(f) \in Nat /\ Len(i) \in Nat /\ Len(q) \in Nat
  BY LenProperties
<1> QED BY <1>1, <1>2, <1>3, <1>5, <1>6 DEF t, x, y, AllDropped, Whole

\* What a Run leaves goes back in front of the queue.
LEMMA OrderCarried ==
  ASSUME NEW t \in Seq(Messages), NEW i \in Seq(Messages), NEW q \in Seq(Messages)
  PROVE  t \o <<>> \o (i \o q) = t \o i \o q
OBVIOUS

\* A Run takes the queue.
LEMMA OrderFlushed ==
  ASSUME NEW t \in Seq(Messages), NEW q \in Seq(Messages)
  PROVE  t \o q \o <<>> = t \o <<>> \o q
OBVIOUS

\* A message is accepted by the queue, or by a Run.
LEMMA OrderAppended ==
  ASSUME NEW r \in Seq(Messages), NEW q \in Seq(Messages), NEW m \in Messages
  PROVE  r \o Append(q, m) = Append(r \o q, m)
OBVIOUS

LEMMA OrderSent ==
  ASSUME NEW t \in Seq(Messages), NEW i \in Seq(Messages), NEW q \in Seq(Messages),
         NEW m \in Messages
  PROVE  /\ t \o i \o Append(q, m) = Append(t \o i \o q, m)
         /\ q = <<>> => t \o Append(i, m) \o q = Append(t \o i \o q, m)
<1>1. t \o i \in Seq(Messages)
  OBVIOUS
<1>2. t \o i \o Append(q, m) = Append(t \o i \o q, m)
  BY <1>1, OrderAppended
<1>3. t \o Append(i, m) = Append(t \o i, m)
  BY OrderAppended
<1>4. Append(t \o i, m) \in Seq(Messages)
  BY <1>1
<1>5. Append(t \o i, m) \o <<>> = Append(t \o i, m) /\ t \o i \o <<>> = t \o i
  BY <1>1, <1>4, Empties
<1> QED BY <1>2, <1>3, <1>5

\* What was sent to a child, and where it is.
LEMMA SetOf ==
  ASSUME NEW s \in Seq(Messages)
  PROVE  ToSet(s) \subseteq Messages
BY DEF ToSet

LEMMA SetAppended ==
  ASSUME NEW s \in Seq(Messages), NEW m \in Messages
  PROVE  Append(s, m) \in Seq(Messages) /\ ToSet(Append(s, m)) = ToSet(s) \cup {m}
<1>1. /\ Append(s, m) \in Seq(Messages) /\ Len(s) \in Nat /\ Len(Append(s, m)) = Len(s) + 1
      /\ Append(s, m)[Len(s) + 1] = m /\ \A k \in 1..Len(s) : Append(s, m)[k] = s[k]
      /\ DOMAIN s = 1..Len(s) /\ DOMAIN Append(s, m) = 1..(Len(s) + 1)
  OBVIOUS
<1> QED BY <1>1 DEF ToSet

LEMMA HeadKept ==
  ASSUME NEW s \in Seq(Messages), NEW m \in Messages
  PROVE  Append(s, m) # <<>> /\ (s # <<>> => Head(Append(s, m)) = Head(s))
OBVIOUS

LEMMA LastPart ==
  ASSUME NEW t \in Seq(Messages), NEW i \in Seq(Messages), NEW q \in Seq(Messages), q # <<>>
  PROVE  Head(q) \in ToSet(t \o i \o q)
<1>1. t \o i \o q \in Seq(Messages) /\ Len(t \o i) \in Nat /\ Len(q) >= 1
  OBVIOUS
<1>2. (t \o i \o q)[Len(t \o i) + 1] = Head(q) /\ Len(t \o i) + 1 \in 1..Len(t \o i \o q)
  OBVIOUS
<1> QED BY <1>1, <1>2 DEF ToSet

LEMMA NothingIn ==
  ASSUME NEW t \in Seq(Messages), NEW i \in Seq(Messages), NEW q \in Seq(Messages),
         t \o i \o q = <<>>
  PROVE  i = <<>> /\ q = <<>>
OBVIOUS

LEMMA OneEmpty ==
  ASSUME NEW t \in Seq(Messages), NEW i \in Seq(Messages), NEW q \in Seq(Messages),
         i = <<>> \/ q = <<>>
  PROVE  t \o q \o i \o <<>> = t \o i \o q
OBVIOUS

\* No message is told that was not sent.
LEMMA NotMoreThanSent ==
  ASSUME NEW t \in Seq(Messages), NEW i \in Seq(Messages), NEW q \in Seq(Messages)
  PROVE  Len(t) <= Len(t \o i \o q)
OBVIOUS

LEMMA InOrderSent ==
  ASSUME NEW w \in Worker, NEW w2 \in Worker, NEW q \in Seq(Messages),
         NEW f \in Seq(MessageFates), NEW s, NEW m \in Messages, InOrder(w, q, f, s)
  PROVE  /\ w2.inbox = w.inbox => InOrder(w2, Append(q, m), f, Append(s, m))
         /\ q = <<>> /\ w2.inbox = Append(w.inbox, m) => InOrder(w2, q, f, Append(s, m))
<1> DEFINE t == Told(f)
           i == w.inbox
<1>1. t \in Seq(Messages) /\ i \in Seq(Messages) /\ t \o i \o q = s
  BY ToldOf DEF Worker, InOrder
<1> HIDE DEF t, i
<1>2. /\ t \o i \o Append(q, m) = Append(t \o i \o q, m)
      /\ q = <<>> => t \o Append(i, m) \o q = Append(t \o i \o q, m)
  BY <1>1, OrderSent
<1>3. /\ t \o i \o Append(q, m) = Append(s, m)
      /\ q = <<>> => t \o Append(i, m) \o q = Append(s, m)
  BY <1>1, <1>2
<1> QED BY <1>3 DEF InOrder, t, i

\* More fates leave the executions counted.
LEMMA CountedMore ==
  ASSUME NEW w \in Worker, NEW w2 \in Worker, NEW f \in Seq(MessageFates), NEW g, NEW s,
         Counted(w, f, s), w2.gen = w.gen, Len(g) \in Nat, Len(g) >= Len(f)
  PROVE  Counted(w2, g, s)
<1>1. w.gen \in Nat /\ Len(f) \in Nat
  BY LenProperties DEF Worker
<1> QED BY <1>1 DEF Counted

LEMMA CountedMet ==
  ASSUME NEW w \in Worker, NEW w2 \in Worker, NEW f \in Seq(MessageFates), NEW s,
         NEW i \in Seq(Messages), NEW what \in FateNames,
         Counted(w, f, s), w2.gen = w.gen
  PROVE  Counted(w2, f \o Fates(i, what), s)
<1> DEFINE g == f \o Fates(i, what)
<1>1. Len(g) = Len(f) + Len(i)
  BY ToldMet
<1>2. Len(f) \in Nat /\ Len(i) \in Nat
  BY LenProperties
<1> HIDE DEF g
<1>3. Len(g) \in Nat /\ Len(g) >= Len(f)
  BY <1>1, <1>2
<1>4. Counted(w2, g, s)
  BY <1>3, CountedMore
<1> QED BY <1>4 DEF g

LEMMA CountedNext ==
  ASSUME NEW w \in Worker, NEW w2 \in Worker, NEW f \in Seq(MessageFates), NEW g, NEW s,
         Counted(w, f, s), w2.gen \in {w.gen, w.gen + 1}, Len(g) = Len(f) + 1
  PROVE  Counted(w2, g, s)
<1>1. w.gen \in Nat /\ Len(f) \in Nat
  BY LenProperties DEF Worker
<1> QED BY <1>1 DEF Counted

(***************************************************************************)
(* One child in a step                                                     *)
(***************************************************************************)

\* The worker w2 has the messages and the executions of w, and takes messages if w does.
Same(w, w2) ==
  /\ w2.inbox = w.inbox /\ w2.gen = w.gen
  /\ w2.pc \in UnderWay <=> w.pc \in UnderWay
  /\ w.pc = "none" => w2.pc = "none"

Undisturbed(c) ==
  /\ Same(worker[c], worker'[c])
  /\ launch'[c] = launch[c] /\ queue'[c] = queue[c] /\ fate'[c] = fate[c] /\ sent'[c] = sent[c]

LEMMA WorkerTypes ==
  /\ NoWorker \in Worker /\ NoWorker.inbox = <<>> /\ NoWorker.pc = "none"
  /\ \A w \in Worker : /\ w.pc \in Pcs /\ w.gen \in Nat /\ w.inbox \in Seq(Messages)
                       /\ w.aborted \in BOOLEAN /\ w.pausing \in BOOLEAN /\ w.owed \in BOOLEAN
<1>1. <<>> \in Seq(Messages)
  OBVIOUS
<1> QED BY <1>1 DEF NoWorker, Worker, Pcs

LEMMA ChildTyped ==
  ASSUME MessageTypes, NEW c \in Children
  PROVE  ChildTypes(worker[c], launch[c], queue[c], fate[c], sent[c])
BY DEF MessageTypes, ChildTypes

LEMMA NoLaunchUse ==
  /\ NoLaunch \in Launches /\ NoLaunch.at = "idle"
  /\ \A w, q, s : LaunchUse(w, NoLaunch, q, s)
BY DEF NoLaunch, Launches, LaunchUse

\* A child whose messages, launch and executions stay as they are keeps the invariant.
LEMMA SameKeeps ==
  ASSUME NEW w, NEW w2, NEW l, NEW q, NEW f, NEW s,
         ChildInv(w, l, q, f, s), Same(w, w2)
  PROVE  ChildInv(w2, l, q, f, s)
BY DEF ChildInv, InboxUse, Counted, InOrder, LaunchUse, Same

\* It is enough to look at the child that acts.
LEMMA OneChild ==
  ASSUME IInv, MessageTypes', NEW c \in Children,
         \A d \in Children \ {c} : Undisturbed(d),
         ChildInv(worker'[c], launch'[c], queue'[c], fate'[c], sent'[c])
  PROVE  IInv'
<1>1. ASSUME NEW d \in Children
      PROVE  ChildInv(worker'[d], launch'[d], queue'[d], fate'[d], sent'[d])
  <2>1. CASE d = c
    BY <2>1
  <2>2. CASE d # c
    <3>1. Undisturbed(d) /\ ChildInv(worker[d], launch[d], queue[d], fate[d], sent[d])
      BY <2>2 DEF IInv, MessageInv
    <3>2. ChildInv(worker'[d], launch[d], queue[d], fate[d], sent[d])
      BY <3>1, SameKeeps DEF Undisturbed
    <3> QED BY <3>1, <3>2 DEF Undisturbed
  <2> QED BY <2>1, <2>2
<1> QED BY <1>1 DEF IInv, MessageInv

\* The state of the parent Session that no child's messages depend on.
RestTypes ==
  /\ blocked \in [Children -> BOOLEAN] /\ broken \subseteq Messages /\ closed \in BOOLEAN
  /\ announced \in [Children -> BOOLEAN]

\* A step in which the child c comes to w, l, q, f and s.
Acts(c, w, l, q, f, s) ==
  /\ worker' = [worker EXCEPT ![c] = w] /\ launch' = [launch EXCEPT ![c] = l]
  /\ queue' = [queue EXCEPT ![c] = q] /\ fate' = [fate EXCEPT ![c] = f]
  /\ sent' = [sent EXCEPT ![c] = s]
  /\ RestTypes'

LEMMA ChildActs ==
  ASSUME IInv, NEW c \in Children, NEW w, NEW l, NEW q, NEW f, NEW s,
         Acts(c, w, l, q, f, s), ChildTypes(w, l, q, f, s), ChildInv(w, l, q, f, s)
  PROVE  IInv'
<1>1. MessageTypes'
  BY DEF IInv, MessageTypes, ChildTypes, RestTypes, Acts
<1>2. \A d \in Children \ {c} : Undisturbed(d)
  BY DEF IInv, MessageTypes, Undisturbed, Same, Acts
<1>3. /\ worker'[c] = w /\ launch'[c] = l /\ queue'[c] = q /\ fate'[c] = f /\ sent'[c] = s
  BY DEF IInv, MessageTypes, Acts
<1> QED BY <1>1, <1>2, <1>3, OneChild

\* What is left alone is what it was.
LEMMA LeftAlone ==
  ASSUME MessageTypes, NEW c \in Children
  PROVE  /\ worker = [worker EXCEPT ![c] = worker[c]] /\ launch = [launch EXCEPT ![c] = launch[c]]
         /\ queue = [queue EXCEPT ![c] = queue[c]] /\ fate = [fate EXCEPT ![c] = fate[c]]
         /\ sent = [sent EXCEPT ![c] = sent[c]]
BY DEF MessageTypes

\* A step that only changes what workers do.
LEMMA Quiet ==
  ASSUME IInv, UNCHANGED <<queue, launch, fate, sent>>, MessageTypes',
         \A d \in Children : Same(worker[d], worker'[d])
  PROVE  IInv'
<1>1. ASSUME NEW d \in Children
      PROVE  ChildInv(worker'[d], launch'[d], queue'[d], fate'[d], sent'[d])
  <2>1. ChildInv(worker[d], launch[d], queue[d], fate[d], sent[d])
    BY DEF IInv, MessageInv
  <2>2. ChildInv(worker'[d], launch[d], queue[d], fate[d], sent[d])
    BY <2>1, SameKeeps
  <2> QED BY <2>2
<1> QED BY <1>1 DEF IInv, MessageInv

\* A slot that is released wakes workers, and none of them changes its messages.
LEMMA ReleaseKeeps ==
  ASSUME MessageTypes, NEW c \in Children, NEW rec \in Worker, Release(c, rec)
  PROVE  /\ worker' \in [Children -> Worker] /\ worker'[c] = rec
         /\ \A d \in Children \ {c} : Same(worker[d], worker'[d])
<1>1. ASSUME NEW d \in Children
      PROVE  Woken(worker[d], d) \in Worker /\ Same(worker[d], Woken(worker[d], d))
  <2>1. worker[d] \in Worker
    BY DEF MessageTypes
  <2> QED BY <2>1, WorkerTypes DEF Woken, Resumed, Same, UnderWay, Worker, Pcs
<1>2. \A d \in Children : worker[d] \in Worker /\ Same(worker[d], worker[d])
  BY DEF MessageTypes, Same
<1> QED BY <1>1, <1>2 DEF Release

(***************************************************************************)
(* Every action keeps the invariant                                        *)
(***************************************************************************)

LEMMA InitInv == Init => IInv
<1> SUFFICES ASSUME Init PROVE IInv
  OBVIOUS
<1>1. <<>> \in Seq(Messages) /\ <<>> \in Seq(MessageFates)
  OBVIOUS
<1>2. MessageTypes
  BY <1>1, WorkerTypes DEF Init, MessageTypes, Launches, NoLaunch
<1>3. ASSUME NEW c \in Children
      PROVE  ChildInv(worker[c], launch[c], queue[c], fate[c], sent[c])
  <2>1. /\ worker[c].gen = 0 /\ worker[c].inbox = <<>> /\ worker[c].pc = "none"
        /\ launch[c].at = "idle" /\ queue[c] = <<>> /\ fate[c] = <<>> /\ sent[c] = <<>>
    BY DEF Init, NoWorker, NoLaunch
  <2>2. Told(<<>>) = <<>>
    <3>1. Told(<<>>) \in Seq(Messages) /\ Len(Told(<<>>)) = Len(<<>>) /\ Len(<<>>) = 0
      BY <1>1, ToldOf
    <3>2. \A t \in Seq(Messages) : Len(t) = 0 => t = <<>>
      OBVIOUS
    <3> QED BY <3>1, <3>2
  <2>3. InOrder(worker[c], queue[c], fate[c], sent[c])
    BY <2>1, <2>2, Empties, <1>1 DEF InOrder
  <2>4. Counted(worker[c], fate[c], sent[c])
    BY <2>1 DEF Counted
  <2> QED BY <2>1, <2>3, <2>4 DEF ChildInv, InboxUse, UnderWay, LaunchUse
<1> QED BY <1>2, <1>3 DEF IInv, MessageInv

\* The steps of a worker, or of its control, that leave all messages where they are.
LEMMA QuietInv ==
  ASSUME IInv, NEW c \in Children,
         \/ LaunchStarted(c) \/ LoadFails(c) \/ Park(c) \/ Complete(c) \/ Settle(c)
         \/ Pause(c) \/ Resume(c) \/ ResumeOwed(c)
  PROVE  IInv'
<1> USE DEF IInv
<1>0. worker[c] \in Worker /\ worker \in [Children -> Worker]
  BY DEF MessageTypes
<1>1. /\ UNCHANGED <<queue, launch, fate, sent, blocked, broken, closed>>
      /\ announced' \in [Children -> BOOLEAN]
  BY DEF LaunchStarted, LoadFails, Park, Complete, Settle, Pause, Resume, ResumeOwed,
         history, MessageTypes
<1>2. ASSUME NEW rec \in Worker, Set(c, rec), Same(worker[c], rec)
      PROVE  worker' \in [Children -> Worker] /\ \A d \in Children : Same(worker[d], worker'[d])
  BY <1>0, <1>2 DEF Set, Same
<1>3. ASSUME NEW rec \in Worker, Release(c, rec), Same(worker[c], rec)
      PROVE  worker' \in [Children -> Worker] /\ \A d \in Children : Same(worker[d], worker'[d])
  BY <1>3, ReleaseKeeps
<1>4. worker' \in [Children -> Worker] /\ \A d \in Children : Same(worker[d], worker'[d])
  <2>1. CASE LaunchStarted(c)
    BY <1>0, <1>2, <2>1 DEF LaunchStarted, Worker, Pcs, Same, UnderWay
  <2>2. CASE LoadFails(c)
    BY <1>0, <1>2, <2>2 DEF LoadFails, Worker, Pcs, Same, UnderWay
  <2>3. CASE Park(c)
    BY <1>0, <1>3, <2>3 DEF Park, Worker, Pcs, Same, UnderWay
  <2>4. CASE Complete(c)
    BY <1>0, <1>3, <2>4 DEF Complete, Worker, Pcs, Same, UnderWay
  <2>5. CASE Settle(c)
    <3> DEFINE rec == [NoWorker EXCEPT !.gen = worker[c].gen]
    <3>1. worker[c].pc = "settling" /\ worker[c].inbox = <<>>
      BY <2>5 DEF Settle, Settles, MessageInv, ChildInv, InboxUse, UnderWay
    <3>2. /\ rec \in Worker /\ rec.inbox = <<>> /\ rec.pc = "none"
          /\ rec.gen = worker[c].gen
      BY <1>0, WorkerTypes DEF Worker, NoWorker
    <3>3. Same(worker[c], rec) /\ Set(c, rec)
      BY <2>5, <3>1, <3>2 DEF Settle, Same, UnderWay
    <3> HIDE DEF rec
    <3> QED BY <1>2, <3>2, <3>3
  <2>6. CASE Pause(c)
    BY <1>0, <1>2, <2>6 DEF Pause, Worker, Same
  <2>7. ASSUME NEW rec \in Worker, Same(worker[c], rec), Resuming(c, rec)
        PROVE  worker' \in [Children -> Worker] /\ \A d \in Children : Same(worker[d], worker'[d])
    <3>1. Resumed(rec) \in Worker /\ Same(worker[c], Resumed(rec))
      BY <2>7, WorkerTypes DEF Resumed, Worker, Pcs, Same, UnderWay
    <3>2. Set(c, rec) \/ Set(c, Resumed(rec))
      BY <2>7 DEF Resuming
    <3> QED BY <1>2, <2>7, <3>1, <3>2
  <2>8. CASE Resume(c)
    BY <1>0, <2>7, <2>8 DEF Resume, Same
  <2>9. CASE ResumeOwed(c)
    <3>1. [worker[c] EXCEPT !.owed = FALSE] \in Worker
      BY <1>0 DEF Worker
    <3>2. Same(worker[c], [worker[c] EXCEPT !.owed = FALSE])
      BY <1>0 DEF Worker, Same
    <3> QED BY <2>7, <2>9, <3>1, <3>2 DEF ResumeOwed
  <2> QED BY <2>1, <2>2, <2>3, <2>4, <2>5, <2>6, <2>8, <2>9
<1>5. MessageTypes'
  BY <1>1, <1>4 DEF MessageTypes
<1> QED BY <1>1, <1>4, <1>5, Quiet

\* The steps of the pump that launch nothing.
LEMMA PumpIdleInv ==
  ASSUME IInv, NEW c \in Children, BeginLaunch(c) \/ Dismiss(c) \/ LaunchFails(c)
  PROVE  IInv'
<1> USE DEF IInv
<1>0. ChildTypes(worker[c], launch[c], queue[c], fate[c], sent[c])
  BY ChildTyped
<1>1. UNCHANGED <<worker, queue, fate, sent, announced, closed>>
  BY DEF BeginLaunch, Dismiss, LaunchFails, history
<1>2. PICK l \in Launches : /\ launch' = [launch EXCEPT ![c] = l]
                            /\ LaunchUse(worker[c], l, queue[c], sent[c])
  <2>1. CASE BeginLaunch(c)
    <3> DEFINE l == [at |-> "preparing", msg |-> Head(queue[c])]
    <3>1. /\ queue[c] # <<>> /\ worker[c].pc = "none" /\ launch' = [launch EXCEPT ![c] = l]
      BY <2>1 DEF BeginLaunch
    <3>2. Head(queue[c]) \in Messages /\ l \in Launches
      BY <1>0, <3>1, HeadFirst DEF Launches, ChildTypes
    <3>3. Head(queue[c]) \in ToSet(sent[c])
      <4>1. InOrder(worker[c], queue[c], fate[c], sent[c])
        BY DEF MessageInv, ChildInv
      <4>2. /\ Told(fate[c]) \in Seq(Messages) /\ worker[c].inbox \in Seq(Messages)
            /\ queue[c] \in Seq(Messages)
        BY <1>0, ToldOf, WorkerTypes DEF ChildTypes
      <4> QED BY <3>1, <4>1, <4>2, LastPart DEF InOrder
    <3> QED BY <3>1, <3>2, <3>3 DEF LaunchUse
  <2>2. CASE Dismiss(c) \/ LaunchFails(c)
    <3>1. launch' = [launch EXCEPT ![c] = NoLaunch]
      BY <2>2 DEF Dismiss, LaunchFails, EndLaunch
    <3> QED BY <3>1, NoLaunchUse
  <2> QED BY <2>1, <2>2
<1>3. blocked' \in [Children -> BOOLEAN] /\ broken' \subseteq Messages
  <2>1. CASE LaunchFails(c)
    <3>1. launch[c].at = "created" => launch[c].msg \in Messages
      <4>1. launch[c].at # "idle" => launch[c].msg \in ToSet(sent[c])
        BY DEF MessageInv, ChildInv, LaunchUse
      <4>2. ToSet(sent[c]) \subseteq Messages
        BY <1>0, SetOf DEF ChildTypes
      <4> QED BY <4>1, <4>2
    <3> QED BY <2>1, <3>1 DEF LaunchFails, MessageTypes
  <2>2. CASE BeginLaunch(c) \/ Dismiss(c)
    BY <2>2 DEF BeginLaunch, Dismiss, MessageTypes
  <2> QED BY <2>1, <2>2
<1>4. MessageTypes'
  BY <1>1, <1>2, <1>3 DEF MessageTypes
<1>5. \A d \in Children \ {c} : Undisturbed(d)
  BY <1>1, <1>2 DEF Undisturbed, Same, MessageTypes
<1>6. ChildInv(worker'[c], launch'[c], queue'[c], fate'[c], sent'[c])
  BY <1>1, <1>2 DEF MessageInv, ChildInv, MessageTypes
<1> QED BY <1>4, <1>5, <1>6, OneChild

\* A child is started once; nothing was sent to it before, so no launch is prepared.
LEMMA StartInv ==
  ASSUME IInv, NEW c \in Children, Start(c)
  PROVE  IInv'
<1> USE DEF IInv
<1> DEFINE rec == [NoWorker EXCEPT !.pc = "reserved", !.gen = 1]
<1>0. ChildTypes(worker[c], launch[c], queue[c], fate[c], sent[c])
  BY ChildTyped
<1>1. /\ worker[c].gen = 0 /\ worker' = [worker EXCEPT ![c] = rec]
      /\ UNCHANGED <<launch, queue, fate, sent, blocked, broken, closed, announced>>
  BY DEF Start, Set, history
<1>2. /\ rec \in Worker /\ rec.inbox = <<>> /\ rec.pc = "reserved" /\ rec.gen = 1
  BY WorkerTypes DEF NoWorker, Worker, Pcs
<1> HIDE DEF rec
<1>3. MessageTypes'
  BY <1>1, <1>2 DEF MessageTypes
<1>4. \A d \in Children \ {c} : Undisturbed(d)
  BY <1>1 DEF Undisturbed, Same, MessageTypes
<1>5. worker'[c] = rec
  BY <1>1 DEF MessageTypes
<1>6. ChildInv(worker[c], launch[c], queue[c], fate[c], sent[c])
  BY DEF MessageInv
<1>7. sent[c] = <<>> /\ launch[c].at = "idle"
  <2>1. sent[c] = <<>>
    BY <1>1, <1>6 DEF ChildInv, Counted
  <2>2. \A m : m \notin ToSet(<<>>)
    BY DEF ToSet
  <2> QED BY <1>6, <2>1, <2>2 DEF ChildInv, LaunchUse
<1>8. worker[c].inbox = <<>> /\ queue[c] = <<>>
  <2>1. /\ Told(fate[c]) \in Seq(Messages) /\ worker[c].inbox \in Seq(Messages)
        /\ queue[c] \in Seq(Messages)
    BY <1>0, ToldOf, WorkerTypes DEF ChildTypes
  <2> QED BY <1>6, <1>7, <2>1, NothingIn DEF ChildInv, InOrder
<1>9. Len(fate[c]) \in Nat
  BY <1>0, LenProperties DEF ChildTypes
<1>10. ChildInv(rec, launch[c], queue[c], fate[c], sent[c])
  BY <1>2, <1>6, <1>7, <1>8, <1>9 DEF ChildInv, InboxUse, Counted, InOrder, LaunchUse, UnderWay
<1> QED BY <1>1, <1>3, <1>4, <1>5, <1>10, OneChild

\* What is known of a child and its worker before a step.
LEMMA Before ==
  ASSUME IInv, NEW c \in Children
  PROVE  /\ ChildInv(worker[c], launch[c], queue[c], fate[c], sent[c])
         /\ worker[c] \in Worker /\ worker[c].inbox \in Seq(Messages) /\ worker[c].gen \in Nat
         /\ launch[c] \in Launches /\ queue[c] \in Seq(Messages)
         /\ fate[c] \in Seq(MessageFates) /\ sent[c] \in Seq(Messages)
         /\ Len(fate[c]) \in Nat /\ Told(fate[c]) \in Seq(Messages)
BY ChildTyped, WorkerTypes, ToldOf, LenProperties DEF IInv, MessageInv, ChildTypes

LEMMA LoadedInv ==
  ASSUME IInv, NEW c \in Children, Loaded(c)
  PROVE  IInv'
<1> DEFINE w == [worker[c] EXCEPT !.pc = "running", !.inbox = queue[c]]
<1>0. MessageTypes /\ ChildInv(worker[c], launch[c], queue[c], fate[c], sent[c])
  BY DEF IInv, MessageInv
<1>1. /\ worker[c].pc = "loading" /\ worker' = [worker EXCEPT ![c] = w]
      /\ queue' = [queue EXCEPT ![c] = <<>>]
      /\ UNCHANGED <<launch, fate, sent>>
  BY DEF Loaded, Set, Flushed, history
<1>2. RestTypes'
  BY <1>0 DEF Loaded, RestTypes, MessageTypes, history
<1>3. /\ w \in Worker /\ w.pc = "running" /\ w.inbox = queue[c] /\ w.gen = worker[c].gen
  BY Before DEF Worker, Pcs
<1> HIDE DEF w
<1>4. ChildTypes(w, launch[c], <<>>, fate[c], sent[c])
  <2>1. <<>> \in Seq(Messages)
    OBVIOUS
  <2> QED BY <1>3, <2>1, Before DEF ChildTypes
<1>5. ChildInv(w, launch[c], <<>>, fate[c], sent[c])
  <2>1. worker[c].inbox = <<>> /\ launch[c].at = "idle"
    BY <1>0, <1>1 DEF ChildInv, InboxUse, LaunchUse, UnderWay
  <2>2. Told(fate[c]) \o queue[c] \o <<>> = Told(fate[c]) \o <<>> \o queue[c]
    BY Before, OrderFlushed
  <2>3. InOrder(w, <<>>, fate[c], sent[c])
    BY <1>0, <1>3, <2>1, <2>2 DEF ChildInv, InOrder
  <2> QED BY <1>0, <1>3, <2>1, <2>3 DEF ChildInv, InboxUse, Counted, LaunchUse, UnderWay
<1>6. Acts(c, w, launch[c], <<>>, fate[c], sent[c])
  BY <1>0, <1>1, <1>2, LeftAlone DEF Acts
<1> QED BY <1>4, <1>5, <1>6, ChildActs

\* The messages of a Run meet their fate, at a boundary or at its end.
LEMMA RunMeets ==
  ASSUME IInv, NEW c \in Children, NEW what \in FateNames, NEW w \in Worker,
         worker[c].pc = "running", w.inbox = <<>>, w.gen = worker[c].gen,
         worker' = [worker EXCEPT ![c] = w], Met(c, worker[c].inbox, what),
         UNCHANGED <<launch, queue, sent>>, RestTypes'
  PROVE  IInv'
<1> DEFINE f == fate[c] \o Fates(worker[c].inbox, what)
<1>0. MessageTypes /\ ChildInv(worker[c], launch[c], queue[c], fate[c], sent[c])
  BY DEF IInv, MessageInv
<1>1. /\ f \in Seq(MessageFates)
      /\ Told(f) \o <<>> \o queue[c] = Told(fate[c]) \o worker[c].inbox \o queue[c]
  BY Before, ToldMet, OrderMet
<1>2. fate' = [fate EXCEPT ![c] = f]
  BY DEF Met
<1> HIDE DEF f
<1>4. ChildTypes(w, launch[c], queue[c], f, sent[c])
  BY <1>1, Before DEF ChildTypes
<1>5. ChildInv(w, launch[c], queue[c], f, sent[c])
  <2>1. queue[c] = <<>> /\ launch[c].at = "idle"
    BY <1>0 DEF ChildInv, InboxUse, LaunchUse, UnderWay
  <2>2. InOrder(w, queue[c], f, sent[c])
    BY <1>0, <1>1 DEF ChildInv, InOrder
  <2>3. Counted(w, f, sent[c])
    BY <1>0, Before, CountedMet DEF ChildInv, f
  <2> QED BY <2>1, <2>2, <2>3 DEF ChildInv, InboxUse, LaunchUse
<1>6. Acts(c, w, launch[c], queue[c], f, sent[c])
  BY <1>0, <1>2, LeftAlone DEF Acts
<1> QED BY <1>4, <1>5, <1>6, ChildActs

LEMMA RunInv ==
  ASSUME IInv, NEW c \in Children, Drain(c) \/ RunBreaksOff(c) \/ RunEnds(c)
  PROVE  IInv'
<1> DEFINE on == [worker[c] EXCEPT !.inbox = <<>>]
           over == [worker[c] EXCEPT !.pc = "closing", !.inbox = <<>>]
<1>0. MessageTypes /\ ChildInv(worker[c], launch[c], queue[c], fate[c], sent[c])
  BY DEF IInv, MessageInv
<1>1. /\ on \in Worker /\ on.inbox = <<>> /\ on.gen = worker[c].gen
      /\ over \in Worker /\ over.inbox = <<>> /\ over.gen = worker[c].gen /\ over.pc = "closing"
  <2>1. <<>> \in Seq(Messages)
    OBVIOUS
  <2> QED BY <2>1, Before DEF Worker, Pcs
<1>2. worker[c].pc = "running" /\ UNCHANGED <<launch, sent>>
  BY DEF Drain, RunBreaksOff, RunEnds
<1>3. RestTypes'
  BY <1>0 DEF RestTypes, MessageTypes, Drain, RunBreaksOff, RunEnds, Met
<1>4. /\ Drain(c) => worker' = [worker EXCEPT ![c] = on]
      /\ RunBreaksOff(c) \/ RunEnds(c) => worker' = [worker EXCEPT ![c] = over]
  BY DEF Drain, RunBreaksOff, RunEnds, Set
<1> HIDE DEF on, over
<1>5. CASE Drain(c)
  BY <1>1, <1>2, <1>3, <1>4, <1>5, RunMeets DEF Drain, FateNames
<1>6. CASE RunBreaksOff(c)
  BY <1>1, <1>2, <1>3, <1>4, <1>6, RunMeets DEF RunBreaksOff, FateNames
<1>7. CASE RunEnds(c) /\ closed
  BY <1>1, <1>2, <1>3, <1>4, <1>7, RunMeets DEF RunEnds, FateNames
<1>8. CASE RunEnds(c) /\ ~closed
  <2> DEFINE q == worker[c].inbox \o queue[c]
  <2>1. /\ q \in Seq(Messages)
        /\ Told(fate[c]) \o <<>> \o q = Told(fate[c]) \o worker[c].inbox \o queue[c]
    <3>1. /\ worker[c].inbox \in Seq(Messages) /\ queue[c] \in Seq(Messages)
          /\ Told(fate[c]) \in Seq(Messages)
      BY Before
    <3>2. \A i, u \in Seq(Messages) : i \o u \in Seq(Messages)
      OBVIOUS
    <3> QED BY <3>1, <3>2, OrderCarried, Zenon
  <2>2. queue' = [queue EXCEPT ![c] = q] /\ UNCHANGED fate
    BY <1>8 DEF RunEnds
  <2> HIDE DEF q
  <2>3. ChildTypes(over, launch[c], q, fate[c], sent[c])
    BY <1>1, <2>1, Before DEF ChildTypes
  <2>4. launch[c].at = "idle"
    BY <1>0, <1>2 DEF ChildInv, LaunchUse
  <2>5. InOrder(over, q, fate[c], sent[c])
    BY <1>0, <1>1, <2>1 DEF ChildInv, InOrder
  <2>6. ChildInv(over, launch[c], q, fate[c], sent[c])
    BY <1>0, <1>1, <2>4, <2>5 DEF ChildInv, InboxUse, Counted, LaunchUse, UnderWay
  <2>7. Acts(c, over, launch[c], q, fate[c], sent[c])
    BY <1>0, <1>2, <1>3, <1>4, <1>8, <2>2, LeftAlone DEF Acts
  <2> QED BY <2>3, <2>6, <2>7, ChildActs
<1> QED BY <1>5, <1>6, <1>7, <1>8

\* A message that is launched, retained or lost leaves the queue and meets its fate; the
\* worker that succeeds, if there is one, has the next execution.
LEMMA LaunchMeets ==
  ASSUME IInv, NEW c \in Children, NEW what \in FateNames, NEW w \in Worker,
         launch[c].at # "idle", Wanted(c),
         w.inbox = <<>>, w.pc \notin UnderWay, w.gen \in {worker[c].gen, worker[c].gen + 1},
         Acts(c, w, NoLaunch, Tail(queue[c]), fate[c] \o Fates(<<launch[c].msg>>, what), sent[c])
  PROVE  IInv'
<1> DEFINE q == queue[c]
           f == fate[c] \o Fates(<<Head(q)>>, what)
<1>0. ChildInv(worker[c], launch[c], queue[c], fate[c], sent[c])
  BY Before
<1>1. q # <<>> /\ Head(q) = launch[c].msg /\ worker[c].pc = "none"
  BY <1>0 DEF ChildInv, LaunchUse, Wanted
<1>2. q \in Seq(Messages) /\ fate[c] \in Seq(MessageFates) /\ sent[c] \in Seq(Messages)
  BY Before
<1>3. worker[c].inbox = <<>>
  BY <1>0, <1>1 DEF ChildInv, InboxUse, UnderWay
<1>4. Tail(q) \in Seq(Messages) /\ <<Head(q)>> \in Seq(Messages) /\ Len(<<Head(q)>>) = 1
  BY <1>1, <1>2, HeadFirst
<1>5. f \in Seq(MessageFates)
  BY <1>2, <1>4, ToldMet
<1>6. Len(f) = Len(fate[c]) + 1
  BY <1>2, <1>4, ToldMet
<1>7. Told(f) \o <<>> \o Tail(q) = Told(fate[c]) \o <<>> \o q
  BY <1>1, <1>2, OrderShifted
<1> HIDE DEF f, q
<1>8. Told(fate[c]) \o <<>> \o q = sent[c]
  BY <1>0, <1>3 DEF ChildInv, InOrder, q
<1>9. InOrder(w, Tail(q), f, sent[c])
  BY <1>7, <1>8 DEF InOrder
<1>10. Counted(w, f, sent[c])
  BY <1>0, <1>6, Before, CountedNext DEF ChildInv
<1>11. InboxUse(w, Tail(q))
  BY DEF InboxUse
<1>12. ChildInv(w, NoLaunch, Tail(q), f, sent[c])
  BY <1>9, <1>10, <1>11, NoLaunchUse DEF ChildInv
<1>13. ChildTypes(w, NoLaunch, Tail(q), f, sent[c])
  BY <1>2, <1>4, <1>5, NoLaunchUse DEF ChildTypes
<1>14. Acts(c, w, NoLaunch, Tail(q), f, sent[c])
  BY <1>1 DEF f, q
<1> QED BY <1>12, <1>13, <1>14, ChildActs

LEMMA LaunchInv ==
  ASSUME IInv, NEW c \in Children, CreateExecution(c) \/ LaunchFollowup(c) \/ NoModel(c)
  PROVE  IInv'
<1>0. MessageTypes /\ ChildInv(worker[c], launch[c], queue[c], fate[c], sent[c])
  BY DEF IInv, MessageInv
<1>1. launch[c].at # "idle" /\ Wanted(c) /\ UNCHANGED sent
  BY DEF CreateExecution, LaunchFollowup, NoModel
<1>2. RestTypes'
  BY <1>0 DEF RestTypes, MessageTypes, CreateExecution, LaunchFollowup, NoModel
<1>3. worker[c].pc = "none" /\ worker[c].inbox = <<>> /\ worker[c] \in Worker
  BY <1>0, <1>1, Before DEF ChildInv, LaunchUse, InboxUse, UnderWay
<1>4. CASE CreateExecution(c) /\ launch[c].msg \in broken
  <2>1. Acts(c, worker[c], NoLaunch, Tail(queue[c]),
             fate[c] \o Fates(<<launch[c].msg>>, "lost"), sent[c])
    BY <1>0, <1>1, <1>2, <1>4, LeftAlone DEF CreateExecution, EndLaunch, Shifted, Met, Acts
  <2> QED BY <1>1, <1>3, <2>1, LaunchMeets DEF FateNames, UnderWay
<1>5. CASE CreateExecution(c) /\ launch[c].msg \notin broken
  <2> DEFINE l == [launch[c] EXCEPT !.at = "created"]
  <2>1. /\ launch' = [launch EXCEPT ![c] = l]
        /\ UNCHANGED <<worker, queue, fate, sent>>
    BY <1>0, <1>5 DEF CreateExecution, MessageTypes
  <2>2. l \in Launches /\ l.msg = launch[c].msg
    BY Before DEF Launches
  <2> HIDE DEF l
  <2>3. Acts(c, worker[c], l, queue[c], fate[c], sent[c])
    BY <1>0, <1>2, <2>1, LeftAlone DEF Acts
  <2>4. ChildTypes(worker[c], l, queue[c], fate[c], sent[c])
    BY <2>2, Before DEF ChildTypes
  <2>5. ChildInv(worker[c], l, queue[c], fate[c], sent[c])
    BY <1>0, <1>1, <2>2 DEF ChildInv, LaunchUse
  <2> QED BY <2>3, <2>4, <2>5, ChildActs
<1>6. CASE LaunchFollowup(c)
  <2>1. PICK pc \in {"loading", "waiting"} :
          worker' = [worker EXCEPT ![c] = [NoWorker EXCEPT !.gen = worker[c].gen + 1, !.pc = pc]]
    BY <1>6 DEF LaunchFollowup, Set
  <2> DEFINE w == [NoWorker EXCEPT !.gen = worker[c].gen + 1, !.pc = pc]
  <2>2. /\ w \in Worker /\ w.inbox = <<>> /\ w.pc \notin UnderWay /\ w.gen = worker[c].gen + 1
    <3>1. worker[c].gen + 1 \in Nat
      BY Before
    <3>2. <<>> \in Seq(Messages)
      OBVIOUS
    <3> QED BY <3>1, <3>2 DEF Worker, Pcs, NoWorker, UnderWay
  <2>3. Acts(c, w, NoLaunch, Tail(queue[c]),
             fate[c] \o Fates(<<launch[c].msg>>, "launched"), sent[c])
    BY <1>0, <1>1, <1>2, <1>6, <2>1, LeftAlone DEF LaunchFollowup, EndLaunch, Shifted, Met, Acts
  <2> HIDE DEF w
  <2> QED BY <1>1, <2>2, <2>3, LaunchMeets DEF FateNames
<1>7. CASE NoModel(c)
  <2>1. Acts(c, worker[c], NoLaunch, Tail(queue[c]),
             fate[c] \o Fates(<<launch[c].msg>>, "retained"), sent[c])
    BY <1>0, <1>1, <1>2, <1>7, LeftAlone DEF NoModel, EndLaunch, Shifted, Met, Acts
  <2> QED BY <1>1, <1>3, <2>1, LaunchMeets DEF FateNames, UnderWay
<1> QED BY <1>4, <1>5, <1>6, <1>7

\* A message goes into the Run, which nothing is queued beside, or to the end of the queue.
LEMMA SendInv ==
  ASSUME IInv, NEW c \in Children, NEW m \in Messages, Send(c, m)
  PROVE  IInv'
<1> DEFINE s == Append(sent[c], m)
<1>0. MessageTypes /\ ChildInv(worker[c], launch[c], queue[c], fate[c], sent[c])
  BY DEF IInv, MessageInv
<1>1. /\ worker[c].gen > 0 /\ m \notin ToSet(sent[c]) /\ UNCHANGED <<launch, fate>>
      /\ sent' = [sent EXCEPT ![c] = s]
  BY DEF Send
<1>2. RestTypes'
  BY <1>0 DEF Send, RestTypes, MessageTypes
<1>3. s \in Seq(Messages) /\ ToSet(s) = ToSet(sent[c]) \cup {m}
  BY Before, SetAppended
<1> HIDE DEF s
<1>4. CASE Injectable(c)
  <2> DEFINE w == [worker[c] EXCEPT !.inbox = Append(@, m), !.owed = TRUE]
  <2>1. Append(worker[c].inbox, m) \in Seq(Messages)
    BY Before, Appended
  <2>2. /\ w \in Worker /\ w.inbox = Append(worker[c].inbox, m) /\ w.pc = worker[c].pc
        /\ w.gen = worker[c].gen
    BY <2>1, Before DEF Worker
  <2>3. worker' = [worker EXCEPT ![c] = w] /\ UNCHANGED queue
    BY <1>4 DEF Send, Set
  <2> HIDE DEF w
  <2>4. queue[c] = <<>> /\ worker[c].pc \in UnderWay /\ launch[c].at = "idle"
    BY <1>0, <1>4 DEF Injectable, UnderWay, ChildInv, LaunchUse
  <2>5. Acts(c, w, launch[c], queue[c], fate[c], s)
    BY <1>0, <1>1, <1>2, <2>3, LeftAlone DEF Acts
  <2>6. ChildTypes(w, launch[c], queue[c], fate[c], s)
    BY <1>3, <2>2, Before DEF ChildTypes
  <2>8. InOrder(w, queue[c], fate[c], s)
    BY <1>0, <2>2, <2>4, Before, InOrderSent DEF ChildInv, s
  <2>9. Counted(w, fate[c], s)
    BY <1>0, <1>1, <2>2 DEF ChildInv, Counted
  <2> QED BY <2>2, <2>4, <2>5, <2>6, <2>8, <2>9, ChildActs
          DEF ChildInv, InboxUse, LaunchUse
<1>5. CASE ~Injectable(c)
  <2> DEFINE w == [worker[c] EXCEPT !.owed = Active(c)]
             q == Append(queue[c], m)
  <2>1. q \in Seq(Messages) /\ ToSet(q) = ToSet(queue[c]) \cup {m}
    BY Before, SetAppended
  <2>2. /\ w \in Worker /\ w.inbox = worker[c].inbox /\ w.pc = worker[c].pc
        /\ w.gen = worker[c].gen
    BY Before DEF Worker, Active
  <2>3. worker' = [worker EXCEPT ![c] = w] /\ queue' = [queue EXCEPT ![c] = q]
    BY <1>5 DEF Send, Set
  <2>4. worker[c].pc \notin UnderWay
    BY <1>0, <1>5 DEF Injectable, UnderWay, ChildInv, InboxUse
  <2>5. q # <<>> /\ (queue[c] # <<>> => Head(q) = Head(queue[c]))
    BY Before, HeadKept
  <2>6. worker[c] \in Worker /\ InOrder(worker[c], queue[c], fate[c], sent[c])
    BY <1>0, Before DEF ChildInv
  <2>7. InOrder(w, q, fate[c], s)
    BY <2>2, <2>6, Before, InOrderSent DEF s
  <2> HIDE DEF w, q
  <2>8. Acts(c, w, launch[c], q, fate[c], s)
    BY <1>0, <1>1, <1>2, <2>3, LeftAlone DEF Acts
  <2>9. ChildTypes(w, launch[c], q, fate[c], s)
    BY <1>3, <2>1, <2>2, Before DEF ChildTypes
  <2>10. Counted(w, fate[c], s)
    BY <1>0, <1>1, <2>2 DEF ChildInv, Counted
  <2>11. LaunchUse(w, launch[c], q, s)
    BY <1>0, <1>1, <1>3, <2>1, <2>2, <2>5 DEF ChildInv, LaunchUse
  <2>12. ChildInv(w, launch[c], q, fate[c], s)
    BY <1>0, <2>2, <2>4, <2>7, <2>10, <2>11 DEF ChildInv, InboxUse
  <2> QED BY <2>8, <2>9, <2>12, ChildActs
<1> QED BY <1>4, <1>5

\* A stop takes away what a Run holds and what is queued.
LEMMA ChildDropped ==
  ASSUME NEW w \in Worker, NEW w2 \in Worker, NEW l, NEW q \in Seq(Messages),
         NEW f \in Seq(MessageFates), NEW s, NEW u \in FateNames, NEW v \in FateNames,
         ChildInv(w, l, q, f, s), w2.inbox = <<>>, w2.gen = w.gen,
         w.pc = "none" => w2.pc = "none"
  PROVE  /\ AllDropped(f, w.inbox, u, q, v) \in Seq(MessageFates)
         /\ ChildInv(w2, l, <<>>, AllDropped(f, w.inbox, u, q, v), s)
<1> DEFINE g == AllDropped(f, w.inbox, u, q, v)
<1>1. w.inbox \in Seq(Messages)
  BY WorkerTypes
<1>2. g \in Seq(MessageFates) /\ Len(g) >= Len(f)
  BY <1>1, OrderDropped
<1>3. Whole(g, <<>>, <<>>) = Whole(f, w.inbox, q)
  BY <1>1, OrderDropped
<1>4. Len(g) \in Nat
  BY <1>2, LenProperties
<1> HIDE DEF g
<1>5. InOrder(w2, <<>>, g, s)
  BY <1>3 DEF ChildInv, InOrder, Whole
<1>6. Counted(w2, g, s)
  BY <1>2, <1>4, CountedMore DEF ChildInv
<1>7. InboxUse(w2, <<>>)
  BY DEF InboxUse
<1>8. LaunchUse(w2, l, <<>>, s)
  <2>1. \A m : m \notin ToSet(<<>>)
    BY DEF ToSet
  <2> QED BY <2>1 DEF ChildInv, LaunchUse
<1>9. g \in Seq(MessageFates) /\ ChildInv(w2, l, <<>>, g, s)
  BY <1>2, <1>5, <1>6, <1>7, <1>8 DEF ChildInv
<1> QED BY <1>9 DEF g

\* The signal takes the messages of a worker, and leaves none that has ended.
LEMMA AbortedWorker ==
  ASSUME NEW w \in Worker
  PROVE  /\ Aborted(w) \in Worker /\ Aborted(w).inbox = <<>> /\ Aborted(w).gen = w.gen
         /\ w.pc = "none" => Aborted(w).pc = "none"
         /\ Aborted(w).pc \notin UnderWay
<1>1. <<>> \in Seq(Messages)
  OBVIOUS
<1> QED BY <1>1 DEF Aborted, Worker, Pcs, UnderWay

LEMMA CancelInv ==
  ASSUME IInv, NEW c \in Children, Cancel(c)
  PROVE  IInv'
<1> DEFINE f == fate[c] \o Dropped(c)
<1>0. MessageTypes /\ ChildInv(worker[c], launch[c], queue[c], fate[c], sent[c])
  BY DEF IInv, MessageInv
<1>1. /\ fate' = [fate EXCEPT ![c] = f] /\ queue' = [queue EXCEPT ![c] = <<>>]
      /\ UNCHANGED <<launch, sent, blocked, broken, closed, announced>>
  BY DEF Cancel
<1>2. PICK w \in Worker :
        /\ worker'[c] = w /\ w.inbox = <<>> /\ w.gen = worker[c].gen
        /\ worker[c].pc = "none" => w.pc = "none"
        /\ worker' \in [Children -> Worker]
        /\ \A d \in Children \ {c} : Same(worker[d], worker'[d])
  <2>1. CASE worker[c].pc = "reserved" /\ ~worker[c].aborted
    <3> DEFINE w == [worker[c] EXCEPT !.aborted = TRUE]
    <3>1. /\ w \in Worker /\ w.inbox = worker[c].inbox /\ w.gen = worker[c].gen
          /\ w.pc = worker[c].pc
      BY Before DEF Worker
    <3>2. worker[c].inbox = <<>>
      BY <1>0, <2>1 DEF ChildInv, InboxUse, UnderWay
    <3>3. Release(c, w)
      BY <2>1 DEF Cancel
    <3> HIDE DEF w
    <3>4. /\ worker' \in [Children -> Worker] /\ worker'[c] = w
          /\ \A d \in Children \ {c} : Same(worker[d], worker'[d])
      BY <1>0, <3>1, <3>3, ReleaseKeeps
    <3> QED BY <3>1, <3>2, <3>4
  <2>2. CASE ~(worker[c].pc = "reserved" /\ ~worker[c].aborted)
    <3> DEFINE w == IF Active(c) THEN Aborted(worker[c]) ELSE worker[c]
    <3>1. worker' = [worker EXCEPT ![c] = w]
      BY <2>2 DEF Cancel, Set
    <3>2. ~Active(c) => worker[c].inbox = <<>>
      BY <1>0 DEF Active, ChildInv, InboxUse, UnderWay
    <3>3. /\ w \in Worker /\ w.inbox = <<>> /\ w.gen = worker[c].gen
          /\ worker[c].pc = "none" => w.pc = "none"
      BY <3>2, Before, AbortedWorker
    <3> HIDE DEF w
    <3>4. /\ worker' \in [Children -> Worker] /\ worker'[c] = w
          /\ \A d \in Children \ {c} : Same(worker[d], worker'[d])
      BY <1>0, <3>1, <3>3 DEF MessageTypes, Same
    <3> QED BY <3>3, <3>4
  <2> QED BY <2>1, <2>2
<1>3. f \in Seq(MessageFates) /\ ChildInv(w, launch[c], <<>>, f, sent[c])
  <2>1. "superseded" \in FateNames /\ "cancelled" \in FateNames
    BY DEF FateNames
  <2> QED BY <1>0, <1>2, <2>1, Before, ChildDropped DEF Dropped, AllDropped
<1> HIDE DEF f
<1>4. <<>> \in Seq(Messages)
  OBVIOUS
<1>5. MessageTypes'
  BY <1>0, <1>1, <1>2, <1>3, <1>4 DEF MessageTypes
<1>6. \A d \in Children \ {c} : Undisturbed(d)
  BY <1>0, <1>1, <1>2 DEF MessageTypes, Undisturbed
<1>7. /\ worker'[c] = w /\ launch'[c] = launch[c] /\ queue'[c] = <<>> /\ fate'[c] = f
      /\ sent'[c] = sent[c]
  BY <1>0, <1>1, <1>2 DEF MessageTypes
<1>8. ChildInv(worker'[c], launch'[c], queue'[c], fate'[c], sent'[c])
  BY <1>3, <1>7
<1> QED BY <1>5, <1>6, <1>8, OneChild

\* The shutdown drops every queue; a child that holds messages has an empty one.
LEMMA DisposeInv ==
  ASSUME IInv, Dispose
  PROVE  IInv'
<1> DEFINE f(c) == fate[c] \o Fates(queue[c], "cancelled")
<1>0. MessageTypes
  BY DEF IInv
<1>1. /\ fate' = [c \in Children |-> f(c)] /\ queue' = [c \in Children |-> <<>>]
      /\ closed' = TRUE /\ UNCHANGED <<worker, launch, sent, blocked, broken, announced>>
  BY DEF Dispose
<1>2. ASSUME NEW c \in Children
      PROVE  f(c) \in Seq(MessageFates) /\ ChildInv(worker[c], launch[c], <<>>, f(c), sent[c])
  <2>1. "cancelled" \in FateNames
    BY DEF FateNames
  <2>2. ChildInv(worker[c], launch[c], queue[c], fate[c], sent[c])
    BY Before
  <2>3. f(c) \in Seq(MessageFates) /\ Told(f(c)) = Told(fate[c]) \o queue[c]
    BY <2>1, Before, ToldMet
  <2>4. Counted(worker[c], f(c), sent[c])
    BY <2>1, <2>2, Before, CountedMet DEF ChildInv
  <2> HIDE DEF f
  <2>5. LaunchUse(worker[c], launch[c], <<>>, sent[c])
    <3>1. \A m : m \notin ToSet(<<>>)
      BY DEF ToSet
    <3> QED BY <2>2, <3>1 DEF ChildInv, LaunchUse
  <2>6. InboxUse(worker[c], <<>>)
    BY <2>2 DEF ChildInv, InboxUse
  <2>7. InOrder(worker[c], <<>>, f(c), sent[c])
    <3>1. queue[c] = <<>> \/ worker[c].inbox = <<>>
      BY <2>2 DEF ChildInv, InboxUse
    <3>2. Told(fate[c]) \o queue[c] \o worker[c].inbox \o <<>>
            = Told(fate[c]) \o worker[c].inbox \o queue[c]
      <4>1. /\ Told(fate[c]) \in Seq(Messages) /\ queue[c] \in Seq(Messages)
            /\ worker[c].inbox \in Seq(Messages)
        BY Before
      <4> QED BY <3>1, <4>1, OneEmpty
    <3> QED BY <2>2, <2>3, <3>2 DEF ChildInv, InOrder
  <2> QED BY <2>3, <2>4, <2>5, <2>6, <2>7 DEF ChildInv
<1> HIDE DEF f
<1>3. <<>> \in Seq(Messages)
  OBVIOUS
<1>4. MessageTypes'
  BY <1>0, <1>1, <1>2, <1>3 DEF MessageTypes
<1>5. ASSUME NEW c \in Children
      PROVE  ChildInv(worker'[c], launch'[c], queue'[c], fate'[c], sent'[c])
  <2>1. queue'[c] = <<>> /\ fate'[c] = f(c)
    BY <1>1
  <2> QED BY <1>1, <1>2, <2>1
<1> QED BY <1>4, <1>5 DEF IInv, MessageInv

LEMMA AbortAllInv ==
  ASSUME IInv, AbortAll
  PROVE  IInv'
<1> DEFINE f(c) == fate[c] \o Fates(worker[c].inbox, "superseded")
           w(c) == IF Active(c) THEN Aborted(worker[c]) ELSE worker[c]
<1>0. MessageTypes
  BY DEF IInv
<1>1. /\ fate' = [c \in Children |-> f(c)] /\ worker' = [c \in Children |-> w(c)]
      /\ UNCHANGED <<launch, queue, sent, blocked, broken, closed, announced>>
  BY DEF AbortAll
<1>2. ASSUME NEW c \in Children
      PROVE  /\ f(c) \in Seq(MessageFates) /\ w(c) \in Worker
             /\ ChildInv(w(c), launch[c], queue[c], f(c), sent[c])
  <2>1. "superseded" \in FateNames
    BY DEF FateNames
  <2>2. ChildInv(worker[c], launch[c], queue[c], fate[c], sent[c])
    BY Before
  <2>3. ~Active(c) => worker[c].inbox = <<>> /\ worker[c].pc \notin UnderWay
    BY <2>2 DEF Active, ChildInv, InboxUse, UnderWay
  <2>4. /\ w(c) \in Worker /\ w(c).inbox = <<>> /\ w(c).gen = worker[c].gen
        /\ worker[c].pc = "none" => w(c).pc = "none"
        /\ w(c).pc \notin UnderWay
    BY <2>3, Before, AbortedWorker
  <2>5. f(c) \in Seq(MessageFates)
    BY <2>1, Before, ToldMet
  <2>6. Told(f(c)) \o <<>> \o queue[c] = Told(fate[c]) \o worker[c].inbox \o queue[c]
    BY <2>1, Before, OrderMet
  <2>7. Counted(w(c), f(c), sent[c])
    <3>1. worker[c] \in Worker /\ w(c) \in Worker /\ w(c).gen = worker[c].gen
      BY <2>4, Before
    <3> HIDE DEF w
    <3> QED BY <2>1, <2>2, <3>1, Before, CountedMet DEF ChildInv
  <2> HIDE DEF f, w
  <2>8. InOrder(w(c), queue[c], f(c), sent[c])
    BY <2>2, <2>4, <2>6 DEF ChildInv, InOrder
  <2>9. LaunchUse(w(c), launch[c], queue[c], sent[c])
    BY <2>2, <2>4 DEF ChildInv, LaunchUse
  <2> QED BY <2>4, <2>5, <2>7, <2>8, <2>9 DEF ChildInv, InboxUse
<1> HIDE DEF f, w
<1>3. MessageTypes'
  BY <1>0, <1>1, <1>2 DEF MessageTypes
<1>4. ASSUME NEW c \in Children
      PROVE  ChildInv(worker'[c], launch'[c], queue'[c], fate'[c], sent'[c])
  <2>1. worker'[c] = w(c) /\ fate'[c] = f(c)
    BY <1>1
  <2> QED BY <1>1, <1>2, <2>1
<1> QED BY <1>3, <1>4 DEF IInv, MessageInv

(***************************************************************************)
(* The invariant of every behaviour, and what follows                      *)
(***************************************************************************)

LEMMA StepInv == IInv /\ [Next]_vars => IInv'
<1> SUFFICES ASSUME IInv, [Next]_vars PROVE IInv'
  OBVIOUS
<1>1. ASSUME NEW c \in Children, Start(c) PROVE IInv'
  BY <1>1, StartInv
<1>2. ASSUME NEW c \in Children, WorkerStep(c) PROVE IInv'
  BY <1>2, LoadedInv, RunInv, QuietInv DEF WorkerStep, LoadStep, RunStep
<1>3. ASSUME NEW c \in Children, PumpStep(c) PROVE IInv'
  BY <1>3, PumpIdleInv, LaunchInv DEF PumpStep
<1>4. ASSUME NEW c \in Children, Drain(c) PROVE IInv'
  BY <1>4, RunInv
<1>5. ASSUME NEW c \in Children, Pause(c) \/ Resume(c) \/ ResumeOwed(c) PROVE IInv'
  BY <1>5, QuietInv
<1>6. ASSUME NEW c \in Children, Cancel(c) PROVE IInv'
  BY <1>6, CancelInv
<1>7. ASSUME NEW c \in Children, NEW m \in Messages, Send(c, m) PROVE IInv'
  BY <1>7, SendInv
<1>8. CASE Dispose
  BY <1>8, DisposeInv
<1>9. CASE AbortAll
  BY <1>9, AbortAllInv
<1>10. CASE UNCHANGED vars
  <2>1. UNCHANGED <<worker, launch, queue, fate, sent, blocked, broken, closed, announced>>
    BY <1>10 DEF vars
  <2> QED BY <2>1 DEF IInv, MessageTypes, MessageInv
<1> QED BY <1>1, <1>2, <1>3, <1>4, <1>5, <1>6, <1>7, <1>8, <1>9, <1>10 DEF Next, ChildStep

LEMMA InvHolds == Spec => []IInv
BY InitInv, StepInv, PTL DEF Spec

\* The types of workers, messages and what became of them: no step of a worker, of the pump
\* or of a control leaves the values its code may find.
THEOREM MessageTypesHold == Spec => []MessageTypes
<1>1. IInv => MessageTypes
  BY DEF IInv
<1> QED BY <1>1, InvHolds, PTL

\* However messages, Runs, launches, cancellations and the shutdown interleave, each child
\* keeps every accepted message in one place and in the order of acceptance
\* (conversations.ts with the interjections of a Run).
THEOREM NoMessageIsLost == Spec => []MessagesKeepTheirOrder
<1>1. IInv => MessagesKeepTheirOrder
  BY DEF IInv, MessageInv, ChildInv, InOrder, Told, MessagesKeepTheirOrder
<1> QED BY <1>1, InvHolds, PTL

\* The executions of a child are at most its first and one for each accepted message.
ExecutionsStemFromMessages == \A c \in Children : worker[c].gen <= Len(sent[c]) + 1

\* No message starts two Runs of a child, whatever the pump tries again after a failure
\* (#pump of conversations.ts with #followup).
THEOREM ExecutionsHaveMessages == Spec => []ExecutionsStemFromMessages
<1>1. ASSUME IInv, NEW c \in Children
      PROVE  worker[c].gen <= Len(sent[c]) + 1
  <2>1. ChildInv(worker[c], launch[c], queue[c], fate[c], sent[c])
    BY <1>1, Before
  <2>2. worker[c].gen <= Len(fate[c]) + 1
    BY <2>1 DEF ChildInv, Counted
  <2>3. Len(fate[c]) <= Len(sent[c])
    <3>1. /\ Told(fate[c]) \in Seq(Messages) /\ worker[c].inbox \in Seq(Messages)
          /\ queue[c] \in Seq(Messages) /\ Len(Told(fate[c])) = Len(fate[c])
      BY <1>1, Before, ToldOf
    <3> QED BY <2>1, <3>1, NotMoreThanSent DEF ChildInv, InOrder
  <2>4. worker[c].gen \in Nat /\ Len(fate[c]) \in Nat /\ Len(sent[c]) \in Nat
    BY <1>1, Before, LenProperties
  <2> QED BY <2>2, <2>3, <2>4
<1>2. IInv => ExecutionsStemFromMessages
  BY <1>1 DEF ExecutionsStemFromMessages
<1> QED BY <1>2, InvHolds, PTL

(***************************************************************************)
(* The parent hears of a child that comes to rest                          *)
(***************************************************************************)

\* A message that was taken away, or lost, without starting a Run.
Missing(f) == \E k \in DOMAIN f : f[k].fate \in {"cancelled", "lost"}

\* A child without worker and without message, whatever its pump is doing.
RestUse(w, q, f, a) == w.gen > 0 /\ w.pc = "none" /\ q = <<>> => a \/ Missing(f)

RestInv == \A c \in Children : RestUse(worker[c], queue[c], fate[c], announced[c])

\* The child is no nearer to its rest than it was, or need not rest unheard.
Spared(c) ==
  /\ worker'[c].pc = "none" /\ worker'[c].gen > 0 => worker[c].pc = "none" /\ worker[c].gen > 0
  /\ queue'[c] = <<>> => queue[c] = <<>>
  /\ announced[c] => announced'[c]
  /\ Missing(fate[c]) => Missing(fate'[c])

Heard(c) ==
  worker'[c].pc # "none" \/ queue'[c] # <<>> \/ announced'[c] \/ Missing(fate'[c])

LEMMA RestKept ==
  ASSUME RestInv, \A c \in Children : Spared(c) \/ Heard(c)
  PROVE  RestInv'
BY DEF RestInv, RestUse, Spared, Heard

\* A child that a step leaves alone is spared.
LEMMA AloneSpared ==
  ASSUME NEW c, worker'[c] = worker[c], queue'[c] = queue[c], fate'[c] = fate[c],
         announced'[c] = announced[c]
  PROVE  Spared(c)
BY DEF Spared

\* Fates are only added, and a message that is taken away stays missing.
LEMMA MissingAdded ==
  ASSUME NEW f \in Seq(MessageFates), NEW g \in Seq(MessageFates), Missing(f) \/ Missing(g)
  PROVE  Missing(f \o g)
<1>1. /\ Len(f) \in Nat /\ Len(g) \in Nat /\ DOMAIN f = 1..Len(f) /\ DOMAIN g = 1..Len(g)
      /\ f \o g \in Seq(MessageFates)
  OBVIOUS
<1>2. /\ DOMAIN (f \o g) = 1..(Len(f) + Len(g))
      /\ \A k \in 1..(Len(f) + Len(g)) :
           (f \o g)[k] = IF k <= Len(f) THEN f[k] ELSE g[k - Len(f)]
  OBVIOUS
<1>3. CASE Missing(f)
  <2>1. PICK k \in 1..Len(f) : f[k].fate \in {"cancelled", "lost"}
    BY <1>1, <1>3 DEF Missing
  <2>2. k \in 1..(Len(f) + Len(g)) /\ k <= Len(f)
    BY <1>1, <2>1
  <2>3. (f \o g)[k] = f[k]
    BY <1>2, <2>2
  <2> QED BY <1>2, <2>1, <2>2, <2>3 DEF Missing
<1>4. CASE Missing(g)
  <2>1. PICK k \in 1..Len(g) : g[k].fate \in {"cancelled", "lost"}
    BY <1>1, <1>4 DEF Missing
  <2> DEFINE n == Len(f) + k
  <2>2. n \in 1..(Len(f) + Len(g)) /\ ~(n <= Len(f)) /\ n - Len(f) = k
    BY <1>1, <2>1
  <2> HIDE DEF n
  <2>3. (f \o g)[n] = g[k]
    BY <1>2, <2>2
  <2> QED BY <1>2, <2>1, <2>2, <2>3 DEF Missing
<1> QED BY <1>3, <1>4

LEMMA MissingMet ==
  ASSUME NEW ms \in Seq(Messages), ms # <<>>, NEW what \in {"cancelled", "lost"}
  PROVE  Missing(Fates(ms, what))
<1>1. Len(ms) \in Nat /\ 1 \in 1..Len(ms)
  OBVIOUS
<1>2. /\ DOMAIN Fates(ms, what) = 1..Len(ms)
      /\ Fates(ms, what)[1] = [msg |-> ms[1], fate |-> what]
  BY <1>1 DEF Fates
<1>3. 1 \in DOMAIN Fates(ms, what) /\ Fates(ms, what)[1].fate \in {"cancelled", "lost"}
  BY <1>1, <1>2
<1> QED BY <1>3 DEF Missing

\* The queue f of fates grows by those of messages that were taken away.
LEMMA MissingTaken ==
  ASSUME NEW f \in Seq(MessageFates), NEW ms \in Seq(Messages), ms # <<>>,
         NEW what \in {"cancelled", "lost"}
  PROVE  Missing(f \o Fates(ms, what))
<1>1. what \in FateNames
  BY DEF FateNames
<1>2. Fates(ms, what) \in Seq(MessageFates)
  BY <1>1, FatesOf
<1> QED BY <1>2, MissingAdded, MissingMet

LEMMA MissingStays ==
  ASSUME NEW f \in Seq(MessageFates), NEW ms \in Seq(Messages), NEW what \in FateNames, Missing(f)
  PROVE  Missing(f \o Fates(ms, what))
BY FatesOf, MissingAdded

\* Steps of one child, in which it has a worker before and after.
LEMMA WorkerRests ==
  ASSUME IInv, NEW c \in Children,
         \/ Start(c) \/ LoadStep(c) \/ Drain(c) \/ RunEnds(c) \/ RunBreaksOff(c)
         \/ Pause(c) \/ LaunchFollowup(c)
  PROVE  \A d \in Children : Spared(d) \/ Heard(d)
<1>1. MessageTypes /\ worker[c] \in Worker
  BY Before DEF IInv
<1>2. PICK rec : Set(c, rec) /\ rec.pc # "none"
  <2>1. CASE Start(c)
    <3>1. [NoWorker EXCEPT !.pc = "reserved", !.gen = 1].pc = "reserved"
      BY DEF NoWorker
    <3> QED BY <2>1, <3>1 DEF Start
  <2>2. CASE LoadStep(c)
    <3>1. ASSUME NEW pc PROVE [worker[c] EXCEPT !.pc = pc].pc = pc
      BY <1>1 DEF Worker
    <3>2. [worker[c] EXCEPT !.pc = "running", !.inbox = queue[c]].pc = "running"
      BY <1>1 DEF Worker
    <3>3. PICK pc \in {"closing", "loading"} :
            LoadStep(c) /\ ~Loaded(c) => Set(c, [worker[c] EXCEPT !.pc = pc])
      BY DEF LoadStep, LaunchStarted, LoadFails
    <3> QED BY <2>2, <3>1, <3>2, <3>3 DEF Loaded
  <2>3. CASE Drain(c) \/ RunEnds(c) \/ RunBreaksOff(c)
    <3>1. [worker[c] EXCEPT !.inbox = <<>>].pc = worker[c].pc
      BY <1>1 DEF Worker
    <3>2. [worker[c] EXCEPT !.pc = "closing", !.inbox = <<>>].pc = "closing"
      BY <1>1 DEF Worker
    <3> QED BY <2>3, <3>1, <3>2 DEF Drain, RunEnds, RunBreaksOff
  <2>4. CASE Pause(c)
    <3>1. [worker[c] EXCEPT !.pausing = TRUE].pc = worker[c].pc
      BY <1>1 DEF Worker
    <3> QED BY <2>4, <3>1 DEF Pause, Active
  <2>5. CASE LaunchFollowup(c)
    <3>1. PICK pc \in {"loading", "waiting"} :
            Set(c, [NoWorker EXCEPT !.gen = worker[c].gen + 1, !.pc = pc])
      BY <2>5 DEF LaunchFollowup
    <3>2. [NoWorker EXCEPT !.gen = worker[c].gen + 1, !.pc = pc].pc = pc
      BY DEF NoWorker
    <3> QED BY <3>1, <3>2
  <2> QED BY <2>1, <2>2, <2>3, <2>4, <2>5
<1>3. worker'[c].pc # "none" /\ \A d \in Children \ {c} : worker'[d] = worker[d]
  BY <1>1, <1>2 DEF Set, MessageTypes
<1>4. \A d \in Children \ {c} :
        queue'[d] = queue[d] /\ fate'[d] = fate[d] /\ announced'[d] = announced[d]
  BY <1>1 DEF MessageTypes, Start, LoadStep, LaunchStarted, Loaded, LoadFails, Flushed, Drain,
     RunEnds, RunBreaksOff, Met, Pause, LaunchFollowup, Shifted, history
<1>5. Heard(c)
  BY <1>3 DEF Heard
<1>6. \A d \in Children \ {c} : Spared(d)
  BY <1>3, <1>4, AloneSpared
<1> QED BY <1>5, <1>6

\* Steps that leave the messages and what was announced alone, and no worker without its child.
LEMMA QuietRests ==
  ASSUME IInv, NEW c \in Children,
         \/ Park(c) \/ Complete(c) \/ Resume(c) \/ ResumeOwed(c)
         \/ BeginLaunch(c) \/ Dismiss(c) \/ LaunchFails(c)
  PROVE  \A d \in Children : Spared(d) \/ Heard(d)
<1>1. MessageTypes /\ worker[c] \in Worker
  BY Before DEF IInv
<1>2. UNCHANGED <<queue, fate, announced>>
  BY DEF Park, Complete, Resume, ResumeOwed, BeginLaunch, Dismiss, LaunchFails, history
<1>3. ASSUME NEW rec \in Worker, Release(c, rec), rec.pc # "none"
      PROVE  \A d \in Children : Spared(d) \/ Heard(d)
  <2>1. /\ worker'[c] = rec
        /\ \A d \in Children \ {c} : Same(worker[d], worker'[d])
    BY <1>1, <1>3, ReleaseKeeps
  <2>2. ASSUME NEW d \in Children \ {c}, worker'[d].pc = "none" PROVE worker[d].pc = "none"
    <3>1. worker'[d] = worker[d] \/ worker'[d] = Woken(worker[d], d)
      BY <1>3 DEF Release
    <3>2. worker[d] \in Worker
      BY <1>1 DEF MessageTypes
    <3>3. Woken(worker[d], d).pc = "none" => worker[d].pc = "none"
      BY <3>2 DEF Woken, Resumed, Worker
    <3> QED BY <2>2, <3>1, <3>3
  <2>3. \A d \in Children \ {c} : Spared(d)
    BY <1>2, <2>1, <2>2 DEF Spared, Same
  <2>4. Heard(c)
    BY <1>3, <2>1 DEF Heard
  <2> QED BY <2>3, <2>4
<1>4. ASSUME NEW rec, Set(c, rec), rec.pc = "none" => worker[c].pc = "none",
             rec.gen = worker[c].gen
      PROVE  \A d \in Children : Spared(d)
  <2>1. worker'[c] = rec /\ \A d \in Children \ {c} : worker'[d] = worker[d]
    BY <1>1, <1>4 DEF Set, MessageTypes
  <2>2. Spared(c)
    BY <1>2, <1>4, <2>1 DEF Spared
  <2>3. \A d \in Children \ {c} : Spared(d)
    BY <1>2, <2>1, AloneSpared
  <2> QED BY <2>2, <2>3
<1>5. CASE Park(c)
  <2>1. [worker[c] EXCEPT !.pc = "parked"] \in Worker
    BY <1>1 DEF Worker, Pcs
  <2>2. [worker[c] EXCEPT !.pc = "parked"].pc # "none"
    BY <1>1 DEF Worker
  <2> QED BY <1>3, <1>5, <2>1, <2>2 DEF Park
<1>6. CASE Complete(c)
  <2>1. [worker[c] EXCEPT !.pc = "settling"] \in Worker
    BY <1>1 DEF Worker, Pcs
  <2>2. [worker[c] EXCEPT !.pc = "settling"].pc # "none"
    BY <1>1 DEF Worker
  <2> QED BY <1>3, <1>6, <2>1, <2>2 DEF Complete
<1>7. ASSUME NEW rec \in Worker, Resuming(c, rec), rec.pc = worker[c].pc, rec.gen = worker[c].gen
      PROVE  \A d \in Children : Spared(d)
  <2>1. /\ Resumed(rec).gen = rec.gen /\ (Resumed(rec).pc = "none" => rec.pc = "none")
    BY <1>7 DEF Resumed, Worker
  <2>2. Set(c, rec) \/ Set(c, Resumed(rec))
    BY <1>7 DEF Resuming
  <2> QED BY <1>4, <1>7, <2>1, <2>2
<1>8. CASE Resume(c)
  BY <1>1, <1>7, <1>8 DEF Resume
<1>9. CASE ResumeOwed(c)
  <2> DEFINE rec == [worker[c] EXCEPT !.owed = FALSE]
  <2>1. rec \in Worker /\ rec.pc = worker[c].pc /\ rec.gen = worker[c].gen
    BY <1>1 DEF Worker
  <2>2. Resuming(c, rec)
    BY <1>9 DEF ResumeOwed
  <2> HIDE DEF rec
  <2> QED BY <1>7, <2>1, <2>2
<1>10. CASE BeginLaunch(c) \/ Dismiss(c) \/ LaunchFails(c)
  <2>1. UNCHANGED worker
    BY <1>10 DEF BeginLaunch, Dismiss, LaunchFails
  <2> QED BY <1>2, <2>1, AloneSpared
<1> QED BY <1>5, <1>6, <1>8, <1>9, <1>10

\* Steps in which a child may come to rest, is told of, or loses a message.
LEMMA EndRests ==
  ASSUME IInv, NEW c \in Children, Settle(c) \/ CreateExecution(c) \/ NoModel(c)
  PROVE  \A d \in Children : Spared(d) \/ Heard(d)
<1>1. MessageTypes
  BY DEF IInv
<1>2. \A d \in Children \ {c} : Spared(d)
  <2>1. \A d \in Children \ {c} : /\ worker'[d] = worker[d] /\ queue'[d] = queue[d]
                                  /\ fate'[d] = fate[d] /\ announced'[d] = announced[d]
    BY <1>1 DEF MessageTypes, Settle, Set, CreateExecution, Shifted, Met, NoModel
  <2> QED BY <2>1, AloneSpared
<1>3. CASE Settle(c)
  <2>1. /\ announced'[c] = (announced[c] \/ queue[c] = <<>>) /\ queue'[c] = queue[c]
    BY <1>1, <1>3 DEF Settle, MessageTypes
  <2> QED BY <1>2, <2>1 DEF Heard
<1>4. CASE CreateExecution(c) /\ launch[c].msg \in broken
  <2>1. fate'[c] = fate[c] \o Fates(<<launch[c].msg>>, "lost")
    BY <1>1, <1>4 DEF CreateExecution, Met, MessageTypes
  <2>2. launch[c].msg \in Messages
    BY <1>1, <1>4 DEF MessageTypes
  <2>3. <<launch[c].msg>> \in Seq(Messages) /\ <<launch[c].msg>> # <<>>
    BY <2>2
  <2>4. Missing(fate'[c])
    BY <2>1, <2>3, Before, MissingTaken
  <2> QED BY <1>2, <2>4 DEF Heard
<1>5. CASE CreateExecution(c) /\ launch[c].msg \notin broken
  <2>1. UNCHANGED <<worker, queue, fate, announced>>
    BY <1>5 DEF CreateExecution
  <2> QED BY <2>1, AloneSpared
<1>6. CASE NoModel(c)
  <2>1. announced'[c] = TRUE
    BY <1>1, <1>6 DEF NoModel, MessageTypes
  <2> QED BY <1>2, <2>1 DEF Heard
<1> QED BY <1>3, <1>4, <1>5, <1>6

LEMMA SendRests ==
  ASSUME IInv, NEW c \in Children, NEW m \in Messages, Send(c, m)
  PROVE  \A d \in Children : Spared(d) \/ Heard(d)
<1>1. MessageTypes /\ worker[c] \in Worker /\ queue[c] \in Seq(Messages)
  BY Before DEF IInv
<1>2. UNCHANGED <<fate, announced>>
  BY DEF Send
<1>3. \A d \in Children \ {c} : worker'[d] = worker[d] /\ queue'[d] = queue[d]
  BY <1>1 DEF MessageTypes, Send, Set
<1>4. \A d \in Children \ {c} : Spared(d)
  BY <1>2, <1>3, AloneSpared
<1>5. CASE Injectable(c)
  <2>1. worker'[c].pc = worker[c].pc
    BY <1>1, <1>5 DEF Send, Set, MessageTypes, Worker
  <2> QED BY <1>4, <1>5, <2>1 DEF Injectable, Heard
<1>6. CASE ~Injectable(c)
  <2>1. queue'[c] = Append(queue[c], m)
    BY <1>1, <1>6 DEF Send, MessageTypes
  <2>2. queue'[c] # <<>>
    BY <1>1, <2>1, HeadKept
  <2> QED BY <1>4, <2>2 DEF Heard
<1> QED BY <1>5, <1>6

\* Stops, which take messages away.
LEMMA CancelRests ==
  ASSUME IInv, NEW c \in Children, Cancel(c)
  PROVE  \A d \in Children : Spared(d) \/ Heard(d)
<1>1. MessageTypes /\ worker[c] \in Worker
  BY Before DEF IInv
<1> DEFINE x == Fates(worker[c].inbox, "superseded")
           y == Fates(queue[c], "cancelled")
<1>2. /\ fate'[c] = fate[c] \o (x \o y) /\ announced' = announced
      /\ \A d \in Children \ {c} : fate'[d] = fate[d] /\ queue'[d] = queue[d]
  BY <1>1 DEF Cancel, Dropped, MessageTypes
<1>3. x \in Seq(MessageFates) /\ y \in Seq(MessageFates) /\ fate[c] \in Seq(MessageFates)
  BY Before, FatesOf DEF FateNames
<1>4. queue[c] # <<>> => Missing(y)
  BY Before, MissingMet
<1> HIDE DEF x, y
<1>5. x \o y \in Seq(MessageFates)
  BY <1>3
<1>6. /\ queue[c] # <<>> => Missing(fate'[c])
      /\ Missing(fate[c]) => Missing(fate'[c])
  BY <1>2, <1>3, <1>4, <1>5, MissingAdded
<1>7. \A d \in Children : worker'[d].pc = "none" => /\ worker[d].pc = "none"
                                                   /\ worker'[d].gen = worker[d].gen
  <2>1. CASE worker[c].pc = "reserved" /\ ~worker[c].aborted
    <3> DEFINE w == [worker[c] EXCEPT !.aborted = TRUE]
    <3>1. Release(c, w) /\ w \in Worker /\ w.pc = "reserved"
      BY <1>1, <2>1 DEF Cancel, Worker
    <3> HIDE DEF w
    <3>2. worker'[c] = w /\ \A d \in Children \ {c} : Same(worker[d], worker'[d])
      BY <1>1, <3>1, ReleaseKeeps
    <3>3. ASSUME NEW d \in Children \ {c}, worker'[d].pc = "none" PROVE worker[d].pc = "none"
      <4>1. worker'[d] = worker[d] \/ worker'[d] = Woken(worker[d], d)
        BY <3>1 DEF Release
      <4>2. worker[d] \in Worker
        BY <1>1 DEF MessageTypes
      <4>3. Woken(worker[d], d).pc = "none" => worker[d].pc = "none"
        BY <4>2 DEF Woken, Resumed, Worker
      <4> QED BY <3>3, <4>1, <4>3
    <3> QED BY <3>1, <3>2, <3>3 DEF Same
  <2>2. CASE ~(worker[c].pc = "reserved" /\ ~worker[c].aborted)
    <3>1. worker' = [worker EXCEPT ![c] = IF Active(c) THEN Aborted(worker[c]) ELSE worker[c]]
      BY <2>2 DEF Cancel, Set
    <3>2. /\ Aborted(worker[c]).gen = worker[c].gen
          /\ Aborted(worker[c]).pc = "none" => worker[c].pc = "none"
      BY <1>1 DEF Aborted, Worker
    <3>3. /\ worker'[c] \in {Aborted(worker[c]), worker[c]}
          /\ \A d \in Children \ {c} : worker'[d] = worker[d]
      BY <1>1, <3>1 DEF MessageTypes
    <3> QED BY <3>2, <3>3
  <2> QED BY <2>1, <2>2
<1>8. \A d \in Children \ {c} : Spared(d)
  BY <1>2, <1>7 DEF Spared
<1>9. Spared(c) \/ Heard(c)
  BY <1>2, <1>6, <1>7 DEF Spared, Heard
<1> QED BY <1>8, <1>9

LEMMA ShutdownRests ==
  ASSUME IInv, Dispose \/ AbortAll
  PROVE  \A d \in Children : Spared(d) \/ Heard(d)
<1> SUFFICES ASSUME NEW d \in Children PROVE Spared(d) \/ Heard(d)
  OBVIOUS
<1>1. worker[d] \in Worker
  BY Before
<1>2. CASE Dispose
  <2>1. /\ fate'[d] = fate[d] \o Fates(queue[d], "cancelled")
        /\ UNCHANGED <<worker, announced>>
    BY <1>2 DEF Dispose
  <2>2. CASE queue[d] = <<>>
    <3>1. Missing(fate[d]) => Missing(fate'[d])
      BY <2>1, Before, MissingStays DEF FateNames
    <3> QED BY <2>1, <2>2, <3>1 DEF Spared
  <2>3. CASE queue[d] # <<>>
    <3>1. Missing(fate'[d])
      BY <2>1, <2>3, Before, MissingTaken
    <3> QED BY <3>1 DEF Heard
  <2> QED BY <2>2, <2>3
<1>3. CASE AbortAll
  <2>1. /\ fate'[d] = fate[d] \o Fates(worker[d].inbox, "superseded")
        /\ worker'[d] = IF Active(d) THEN Aborted(worker[d]) ELSE worker[d]
        /\ UNCHANGED <<queue, announced>>
    BY <1>3 DEF AbortAll
  <2>2. Missing(fate[d]) => Missing(fate'[d])
    BY <2>1, Before, MissingStays DEF FateNames
  <2>3. worker'[d].pc = "none" => worker[d].pc = "none" /\ worker'[d].gen = worker[d].gen
    BY <1>1, <2>1 DEF Aborted, Worker
  <2> QED BY <2>1, <2>2, <2>3 DEF Spared
<1> QED BY <1>2, <1>3

LEMMA RestStep == IInv /\ RestInv /\ [Next]_vars => RestInv'
<1> SUFFICES ASSUME IInv, RestInv, [Next]_vars PROVE \A d \in Children : Spared(d) \/ Heard(d)
  BY RestKept
<1>1. ASSUME NEW c \in Children, Start(c) \/ Drain(c) \/ Pause(c) \/ Resume(c) \/ Cancel(c)
      PROVE  \A d \in Children : Spared(d) \/ Heard(d)
  BY <1>1, WorkerRests, QuietRests, CancelRests
<1>2. ASSUME NEW c \in Children, ChildStep(c) PROVE \A d \in Children : Spared(d) \/ Heard(d)
  BY <1>2, WorkerRests, QuietRests, EndRests
     DEF ChildStep, WorkerStep, LoadStep, RunStep, PumpStep
<1>3. ASSUME NEW c \in Children, NEW m \in Messages, Send(c, m)
      PROVE  \A d \in Children : Spared(d) \/ Heard(d)
  BY <1>3, SendRests
<1>4. CASE Dispose \/ AbortAll
  BY <1>4, ShutdownRests
<1>5. CASE UNCHANGED vars
  BY <1>5, AloneSpared DEF vars
<1> QED BY <1>1, <1>2, <1>3, <1>4, <1>5 DEF Next

\* The parent is told of every child that comes to rest, whatever messages, launches, stops
\* and the shutdown do beside the end of its Run (the finally of #launch in
\* execution-service.ts with the pump of conversations.ts).
THEOREM RestsAreHeard == Spec => []RestIsAnnounced
<1>1. Init => RestInv
  BY DEF Init, NoWorker, RestInv, RestUse
<1>2. RestInv => RestIsAnnounced
  BY DEF RestInv, RestUse, Missing, RestIsAnnounced, AtRest
<1> QED BY <1>1, <1>2, InvHolds, RestStep, PTL DEF Spec

(***************************************************************************)
(* Slots                                                                   *)
(***************************************************************************)

Waiters == [exec : Executions, for : {"start", "resume"}]

\* The pcs at which a worker does what a slot is needed for.
AtWork == {"loading", "running"}

\* No more executions own a slot than there are.
SlotsFit == held \subseteq Executions /\ IsFiniteSet(held) /\ Cardinality(held) <= Limit

\* The execution e of a child with the worker w, the slots h.
SlotUse(w, e, h) ==
  /\ w.pc \in AtWork => e \in h
  /\ w.pc = "parked" => e \notin h
  /\ w.pc = "reserved" /\ ~w.aborted => e \in h

\* An execution that waits, as v says, is not at work; only one that has not begun waits to
\* start.
WaitUse(w, v) ==
  /\ w.pc \notin AtWork \cup {"reserved"}
  /\ v.for = "start" => w.pc = "waiting"

\* No execution is known before its worker has it.
Begun(e) == e[2] <= worker[e[1]].gen

SlotInv ==
  /\ SlotsFit /\ waiting \in Seq(Waiters)
  /\ \A c \in Children : SlotUse(worker[c], Exec(c), held)
  /\ \A v \in ToSet(waiting) : /\ Begun(v.exec)
                               /\ \A c \in Children : v.exec = Exec(c) => WaitUse(worker[c], v)
  /\ \A e \in held : Begun(e)

\* Every set of numbers that is not empty has a least one.
LEMMA Least ==
  ASSUME NEW T \in SUBSET Nat, T # {}
  PROVE  \E n \in T : \A m \in T : n <= m
<1> DEFINE R == {ss \in Nat \X Nat : ss[1] < ss[2]}
<1>1. IsWellFoundedOn(R, Nat)
  BY NatLessThanWellFounded DEF OpToRel
<1>2. PICK x \in T : \A y \in T : ~ (<<y, x>> \in R)
  <2> HIDE DEF R
  <2> QED BY <1>1, WFMin
<1>3. ASSUME NEW y \in T PROVE x <= y
  <2>1. x \in Nat /\ y \in Nat /\ <<y, x>> \notin R
    BY <1>2
  <2>2. ~(y < x)
    BY <2>1
  <2> QED BY <2>1, <2>2
<1> QED BY <1>3

\* Who finds a slot fits beside those who have one.
LEMMA FittingFits ==
  ASSUME NEW h, IsFiniteSet(h), NEW limit \in Nat, Cardinality(h) <= limit,
         NEW S, NEW ws \in Seq([exec : S, for : {"start", "resume"}])
  PROVE  LET g == Fitting(h, ws, limit)
         IN  /\ IsFiniteSet(g) /\ Cardinality(g) <= limit /\ h \subseteq g
             /\ g \subseteq h \cup {v.exec : v \in ToSet(ws)}
<1> DEFINE First(n) == {ws[i].exec : i \in 1..n}
           D == DOMAIN ws
           g == Fitting(h, ws, limit)
           Over == {n \in D : ~(Cardinality(h \cup First(n)) <= limit)}
<1>1. Len(ws) \in Nat /\ D = 1..Len(ws)
  OBVIOUS
<1>2. g = h \cup {ws[k].exec : k \in {n \in D : Cardinality(h \cup First(n)) <= limit}}
  BY DEF Fitting
<1>3. h \subseteq g /\ g \subseteq h \cup {v.exec : v \in ToSet(ws)}
  BY <1>2 DEF ToSet
<1>4. ASSUME NEW n \in 0..Len(ws)
      PROVE  IsFiniteSet(h \cup First(n)) /\ Cardinality(h \cup First(n)) \in Nat
  <2> DEFINE f == [i \in 1..n |-> ws[i].exec]
  <2>1. f \in Surjection(1..n, First(n))
    BY DEF Surjection
  <2>2. n \in Int /\ IsFiniteSet(1..n)
    BY <1>1, FS_Interval
  <2> HIDE DEF f, First
  <2>3. IsFiniteSet(First(n))
    BY <2>1, <2>2, FS_Surjection
  <2> QED BY <2>3, FS_Union, FS_CardinalityType
<1>5. ASSUME NEW n \in 0..Len(ws), NEW k \in 0..Len(ws), n <= k
      PROVE  Cardinality(h \cup First(n)) <= Cardinality(h \cup First(k))
  <2>1. h \cup First(n) \in SUBSET (h \cup First(k))
    BY <1>1, <1>5
  <2> HIDE DEF First
  <2> QED BY <1>4, <2>1, FS_Subset
<1>6. h \cup First(0) = h
  <2>1. First(0) = {}
    <3>1. \A i : i \notin 1..0
      OBVIOUS
    <3> QED BY <3>1
  <2> HIDE DEF First
  <2> QED BY <2>1
<1> HIDE DEF g
<1>7. PICK m \in 0..Len(ws) : /\ Cardinality(h \cup First(m)) <= limit
                              /\ \A k \in D : Cardinality(h \cup First(k)) <= limit => k <= m
  <2>1. CASE Over = {}
    <3>1. CASE Len(ws) = 0
      <4>1. Cardinality(h \cup First(0)) <= limit
        <5> HIDE DEF First
        <5> QED BY <1>6
      <4>2. D = {} /\ 0 \in 0..Len(ws)
        BY <1>1, <3>1
      <4> HIDE DEF First, D
      <4> QED BY <4>1, <4>2
    <3>2. CASE Len(ws) # 0
      <4>1. Len(ws) \in D
        BY <1>1, <3>2
      <4>2. Cardinality(h \cup First(Len(ws))) <= limit
        <5>1. Len(ws) \notin Over
          <6> HIDE DEF Over
          <6> QED BY <2>1
        <5> HIDE DEF First
        <5> QED BY <4>1, <5>1
      <4>3. Len(ws) \in 0..Len(ws) /\ \A k \in D : k <= Len(ws)
        BY <1>1
      <4> HIDE DEF First, D
      <4> QED BY <4>2, <4>3
    <3> QED BY <3>1, <3>2
  <2>2. CASE Over # {}
    <3>1. PICK n \in Over : \A k \in Over : n <= k
      <4>1. Over \in SUBSET Nat
        BY <1>1
      <4> HIDE DEF Over
      <4> QED BY <2>2, <4>1, Least
    <3>2. n \in 1..Len(ws) /\ ~(Cardinality(h \cup First(n)) <= limit)
      BY <1>1
    <3> DEFINE m == n - 1
    <3>3. m \in 0..Len(ws) /\ n \in 0..Len(ws) /\ m < n
      BY <1>1, <3>2
    <3>4. Cardinality(h \cup First(m)) <= limit
      <4>1. CASE m = 0
        <5>1. Cardinality(h \cup First(0)) <= limit
          <6> HIDE DEF First
          <6> QED BY <1>6
        <5> HIDE DEF m, First
        <5> QED BY <4>1, <5>1
      <4>2. CASE m # 0
        <5>1. m \in D
          BY <1>1, <3>3, <4>2
        <5>2. m \notin Over
          <6>1. m \in Nat /\ n \in Nat
            BY <3>2, <3>3
          <6> HIDE DEF Over, First
          <6> QED BY <3>1, <3>3, <6>1
        <5> HIDE DEF First
        <5> QED BY <5>1, <5>2
      <4> QED BY <4>1, <4>2
    <3>5. ASSUME NEW k \in D, Cardinality(h \cup First(k)) <= limit PROVE k <= m
      <4>1. k \in 0..Len(ws)
        BY <1>1
      <4>2. CASE n <= k
        <5>1. Cardinality(h \cup First(n)) <= Cardinality(h \cup First(k))
          BY <1>5, <3>3, <4>1, <4>2
        <5>2. Cardinality(h \cup First(n)) \in Nat /\ Cardinality(h \cup First(k)) \in Nat
          BY <1>4, <3>3, <4>1
        <5> HIDE DEF First
        <5> QED BY <3>2, <3>5, <5>1, <5>2
      <4>3. CASE ~(n <= k)
        BY <1>1, <3>2, <4>1, <4>3
      <4> QED BY <4>2, <4>3
    <3> HIDE DEF m
    <3> QED BY <3>3, <3>4, <3>5
  <2> QED BY <2>1, <2>2
<1>8. g \subseteq h \cup First(m)
  <2>1. ASSUME NEW k \in D, Cardinality(h \cup First(k)) <= limit PROVE ws[k].exec \in First(m)
    <3>1. k \in 1..m
      BY <1>1, <1>7, <2>1
    <3> QED BY <3>1
  <2> HIDE DEF First
  <2> QED BY <1>2, <2>1
<1> HIDE DEF First
<1>9. IsFiniteSet(g) /\ Cardinality(g) <= Cardinality(h \cup First(m))
  BY <1>4, <1>7, <1>8, FS_Subset
<1>10. Cardinality(g) \in Nat /\ Cardinality(h \cup First(m)) \in Nat
  BY <1>4, <1>7, <1>9, FS_CardinalityType
<1>11. Cardinality(g) <= limit
  BY <1>7, <1>9, <1>10
<1>12. IsFiniteSet(g) /\ Cardinality(g) <= limit
  BY <1>9, <1>11
<1> QED BY <1>3, <1>12 DEF g

\* Who is taken out is gone, and nobody comes in.
LEMMA WithoutKeeps ==
  ASSUME NEW W, NEW ws \in Seq(W), NEW E
  PROVE  /\ Without(ws, E) \in Seq(W)
         /\ \A v \in ToSet(Without(ws, E)) : v \in ToSet(ws) /\ v.exec \notin E
<1> DEFINE K == {k \in DOMAIN ws : ws[k].exec \notin E}
           n == Cardinality(K)
           Upto(k) == {j \in K : j <= k}
           At(i) == CHOOSE k \in K : Cardinality(Upto(k)) = i
           r == [k \in K |-> Cardinality(Upto(k))]
<1>1. Len(ws) \in Nat /\ DOMAIN ws = 1..Len(ws) /\ K \subseteq 1..Len(ws)
  OBVIOUS
<1>2. IsFiniteSet(K) /\ n \in Nat
  <2>1. IsFiniteSet(1..Len(ws))
    BY <1>1, FS_Interval
  <2> HIDE DEF K
  <2> QED BY <1>1, <2>1, FS_Subset, FS_CardinalityType
<1> HIDE DEF K
<1>3. ASSUME NEW k \in K
      PROVE  /\ IsFiniteSet(Upto(k)) /\ Cardinality(Upto(k)) \in 1..n
  <2>1. Upto(k) \in SUBSET K /\ k \in Upto(k)
    BY <1>1
  <2> HIDE DEF Upto
  <2>2. IsFiniteSet(Upto(k)) /\ Cardinality(Upto(k)) <= n
    BY <1>2, <2>1, FS_Subset
  <2>3. Cardinality(Upto(k)) \in Nat /\ Cardinality(Upto(k)) # 0
    BY <2>1, <2>2, FS_CardinalityType, FS_EmptySet
  <2> QED BY <1>2, <2>2, <2>3
<1>4. ASSUME NEW k \in K, NEW m \in K, k < m
      PROVE  Cardinality(Upto(k)) # Cardinality(Upto(m))
  <2>1. k \in Nat /\ m \in Nat /\ \A j \in K : j \in Nat
    BY <1>1
  <2>2. \A j \in K : j <= k => j <= m
    BY <1>4, <2>1
  <2>3. ~(m <= k) /\ m <= m
    BY <1>4, <2>1
  <2>4. Upto(k) \in SUBSET Upto(m) /\ m \in Upto(m) /\ m \notin Upto(k)
    BY <2>2, <2>3
  <2> HIDE DEF Upto
  <2> QED BY <1>3, <2>4, FS_Subset
<1>5. r \in Injection(K, 1..n)
  <2>1. ASSUME NEW k \in K, NEW m \in K, k # m
        PROVE  Cardinality(Upto(k)) # Cardinality(Upto(m))
    <3>1. k < m \/ m < k
      <4>1. k \in Nat /\ m \in Nat
        BY <1>1
      <4> QED BY <2>1, <4>1
    <3> HIDE DEF Upto
    <3> QED BY <1>4, <3>1
  <2> HIDE DEF Upto
  <2>2. r \in [K -> 1..n]
    BY <1>3
  <2> QED BY <2>1, <2>2 DEF Injection, IsInjective
<1>6. r \in Surjection(K, 1..n)
  <2>1. IsFiniteSet(1..n) /\ Cardinality(1..n) = n
    BY <1>2, FS_Interval
  <2> HIDE DEF r
  <2> QED BY <1>5, <2>1, FS_Injection
<1>7. ASSUME NEW i \in 1..n PROVE At(i) \in K
  <2>1. PICK k \in K : r[k] = i
    BY <1>6 DEF Surjection
  <2>2. Cardinality(Upto(k)) = i
    BY <2>1
  <2> HIDE DEF Upto
  <2> QED BY <2>2
<1>8. Without(ws, E) = [i \in 1..n |-> ws[At(i)]]
  BY DEF Without, K
<1> HIDE DEF At, Upto, r, n
<1>9. \A i \in 1..n : ws[At(i)] \in W /\ ws[At(i)] \in ToSet(ws) /\ ws[At(i)].exec \notin E
  <2>1. \A k \in K : ws[k] \in W /\ ws[k] \in ToSet(ws) /\ ws[k].exec \notin E
    BY <1>1 DEF K, ToSet
  <2> QED BY <1>7, <2>1
<1>10. Without(ws, E) \in Seq(W)
  BY <1>2, <1>8, <1>9
<1>11. \A v \in ToSet(Without(ws, E)) : \E i \in 1..n : v = ws[At(i)]
  BY <1>8 DEF ToSet
<1> QED BY <1>9, <1>10, <1>11

\* Who waits is an execution of a child.
LEMMA WaitersTyped ==
  ASSUME SlotInv
  PROVE  \A v \in ToSet(waiting) : v \in Waiters /\ v.exec \in Executions
<1>1. \A k \in DOMAIN waiting : waiting[k] \in Waiters
  BY DEF SlotInv
<1>2. \A v \in ToSet(waiting) : v \in Waiters
  BY <1>1 DEF ToSet
<1> QED BY <1>2 DEF Waiters

LEMMA SlotTyped ==
  ASSUME IInv, NEW c \in Children
  PROVE  /\ worker[c] \in Worker /\ Exec(c) = <<c, worker[c].gen>> /\ Exec(c) \in Executions
         /\ worker \in [Children -> Worker]
<1>1. worker[c] \in Worker /\ worker[c].gen \in Nat
  BY Before
<1> QED BY <1>1 DEF Exec, Executions, IInv, MessageTypes

\* Executions of different children are different.
LEMMA ExecOf ==
  ASSUME NEW c, NEW d, NEW g, c # d
  PROVE  Exec(d) # <<c, g>>
BY DEF Exec

\* The child c comes to w, and to the execution that w is at; the slots come to h and the
\* waiters to ws, and no other child is concerned.
LEMMA SlotsMove ==
  ASSUME IInv, SlotInv, NEW c \in Children, NEW w \in Worker, w.gen >= worker[c].gen,
         worker' = [worker EXCEPT ![c] = w], SlotsFit',
         held \subseteq held', held' \subseteq held \cup {<<c, w.gen>>},
         waiting' \in Seq(Waiters),
         \A v \in ToSet(waiting') : v \in ToSet(waiting) \/ v.exec = <<c, w.gen>>,
         SlotUse(w, <<c, w.gen>>, held'),
         \A v \in ToSet(waiting') : v.exec = <<c, w.gen>> => WaitUse(w, v)
  PROVE  SlotInv'
<1>1. /\ worker'[c] = w /\ Exec(c)' = <<c, w.gen>> /\ w.gen \in Nat /\ worker[c].gen \in Nat
      /\ \A d \in Children \ {c} : worker'[d] = worker[d] /\ Exec(d)' = Exec(d)
  BY SlotTyped, WorkerTypes DEF Exec
<1>2. \A e \in Executions : e[1] \in Children /\ (Begun(e) => Begun(e)')
  BY <1>1 DEF Executions, Begun
<1>3. Begun(<<c, w.gen>>)' /\ <<c, w.gen>> \in Executions
  BY <1>1 DEF Executions, Begun
<1>4. \A e \in held' : Begun(e)'
  BY <1>2, <1>3 DEF SlotInv, SlotsFit
<1>5. \A v \in ToSet(waiting) : v.exec \in Executions
  BY WaitersTyped
<1>6. \A v \in ToSet(waiting') : Begun(v.exec)'
  BY <1>2, <1>3, <1>5 DEF SlotInv
<1>7. ASSUME NEW d \in Children PROVE SlotUse(worker'[d], Exec(d)', held')
  <2>1. CASE d = c
    BY <1>1, <2>1
  <2>2. CASE d # c
    <3>1. Exec(d) # <<c, w.gen>>
      BY <2>2, ExecOf
    <3>2. SlotUse(worker[d], Exec(d), held) /\ (Exec(d) \in held' <=> Exec(d) \in held)
      BY <3>1 DEF SlotInv
    <3> QED BY <1>1, <2>2, <3>2 DEF SlotUse
  <2> QED BY <2>1, <2>2
<1>8. ASSUME NEW v \in ToSet(waiting'), NEW d \in Children, v.exec = Exec(d)'
      PROVE  WaitUse(worker'[d], v)
  <2>1. CASE d = c
    BY <1>1, <1>8, <2>1
  <2>2. CASE d # c
    <3>1. v.exec = Exec(d) /\ v.exec # <<c, w.gen>>
      BY <1>1, <1>8, <2>2, ExecOf
    <3>2. WaitUse(worker[d], v)
      BY <3>1 DEF SlotInv
    <3> QED BY <1>1, <2>2, <3>2
  <2> QED BY <2>1, <2>2
<1> QED BY <1>4, <1>6, <1>7, <1>8 DEF SlotInv

\* The same with the slots and the waiters as they are.
LEMMA SlotsSet ==
  ASSUME IInv, SlotInv, NEW c \in Children, NEW w \in Worker, w.gen = worker[c].gen,
         worker' = [worker EXCEPT ![c] = w], UNCHANGED <<held, waiting>>,
         SlotUse(w, Exec(c), held),
         \A v \in ToSet(waiting) : v.exec = Exec(c) => WaitUse(w, v)
  PROVE  SlotInv'
<1>1. w.gen >= worker[c].gen /\ Exec(c) = <<c, w.gen>>
  BY SlotTyped, WorkerTypes
<1>2. SlotsFit' /\ waiting' \in Seq(Waiters)
  BY DEF SlotInv, SlotsFit
<1> QED BY <1>1, <1>2, SlotsMove

\* A slot is taken by the execution that w is at.
LEMMA SlotsTake ==
  ASSUME IInv, SlotInv, NEW c \in Children, NEW w \in Worker,
         <<c, w.gen>> \in held \/ Cardinality(held) < Limit,
         held' = held \cup {<<c, w.gen>>}
  PROVE  SlotsFit' /\ held \subseteq held' /\ held' \subseteq held \cup {<<c, w.gen>>}
<1>1. <<c, w.gen>> \in Executions
  BY WorkerTypes DEF Executions
<1>2. IsFiniteSet(held) /\ Cardinality(held) <= Limit /\ Cardinality(held) \in Nat
  BY FS_CardinalityType DEF SlotInv, SlotsFit
<1> DEFINE e == <<c, w.gen>>
<1> HIDE DEF e
<1>3. IsFiniteSet(held \cup {e}) /\ Cardinality(held \cup {e}) =
        IF e \in held THEN Cardinality(held) ELSE Cardinality(held) + 1
  BY <1>2, FS_AddElement
<1>4. Cardinality(held \cup {e}) <= Limit
  BY <1>2, <1>3, LimitAssumption DEF e
<1>5. IsFiniteSet(held') /\ Cardinality(held') <= Limit
  BY <1>3, <1>4 DEF e
<1>6. held' \subseteq Executions
  BY <1>1 DEF SlotInv, SlotsFit
<1> QED BY <1>5, <1>6 DEF SlotsFit

\* What the slots come to when one is released.
LEMMA AdmittedFits ==
  ASSUME IInv, SlotInv, NEW c \in Children
  PROVE  LET h == held \ {Exec(c)}
         IN  /\ h \subseteq Admitted(h) /\ Admitted(h) \subseteq Executions
             /\ Admitted(h) \subseteq h \cup {v.exec : v \in ToSet(waiting)}
             /\ IsFiniteSet(Admitted(h)) /\ Cardinality(Admitted(h)) <= Limit
<1> DEFINE h == held \ {Exec(c)}
<1>1. /\ IsFiniteSet(held) /\ held \subseteq Executions /\ Cardinality(held) <= Limit
      /\ waiting \in Seq([exec : Executions, for : {"start", "resume"}])
  BY DEF SlotInv, SlotsFit, Waiters
<1>2. /\ IsFiniteSet(h) /\ Cardinality(h) <= Cardinality(held)
      /\ Cardinality(h) \in Nat /\ Cardinality(held) \in Nat
  BY <1>1, FS_Subset, FS_CardinalityType
<1>3. Cardinality(h) <= Limit /\ Limit \in Nat
  BY <1>1, <1>2, LimitAssumption
<1>4. \A v \in ToSet(waiting) : v.exec \in Executions
  BY WaitersTyped
<1> HIDE DEF h
<1> DEFINE g == Fitting(h, waiting, Limit)
<1>5. /\ IsFiniteSet(g) /\ Cardinality(g) <= Limit /\ h \subseteq g
      /\ g \subseteq h \cup {v.exec : v \in ToSet(waiting)}
  BY <1>1, <1>2, <1>3, FittingFits
<1> HIDE DEF g
<1>6. g \subseteq Executions
  BY <1>1, <1>4, <1>5 DEF h
<1>7. g = Admitted(h)
  BY DEF g, Admitted
<1> QED BY <1>5, <1>6, <1>7 DEF h

\* A worker that others wake is at work only with the slot that woke it.
LEMMA WokenSlots ==
  ASSUME IInv, SlotInv, NEW d \in Children, NEW h, Exec(d) \in h,
         Exec(d) \in held \/ \E v \in ToSet(waiting) : v.exec = Exec(d)
  PROVE  /\ Woken(worker[d], d) \in Worker /\ Woken(worker[d], d).gen = worker[d].gen
         /\ SlotUse(Woken(worker[d], d), Exec(d), h)
<1> DEFINE w == worker[d]
           u == Woken(w, d)
<1>1. w \in Worker
  BY SlotTyped
<1>2. /\ u \in Worker /\ u.gen = w.gen
      /\ u.pc = "parked" => w.pc = "parked" /\ ~Waits(d, "resume")
  BY <1>1 DEF Woken, Resumed, Worker, Pcs
<1>3. u.pc # "parked"
  <2> SUFFICES ASSUME u.pc = "parked" PROVE FALSE
    OBVIOUS
  <2>1. w.pc = "parked" /\ ~Waits(d, "resume") /\ Exec(d) \notin held
    BY <1>2 DEF SlotInv, SlotUse
  <2>2. PICK v \in ToSet(waiting) : v.exec = Exec(d)
    BY <2>1
  <2>3. v.for # "start"
    BY <2>1, <2>2 DEF SlotInv, WaitUse
  <2>4. v \in Waiters /\ \E k \in DOMAIN waiting : waiting[k] = v
    BY DEF SlotInv, ToSet
  <2>5. v = Waiter(d, "resume")
    BY <2>2, <2>3, <2>4 DEF Waiters, Waiter
  <2> QED BY <2>1, <2>4, <2>5 DEF Waits
<1> HIDE DEF u, w
<1> QED BY <1>2, <1>3 DEF SlotUse, u, w

LEMMA ReleaseSlots ==
  ASSUME IInv, SlotInv, NEW c \in Children, NEW rec \in Worker, Release(c, rec),
         rec.gen = worker[c].gen,
         rec.pc \notin AtWork, rec.pc = "reserved" => rec.aborted,
         rec.pc = "parked" => \A v \in ToSet(waiting) : v.exec # Exec(c),
         \A v \in ToSet(waiting) : v.exec = Exec(c) => WaitUse(rec, v)
  PROVE  SlotInv'
<1> DEFINE h == Admitted(held \ {Exec(c)})
<1>1. /\ held \ {Exec(c)} \subseteq h /\ h \subseteq Executions
      /\ h \subseteq (held \ {Exec(c)}) \cup {v.exec : v \in ToSet(waiting)}
      /\ IsFiniteSet(h) /\ Cardinality(h) <= Limit
  BY AdmittedFits
<1> HIDE DEF h
<1>2. /\ held' = h /\ waiting' = Without(waiting, h)
      /\ worker' = [d \in Children |-> IF d = c THEN rec
                                       ELSE IF Exec(d) \in h THEN Woken(worker[d], d)
                                       ELSE worker[d]]
  BY DEF Release, h
<1>3. /\ waiting' \in Seq(Waiters)
      /\ \A v \in ToSet(waiting') : v \in ToSet(waiting) /\ v.exec \notin h
  BY <1>2, WithoutKeeps DEF SlotInv
<1>4. ASSUME NEW d \in Children
      PROVE  worker'[d].gen = worker[d].gen /\ SlotUse(worker'[d], Exec(d), h)
  <2>1. CASE d = c
    <3>1. rec.pc = "parked" => Exec(c) \notin h
      BY <1>1
    <3> QED BY <1>2, <2>1, <3>1 DEF SlotUse
  <2>2. CASE d # c /\ Exec(d) \in h
    <3>1. Exec(d) \in held \/ \E v \in ToSet(waiting) : v.exec = Exec(d)
      BY <1>1, <2>2
    <3> QED BY <1>2, <2>2, <3>1, WokenSlots
  <2>3. CASE d # c /\ Exec(d) \notin h
    <3>1. Exec(d) # Exec(c)
      BY <2>3 DEF Exec
    <3>2. Exec(d) \notin held /\ SlotUse(worker[d], Exec(d), held)
      BY <1>1, <2>3, <3>1 DEF SlotInv
    <3> QED BY <1>2, <2>3, <3>2 DEF SlotUse
  <2> QED BY <2>1, <2>2, <2>3
<1>5. \A d \in Children : Exec(d)' = Exec(d)
  BY <1>4 DEF Exec
<1>6. \A e \in Executions : Begun(e)' <=> Begun(e)
  BY <1>4 DEF Executions, Begun
<1>7. \A v \in ToSet(waiting) : v.exec \in Executions
  BY WaitersTyped
<1>8. \A e \in held' : Begun(e)'
  BY <1>1, <1>2, <1>6 DEF SlotInv
<1>9. \A v \in ToSet(waiting') : Begun(v.exec)'
  BY <1>3, <1>6, <1>7 DEF SlotInv
<1>10. ASSUME NEW v \in ToSet(waiting'), NEW d \in Children, v.exec = Exec(d)'
       PROVE  WaitUse(worker'[d], v)
  <2>1. v \in ToSet(waiting) /\ v.exec = Exec(d) /\ Exec(d) \notin h
    BY <1>3, <1>5, <1>10
  <2>2. CASE d = c
    BY <1>2, <2>1, <2>2
  <2>3. CASE d # c
    BY <1>2, <2>1, <2>3 DEF SlotInv
  <2> QED BY <2>2, <2>3
<1>11. SlotsFit'
  BY <1>1, <1>2 DEF SlotsFit
<1>12. \A d \in Children : SlotUse(worker'[d], Exec(d)', held')
  BY <1>2, <1>4, <1>5
<1> QED BY <1>3, <1>8, <1>9, <1>10, <1>11, <1>12 DEF SlotInv

LEMMA StartSlots ==
  ASSUME IInv, SlotInv, NEW c \in Children, Start(c)
  PROVE  SlotInv'
<1> DEFINE w == [NoWorker EXCEPT !.pc = "reserved", !.gen = 1]
<1>1. /\ w \in Worker /\ w.pc = "reserved" /\ w.gen = 1
  BY WorkerTypes DEF NoWorker, Worker, Pcs
<1>2. /\ worker[c].gen = 0 /\ worker' = [worker EXCEPT ![c] = w] /\ UNCHANGED waiting
      /\ Cardinality(held) < Limit /\ held' = held \cup {<<c, 1>>}
  BY DEF Start, Set
<1> HIDE DEF w
<1>3. SlotsFit' /\ held \subseteq held' /\ held' \subseteq held \cup {<<c, w.gen>>}
  BY <1>1, <1>2, SlotsTake
<1>4. SlotUse(w, <<c, w.gen>>, held')
  BY <1>1, <1>2 DEF SlotUse, AtWork
<1>5. \A v \in ToSet(waiting) : v.exec # <<c, w.gen>>
  <2> SUFFICES ASSUME NEW v \in ToSet(waiting), v.exec = <<c, 1>> PROVE FALSE
    BY <1>1
  <2>1. Begun(v.exec)
    BY DEF SlotInv
  <2>2. Begun(<<c, 1>>) <=> 1 <= worker[c].gen
    BY DEF Begun
  <2> QED BY <1>2, <2>1, <2>2
<1>6. waiting' \in Seq(Waiters) /\ \A v \in ToSet(waiting') : v \in ToSet(waiting)
  BY <1>2 DEF SlotInv
<1>7. w.gen >= worker[c].gen
  BY <1>1, <1>2
<1>8. \A v \in ToSet(waiting') : v.exec = <<c, w.gen>> => WaitUse(w, v)
  BY <1>5, <1>6
<1> QED BY <1>1, <1>2, <1>3, <1>4, <1>6, <1>7, <1>8, SlotsMove

\* Steps of a worker that keep its slot.
LEMMA WorkerSlots ==
  ASSUME IInv, SlotInv, NEW c \in Children,
         \/ LoadStep(c) \/ RunEnds(c) \/ RunBreaksOff(c) \/ Settle(c) \/ Drain(c) \/ Pause(c)
         \/ \E m \in Messages : Send(c, m)
  PROVE  SlotInv'
<1>1. worker[c] \in Worker /\ SlotUse(worker[c], Exec(c), held)
  BY SlotTyped DEF SlotInv
<1>2. \A v \in ToSet(waiting) : v.exec = Exec(c) => WaitUse(worker[c], v)
  BY DEF SlotInv
<1>3. UNCHANGED <<held, waiting>>
  <2>1. CASE LoadStep(c)
    BY <2>1 DEF LoadStep, LaunchStarted, Loaded, LoadFails
  <2>2. CASE RunEnds(c) \/ RunBreaksOff(c) \/ Settle(c) \/ Drain(c) \/ Pause(c)
    BY <2>2 DEF RunEnds, RunBreaksOff, Settle, Drain, Pause
  <2>3. ASSUME NEW m \in Messages, Send(c, m) PROVE UNCHANGED <<held, waiting>>
    BY <2>3, Zenon DEF Send
  <2> QED BY <2>1, <2>2, <2>3, Zenon
<1>4. ASSUME IInv'
      PROVE  worker'[c] \in Worker
  BY <1>4 DEF IInv, MessageTypes
<1> DEFINE Keeps(w) ==
             /\ worker' = [worker EXCEPT ![c] = w] /\ w.gen = worker[c].gen
             /\ \/ w.pc = worker[c].pc /\ w.aborted = worker[c].aborted
                \/ worker[c].pc \in AtWork \cup {"reserved"} /\ w.pc = "closing"
                \/ worker[c].pc = "reserved" /\ ~worker[c].aborted /\ w.pc = "loading"
                \/ worker[c].pc = "loading" /\ w.pc = "running"
                \/ worker[c].pc = "settling" /\ w.pc = "none"
<1>5. PICK w : Keeps(w)
  <2>1. CASE LaunchStarted(c)
    <3>1. \A pc : LET w == [worker[c] EXCEPT !.pc = pc] IN w.pc = pc /\ w.gen = worker[c].gen
      BY <1>1 DEF Worker
    <3> QED BY <1>1, <2>1, <3>1 DEF LaunchStarted, Set, Worker, AtWork
  <2>2. CASE Loaded(c)
    <3> DEFINE w == [worker[c] EXCEPT !.pc = "running", !.inbox = queue[c]]
    <3>1. w.pc = "running" /\ w.gen = worker[c].gen
      BY <1>1 DEF Worker
    <3> QED BY <2>2, <3>1 DEF Loaded, Set
  <2>3. CASE LoadFails(c)
    <3> DEFINE w == [worker[c] EXCEPT !.pc = "closing"]
    <3>1. w.pc = "closing" /\ w.gen = worker[c].gen
      BY <1>1 DEF Worker
    <3> QED BY <2>3, <3>1 DEF LoadFails, Set, AtWork
  <2>4. CASE RunEnds(c) \/ RunBreaksOff(c)
    <3> DEFINE w == [worker[c] EXCEPT !.pc = "closing", !.inbox = <<>>]
    <3>1. w.pc = "closing" /\ w.gen = worker[c].gen
      BY <1>1 DEF Worker
    <3> QED BY <2>4, <3>1 DEF RunEnds, RunBreaksOff, Set, AtWork
  <2>5. CASE Settle(c)
    <3> DEFINE w == [NoWorker EXCEPT !.gen = worker[c].gen]
    <3>1. w.pc = "none" /\ w.gen = worker[c].gen
      BY DEF NoWorker
    <3> QED BY <2>5, <3>1 DEF Settle, Settles, Set
  <2>6. CASE Drain(c)
    <3> DEFINE w == [worker[c] EXCEPT !.inbox = <<>>]
    <3>1. w.pc = worker[c].pc /\ w.gen = worker[c].gen /\ w.aborted = worker[c].aborted
      BY <1>1 DEF Worker
    <3> QED BY <2>6, <3>1 DEF Drain, Set
  <2>7. CASE Pause(c)
    <3> DEFINE w == [worker[c] EXCEPT !.pausing = TRUE]
    <3>1. w.pc = worker[c].pc /\ w.gen = worker[c].gen /\ w.aborted = worker[c].aborted
      BY <1>1 DEF Worker
    <3> QED BY <2>7, <3>1 DEF Pause, Set
  <2>8. ASSUME NEW m \in Messages, Send(c, m)
        PROVE  \E w : Keeps(w)
    <3> DEFINE w == [worker[c] EXCEPT !.inbox = Append(@, m), !.owed = TRUE]
               x == [worker[c] EXCEPT !.owed = Active(c)]
    <3>1. /\ w.pc = worker[c].pc /\ w.gen = worker[c].gen /\ w.aborted = worker[c].aborted
          /\ x.pc = worker[c].pc /\ x.gen = worker[c].gen /\ x.aborted = worker[c].aborted
      BY <1>1 DEF Worker
    <3>2. worker' = [worker EXCEPT ![c] = w] \/ worker' = [worker EXCEPT ![c] = x]
      BY <2>8, Zenon DEF Send, Set
    <3> HIDE DEF w, x
    <3>3. Keeps(w) \/ Keeps(x)
      BY <3>1, <3>2
    <3> HIDE DEF Keeps
    <3> QED BY <3>3
  <2> HIDE DEF Keeps
  <2> QED BY <2>1, <2>2, <2>3, <2>4, <2>5, <2>6, <2>7, <2>8 DEF LoadStep
<1>6. IInv'
  BY RunInv, LoadedInv, QuietInv, SendInv DEF LoadStep
<1>7. w \in Worker
  <2>1. worker'[c] = w
    BY <1>5, SlotTyped
  <2> QED BY <1>4, <1>6, <2>1
<1>8. SlotUse(w, Exec(c), held)
  BY <1>1, <1>5 DEF SlotUse, AtWork
<1>9. \A v \in ToSet(waiting) : v.exec = Exec(c) => WaitUse(w, v)
  BY <1>2, <1>5 DEF WaitUse, AtWork
<1> QED BY <1>3, <1>5, <1>7, <1>8, <1>9, SlotsSet

\* Who joins the waiters is the only new one.
LEMMA JoinedOf ==
  ASSUME NEW W, NEW ws \in Seq(W), NEW v \in W
  PROVE  Append(ws, v) \in Seq(W) /\ \A u \in ToSet(Append(ws, v)) : u \in ToSet(ws) \/ u = v
<1>1. /\ Append(ws, v) \in Seq(W) /\ Len(ws) \in Nat /\ Len(Append(ws, v)) = Len(ws) + 1
      /\ Append(ws, v)[Len(ws) + 1] = v /\ \A k \in 1..Len(ws) : Append(ws, v)[k] = ws[k]
  OBVIOUS
<1> QED BY <1>1 DEF ToSet

\* A step that moves no worker and no slot.
LEMMA SameSlots ==
  ASSUME SlotInv, UNCHANGED <<worker, held, waiting>>
  PROVE  SlotInv'
<1>1. SlotsFit' /\ waiting' \in Seq(Waiters)
  BY DEF SlotInv, SlotsFit
<1>2. \A e : Begun(e)' <=> Begun(e)
  BY DEF Begun
<1>3. \A c \in Children : Exec(c)' = Exec(c) /\ worker'[c] = worker[c]
  BY DEF Exec
<1> QED BY <1>1, <1>2, <1>3 DEF SlotInv

LEMMA PumpSlots ==
  ASSUME IInv, SlotInv, NEW c \in Children,
         BeginLaunch(c) \/ Dismiss(c) \/ CreateExecution(c) \/ NoModel(c) \/ LaunchFails(c)
  PROVE  SlotInv'
<1>1. UNCHANGED <<worker, held, waiting>>
  BY DEF BeginLaunch, Dismiss, CreateExecution, NoModel, LaunchFails
<1> QED BY <1>1, SameSlots

\* The execution of a successor is a new one, so nobody waits for it yet.
LEMMA FollowupSlots ==
  ASSUME IInv, SlotInv, NEW c \in Children, LaunchFollowup(c)
  PROVE  SlotInv'
<1> DEFINE g == worker[c].gen + 1
           e == <<c, g>>
           w == [NoWorker EXCEPT !.gen = g,
                                 !.pc = IF Reservable(e) THEN "loading" ELSE "waiting"]
<1>1. worker[c].gen \in Nat /\ g \in Nat /\ g > worker[c].gen
  BY Before
<1>2. /\ w \in Worker /\ w.gen = g
      /\ w.pc = IF Reservable(e) THEN "loading" ELSE "waiting"
  <2>1. (IF Reservable(e) THEN "loading" ELSE "waiting") \in Pcs
    BY DEF Pcs
  <2> HIDE DEF g, e
  <2> QED BY <1>1, <2>1, WorkerTypes DEF NoWorker, Worker
<1>3. /\ worker' = [worker EXCEPT ![c] = w]
      /\ IF Reservable(e)
         THEN held' = held \cup {e} /\ UNCHANGED waiting
         ELSE waiting' = Append(waiting, [exec |-> e, for |-> "start"]) /\ UNCHANGED held
  BY DEF LaunchFollowup, Set
<1>4. \A v \in ToSet(waiting) : v.exec # e
  <2> SUFFICES ASSUME NEW v \in ToSet(waiting), v.exec = e PROVE FALSE
    OBVIOUS
  <2>1. Begun(v.exec)
    BY DEF SlotInv
  <2>2. Begun(e) <=> g <= worker[c].gen
    BY DEF Begun
  <2> QED BY <1>1, <2>1, <2>2
<1>5. w.gen >= worker[c].gen /\ <<c, w.gen>> = e /\ e \in Executions
  BY <1>1, <1>2 DEF Executions
<1>6. SlotsFit /\ waiting \in Seq(Waiters)
  BY DEF SlotInv
<1> HIDE DEF e, g, w
<1>7. CASE Reservable(e)
  <2>1. held' = held \cup {<<c, w.gen>>} /\ UNCHANGED waiting
    BY <1>3, <1>5, <1>7
  <2>2. SlotsFit' /\ held \subseteq held' /\ held' \subseteq held \cup {<<c, w.gen>>}
    BY <1>2, <1>5, <1>7, <2>1, SlotsTake DEF Reservable
  <2>3. SlotUse(w, <<c, w.gen>>, held')
    BY <1>2, <1>7, <2>1 DEF SlotUse
  <2>4. \A v \in ToSet(waiting') : /\ v \in ToSet(waiting)
                                   /\ v.exec = <<c, w.gen>> => WaitUse(w, v)
    BY <1>4, <1>5, <2>1
  <2> QED BY <1>2, <1>3, <1>5, <1>6, <2>1, <2>2, <2>3, <2>4, SlotsMove
<1>8. CASE ~Reservable(e)
  <2> DEFINE v == [exec |-> e, for |-> "start"]
  <2>1. v \in Waiters /\ v.exec = e /\ v.for = "start"
    BY <1>5 DEF Waiters
  <2>2. waiting' = Append(waiting, v) /\ UNCHANGED held
    BY <1>3, <1>8
  <2> HIDE DEF v
  <2>3. waiting' \in Seq(Waiters) /\ \A u \in ToSet(waiting') : u \in ToSet(waiting) \/ u = v
    BY <1>6, <2>1, <2>2, JoinedOf
  <2>4. SlotsFit' /\ held \subseteq held' /\ held' \subseteq held \cup {<<c, w.gen>>}
    BY <1>6, <2>2 DEF SlotsFit
  <2>5. w.pc = "waiting"
    BY <1>2, <1>8
  <2>6. SlotUse(w, <<c, w.gen>>, held')
    BY <2>5 DEF SlotUse, AtWork
  <2>7. WaitUse(w, v)
    BY <2>5 DEF WaitUse, AtWork
  <2>8. \A u \in ToSet(waiting') : u.exec = <<c, w.gen>> => WaitUse(w, u)
    BY <1>4, <1>5, <2>3, <2>7
  <2>9. \A u \in ToSet(waiting') : u \in ToSet(waiting) \/ u.exec = <<c, w.gen>>
    BY <1>5, <2>1, <2>3
  <2> QED BY <1>2, <1>3, <1>5, <2>3, <2>4, <2>6, <2>8, <2>9, SlotsMove
<1> QED BY <1>7, <1>8

\* A resume takes a slot, or waits for one; only a parked worker waits for none and needs one.
LEMMA ResumingSlots ==
  ASSUME IInv, SlotInv, NEW c \in Children, NEW rec \in Worker, Resuming(c, rec),
         rec.pc = worker[c].pc, rec.gen = worker[c].gen, rec.aborted = worker[c].aborted
  PROVE  SlotInv'
<1>1. SlotUse(rec, Exec(c), held) /\ Exec(c) = <<c, rec.gen>> /\ Exec(c) \in Executions
  BY SlotTyped DEF SlotInv, SlotUse
<1>2. ASSUME NEW v \in ToSet(waiting), v.exec = Exec(c)
      PROVE  /\ WaitUse(rec, v)
             /\ v.for = "start" \/ Waits(c, "resume")
  <2>1. WaitUse(rec, v)
    BY <1>2 DEF SlotInv, WaitUse
  <2>2. v \in Waiters /\ \E k \in DOMAIN waiting : waiting[k] = v
    BY WaitersTyped DEF ToSet
  <2>3. v.for # "start" => v = Waiter(c, "resume")
    BY <1>2, <2>2 DEF Waiters, Waiter
  <2> QED BY <2>1, <2>2, <2>3 DEF Waits
<1>3. SlotsFit /\ waiting \in Seq(Waiters)
  BY DEF SlotInv
<1>4. CASE worker' = [worker EXCEPT ![c] = rec] /\ UNCHANGED <<held, waiting>>
  BY <1>1, <1>2, <1>4, SlotsSet
<1>5. CASE /\ Active(c) /\ ~Waits(c, "resume") /\ Reservable(Exec(c)) /\ UNCHANGED waiting
           /\ worker' = [worker EXCEPT ![c] = Resumed(rec)] /\ held' = held \cup {Exec(c)}
  <2> DEFINE w == Resumed(rec)
  <2>1. /\ w \in Worker /\ w.gen = rec.gen
        /\ w.pc = IF rec.pc = "parked" THEN "running" ELSE rec.pc
    BY DEF Resumed, Worker, Pcs
  <2> HIDE DEF w
  <2>2. SlotsFit' /\ held \subseteq held' /\ held' \subseteq held \cup {<<c, w.gen>>}
    BY <1>1, <1>5, <2>1, SlotsTake DEF Reservable
  <2>3. SlotUse(w, <<c, w.gen>>, held')
    BY <1>1, <1>5, <2>1 DEF SlotUse
  <2>4. ASSUME NEW v \in ToSet(waiting), v.exec = <<c, w.gen>>
        PROVE  WaitUse(w, v)
    <3>1. WaitUse(rec, v) /\ v.for = "start"
      BY <1>1, <1>2, <1>5, <2>1, <2>4
    <3> QED BY <2>1, <3>1 DEF WaitUse
  <2>5. worker[c].gen \in Nat /\ w.gen >= worker[c].gen
    BY <2>1, Before
  <2>6. worker' = [worker EXCEPT ![c] = w] /\ waiting' = waiting
    BY <1>5 DEF w
  <2> QED BY <1>3, <2>1, <2>2, <2>3, <2>4, <2>5, <2>6, SlotsMove
<1>6. CASE /\ Active(c) /\ ~Reservable(Exec(c)) /\ UNCHANGED held
           /\ worker' = [worker EXCEPT ![c] = rec]
           /\ waiting' = Append(waiting, Waiter(c, "resume"))
  <2> DEFINE v == Waiter(c, "resume")
  <2>1. v \in Waiters /\ v.exec = <<c, rec.gen>> /\ v.for = "resume"
    BY <1>1 DEF Waiter, Waiters
  <2>2. rec.pc \notin AtWork \cup {"reserved"}
    BY <1>1, <1>6 DEF Active, Reservable, SlotUse
  <2> HIDE DEF v
  <2>3. waiting' \in Seq(Waiters) /\ \A u \in ToSet(waiting') : u \in ToSet(waiting) \/ u = v
    <3>1. waiting' = Append(waiting, v)
      BY <1>6 DEF v
    <3> QED BY <1>3, <2>1, <3>1, JoinedOf
  <2>4. SlotsFit' /\ held \subseteq held' /\ held' \subseteq held \cup {<<c, rec.gen>>}
    BY <1>3, <1>6 DEF SlotsFit
  <2>5. SlotUse(rec, <<c, rec.gen>>, held')
    BY <1>1, <1>6
  <2>6. WaitUse(rec, v)
    BY <2>1, <2>2 DEF WaitUse
  <2>7. \A u \in ToSet(waiting') : u.exec = <<c, rec.gen>> => WaitUse(rec, u)
    BY <1>1, <1>2, <2>3, <2>6
  <2>8. \A u \in ToSet(waiting') : u \in ToSet(waiting) \/ u.exec = <<c, rec.gen>>
    BY <2>1, <2>3
  <2>9. worker[c].gen \in Nat /\ rec.gen >= worker[c].gen
    BY Before
  <2> QED BY <1>6, <2>3, <2>4, <2>5, <2>7, <2>8, <2>9, SlotsMove
<1> QED BY <1>4, <1>5, <1>6 DEF Resuming, Set

LEMMA ResumeSlots ==
  ASSUME IInv, SlotInv, NEW c \in Children, Resume(c) \/ ResumeOwed(c)
  PROVE  SlotInv'
<1>1. worker[c] \in Worker
  BY SlotTyped
<1>2. CASE Resume(c)
  BY <1>1, <1>2, ResumingSlots DEF Resume
<1>3. CASE ResumeOwed(c)
  <2> DEFINE w == [worker[c] EXCEPT !.owed = FALSE]
  <2>1. /\ w \in Worker /\ w.pc = worker[c].pc /\ w.gen = worker[c].gen
        /\ w.aborted = worker[c].aborted
    BY <1>1 DEF Worker
  <2>2. Resuming(c, w)
    BY <1>3 DEF ResumeOwed
  <2> HIDE DEF w
  <2> QED BY <2>1, <2>2, ResumingSlots
<1> QED BY <1>2, <1>3

\* A Run that parks, and one that is over, give their slot back.
LEMMA EndSlots ==
  ASSUME IInv, SlotInv, NEW c \in Children, Park(c) \/ Complete(c)
  PROVE  SlotInv'
<1>1. worker[c] \in Worker
  BY SlotTyped
<1>2. \A v \in ToSet(waiting) : v.exec = Exec(c) => WaitUse(worker[c], v)
  BY DEF SlotInv
<1>3. CASE Park(c)
  <2> DEFINE w == [worker[c] EXCEPT !.pc = "parked"]
  <2>1. w \in Worker /\ w.pc = "parked" /\ w.gen = worker[c].gen
    BY <1>1 DEF Worker, Pcs
  <2>2. Release(c, w) /\ worker[c].pc = "running"
    BY <1>3 DEF Park
  <2>3. \A v \in ToSet(waiting) : v.exec # Exec(c)
    BY <1>2, <2>2 DEF WaitUse, AtWork
  <2> HIDE DEF w
  <2>4. w.pc \notin AtWork /\ w.pc # "reserved"
    BY <2>1 DEF AtWork
  <2> QED BY <2>1, <2>2, <2>3, <2>4, ReleaseSlots
<1>4. CASE Complete(c)
  <2> DEFINE w == [worker[c] EXCEPT !.pc = "settling"]
  <2>1. w \in Worker /\ w.pc = "settling" /\ w.gen = worker[c].gen
    BY <1>1 DEF Worker, Pcs
  <2>2. Release(c, w) /\ worker[c].pc = "closing"
    BY <1>4 DEF Complete
  <2>3. \A v \in ToSet(waiting) : v.exec = Exec(c) => WaitUse(w, v)
    BY <1>2, <2>1, <2>2 DEF WaitUse, AtWork
  <2> HIDE DEF w
  <2>4. w.pc \notin AtWork /\ w.pc # "reserved" /\ w.pc # "parked"
    BY <2>1 DEF AtWork
  <2> QED BY <2>1, <2>2, <2>3, <2>4, ReleaseSlots
<1> QED BY <1>3, <1>4

\* An aborted worker needs no slot.
LEMMA AbortedUse ==
  ASSUME NEW w \in Worker, w.pc \notin {"none", "reserved"}
  PROVE  /\ Aborted(w) \in Worker /\ Aborted(w).gen = w.gen
         /\ Aborted(w).pc \notin AtWork \cup {"parked", "reserved"}
<1>1. Aborted(w) \in Worker /\ Aborted(w).gen = w.gen
  BY AbortedWorker
<1>2. Aborted(w).pc = IF w.pc \in {"waiting", "loading", "running", "parked"} THEN "closing"
                      ELSE w.pc
  BY DEF Aborted, Worker
<1>3. w.pc \in Pcs
  BY WorkerTypes
<1> QED BY <1>1, <1>2, <1>3 DEF AtWork, Pcs

LEMMA CancelSlots ==
  ASSUME IInv, SlotInv, NEW c \in Children, Cancel(c)
  PROVE  SlotInv'
<1>1. /\ worker[c] \in Worker /\ SlotUse(worker[c], Exec(c), held)
      /\ Exec(c) = <<c, worker[c].gen>> /\ worker[c].gen \in Nat
  BY SlotTyped, WorkerTypes DEF SlotInv
<1>2. \A v \in ToSet(waiting) : v.exec = Exec(c) => WaitUse(worker[c], v)
  BY DEF SlotInv
<1>3. SlotsFit /\ waiting \in Seq(Waiters)
  BY DEF SlotInv
<1>4. CASE worker[c].pc = "reserved" /\ ~worker[c].aborted
  <2> DEFINE w == [worker[c] EXCEPT !.aborted = TRUE]
  <2>1. w \in Worker /\ w.pc = "reserved" /\ w.aborted /\ w.gen = worker[c].gen
    BY <1>1, <1>4 DEF Worker
  <2>2. Release(c, w)
    BY <1>4 DEF Cancel
  <2>3. \A v \in ToSet(waiting) : v.exec # Exec(c)
    BY <1>2, <1>4 DEF WaitUse
  <2> HIDE DEF w
  <2>4. w.pc \notin AtWork /\ w.pc # "parked"
    BY <2>1 DEF AtWork
  <2> QED BY <2>1, <2>2, <2>3, <2>4, ReleaseSlots
<1>5. CASE ~(worker[c].pc = "reserved" /\ ~worker[c].aborted)
  <2> DEFINE w == IF Active(c) THEN Aborted(worker[c]) ELSE worker[c]
             E == IF Active(c) THEN {Exec(c)} ELSE {}
  <2>1. /\ worker' = [worker EXCEPT ![c] = w] /\ waiting' = Without(waiting, E) /\ UNCHANGED held
    BY <1>5 DEF Cancel, Set
  <2>2. w \in Worker /\ w.gen = worker[c].gen /\ SlotUse(w, Exec(c), held)
    BY <1>1, AbortedUse DEF Active, SlotUse
  <2>3. /\ waiting' \in Seq(Waiters)
        /\ \A v \in ToSet(waiting') : v \in ToSet(waiting) /\ v.exec \notin E
    BY <1>3, <2>1, WithoutKeeps
  <2>4. \A v \in ToSet(waiting') : v.exec = Exec(c) => WaitUse(w, v)
    BY <1>2, <2>3
  <2>5. SlotsFit' /\ w.gen >= worker[c].gen
    BY <1>1, <1>3, <2>1, <2>2 DEF SlotsFit
  <2> HIDE DEF w, E
  <2>6. <<c, w.gen>> = Exec(c) /\ held' = held
    BY <1>1, <2>1, <2>2
  <2>7. SlotUse(w, <<c, w.gen>>, held')
    BY <2>2, <2>6
  <2>8. held \subseteq held' /\ held' \subseteq held \cup {<<c, w.gen>>}
    BY <2>6
  <2>9. \A v \in ToSet(waiting') : /\ v \in ToSet(waiting)
                                   /\ v.exec = <<c, w.gen>> => WaitUse(w, v)
    BY <2>3, <2>4, <2>6
  <2> QED BY <2>1, <2>2, <2>3, <2>5, <2>7, <2>8, <2>9, SlotsMove
<1> QED BY <1>4, <1>5

LEMMA AbortAllSlots ==
  ASSUME IInv, SlotInv, AbortAll
  PROVE  SlotInv'
<1> DEFINE E == {Exec(c) : c \in {d \in Children : Active(d)}}
<1>1. /\ worker' = [c \in Children |-> IF Active(c) THEN Aborted(worker[c]) ELSE worker[c]]
      /\ waiting' = Without(waiting, E) /\ UNCHANGED held
  BY DEF AbortAll
<1>2. /\ waiting' \in Seq(Waiters)
      /\ \A v \in ToSet(waiting') : v \in ToSet(waiting) /\ v.exec \notin E
  BY <1>1, WithoutKeeps DEF SlotInv
<1>3. \A d \in Children : Active(d) => Exec(d) \in E
  OBVIOUS
<1> HIDE DEF E
<1>4. ASSUME NEW d \in Children
      PROVE  /\ worker'[d].gen = worker[d].gen /\ Exec(d)' = Exec(d)
             /\ SlotUse(worker'[d], Exec(d), held)
             /\ ~Active(d) => worker'[d] = worker[d]
  <2>1. worker[d] \in Worker /\ SlotUse(worker[d], Exec(d), held)
    BY SlotTyped DEF SlotInv
  <2>2. CASE Active(d)
    <3>1. worker'[d] = Aborted(worker[d])
      BY <1>1, <2>2
    <3> QED BY <2>1, <2>2, <3>1, AbortedUse DEF Active, SlotUse, Exec
  <2>3. CASE ~Active(d)
    <3>1. worker'[d] = worker[d]
      BY <1>1, <2>3
    <3> QED BY <2>1, <2>3, <3>1 DEF Exec
  <2> QED BY <2>2, <2>3
<1>5. \A e \in Executions : Begun(e)' <=> Begun(e)
  BY <1>4 DEF Executions, Begun
<1>6. \A v \in ToSet(waiting) : v.exec \in Executions
  BY WaitersTyped
<1>7. SlotsFit'
  BY <1>1 DEF SlotInv, SlotsFit
<1>8. \A e \in held' : Begun(e)'
  BY <1>1, <1>5 DEF SlotInv, SlotsFit
<1>9. \A v \in ToSet(waiting') : Begun(v.exec)'
  BY <1>2, <1>5, <1>6 DEF SlotInv
<1>10. ASSUME NEW v \in ToSet(waiting'), NEW d \in Children, v.exec = Exec(d)'
       PROVE  WaitUse(worker'[d], v)
  <2>1. v.exec = Exec(d) /\ ~Active(d) /\ v \in ToSet(waiting)
    BY <1>2, <1>3, <1>4, <1>10
  <2> QED BY <1>4, <2>1 DEF SlotInv
<1>11. \A d \in Children : SlotUse(worker'[d], Exec(d)', held')
  BY <1>1, <1>4
<1> QED BY <1>2, <1>7, <1>8, <1>9, <1>10, <1>11 DEF SlotInv

LEMMA SlotStep == IInv /\ SlotInv /\ [Next]_vars => SlotInv'
<1> SUFFICES ASSUME IInv, SlotInv, [Next]_vars PROVE SlotInv'
  OBVIOUS
<1>1. ASSUME NEW c \in Children, Start(c) \/ Drain(c) \/ Pause(c) \/ Resume(c) \/ Cancel(c)
      PROVE  SlotInv'
  BY <1>1, StartSlots, WorkerSlots, ResumeSlots, CancelSlots
<1>2. ASSUME NEW c \in Children, ChildStep(c) PROVE SlotInv'
  BY <1>2, WorkerSlots, EndSlots, PumpSlots, FollowupSlots, ResumeSlots
     DEF ChildStep, WorkerStep, RunStep, PumpStep
<1>3. ASSUME NEW c \in Children, NEW m \in Messages, Send(c, m)
      PROVE  SlotInv'
  <2>1. \E k \in Messages : Send(c, k)
    BY <1>3, Zenon
  <2> QED BY <2>1, WorkerSlots, Zenon
<1>4. CASE Dispose
  BY <1>4, SameSlots DEF Dispose
<1>5. CASE AbortAll
  BY <1>5, AbortAllSlots
<1>6. CASE UNCHANGED vars
  BY <1>6, SameSlots DEF vars
<1> QED BY <1>1, <1>2, <1>3, <1>4, <1>5, <1>6 DEF Next

LEMMA InitSlots == Init => SlotInv
<1> SUFFICES ASSUME Init PROVE SlotInv
  OBVIOUS
<1>1. held = {} /\ waiting = <<>> /\ \A c \in Children : worker[c] = NoWorker
  BY DEF Init
<1>2. SlotsFit
  BY <1>1, FS_EmptySet, LimitAssumption DEF SlotsFit
<1>3. waiting \in Seq(Waiters) /\ ToSet(waiting) = {}
  BY <1>1 DEF ToSet
<1>4. \A c \in Children : SlotUse(worker[c], Exec(c), held)
  BY <1>1 DEF SlotUse, NoWorker, AtWork
<1> QED BY <1>1, <1>2, <1>3, <1>4 DEF SlotInv

\* However Runs are parked, resumed, overtaken by messages, cancelled and aborted, no more of
\* them are at work than subagents.maxSubagents, and each of those owns its slot
\* (SubagentCapacity with #resumeCurrent and #cancelCurrent in execution-service.ts).
THEOREM SlotsAreOwned == Spec => []WorkersOwnSlots
<1>1. SlotInv => WorkersOwnSlots
  BY DEF SlotInv, SlotsFit, SlotUse, AtWork, WorkersOwnSlots
<1> QED BY <1>1, InitSlots, InvHolds, SlotStep, PTL DEF Spec

=============================================================================
