------------------------- MODULE DurableHistoryProofs -------------------------
(***************************************************************************)
(* Proofs about DurableHistory, for any requests, routes, Runs, messages,  *)
(* failing commits, edits and crashes: the database holds one whole epoch, *)
(* memory is what is durable whenever the Session rests or asks a          *)
(* Provider, and the answers to run:start are true.  A conversation that   *)
(* outgrows the route it was carried to is excluded: there the code gives  *)
(* memory a history from before the transition (see EpochSurvivesFailure). *)
(***************************************************************************)
EXTENDS DurableHistory, FiniteSetTheorems, SequenceTheorems, WellFoundedInduction, TLAPS

Kinds == Anchors \cup {"harness", "user", "control", "note", "answer", "batch"}
Record == [kind : Kinds, req : ClientRequests \cup {None}, route : Routes \cup {None},
           thru : Nat, seq : Nat \ {0}, active : BOOLEAN, gone : BOOLEAN]

\* No two records of a history share a position.
Apart(h) == \A r, s \in h : r.seq = s.seq => r = s
Seqs(h) == {r.seq : r \in h}

\* b is the boundary of h.
Visible(r) == r.kind \in Anchors /\ ~r.gone
Bounds(h, b) ==
  \/ b = 0 /\ \A r \in h : ~Visible(r)
  \/ \E a \in h : Visible(a) /\ a.thru = b /\ \A r \in h : Visible(r) => r.seq <= a.seq

\* The records of a database, past boundary b.
Epoch(h, b) ==
  /\ Apart(h)
  /\ \A r \in h : r.active <=> ~r.gone /\ r.kind # "control" /\ r.seq > b
  /\ \A r \in h : r.kind \in Anchors => r.thru < r.seq

Rows ==
  [exists : BOOLEAN, msgs : SUBSET Record, rev : Nat, last : Nat, meta : Routes \cup {None}]
Database ==
  /\ db \in Rows
  /\ Seqs(db.msgs) = 1..db.last
  /\ Epoch(db.msgs, Boundary(db.msgs))
  /\ db.exists => db.meta \in Routes
  /\ ~db.exists => db.last = 0

\* The history u is the durable one.
Level(u) ==
  /\ u.hist \subseteq Record /\ Apart(u.hist)
  /\ \A r \in u.hist : r.seq <= db.last /\ ~r.gone
  /\ u.next = db.last + 1
  /\ Active(u.hist) = Active(db.msgs)

\* What memory has past the last durable position has no gap.
New(h) == {r \in h : r.seq > db.last}
Old(h) == {r \in h : r.seq <= db.last}
Ahead(m) ==
  /\ m.hist \subseteq Record /\ Apart(m.hist) /\ \A r \in m.hist : ~r.gone
  /\ m.next \in Nat /\ m.next > db.last
  /\ Seqs(New(m.hist)) = (db.last + 1)..(m.next - 1)

\* It was appended to the durable epoch ...
Carries(h) ==
  /\ Active(Old(h)) = Active(db.msgs)
  /\ \A r \in New(h) : r.kind \notin Anchors /\ (r.active <=> r.kind # "control")

\* ... or is the epoch that is to follow it.
Follows(h, thru) ==
  /\ \A r \in Old(h) : ~r.active
  /\ \A r \in New(h) : r.active /\ r.kind # "control"
  /\ \E a \in New(h) : a.kind \in Anchors /\ a.thru = thru
                       /\ \A r \in New(h) : r.kind \in Anchors => r = a
  /\ thru \in 0..db.last
  /\ \A r \in db.msgs : r.seq > thru => r.gone \/ r.kind = "control"

Rewriting == {"transition", "rewritten"}
Before == {"routes", "prepare", "measure", "input"}
Quiet == Before \cup {"idle", "step", "model", "compacting", "ending", "measureImages"}
Uncommitted == Before \cup {"transition", "measureImages", "command", "commitInput"}
InLoop == {"step", "model", "drained", "answer", "batch"}

\* A context that is bound to the Session in the database.
Live ==
  bind.st = "ok" =>
    /\ db.exists /\ mem.open /\ bind = BindingOf(db) /\ mem.meta = db.meta
    /\ Ahead(mem)
    /\ IF task.pc \in Rewriting THEN Follows(mem.hist, task.thru) /\ Level(task.prev)
       ELSE Carries(mem.hist)
    /\ task.pc \in Quiet => mem.next = db.last + 1
    /\ task.pc = "drained" => mem.next = db.last + 1 + task.drained
    /\ ~task.committed /\ task.pc \notin {"idle", "ending", "measureImages"} => Level(task.saved)

\* A context whose Session is not in the database yet.
Unborn ==
  bind.st = "new" =>
    /\ ~db.exists /\ mem.open /\ bind.last = 0 /\ bind.rev = 0 /\ mem.meta \in Routes
    /\ task.pc \in Before \cup {"commitInput", "ending"}
    /\ task.pc # "ending" => Ahead(mem) /\ Carries(mem.hist) /\ task.what = "text"
    /\ task.pc \in Before => \A r \in mem.hist : r.kind = "harness" /\ r.route = None

Contexts == [open : BOOLEAN, hist : SUBSET Record, next : Nat, meta : Routes \cup {None}]
Kept == [hist : SUBSET Record, next : Nat]
Tasks ==
  [pc : Quiet \cup Uncommitted \cup InLoop \cup Rewriting, req : ClientRequests \cup {None},
   what : {"none", "text", "compact", "follow", "resume"}, committed : BOOLEAN,
   saved : Kept, prev : Kept, thru : Nat, step : Nat, full : BOOLEAN, broken : BOOLEAN,
   drained : Nat, why : {"none", "input", "command", "batch", "continuation"}]
BindingRecords ==
  [st : {"none", "ok", "new", "invalid"}, rev : Nat, last : Nat, meta : Routes \cup {None}]
AnswerTables == [ClientRequests -> {"none", "waiting", "started", "failed", "lost"}]
Types ==
  /\ mem \in Contexts
  /\ bind \in BindingRecords
  /\ task \in Tasks
  /\ answer \in AnswerTables

Bindings ==
  /\ mem.open <=> bind.st # "none"
  /\ bind.st = "none" => task.pc = "idle"
  /\ bind.st = "invalid" => task.pc = "ending"

TaskInv ==
  /\ task.drained > 0 <=> task.pc = "drained"
  /\ task.pc \notin Rewriting \cup {"command"} => task.prev = NoUndo
  /\ task.pc \in Uncommitted => ~task.committed
  /\ task.pc \in InLoop => task.committed
  /\ task.pc \in {"compacting", "rewritten"} => (task.why = "input" <=> ~task.committed)
  /\ task.pc \notin {"idle", "ending"} /\ ~task.committed =>
       \/ task.what = "resume" /\ task.req = None
       \/ task.what \in {"text", "compact", "follow"} /\ task.req \in ClientRequests
          /\ Waiting(task.req)

\* The answers to requests: only the one of the Run under way waits, and it is not committed.
Answers ==
  /\ AnswerIsTrue
  /\ \A q \in ClientRequests : Waiting(q) => ~Committed(q) /\ q = task.req /\ task.pc # "idle"

\* What memory has past the last durable position is of that request.
Pending ==
  bind.st \in {"ok", "new"} /\ task.pc # "ending" =>
    \A r \in New(mem.hist) :
       r.req # None => task.pc \notin Rewriting /\ r.req = task.req /\ Waiting(task.req)

IInv == Types /\ Database /\ Live /\ Unborn /\ Bindings /\ TaskInv /\ Answers /\ Pending

LEMMA InitInv == HistoryInit => IInv
<1> SUFFICES ASSUME HistoryInit PROVE IInv
  OBVIOUS
<1>1. Types
  BY DEF HistoryInit, Types, Contexts, NoContext, NoBinding, Idle, Tasks, Kept, NoUndo, Quiet,
         BindingRecords, AnswerTables
<1>2. Database
  BY DEF HistoryInit, Database, Seqs, Epoch, Apart, Rows
<1>3. Live /\ Unborn /\ Bindings /\ TaskInv /\ Answers /\ Pending
  BY DEF HistoryInit, Live, Unborn, Bindings, TaskInv, Answers, Pending, AnswerIsTrue, NoContext, NoBinding,
         Idle, Waiting, Committed, Uncommitted, InLoop, Before
<1> QED
  BY <1>1, <1>2, <1>3 DEF IInv

------------------------------------------------------------------------------
(* Numbers and positions. *)

\* Every set of numbers that is not empty and has a bound has a greatest one.
LEMMA Least ==
  ASSUME NEW T \in SUBSET Nat, T # {}
  PROVE  \E n \in T : \A m \in T : n <= m
<1> DEFINE R == {ss \in Nat \X Nat : ss[1] < ss[2]}
<1>1. IsWellFoundedOn(R, Nat)
  BY NatLessThanWellFounded DEF OpToRel
<1>2. PICK x \in T : \A y \in T : ~ (<<y, x>> \in R)
  <2> HIDE DEF R
  <2> QED BY <1>1, WFMin
<1>3. ASSUME NEW y \in T PROVE x <= y
  <2>1. x \in Nat /\ y \in Nat /\ <<y, x>> \notin R
    BY <1>2
  <2>2. ~(y < x)
    BY <2>1
  <2> QED BY <2>1, <2>2
<1> QED BY <1>3

LEMMA Greatest ==
  ASSUME NEW S \in SUBSET Nat, S # {}, NEW n \in Nat, \A x \in S : x <= n
  PROVE  Max(S) \in S /\ \A y \in S : y <= Max(S)
<1>1. PICK k \in {m \in Nat : \A x \in S : x <= m} : \A m \in {m \in Nat : \A x \in S : x <= m} : k <= m
  BY Least
<1>2. k \in S
  <2> SUFFICES ASSUME k \notin S PROVE FALSE
    OBVIOUS
  <2>1. \A x \in S : x < k
    BY <1>1
  <2>2. k > 0
    <3>1. PICK x : x \in S
      OBVIOUS
    <3> QED
      BY <2>1, <3>1
  <2>3. k - 1 \in {m \in Nat : \A x \in S : x <= m}
    BY <1>1, <2>1, <2>2
  <2> QED
    BY <1>1, <2>3
<1>3. \E x \in S : \A y \in S : x >= y
  BY <1>1, <1>2
<1> QED
  BY <1>3 DEF Max

\* The last position of a history.
LEMMA Last ==
  ASSUME NEW h \in SUBSET Record, NEW n \in Nat, \A r \in h : r.seq <= n
  PROVE  /\ LastOf(h) \in 0..n /\ \A r \in h : r.seq <= LastOf(h)
         /\ h # {} => \E r \in h : r.seq = LastOf(h)
<1>1. CASE h = {}
  BY <1>1 DEF LastOf
<1>2. CASE h # {}
  <2> DEFINE S == {r.seq : r \in h}
  <2>1. S \in SUBSET Nat /\ S # {} /\ (\A x \in S : x <= n) /\ \A x \in S : x \in 0..n
    BY <1>2 DEF Record
  <2>2. Max(S) \in S /\ \A y \in S : y <= Max(S)
    <3> HIDE DEF S
    <3> QED BY <2>1, Greatest
  <2>3. LastOf(h) = Max(S)
    BY <1>2 DEF LastOf
  <2>4. \A r \in h : r.seq \in S
    OBVIOUS
  <2>5. \E r \in h : r.seq = LastOf(h)
    BY <2>2, <2>3
  <2>6. LastOf(h) \in 0..n
    <3> HIDE DEF S
    <3> QED BY <2>1, <2>2, <2>3
  <2> QED
    BY <2>2, <2>3, <2>4, <2>5, <2>6
<1> QED
  BY <1>1, <1>2

\* The boundary of a history is that of its last visible anchor.
LEMMA BoundaryIs ==
  ASSUME NEW h \in SUBSET Record, Apart(h), NEW n \in Nat, \A r \in h : r.seq <= n
  PROVE  Bounds(h, Boundary(h))
<1> DEFINE A == {r \in h : r.kind \in Anchors /\ ~r.gone}
<1>1. A \in SUBSET Record /\ \A r \in A : r.seq <= n
  OBVIOUS
<1>2. CASE A = {}
  BY <1>2 DEF Bounds, Boundary, Visible
<1>3. CASE A # {}
  <2>1. (\A r \in A : r.seq <= LastOf(A)) /\ \E r \in A : r.seq = LastOf(A)
    <3> HIDE DEF A
    <3> QED BY <1>1, <1>3, Last
  <2>2. Newest(A) \in A /\ Newest(A).seq = LastOf(A)
    BY <2>1 DEF Newest
  <2>3. Boundary(h) = Newest(A).thru
    BY <1>3 DEF Boundary
  <2> QED
    BY <2>1, <2>2, <2>3 DEF Bounds, Visible
<1> QED
  BY <1>2, <1>3

LEMMA BoundaryBy ==
  ASSUME NEW h \in SUBSET Record, Apart(h), NEW n \in Nat, \A r \in h : r.seq <= n,
         NEW b, Bounds(h, b)
  PROVE  Boundary(h) = b
<1>1. Bounds(h, Boundary(h))
  BY BoundaryIs
<1> QED
  BY <1>1 DEF Bounds, Apart, Record, Visible

\* A history without gaps has as many records as positions.
LEMMA Count ==
  ASSUME NEW h \in SUBSET Record, Apart(h), NEW n \in Nat, Seqs(h) = 1..n
  PROVE  Cardinality(h) = n
<1> DEFINE f == [r \in h |-> r.seq]
<1>1. f \in Bijection(h, 1..n)
  <2>1. f \in [h -> 1..n]
    BY DEF Seqs
  <2>2. \A r, s \in h : f[r] = f[s] => r = s
    BY DEF Apart
  <2>3. \A i \in 1..n : \E r \in h : f[r] = i
    <3>1. \A i \in 1..n : i \in Seqs(h)
      OBVIOUS
    <3> QED
      BY <3>1 DEF Seqs
  <2> QED
    BY <2>1, <2>2, <2>3 DEF Bijection, Injection, Surjection, IsInjective
<1>2. IsFiniteSet(1..n) /\ Cardinality(1..n) = n
  BY FS_Interval
<1>3. f \in Injection(h, 1..n) /\ f \in Surjection(h, 1..n)
  BY <1>1 DEF Bijection
<1> QED
  BY <1>2, <1>3, FS_Injection

------------------------------------------------------------------------------
(* What is appended to a history. *)

Items == [kind : Kinds, req : ClientRequests \cup {None}, route : Routes \cup {None}, thru : Nat]

LEMMA ItemType == \A kind \in Kinds : Item(kind) \in Items
BY DEF Item, Items

\* N are the records of items, from position next on.
Records(N, items, next) ==
  /\ N \subseteq Record /\ Apart(N) /\ Seqs(N) = next..(next + Len(items) - 1)
  /\ \A r \in N : /\ ~r.gone /\ (r.active <=> r.kind # "control")
                  /\ \E i \in 1..Len(items) :
                       /\ r.seq = next + i - 1 /\ r.kind = items[i].kind /\ r.req = items[i].req
                       /\ r.route = items[i].route /\ r.thru = items[i].thru

LEMMA Intervals ==
  ASSUME NEW a \in Nat, NEW b \in Nat, NEW l \in Nat, b > a
  PROVE  ((a + 1)..(b - 1)) \cup (b..(b + l - 1)) = (a + 1)..(b + l - 1)
OBVIOUS

LEMMA LastNext == ASSUME NEW a \in Nat, NEW l \in Nat, NEW b, b = a + l PROVE b - 1 = a + l - 1
OBVIOUS

LEMMA Joined == ASSUME NEW S, NEW x \in S, NEW y \in S, NEW z \in S PROVE <<x, y>> \o <<z>> = <<x, y, z>>
<1>1. <<x, y>> \in Seq(S) /\ <<z>> \in Seq(S) /\ <<x, y, z>> \in Seq(S)
  OBVIOUS
<1>2. /\ <<x, y>> \o <<z>> \in Seq(S) /\ Len(<<x, y>> \o <<z>>) = 3
      /\ \A i \in 1..3 : (<<x, y>> \o <<z>>)[i] = <<x, y, z>>[i]
  BY <1>1
<1> QED
  <2>1. Len(<<x, y, z>>) = 3
    OBVIOUS
  <2> QED
    BY <1>1, <1>2, <2>1, SeqEqual

\* n is m with the records of items.
Longer(n, m, items) ==
  /\ n \in Contexts /\ n.next = m.next + Len(items) /\ n.open = m.open /\ n.meta = m.meta
  /\ \E N \in SUBSET Record : n.hist = m.hist \cup N /\ Records(N, items, m.next)

LEMMA AppendedIs ==
  ASSUME NEW m \in Contexts, m.next > 0, NEW items \in Seq(Items)
  PROVE  Longer(Appended(m, items), m, items)
<1> DEFINE n == Appended(m, items)
<1> DEFINE Rec(i) == [kind |-> items[i].kind, req |-> items[i].req, route |-> items[i].route,
                      thru |-> items[i].thru, seq |-> m.next + i - 1,
                      active |-> items[i].kind # "control", gone |-> FALSE]
           N == {Rec(i) : i \in 1..Len(items)}
<1>1. n = [m EXCEPT !.hist = @ \cup N, !.next = @ + Len(items)]
  BY DEF Appended
<1>2. Len(items) \in Nat /\ \A i \in 1..Len(items) : items[i] \in Items
  OBVIOUS
<1>3. \A i \in 1..Len(items) : /\ Rec(i) \in Record /\ Rec(i).seq = m.next + i - 1 /\ ~Rec(i).gone
                               /\ Rec(i).kind = items[i].kind /\ Rec(i).req = items[i].req
                               /\ Rec(i).route = items[i].route /\ Rec(i).thru = items[i].thru
                               /\ Rec(i).active <=> Rec(i).kind # "control"
  <2> SUFFICES ASSUME NEW i \in 1..Len(items)
               PROVE  /\ Rec(i) \in Record /\ Rec(i).seq = m.next + i - 1 /\ ~Rec(i).gone
                      /\ Rec(i).kind = items[i].kind /\ Rec(i).req = items[i].req
                      /\ Rec(i).route = items[i].route /\ Rec(i).thru = items[i].thru
                      /\ Rec(i).active <=> Rec(i).kind # "control"
    OBVIOUS
  <2>1. /\ items[i].kind \in Kinds /\ items[i].req \in ClientRequests \cup {None}
        /\ items[i].route \in Routes \cup {None} /\ items[i].thru \in Nat
    BY <1>2 DEF Items
  <2>2. m.next + i - 1 \in Nat \ {0}
    BY <1>2 DEF Contexts
  <2>3. Rec(i) \in Record
    BY <2>1, <2>2 DEF Record
  <2> QED
    BY <2>3
<1> HIDE DEF Rec
<1>4. N \subseteq Record
  BY <1>3
<1>5. Apart(N)
  BY <1>2, <1>3 DEF Apart, Contexts
<1>6. Seqs(N) = m.next..(m.next + Len(items) - 1)
  <2>1. ASSUME NEW k \in Seqs(N) PROVE k \in m.next..(m.next + Len(items) - 1)
    <3>1. PICK i \in 1..Len(items) : k = Rec(i).seq
      BY <2>1 DEF Seqs
    <3> QED
      BY <1>2, <1>3, <3>1 DEF Contexts
  <2>2. ASSUME NEW k \in m.next..(m.next + Len(items) - 1) PROVE k \in Seqs(N)
    <3>1. k - m.next + 1 \in 1..Len(items) /\ m.next + (k - m.next + 1) - 1 = k
      BY <1>2 DEF Contexts
    <3>2. Rec(k - m.next + 1).seq = k /\ Rec(k - m.next + 1) \in N
      BY <1>3, <3>1
    <3> QED
      BY <3>2 DEF Seqs
  <2> QED
    BY <2>1, <2>2
<1>7. Records(N, items, m.next)
  BY <1>3, <1>4, <1>5, <1>6 DEF Records
<1> HIDE DEF N, n
<1>8. n \in Contexts /\ n.next = m.next + Len(items) /\ n.open = m.open /\ n.meta = m.meta
      /\ n.hist = m.hist \cup N
  <2>1. m.hist \cup N \in SUBSET Record /\ m.next + Len(items) \in Nat
    BY <1>2, <1>4 DEF Contexts
  <2> QED
    BY <1>1, <2>1 DEF Contexts
<1>9. Longer(n, m, items)
  BY <1>4, <1>7, <1>8 DEF Longer
<1> QED
  BY <1>9 DEF n

\* n carries the epoch of m on.
Grown(n, m, items) ==
  /\ n \in Contexts /\ n.next = m.next + Len(items) /\ n.open = m.open /\ n.meta = m.meta
  /\ Ahead(n) /\ Carries(n.hist)
  /\ \A r \in n.hist : \/ r \in m.hist
                       \/ r.seq >= m.next /\ \E i \in 1..Len(items) :
                             /\ r.kind = items[i].kind /\ r.req = items[i].req
                             /\ r.route = items[i].route

LEMMA Extended ==
  ASSUME NEW m \in Contexts, Ahead(m), Carries(m.hist), db.last \in Nat, NEW items \in Seq(Items),
         \A i \in 1..Len(items) : items[i].kind \notin Anchors
  PROVE  Grown(Appended(m, items), m, items)
<1> DEFINE n == Appended(m, items)
<1>0. Longer(n, m, items)
  BY AppendedIs DEF Ahead
<1> HIDE DEF n
<1>1. m.next > 0 /\ m.next \in Nat /\ m.next > db.last
  BY DEF Ahead
<1>2. /\ n \in Contexts /\ n.next = m.next + Len(items) /\ n.open = m.open /\ n.meta = m.meta
      /\ \E N \in SUBSET Record : n.hist = m.hist \cup N /\ Records(N, items, m.next)
  BY <1>0 DEF Longer
<1>3. PICK N \in SUBSET Record : n.hist = m.hist \cup N /\ Records(N, items, m.next)
  BY <1>2
<1>4. \A r \in N : r.seq >= m.next /\ r.seq \in Nat
  <2>1. \A r \in N : r.seq \in Seqs(N)
    BY DEF Seqs
  <2> QED
    BY <1>1, <1>3, <2>1 DEF Records
<1>5. \A r \in m.hist : r.seq < m.next /\ r.seq \in Nat
  <2>1. \A r \in New(m.hist) : r.seq \in Seqs(New(m.hist))
    BY DEF Seqs
  <2> QED
    BY <1>1, <2>1 DEF Ahead, New, Record
<1>6. New(n.hist) = New(m.hist) \cup N /\ Old(n.hist) = Old(m.hist)
  BY <1>1, <1>3, <1>4, <1>5 DEF New, Old
<1>7. Ahead(n)
  <2>1. n.hist \subseteq Record /\ Apart(n.hist) /\ \A r \in n.hist : ~r.gone
    BY <1>1, <1>3, <1>4, <1>5 DEF Ahead, Records, Apart
  <2>2. n.next \in Nat /\ n.next > db.last
    BY <1>1, <1>2
  <2>3. Seqs(New(n.hist)) = Seqs(New(m.hist)) \cup Seqs(N)
    BY <1>6 DEF Seqs
  <2>4. Seqs(New(n.hist)) = (db.last + 1)..(n.next - 1)
    <3>1. Seqs(New(m.hist)) = (db.last + 1)..(m.next - 1) /\ Seqs(N) = m.next..(m.next + Len(items) - 1)
      BY <1>3 DEF Ahead, Records
    <3>2. Len(items) \in Nat
      OBVIOUS
    <3>3. ((db.last + 1)..(m.next - 1)) \cup (m.next..(m.next + Len(items) - 1))
          = (db.last + 1)..(m.next + Len(items) - 1)
      BY <1>1, <3>2, Intervals
    <3>4. n.next - 1 = m.next + Len(items) - 1
      <4>1. n.next = m.next + Len(items)
        BY <1>2
      <4> QED
        BY <1>1, <3>2, <4>1, LastNext
    <3> QED
      BY <2>3, <3>1, <3>3, <3>4, Zenon
  <2> QED
    BY <2>1, <2>2, <2>4 DEF Ahead
<1>8. Carries(n.hist)
  BY <1>3, <1>6 DEF Carries, Records
<1> QED
  BY <1>2, <1>3, <1>4, <1>7, <1>8 DEF Records, Grown, n

\* n is m with another epoch begun.
Replaced(n, m, thru) ==
  /\ n \in Contexts /\ n.open = m.open /\ n.meta = m.meta /\ Ahead(n) /\ Follows(n.hist, thru)
  /\ \A r \in New(n.hist) : r.req = None

\* A summary of all that is visible past thru does that.
LEMMA RewrittenIs ==
  ASSUME NEW m \in Contexts, Level(Undo(m)), db.last \in Nat, NEW anchor \in Anchors,
         NEW thru \in Nat, thru <= db.last, NEW route \in Routes \cup {None}, NEW derived,
         \A r \in db.msgs : r.seq > thru => r.gone \/ r.kind = "control"
  PROVE  Replaced(Rewritten(m, anchor, thru, route, derived), m, thru)
<1> DEFINE items == <<Item("harness"), [Item(anchor) EXCEPT !.thru = thru, !.route = route]>>
                    \o (IF derived THEN <<Item("user")>> ELSE <<>>)
           D == {[r EXCEPT !.active = FALSE] : r \in m.hist}
           o == [m EXCEPT !.hist = D]
           n == Rewritten(m, anchor, thru, route, derived)
<1>1. /\ items \in Seq(Items) /\ Len(items) \in {2, 3}
      /\ items[1].kind = "harness" /\ items[2].kind = anchor /\ items[2].thru = thru
      /\ Len(items) = 3 => items[3].kind = "user"
      /\ \A i \in 1..Len(items) : items[i].req = None
  <2> DEFINE a == [Item(anchor) EXCEPT !.thru = thru, !.route = route]
  <2>1. a \in Items /\ a.kind = anchor /\ a.thru = thru /\ a.req = None
    <3>1. Item(anchor) \in Items /\ Item(anchor).kind = anchor /\ Item(anchor).req = None
      BY ItemType DEF Kinds, Item
    <3> QED
      BY <3>1 DEF Items
  <2>2. Item("harness") \in Items /\ Item("user") \in Items /\ Item("harness").kind = "harness"
        /\ Item("user").kind = "user" /\ Item("harness").req = None /\ Item("user").req = None
    BY DEF Item, Items, Kinds
  <2>3. CASE derived
    <3>1. items = <<Item("harness"), a, Item("user")>>
      BY <2>1, <2>2, <2>3, Joined
    <3> HIDE DEF items, a
    <3> QED
      BY <2>1, <2>2, <3>1
  <2>4. CASE ~derived
    <3>1. items = <<Item("harness"), a>>
      BY <2>4
    <3> HIDE DEF items, a
    <3> QED
      BY <2>1, <2>2, <3>1
  <2> QED
    BY <2>3, <2>4
<1>2. /\ m.hist \subseteq Record /\ Apart(m.hist) /\ (\A r \in m.hist : r.seq <= db.last /\ ~r.gone)
      /\ m.next = db.last + 1
  BY DEF Level, Undo
<1>3. D \subseteq Record /\ Apart(D) /\ \A r \in D : r.seq <= db.last /\ ~r.gone /\ ~r.active
  <2>1. ASSUME NEW r \in m.hist
        PROVE  /\ [r EXCEPT !.active = FALSE] \in Record /\ [r EXCEPT !.active = FALSE].seq = r.seq
               /\ ~[r EXCEPT !.active = FALSE].gone /\ ~[r EXCEPT !.active = FALSE].active
    <3>1. r \in Record /\ ~r.gone
      BY <1>2
    <3> QED
      BY <3>1 DEF Record
  <2>2. D \subseteq Record /\ \A r \in D : r.seq <= db.last /\ ~r.gone /\ ~r.active
    BY <1>2, <2>1
  <2>3. Apart(D)
    <3> SUFFICES ASSUME NEW x \in D, NEW y \in D, x.seq = y.seq PROVE x = y
      BY DEF Apart
    <3>1. PICK r \in m.hist : x = [r EXCEPT !.active = FALSE]
      OBVIOUS
    <3>2. PICK s \in m.hist : y = [s EXCEPT !.active = FALSE]
      OBVIOUS
    <3>3. r = s
      BY <1>2, <2>1, <3>1, <3>2 DEF Apart
    <3> QED
      BY <3>1, <3>2, <3>3
  <2> QED
    BY <2>2, <2>3
<1>4. n = Appended(o, items)
  BY DEF Rewritten
<1>5. o \in Contexts /\ o.hist = D /\ o.next = db.last + 1 /\ o.open = m.open /\ o.meta = m.meta
  BY <1>2, <1>3 DEF Contexts
<1> HIDE DEF items, D, o, n
<1>6. /\ n \in Contexts /\ n.next = o.next + Len(items) /\ n.open = o.open /\ n.meta = o.meta
      /\ \E N \in SUBSET Record : n.hist = o.hist \cup N /\ Records(N, items, o.next)
  <2>1. o.next > 0
    BY <1>5
  <2>2. Longer(Appended(o, items), o, items)
    BY <1>1, <1>5, <2>1, AppendedIs
  <2> QED
    BY <1>4, <2>2 DEF Longer
<1>7. PICK N \in SUBSET Record : n.hist = D \cup N /\ Records(N, items, db.last + 1)
  BY <1>5, <1>6
<1>8. \A r \in N : r.seq > db.last /\ r.seq \in Nat
  <2>1. \A r \in N : r.seq \in Seqs(N)
    BY DEF Seqs
  <2> QED
    BY <1>1, <1>7, <2>1 DEF Records
<1>9. New(n.hist) = N /\ Old(n.hist) = D
  BY <1>3, <1>7, <1>8 DEF New, Old, Record
<1>10. Ahead(n)
  <2>1. Apart(n.hist)
    BY <1>3, <1>7, <1>8 DEF Apart, Records, Record
  <2>2. Seqs(N) = (db.last + 1)..(n.next - 1)
    <3>1. Seqs(N) = (db.last + 1)..(db.last + 1 + Len(items) - 1)
      BY <1>7 DEF Records
    <3> QED
      BY <1>5, <1>6, <3>1
  <2> QED
    BY <1>1, <1>3, <1>5, <1>6, <1>7, <1>9, <2>1, <2>2 DEF Ahead, Records
<1>11. \A r \in N : \E i \in 1..Len(items) :
         r.seq = db.last + i /\ r.kind = items[i].kind /\ r.thru = items[i].thru /\ r.req = items[i].req
  <2>1. \A i \in 1..Len(items) : db.last + 1 + i - 1 = db.last + i
    BY <1>1
  <2> QED
    BY <1>7, <2>1 DEF Records
<1>12. \A r \in N : /\ r.active /\ r.kind # "control" /\ r.req = None
                    /\ r.kind \in Anchors <=> r.seq = db.last + 2
                    /\ r.seq = db.last + 2 => r.kind = anchor /\ r.thru = thru
  <2> SUFFICES ASSUME NEW r \in N
               PROVE  /\ r.active /\ r.kind # "control" /\ r.req = None
                      /\ r.kind \in Anchors <=> r.seq = db.last + 2
                      /\ r.seq = db.last + 2 => r.kind = anchor /\ r.thru = thru
    OBVIOUS
  <2>1. PICK i \in 1..Len(items) :
          r.seq = db.last + i /\ r.kind = items[i].kind /\ r.thru = items[i].thru /\ r.req = items[i].req
    BY <1>11
  <2>2. i \in {1, 2, 3} /\ (i = 3 => Len(items) = 3)
    BY <1>1
  <2>3. r.kind # "control" /\ r.req = None /\ (r.kind \in Anchors <=> i = 2)
    BY <1>1, <2>1, <2>2 DEF Anchors
  <2>4. r.active
    BY <1>7, <2>3 DEF Records
  <2> QED
    BY <1>1, <2>1, <2>2, <2>3, <2>4
<1>13. \E a \in N : a.kind \in Anchors /\ a.thru = thru /\ \A r \in N : r.kind \in Anchors => r = a
  <2>1. db.last + 2 \in Seqs(N)
    <3>1. Seqs(N) = (db.last + 1)..(db.last + 1 + Len(items) - 1)
      BY <1>7 DEF Records
    <3> QED
      BY <1>1, <3>1
  <2>2. PICK a \in N : a.seq = db.last + 2
    BY <2>1 DEF Seqs
  <2>3. Apart(N)
    BY <1>7 DEF Records
  <2> QED
    BY <1>12, <2>2, <2>3 DEF Apart
<1>14. Follows(n.hist, thru)
  BY <1>3, <1>9, <1>12, <1>13 DEF Follows
<1> QED
  <2>1. Replaced(n, m, thru)
    BY <1>5, <1>6, <1>9, <1>10, <1>12, <1>14 DEF Replaced
  <2> QED
    BY <2>1 DEF n

------------------------------------------------------------------------------
(* Memory at rest. *)

LEMMA QuietLevel ==
  ASSUME IInv, bind.st = "ok", task.pc \in Quiet
  PROVE  /\ Level(Undo(mem)) /\ New(mem.hist) = {} /\ db.exists /\ mem.open /\ mem.meta = db.meta
         /\ bind = BindingOf(db) /\ mem.next = db.last + 1
<1>1. /\ Ahead(mem) /\ Carries(mem.hist) /\ mem.next = db.last + 1
      /\ db.exists /\ mem.open /\ mem.meta = db.meta /\ bind = BindingOf(db)
  BY DEF IInv, Live, Quiet, Rewriting, Before
<1>2. db.last \in Nat
  BY DEF IInv, Database, Rows
<1>3. New(mem.hist) = {}
  <2>1. Seqs(New(mem.hist)) = {}
    BY <1>1, <1>2 DEF Ahead
  <2> QED
    BY <2>1 DEF Seqs
<1>4. \A r \in mem.hist : r \in Record /\ r.seq <= db.last
  BY <1>1, <1>2, <1>3 DEF New, Ahead, Record
<1>5. Old(mem.hist) = mem.hist
  BY <1>4 DEF Old
<1> QED
  BY <1>1, <1>3, <1>4, <1>5 DEF Level, Undo, Ahead, Carries

\* After a step that leaves memory as the durable history, with a Run at a quiet place.
LEMMA LiveAgain ==
  ASSUME Types', Database', Level(Undo(mem))', bind'.st = "ok", bind' = BindingOf(db'), db'.exists,
         mem'.open, mem'.meta = db'.meta, TaskInv', task'.pc \in Quiet, Answers',
         ~task'.committed /\ task'.pc \notin {"idle", "ending", "measureImages"} => Level(task.saved)'
  PROVE  IInv'
<1>1. /\ mem'.hist \subseteq Record /\ Apart(mem'.hist) /\ \A r \in mem'.hist : r.seq <= db'.last /\ ~r.gone
      /\ mem'.next = db'.last + 1 /\ Active(mem'.hist) = Active(db'.msgs) /\ db'.last \in Nat
  BY DEF Level, Undo, Database, Rows
<1>2. New(mem.hist)' = {} /\ Old(mem.hist)' = mem'.hist
  BY <1>1 DEF New, Old, Record
<1>3. Ahead(mem)'
  BY <1>1, <1>2 DEF Ahead, Seqs
<1>4. Carries(mem.hist)'
  BY <1>1, <1>2 DEF Carries
<1>5. Live'
  BY <1>1, <1>3, <1>4 DEF Live, Quiet, Rewriting, Before
<1>6. Unborn' /\ Bindings' /\ Pending'
  BY <1>2 DEF Unborn, Bindings, Pending
<1> QED
  BY <1>5, <1>6 DEF IInv

\* A step of the Run that changes nothing but its place.
LEMMA QuietStep ==
  ASSUME IInv, UNCHANGED <<db, mem, bind, answer>>, bind.st = "ok", task.pc \in Quiet,
         task' \in Tasks, TaskInv', task'.pc \in Quiet \ {"idle"}, task'.req = task.req,
         ~task'.committed /\ task'.pc \notin {"idle", "ending", "measureImages"} => Level(task'.saved)
  PROVE  IInv'
<1>1. Types' /\ Database' /\ Answers'
  BY DEF IInv, Types, Database, Answers, AnswerIsTrue, Waiting, Committed
<1>2. Level(Undo(mem))' /\ (~task'.committed /\ task'.pc \notin {"idle", "ending", "measureImages"} => Level(task.saved)')
  BY QuietLevel DEF Level, Undo
<1> QED
  BY <1>1, <1>2, QuietLevel, LiveAgain

LEMMA NewStep ==
  ASSUME IInv, UNCHANGED <<db, mem, bind, answer>>, bind.st = "new", task.pc \in Before,
         task' \in Tasks, TaskInv', task'.pc \in Before, task'.req = task.req, task'.what = task.what
  PROVE  IInv'
<1>1. Types' /\ Database' /\ Answers'
  BY DEF IInv, Types, Database, Answers, AnswerIsTrue, Waiting, Committed, Before
<1>2. Live' /\ Bindings'
  BY DEF IInv, Live, Bindings, Before
<1>3. Unborn'
  BY DEF IInv, Unborn, Before, Ahead, Carries, New, Old
<1>4. Pending'
  BY DEF IInv, Pending, Before, Rewriting, New, Waiting
<1> QED
  BY <1>1, <1>2, <1>3, <1>4 DEF IInv

\* Where a Run can be with a binding.
LEMMA Bound ==
  ASSUME IInv, task.pc \notin {"idle", "ending"}
  PROVE  /\ bind.st \in {"ok", "new"} /\ mem.open
         /\ bind.st = "new" => task.pc \in Before \cup {"commitInput"}
BY DEF IInv, Bindings, Types, Unborn, BindingRecords

\* The Run fails, and what it has not committed is given back.
LEMMA AbandonKept ==
  ASSUME IInv, Abandon, task.pc \in Quiet \ {"idle", "ending", "measureImages"}
  PROVE  IInv'
<1>1. UNCHANGED <<db, bind, answer>> /\ mem' = GivenBack(mem) /\ task' = Ending
  BY DEF Abandon
<1>2. /\ mem' \in Contexts /\ mem'.open = mem.open /\ mem'.meta = mem.meta
      /\ task.committed => mem' = mem
      /\ ~task.committed => mem'.hist = task.saved.hist /\ mem'.next = task.saved.next
  BY <1>1 DEF GivenBack, IInv, Types, Contexts, Tasks, Kept
<1>3. /\ task' \in Tasks /\ task'.pc = "ending" /\ task'.req = task.req /\ task'.drained = 0
      /\ task'.prev = NoUndo
  BY <1>1 DEF Ending, Idle, IInv, Types, Tasks, Kept, NoUndo, Quiet
<1>4. TaskInv' /\ Types'
  BY <1>1, <1>2, <1>3 DEF TaskInv, Types, IInv, Rewriting, Uncommitted, InLoop, Before
<1>5. Database' /\ Answers'
  BY <1>1, <1>3 DEF IInv, Database, Answers, AnswerIsTrue, Waiting, Committed
<1>6. CASE bind.st = "ok"
  <2>1. Level(Undo(mem))'
    <3>1. CASE task.committed
      BY <1>1, <1>2, <1>6, <3>1, QuietLevel DEF Level, Undo
    <3>2. CASE ~task.committed
      <4>1. Level(task.saved)
        BY <1>6, <3>2 DEF IInv, Live
      <4> QED
        BY <1>1, <1>2, <3>2, <4>1 DEF Level, Undo
    <3> QED
      BY <3>1, <3>2
  <2> QED
    BY <1>1, <1>2, <1>3, <1>4, <1>5, <1>6, <2>1, QuietLevel, LiveAgain DEF Quiet
<1>7. CASE bind.st = "new"
  <2>1. Live' /\ Bindings' /\ Pending'
    BY <1>1, <1>2, <1>3, <1>7 DEF Live, Bindings, Pending, IInv
  <2>2. Unborn'
    BY <1>1, <1>2, <1>3, <1>7 DEF Unborn, IInv, Before
  <2> QED
    BY <1>4, <1>5, <2>1, <2>2 DEF IInv
<1> QED
  BY <1>6, <1>7, Bound

------------------------------------------------------------------------------
(* Before the input. *)

\* The place of the Run moves.
LEMMA Moved ==
  ASSUME IInv, NEW pc \in Quiet \cup Uncommitted \cup InLoop \cup Rewriting
  PROVE  LET t == [task EXCEPT !.pc = pc]
         IN  /\ t \in Tasks /\ t.pc = pc /\ t.req = task.req /\ t.what = task.what
             /\ t.committed = task.committed /\ t.saved = task.saved /\ t.prev = task.prev
             /\ t.drained = task.drained /\ t.why = task.why
BY DEF IInv, Types, Tasks

LEMMA ResolveKept == ASSUME IInv, ResolveRoutes PROVE IInv'
<1>1. CASE task' = [task EXCEPT !.pc = "prepare"] /\ UNCHANGED <<db, mem, bind, answer>>
  <2>1. task.pc = "routes"
    BY DEF ResolveRoutes, At
  <2>2. /\ task' \in Tasks /\ task'.pc = "prepare" /\ task'.req = task.req /\ task'.what = task.what
        /\ task'.committed = task.committed /\ task'.saved = task.saved /\ task'.prev = task.prev
        /\ task'.drained = task.drained
    BY <1>1, Moved DEF Uncommitted, Before
  <2>3. TaskInv'
    BY <1>1, <2>1, <2>2 DEF IInv, TaskInv, Uncommitted, Before, InLoop, Rewriting, Waiting
  <2>4. bind.st = "ok" /\ ~task.committed => Level(task.saved)
    BY <2>1 DEF IInv, Live
  <2> QED
    BY <1>1, <2>1, <2>2, <2>3, <2>4, Bound, QuietStep, NewStep DEF Quiet, Before
<1>2. CASE Abandon
  BY <1>2, AbandonKept DEF ResolveRoutes, At, Quiet, Before
<1> QED
  BY <1>1, <1>2 DEF ResolveRoutes

\* The history is rewritten in memory.
LEMMA RewriteBegun ==
  ASSUME IInv, bind.st = "ok", task.pc \in Quiet \ {"idle", "ending", "measureImages"},
         UNCHANGED <<db, bind, answer>>, Replaced(mem', mem, task'.thru),
         task' \in Tasks, task'.pc \in Rewriting, task'.prev = Undo(mem), task'.req = task.req,
         task'.what = task.what, task'.committed = task.committed, task'.saved = task.saved,
         task'.drained = task.drained, task'.why = task.why,
         task'.pc = "transition" => ~task.committed, task'.pc = "rewritten" => task.pc = "compacting"
  PROVE  IInv'
<1>1. /\ Level(Undo(mem)) /\ db.exists /\ mem.open /\ mem.meta = db.meta /\ mem.meta \in Routes \cup {None}
      /\ db.last \in Nat /\ mem \in Contexts /\ bind = BindingOf(db) /\ mem.next = db.last + 1
  BY QuietLevel DEF IInv, Types, Database, Contexts, Rows
<1>2. /\ mem' \in Contexts /\ mem'.open = mem.open /\ mem'.meta = mem.meta /\ Ahead(mem')
      /\ Follows(mem'.hist, task'.thru) /\ \A r \in New(mem'.hist) : r.req = None
  BY DEF Replaced
<1>3. Types' /\ Database' /\ Answers'
  BY <1>2 DEF IInv, Types, Database, Answers, AnswerIsTrue, Waiting, Committed, Rewriting
<1>4. TaskInv'
  BY DEF IInv, TaskInv, Quiet, Uncommitted, Before, InLoop, Rewriting, Waiting
<1>5. Live'
  <2>1. New(mem.hist)' = New(mem'.hist) /\ Old(mem.hist)' = Old(mem'.hist)
    BY DEF New, Old
  <2>2. Ahead(mem)'
    BY <1>2, <2>1 DEF Ahead
  <2>3. Follows(mem.hist, task.thru)'
    BY <1>2, <2>1 DEF Follows
  <2>4. Level(task.prev)'
    BY <1>1 DEF Level
  <2>5. ~task.committed => Level(task.saved)
    BY DEF IInv, Live
  <2>6. ~task'.committed => Level(task.saved)'
    BY <2>5 DEF Level
  <2> QED
    BY <1>1, <1>2, <2>2, <2>3, <2>4, <2>6 DEF Live, Quiet, Before, Rewriting, BindingOf
<1>6. Unborn' /\ Bindings'
  BY <1>1, <1>2 DEF Unborn, Bindings
<1>7. Pending'
  BY <1>2 DEF Pending, New
<1> QED
  BY <1>3, <1>4, <1>5, <1>6, <1>7 DEF IInv

\* Routes that fit, or a transcript of all that is visible.
LEMMA PrepareKept == ASSUME IInv, PrepareHistory PROVE IInv'
<1>1. task.pc = "prepare"
  BY DEF PrepareHistory, At
<1>2. CASE task' = [task EXCEPT !.pc = "measure"] /\ UNCHANGED <<db, mem, bind, answer>>
  <2>1. /\ task' \in Tasks /\ task'.pc = "measure" /\ task'.req = task.req /\ task'.what = task.what
        /\ task'.committed = task.committed /\ task'.saved = task.saved /\ task'.prev = task.prev
        /\ task'.drained = task.drained
    BY <1>2, Moved DEF Uncommitted, Before
  <2>2. TaskInv'
    BY <1>1, <1>2, <2>1 DEF IInv, TaskInv, Uncommitted, Before, InLoop, Rewriting, Waiting
  <2>3. bind.st = "ok" /\ ~task.committed => Level(task.saved)
    BY <1>1 DEF IInv, Live
  <2> QED
    BY <1>1, <1>2, <2>1, <2>2, <2>3, Bound, QuietStep, NewStep DEF Quiet, Before
<1>3. CASE Abandon
  BY <1>1, <1>3, AbandonKept DEF Quiet, Before
<1>4. ASSUME Mismatch(mem.hist, mem.meta), NEW thru, NEW m,
             thru = LastOf({r \in db.msgs \cup mem.hist : ~r.gone}),
             m = Rewritten(mem, "transcript", thru, mem.meta, FALSE), mem' = m,
             task' = [task EXCEPT !.pc = "transition", !.prev = Undo(mem), !.thru = thru],
             UNCHANGED <<db, bind, answer>>
      PROVE  IInv'
  <2>1. bind.st = "ok"
    <3>1. bind.st # "new"
      BY <1>1, <1>4 DEF IInv, Unborn, Before, Mismatch, Active
    <3> QED
      BY <1>1, <3>1, Bound
  <2>2. /\ Level(Undo(mem)) /\ db.exists /\ mem.open /\ mem.meta = db.meta /\ mem.meta \in Routes
        /\ db.last \in Nat /\ mem \in Contexts /\ mem.hist \subseteq Record /\ db.msgs \subseteq Record
        /\ bind = BindingOf(db) /\ mem.next = db.last + 1
    BY <1>1, <2>1, QuietLevel DEF Quiet, Before, IInv, Types, Database, Contexts, Rows
  <2>3. thru \in 0..db.last /\ \A r \in db.msgs : r.seq > thru => r.gone \/ r.kind = "control"
    <3> DEFINE V == {r \in db.msgs \cup mem.hist : ~r.gone}
    <3>1. \A r \in db.msgs : r.seq <= db.last /\ r.seq \in Nat
      <4>1. \A r \in db.msgs : r.seq \in Seqs(db.msgs)
        BY DEF Seqs
      <4> QED
        BY <4>1, <2>2 DEF IInv, Database
    <3>2. \A r \in mem.hist : r.seq <= db.last
      BY <2>2 DEF Level, Undo
    <3>3. V \in SUBSET Record /\ \A r \in V : r.seq <= db.last
      BY <2>2, <3>1, <3>2
    <3>4. \A r \in db.msgs : ~r.gone => r \in V
      OBVIOUS
    <3>5. thru = LastOf(V)
      BY <1>4
    <3> HIDE DEF V
    <3>6. thru \in 0..db.last /\ \A r \in V : r.seq <= thru
      BY <2>2, <3>3, <3>5, Last
    <3> QED
      BY <2>2, <3>1, <3>4, <3>6
  <2>4. thru \in Nat /\ thru <= db.last
    BY <2>2, <2>3
  <2>5. /\ task' \in Tasks /\ task'.pc = "transition" /\ task'.prev = Undo(mem) /\ task'.thru = thru
        /\ task'.req = task.req /\ task'.what = task.what /\ task'.committed = task.committed
        /\ task'.saved = task.saved /\ task'.drained = task.drained /\ task'.why = task.why
    <3>1. Undo(mem) \in Kept
      BY <2>2 DEF Undo, Kept, Contexts
    <3> QED
      BY <1>4, <2>4, <3>1 DEF IInv, Types, Tasks, Rewriting
  <2>6. Replaced(mem', mem, thru)
    <3>1. "transcript" \in Anchors /\ mem.meta \in Routes \cup {None} /\ mem \in Contexts /\ Level(Undo(mem))
          /\ db.last \in Nat
      BY <2>2 DEF Anchors
    <3>2. Replaced(Rewritten(mem, "transcript", thru, mem.meta, FALSE), mem, thru)
      BY <2>3, <2>4, <3>1, RewrittenIs
    <3> QED
      BY <1>4, <3>2
  <2>7. ~task.committed
    BY <1>1 DEF IInv, TaskInv, Uncommitted, Before
  <2> QED
    BY <1>1, <1>4, <2>1, <2>5, <2>6, <2>7, RewriteBegun DEF Quiet, Before, Rewriting
<1> QED
  BY <1>2, <1>3, <1>4, Zenon DEF PrepareHistory

LEMMA MeasureKept == ASSUME ~Outgrown, IInv, Measure PROVE IInv'
<1>1. task.pc \in {"measure", "measureImages"} /\ UNCHANGED <<db, bind, answer>>
  BY DEF Measure, At
<1>2. ~task.committed /\ mem \in Contexts /\ mem.next \in Nat
  BY <1>1 DEF IInv, TaskInv, Uncommitted, Before, Types, Contexts
<1>3. bind.st = "new" => ~MayOutgrow(mem.hist) /\ ~HasUsage(mem.hist) /\ task.pc = "measure"
  BY <1>1 DEF IInv, Unborn, Before, MayOutgrow, HasUsage, Active
<1>4. CASE task' = AtInput(task) /\ mem' = mem
  <2>1. /\ task' \in Tasks /\ task'.pc = "input" /\ task'.saved = Undo(mem) /\ task'.req = task.req
        /\ task'.what = task.what /\ task'.committed = task.committed /\ task'.prev = task.prev
        /\ task'.drained = task.drained
    <3>1. Undo(mem) \in Kept
      BY <1>2 DEF Undo, Kept, Contexts
    <3> QED
      BY <1>4, <3>1 DEF IInv, Types, Tasks, AtInput, Uncommitted, Before
  <2>2. TaskInv'
    BY <1>1, <2>1 DEF IInv, TaskInv, Uncommitted, Before, InLoop, Rewriting, Waiting
  <2>3. CASE bind.st = "ok"
    BY <1>1, <1>4, <2>1, <2>2, <2>3, QuietLevel, QuietStep DEF Quiet, Before
  <2>4. CASE bind.st = "new"
    BY <1>1, <1>3, <1>4, <2>1, <2>2, <2>4, NewStep DEF Before
  <2> QED
    BY <1>1, <2>3, <2>4, Bound
<1>5. CASE (MayOutgrow(mem.hist) \/ (At("measure") /\ HasUsage(mem.hist)))
           /\ task' = Compacting("input") /\ mem' = mem
  <2>1. bind.st = "ok"
    BY <1>1, <1>3, <1>5, Bound
  <2>2. task.pc = "measure"
    BY <1>1, <1>5 DEF MayOutgrow, At
  <2>3. /\ task' \in Tasks /\ task'.pc = "compacting" /\ task'.saved = task.saved /\ task'.req = task.req
        /\ task'.what = task.what /\ task'.committed = task.committed /\ task'.prev = NoUndo
        /\ task'.drained = task.drained /\ task'.why = "input"
    <3>1. NoUndo \in Kept
      BY DEF NoUndo, Kept
    <3> QED
      BY <1>5, <3>1 DEF IInv, Types, Tasks, Compacting, Quiet
  <2>4. TaskInv'
    BY <1>1, <1>2, <2>2, <2>3 DEF IInv, TaskInv, Uncommitted, Before, InLoop, Rewriting, Waiting
  <2>5. Level(task.saved)
    BY <1>2, <2>1, <2>2 DEF IInv, Live
  <2> QED
    BY <1>1, <1>5, <2>1, <2>2, <2>3, <2>4, <2>5, QuietStep DEF Quiet, Before
<1>6. CASE ~At("measureImages") /\ mem' = GivenBack(mem) /\ task' = Ending
  <2>1. task.pc = "measure" /\ Abandon
    BY <1>1, <1>6 DEF At, Abandon, Measure
  <2> QED
    BY <2>1, AbandonKept DEF Quiet, Before
<1> QED
  BY <1>4, <1>5, <1>6 DEF Measure

------------------------------------------------------------------------------
(* A commit that fails. *)

Committing == Rewriting \cup {"commitInput", "command", "drained", "answer", "batch"}

LEMMA EndingIs ==
  ASSUME IInv
  PROVE  /\ Ending \in Tasks /\ Ending.pc = "ending" /\ Ending.req = task.req /\ Ending.drained = 0
         /\ Ending.prev = NoUndo
BY DEF Ending, Idle, IInv, Types, Tasks, Kept, NoUndo, Quiet

\* Waiters are told that their request failed: that is so.
LEMMA FailedAnswers ==
  ASSUME IInv, NEW recs, answer' = Replies(recs, "failed"), UNCHANGED db, task' = Ending
  PROVE  answer' \in AnswerTables /\ Answers'
<1>1. /\ answer' \in AnswerTables
      /\ \A q \in ClientRequests : answer'[q] = answer[q] \/ (Waiting(q) /\ answer'[q] = "failed")
  BY DEF Replies, IInv, Types, AnswerTables
<1>2. task'.req = task.req /\ task'.pc = "ending"
  BY EndingIs
<1> QED
  BY <1>1, <1>2 DEF IInv, Answers, AnswerIsTrue, Waiting, Committed

LEMMA UndoneIs ==
  ASSUME IInv, task.pc \in Committing, bind.st = "ok", NEW m \in Contexts
  PROVE  /\ Undone(m) \in Contexts /\ Undone(m).open = m.open /\ Undone(m).meta = m.meta
         /\ Level(Undo(m)) /\ task.pc # "command" => Level(Undo(Undone(m)))
<1>1. /\ task \in Tasks /\ m.hist \subseteq Record /\ m.next \in Nat /\ db.last \in Nat
      /\ task.prev.hist \subseteq Record /\ task.prev.next \in Nat
  BY DEF IInv, Types, Contexts, Database, Tasks, Kept, Rows
<1>2. CASE task.drained > 0
  <2>1. task.pc = "drained"
    BY <1>2 DEF IInv, TaskInv
  <2>2. mem.next = db.last + 1 + task.drained /\ task.drained \in Nat
    BY <1>1, <2>1 DEF IInv, Live, Tasks
  <2>3. mem.next - task.drained = db.last + 1
    BY <1>1, <2>2
  <2>4. Undone(m) = [m EXCEPT !.hist = {r \in m.hist : r.seq < db.last + 1}, !.next = db.last + 1]
    BY <1>2, <2>3 DEF Undone
  <2>5. Undone(m) \in Contexts /\ Undone(m).open = m.open /\ Undone(m).meta = m.meta
        /\ Undone(m).hist = {r \in m.hist : r.seq < db.last + 1} /\ Undone(m).next = db.last + 1
    <3> DEFINE k == db.last + 1
               D == {r \in m.hist : r.seq < db.last + 1}
    <3>1. D \in SUBSET Record /\ k \in Nat
      BY <1>1
    <3>2. Undone(m) = [m EXCEPT !.hist = D, !.next = k]
      BY <2>4
    <3>3. m \in [open : BOOLEAN, hist : SUBSET Record, next : Nat, meta : Routes \cup {None}]
      BY DEF Contexts
    <3> HIDE DEF D, k
    <3>4. /\ Undone(m) \in [open : BOOLEAN, hist : SUBSET Record, next : Nat, meta : Routes \cup {None}]
          /\ Undone(m).open = m.open /\ Undone(m).meta = m.meta /\ Undone(m).hist = D /\ Undone(m).next = k
      BY <3>1, <3>2, <3>3
    <3> QED
      BY <3>4 DEF Contexts, D, k
  <2>6. ASSUME Level(Undo(m)) PROVE Level(Undo(Undone(m)))
    <3>1. \A r \in m.hist : r.seq < db.last + 1
      BY <1>1, <2>6 DEF Level, Undo, Record
    <3>2. Undone(m).hist = m.hist /\ Undone(m).next = m.next
      BY <2>5, <2>6, <3>1 DEF Level, Undo
    <3> QED
      BY <2>6, <3>2 DEF Undo
  <2> QED
    BY <2>5, <2>6
<1>3. CASE ~(task.drained > 0) /\ task.prev = NoUndo
  BY <1>3 DEF Undone
<1>4. CASE ~(task.drained > 0) /\ task.prev # NoUndo
  <2>1. Undone(m) = [m EXCEPT !.hist = task.prev.hist, !.next = task.prev.next]
    BY <1>4 DEF Undone
  <2>2. Undone(m) \in Contexts /\ Undone(m).open = m.open /\ Undone(m).meta = m.meta
        /\ Undone(m).hist = task.prev.hist /\ Undone(m).next = task.prev.next
    BY <1>1, <2>1 DEF Contexts
  <2>3. task.pc # "command" => Level(task.prev)
    BY <1>4 DEF IInv, TaskInv, Live
  <2> QED
    BY <2>2, <2>3 DEF Level, Undo
<1> QED
  BY <1>2, <1>3, <1>4

LEMMA GivenBackIs ==
  ASSUME IInv, task.pc \in Committing, NEW m \in Contexts
  PROVE  /\ GivenBack(m) \in Contexts /\ GivenBack(m).open = m.open /\ GivenBack(m).meta = m.meta
         /\ bind.st = "ok" /\ (task.pc # "command" => Level(Undo(m))) => Level(Undo(GivenBack(m)))
<1>1. task \in Tasks /\ task.saved.hist \subseteq Record /\ task.saved.next \in Nat
  BY DEF IInv, Types, Tasks, Kept
<1>2. CASE task.committed
  <2>1. task.pc # "command"
    BY <1>2 DEF IInv, TaskInv, Uncommitted
  <2> QED
    BY <1>2, <2>1 DEF GivenBack
<1>3. CASE ~task.committed
  <2>1. GivenBack(m) = [m EXCEPT !.hist = task.saved.hist, !.next = task.saved.next]
    BY <1>3 DEF GivenBack
  <2>2. GivenBack(m) \in Contexts /\ GivenBack(m).open = m.open /\ GivenBack(m).meta = m.meta
        /\ GivenBack(m).hist = task.saved.hist /\ GivenBack(m).next = task.saved.next
    BY <1>1, <2>1 DEF Contexts
  <2>3. bind.st = "ok" => Level(task.saved)
    BY <1>3 DEF IInv, Live, Committing, Rewriting
  <2> QED
    BY <2>2, <2>3 DEF Level, Undo
<1> QED
  BY <1>2, <1>3

\* The context that is restored from the database is the durable one.
LEMMA RestoredIs ==
  ASSUME Types, Database, db.exists
  PROVE  /\ RestoredFrom(db) \in Contexts /\ RestoredFrom(db).open /\ RestoredFrom(db).meta = db.meta
         /\ Level(Undo(RestoredFrom(db)))
<1>1. /\ db.last \in Nat /\ db.msgs \subseteq Record /\ Apart(db.msgs) /\ db.meta \in Routes
      /\ \A r \in db.msgs : r.active => ~r.gone
  BY DEF Database, Epoch, Rows
<1>2. \A r \in db.msgs : r.seq \in 1..db.last
  <2>1. \A r \in db.msgs : r.seq \in Seqs(db.msgs)
    BY DEF Seqs
  <2> QED
    BY <2>1 DEF Database
<1>3. /\ RestoredFrom(db).hist = Active(db.msgs) /\ RestoredFrom(db).next = db.last + 1
      /\ RestoredFrom(db) \in Contexts /\ RestoredFrom(db).open /\ RestoredFrom(db).meta = db.meta
  BY <1>1 DEF RestoredFrom, Contexts, Active
<1>4. Active(Active(db.msgs)) = Active(db.msgs) /\ Apart(Active(db.msgs))
  BY <1>1 DEF Active, Apart
<1>5. Level(Undo(RestoredFrom(db)))
  BY <1>1, <1>2, <1>3, <1>4 DEF Level, Undo, Active
<1> QED
  BY <1>3, <1>5

LEMMA RecoverKept ==
  ASSUME IInv, NEW reason, Recover(reason), task' = Ending, UNCHANGED db, task.pc \in Committing
  PROVE  IInv'
<1>1. task' \in Tasks /\ task'.pc = "ending" /\ task'.drained = 0 /\ task'.prev = NoUndo
  BY EndingIs
<1>2. /\ bind.st \in {"ok", "new"} /\ mem.open /\ mem \in Contexts
      /\ bind.st = "new" => task.pc = "commitInput" /\ ~db.exists
  BY Bound DEF IInv, Types, Unborn, Before, Committing, Rewriting
<1>3. PICK recs : answer' = Replies(recs, "failed")
  <2>1. \/ answer' = Replies({r \in Prepared(mem) : ~Committed(r.req)}, "failed")
        \/ answer' = Replies(Prepared(mem), "failed")
        \/ answer' = [q \in ClientRequests |-> IF Waiting(q) THEN "failed" ELSE answer[q]]
    BY DEF Recover
  <2>2. CASE answer' = [q \in ClientRequests |-> IF Waiting(q) THEN "failed" ELSE answer[q]]
    <3>1. \A q \in ClientRequests : \E r \in {[req |-> p] : p \in ClientRequests} : r.req = q
      <4> SUFFICES ASSUME NEW q \in ClientRequests
                   PROVE  \E r \in {[req |-> p] : p \in ClientRequests} : r.req = q
        OBVIOUS
      <4>1. [req |-> q].req = q /\ [req |-> q] \in {[req |-> p] : p \in ClientRequests}
        OBVIOUS
      <4> QED
        BY <4>1
    <3>2. answer' = Replies({[req |-> p] : p \in ClientRequests}, "failed")
      BY <2>2, <3>1 DEF Replies
    <3> QED
      BY <3>2
  <2> QED
    BY <2>1, <2>2
<1>4. answer' \in AnswerTables /\ Answers'
  BY <1>3, FailedAnswers
<1>5. Database'
  BY DEF IInv, Database
<1>6. TaskInv'
  BY <1>1 DEF TaskInv, Rewriting, Uncommitted, InLoop, Before
<1>7. CASE /\ db.exists
           /\ mem' = GivenBack(Undone(RestoredFrom(db)))
           /\ bind' = [BindingOf(db) EXCEPT !.st = IF reason = "tool_batch" THEN "invalid" ELSE "ok"]
  <2>1. bind.st = "ok"
    BY <1>2, <1>7
  <2> DEFINE R == RestoredFrom(db)
             U == Undone(R)
  <2>2. R \in Contexts /\ R.open /\ R.meta = db.meta /\ Level(Undo(R))
    BY <1>7, RestoredIs DEF IInv
  <2>3. U \in Contexts /\ U.open /\ U.meta = db.meta /\ (task.pc # "command" => Level(Undo(U)))
    <3> HIDE DEF R
    <3> QED BY <2>1, <2>2, UndoneIs
  <2>4. mem' = GivenBack(U)
    BY <1>7
  <2> HIDE DEF U
  <2>5. mem' \in Contexts /\ mem'.open /\ mem'.meta = db.meta /\ Level(Undo(mem'))
    BY <2>1, <2>3, <2>4, GivenBackIs
  <2>6. Level(Undo(mem))'
    BY <2>5 DEF Level, Undo
  <2>7. /\ bind' \in BindingRecords
        /\ bind'.st = IF reason = "tool_batch" THEN "invalid" ELSE "ok"
        /\ bind'.st = "ok" => bind' = BindingOf(db)
    BY <1>7 DEF BindingOf, IInv, Database, BindingRecords, Rows
  <2>8. Types'
    BY <1>1, <1>4, <2>5, <2>7 DEF Types
  <2>9. CASE bind'.st = "ok"
    <3>1. bind' = BindingOf(db')
      BY <2>7, <2>9
    <3> QED
      BY <1>1, <1>4, <1>5, <1>6, <1>7, <2>5, <2>6, <2>8, <2>9, <3>1, LiveAgain DEF Quiet
  <2>10. CASE bind'.st = "invalid"
    <3>1. Live' /\ Unborn' /\ Bindings' /\ Pending'
      BY <1>1, <2>5, <2>10 DEF Live, Unborn, Bindings, Pending
    <3> QED
      BY <1>4, <1>5, <1>6, <2>8, <3>1 DEF IInv
  <2> QED
    BY <2>7, <2>9, <2>10
<1>8. CASE bind.st = "new" /\ mem' = GivenBack(Undone([mem EXCEPT !.hist = {}, !.next = 1])) /\ bind' = bind
  <2> DEFINE E == [mem EXCEPT !.hist = {}, !.next = 1]
  <2>1. E \in Contexts /\ E.open /\ E.meta = mem.meta
    BY <1>2 DEF Contexts
  <2>2. Undone(E) = E
    BY <1>2, <1>8 DEF Undone, IInv, TaskInv, Rewriting
  <2>3. mem' = GivenBack(E)
    BY <1>8, <2>2
  <2> HIDE DEF E
  <2>4. mem' \in Contexts /\ mem'.open /\ mem'.meta = mem.meta
    BY <1>2, <2>1, <2>3, GivenBackIs
  <2>5. Types'
    BY <1>1, <1>4, <1>8, <2>4 DEF Types, IInv
  <2>6. Live' /\ Bindings' /\ Pending'
    BY <1>1, <1>8, <2>4 DEF Live, Bindings, Pending
  <2>7. Unborn'
    BY <1>1, <1>8, <2>4 DEF Unborn, IInv, Before
  <2> QED
    BY <1>4, <1>5, <1>6, <2>5, <2>6, <2>7 DEF IInv
<1>9. CASE bind.st # "new" /\ mem' = GivenBack(Undone(mem)) /\ bind' = [bind EXCEPT !.st = "invalid"]
  <2>1. Undone(mem) \in Contexts /\ Undone(mem).open
    BY <1>2, <1>9, UndoneIs
  <2>2. mem' \in Contexts /\ mem'.open
    BY <1>9, <2>1, GivenBackIs
  <2>3. /\ bind' \in BindingRecords
        /\ bind'.st = "invalid"
    BY <1>9 DEF IInv, Types, BindingRecords
  <2>4. Types' /\ Live' /\ Unborn' /\ Bindings' /\ Pending'
    BY <1>1, <1>4, <2>2, <2>3 DEF Types, Live, Unborn, Bindings, Pending
  <2> QED
    BY <1>4, <1>5, <1>6, <2>4 DEF IInv
<1> QED
  BY <1>7, <1>8, <1>9, Zenon DEF Recover

------------------------------------------------------------------------------
(* A commit that succeeds. *)

LEMMA Adjoining == ASSUME NEW a \in Nat, NEW b \in Nat, b > a PROVE (1..a) \cup ((a + 1)..(b - 1)) = 1..(b - 1)
OBVIOUS

\* What a Run that commits has to write.
LEMMA ToWrite ==
  ASSUME IInv, task.pc \in Committing
  PROVE  /\ Prepared(mem) = New(mem.hist) /\ mem \in Contexts /\ Ahead(mem) /\ mem.open /\ mem.meta \in Routes
         /\ db.last \in Nat /\ db.msgs \subseteq Record /\ Apart(db.msgs)
         /\ IF task.pc \in Rewriting THEN Follows(mem.hist, task.thru) ELSE Carries(mem.hist)
         /\ bind.st = "ok" => bind = BindingOf(db) /\ db.exists /\ mem.meta = db.meta
         /\ bind.st \in {"ok", "new"}
<1>1. /\ bind.st \in {"ok", "new"} /\ mem.open /\ mem \in Contexts /\ db.last \in Nat
      /\ db.msgs \subseteq Record /\ Apart(db.msgs)
      /\ bind.st = "new" => task.pc = "commitInput"
  BY Bound DEF IInv, Types, Database, Epoch, Before, Committing, Rewriting, Rows
<1>2. CASE bind.st = "ok"
  BY <1>1, <1>2 DEF IInv, Live, Database, Prepared, New, BindingOf
<1>3. CASE bind.st = "new"
  <2>1. bind.last = db.last /\ Ahead(mem) /\ Carries(mem.hist) /\ mem.meta \in Routes /\ task.pc \notin Rewriting
    BY <1>1, <1>3 DEF IInv, Unborn, Database, Rewriting
  <2> QED
    BY <1>1, <1>3, <2>1 DEF Prepared, New
<1> QED
  BY <1>1, <1>2, <1>3

\* The records of the database after the commit of n, deactivated through d.
Stale(d) == {IF r.seq <= d THEN [r EXCEPT !.active = FALSE] ELSE r : r \in db.msgs}

LEMMA StaleIs ==
  ASSUME db.msgs \subseteq Record, NEW d \in Nat
  PROVE  /\ Stale(d) \subseteq Record /\ Seqs(Stale(d)) = Seqs(db.msgs)
         /\ \A s \in Stale(d) : \E r \in db.msgs :
              /\ s.seq = r.seq /\ s.kind = r.kind /\ s.req = r.req /\ s.thru = r.thru /\ s.gone = r.gone
              /\ s.active = (r.active /\ r.seq > d) /\ (r.seq > d => s = r)
         /\ \A r \in db.msgs : \E s \in Stale(d) : s.req = r.req
         /\ Apart(db.msgs) => Apart(Stale(d))
<1> DEFINE F(r) == IF r.seq <= d THEN [r EXCEPT !.active = FALSE] ELSE r
<1>1. \A r \in db.msgs : /\ F(r) \in Record /\ F(r).seq = r.seq /\ F(r).kind = r.kind /\ F(r).req = r.req
                         /\ F(r).thru = r.thru /\ F(r).gone = r.gone
                         /\ F(r).active = (r.active /\ r.seq > d) /\ (r.seq > d => F(r) = r)
  <2> SUFFICES ASSUME NEW r \in db.msgs
               PROVE  /\ F(r) \in Record /\ F(r).seq = r.seq /\ F(r).kind = r.kind /\ F(r).req = r.req
                      /\ F(r).thru = r.thru /\ F(r).gone = r.gone
                      /\ F(r).active = (r.active /\ r.seq > d) /\ (r.seq > d => F(r) = r)
    BY Zenon
  <2>1. r \in Record /\ r.seq \in Nat /\ r.active \in BOOLEAN
    BY DEF Record
  <2>2. CASE r.seq <= d
    <3>1. F(r) = [r EXCEPT !.active = FALSE]
      BY <2>2
    <3>2. /\ [r EXCEPT !.active = FALSE] \in Record /\ [r EXCEPT !.active = FALSE].active = FALSE
          /\ [r EXCEPT !.active = FALSE].seq = r.seq /\ [r EXCEPT !.active = FALSE].kind = r.kind
          /\ [r EXCEPT !.active = FALSE].req = r.req /\ [r EXCEPT !.active = FALSE].thru = r.thru
          /\ [r EXCEPT !.active = FALSE].gone = r.gone
      BY <2>1 DEF Record
    <3>3. ~(r.seq > d)
      BY <2>1, <2>2
    <3> HIDE DEF F
    <3> QED
      BY <3>1, <3>2, <3>3
  <2>3. CASE r.seq > d
    <3>1. F(r) = r
      BY <2>1, <2>3
    <3> HIDE DEF F
    <3> QED
      BY <2>1, <2>3, <3>1
  <2>4. r.seq <= d \/ r.seq > d
    BY <2>1
  <2> HIDE DEF F
  <2> QED
    BY <2>2, <2>3, <2>4
<1>2. Stale(d) = {F(r) : r \in db.msgs}
  BY DEF Stale
<1> HIDE DEF F
<1>3. Stale(d) \subseteq Record
  BY <1>1, <1>2
<1>4. \A s \in Stale(d) : \E r \in db.msgs : s = F(r)
  BY <1>2
<1>5. \A r \in db.msgs : F(r) \in Stale(d)
  BY <1>2
<1>6. Seqs(Stale(d)) = Seqs(db.msgs)
  <2>1. \A x \in Seqs(Stale(d)) : x \in Seqs(db.msgs)
    BY <1>1, <1>4 DEF Seqs
  <2>2. \A x \in Seqs(db.msgs) : x \in Seqs(Stale(d))
    BY <1>1, <1>5 DEF Seqs
  <2> QED
    BY <2>1, <2>2
<1>7. Apart(db.msgs) => Apart(Stale(d))
  BY <1>1, <1>4 DEF Apart
<1> QED
  BY <1>1, <1>3, <1>4, <1>5, <1>6, <1>7

\* The records of a durable history m together with those past it.
Joint(M) ==
  /\ M \subseteq Record /\ Seqs(M) = 1..(mem.next - 1) /\ Epoch(M, Boundary(M))
  /\ Active(mem.hist) = Active(M)
  /\ \A q \in ClientRequests : (\E r \in M : r.req = q) <=> Committed(q) \/ \E r \in New(mem.hist) : r.req = q

LEMMA Union ==
  ASSUME IInv, task.pc \in Committing, NEW d \in Nat
  PROVE  LET M == Stale(d) \cup New(mem.hist)
         IN  /\ M \subseteq Record /\ Seqs(M) = 1..(mem.next - 1) /\ Apart(M)
             /\ \A r \in M : r.seq \in 1..(mem.next - 1)
             /\ \A r \in Stale(d) : r.seq \in 1..db.last
             /\ \A r \in New(mem.hist) : r.seq \in (db.last + 1)..(mem.next - 1) /\ ~r.gone /\ r \in Record
             /\ \A q \in ClientRequests :
                  (\E r \in M : r.req = q) <=> Committed(q) \/ \E r \in New(mem.hist) : r.req = q
<1> DEFINE O == Stale(d)
           N == New(mem.hist)
<1>1. /\ Ahead(mem) /\ db.last \in Nat /\ db.msgs \subseteq Record /\ Apart(db.msgs)
      /\ mem.next \in Nat /\ mem.next > db.last
  BY ToWrite DEF Ahead
<1>2. Seqs(db.msgs) = 1..db.last
  BY DEF IInv, Database
<1>3. O \subseteq Record /\ Seqs(O) = 1..db.last /\ Apart(O)
  BY <1>1, <1>2, StaleIs
<1>4. N \subseteq Record /\ Seqs(N) = (db.last + 1)..(mem.next - 1) /\ Apart(N) /\ \A r \in N : ~r.gone
  BY <1>1 DEF Ahead, Apart, New
<1>5. \A r \in O : r.seq \in 1..db.last
  <2>1. \A r \in O : r.seq \in Seqs(O)
    BY DEF Seqs
  <2> QED
    BY <1>3, <2>1
<1>6. \A r \in N : r.seq \in (db.last + 1)..(mem.next - 1)
  <2>1. \A r \in N : r.seq \in Seqs(N)
    BY DEF Seqs
  <2> QED
    BY <1>4, <2>1
<1>7. \A q \in ClientRequests : (\E r \in O : r.req = q) <=> Committed(q)
  <2>1. (\A s \in O : \E r \in db.msgs : s.req = r.req) /\ \A r \in db.msgs : \E s \in O : s.req = r.req
    BY <1>1, StaleIs
  <2> HIDE DEF O
  <2> QED
    BY <2>1 DEF Committed
<1> HIDE DEF O, N
<1>8. Seqs(O \cup N) = 1..(mem.next - 1)
  <2>1. Seqs(O \cup N) = Seqs(O) \cup Seqs(N)
    BY DEF Seqs
  <2>2. (1..db.last) \cup ((db.last + 1)..(mem.next - 1)) = 1..(mem.next - 1)
    BY <1>1, Adjoining
  <2> QED
    BY <1>3, <1>4, <2>1, <2>2
<1>9. Apart(O \cup N)
  BY <1>1, <1>3, <1>4, <1>5, <1>6 DEF Apart
<1>10. \A r \in O \cup N : r.seq \in 1..(mem.next - 1)
  BY <1>1, <1>5, <1>6
<1> QED
  BY <1>3, <1>4, <1>5, <1>6, <1>7, <1>8, <1>9, <1>10 DEF O, N

\* Appending to the epoch goes on with it.
LEMMA AppendCommitted ==
  ASSUME IInv, task.pc \in Committing \ Rewriting
  PROVE  Joint(Stale(0) \cup New(mem.hist))
<1> DEFINE N == New(mem.hist)
           M == Stale(0) \cup N
           b == Boundary(db.msgs)
<1>1. /\ db.last \in Nat /\ db.msgs \subseteq Record /\ Apart(db.msgs) /\ Carries(mem.hist)
      /\ mem.hist \subseteq Record /\ mem.next \in Nat
  BY ToWrite DEF Ahead
<1>2. \A r \in db.msgs : r.seq \in 1..db.last
  <2>1. \A r \in db.msgs : r.seq \in Seqs(db.msgs)
    BY DEF Seqs
  <2> QED
    BY <2>1 DEF IInv, Database
<1>3. Stale(0) = db.msgs
  <2>1. \A s \in Stale(0) : s \in db.msgs
    <3>1. \A s \in Stale(0) : \E r \in db.msgs : r.seq > 0 => s = r
      BY <1>1, StaleIs, Zenon
    <3> QED
      BY <1>2, <3>1
  <2>2. \A r \in db.msgs : r \in Stale(0)
    BY <1>2 DEF Stale
  <2> QED
    BY <2>1, <2>2
<1>4. M \subseteq Record /\ Seqs(M) = 1..(mem.next - 1) /\ Apart(M) /\ \A r \in M : r.seq \in 1..(mem.next - 1)
  BY Union
<1>5. \A r \in N : r.seq \in (db.last + 1)..(mem.next - 1) /\ ~r.gone /\ r \in Record
  BY Union
<1>6. \A r \in N : r.kind \notin Anchors /\ (r.active <=> r.kind # "control")
  BY <1>1 DEF Carries
<1>7. Bounds(db.msgs, b) /\ Epoch(db.msgs, b)
  <2>1. \A r \in db.msgs : r.seq <= db.last
    BY <1>1, <1>2
  <2> QED
    BY <1>1, <2>1, BoundaryIs DEF IInv, Database
<1>8. b \in 0..db.last
  BY <1>1, <1>2, <1>7 DEF Bounds, Epoch, Visible, Record
<1>9. Boundary(M) = b
  <2>1. Bounds(M, b)
    BY <1>3, <1>6, <1>7 DEF Bounds, Visible
  <2>2. mem.next - 1 \in Nat \/ M = {}
    <3>1. CASE mem.next = 0
      BY <1>1, <1>4, <3>1
    <3>2. CASE mem.next > 0
      BY <1>1, <3>2
    <3> QED
      BY <1>1, <3>1, <3>2
  <2>3. \A r \in M : r.seq <= mem.next
    BY <1>1, <1>4
  <2> HIDE DEF M
  <2> QED
    BY <1>1, <1>4, <2>1, <2>3, BoundaryBy
<1>10. Epoch(M, b)
  <2>1. \A r \in M : r.active <=> ~r.gone /\ r.kind # "control" /\ r.seq > b
    BY <1>1, <1>3, <1>5, <1>6, <1>7, <1>8 DEF Epoch
  <2>2. \A r \in M : r.kind \in Anchors => r.thru < r.seq
    BY <1>3, <1>6, <1>7 DEF Epoch
  <2> QED
    BY <1>4, <2>1, <2>2 DEF Epoch
<1>11. Active(mem.hist) = Active(M)
  <2>1. mem.hist = Old(mem.hist) \cup N
    BY <1>1 DEF Old, New, Record
  <2>2. Active(mem.hist) = Active(Old(mem.hist)) \cup Active(N)
    BY <2>1 DEF Active
  <2>3. Active(M) = Active(db.msgs) \cup Active(N)
    BY <1>3 DEF Active
  <2> QED
    BY <1>1, <2>2, <2>3 DEF Carries
<1>12. \A q \in ClientRequests : (\E r \in M : r.req = q) <=> Committed(q) \/ \E r \in New(mem.hist) : r.req = q
  BY Union
<1> QED
  BY <1>4, <1>9, <1>10, <1>11, <1>12 DEF Joint

\* A rewritten history begins another epoch.
LEMMA RewriteCommitted ==
  ASSUME IInv, task.pc \in Rewriting
  PROVE  Joint(Stale(task.thru) \cup New(mem.hist))
<1> DEFINE N == New(mem.hist)
           d == task.thru
           O == Stale(d)
           M == O \cup N
<1>1. /\ db.last \in Nat /\ db.msgs \subseteq Record /\ Apart(db.msgs) /\ Follows(mem.hist, d)
      /\ mem.hist \subseteq Record /\ mem.next \in Nat /\ d \in 0..db.last /\ task.pc \in Committing
      /\ d \in Nat
  BY ToWrite DEF Ahead, Follows, Committing
<1>2. M \subseteq Record /\ Seqs(M) = 1..(mem.next - 1) /\ Apart(M) /\ \A r \in M : r.seq \in 1..(mem.next - 1)
  BY <1>1, Union
<1>3. \A r \in N : r.seq \in (db.last + 1)..(mem.next - 1) /\ ~r.gone /\ r \in Record
  BY <1>1, Union
<1>4. \A r \in O : r.seq \in 1..db.last
  BY <1>1, Union
<1>5. \A r \in N : r.active /\ r.kind # "control"
  BY <1>1 DEF Follows
<1>6. PICK a \in N : a.kind \in Anchors /\ a.thru = d /\ \A r \in N : r.kind \in Anchors => r = a
  BY <1>1 DEF Follows
<1>7. \A s \in O : /\ ~s.active /\ (s.seq > d => s.gone \/ s.kind = "control")
                   /\ s.kind \in Anchors => s.thru < s.seq
  <2>1. \A r \in db.msgs : /\ r.active => ~r.gone /\ r.kind # "control"
                           /\ r.kind \in Anchors => r.thru < r.seq
    BY DEF IInv, Database, Epoch
  <2>2. \A r \in db.msgs : r.seq > d => r.gone \/ r.kind = "control"
    BY <1>1 DEF Follows
  <2>3. \A s \in O : \E r \in db.msgs :
          /\ s.seq = r.seq /\ s.kind = r.kind /\ s.thru = r.thru /\ s.gone = r.gone
          /\ s.active = (r.active /\ r.seq > d)
    <3>1. \A s \in Stale(d) : \E r \in db.msgs :
            /\ s.seq = r.seq /\ s.kind = r.kind /\ s.req = r.req /\ s.thru = r.thru /\ s.gone = r.gone
            /\ s.active = (r.active /\ r.seq > d) /\ (r.seq > d => s = r)
      <4> HIDE DEF d
      <4> QED BY <1>1, StaleIs
    <3> HIDE DEF d
    <3> QED BY <3>1
  <2> SUFFICES ASSUME NEW s \in O
               PROVE  /\ ~s.active /\ (s.seq > d => s.gone \/ s.kind = "control")
                      /\ s.kind \in Anchors => s.thru < s.seq
    BY Zenon
  <2>4. PICK r \in db.msgs : /\ s.seq = r.seq /\ s.kind = r.kind /\ s.thru = r.thru /\ s.gone = r.gone
                             /\ s.active = (r.active /\ r.seq > d)
    BY <2>3
  <2> HIDE DEF d, O
  <2> QED
    BY <2>1, <2>2, <2>4
<1>8. Boundary(M) = d
  <2>1. Bounds(M, d)
    <3>1. Visible(a) /\ a \in M
      BY <1>3, <1>6 DEF Visible
    <3>2. \A r \in M : Visible(r) => r.seq <= a.seq
      <4>1. \A r \in N : Visible(r) => r.seq <= a.seq
        BY <1>1, <1>3, <1>6 DEF Visible
      <4>2. \A r \in O : r.seq <= a.seq
        BY <1>1, <1>3, <1>4, <1>6
      <4> QED
        BY <4>1, <4>2
    <3> QED
      BY <1>6, <3>1, <3>2 DEF Bounds
  <2>2. \A r \in M : r.seq <= mem.next
    BY <1>1, <1>2
  <2> HIDE DEF M, d
  <2> QED
    BY <1>1, <1>2, <2>1, <2>2, BoundaryBy
<1>9. Epoch(M, d)
  <2>1. \A r \in N : r.active <=> ~r.gone /\ r.kind # "control" /\ r.seq > d
    BY <1>1, <1>3, <1>5
  <2>2. \A r \in O : r.active <=> ~r.gone /\ r.kind # "control" /\ r.seq > d
    BY <1>7
  <2>3. \A r \in N : r.kind \in Anchors => r.thru < r.seq
    BY <1>1, <1>3, <1>6
  <2>4. \A r \in O : r.kind \in Anchors => r.thru < r.seq
    BY <1>7
  <2> HIDE DEF O, N, d
  <2> QED
    BY <1>2, <2>1, <2>2, <2>3, <2>4 DEF Epoch
<1>10. Active(mem.hist) = Active(M)
  <2>1. mem.hist = Old(mem.hist) \cup N
    BY <1>1 DEF Old, New, Record
  <2>2. Active(mem.hist) = Active(N)
    BY <1>1, <2>1 DEF Active, Follows
  <2>3. Active(M) = Active(N)
    BY <1>7 DEF Active
  <2> QED
    BY <2>2, <2>3
<1>11. \A q \in ClientRequests : (\E r \in M : r.req = q) <=> Committed(q) \/ \E r \in New(mem.hist) : r.req = q
  BY <1>1, Union
<1> QED
  BY <1>2, <1>8, <1>9, <1>10, <1>11 DEF Joint

LEMMA Gapless == ASSUME NEW a \in Nat, NEW b \in Nat, b > a, (a + 1)..(b - 1) = {} PROVE b = a + 1
<1> SUFFICES ASSUME b # a + 1 PROVE FALSE
  OBVIOUS
<1>1. a + 1 \in (a + 1)..(b - 1)
  OBVIOUS
<1> QED
  BY <1>1

\* What a commit leaves behind.
LEMMA Durable ==
  ASSUME IInv, task.pc \in Committing, NEW d, d = IF task.pc \in Rewriting THEN task.thru ELSE 0, Persist(d)
  PROVE  /\ Database' /\ Level(Undo(mem))' /\ bind' = BindingOf(db') /\ bind'.st = "ok" /\ db'.exists
         /\ bind' \in BindingRecords
         /\ mem' = mem /\ mem'.open /\ mem'.meta = db'.meta
         /\ answer' \in AnswerTables /\ AnswerIsTrue'
         /\ \A q \in ClientRequests : Waiting(q)' => ~Committed(q)' /\ q = task.req
         /\ task.pc \in Rewriting /\ task.req \in ClientRequests /\ Waiting(task.req) => answer'[task.req] = "waiting"
<1> DEFINE N == New(mem.hist)
           M == Stale(d) \cup N
<1>1. /\ Prepared(mem) = N /\ mem \in Contexts /\ Ahead(mem) /\ mem.open /\ mem.meta \in Routes
      /\ db.last \in Nat /\ db.msgs \subseteq Record /\ Apart(db.msgs)
      /\ bind.st = "ok" => bind = BindingOf(db) /\ db.exists /\ mem.meta = db.meta
      /\ bind.st \in {"ok", "new"} /\ mem' = mem
      /\ IF task.pc \in Rewriting THEN Follows(mem.hist, task.thru) ELSE Carries(mem.hist)
  BY ToWrite, Zenon DEF Persist
<1>2. Joint(M)
  <2>1. CASE task.pc \in Rewriting
    BY <2>1, RewriteCommitted
  <2>2. CASE task.pc \notin Rewriting
    BY <2>2, AppendCommitted
  <2> QED
    BY <2>1, <2>2
<1>3. /\ mem.next \in Nat /\ mem.next > db.last /\ mem.hist \subseteq Record /\ Apart(mem.hist)
      /\ \A r \in mem.hist : ~r.gone
      /\ Seqs(N) = (db.last + 1)..(mem.next - 1) /\ N \in SUBSET Record
  BY <1>1 DEF Ahead, New
<1>4. \A r \in N : r.seq \in (db.last + 1)..(mem.next - 1)
  <2>1. \A r \in N : r.seq \in Seqs(N)
    BY DEF Seqs
  <2> QED
    BY <1>3, <2>1
<1>5. \A r \in mem.hist : r.seq <= mem.next - 1
  <2>1. \A r \in mem.hist : r.seq > db.last => r \in N
    BY DEF New
  <2>2. \A r \in mem.hist : r.seq \in Nat
    BY <1>3 DEF Record
  <2> HIDE DEF N
  <2> QED
    BY <1>1, <1>3, <1>4, <2>1, <2>2
<1>6. CASE Changed(mem, d)
  <2>1. /\ db' = Written(mem, d) /\ bind' = BindingOf(db') /\ answer' = Replies(N, "started")
    BY <1>1, <1>6, Zenon DEF Persist
  <2>2. (IF N = {} THEN db.last ELSE LastOf(N)) = mem.next - 1
    <3>1. CASE N = {}
      <4>1. Seqs(N) = {}
        BY <3>1 DEF Seqs
      <4>2. mem.next = db.last + 1
        <5> HIDE DEF N
        <5> QED BY <1>1, <1>3, <4>1, Gapless
      <4> HIDE DEF N
      <4> QED
        BY <1>1, <3>1, <4>2
    <3>2. CASE N # {}
      <4> HIDE DEF N
      <4>1. mem.next - 1 \in Nat /\ \A r \in N : r.seq <= mem.next - 1
        BY <1>1, <1>3, <1>4
      <4>2. /\ LastOf(N) \in 0..(mem.next - 1) /\ \A r \in N : r.seq <= LastOf(N)
            /\ \E r \in N : r.seq = LastOf(N)
        BY <1>3, <3>2, <4>1, Last
      <4>3. LastOf(N) \in (db.last + 1)..(mem.next - 1)
        BY <1>4, <4>2
      <4>4. mem.next - 1 \in Seqs(N)
        BY <1>1, <1>3, <4>3
      <4>5. PICK r \in N : r.seq = mem.next - 1
        BY <4>4 DEF Seqs
      <4> QED
        BY <1>1, <1>3, <3>2, <4>2, <4>3, <4>5
    <3> QED
      BY <3>1, <3>2
  <2>3. /\ db'.exists = TRUE /\ db'.msgs = M /\ db'.rev = db.rev + 1 /\ db'.last = mem.next - 1
        /\ db'.meta = mem.meta
        /\ db' = [exists |-> TRUE, msgs |-> M, rev |-> db.rev + 1, last |-> mem.next - 1, meta |-> mem.meta]
    <3>1. db' = [exists |-> TRUE, msgs |-> M, rev |-> db.rev + 1,
                 last |-> IF N = {} THEN db.last ELSE LastOf(N), meta |-> mem.meta]
      BY <1>1, <2>1 DEF Written, Stale
    <3> HIDE DEF M, N
    <3> QED
      BY <2>2, <3>1
  <2> HIDE DEF M
  <2>4. Database'
    <3>1. db.rev \in Nat
      BY DEF IInv, Database, Rows
    <3>2. db' \in Rows
      BY <1>1, <1>2, <1>3, <2>3, <3>1 DEF Joint, Rows
    <3>3. Seqs(db'.msgs) = 1..db'.last /\ Epoch(db'.msgs, Boundary(db'.msgs))
      BY <1>2, <2>3 DEF Joint
    <3> QED
      BY <1>1, <2>3, <3>2, <3>3 DEF Database
  <2>5. Level(Undo(mem))'
    BY <1>1, <1>2, <1>3, <1>5, <2>3 DEF Level, Undo, Joint
  <2>6. /\ bind'.st = "ok"
        /\ bind' \in BindingRecords
    BY <2>1, <2>4 DEF BindingOf, Database, BindingRecords, Rows
  <2>7. \A q \in ClientRequests : Committed(q)' <=> Committed(q) \/ \E r \in N : r.req = q
    BY <1>2, <2>3 DEF Committed, Joint
  <2>8. \A r \in N : r.req # None => task.pc \notin Rewriting /\ r.req = task.req /\ Waiting(task.req)
    <3>1. task.pc # "ending"
      BY DEF Committing, Rewriting
    <3> QED
      BY <1>1, <3>1 DEF IInv, Pending
  <2>9. /\ answer' \in AnswerTables
        /\ \A q \in ClientRequests :
             IF Waiting(q) /\ \E r \in N : r.req = q THEN answer'[q] = "started" ELSE answer'[q] = answer[q]
    BY <2>1 DEF Replies, IInv, Types, AnswerTables
  <2>10. \A q \in ClientRequests : Waiting(q) => ~Committed(q) /\ q = task.req
    BY DEF IInv, Answers
  <2> HIDE DEF N
  <2>11. AnswerIsTrue'
    <3>1. \A q \in ClientRequests : answer[q] = "failed" => ~Committed(q)
      BY DEF IInv, Answers, AnswerIsTrue
    <3>2. \A q \in ClientRequests : answer[q] = "started" => Committed(q)
      BY DEF IInv, Answers, AnswerIsTrue
    <3>3. \A q \in ClientRequests : answer'[q] = "started" => Committed(q)'
      BY <2>7, <2>9, <3>2
    <3>4. \A q \in ClientRequests : answer'[q] = "failed" => ~Committed(q)'
      BY <2>7, <2>8, <2>9, <3>1, HistoryAssumption DEF Waiting
    <3> QED
      BY <3>3, <3>4 DEF AnswerIsTrue
  <2>12. \A q \in ClientRequests : Waiting(q)' => ~Committed(q)' /\ q = task.req
    BY <2>7, <2>9, <2>10 DEF Waiting
  <2>13. task.pc \in Rewriting /\ task.req \in ClientRequests /\ Waiting(task.req) => answer'[task.req] = "waiting"
    BY <2>8, <2>9, HistoryAssumption DEF Waiting
  <2> QED
    BY <1>1, <2>1, <2>3, <2>4, <2>5, <2>6, <2>9, <2>11, <2>12, <2>13
<1>7. CASE ~Changed(mem, d)
  <2>1. UNCHANGED <<db, bind, answer>> /\ N = {} /\ bind.st = "ok"
    BY <1>1, <1>7, Zenon DEF Persist, Changed
  <2>2. task.pc \notin Rewriting
    BY <1>1, <2>1 DEF Follows
  <2>3. mem.next = db.last + 1 /\ Old(mem.hist) = mem.hist
    <3>1. Seqs(N) = {}
      BY <2>1 DEF Seqs
    <3>2. \A r \in mem.hist : r.seq <= db.last
      BY <1>1, <1>3, <2>1 DEF New, Record
    <3>3. mem.next = db.last + 1
      <4> HIDE DEF N
      <4> QED BY <1>1, <1>3, <3>1, Gapless
    <3> QED
      BY <3>2, <3>3 DEF Old
  <2>4. Level(Undo(mem))
    BY <1>1, <1>3, <2>2, <2>3 DEF Level, Undo, Carries, Old
  <2>5. Database' /\ Level(Undo(mem))' /\ AnswerIsTrue'
    BY <1>1, <2>1, <2>4 DEF IInv, Database, Level, Undo, Answers, AnswerIsTrue, Committed
  <2>6. /\ bind' \in BindingRecords
        /\ answer' \in AnswerTables
        /\ \A q \in ClientRequests : Waiting(q)' => ~Committed(q)' /\ q = task.req
    BY <2>1 DEF IInv, Types, Answers, Waiting, Committed
  <2> QED
    BY <1>1, <2>1, <2>2, <2>5, <2>6
<1> QED
  BY <1>6, <1>7

\* The Run goes on at next after a commit, or ends after one that fails.
LEMMA CommitKept ==
  ASSUME IInv, task.pc \in Committing, NEW d, d = IF task.pc \in Rewriting THEN task.thru ELSE 0,
         NEW reason, NEW next \in Tasks, Commit(reason, d, next),
         next.pc \in Quiet \ {"idle"}, next.req = task.req, next.drained = 0, next.prev = NoUndo,
         next.pc \in Uncommitted => ~next.committed, next.pc \in InLoop => next.committed,
         next.pc = "compacting" => (next.why = "input" <=> ~next.committed),
         ~next.committed /\ next.pc \notin {"ending", "measureImages"} => next.saved = Undo(mem),
         ~next.committed /\ next.pc # "ending" =>
           ~task.committed /\ task.pc \in Rewriting /\ next.what = task.what
  PROVE  IInv'
<1>1. CASE Persist(d) /\ task' = next
  <2>1. /\ Database' /\ Level(Undo(mem))' /\ bind' = BindingOf(db') /\ bind'.st = "ok" /\ db'.exists
        /\ bind' \in BindingRecords
        /\ mem' = mem /\ mem'.open /\ mem'.meta = db'.meta
        /\ answer' \in AnswerTables /\ AnswerIsTrue'
        /\ \A q \in ClientRequests : Waiting(q)' => ~Committed(q)' /\ q = task.req
        /\ task.pc \in Rewriting /\ task.req \in ClientRequests /\ Waiting(task.req)
              => answer'[task.req] = "waiting"
    BY <1>1, Durable
  <2>2. Types'
    BY <1>1, <2>1 DEF IInv, Types
  <2>3. Answers'
    BY <1>1, <2>1 DEF Answers
  <2>4. TaskInv'
    <3>1. ~next.committed /\ next.pc # "ending" =>
            \/ next.what = "resume" /\ next.req = None
            \/ next.what \in {"text", "compact", "follow"} /\ next.req \in ClientRequests
               /\ answer'[next.req] = "waiting"
      BY <2>1 DEF IInv, TaskInv, Rewriting
    <3> QED
      BY <1>1, <3>1 DEF TaskInv, Quiet, Before, Rewriting, Waiting
  <2>5. ~task'.committed /\ task'.pc \notin {"idle", "ending", "measureImages"} => Level(task.saved)'
    BY <1>1, <2>1 DEF Level, Undo
  <2> QED
    BY <1>1, <2>1, <2>2, <2>3, <2>4, <2>5, LiveAgain
<1>2. CASE CommitFails(d) /\ Recover(reason) /\ task' = Ending
  <2>1. UNCHANGED db
    BY <1>2 DEF CommitFails
  <2> QED
    BY <1>2, <2>1, RecoverKept
<1> QED
  BY <1>1, <1>2 DEF Commit

LEMMA CommitTransitionKept == ASSUME IInv, CommitTransition PROVE IInv'
<1> DEFINE next == [task EXCEPT !.pc = "measureImages", !.prev = NoUndo, !.thru = 0]
<1>1. task.pc = "transition" /\ Commit("history_transition", task.thru, next)
  BY DEF CommitTransition, At
<1>2. /\ next \in Tasks /\ next.pc = "measureImages" /\ next.prev = NoUndo /\ next.req = task.req
      /\ next.what = task.what /\ next.committed = task.committed /\ next.drained = task.drained
  BY DEF IInv, Types, Tasks, Kept, NoUndo, Quiet
<1>3. task.drained = 0 /\ ~task.committed
  BY <1>1 DEF IInv, TaskInv, Types, Tasks, Uncommitted
<1> HIDE DEF next
<1> QED
  BY <1>1, <1>2, <1>3, CommitKept DEF Committing, Rewriting, Quiet, InLoop

LEMMA CommitRunInputKept == ASSUME IInv, CommitRunInput PROVE IInv'
<1> DEFINE next == [task EXCEPT !.pc = "step", !.committed = TRUE, !.saved = NoUndo]
<1>1. task.pc = "commitInput" /\ Commit("run_input", 0, next)
  BY DEF CommitRunInput, At
<1>2. /\ next \in Tasks /\ next.pc = "step" /\ next.prev = task.prev /\ next.req = task.req
      /\ next.committed /\ next.drained = task.drained
  BY DEF IInv, Types, Tasks, Kept, NoUndo, Quiet
<1>3. task.drained = 0 /\ task.prev = NoUndo
  BY <1>1 DEF IInv, TaskInv, Types, Tasks, Rewriting
<1> HIDE DEF next
<1> QED
  BY <1>1, <1>2, <1>3, CommitKept DEF Committing, Rewriting, Quiet, Uncommitted, Before

LEMMA CommitCommandKept == ASSUME IInv, CommitCommand PROVE IInv'
<1> DEFINE next == [Compacting("command") EXCEPT !.committed = TRUE, !.saved = NoUndo]
<1>1. task.pc = "command" /\ Commit("command_input", 0, next)
  BY DEF CommitCommand, At
<1>2. /\ next \in Tasks /\ next.pc = "compacting" /\ next.prev = NoUndo /\ next.req = task.req
      /\ next.committed /\ next.drained = task.drained /\ next.why = "command"
  BY DEF Compacting, IInv, Types, Tasks, Kept, NoUndo, Quiet
<1>3. task.drained = 0
  BY <1>1 DEF IInv, TaskInv, Types, Tasks
<1> HIDE DEF next
<1> QED
  BY <1>1, <1>2, <1>3, CommitKept DEF Committing, Rewriting, Quiet, Uncommitted, Before

LEMMA CommitDrainedKept == ASSUME IInv, CommitDrained PROVE IInv'
<1> DEFINE next == [task EXCEPT !.pc = "model", !.step = @ + 1, !.drained = 0]
<1>1. task.pc = "drained" /\ Commit("interjection", 0, next)
  BY DEF CommitDrained, At
<1>2. /\ next \in Tasks /\ next.pc = "model" /\ next.prev = task.prev /\ next.req = task.req
      /\ next.committed = task.committed /\ next.drained = 0
  <2>1. task \in Tasks /\ task.step + 1 \in Nat
    BY DEF IInv, Types, Tasks
  <2> DEFINE k == task.step + 1
  <2>2. next = [task EXCEPT !.pc = "model", !.step = k, !.drained = 0] /\ k \in Nat
    BY <2>1
  <2> HIDE DEF k, next
  <2> QED
    BY <2>1, <2>2 DEF Tasks, Quiet
<1>3. task.committed /\ task.prev = NoUndo
  BY <1>1 DEF IInv, TaskInv, InLoop, Rewriting
<1> HIDE DEF next
<1> QED
  BY <1>1, <1>2, <1>3, CommitKept DEF Committing, Rewriting, Quiet, Uncommitted, Before

\* The next step of a Run whose input is committed.
LEMMA NextStepIs ==
  ASSUME IInv, task.pc \in {"answer", "batch"}, NEW why \in {"continuation", "batch"}
  PROVE  LET next == NextStep(why)
         IN  /\ next \in Tasks /\ next.pc \in {"step", "compacting"} /\ next.prev = NoUndo
             /\ next.req = task.req /\ next.committed /\ next.drained = 0
             /\ next.pc = "compacting" => next.why = why
<1>1. task.committed /\ task.prev = NoUndo /\ task.drained = 0 /\ task \in Tasks
  BY DEF IInv, TaskInv, InLoop, Rewriting, Types, Tasks
<1> QED
  BY <1>1 DEF NextStep, Compacting, Tasks, Kept, NoUndo, Quiet

LEMMA LoopCommitKept ==
  ASSUME IInv, task.pc \in {"answer", "batch"}, NEW reason, NEW next, Commit(reason, 0, next),
         next \in {Ending, NextStep("continuation"), NextStep("batch")}
  PROVE  IInv'
<1>1. /\ next \in Tasks /\ next.pc \in {"step", "compacting", "ending"} /\ next.prev = NoUndo
      /\ next.req = task.req /\ next.drained = 0
      /\ next.pc # "ending" => next.committed
      /\ next.pc = "compacting" => next.why # "input"
  <2>1. CASE next = Ending
    BY <2>1, EndingIs
  <2>2. CASE next = NextStep("continuation")
    BY <2>2, NextStepIs
  <2>3. CASE next = NextStep("batch")
    BY <2>3, NextStepIs
  <2> QED
    BY <2>1, <2>2, <2>3
<1> QED
  BY <1>1, CommitKept DEF Committing, Rewriting, Quiet, Uncommitted, Before, InLoop

LEMMA CommitAnswerKept == ASSUME IInv, CommitAnswer PROVE IInv'
<1>1. task.pc = "answer"
  BY DEF CommitAnswer, At
<1>2. PICK goOn \in BOOLEAN :
        Commit("assistant_turn", 0, IF task.broken \/ ~goOn THEN Ending ELSE NextStep("continuation"))
  BY DEF CommitAnswer
<1> QED
  BY <1>1, <1>2, LoopCommitKept

LEMMA CommitBatchKept == ASSUME IInv, CommitBatch PROVE IInv'
<1>1. /\ task.pc = "batch"
      /\ Commit("tool_batch", 0, IF task.broken THEN Ending ELSE NextStep("batch"))
  BY DEF CommitBatch, At
<1> QED
  BY <1>1, LoopCommitKept

LEMMA CommitCompactKept == ASSUME IInv, CommitCompact PROVE IInv'
<1> DEFINE plain == [task EXCEPT !.prev = NoUndo, !.thru = 0, !.why = "none"]
           next == CASE task.why = "input" -> AtInput(plain)
                     [] task.why = "command" /\ task.what = "compact" -> Ending
                     [] OTHER -> [plain EXCEPT !.pc = "step", !.what = "text"]
<1>1. task.pc = "rewritten" /\ Commit("compact", task.thru, next)
  BY DEF CommitCompact, At
<1>2. /\ plain \in Tasks /\ plain.prev = NoUndo /\ plain.req = task.req /\ plain.what = task.what
      /\ plain.committed = task.committed /\ plain.drained = task.drained
  BY DEF IInv, Types, Tasks, Kept, NoUndo, Quiet
<1>3. task.drained = 0 /\ (task.why = "input" <=> ~task.committed)
  BY <1>1 DEF IInv, TaskInv, Types, Tasks
<1>4. /\ next \in Tasks /\ next.req = task.req /\ next.drained = 0 /\ next.prev = NoUndo
      /\ \/ next.pc = "input" /\ ~next.committed /\ next.saved = Undo(mem) /\ next.what = task.what
            /\ ~task.committed
         \/ next.pc = "ending"
         \/ next.pc = "step" /\ next.committed
  <2>1. CASE task.why = "input"
    <3>1. next = [plain EXCEPT !.pc = "input", !.saved = Undo(mem)]
      BY <2>1 DEF AtInput
    <3>2. Undo(mem) \in Kept
      BY DEF IInv, Types, Contexts, Undo, Kept
    <3> HIDE DEF plain, next
    <3> QED
      BY <1>2, <1>3, <2>1, <3>1, <3>2 DEF Tasks, Quiet, Before
  <2>2. CASE task.why = "command" /\ task.what = "compact"
    <3>1. next = Ending
      BY <2>2
    <3> HIDE DEF next
    <3> QED
      BY <3>1, EndingIs
  <2>3. CASE ~(task.why = "input") /\ ~(task.why = "command" /\ task.what = "compact")
    <3>1. next = [plain EXCEPT !.pc = "step", !.what = "text"]
      BY <2>3
    <3> HIDE DEF plain, next
    <3> QED
      BY <1>2, <1>3, <2>3, <3>1 DEF Tasks, Quiet
  <2> QED
    BY <2>1, <2>2, <2>3
<1> HIDE DEF next
<1> QED
  BY <1>1, <1>4, CommitKept DEF Committing, Rewriting, Quiet, Uncommitted, Before, InLoop

------------------------------------------------------------------------------
(* What a Run appends, and its compactions. *)

\* The Run appends to its context and goes where that is committed.
LEMMA GrowKept ==
  ASSUME IInv, UNCHANGED <<db, bind, answer>>, task.pc \in {"input", "step", "model"},
         mem' \in Contexts, mem'.open = mem.open, mem'.meta = mem.meta, Ahead(mem)', Carries(mem.hist)',
         \A r \in mem'.hist : r \in mem.hist \/ r.req = None \/ (task.pc = "input" /\ r.req = task.req),
         task' \in Tasks, task'.pc \in {"command", "commitInput", "drained", "answer", "batch"},
         task'.req = task.req, task'.what = task.what, task'.committed = task.committed,
         task'.saved = task.saved, task'.pc # "command" => task'.prev = task.prev,
         task.pc = "input" => IF task'.pc = "command" THEN task.what # "text" ELSE task'.pc = "commitInput",
         task.pc # "input" => task'.pc \in {"drained", "answer", "batch"},
         IF task'.pc = "drained" THEN task'.drained > 0 /\ mem'.next = mem.next + task'.drained
         ELSE task'.drained = task.drained
  PROVE  IInv'
<1>1. task.drained = 0 /\ task.prev = NoUndo /\ (task.committed <=> task.pc # "input")
  BY DEF IInv, TaskInv, Types, Tasks, Rewriting, InLoop, Uncommitted, Before
<1>2. Types' /\ Database' /\ Answers'
  BY DEF IInv, Types, Database, Answers, AnswerIsTrue, Waiting, Committed
<1>3. TaskInv'
  BY <1>1 DEF IInv, TaskInv, Uncommitted, Before, InLoop, Rewriting, Waiting
<1>4. bind.st \in {"ok", "new"} /\ (bind.st = "new" => task.pc = "input") /\ mem.open
  BY Bound DEF Before
<1>5. Live'
  <2>1. CASE bind.st = "ok"
    <3>1. /\ db.exists /\ mem.open /\ mem.meta = db.meta /\ bind = BindingOf(db) /\ mem.next = db.last + 1
      BY <2>1, QuietLevel DEF Quiet, Before
    <3>2. ~task.committed => Level(task.saved)
      BY <2>1 DEF IInv, Live
    <3>3. ~task'.committed => Level(task.saved)'
      BY <3>2 DEF Level
    <3> QED
      BY <3>1, <3>3 DEF Live, Quiet, Before, Rewriting, BindingOf
  <2>2. CASE bind.st = "new"
    BY <2>2 DEF Live
  <2> QED
    BY <1>4, <2>1, <2>2
<1>6. Unborn' /\ Bindings'
  <2>1. CASE bind.st = "ok"
    BY <1>4, <2>1 DEF Unborn, Bindings
  <2>2. CASE bind.st = "new"
    <3>1. /\ ~db.exists /\ bind.last = 0 /\ bind.rev = 0 /\ mem.meta \in Routes /\ task.what = "text"
      BY <1>4, <2>2 DEF IInv, Unborn, Before
    <3> QED
      BY <1>4, <2>2, <3>1 DEF Unborn, Bindings, Before
  <2> QED
    BY <1>4, <2>1, <2>2
<1>7. Pending'
  <2>1. \A r \in New(mem.hist) : r.req # None => r.req = task.req /\ Waiting(task.req)
    BY <1>4 DEF IInv, Pending
  <2>2. task.pc = "input" /\ task.req # None => Waiting(task.req)
    BY <1>1 DEF IInv, TaskInv
  <2>3. \A r \in New(mem.hist)' : r \in New(mem.hist) \/ r.req = None \/ (task.pc = "input" /\ r.req = task.req)
    BY DEF New
  <2>4. \A r \in New(mem.hist)' : r.req # None => r.req = task.req /\ Waiting(task.req)
    BY <2>1, <2>2, <2>3
  <2> QED
    BY <2>4 DEF Pending, Rewriting, Waiting
<1> QED
  BY <1>2, <1>3, <1>5, <1>6, <1>7 DEF IInv

\* A context that can be appended to.
LEMMA Open ==
  ASSUME IInv, task.pc \in {"input", "step", "model"}
  PROVE  /\ mem \in Contexts /\ Ahead(mem) /\ Carries(mem.hist) /\ db.last \in Nat /\ mem.meta \in Routes
         /\ bind.st \in {"ok", "new"} /\ mem.next > 0
         /\ bind.st = "new" => task.pc = "input" /\ task.what = "text"
<1>1. bind.st \in {"ok", "new"} /\ (bind.st = "new" => task.pc = "input") /\ mem \in Contexts /\ db.last \in Nat
  BY Bound DEF IInv, Types, Database, Before, Rows
<1>2. Ahead(mem) /\ Carries(mem.hist) /\ mem.meta \in Routes /\ (bind.st = "new" => task.what = "text")
  BY <1>1 DEF IInv, Live, Unborn, Database, Rewriting
<1>3. mem.next > 0
  BY <1>1, <1>2 DEF Ahead
<1> QED
  BY <1>1, <1>2, <1>3

LEMMA OneItem ==
  ASSUME NEW m \in Contexts, Ahead(m), Carries(m.hist), db.last \in Nat, NEW it \in Items, it.kind \notin Anchors
  PROVE  /\ Appended(m, <<it>>) \in Contexts /\ Appended(m, <<it>>).open = m.open
         /\ Appended(m, <<it>>).meta = m.meta
         /\ Ahead(Appended(m, <<it>>)) /\ Carries(Appended(m, <<it>>).hist)
         /\ \A r \in Appended(m, <<it>>).hist : r \in m.hist \/ r.req = it.req
<1> DEFINE items == <<it>>
<1>1. items \in Seq(Items) /\ Len(items) = 1 /\ items[1] = it
  OBVIOUS
<1>2. \A i \in 1..Len(items) : items[i] = it
  BY <1>1
<1> HIDE DEF items
<1>3. Grown(Appended(m, items), m, items)
  BY <1>1, <1>2, Extended
<1>4. /\ Appended(m, items) \in Contexts /\ Appended(m, items).open = m.open /\ Appended(m, items).meta = m.meta
      /\ Ahead(Appended(m, items)) /\ Carries(Appended(m, items).hist)
      /\ \A r \in Appended(m, items).hist : r \in m.hist \/ \E i \in 1..Len(items) : r.req = items[i].req
  BY <1>3 DEF Grown
<1>5. \A r \in Appended(m, items).hist : r \in m.hist \/ r.req = it.req
  BY <1>2, <1>4
<1> QED
  BY <1>4, <1>5 DEF items

LEMMA AppendInputKept == ASSUME IInv, NEW refresh \in BOOLEAN, AppendInput(refresh) PROVE IInv'
<1> DEFINE start == IF refresh THEN Appended(mem, <<Item("harness")>>) ELSE mem
           ctl == [Item("control") EXCEPT !.req = task.req]
           usr == [Item("user") EXCEPT !.req = task.req]
           full == CASE task.what \in {"compact", "follow"} -> Appended(start, <<ctl>>)
                     [] task.what = "resume" -> start
                     [] OTHER -> Appended(start, <<usr>>)
<1>1. task.pc = "input" /\ UNCHANGED <<db, bind, answer>>
  BY DEF AppendInput, At
<1>2. /\ mem \in Contexts /\ Ahead(mem) /\ Carries(mem.hist) /\ db.last \in Nat /\ bind.st \in {"ok", "new"}
      /\ bind.st = "new" => task.what = "text"
  BY <1>1, Open
<1>3. task.req \in ClientRequests \cup {None} /\ task \in Tasks
  BY DEF IInv, Types, Tasks
<1>4. /\ Item("harness") \in Items /\ Item("harness").kind = "harness" /\ Item("harness").req = None
      /\ ctl \in Items /\ ctl.kind = "control" /\ ctl.req = task.req
      /\ usr \in Items /\ usr.kind = "user" /\ usr.req = task.req
  BY <1>3 DEF Item, Items, Kinds
<1>5. "harness" \notin Anchors /\ "control" \notin Anchors /\ "user" \notin Anchors
  BY DEF Anchors
<1> HIDE DEF ctl, usr
<1>6. /\ start \in Contexts /\ start.open = mem.open /\ start.meta = mem.meta
      /\ Ahead(start) /\ Carries(start.hist)
      /\ \A r \in start.hist : r \in mem.hist \/ r.req = None
  <2>1. CASE refresh
    BY <1>2, <1>4, <1>5, <2>1, OneItem
  <2>2. CASE ~refresh
    BY <1>2, <2>2
  <2> QED
    BY <2>1, <2>2
<1> HIDE DEF start
<1>7. /\ full \in Contexts /\ full.open = mem.open /\ full.meta = mem.meta
      /\ Ahead(full) /\ Carries(full.hist)
      /\ \A r \in full.hist : r \in mem.hist \/ r.req = None \/ r.req = task.req
  <2>1. CASE task.what \in {"compact", "follow"}
    <3>1. full = Appended(start, <<ctl>>)
      BY <2>1
    <3> HIDE DEF full
    <3> QED
      BY <1>2, <1>4, <1>5, <1>6, <3>1, OneItem
  <2>2. CASE task.what = "resume"
    <3>1. full = start
      BY <2>2
    <3> HIDE DEF full
    <3> QED
      BY <1>6, <3>1
  <2>3. CASE task.what \notin {"compact", "follow", "resume"}
    <3>1. full = Appended(start, <<usr>>)
      BY <2>3
    <3> HIDE DEF full
    <3> QED
      BY <1>2, <1>4, <1>5, <1>6, <3>1, OneItem
  <2> QED
    BY <2>1, <2>2, <2>3
<1>8. CASE task.what \in {"compact", "follow"}
  <2>1. /\ mem' = full
        /\ task' = [task EXCEPT !.pc = "command", !.prev = Undo(start), !.thru = LastOf(Active(start.hist))]
    BY <1>1, <1>8 DEF AppendInput, start, ctl
  <2>2. LastOf(Active(start.hist)) \in Nat
    <3>1. Ahead(start) /\ start.next \in Nat
      BY <1>6 DEF Contexts
    <3>2. \A r \in start.hist : r \in Record /\ r.seq <= start.next
      <4>1. \A r \in start.hist : r.seq > db.last => r.seq \in Seqs(New(start.hist))
        BY DEF Seqs, New
      <4> QED
        BY <1>2, <3>1, <4>1 DEF Ahead, Record
    <3>3. Active(start.hist) \in SUBSET Record /\ \A r \in Active(start.hist) : r.seq <= start.next
      BY <3>2 DEF Active
    <3> DEFINE h == Active(start.hist)
               k == start.next
    <3>4. h \in SUBSET Record /\ k \in Nat /\ \A r \in h : r.seq <= k
      BY <3>1, <3>3
    <3> HIDE DEF h, k
    <3>5. LastOf(h) \in 0..k
      BY <3>4, Last
    <3>6. LastOf(h) \in Nat
      BY <3>4, <3>5
    <3> QED
      BY <3>6 DEF h
  <2>3. Undo(start) \in Kept
    BY <1>6 DEF Undo, Kept, Contexts
  <2> HIDE DEF full
  <2>4. /\ task' \in Tasks /\ task'.pc = "command" /\ task'.req = task.req /\ task'.what = task.what
        /\ task'.committed = task.committed /\ task'.saved = task.saved /\ task'.drained = task.drained
    BY <1>3, <2>1, <2>2, <2>3 DEF Tasks, Uncommitted
  <2>5. Ahead(mem)' /\ Carries(mem.hist)'
    BY <1>1, <1>7, <2>1 DEF Ahead, Carries, New, Old
  <2> QED
    BY <1>1, <1>7, <1>8, <2>1, <2>4, <2>5, GrowKept
<1>9. CASE task.what \notin {"compact", "follow"}
  <2>1. mem' = full /\ task' = [task EXCEPT !.pc = "commitInput"]
    BY <1>1, <1>9 DEF AppendInput, start, usr
  <2> HIDE DEF full
  <2>2. /\ task' \in Tasks /\ task'.pc = "commitInput" /\ task'.req = task.req /\ task'.what = task.what
        /\ task'.committed = task.committed /\ task'.saved = task.saved /\ task'.drained = task.drained
        /\ task'.prev = task.prev
    BY <1>3, <2>1 DEF Tasks, Uncommitted
  <2>3. Ahead(mem)' /\ Carries(mem.hist)'
    BY <1>1, <1>7, <2>1 DEF Ahead, Carries, New, Old
  <2> QED
    BY <1>1, <1>7, <2>1, <2>2, <2>3, GrowKept
<1> QED
  BY <1>8, <1>9

LEMMA DrainInboxKept == ASSUME IInv, NEW notes \in 0..MaxNotes, DrainInbox(notes) PROVE IInv'
<1>1. task.pc = "step" /\ UNCHANGED <<db, bind, answer>> /\ notes \in Nat
  BY HistoryAssumption DEF DrainInbox, At
<1>2. /\ mem \in Contexts /\ Ahead(mem) /\ Carries(mem.hist) /\ db.last \in Nat /\ bind.st = "ok"
      /\ mem.next = db.last + 1
  BY <1>1, Open, QuietLevel DEF Quiet
<1>3. task \in Tasks /\ task.committed /\ task.prev = NoUndo /\ task.drained = 0
  BY <1>1 DEF IInv, Types, Tasks, TaskInv, InLoop, Rewriting
<1>4. CASE mem' = mem /\ task' = Ending
  <2>1. /\ task' \in Tasks /\ task'.pc = "ending" /\ task'.req = task.req /\ task'.drained = 0
        /\ task'.prev = NoUndo
    BY <1>4, EndingIs
  <2>2. TaskInv'
    BY <2>1 DEF TaskInv, Uncommitted, Before, InLoop, Rewriting
  <2> QED
    BY <1>1, <1>2, <1>4, <2>1, <2>2, QuietStep DEF Quiet
<1>5. CASE mem' = mem /\ task' = [task EXCEPT !.pc = "model", !.step = @ + 1]
  <2>1. /\ task' \in Tasks /\ task'.pc = "model" /\ task'.req = task.req /\ task'.drained = 0
        /\ task'.prev = NoUndo /\ task'.committed
    <3> DEFINE k == task.step + 1
    <3>1. task' = [task EXCEPT !.pc = "model", !.step = k] /\ k \in Nat
      BY <1>3, <1>5 DEF Tasks
    <3> HIDE DEF k
    <3> QED
      BY <1>3, <3>1 DEF Tasks, Quiet
  <2>2. TaskInv'
    BY <2>1 DEF TaskInv, Uncommitted, Before, InLoop, Rewriting
  <2> QED
    BY <1>1, <1>2, <1>5, <2>1, <2>2, QuietStep DEF Quiet
<1>6. CASE /\ notes # 0 /\ mem' = Appended(mem, [i \in 1..notes |-> Item("note")])
           /\ task' = [task EXCEPT !.pc = "drained", !.drained = notes]
  <2> DEFINE items == [i \in 1..notes |-> Item("note")]
  <2>1. Item("note") \in Items /\ Item("note").kind = "note" /\ Item("note").req = None
    BY DEF Item, Items, Kinds
  <2>2. /\ items \in Seq(Items) /\ Len(items) = notes
        /\ \A i \in 1..Len(items) : items[i].kind = "note" /\ items[i].req = None
    BY <1>1, <2>1
  <2>3. mem' = Appended(mem, items) /\ "note" \notin Anchors
    BY <1>6 DEF Anchors
  <2> HIDE DEF items
  <2>4. Grown(Appended(mem, items), mem, items)
    BY <1>2, <2>2, <2>3, Extended
  <2>5. /\ mem' \in Contexts /\ mem'.next = mem.next + notes /\ mem'.open = mem.open /\ mem'.meta = mem.meta
        /\ Ahead(mem') /\ Carries(mem'.hist) /\ \A r \in mem'.hist : r \in mem.hist \/ r.req = None
    BY <2>2, <2>3, <2>4 DEF Grown
  <2>6. /\ task' \in Tasks /\ task'.pc = "drained" /\ task'.req = task.req /\ task'.what = task.what
        /\ task'.committed = task.committed /\ task'.saved = task.saved /\ task'.drained = notes
        /\ task'.prev = task.prev /\ notes > 0
    <3>1. notes > 0
      BY <1>1, <1>6
    <3>2. task' = [task EXCEPT !.pc = "drained", !.drained = notes]
      BY <1>6
    <3> QED
      BY <1>1, <1>3, <3>1, <3>2 DEF Tasks, InLoop
  <2>7. Ahead(mem)' /\ Carries(mem.hist)'
    BY <1>1, <2>5 DEF Ahead, Carries, New, Old
  <2> QED
    BY <1>1, <2>5, <2>6, <2>7, GrowKept
<1> QED
  BY <1>4, <1>5, <1>6, Zenon DEF DrainInbox

LEMMA ModelKept == ASSUME IInv, Model PROVE IInv'
<1>1. task.pc = "model"
  BY Zenon DEF Model, At
<1>2. ASSUME NEW kind \in {"answer", "batch"}, NEW full \in BOOLEAN, NEW broken \in BOOLEAN,
             mem' = Appended(mem, <<[Item(kind) EXCEPT !.route = mem.meta]>>),
             task' = [task EXCEPT !.pc = kind, !.full = full, !.broken = broken],
             UNCHANGED <<db, bind, answer>>
      PROVE  IInv'
  <2> DEFINE it == [Item(kind) EXCEPT !.route = mem.meta]
  <2>1. mem \in Contexts /\ Ahead(mem) /\ Carries(mem.hist) /\ db.last \in Nat /\ mem.meta \in Routes
    BY <1>1, Open
  <2>2. it \in Items /\ it.kind = kind /\ it.req = None /\ kind \notin Anchors
    BY <2>1 DEF Item, Items, Kinds, Anchors
  <2>3. mem' = Appended(mem, <<it>>)
    BY <1>2
  <2> HIDE DEF it
  <2>4. /\ mem' \in Contexts /\ mem'.open = mem.open /\ mem'.meta = mem.meta
        /\ Ahead(mem') /\ Carries(mem'.hist) /\ \A r \in mem'.hist : r \in mem.hist \/ r.req = None
    BY <2>1, <2>2, <2>3, OneItem
  <2>5. /\ task' \in Tasks /\ task'.pc = kind /\ task'.req = task.req /\ task'.what = task.what
        /\ task'.committed = task.committed /\ task'.saved = task.saved /\ task'.drained = task.drained
        /\ task'.prev = task.prev
    BY <1>2 DEF IInv, Types, Tasks, InLoop
  <2>6. Ahead(mem)' /\ Carries(mem.hist)'
    BY <1>2, <2>4 DEF Ahead, Carries, New, Old
  <2> QED
    BY <1>1, <1>2, <2>4, <2>5, <2>6, GrowKept
<1>3. CASE Abandon
  BY <1>1, <1>3, AbandonKept DEF Quiet
<1> QED
  BY <1>2, <1>3, Zenon DEF Model

\* All that is visible is covered by a summary of the durable epoch.
LEMMA Covered ==
  ASSUME Database, NEW h, h = Active(db.msgs)
  PROVE  /\ LastOf(h) \in Nat /\ LastOf(h) <= db.last
         /\ \A r \in db.msgs : r.seq > LastOf(h) => r.gone \/ r.kind = "control"
<1> DEFINE b == Boundary(db.msgs)
<1>1. db.msgs \in SUBSET Record /\ db.last \in Nat /\ Apart(db.msgs) /\ Epoch(db.msgs, b)
  BY DEF Database, Epoch, Rows
<1>2. \A r \in db.msgs : r.seq \in 1..db.last
  <2>1. \A r \in db.msgs : r.seq \in Seqs(db.msgs)
    BY DEF Seqs
  <2> QED
    BY <2>1 DEF Database
<1>3. h \in SUBSET Record /\ \A r \in h : r.seq <= db.last
  BY <1>1, <1>2 DEF Active
<1>4. LastOf(h) \in 0..db.last /\ \A r \in h : r.seq <= LastOf(h)
  BY <1>1, <1>3, Last
<1>5. Bounds(db.msgs, b)
  <2>1. \A r \in db.msgs : r.seq <= db.last
    BY <1>1, <1>2
  <2> QED
    BY <1>1, <2>1, BoundaryIs
<1> HIDE DEF b
<1>6. \A r \in db.msgs : ~r.gone /\ r.kind # "control" /\ r.seq > b => r.seq <= LastOf(h)
  BY <1>1, <1>4 DEF Epoch, Active
<1>7. b \in Nat /\ b <= LastOf(h)
  <2>1. CASE b = 0
    BY <1>4, <2>1
  <2>2. CASE b # 0
    <3>1. PICK a \in db.msgs : Visible(a) /\ a.thru = b
      BY <1>5, <2>2 DEF Bounds
    <3>2. a.seq > b /\ a.kind # "control" /\ ~a.gone /\ b \in Nat
      BY <1>1, <3>1 DEF Epoch, Visible, Anchors, Record
    <3> QED
      BY <1>2, <1>4, <1>6, <3>2
  <2> QED
    BY <2>1, <2>2
<1> QED
  BY <1>1, <1>2, <1>4, <1>6, <1>7

LEMMA CompactArrivesKept == ASSUME IInv, CompactArrives PROVE IInv'
<1> DEFINE thru == LastOf(Active(mem.hist))
           anchor == IF task.why \in {"batch", "continuation"} THEN "summary" ELSE "checkpoint"
           derived == task.what = "follow"
<1>1. /\ task.pc = "compacting" /\ UNCHANGED <<db, bind, answer>>
      /\ mem' = Rewritten(mem, anchor, thru, mem.meta, derived)
      /\ task' = [task EXCEPT !.pc = "rewritten", !.prev = Undo(mem), !.thru = thru]
  BY DEF CompactArrives, At
<1>2. bind.st = "ok"
  BY <1>1, Bound DEF Before
<1>3. /\ Level(Undo(mem)) /\ mem \in Contexts /\ db.last \in Nat /\ mem.meta \in Routes \cup {None}
  BY <1>1, <1>2, QuietLevel DEF Quiet, IInv, Types, Database, Contexts, Rows
<1>4. Active(mem.hist) = Active(db.msgs)
  BY <1>3 DEF Level, Undo
<1>5. /\ thru \in Nat /\ thru <= db.last
      /\ \A r \in db.msgs : r.seq > thru => r.gone \/ r.kind = "control"
  BY <1>4, Covered DEF IInv
<1>6. anchor \in Anchors
  BY DEF Anchors
<1> HIDE DEF thru, anchor, derived
<1>7. Replaced(mem', mem, thru)
  <2>1. Replaced(Rewritten(mem, anchor, thru, mem.meta, derived), mem, thru)
    BY <1>3, <1>5, <1>6, RewrittenIs
  <2> QED
    BY <1>1, <2>1
<1>8. /\ task' \in Tasks /\ task'.pc = "rewritten" /\ task'.prev = Undo(mem) /\ task'.thru = thru
      /\ task'.req = task.req /\ task'.what = task.what /\ task'.committed = task.committed
      /\ task'.saved = task.saved /\ task'.drained = task.drained /\ task'.why = task.why
  <2>1. Undo(mem) \in Kept
    BY <1>3 DEF Undo, Kept, Contexts
  <2> QED
    BY <1>1, <1>5, <2>1 DEF IInv, Types, Tasks, Rewriting
<1> QED
  BY <1>1, <1>2, <1>7, <1>8, RewriteBegun DEF Quiet, Rewriting

LEMMA StoppedKept == ASSUME IInv, RefuseInput \/ CompactFails PROVE IInv'
<1>1. Abandon /\ task.pc \in {"input", "compacting"}
  BY DEF RefuseInput, CompactFails, At
<1> QED
  BY <1>1, AbandonKept DEF Quiet, Before

------------------------------------------------------------------------------
(* Between Runs. *)

LEMMA IdleIs ==
  /\ Idle \in Tasks /\ Idle.pc = "idle" /\ Idle.drained = 0 /\ Idle.prev = NoUndo
  /\ NoContext \in Contexts /\ ~NoContext.open /\ NoBinding.st = "none"
  /\ NoBinding \in BindingRecords
BY DEF Idle, Tasks, Kept, NoUndo, Quiet, NoContext, NoBinding, Contexts, BindingRecords

\* A Session at rest without a context.
LEMMA Released ==
  ASSUME Database', mem' = NoContext, bind' = NoBinding, task' \in Tasks, task'.pc = "idle",
         answer' \in AnswerTables,
         TaskInv', Answers'
  PROVE  IInv'
<1>1. Types'
  BY IdleIs DEF Types
<1>2. Live' /\ Unborn' /\ Bindings' /\ Pending'
  BY IdleIs DEF Live, Unborn, Bindings, Pending
<1> QED
  BY <1>1, <1>2 DEF IInv

\* Who waits for a Run that ends is told so.
LEMMA Dismissed ==
  ASSUME IInv, UNCHANGED db, NEW outcome \in {"failed", "lost"}, task' = Idle,
         answer' = [q \in ClientRequests |-> IF Waiting(q) THEN outcome ELSE answer[q]]
  PROVE  /\ answer' \in AnswerTables
         /\ Answers' /\ TaskInv' /\ Database'
<1>1. /\ answer' \in AnswerTables
      /\ \A q \in ClientRequests : answer'[q] = IF Waiting(q) THEN outcome ELSE answer[q]
  BY DEF IInv, Types, AnswerTables
<1>2. Answers'
  BY <1>1 DEF IInv, Answers, AnswerIsTrue, Waiting, Committed
<1>3. TaskInv' /\ Database'
  BY IdleIs DEF IInv, TaskInv, Database, Uncommitted, Before, InLoop, Rewriting
<1> QED
  BY <1>1, <1>2, <1>3

LEMMA SettleKept == ASSUME IInv, SettleRun PROVE IInv'
<1>1. /\ task.pc = "ending" /\ task' = Idle /\ UNCHANGED db
      /\ answer' = [q \in ClientRequests |-> IF Waiting(q) THEN "failed" ELSE answer[q]]
  BY DEF SettleRun, At
<1>2. /\ answer' \in AnswerTables
      /\ Answers' /\ TaskInv' /\ Database'
  BY <1>1, Dismissed
<1>3. CASE bind.st \in {"new", "invalid"}
  BY <1>1, <1>2, <1>3, IdleIs, Released DEF SettleRun
<1>4. CASE bind.st \notin {"new", "invalid"}
  <2>1. bind.st = "ok" /\ UNCHANGED <<mem, bind>>
    BY <1>1, <1>4 DEF SettleRun, IInv, Types, Bindings, BindingRecords
  <2>2. /\ Level(Undo(mem)) /\ db.exists /\ mem.open /\ mem.meta = db.meta /\ bind = BindingOf(db)
    BY <1>1, <2>1, QuietLevel DEF Quiet
  <2>3. Types' /\ Level(Undo(mem))'
    BY <1>1, <1>2, <2>1, <2>2, IdleIs DEF IInv, Types, Level, Undo
  <2> QED
    BY <1>1, <1>2, <2>1, <2>2, <2>3, IdleIs, LiveAgain DEF Quiet
<1> QED
  BY <1>3, <1>4

LEMMA CrashKept == ASSUME IInv, Crash PROVE IInv'
<1>1. /\ mem' = NoContext /\ bind' = NoBinding /\ task' = Idle /\ UNCHANGED db
      /\ answer' = [q \in ClientRequests |-> IF Waiting(q) THEN "lost" ELSE answer[q]]
  BY DEF Crash
<1> QED
  BY <1>1, Dismissed, IdleIs, Released

LEMMA EvictKept == ASSUME IInv, Evict PROVE IInv'
<1>1. mem' = NoContext /\ bind' = NoBinding /\ task.pc = "idle" /\ UNCHANGED <<db, task, answer>>
  BY DEF Evict
<1>2. /\ Database' /\ TaskInv' /\ Answers' /\ task' \in Tasks
      /\ answer' \in AnswerTables
  BY <1>1 DEF IInv, Types, Database, TaskInv, Answers, AnswerIsTrue, Waiting, Committed
<1> QED
  BY <1>1, <1>2, Released

\* A message goes back to where it was: what is past it is gone, and what is visible is the
\* epoch of the newest boundary that is left.
LEMMA RewindKept == ASSUME IInv, NEW r \in db.msgs, NEW through, Rewind(r, through) PROVE IInv'
<1> DEFINE mark(x) == [x EXCEPT !.gone = @ \/ x.seq > through]
           marked == {mark(x) : x \in db.msgs}
           b == Boundary(marked)
           keep(x) == [x EXCEPT !.active = /\ ~x.gone /\ x.kind # "control" /\ x.seq > b]
           kept == {keep(x) : x \in marked}
<1>1. /\ db' = [db EXCEPT !.msgs = kept, !.rev = @ + 1] /\ mem' = NoContext /\ bind' = NoBinding
      /\ task.pc = "idle" /\ db.exists /\ UNCHANGED <<task, answer>>
  BY DEF Rewind, Editable
<1>2. /\ db.last \in Nat /\ db.rev \in Nat /\ db.msgs \subseteq Record /\ Apart(db.msgs)
      /\ Seqs(db.msgs) = 1..db.last /\ db.meta \in Routes
      /\ \A x \in db.msgs : x.kind \in Anchors => x.thru < x.seq
  BY <1>1 DEF IInv, Database, Epoch, Rows
<1>3. \A x \in db.msgs : /\ mark(x) \in Record /\ mark(x).seq = x.seq /\ mark(x).kind = x.kind
                         /\ mark(x).thru = x.thru /\ mark(x).req = x.req
  <2> SUFFICES ASSUME NEW x \in db.msgs
               PROVE  /\ mark(x) \in Record /\ mark(x).seq = x.seq /\ mark(x).kind = x.kind
                      /\ mark(x).thru = x.thru /\ mark(x).req = x.req
    BY Zenon
  <2> DEFINE g == x.gone \/ x.seq > through
  <2>1. g \in BOOLEAN /\ mark(x) = [x EXCEPT !.gone = g] /\ x \in Record
    BY <1>2
  <2> HIDE DEF g, mark
  <2> QED
    BY <2>1 DEF Record
<1> HIDE DEF mark
<1>4. marked \subseteq Record /\ \A x \in db.msgs : x.seq \in 1..db.last
  <2>1. \A x \in db.msgs : x.seq \in Seqs(db.msgs)
    BY DEF Seqs
  <2> QED
    BY <1>2, <1>3, <2>1
<1>5. \A y \in marked : \E x \in db.msgs : y = mark(x)
  OBVIOUS
<1>6. \A x \in db.msgs : mark(x) \in marked
  OBVIOUS
<1> HIDE DEF marked
<1>7. /\ Apart(marked) /\ (\A y \in marked : y.seq <= db.last)
      /\ \A y \in marked : y.kind \in Anchors => y.thru < y.seq
  BY <1>2, <1>3, <1>4, <1>5 DEF Apart
<1>8. Bounds(marked, b)
  BY <1>2, <1>4, <1>7, BoundaryIs
<1> HIDE DEF b
<1>9. \A y \in marked : /\ keep(y) \in Record /\ keep(y).seq = y.seq /\ keep(y).kind = y.kind
                        /\ keep(y).thru = y.thru /\ keep(y).req = y.req /\ keep(y).gone = y.gone
                        /\ keep(y).active <=> ~y.gone /\ y.kind # "control" /\ y.seq > b
  <2> SUFFICES ASSUME NEW y \in marked
               PROVE  /\ keep(y) \in Record /\ keep(y).seq = y.seq /\ keep(y).kind = y.kind
                      /\ keep(y).thru = y.thru /\ keep(y).req = y.req /\ keep(y).gone = y.gone
                      /\ keep(y).active <=> ~y.gone /\ y.kind # "control" /\ y.seq > b
    BY Zenon
  <2> DEFINE a == ~y.gone /\ y.kind # "control" /\ y.seq > b
  <2>1. a \in BOOLEAN /\ keep(y) = [y EXCEPT !.active = a] /\ y \in Record
    BY <1>4
  <2> HIDE DEF a, keep
  <2>2. /\ keep(y) \in Record /\ keep(y).seq = y.seq /\ keep(y).kind = y.kind
        /\ keep(y).thru = y.thru /\ keep(y).req = y.req /\ keep(y).gone = y.gone
        /\ keep(y).active = a
    BY <2>1 DEF Record
  <2> QED
    BY <2>2 DEF a
<1> HIDE DEF keep
<1>10. (\A z \in kept : \E y \in marked : z = keep(y)) /\ \A y \in marked : keep(y) \in kept
  OBVIOUS
<1> HIDE DEF kept
<1>11. kept \subseteq Record /\ Apart(kept) /\ \A z \in kept : z.seq <= db.last
  BY <1>7, <1>9, <1>10 DEF Apart
<1>12. Seqs(kept) = 1..db.last
  <2>1. \A i \in Seqs(kept) : i \in Seqs(db.msgs)
    BY <1>3, <1>5, <1>9, <1>10 DEF Seqs
  <2>2. \A i \in Seqs(db.msgs) : i \in Seqs(kept)
    <3> SUFFICES ASSUME NEW x \in db.msgs PROVE x.seq \in Seqs(kept)
      BY DEF Seqs
    <3>1. mark(x) \in marked /\ mark(x).seq = x.seq
      BY <1>3, <1>6
    <3>2. keep(mark(x)) \in kept /\ keep(mark(x)).seq = x.seq
      BY <1>9, <1>10, <3>1
    <3> QED
      BY <3>2 DEF Seqs
  <2> QED
    BY <1>2, <2>1, <2>2
<1>13. Bounds(kept, b)
  <2>1. CASE b = 0 /\ \A y \in marked : ~Visible(y)
    BY <1>9, <1>10, <2>1 DEF Bounds, Visible
  <2>2. ASSUME NEW a \in marked, Visible(a), a.thru = b, \A y \in marked : Visible(y) => y.seq <= a.seq
        PROVE  Bounds(kept, b)
    <3>1. keep(a) \in kept /\ Visible(keep(a)) /\ keep(a).thru = b /\ keep(a).seq = a.seq
      BY <1>9, <1>10, <2>2 DEF Visible
    <3>2. \A z \in kept : Visible(z) => z.seq <= keep(a).seq
      BY <1>9, <1>10, <2>2, <3>1 DEF Visible
    <3> QED
      BY <3>1, <3>2 DEF Bounds
  <2> QED
    BY <1>8, <2>1, <2>2 DEF Bounds
<1>14. Boundary(kept) = b
  BY <1>2, <1>11, <1>13, BoundaryBy
<1>15. Epoch(kept, b)
  <2>1. \A z \in kept : z.active <=> ~z.gone /\ z.kind # "control" /\ z.seq > b
    BY <1>9, <1>10
  <2>2. \A z \in kept : z.kind \in Anchors => z.thru < z.seq
    BY <1>7, <1>9, <1>10
  <2> QED
    BY <1>11, <2>1, <2>2 DEF Epoch
<1>16. /\ db' \in Rows
       /\ db'.msgs = kept /\ db'.last = db.last /\ db'.meta = db.meta /\ db'.exists = db.exists
  <2> DEFINE k == db.rev + 1
  <2>1. db' = [db EXCEPT !.msgs = kept, !.rev = k] /\ k \in Nat
    BY <1>1, <1>2
  <2>2. db \in Rows
    BY DEF IInv, Database
  <2> HIDE DEF k
  <2> QED
    BY <1>11, <2>1, <2>2 DEF Rows
<1>17. Database'
  BY <1>1, <1>2, <1>12, <1>14, <1>15, <1>16 DEF Database
<1>18. \A q \in ClientRequests : Committed(q)' <=> Committed(q)
  <2> SUFFICES ASSUME NEW q \in ClientRequests PROVE Committed(q)' <=> Committed(q)
    OBVIOUS
  <2>1. ASSUME NEW x \in db.msgs, x.req = q PROVE \E z \in kept : z.req = q
    <3>1. mark(x) \in marked /\ mark(x).req = q
      BY <1>3, <1>6, <2>1
    <3> QED
      BY <1>9, <1>10, <3>1
  <2>2. ASSUME NEW z \in kept, z.req = q PROVE \E x \in db.msgs : x.req = q
    BY <1>3, <1>5, <1>9, <1>10, <2>2
  <2> QED
    BY <1>16, <2>1, <2>2 DEF Committed
<1>19. /\ TaskInv' /\ Answers' /\ task' \in Tasks
       /\ answer' \in AnswerTables
  BY <1>1, <1>18 DEF IInv, Types, TaskInv, Answers, AnswerIsTrue, Waiting
<1> QED
  BY <1>1, <1>17, <1>19, Released

LEMMA UpdateKept == ASSUME IInv, NEW route \in Routes, UpdateSession(route) PROVE IInv'
<1>1. /\ task.pc = "idle" /\ db.exists /\ UNCHANGED <<task, answer>>
      /\ db' = [db EXCEPT !.rev = @ + 1, !.meta = route]
      /\ mem' = IF mem.open THEN [mem EXCEPT !.meta = route] ELSE mem
      /\ bind' = IF mem.open THEN BindingOf(db') ELSE bind
  BY DEF UpdateSession, Editable
<1>2. db \in Rows
  BY DEF IInv, Database
<1>3. /\ db' \in Rows
      /\ db'.msgs = db.msgs /\ db'.last = db.last /\ db'.meta = route /\ db'.exists
  <2> DEFINE k == db.rev + 1
  <2>1. db' = [db EXCEPT !.rev = k, !.meta = route] /\ k \in Nat
    BY <1>1, <1>2 DEF Rows
  <2> HIDE DEF k
  <2> QED
    BY <1>1, <1>2, <2>1 DEF Rows
<1>4. Database' /\ TaskInv' /\ Answers'
  BY <1>1, <1>3 DEF IInv, Database, TaskInv, Answers, AnswerIsTrue, Waiting, Committed
<1>5. CASE mem.open
  <2>1. bind.st = "ok"
    BY <1>1, <1>5 DEF IInv, Bindings, Types, Unborn, Before, BindingRecords
  <2>2. Level(Undo(mem)) /\ mem \in Contexts
    BY <1>1, <2>1, QuietLevel DEF Quiet, IInv, Types
  <2>3. /\ mem' \in Contexts /\ mem'.open /\ mem'.meta = route /\ mem'.hist = mem.hist /\ mem'.next = mem.next
    BY <1>1, <1>5, <2>2 DEF Contexts
  <2>4. /\ bind' = BindingOf(db') /\ bind'.st = "ok"
        /\ bind' \in BindingRecords
    BY <1>1, <1>3, <1>5 DEF BindingOf, BindingRecords, Rows
  <2>5. Types' /\ Level(Undo(mem))'
    BY <1>1, <1>3, <2>2, <2>3, <2>4 DEF IInv, Types, Level, Undo
  <2> QED
    BY <1>1, <1>3, <1>4, <2>3, <2>4, <2>5, LiveAgain DEF Quiet
<1>6. CASE ~mem.open
  <2>1. bind.st = "none" /\ UNCHANGED <<mem, bind>>
    BY <1>1, <1>6 DEF IInv, Bindings
  <2>2. Types' /\ Live' /\ Unborn' /\ Bindings' /\ Pending'
    BY <1>1, <1>6, <2>1 DEF IInv, Types, Live, Unborn, Bindings, Pending
  <2> QED
    BY <1>4, <2>2 DEF IInv
<1> QED
  BY <1>5, <1>6

------------------------------------------------------------------------------
(* Starts. *)

LEMMA StartedIs ==
  ASSUME NEW q \in ClientRequests \cup {None}, NEW what \in {"text", "compact", "follow", "resume"},
         NEW m \in Contexts
  PROVE  LET t == Started(q, what, m)
         IN  /\ t \in Tasks /\ t.pc = "routes" /\ t.req = q /\ t.what = what /\ ~t.committed
             /\ t.saved = Undo(m) /\ t.prev = NoUndo /\ t.drained = 0
<1>1. Undo(m) \in Kept /\ NoUndo \in Kept
  BY DEF Undo, NoUndo, Kept, Contexts
<1> QED
  BY <1>1 DEF Started, Idle, Tasks, Quiet, Before

\* A Run starts in a Session that is durable.
LEMMA StartDurable ==
  ASSUME IInv, task.pc = "idle", db.exists, UNCHANGED db,
         NEW q \in ClientRequests \cup {None}, NEW what \in {"text", "compact", "follow", "resume"},
         mem' = IF mem.open THEN mem ELSE RestoredFrom(db),
         bind' = IF mem.open THEN bind ELSE BindingOf(db),
         task' = Started(q, what, mem'),
         answer' \in AnswerTables, AnswerIsTrue',
         IF what = "resume" THEN q = None ELSE q \in ClientRequests /\ answer'[q] = "waiting",
         \A p \in ClientRequests : answer'[p] = "waiting" => ~Committed(p) /\ p = q
  PROVE  IInv'
<1>1. /\ mem' \in Contexts /\ mem'.open /\ mem'.meta = db.meta /\ Level(Undo(mem'))
      /\ bind' = BindingOf(db) /\ bind'.st = "ok"
  <2>1. CASE mem.open
    <3>1. bind.st = "ok"
      BY <2>1 DEF IInv, Bindings, Types, Unborn, Before, BindingRecords
    <3>2. Level(Undo(mem)) /\ mem.meta = db.meta /\ bind = BindingOf(db)
      BY <3>1, QuietLevel DEF Quiet
    <3> QED
      BY <2>1, <3>1, <3>2 DEF IInv, Types
  <2>2. CASE ~mem.open
    BY <2>2, RestoredIs DEF IInv, BindingOf
  <2> QED
    BY <2>1, <2>2
<1>2. /\ task' \in Tasks /\ task'.pc = "routes" /\ task'.req = q /\ task'.what = what /\ ~task'.committed
      /\ task'.saved = Undo(mem') /\ task'.prev = NoUndo /\ task'.drained = 0
  BY <1>1, StartedIs
<1>3. bind' \in BindingRecords
  BY <1>1 DEF BindingOf, IInv, Database, BindingRecords, Rows
<1>4. Types' /\ Database' /\ Answers'
  BY <1>1, <1>2, <1>3 DEF IInv, Types, Database, Answers, Waiting, Committed
<1>5. TaskInv'
  BY <1>2 DEF TaskInv, Uncommitted, Before, InLoop, Rewriting, Waiting
<1>6. Level(Undo(mem))' /\ Level(task.saved)' /\ bind' = BindingOf(db')
  BY <1>1, <1>2 DEF Level, Undo
<1> QED
  BY <1>1, <1>2, <1>4, <1>5, <1>6, LiveAgain DEF Quiet, Before

\* A Run starts in a Session that does not exist yet.
LEMMA StartNew ==
  ASSUME IInv, task.pc = "idle", ~mem.open, ~db.exists, UNCHANGED db, NEW q \in ClientRequests, NEW route \in Routes,
         mem' = Appended([NoContext EXCEPT !.open = TRUE, !.meta = route], <<Item("harness")>>),
         bind' = [NoBinding EXCEPT !.st = "new", !.meta = route], task' = Started(q, "text", mem'),
         answer' \in AnswerTables, AnswerIsTrue',
         answer'[q] = "waiting",
         \A p \in ClientRequests : answer'[p] = "waiting" => ~Committed(p) /\ p = q
  PROVE  IInv'
<1> DEFINE base == [NoContext EXCEPT !.open = TRUE, !.meta = route]
           items == <<Item("harness")>>
<1>1. base \in Contexts /\ base.open /\ base.meta = route /\ base.hist = {} /\ base.next = 1
  BY DEF NoContext, Contexts
<1>2. db.last = 0 /\ db.msgs = {}
  <2>1. db.last = 0 /\ Seqs(db.msgs) = 1..0
    BY DEF IInv, Database
  <2> QED
    BY <2>1 DEF Seqs
<1> HIDE DEF base
<1>3. Ahead(base) /\ Carries(base.hist)
  BY <1>1, <1>2 DEF Ahead, Carries, Apart, Seqs, New, Old, Active
<1>4. /\ items \in Seq(Items) /\ Len(items) = 1
      /\ \A i \in 1..Len(items) : items[i].kind = "harness" /\ items[i].req = None /\ items[i].route = None
  BY DEF Item, Items, Kinds
<1>5. mem' = Appended(base, items) /\ "harness" \notin Anchors
  BY DEF base, Anchors
<1> HIDE DEF items
<1>6. Grown(Appended(base, items), base, items)
  <2>1. db.last \in Nat /\ \A i \in 1..Len(items) : items[i].kind \notin Anchors
    BY <1>2, <1>4, <1>5
  <2> QED
    BY <1>1, <1>3, <1>4, <2>1, Extended
<1>7. /\ mem' \in Contexts /\ mem'.open /\ mem'.meta = route /\ Ahead(mem') /\ Carries(mem'.hist)
      /\ \A r \in mem'.hist : r.kind = "harness" /\ r.req = None /\ r.route = None
  BY <1>1, <1>4, <1>5, <1>6 DEF Grown
<1>8. /\ task' \in Tasks /\ task'.pc = "routes" /\ task'.req = q /\ task'.what = "text" /\ ~task'.committed
      /\ task'.saved = Undo(mem') /\ task'.prev = NoUndo /\ task'.drained = 0
  BY <1>7, StartedIs
<1>9. /\ bind' \in BindingRecords
      /\ bind'.st = "new" /\ bind'.last = 0 /\ bind'.rev = 0
  BY DEF NoBinding, BindingRecords
<1>10. Types' /\ Database' /\ Answers'
  BY <1>7, <1>8, <1>9 DEF IInv, Types, Database, Answers, Waiting, Committed
<1>11. TaskInv'
  BY <1>8 DEF TaskInv, Uncommitted, Before, InLoop, Rewriting, Waiting
<1>12. Ahead(mem)' /\ Carries(mem.hist)'
  BY <1>7 DEF Ahead, Carries, New, Old
<1>13. Live' /\ Unborn' /\ Bindings'
  BY <1>7, <1>8, <1>9, <1>12 DEF Live, Unborn, Bindings, Before
<1>14. Pending'
  BY <1>7 DEF Pending, New
<1> QED
  BY <1>10, <1>11, <1>13, <1>14 DEF IInv

LEMMA StartRunKept ==
  ASSUME IInv, NEW q \in ClientRequests, NEW what \in {"text", "compact", "follow"}, NEW route \in Routes,
         StartRun(q, what, route)
  PROVE  IInv'
<1>1. ~Waiting(q) /\ UNCHANGED db
  BY DEF StartRun
<1>2. answer \in AnswerTables
  BY DEF IInv, Types
<1>3. CASE /\ answer' = [answer EXCEPT ![q] = IF Journaled(q) THEN "started" ELSE "failed"]
           /\ UNCHANGED <<mem, bind, task>>
  <2>1. /\ answer' \in AnswerTables
        /\ \A p \in ClientRequests : /\ answer'[p] = "waiting" <=> answer[p] = "waiting"
                                     /\ p # q => answer'[p] = answer[p]
        /\ answer'[q] = IF Committed(q) THEN "started" ELSE "failed"
    BY <1>1, <1>2, <1>3 DEF Journaled, Waiting, AnswerTables
  <2>2. Answers'
    BY <1>1, <1>3, <2>1 DEF IInv, Answers, AnswerIsTrue, Waiting, Committed
  <2>3. TaskInv'
    BY <1>3, <2>1 DEF IInv, TaskInv, Waiting
  <2>4. Types' /\ Database' /\ Bindings'
    BY <1>1, <1>3, <2>1 DEF IInv, Types, Database, Bindings
  <2>5. Live'
    BY <1>1, <1>3 DEF IInv, Live, Level, Ahead, Follows, Carries, New, Old
  <2>6. Unborn'
    BY <1>1, <1>3 DEF IInv, Unborn, Ahead, Carries, New, Old
  <2>7. Pending'
    <3>1. \A r \in New(mem.hist) : r.req \in ClientRequests \cup {None}
      BY DEF IInv, Types, Contexts, New, Record
    <3> QED
      BY <1>1, <1>3, <2>1, <3>1 DEF IInv, Pending, New, Waiting
  <2> QED
    BY <2>2, <2>3, <2>4, <2>5, <2>6, <2>7 DEF IInv
<1>4. CASE /\ ~Journaled(q) /\ task.pc = "idle" /\ (db.exists \/ what = "text")
           /\ answer' = [answer EXCEPT ![q] = "waiting"]
           /\ mem' = CASE mem.open -> mem
                       [] ~mem.open /\ db.exists -> RestoredFrom(db)
                       [] OTHER -> Appended([NoContext EXCEPT !.open = TRUE, !.meta = route],
                                            <<Item("harness")>>)
           /\ bind' = CASE mem.open -> bind
                        [] ~mem.open /\ db.exists -> BindingOf(db)
                        [] OTHER -> [NoBinding EXCEPT !.st = "new", !.meta = route]
           /\ task' = Started(q, what, mem')
  <2>1. /\ answer' \in AnswerTables
        /\ answer'[q] = "waiting" /\ \A p \in ClientRequests : p # q => answer'[p] = answer[p]
    BY <1>2, <1>4 DEF AnswerTables
  <2>2. AnswerIsTrue'
    BY <1>1, <2>1 DEF IInv, Answers, AnswerIsTrue, Committed
  <2>3. \A p \in ClientRequests : answer'[p] = "waiting" => ~Committed(p) /\ p = q
    BY <1>4, <2>1 DEF IInv, Answers, Waiting, Journaled
  <2>4. CASE db.exists
    <3>1. mem' = IF mem.open THEN mem ELSE RestoredFrom(db)
      BY <1>4, <2>4
    <3>2. bind' = IF mem.open THEN bind ELSE BindingOf(db)
      BY <1>4, <2>4
    <3> QED
      BY <1>1, <1>4, <2>1, <2>2, <2>3, <2>4, <3>1, <3>2, StartDurable DEF AnswerTables
  <2>5. CASE ~db.exists
    <3>1. ~mem.open
      BY <1>4, <2>5 DEF IInv, Bindings, Types, Live, Unborn, Before, BindingRecords
    <3>2. /\ mem' = Appended([NoContext EXCEPT !.open = TRUE, !.meta = route], <<Item("harness")>>)
          /\ bind' = [NoBinding EXCEPT !.st = "new", !.meta = route]
          /\ task' = Started(q, "text", mem')
      BY <1>4, <2>5, <3>1
    <3>3. task.pc = "idle" /\ db' = db
      BY <1>1, <1>4
    <3>4. /\ answer' \in AnswerTables
          /\ answer'[q] = "waiting"
      BY <2>1
    <3> QED
      BY <2>2, <2>3, <2>5, <3>1, <3>2, <3>3, <3>4, StartNew, ZenonT(60)
  <2> QED
    BY <2>4, <2>5
<1> QED
  BY <1>3, <1>4, Zenon DEF StartRun

LEMMA ContinueRunKept == ASSUME IInv, ContinueRun PROVE IInv'
<1>1. /\ task.pc = "idle" /\ db.exists /\ UNCHANGED <<db, answer>>
      /\ mem' = IF mem.open THEN mem ELSE RestoredFrom(db)
      /\ bind' = IF mem.open THEN bind ELSE BindingOf(db)
      /\ task' = Started(None, "resume", mem')
  BY DEF ContinueRun
<1>2. /\ answer' \in AnswerTables /\ AnswerIsTrue'
      /\ \A p \in ClientRequests : answer'[p] # "waiting"
  BY <1>1 DEF IInv, Types, Answers, AnswerIsTrue, Waiting, Committed
<1> QED
  BY <1>1, <1>2, StartDurable

------------------------------------------------------------------------------
(* Every step, and what follows. *)

LEMMA HistoryNextInv == ASSUME ~Outgrown, IInv, [HistoryNext]_historyVars PROVE IInv'
<1>1. CASE RunActs
  <2>1. CASE ResolveRoutes
    BY <2>1, ResolveKept
  <2>2. CASE PrepareHistory
    BY <2>2, PrepareKept
  <2>3. CASE CommitTransition
    BY <2>3, CommitTransitionKept
  <2>4. CASE Measure
    BY <2>4, MeasureKept
  <2>5. ASSUME NEW refresh \in BOOLEAN, AppendInput(refresh) PROVE IInv'
    BY <2>5, AppendInputKept
  <2>6. CASE RefuseInput \/ CompactFails
    BY <2>6, StoppedKept
  <2>7. CASE CommitRunInput
    BY <2>7, CommitRunInputKept
  <2>8. CASE CommitCommand
    BY <2>8, CommitCommandKept
  <2>9. ASSUME NEW n \in 0..MaxNotes, DrainInbox(n) PROVE IInv'
    BY <2>9, DrainInboxKept
  <2>10. CASE CommitDrained
    BY <2>10, CommitDrainedKept
  <2>11. CASE Model
    BY <2>11, ModelKept, Zenon
  <2>12. CASE CommitAnswer
    BY <2>12, CommitAnswerKept
  <2>13. CASE CommitBatch
    BY <2>13, CommitBatchKept
  <2>14. CASE CompactArrives
    BY <2>14, CompactArrivesKept
  <2>15. CASE CommitCompact
    BY <2>15, CommitCompactKept
  <2>16. CASE SettleRun
    BY <2>16, SettleKept
  <2> QED
    BY <1>1, <2>1, <2>2, <2>3, <2>4, <2>5, <2>6, <2>7, <2>8, <2>9, <2>10, <2>11, <2>12, <2>13, <2>14,
       <2>15, <2>16, Zenon DEF RunActs
<1>2. ASSUME NEW q \in ClientRequests, NEW what \in {"text", "compact", "follow"}, NEW route \in Routes,
             StartRun(q, what, route)
      PROVE  IInv'
  BY <1>2, StartRunKept
<1>3. CASE ContinueRun
  BY <1>3, ContinueRunKept
<1>4. CASE Evict
  BY <1>4, EvictKept
<1>5. CASE Crash
  BY <1>5, CrashKept
<1>6. ASSUME NEW route \in Routes, UpdateSession(route) PROVE IInv'
  BY <1>6, UpdateKept
<1>7. ASSUME NEW r \in db.msgs, NEW through, Rewind(r, through) PROVE IInv'
  BY <1>7, RewindKept
<1>8. CASE UNCHANGED historyVars
  <2>1. UNCHANGED <<db, mem, bind, task, answer>>
    BY <1>8 DEF historyVars
  <2>2. Types' /\ Database' /\ Bindings' /\ TaskInv' /\ Answers'
    BY <2>1 DEF IInv, Types, Database, Bindings, TaskInv, Answers, AnswerIsTrue, Waiting, Committed
  <2>3. Live' /\ Unborn' /\ Pending'
    BY <2>1 DEF IInv, Live, Unborn, Pending, Level, Ahead, Follows, Carries, New, Old, Waiting
  <2> QED
    BY <2>2, <2>3 DEF IInv
<1> QED
  BY <1>1, <1>2, <1>3, <1>4, <1>5, <1>6, <1>7, <1>8, Zenon DEF HistoryNext

LEMMA HistoryInvariant == ASSUME ~Outgrown PROVE HistorySpec => []IInv
<1>1. HistoryInit => IInv
  BY InitInv
<1>2. IInv /\ [HistoryNext]_historyVars => IInv'
  BY HistoryNextInv
<1> QED
  BY <1>1, <1>2, PTL DEF HistorySpec

\* The database always holds one whole epoch: what is active is what is visible past the newest
\* boundary, and no position is missing, whichever of commits, rewinds and crashes came before
\* (commitMutation and rewind of SessionService).
THEOREM EpochsAreWhole == ASSUME ~Outgrown PROVE HistorySpec => []EpochIsWhole
<1>1. IInv => EpochIsWhole
  <2> SUFFICES ASSUME IInv PROVE EpochIsWhole
    OBVIOUS
  <2>1. /\ db.msgs \in SUBSET Record /\ db.last \in Nat /\ Seqs(db.msgs) = 1..db.last
        /\ Epoch(db.msgs, Boundary(db.msgs))
    BY DEF IInv, Database, Rows
  <2>2. Cardinality(db.msgs) = db.last
    BY <2>1, Count DEF Epoch
  <2> QED
    BY <2>1, <2>2 DEF EpochIsWhole, Epoch, Seqs
<1> QED
  BY <1>1, HistoryInvariant, PTL

\* A Session that rests, or waits for a Provider, compiles its requests from the durable history:
\* what failed was undone in memory and in the database or in neither (DurableExecutionStatePort).
THEOREM MemoryIsTheDatabase == ASSUME ~Outgrown PROVE HistorySpec => []MemoryIsDurable
<1>1. IInv => MemoryIsDurable
  <2> SUFFICES ASSUME IInv, bind.st = "ok", task.pc \in {"idle", "model", "compacting"}
               PROVE  /\ Active(mem.hist) = Active(db.msgs) /\ mem.next = db.last + 1
                      /\ mem.meta = db.meta /\ bind = BindingOf(db)
    BY DEF MemoryIsDurable
  <2>1. Level(Undo(mem)) /\ mem.meta = db.meta /\ bind = BindingOf(db)
    BY QuietLevel DEF Quiet
  <2> QED
    BY <2>1 DEF Level, Undo
<1> QED
  BY <1>1, HistoryInvariant, PTL

\* What run:start tells the client is so: a request reported as started is in the database, one
\* reported as failed is not (DurableRunApplicationService).
THEOREM AnswersAreTrue == ASSUME ~Outgrown PROVE HistorySpec => []AnswerIsTrue
<1>1. IInv => AnswerIsTrue
  BY DEF IInv, Answers
<1> QED
  BY <1>1, HistoryInvariant, PTL

=============================================================================
