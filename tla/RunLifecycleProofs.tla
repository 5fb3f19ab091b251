------------------------- MODULE RunLifecycleProofs -------------------------
(***************************************************************************)
(* Proofs about the Runs of one Session, for any bounds, messages and      *)
(* requests: one Run at a time, a paused Run is quiet, an ended one stays  *)
(* ended, a request is carried out once, a background event yields to the  *)
(* user, and every message that a Run accepted is in exactly one place.    *)
(*                                                                         *)
(* The invariant has a part for each Run alone, what its pc says of its    *)
(* fields (Status) and where its messages are (Placed), and a part for the  *)
(* Session: how Runs, requests and the wakeup gate refer to each other.    *)
(* A step that changes one Run in a way the Session does not notice (Calm) *)
(* keeps the second part, so that most steps only owe the first.           *)
(***************************************************************************)
EXTENDS RunLifecycle, SequenceTheorems, TLAPS

Over == {"closing", "settling", "gone"}
CommittedPcs == {"compacting", "boundary", "drain", "request", "provider", "answered",
                 "carry", "tools", "asking", "approval", "decided"}
Working == CommittedPcs \cup {"prepare", "input", "settle", "parked"}
Pcs == Working \cup Over \cup {"none", "ending"}
ActiveStatuses == {"idle", "calling_llm", "running_tools", "awaiting_approval", "cancelling"}
Msgs == Seq(Interjections)

RunRecord ==
  [pc : Pcs, back : Checkpoints, status : ActiveStatuses \cup Terminal \cup {"paused"},
   resumeTo : ActiveStatuses, kind : {"turn", "compact", "wake"},
   req : Requests \cup {NoRequest}, aborted : BOOLEAN, accepting : BOOLEAN,
   committed : BOOLEAN, natural : BOOLEAN, pausing : BOOLEAN, step : Nat, calls : Nat,
   side : Nat, asked : BOOLEAN, verdict : {"none", "allow", "deny", "cancelled"},
   outcome : Terminal \cup {"none"}, accepted : Msgs, queue : Msgs, batch : Msgs, carry : Msgs]
Fate == [injected : Msgs, superseded : Msgs, carried : Msgs]

\* The types of the variables.
Types ==
  /\ run \in [Runs -> RunRecord] /\ handled \in [Runs -> Fate]
  /\ active \in Runs \cup {NoRun} /\ started \in 0..MaxRuns /\ closed \in BOOLEAN
  /\ request \in [Requests -> Runs \cup {NoRun}]
  /\ epoch \in Runs \cup {NoRun} /\ eligible \in Runs \cup {NoRun}
  /\ claims \subseteq Runs /\ acted \subseteq Runs

\* What the pc of a Run says of its status, its pause, its question and its commit.
Status(x) ==
  /\ x.pc \in Over <=> x.status \in Terminal
  /\ x.pc = "ending" => x.outcome \in Terminal
  /\ x.asked => x.pc = "approval"
  /\ x.status = "paused" /\ ~x.aborted => x.pc = "parked" /\ x.side = 0
  /\ x.pc \in {"none", "gone"} => x.side = 0
  /\ x.pc \in CommittedPcs => x.committed
  /\ x.pc \in {"settle", "parked"} /\ x.back # "prepare" => x.committed
  /\ x.pc = "compacting" => x.kind = "compact"
  /\ x.pc = "none" => ~x.committed

\* Where messages may be: a Run that accepts them queues them, one that does not has an
\* empty queue, and the other places are used at one pc each.
Places(x, h) ==
  /\ x.pc \in Working \ {"carry"} /\ ~x.aborted => x.accepting
  /\ x.accepting => h.superseded = <<>> /\ h.carried = <<>> /\ x.carry = <<>>
  /\ ~x.accepting /\ x.pc # "gone" => x.queue = <<>>
  /\ x.batch # <<>> => x.pc = "drain"
  /\ x.carry # <<>> => x.pc = "carry"
  /\ h.carried # <<>> => x.pc \in {"carry", "ending"} \cup Over
  /\ x.pc \in {"none", "carry"} => ~x.accepting
  /\ x.pc \in {"ending"} \cup Over /\ x.kind # "compact" => ~x.accepting /\ x.queue = <<>>
  /\ x.pc = "none" => h = NothingMet

\* The messages accepted are those injected, those being injected, and the rest, which are
\* superseded, or carried, being carried and queued in that order.
Placed(accepted, batch, carry, queue, h) ==
  \E t \in Msgs :
    /\ accepted = (h.injected \o batch) \o t
    /\ Len(t) = Len(h.superseded) + Len(h.carried) + Len(carry) + Len(queue)
    /\ ToSet(t) = ToSet(h.superseded) \cup ToSet(h.carried) \cup ToSet(carry) \cup ToSet(queue)
    /\ h.superseded = <<>> => t = (h.carried \o carry) \o queue
    /\ h.superseded # <<>> => h.carried = <<>> /\ carry = <<>> /\ queue = <<>>

RunInv(x, h) ==
  Status(x) /\ Places(x, h) /\ Placed(x.accepted, x.batch, x.carry, x.queue, h)

RunsInv == \A r \in Runs : RunInv(run[r], handled[r])

UnderWay(x) == x.pc \in Working \cup {"ending"}
\* A Run that ended, or is about to, before its input was durable
Failed(x) == x.pc \in {"ending"} \cup Over /\ ~x.committed

\* The Runs of the Session: those begun are the first, and only the active one is under way.
Turns ==
  /\ \A r \in Runs : run[r].pc = "none" <=> r > started
  /\ \A r \in Runs : UnderWay(run[r]) => active = r
  /\ active # NoRun => run[active].pc \notin {"none", "gone"}

\* A request and a Run name each other unless the Run failed, and then nobody names it.
Named ==
  /\ \A q \in Requests : request[q] # NoRun =>
       LET x == run[request[q]] IN x.req = q /\ x.pc # "none" /\ ~Failed(x)
  /\ \A r \in Runs : run[r].pc # "none" /\ run[r].req \in Requests /\ ~Failed(run[r]) =>
       request[run[r].req] = r

\* The epoch that may be claimed is that of a Run which ended by itself in a Session at rest,
\* and the epoch in force is none that the user acted in.
Gate ==
  /\ eligible # NoRun => /\ active = NoRun /\ ~closed /\ epoch = eligible
                         /\ run[eligible].status = "completed" /\ run[eligible].natural
  /\ epoch <= started /\ eligible <= started
  /\ acted \subseteq claims /\ epoch \notin acted
  /\ \A c \in claims : c <= started

SessionInv == Turns /\ Named /\ Gate

IInv == Types /\ RunsInv /\ SessionInv

(***************************************************************************)
(* The record of a Run, field by field                                     *)
(***************************************************************************)

Statuses == ActiveStatuses \cup Terminal \cup {"paused"}

\* A field may be given any value of its type.
LEMMA Fields ==
  ASSUME NEW x \in RunRecord
  PROVE  /\ \A v \in Pcs : [x EXCEPT !.pc = v] \in RunRecord
         /\ \A v \in Checkpoints : [x EXCEPT !.back = v] \in RunRecord
         /\ \A v \in Statuses : [x EXCEPT !.status = v] \in RunRecord
         /\ \A v \in ActiveStatuses : [x EXCEPT !.resumeTo = v] \in RunRecord
         /\ \A v \in BOOLEAN : [x EXCEPT !.aborted = v] \in RunRecord
         /\ \A v \in BOOLEAN : [x EXCEPT !.accepting = v] \in RunRecord
         /\ \A v \in BOOLEAN : [x EXCEPT !.committed = v] \in RunRecord
         /\ \A v \in BOOLEAN : [x EXCEPT !.natural = v] \in RunRecord
         /\ \A v \in BOOLEAN : [x EXCEPT !.pausing = v] \in RunRecord
<1> USE DEF RunRecord, Statuses
<1>1. \A v \in Pcs : [x EXCEPT !.pc = v] \in RunRecord
  OBVIOUS
<1>2. \A v \in Checkpoints : [x EXCEPT !.back = v] \in RunRecord
  OBVIOUS
<1>3. \A v \in Statuses : [x EXCEPT !.status = v] \in RunRecord
  OBVIOUS
<1>4. \A v \in ActiveStatuses : [x EXCEPT !.resumeTo = v] \in RunRecord
  OBVIOUS
<1>5. /\ \A v \in BOOLEAN : [x EXCEPT !.aborted = v] \in RunRecord
      /\ \A v \in BOOLEAN : [x EXCEPT !.accepting = v] \in RunRecord
      /\ \A v \in BOOLEAN : [x EXCEPT !.committed = v] \in RunRecord
  OBVIOUS
<1>6. /\ \A v \in BOOLEAN : [x EXCEPT !.natural = v] \in RunRecord
      /\ \A v \in BOOLEAN : [x EXCEPT !.pausing = v] \in RunRecord
  OBVIOUS
<1> HIDE DEF RunRecord, Statuses
<1> QED BY <1>1, <1>2, <1>3, <1>4, <1>5, <1>6

LEMMA MoreFields ==
  ASSUME NEW x \in RunRecord
  PROVE  /\ \A v \in Nat : [x EXCEPT !.step = v] \in RunRecord
         /\ \A v \in Nat : [x EXCEPT !.calls = v] \in RunRecord
         /\ \A v \in Nat : [x EXCEPT !.side = v] \in RunRecord
         /\ \A v \in BOOLEAN : [x EXCEPT !.asked = v] \in RunRecord
         /\ \A v \in {"none", "allow", "deny", "cancelled"} : [x EXCEPT !.verdict = v] \in RunRecord
         /\ \A v \in Terminal \cup {"none"} : [x EXCEPT !.outcome = v] \in RunRecord
         /\ \A v \in Msgs : [x EXCEPT !.accepted = v] \in RunRecord
         /\ \A v \in Msgs : [x EXCEPT !.queue = v] \in RunRecord
         /\ \A v \in Msgs : [x EXCEPT !.batch = v] \in RunRecord
         /\ \A v \in Msgs : [x EXCEPT !.carry = v] \in RunRecord
<1> USE DEF RunRecord
<1>1. /\ \A v \in Nat : [x EXCEPT !.step = v] \in RunRecord
      /\ \A v \in Nat : [x EXCEPT !.calls = v] \in RunRecord
      /\ \A v \in Nat : [x EXCEPT !.side = v] \in RunRecord
  OBVIOUS
<1>2. \A v \in BOOLEAN : [x EXCEPT !.asked = v] \in RunRecord
  OBVIOUS
<1>3. \A v \in {"none", "allow", "deny", "cancelled"} : [x EXCEPT !.verdict = v] \in RunRecord
  OBVIOUS
<1>4. \A v \in Terminal \cup {"none"} : [x EXCEPT !.outcome = v] \in RunRecord
  OBVIOUS
<1>5. /\ \A v \in Msgs : [x EXCEPT !.accepted = v] \in RunRecord
      /\ \A v \in Msgs : [x EXCEPT !.queue = v] \in RunRecord
      /\ \A v \in Msgs : [x EXCEPT !.batch = v] \in RunRecord
      /\ \A v \in Msgs : [x EXCEPT !.carry = v] \in RunRecord
  OBVIOUS
<1> HIDE DEF RunRecord
<1> QED BY <1>1, <1>2, <1>3, <1>4, <1>5

\* What the fields of a Run may be.
LEMMA Values ==
  /\ \A x \in RunRecord :
       /\ x.pc \in Pcs /\ x.back \in Checkpoints /\ x.status \in Statuses
       /\ x.resumeTo \in ActiveStatuses /\ x.step \in Nat /\ x.calls \in Nat /\ x.side \in Nat
       /\ x.aborted \in BOOLEAN /\ x.accepting \in BOOLEAN /\ x.committed \in BOOLEAN
       /\ x.natural \in BOOLEAN /\ x.pausing \in BOOLEAN /\ x.asked \in BOOLEAN
       /\ x.kind \in {"turn", "compact", "wake"}
       /\ x.outcome \in Terminal \cup {"none"} /\ x.req \in Requests \cup {NoRequest}
       /\ x.accepted \in Msgs /\ x.queue \in Msgs /\ x.batch \in Msgs /\ x.carry \in Msgs
  /\ \A h \in Fate : h.injected \in Msgs /\ h.superseded \in Msgs /\ h.carried \in Msgs
  /\ \A v \in {"none", "prepare", "input", "settle", "parked", "compacting", "boundary", "drain",
               "request", "provider", "answered", "carry", "tools", "asking", "approval",
               "decided", "ending", "closing", "settling", "gone"} : v \in Pcs
  /\ \A v \in {"idle", "calling_llm", "running_tools", "awaiting_approval", "cancelling"} :
       v \in ActiveStatuses /\ v \in Statuses
  /\ \A v \in {"completed", "cancelled", "failed"} : v \in Terminal /\ v \in Statuses
  /\ \A v \in Checkpoints : v \in Pcs
  /\ \A v \in Terminal : v \in Statuses
  /\ \A v \in ActiveStatuses : v \in Statuses
  /\ "paused" \in Statuses /\ <<>> \in Msgs
BY DEF RunRecord, Fate, Statuses, ActiveStatuses, Terminal, Pcs, Working, CommittedPcs, Over,
   Checkpoints, Msgs

(***************************************************************************)
(* Runs that the Session does not notice                                   *)
(***************************************************************************)

\* x becomes y without beginning, going on after its end or leaving the Session.
Stays(x, y) ==
  /\ x.pc # "none" /\ y.pc \notin {"none", "gone"}
  /\ UnderWay(y) => UnderWay(x)
  /\ ~UnderWay(x) => y.status = x.status /\ y.natural = x.natural

\* x becomes y and is still the Run of its request, or failed before and after.
Answers(x, y) ==
  x.pc # "none" /\ y.pc # "none" /\ y.req = x.req /\ (Failed(y) <=> Failed(x))

Calm(x, y) == Stays(x, y) /\ Answers(x, y)

\* One Run comes to y, and its messages to h.
Comes(r, y, h) ==
  /\ y \in RunRecord /\ h \in Fate
  /\ run' = [run EXCEPT ![r] = y] /\ handled' = [handled EXCEPT ![r] = h]

LEMMA RunTyped ==
  ASSUME Types, NEW r \in Runs
  PROVE  run[r] \in RunRecord /\ handled[r] \in Fate /\ run[r].req \in Requests \cup {NoRequest}
BY DEF Types, RunRecord

LEMMA RunComes ==
  ASSUME Types, NEW r \in Runs, NEW y, NEW h, Comes(r, y, h)
  PROVE  /\ run' \in [Runs -> RunRecord] /\ handled' \in [Runs -> Fate]
         /\ run'[r] = y /\ handled'[r] = h
         /\ \A s \in Runs \ {r} : run'[s] = run[s] /\ handled'[s] = handled[s]
BY DEF Types, Comes

\* A step of one Run leaves the others where they are.
LEMMA OneRun ==
  ASSUME Types, RunsInv, NEW r \in Runs, NEW y, NEW h, Comes(r, y, h), RunInv(y, h)
  PROVE  RunsInv'
<1>1. ASSUME NEW s \in Runs
      PROVE  RunInv(run'[s], handled'[s])
  <2>1. CASE s = r
    BY <2>1, RunComes
  <2>2. CASE s # r
    <3>1. run'[s] = run[s] /\ handled'[s] = handled[s]
      BY <2>2, RunComes
    <3>2. RunInv(run[s], handled[s])
      BY DEF RunsInv
    <3> QED BY <3>1, <3>2
  <2> QED BY <2>1, <2>2
<1> QED BY <1>1 DEF RunsInv

LEMMA StaysTurns ==
  ASSUME Types, Turns, NEW r \in Runs, NEW y, NEW h, Comes(r, y, h), Stays(run[r], y),
         UNCHANGED <<active, started>>
  PROVE  Turns'
<1>1. /\ run'[r] = y /\ \A s \in Runs \ {r} : run'[s] = run[s]
  BY RunComes
<1>2. \A s \in Runs : run'[s].pc = "none" <=> s > started
  BY <1>1 DEF Turns, Stays
<1>3. \A s \in Runs : UnderWay(run'[s]) => active = s
  BY <1>1 DEF Turns, Stays
<1>4. active # NoRun => run'[active].pc \notin {"none", "gone"}
  BY <1>1 DEF Turns, Stays, Types
<1> QED BY <1>2, <1>3, <1>4 DEF Turns

LEMMA AnswersNamed ==
  ASSUME Types, Named, NEW r \in Runs, NEW y, NEW h, Comes(r, y, h), Answers(run[r], y),
         UNCHANGED request
  PROVE  Named'
<1>1. /\ run'[r] = y /\ \A s \in Runs \ {r} : run'[s] = run[s]
  BY RunComes
<1>2. ASSUME NEW q \in Requests, request'[q] # NoRun
      PROVE  LET x == run'[request'[q]] IN x.req = q /\ x.pc # "none" /\ ~Failed(x)
  <2> DEFINE s == request[q]
  <2>1. /\ s \in Runs /\ request'[q] = s
        /\ run[s].req = q /\ run[s].pc # "none" /\ ~Failed(run[s])
    BY <1>2 DEF Named, Types
  <2> HIDE DEF s
  <2>2. CASE s = r
    BY <1>1, <2>1, <2>2 DEF Answers
  <2>3. CASE s # r
    BY <1>1, <2>1, <2>3
  <2> QED BY <2>1, <2>2, <2>3
<1>3. ASSUME NEW s \in Runs, run'[s].pc # "none", run'[s].req \in Requests, ~Failed(run'[s])
      PROVE  request'[run'[s].req] = s
  <2>1. CASE s = r
    BY <1>1, <1>3, <2>1 DEF Named, Answers
  <2>2. CASE s # r
    BY <1>1, <1>3, <2>2 DEF Named
  <2> QED BY <2>1, <2>2
<1> QED BY <1>2, <1>3 DEF Named

LEMMA StaysGate ==
  ASSUME Types, Turns, Gate, NEW r \in Runs, NEW y, NEW h, Comes(r, y, h), Stays(run[r], y),
         UNCHANGED <<active, started, closed>>, UNCHANGEDGate
  PROVE  Gate'
<1>1. /\ run'[r] = y /\ \A s \in Runs \ {r} : run'[s] = run[s]
  BY RunComes
<1>2. ASSUME eligible # NoRun
      PROVE  run'[eligible].status = "completed" /\ run'[eligible].natural
  <2>1. eligible \in Runs /\ active = NoRun
        /\ run[eligible].status = "completed" /\ run[eligible].natural
    BY <1>2 DEF Gate, Types
  <2>2. ~UnderWay(run[eligible])
    BY <2>1 DEF Turns, Runs, NoRun
  <2> QED BY <1>1, <2>1, <2>2 DEF Stays
<1> QED BY <1>2 DEF Gate, UNCHANGEDGate

\* A calm step owes the invariant of its own Run only.
LEMMA CalmStep ==
  ASSUME IInv, NEW r \in Runs, NEW y, NEW h, Comes(r, y, h), RunInv(y, h), Calm(run[r], y),
         UNCHANGEDSession, UNCHANGEDGate
  PROVE  IInv'
<1> USE DEF IInv, SessionInv
<1>1. UNCHANGED <<active, started, closed, request, epoch, eligible, claims, acted>>
  BY DEF UNCHANGEDSession, UNCHANGEDGate
<1>2. Types'
  BY <1>1, RunComes DEF Types
<1>3. RunsInv'
  BY OneRun
<1>4. Turns'
  BY <1>1, StaysTurns DEF Calm
<1>5. Named'
  BY <1>1, AnswersNamed DEF Calm
<1>6. Gate'
  BY <1>1, StaysGate DEF Calm
<1> QED BY <1>2, <1>3, <1>4, <1>5, <1>6

(***************************************************************************)
(* Steps that leave the messages of the Run where they are                 *)
(***************************************************************************)

SameMessages(x, y) ==
  /\ y.accepted = x.accepted /\ y.queue = x.queue /\ y.batch = x.batch /\ y.carry = x.carry

\* What such a step of a Run owes.
Keeps(x, y, h) ==
  y \in RunRecord /\ SameMessages(x, y) /\ Status(y) /\ Places(y, h) /\ Calm(x, y)

LEMMA QuietStep ==
  ASSUME IInv, NEW r \in Runs, NEW y, Set(r, y), Quiet, Keeps(run[r], y, handled[r])
  PROVE  IInv'
<1> DEFINE h == handled[r]
<1>1. Comes(r, y, h)
  BY RunTyped DEF IInv, Types, Comes, Set, Quiet, Keeps
<1>2. RunInv(y, h)
  BY DEF IInv, RunsInv, RunInv, Keeps, SameMessages
<1> HIDE DEF h
<1> QED BY <1>1, <1>2, CalmStep DEF Keeps, Quiet

\* What is known of a Run before a step.
LEMMA Before ==
  ASSUME IInv, NEW r \in Runs
  PROVE  /\ run[r] \in RunRecord /\ handled[r] \in Fate
         /\ Status(run[r]) /\ Places(run[r], handled[r])
         /\ Placed(run[r].accepted, run[r].batch, run[r].carry, run[r].queue, handled[r])
BY RunTyped DEF IInv, RunsInv, RunInv

\* Checkpoints, from the request of a pause to the end of it.
LEMMA PauseInv ==
  ASSUME IInv, NEW r \in Runs,
         ReachCheckpoint(r) \/ Park(r) \/ RequestPause(r) \/ Resume(r)
  PROVE  IInv'
<1> DEFINE x == run[r]
           h == handled[r]
<1>0. x \in RunRecord /\ h \in Fate /\ Status(x) /\ Places(x, h)
  BY Before
<1>1. CASE ReachCheckpoint(r)
  <2> DEFINE y == [x EXCEPT !.pc = "settle", !.back = x.pc]
  <2>1. /\ Set(r, y)
        /\ Quiet /\ x.pc \in Checkpoints
    BY <1>1 DEF ReachCheckpoint
  <2> HIDE DEF x, h
  <2>2. y \in RunRecord
    BY <1>0, <2>1, Fields, MoreFields, Values
  <2>3. Status(y) /\ Places(y, h)
    BY <1>0, <2>1 DEF RunRecord, Status, Places, Checkpoints, Terminal, ActiveStatuses, Pcs,
       Working, CommittedPcs, Over
  <2>4. Keeps(x, y, h)
    BY <1>0, <2>1, <2>2, <2>3 DEF RunRecord, Status, Keeps, SameMessages, Calm, Stays,
       Answers, UnderWay, Failed, Checkpoints, Terminal, ActiveStatuses, Pcs, Working,
       CommittedPcs, Over
  <2> HIDE DEF y
  <2> QED BY <2>1, <2>4, QuietStep DEF x, h
<1>2. CASE Park(r)
  <2> DEFINE y == [x EXCEPT !.pc = "parked", !.status = "paused", !.resumeTo = x.status]
             z == [x EXCEPT !.pc = x.back]
  <2>1. /\ Set(r, y) \/ Set(r, z)
        /\ Quiet /\ x.pc = "settle" /\ x.side = 0 /\ ~x.aborted
    BY <1>2 DEF Park, SideEffectsDone
  <2> HIDE DEF x, h
  <2>2. y \in RunRecord /\ z \in RunRecord
    BY <1>0, <2>1, Fields, MoreFields, Values DEF Status, Statuses, Over
  <2>3. Status(y) /\ Places(y, h) /\ Status(z) /\ Places(z, h)
    BY <1>0, <2>1 DEF RunRecord, Status, Places, Checkpoints, Terminal, ActiveStatuses, Pcs,
       Working, CommittedPcs, Over
  <2>4. Keeps(x, y, h) /\ Keeps(x, z, h)
    BY <1>0, <2>1, <2>2, <2>3 DEF RunRecord, Status, Keeps, SameMessages, Calm, Stays,
       Answers, UnderWay, Failed, Checkpoints, Terminal, ActiveStatuses, Pcs, Working,
       CommittedPcs, Over
  <2> HIDE DEF y, z
  <2> QED BY <2>1, <2>4, QuietStep DEF x, h
<1>3. CASE RequestPause(r)
  <2> DEFINE y == [x EXCEPT !.pausing = TRUE]
  <2>1. /\ Set(r, y)
        /\ Quiet /\ x.pc # "none" /\ x.status \notin Terminal
    BY <1>3 DEF RequestPause, IsLive
  <2> HIDE DEF x, h
  <2>2. y \in RunRecord
    BY <1>0, <2>1, Fields, MoreFields, Values
  <2>3. Status(y) /\ Places(y, h)
    BY <1>0, <2>1 DEF RunRecord, Status, Places, Checkpoints, Terminal, ActiveStatuses, Pcs,
       Working, CommittedPcs, Over
  <2>4. Keeps(x, y, h)
    BY <1>0, <2>1, <2>2, <2>3 DEF RunRecord, Status, Keeps, SameMessages, Calm, Stays,
       Answers, UnderWay, Failed, Checkpoints, Terminal, ActiveStatuses, Pcs, Working,
       CommittedPcs, Over
  <2> HIDE DEF y
  <2> QED BY <2>1, <2>4, QuietStep DEF x, h
<1>4. CASE Resume(r)
  <2> DEFINE y == [x EXCEPT !.pausing = FALSE, !.pc = x.back, !.status = x.resumeTo]
             z == [x EXCEPT !.pausing = FALSE]
  <2>1. /\ (x.pc = "parked" /\ Set(r, y)) \/ (x.pc # "parked" /\ Set(r, z))
        /\ Quiet /\ x.pc # "none" /\ x.status \notin Terminal /\ ~x.aborted
    BY <1>4 DEF Resume, IsLive
  <2> HIDE DEF x, h
  <2>2. y \in RunRecord /\ z \in RunRecord
    BY <1>0, <2>1, Fields, MoreFields, Values
  <2>3. /\ x.pc = "parked" => Status(y) /\ Places(y, h)
        /\ x.pc # "parked" => Status(z) /\ Places(z, h)
    BY <1>0, <2>1 DEF RunRecord, Status, Places, Checkpoints, Terminal, ActiveStatuses, Pcs,
       Working, CommittedPcs, Over
  <2>4. (x.pc = "parked" => Keeps(x, y, h)) /\ (x.pc # "parked" => Keeps(x, z, h))
    BY <1>0, <2>1, <2>2, <2>3 DEF RunRecord, Status, Keeps, SameMessages, Calm, Stays,
       Answers, UnderWay, Failed, Checkpoints, Terminal, ActiveStatuses, Pcs, Working,
       CommittedPcs, Over
  <2> HIDE DEF y, z
  <2> QED BY <2>1, <2>4, QuietStep DEF x, h
<1> QED BY <1>1, <1>2, <1>3, <1>4

\* A turn, from its input to its answer.
LEMMA TurnInv ==
  ASSUME IInv, NEW r \in Runs,
         Prepare(r) \/ CommitInput(r) \/ CompactEnds(r) \/ CompactContinues(r)
         \/ SendRequest(r) \/ ProviderAnswers(r) \/ Continue(r) \/ Carried(r)
  PROVE  IInv'
<1> DEFINE x == run[r]
           h == handled[r]
<1>0. x \in RunRecord /\ h \in Fate /\ Status(x) /\ Places(x, h)
  BY Before
<1>1. CASE Prepare(r)
  <2> DEFINE y == [x EXCEPT !.pc = "input"]
  <2>1. /\ Set(r, y)
        /\ Quiet /\ x.pc = "prepare"
    BY <1>1 DEF Prepare
  <2> HIDE DEF x, h
  <2>2. y \in RunRecord
    BY <1>0, <2>1, Fields, MoreFields, Values
  <2>3. Status(y) /\ Places(y, h)
    BY <1>0, <2>1 DEF RunRecord, Status, Places, Checkpoints, Terminal, ActiveStatuses, Pcs,
       Working, CommittedPcs, Over
  <2>4. Keeps(x, y, h)
    BY <1>0, <2>1, <2>2, <2>3 DEF RunRecord, Status, Keeps, SameMessages, Calm, Stays,
       Answers, UnderWay, Failed, Checkpoints, Terminal, ActiveStatuses, Pcs, Working,
       CommittedPcs, Over
  <2> HIDE DEF y
  <2> QED BY <2>1, <2>4, QuietStep DEF x, h
<1>2. CASE CommitInput(r)
  <2> DEFINE y == [x EXCEPT !.pc = "compacting", !.committed = TRUE]
             z == [x EXCEPT !.pc = "boundary", !.committed = TRUE]
  <2>1. /\ (x.kind = "compact" /\ Set(r, y)) \/ Set(r, z)
        /\ Quiet /\ x.pc = "input"
    BY <1>2 DEF CommitInput
  <2> HIDE DEF x, h
  <2>2. y \in RunRecord /\ z \in RunRecord
    BY <1>0, <2>1, Fields, MoreFields, Values
  <2>3. (x.kind = "compact" => Status(y) /\ Places(y, h)) /\ Status(z) /\ Places(z, h)
    BY <1>0, <2>1 DEF RunRecord, Status, Places, Checkpoints, Terminal, ActiveStatuses, Pcs,
       Working, CommittedPcs, Over
  <2>4. (x.kind = "compact" => Keeps(x, y, h)) /\ Keeps(x, z, h)
    BY <1>0, <2>1, <2>2, <2>3 DEF RunRecord, Status, Keeps, SameMessages, Calm, Stays,
       Answers, UnderWay, Failed, Checkpoints, Terminal, ActiveStatuses, Pcs, Working,
       CommittedPcs, Over
  <2> HIDE DEF y, z
  <2> QED BY <2>1, <2>4, QuietStep DEF x, h
<1>3. CASE CompactEnds(r)
  <2> DEFINE y == [x EXCEPT !.pc = "ending", !.outcome = "completed"]
  <2>1. /\ Set(r, y)
        /\ Quiet /\ x.pc = "compacting"
    BY <1>3 DEF CompactEnds
  <2> HIDE DEF x, h
  <2>2. y \in RunRecord
    BY <1>0, <2>1, Fields, MoreFields, Values DEF Terminal
  <2>3. Status(y) /\ Places(y, h)
    BY <1>0, <2>1 DEF RunRecord, Status, Places, Checkpoints, Terminal, ActiveStatuses, Pcs,
       Working, CommittedPcs, Over
  <2>4. Keeps(x, y, h)
    BY <1>0, <2>1, <2>2, <2>3 DEF RunRecord, Status, Keeps, SameMessages, Calm, Stays,
       Answers, UnderWay, Failed, Checkpoints, Terminal, ActiveStatuses, Pcs, Working,
       CommittedPcs, Over
  <2> HIDE DEF y
  <2> QED BY <2>1, <2>4, QuietStep DEF x, h
<1>4. CASE CompactContinues(r)
  <2> DEFINE y == [x EXCEPT !.pc = "boundary"]
  <2>1. /\ Set(r, y)
        /\ Quiet /\ x.pc = "compacting"
    BY <1>4 DEF CompactContinues
  <2> HIDE DEF x, h
  <2>2. y \in RunRecord
    BY <1>0, <2>1, Fields, MoreFields, Values
  <2>3. Status(y) /\ Places(y, h)
    BY <1>0, <2>1 DEF RunRecord, Status, Places, Checkpoints, Terminal, ActiveStatuses, Pcs,
       Working, CommittedPcs, Over
  <2>4. Keeps(x, y, h)
    BY <1>0, <2>1, <2>2, <2>3 DEF RunRecord, Status, Keeps, SameMessages, Calm, Stays,
       Answers, UnderWay, Failed, Checkpoints, Terminal, ActiveStatuses, Pcs, Working,
       CommittedPcs, Over
  <2> HIDE DEF y
  <2> QED BY <2>1, <2>4, QuietStep DEF x, h
<1>5. CASE SendRequest(r)
  <2> DEFINE y == [x EXCEPT !.pc = "provider"]
  <2>1. /\ Set(r, y)
        /\ Quiet /\ x.pc = "request" /\ ~x.aborted
    BY <1>5 DEF SendRequest, Passes
  <2> HIDE DEF x, h
  <2>2. y \in RunRecord
    BY <1>0, <2>1, Fields, MoreFields, Values
  <2>3. Status(y) /\ Places(y, h)
    BY <1>0, <2>1 DEF RunRecord, Status, Places, Checkpoints, Terminal, ActiveStatuses, Pcs,
       Working, CommittedPcs, Over
  <2>4. Keeps(x, y, h)
    BY <1>0, <2>1, <2>2, <2>3 DEF RunRecord, Status, Keeps, SameMessages, Calm, Stays,
       Answers, UnderWay, Failed, Checkpoints, Terminal, ActiveStatuses, Pcs, Working,
       CommittedPcs, Over
  <2> HIDE DEF y
  <2> QED BY <2>1, <2>4, QuietStep DEF x, h
<1>6. CASE ProviderAnswers(r)
  <2> DEFINE y == [x EXCEPT !.pc = "tools", !.status = "running_tools"]
             z == [x EXCEPT !.pc = "answered"]
  <2>1. /\ Set(r, y) \/ Set(r, z)
        /\ Quiet /\ x.pc = "provider"
    BY <1>6 DEF ProviderAnswers
  <2> HIDE DEF x, h
  <2>2. y \in RunRecord /\ z \in RunRecord
    BY <1>0, <2>1, Fields, MoreFields, Values
  <2>3. Status(y) /\ Places(y, h) /\ Status(z) /\ Places(z, h)
    BY <1>0, <2>1 DEF RunRecord, Status, Places, Checkpoints, Terminal, ActiveStatuses, Pcs,
       Working, CommittedPcs, Over
  <2>4. Keeps(x, y, h) /\ Keeps(x, z, h)
    BY <1>0, <2>1, <2>2, <2>3 DEF RunRecord, Status, Keeps, SameMessages, Calm, Stays,
       Answers, UnderWay, Failed, Checkpoints, Terminal, ActiveStatuses, Pcs, Working,
       CommittedPcs, Over
  <2> HIDE DEF y, z
  <2> QED BY <2>1, <2>4, QuietStep DEF x, h
<1>7. CASE Continue(r)
  <2> DEFINE y == [x EXCEPT !.pc = "boundary", !.step = x.step + 1]
  <2>1. /\ Set(r, y)
        /\ Quiet /\ x.pc = "answered"
    BY <1>7 DEF Continue
  <2> HIDE DEF x, h
  <2>2. y \in RunRecord
    <3>1. x.step + 1 \in Nat
      BY <1>0, <2>1, Values
    <3> QED BY <1>0, <3>1, Fields, MoreFields, Values
  <2>3. Status(y) /\ Places(y, h)
    BY <1>0, <2>1 DEF RunRecord, Status, Places, Checkpoints, Terminal, ActiveStatuses, Pcs,
       Working, CommittedPcs, Over
  <2>4. Keeps(x, y, h)
    BY <1>0, <2>1, <2>2, <2>3 DEF RunRecord, Status, Keeps, SameMessages, Calm, Stays,
       Answers, UnderWay, Failed, Checkpoints, Terminal, ActiveStatuses, Pcs, Working,
       CommittedPcs, Over
  <2> HIDE DEF y
  <2> QED BY <2>1, <2>4, QuietStep DEF x, h
<1>8. CASE Carried(r)
  <2> DEFINE y == [x EXCEPT !.pc = "ending", !.natural = TRUE, !.outcome = "completed"]
  <2>1. /\ Set(r, y)
        /\ Quiet /\ x.pc = "carry" /\ x.carry = <<>>
    BY <1>8 DEF Carried
  <2> HIDE DEF x, h
  <2>2. y \in RunRecord
    BY <1>0, <2>1, Fields, MoreFields, Values DEF Terminal
  <2>3. Status(y) /\ Places(y, h)
    BY <1>0, <2>1 DEF RunRecord, Status, Places, Checkpoints, Terminal, ActiveStatuses, Pcs,
       Working, CommittedPcs, Over
  <2>4. Keeps(x, y, h)
    BY <1>0, <2>1, <2>2, <2>3 DEF RunRecord, Status, Keeps, SameMessages, Calm, Stays,
       Answers, UnderWay, Failed, Checkpoints, Terminal, ActiveStatuses, Pcs, Working,
       CommittedPcs, Over
  <2> HIDE DEF y
  <2> QED BY <2>1, <2>4, QuietStep DEF x, h
<1> QED BY <1>1, <1>2, <1>3, <1>4, <1>5, <1>6, <1>7, <1>8

\* A batch of tools, its questions and its side effects.
LEMMA ToolsInv ==
  ASSUME IInv, NEW r \in Runs,
         Authorize(r) \/ Ask(r) \/ Decide(r) \/ ApprovalExpires(r) \/
         Decided(r) \/ StartSideEffect(r) \/ SideEffectSettles(r) \/
         ToolsDone(r)
  PROVE  IInv'
<1> DEFINE x == run[r]
           h == handled[r]
<1>0. x \in RunRecord /\ h \in Fate /\ Status(x) /\ Places(x, h)
  BY Before
<1>1. CASE Authorize(r)
  <2> DEFINE y == [x EXCEPT !.pc = "asking", !.calls = x.calls + 1]
  <2>1. /\ Set(r, y)
        /\ Quiet /\ x.pc = "tools" /\ ~x.aborted
    BY <1>1 DEF Authorize
  <2> HIDE DEF x, h
  <2>2. y \in RunRecord
    <3>1. x.calls + 1 \in Nat
      BY <1>0, <2>1, Values
    <3> QED BY <1>0, <3>1, Fields, MoreFields, Values
  <2>3. Status(y) /\ Places(y, h)
    BY <1>0, <2>1 DEF RunRecord, Status, Places, Checkpoints, Terminal, ActiveStatuses, Pcs,
       Working, CommittedPcs, Over
  <2>4. Keeps(x, y, h)
    BY <1>0, <2>1, <2>2, <2>3 DEF RunRecord, Status, Keeps, SameMessages, Calm, Stays,
       Answers, UnderWay, Failed, Checkpoints, Terminal, ActiveStatuses, Pcs, Working,
       CommittedPcs, Over
  <2> HIDE DEF y
  <2> QED BY <2>1, <2>4, QuietStep DEF x, h
<1>2. CASE Ask(r)
  <2> DEFINE y == [x EXCEPT !.pc = "approval", !.status = "awaiting_approval", !.asked = TRUE]
  <2>1. /\ Set(r, y)
        /\ Quiet /\ x.pc = "asking"
    BY <1>2 DEF Ask
  <2> HIDE DEF x, h
  <2>2. y \in RunRecord
    BY <1>0, <2>1, Fields, MoreFields, Values
  <2>3. Status(y) /\ Places(y, h)
    BY <1>0, <2>1 DEF RunRecord, Status, Places, Checkpoints, Terminal, ActiveStatuses, Pcs,
       Working, CommittedPcs, Over
  <2>4. Keeps(x, y, h)
    BY <1>0, <2>1, <2>2, <2>3 DEF RunRecord, Status, Keeps, SameMessages, Calm, Stays,
       Answers, UnderWay, Failed, Checkpoints, Terminal, ActiveStatuses, Pcs, Working,
       CommittedPcs, Over
  <2> HIDE DEF y
  <2> QED BY <2>1, <2>4, QuietStep DEF x, h
<1>3. CASE Decide(r)
  <2> DEFINE y == [x EXCEPT !.pc = "decided", !.asked = FALSE, !.verdict = "allow"]
             z == [x EXCEPT !.pc = "decided", !.asked = FALSE, !.verdict = "deny"]
  <2>1. /\ Set(r, y) \/ Set(r, z)
        /\ Quiet /\ x.asked
    BY <1>3 DEF Decide, Answered
  <2> HIDE DEF x, h
  <2>2. y \in RunRecord /\ z \in RunRecord
    BY <1>0, <2>1, Fields, MoreFields, Values
  <2>3. Status(y) /\ Places(y, h) /\ Status(z) /\ Places(z, h)
    BY <1>0, <2>1 DEF RunRecord, Status, Places, Checkpoints, Terminal, ActiveStatuses, Pcs,
       Working, CommittedPcs, Over
  <2>4. Keeps(x, y, h) /\ Keeps(x, z, h)
    BY <1>0, <2>1, <2>2, <2>3 DEF RunRecord, Status, Keeps, SameMessages, Calm, Stays,
       Answers, UnderWay, Failed, Checkpoints, Terminal, ActiveStatuses, Pcs, Working,
       CommittedPcs, Over
  <2> HIDE DEF y, z
  <2> QED BY <2>1, <2>4, QuietStep DEF x, h
<1>4. CASE ApprovalExpires(r)
  <2> DEFINE y == [x EXCEPT !.pc = "decided", !.asked = FALSE, !.verdict = "cancelled"]
  <2>1. /\ Set(r, y)
        /\ Quiet /\ x.asked
    BY <1>4 DEF ApprovalExpires, Answered
  <2> HIDE DEF x, h
  <2>2. y \in RunRecord
    BY <1>0, <2>1, Fields, MoreFields, Values
  <2>3. Status(y) /\ Places(y, h)
    BY <1>0, <2>1 DEF RunRecord, Status, Places, Checkpoints, Terminal, ActiveStatuses, Pcs,
       Working, CommittedPcs, Over
  <2>4. Keeps(x, y, h)
    BY <1>0, <2>1, <2>2, <2>3 DEF RunRecord, Status, Keeps, SameMessages, Calm, Stays,
       Answers, UnderWay, Failed, Checkpoints, Terminal, ActiveStatuses, Pcs, Working,
       CommittedPcs, Over
  <2> HIDE DEF y
  <2> QED BY <2>1, <2>4, QuietStep DEF x, h
<1>5. CASE Decided(r)
  <2> DEFINE y == [x EXCEPT !.pc = "tools", !.verdict = "none", !.status = "running_tools"]
             z == [x EXCEPT !.pc = "tools", !.verdict = "none"]
  <2>1. /\ Set(r, y) \/ Set(r, z)
        /\ Quiet /\ x.pc = "decided"
    BY <1>5 DEF Decided
  <2> HIDE DEF x, h
  <2>2. y \in RunRecord /\ z \in RunRecord
    BY <1>0, <2>1, Fields, MoreFields, Values
  <2>3. Status(y) /\ Places(y, h) /\ Status(z) /\ Places(z, h)
    BY <1>0, <2>1 DEF RunRecord, Status, Places, Checkpoints, Terminal, ActiveStatuses, Pcs,
       Working, CommittedPcs, Over
  <2>4. Keeps(x, y, h) /\ Keeps(x, z, h)
    BY <1>0, <2>1, <2>2, <2>3 DEF RunRecord, Status, Keeps, SameMessages, Calm, Stays,
       Answers, UnderWay, Failed, Checkpoints, Terminal, ActiveStatuses, Pcs, Working,
       CommittedPcs, Over
  <2> HIDE DEF y, z
  <2> QED BY <2>1, <2>4, QuietStep DEF x, h
<1>6. CASE StartSideEffect(r)
  <2> DEFINE y == [x EXCEPT !.calls = x.calls + 1, !.side = x.side + 1]
  <2>1. /\ Set(r, y)
        /\ Quiet /\ x.pc = "tools" /\ ~x.aborted
    BY <1>6 DEF StartSideEffect
  <2> HIDE DEF x, h
  <2>2. y \in RunRecord
    <3>1. x.calls + 1 \in Nat /\ x.side + 1 \in Nat
      BY <1>0, <2>1, Values
    <3> QED BY <1>0, <3>1, Fields, MoreFields, Values
  <2>3. Status(y) /\ Places(y, h)
    BY <1>0, <2>1 DEF RunRecord, Status, Places, Checkpoints, Terminal, ActiveStatuses, Pcs,
       Working, CommittedPcs, Over
  <2>4. Keeps(x, y, h)
    BY <1>0, <2>1, <2>2, <2>3 DEF RunRecord, Status, Keeps, SameMessages, Calm, Stays,
       Answers, UnderWay, Failed, Checkpoints, Terminal, ActiveStatuses, Pcs, Working,
       CommittedPcs, Over
  <2> HIDE DEF y
  <2> QED BY <2>1, <2>4, QuietStep DEF x, h
<1>7. CASE SideEffectSettles(r)
  <2> DEFINE y == [x EXCEPT !.side = x.side - 1]
  <2>1. /\ Set(r, y)
        /\ Quiet /\ x.side > 0
    BY <1>7 DEF SideEffectSettles
  <2> HIDE DEF x, h
  <2>2. y \in RunRecord
    <3>1. x.side - 1 \in Nat
      BY <1>0, <2>1, Values
    <3> QED BY <1>0, <3>1, Fields, MoreFields, Values
  <2>3. Status(y) /\ Places(y, h)
    BY <1>0, <2>1 DEF RunRecord, Status, Places, Checkpoints, Terminal, ActiveStatuses, Pcs,
       Working, CommittedPcs, Over
  <2>4. Keeps(x, y, h)
    BY <1>0, <2>1, <2>2, <2>3 DEF RunRecord, Status, Keeps, SameMessages, Calm, Stays,
       Answers, UnderWay, Failed, Checkpoints, Terminal, ActiveStatuses, Pcs, Working,
       CommittedPcs, Over
  <2> HIDE DEF y
  <2> QED BY <2>1, <2>4, QuietStep DEF x, h
<1>8. CASE ToolsDone(r)
  <2> DEFINE y == [x EXCEPT !.pc = "boundary", !.step = x.step + 1, !.calls = 0]
  <2>1. /\ Set(r, y)
        /\ Quiet /\ x.pc = "tools" /\ ~x.aborted
    BY <1>8 DEF ToolsDone
  <2> HIDE DEF x, h
  <2>2. y \in RunRecord
    <3>1. x.step + 1 \in Nat
      BY <1>0, <2>1, Values
    <3> QED BY <1>0, <3>1, Fields, MoreFields, Values
  <2>3. Status(y) /\ Places(y, h)
    BY <1>0, <2>1 DEF RunRecord, Status, Places, Checkpoints, Terminal, ActiveStatuses, Pcs,
       Working, CommittedPcs, Over
  <2>4. Keeps(x, y, h)
    BY <1>0, <2>1, <2>2, <2>3 DEF RunRecord, Status, Keeps, SameMessages, Calm, Stays,
       Answers, UnderWay, Failed, Checkpoints, Terminal, ActiveStatuses, Pcs, Working,
       CommittedPcs, Over
  <2> HIDE DEF y
  <2> QED BY <2>1, <2>4, QuietStep DEF x, h
<1> QED BY <1>1, <1>2, <1>3, <1>4, <1>5, <1>6, <1>7, <1>8

\* The end of a Run, up to the wait for its side effects.
LEMMA EndInv ==
  ASSUME IInv, NEW r \in Runs,
         End(r) \/ CloseTrace(r)
  PROVE  IInv'
<1> DEFINE x == run[r]
           h == handled[r]
<1>0. x \in RunRecord /\ h \in Fate /\ Status(x) /\ Places(x, h)
  BY Before
<1>1. CASE End(r)
  <2> DEFINE y == [x EXCEPT !.pc = "closing", !.status = "cancelled"]
             z == [x EXCEPT !.pc = "closing", !.status = x.outcome]
  <2>1. /\ Set(r, y) \/ Set(r, z)
        /\ Quiet /\ x.pc = "ending"
    BY <1>1 DEF End, EndStatus
  <2> HIDE DEF x, h
  <2>2. y \in RunRecord /\ z \in RunRecord
    BY <1>0, <2>1, Fields, MoreFields, Values DEF Status, Terminal
  <2>3. Status(y) /\ Places(y, h) /\ Status(z) /\ Places(z, h)
    BY <1>0, <2>1 DEF RunRecord, Status, Places, Checkpoints, Terminal, ActiveStatuses, Pcs,
       Working, CommittedPcs, Over
  <2>4. Keeps(x, y, h) /\ Keeps(x, z, h)
    BY <1>0, <2>1, <2>2, <2>3 DEF RunRecord, Status, Keeps, SameMessages, Calm, Stays,
       Answers, UnderWay, Failed, Checkpoints, Terminal, ActiveStatuses, Pcs, Working,
       CommittedPcs, Over
  <2> HIDE DEF y, z
  <2> QED BY <2>1, <2>4, QuietStep DEF x, h
<1>2. CASE CloseTrace(r)
  <2> DEFINE y == [x EXCEPT !.pc = "settling"]
  <2>1. /\ Set(r, y)
        /\ Quiet /\ x.pc = "closing"
    BY <1>2 DEF CloseTrace
  <2> HIDE DEF x, h
  <2>2. y \in RunRecord
    BY <1>0, <2>1, Fields, MoreFields, Values
  <2>3. Status(y) /\ Places(y, h)
    BY <1>0, <2>1 DEF RunRecord, Status, Places, Checkpoints, Terminal, ActiveStatuses, Pcs,
       Working, CommittedPcs, Over
  <2>4. Keeps(x, y, h)
    BY <1>0, <2>1, <2>2, <2>3 DEF RunRecord, Status, Keeps, SameMessages, Calm, Stays,
       Answers, UnderWay, Failed, Checkpoints, Terminal, ActiveStatuses, Pcs, Working,
       CommittedPcs, Over
  <2> HIDE DEF y
  <2> QED BY <2>1, <2>4, QuietStep DEF x, h
<1> QED BY <1>1, <1>2

(***************************************************************************)
(* Sequences of messages                                                   *)
(***************************************************************************)

LEMMA Closed ==
  /\ <<>> \in Msgs /\ Len(<<>>) = 0 /\ ToSet(<<>>) = {}
  /\ \A a, b \in Msgs : a \o b \in Msgs
  /\ \A a \in Msgs : Len(a) \in Nat /\ (Len(a) = 0 <=> a = <<>>)
  /\ \A a \in Msgs : a \o <<>> = a /\ <<>> \o a = a
  /\ \A a, b \in Msgs : Len(a \o b) = Len(a) + Len(b)
<1>1. /\ <<>> \in Msgs /\ Len(<<>>) = 0 /\ ToSet(<<>>) = {}
  BY DEF Msgs, ToSet
<1>2. \A a, b \in Msgs : a \o b \in Msgs /\ Len(a \o b) = Len(a) + Len(b)
  BY DEF Msgs
<1>3. \A a \in Msgs : Len(a) \in Nat /\ (Len(a) = 0 <=> a = <<>>)
  BY DEF Msgs
<1>4. \A a \in Msgs : a \o <<>> = a /\ <<>> \o a = a
  BY DEF Msgs
<1> QED BY <1>1, <1>2, <1>3, <1>4

LEMMA Assoc ==
  ASSUME NEW a \in Msgs, NEW b \in Msgs, NEW d \in Msgs
  PROVE  (a \o b) \o d = a \o (b \o d)
BY DEF Msgs

LEMMA Appended ==
  ASSUME NEW a \in Msgs, NEW b \in Msgs, NEW m \in Interjections
  PROVE  /\ Append(a, m) \in Msgs /\ Len(Append(a, m)) = Len(a) + 1
         /\ ToSet(Append(a, m)) = ToSet(a) \cup {m}
         /\ a \o Append(b, m) = Append(a \o b, m)
<1>1. /\ Append(a, m) \in Msgs /\ Len(a) \in Nat /\ Len(Append(a, m)) = Len(a) + 1
      /\ Append(a, m)[Len(a) + 1] = m /\ \A k \in 1..Len(a) : Append(a, m)[k] = a[k]
      /\ DOMAIN a = 1..Len(a) /\ DOMAIN Append(a, m) = 1..(Len(a) + 1)
  BY DEF Msgs
<1>2. a \o Append(b, m) = Append(a \o b, m)
  BY DEF Msgs
<1> QED BY <1>1, <1>2 DEF ToSet

LEMMA Joined ==
  ASSUME NEW a \in Msgs, NEW b \in Msgs
  PROVE  ToSet(a \o b) = ToSet(a) \cup ToSet(b)
<1> DEFINE u == a \o b
<1>1. /\ u \in Msgs /\ Len(a) \in Nat /\ Len(b) \in Nat /\ Len(u) = Len(a) + Len(b)
      /\ DOMAIN a = 1..Len(a) /\ DOMAIN b = 1..Len(b) /\ DOMAIN u = 1..Len(u)
      /\ \A k \in 1..Len(u) : u[k] = IF k <= Len(a) THEN a[k] ELSE b[k - Len(a)]
  BY DEF Msgs
<1> HIDE DEF u
<1>2. ToSet(u) \subseteq ToSet(a) \cup ToSet(b)
  BY <1>1 DEF ToSet
<1>3. ASSUME NEW k \in 1..Len(a) PROVE a[k] \in ToSet(u)
  <2>1. k \in 1..Len(u) /\ u[k] = a[k]
    BY <1>1
  <2> QED BY <1>1, <2>1 DEF ToSet
<1>4. ASSUME NEW k \in 1..Len(b) PROVE b[k] \in ToSet(u)
  <2>1. Len(a) + k \in 1..Len(u) /\ u[Len(a) + k] = b[k]
    BY <1>1
  <2> QED BY <1>1, <2>1 DEF ToSet
<1>5. ToSet(a) \subseteq ToSet(u) /\ ToSet(b) \subseteq ToSet(u)
  BY <1>1, <1>3, <1>4 DEF ToSet
<1> QED BY <1>2, <1>5 DEF u

\* One message passes from the head of one sequence to the end of another.
LEMMA Passed ==
  ASSUME NEW a \in Msgs, NEW b \in Msgs, b # <<>>
  PROVE  /\ Append(a, Head(b)) \in Msgs /\ Tail(b) \in Msgs
         /\ Append(a, Head(b)) \o Tail(b) = a \o b
BY DEF Msgs

(***************************************************************************)
(* Where the messages of a Run go                                          *)
(***************************************************************************)

\* The queue becomes a batch.
LEMMA Taken ==
  ASSUME NEW acc, NEW q \in Msgs, NEW h \in Fate,
         Placed(acc, <<>>, <<>>, q, h), h.superseded = <<>>, h.carried = <<>>
  PROVE  Placed(acc, q, <<>>, <<>>, h)
<1>1. h.injected \in Msgs
  BY Values
<1>2. acc = (h.injected \o <<>>) \o q
  BY Closed DEF Placed
<1>3. acc = (h.injected \o q) \o <<>>
  BY <1>1, <1>2, Closed
<1> DEFINE t == <<>>
<1>4. /\ t \in Msgs /\ acc = (h.injected \o q) \o t
      /\ Len(t) = Len(h.superseded) + Len(h.carried) + Len(<<>>) + Len(<<>>)
      /\ ToSet(t) = ToSet(h.superseded) \cup ToSet(h.carried) \cup ToSet(<<>>) \cup ToSet(<<>>)
      /\ t = (h.carried \o <<>>) \o <<>>
  BY <1>3, Closed
<1> HIDE DEF t
<1> QED BY <1>4 DEF Placed

\* The batch is injected.
LEMMA Injected ==
  ASSUME NEW acc, NEW b \in Msgs, NEW c \in Msgs, NEW q \in Msgs, NEW h \in Fate,
         Placed(acc, b, c, q, h)
  PROVE  LET k == [h EXCEPT !.injected = @ \o b]
         IN  k \in Fate /\ Placed(acc, <<>>, c, q, k)
<1> DEFINE k == [h EXCEPT !.injected = @ \o b]
<1>1. h.injected \in Msgs /\ h.injected \o b \in Msgs
  BY Values, Closed
<1>2. /\ k \in Fate /\ k.injected = h.injected \o b
      /\ k.superseded = h.superseded /\ k.carried = h.carried
  BY <1>1 DEF Fate
<1> HIDE DEF k
<1>3. k.injected \o <<>> = h.injected \o b
  BY <1>1, <1>2, Closed
<1>4. Placed(acc, <<>>, c, q, k)
  BY <1>2, <1>3 DEF Placed
<1> QED BY <1>2, <1>4 DEF k

\* The queue of a Run that carries nothing is superseded.
LEMMA Superseded ==
  ASSUME NEW acc, NEW b \in Msgs, NEW q \in Msgs, NEW h \in Fate,
         Placed(acc, b, <<>>, q, h), h.carried = <<>>
  PROVE  LET k == [h EXCEPT !.superseded = @ \o q]
         IN  k \in Fate /\ Placed(acc, b, <<>>, <<>>, k)
<1> DEFINE s == h.superseded
           k == [h EXCEPT !.superseded = s \o q]
<1>1. s \in Msgs /\ s \o q \in Msgs
  BY Values, Closed
<1>2. /\ k \in Fate /\ k.injected = h.injected
      /\ k.superseded = s \o q /\ k.carried = h.carried
  BY <1>1 DEF Fate
<1>3. PICK t \in Msgs : /\ acc = (h.injected \o b) \o t
                        /\ Len(t) = Len(s) + Len(h.carried) + Len(<<>>) + Len(q)
                        /\ ToSet(t) = ToSet(s) \cup ToSet(h.carried) \cup ToSet(<<>>) \cup ToSet(q)
  BY DEF Placed
<1> HIDE DEF s, k
<1>4. /\ Len(t) = Len(k.superseded) + Len(k.carried) + Len(<<>>) + Len(<<>>)
      /\ ToSet(t) = ToSet(k.superseded) \cup ToSet(k.carried) \cup ToSet(<<>>) \cup ToSet(<<>>)
  BY <1>1, <1>2, <1>3, Closed, Joined
<1>5. k.superseded = <<>> => t = (k.carried \o <<>>) \o <<>>
  BY <1>1, <1>2, <1>4, Closed
<1>6. Placed(acc, b, <<>>, <<>>, k)
  BY <1>2, <1>3, <1>4, <1>5 DEF Placed
<1> QED BY <1>2, <1>6 DEF s, k

\* A batch that was not committed goes back in front of the queue, and is superseded with it.
LEMMA RestoredSuperseded ==
  ASSUME NEW acc, NEW b \in Msgs, NEW q \in Msgs, NEW h \in Fate,
         Placed(acc, b, <<>>, q, h), h.carried = <<>>
  PROVE  LET k == [h EXCEPT !.superseded = @ \o (b \o q)]
         IN  k \in Fate /\ Placed(acc, <<>>, <<>>, <<>>, k)
<1> DEFINE s == h.superseded
           k == [h EXCEPT !.superseded = s \o (b \o q)]
<1>1. s \in Msgs /\ h.injected \in Msgs /\ b \o q \in Msgs /\ s \o (b \o q) \in Msgs
  BY Values, Closed
<1>2. /\ k \in Fate /\ k.injected = h.injected
      /\ k.superseded = s \o (b \o q) /\ k.carried = h.carried
  BY <1>1 DEF Fate
<1>3. PICK t \in Msgs : /\ acc = (h.injected \o b) \o t
                        /\ Len(t) = Len(s) + Len(h.carried) + Len(<<>>) + Len(q)
                        /\ ToSet(t) = ToSet(s) \cup ToSet(h.carried) \cup ToSet(<<>>) \cup ToSet(q)
  BY DEF Placed
<1> DEFINE u == b \o t
<1> HIDE DEF s, k
<1>4. /\ u \in Msgs /\ Len(u) = Len(b) + Len(t) /\ ToSet(u) = ToSet(b) \cup ToSet(t)
  BY <1>3, Closed, Joined
<1>5. acc = (k.injected \o <<>>) \o u
  <2>1. (h.injected \o b) \o t = h.injected \o (b \o t)
    <3>1. h.injected \in Msgs
      BY <1>1
    <3> QED BY <3>1, Assoc
  <2>2. k.injected \o <<>> = h.injected
    BY <1>1, <1>2, Closed
  <2> QED BY <1>3, <2>1, <2>2
<1> HIDE DEF u
<1>6. /\ Len(u) = Len(k.superseded) + Len(k.carried) + Len(<<>>) + Len(<<>>)
      /\ ToSet(u) = ToSet(k.superseded) \cup ToSet(k.carried) \cup ToSet(<<>>) \cup ToSet(<<>>)
  BY <1>1, <1>2, <1>3, <1>4, Closed, Joined
<1>7. k.superseded = <<>> => u = (k.carried \o <<>>) \o <<>>
  BY <1>1, <1>2, <1>4, <1>6, Closed
<1>8. Placed(acc, <<>>, <<>>, <<>>, k)
  BY <1>2, <1>4, <1>5, <1>6, <1>7 DEF Placed
<1> QED BY <1>2, <1>8 DEF s, k

\* The queue is what a Run that ended by itself carries over.
LEMMA Left ==
  ASSUME NEW acc, NEW b \in Msgs, NEW q \in Msgs, NEW h \in Fate,
         Placed(acc, b, <<>>, q, h), h.carried = <<>>
  PROVE  Placed(acc, b, q, <<>>, h)
<1>1. PICK t \in Msgs :
        /\ acc = (h.injected \o b) \o t
        /\ Len(t) = Len(h.superseded) + Len(h.carried) + Len(<<>>) + Len(q)
        /\ ToSet(t) = ToSet(h.superseded) \cup ToSet(h.carried) \cup ToSet(<<>>) \cup ToSet(q)
        /\ h.superseded = <<>> => t = (h.carried \o <<>>) \o q
        /\ h.superseded # <<>> => q = <<>>
  BY DEF Placed
<1>2. h.superseded \in Msgs /\ (h.carried \o <<>>) \o q = (h.carried \o q) \o <<>>
  BY Values, Closed
<1>3. /\ Len(t) = Len(h.superseded) + Len(h.carried) + Len(q) + Len(<<>>)
      /\ ToSet(t) = ToSet(h.superseded) \cup ToSet(h.carried) \cup ToSet(q) \cup ToSet(<<>>)
  BY <1>1, <1>2, Closed
<1> QED BY <1>1, <1>2, <1>3 DEF Placed

\* A message is carried over.
LEMMA CarriedOver ==
  ASSUME NEW acc, NEW b \in Msgs, NEW c \in Msgs, NEW h \in Fate, c # <<>>,
         Placed(acc, b, c, <<>>, h)
  PROVE  LET k == [h EXCEPT !.carried = Append(@, Head(c))]
         IN  k \in Fate /\ Placed(acc, b, Tail(c), <<>>, k) /\ h.superseded = <<>>
<1> DEFINE d == h.carried
           e == Append(d, Head(c))
           k == [h EXCEPT !.carried = e]
           f == Tail(c)
<1>1. d \in Msgs /\ e \in Msgs /\ f \in Msgs /\ e \o f = d \o c
  BY Values, Passed
<1>2. k \in Fate /\ k.injected = h.injected /\ k.superseded = h.superseded /\ k.carried = e
  BY <1>1 DEF Fate
<1>3. PICK t \in Msgs :
        /\ acc = (h.injected \o b) \o t
        /\ Len(t) = Len(h.superseded) + Len(d) + Len(c) + Len(<<>>)
        /\ ToSet(t) = ToSet(h.superseded) \cup ToSet(d) \cup ToSet(c) \cup ToSet(<<>>)
        /\ h.superseded = <<>> => t = (d \o c) \o <<>>
        /\ h.superseded # <<>> => c = <<>>
  BY DEF Placed
<1> HIDE DEF d, e, k, f
<1>4. Len(e) + Len(f) = Len(d) + Len(c) /\ ToSet(e) \cup ToSet(f) = ToSet(d) \cup ToSet(c)
  <2>1. /\ Len(e \o f) = Len(e) + Len(f) /\ Len(d \o c) = Len(d) + Len(c)
        /\ ToSet(e \o f) = ToSet(e) \cup ToSet(f) /\ ToSet(d \o c) = ToSet(d) \cup ToSet(c)
    BY <1>1, Closed, Joined
  <2> QED BY <1>1, <2>1
<1>5. h.superseded = <<>> /\ h.superseded \in Msgs
  BY <1>3, Values
<1>6. /\ Len(t) = Len(k.superseded) + Len(k.carried) + Len(f) + Len(<<>>)
      /\ ToSet(t) = ToSet(k.superseded) \cup ToSet(k.carried) \cup ToSet(f) \cup ToSet(<<>>)
  <2>1. /\ Len(d) \in Nat /\ Len(c) \in Nat /\ Len(e) \in Nat /\ Len(f) \in Nat
        /\ Len(k.superseded) \in Nat /\ Len(<<>>) = 0
    BY <1>1, <1>2, <1>5, Closed
  <2>2. Len(t) = Len(k.superseded) + Len(k.carried) + Len(f) + Len(<<>>)
    BY <1>2, <1>3, <1>4, <2>1
  <2> QED BY <1>2, <1>3, <1>4, <2>2
<1>7. t = (k.carried \o f) \o <<>>
  BY <1>1, <1>2, <1>3, <1>5
<1>8. Placed(acc, b, f, <<>>, k)
  BY <1>2, <1>3, <1>5, <1>6, <1>7 DEF Placed
<1> QED BY <1>2, <1>5, <1>8 DEF d, e, k, f

\* A message is accepted.
LEMMA Accepted ==
  ASSUME NEW acc \in Msgs, NEW b \in Msgs, NEW q \in Msgs, NEW h \in Fate,
         NEW i \in Interjections,
         Placed(acc, b, <<>>, q, h), h.superseded = <<>>, h.carried = <<>>
  PROVE  Placed(Append(acc, i), b, <<>>, Append(q, i), h)
<1>1. h.injected \in Msgs /\ h.injected \o b \in Msgs
  BY Values, Closed
<1>2. acc = (h.injected \o b) \o q
  BY Closed DEF Placed
<1> DEFINE u == Append(q, i)
<1>3. /\ u \in Msgs /\ Append(acc, i) = (h.injected \o b) \o u
  BY <1>1, <1>2, Appended
<1> HIDE DEF u
<1>4. /\ Len(u) = Len(h.superseded) + Len(h.carried) + Len(<<>>) + Len(u)
      /\ ToSet(u) = ToSet(h.superseded) \cup ToSet(h.carried) \cup ToSet(<<>>) \cup ToSet(u)
      /\ u = (h.carried \o <<>>) \o u
  BY <1>3, Closed
<1>5. Placed(Append(acc, i), b, <<>>, u, h)
  BY <1>3, <1>4 DEF Placed
<1> QED BY <1>5 DEF u

(***************************************************************************)
(* Steps that move messages                                                *)
(***************************************************************************)

\* drain: the queue, if there is one, becomes the batch.
LEMMA DrainInv ==
  ASSUME IInv, NEW r \in Runs, Drain(r)
  PROVE  IInv'
<1> DEFINE x == run[r]
           h == handled[r]
           y == [x EXCEPT !.pc = "request", !.status = "calling_llm"]
           z == [x EXCEPT !.pc = "drain", !.batch = x.queue, !.queue = <<>>]
<1>0. /\ x \in RunRecord /\ h \in Fate /\ Status(x) /\ Places(x, h)
      /\ Placed(x.accepted, x.batch, x.carry, x.queue, h)
  BY Before
<1>1. /\ x.pc = "boundary" /\ ~x.aborted /\ Quiet
      /\ Set(r, y) \/ Set(r, z)
  BY DEF Drain, Passes
<1> HIDE DEF x, h
<1>2. y \in RunRecord /\ z \in RunRecord
  BY <1>0, Fields, MoreFields, Values
<1>3. Status(y) /\ Places(y, h) /\ Status(z) /\ Places(z, h)
  BY <1>0, <1>1 DEF RunRecord, Status, Places, Terminal, Working, CommittedPcs, Over
<1>4. /\ Calm(x, y) /\ SameMessages(x, y) /\ Calm(x, z)
      /\ z.accepted = x.accepted /\ z.carry = x.carry /\ z.batch = x.queue /\ z.queue = <<>>
  BY <1>0, <1>1 DEF RunRecord, Calm, Stays, Answers, SameMessages, UnderWay, Failed,
     Working, CommittedPcs, Over
<1>5. /\ x.batch = <<>> /\ x.carry = <<>> /\ h.superseded = <<>> /\ h.carried = <<>>
      /\ x.queue \in Msgs
  BY <1>0, <1>1, Values DEF Places, Working, CommittedPcs
<1>6. Placed(x.accepted, x.queue, <<>>, <<>>, h)
  BY <1>0, <1>5, Taken
<1> HIDE DEF y, z
<1>7. RunInv(z, h)
  BY <1>3, <1>4, <1>5, <1>6 DEF RunInv
<1>8. CASE Set(r, y)
  BY <1>1, <1>2, <1>3, <1>4, <1>8, QuietStep DEF Keeps, x, h
<1>9. CASE Set(r, z)
  <2>1. Comes(r, z, h)
    BY <1>0, <1>1, <1>2, <1>9 DEF IInv, Types, Comes, Set, Quiet, h
  <2> QED BY <1>1, <1>4, <1>7, <2>1, CalmStep DEF Quiet, x
<1> QED BY <1>1, <1>8, <1>9

\* The batch is committed and injected.
LEMMA CommitDrainInv ==
  ASSUME IInv, NEW r \in Runs, CommitDrain(r)
  PROVE  IInv'
<1> DEFINE x == run[r]
           h == handled[r]
           y == [x EXCEPT !.pc = "request", !.status = "calling_llm", !.batch = <<>>]
           k == [h EXCEPT !.injected = @ \o x.batch]
<1>0. /\ x \in RunRecord /\ h \in Fate /\ Status(x) /\ Places(x, h)
      /\ Placed(x.accepted, x.batch, x.carry, x.queue, h)
  BY Before
<1>1. x.pc = "drain" /\ Set(r, y) /\ UNCHANGEDSession /\ UNCHANGEDGate
  BY DEF CommitDrain
<1>2. handled' = [handled EXCEPT ![r] = k]
  BY DEF CommitDrain
<1> HIDE DEF x, h
<1>3. y \in RunRecord
  BY <1>0, Fields, MoreFields, Values
<1>4. k \in Fate /\ Placed(x.accepted, <<>>, x.carry, x.queue, k)
  BY <1>0, Values, Injected
<1>5. k.superseded = h.superseded /\ k.carried = h.carried
  BY <1>0 DEF Fate
<1> HIDE DEF k
<1>6. Status(y) /\ Places(y, k)
  BY <1>0, <1>1, <1>5 DEF RunRecord, Status, Places, Terminal, Working, CommittedPcs, Over
<1>7. /\ Calm(x, y) /\ y.accepted = x.accepted /\ y.carry = x.carry /\ y.batch = <<>>
      /\ y.queue = x.queue
  BY <1>0, <1>1 DEF RunRecord, Calm, Stays, Answers, UnderWay, Failed, Working,
     CommittedPcs, Over
<1> HIDE DEF y
<1>8. RunInv(y, k)
  BY <1>4, <1>6, <1>7 DEF RunInv
<1>9. Comes(r, y, k)
  BY <1>1, <1>2, <1>3, <1>4 DEF Comes, Set
<1> QED BY <1>1, <1>7, <1>8, <1>9, CalmStep DEF x

\* The commit fails: the batch is superseded together with the queue.
LEMMA DrainFailsInv ==
  ASSUME IInv, NEW r \in Runs, DrainFails(r)
  PROVE  IInv'
<1> DEFINE x == run[r]
           h == handled[r]
           o == IF x.aborted THEN "cancelled" ELSE "failed"
           y == [x EXCEPT !.pc = "ending", !.accepting = FALSE, !.batch = <<>>, !.queue = <<>>,
                          !.outcome = o]
           k == [h EXCEPT !.superseded = @ \o (x.batch \o x.queue)]
<1>0. /\ x \in RunRecord /\ h \in Fate /\ Status(x) /\ Places(x, h)
      /\ Placed(x.accepted, x.batch, x.carry, x.queue, h)
  BY Before
<1>1. x.pc = "drain" /\ Set(r, y) /\ UNCHANGEDSession /\ UNCHANGEDGate
  BY DEF DrainFails
<1>2. handled' = [handled EXCEPT ![r] = k]
  BY DEF DrainFails, Restored
<1> HIDE DEF x, h
<1>3. o \in Terminal /\ o \in Terminal \cup {"none"}
  BY DEF Terminal
<1> HIDE DEF o
<1>4. y \in RunRecord
  BY <1>0, <1>3, Fields, MoreFields, Values
<1>5. x.carry = <<>> /\ h.carried = <<>> /\ x.committed
  BY <1>0, <1>1 DEF Status, Places, CommittedPcs, Over
<1>6. k \in Fate /\ Placed(x.accepted, <<>>, <<>>, <<>>, k)
  BY <1>0, <1>5, Values, RestoredSuperseded
<1>7. k.carried = h.carried
  BY <1>0 DEF Fate
<1> HIDE DEF k
<1>8. Status(y) /\ Places(y, k)
  BY <1>0, <1>1, <1>3, <1>5, <1>7 DEF RunRecord, Status, Places, Terminal, Working,
     CommittedPcs, Over
<1>9. /\ Calm(x, y) /\ y.accepted = x.accepted /\ y.carry = x.carry /\ y.batch = <<>>
      /\ y.queue = <<>>
  BY <1>0, <1>1, <1>5 DEF RunRecord, Calm, Stays, Answers, UnderWay, Failed, Working,
     CommittedPcs, Over
<1> HIDE DEF y
<1>10. RunInv(y, k)
  BY <1>5, <1>6, <1>8, <1>9 DEF RunInv
<1>11. Comes(r, y, k)
  BY <1>1, <1>2, <1>4, <1>6 DEF Comes, Set
<1> QED BY <1>1, <1>9, <1>10, <1>11, CalmStep DEF x

\* The final answer: what is queued will be carried over.
LEMMA FinishInv ==
  ASSUME IInv, NEW r \in Runs, Finish(r)
  PROVE  IInv'
<1> DEFINE x == run[r]
           h == handled[r]
           y == [x EXCEPT !.pc = "carry", !.accepting = FALSE, !.carry = x.queue, !.queue = <<>>]
<1>0. /\ x \in RunRecord /\ h \in Fate /\ Status(x) /\ Places(x, h)
      /\ Placed(x.accepted, x.batch, x.carry, x.queue, h)
  BY Before
<1>1. x.pc = "answered" /\ Set(r, y) /\ Quiet
  BY DEF Finish
<1> HIDE DEF x, h
<1>2. y \in RunRecord
  BY <1>0, Fields, MoreFields, Values
<1>3. x.batch = <<>> /\ x.carry = <<>> /\ h.carried = <<>> /\ x.queue \in Msgs
  BY <1>0, <1>1, Values DEF Places, Over
<1>4. Placed(x.accepted, <<>>, x.queue, <<>>, h)
  BY <1>0, <1>3, Closed, Left
<1>5. Status(y) /\ Places(y, h)
  BY <1>0, <1>1, <1>3 DEF RunRecord, Status, Places, Terminal, Working, CommittedPcs, Over
<1>6. /\ Calm(x, y) /\ y.accepted = x.accepted /\ y.carry = x.queue /\ y.batch = <<>>
      /\ y.queue = <<>>
  BY <1>0, <1>1, <1>3 DEF RunRecord, Calm, Stays, Answers, UnderWay, Failed, Working,
     CommittedPcs, Over
<1> HIDE DEF y
<1>7. RunInv(y, h)
  BY <1>4, <1>5, <1>6 DEF RunInv
<1>8. Comes(r, y, h)
  BY <1>0, <1>1, <1>2 DEF IInv, Types, Comes, Set, Quiet, h
<1> QED BY <1>1, <1>6, <1>7, <1>8, CalmStep DEF Quiet, x

\* One message is carried over.
LEMMA CarryOneInv ==
  ASSUME IInv, NEW r \in Runs, CarryOne(r)
  PROVE  IInv'
<1> DEFINE x == run[r]
           h == handled[r]
           y == [x EXCEPT !.carry = Tail(x.carry)]
           k == [h EXCEPT !.carried = Append(@, Head(x.carry))]
<1>0. /\ x \in RunRecord /\ h \in Fate /\ Status(x) /\ Places(x, h)
      /\ Placed(x.accepted, x.batch, x.carry, x.queue, h)
  BY Before
<1>1. x.pc = "carry" /\ x.carry # <<>> /\ Set(r, y) /\ UNCHANGEDSession /\ UNCHANGEDGate
  BY DEF CarryOne
<1>2. handled' = [handled EXCEPT ![r] = k]
  BY DEF CarryOne
<1> HIDE DEF x, h
<1>3. y \in RunRecord
  BY <1>0, <1>1, Fields, MoreFields, Values, Passed
<1>4. x.queue = <<>>
  BY <1>0, <1>1 DEF Places
<1>5. k \in Fate /\ Placed(x.accepted, x.batch, Tail(x.carry), <<>>, k) /\ h.superseded = <<>>
  <2>1. Placed(x.accepted, x.batch, x.carry, <<>>, h) /\ x.batch \in Msgs /\ x.carry \in Msgs
    BY <1>0, <1>4, Values
  <2> QED BY <1>0, <1>1, <2>1, CarriedOver
<1>6. k.superseded = h.superseded
  BY <1>0 DEF Fate
<1> HIDE DEF k
<1>7. Status(y) /\ Places(y, k)
  BY <1>0, <1>1, <1>6 DEF RunRecord, Status, Places, Terminal, Working, CommittedPcs, Over
<1>8. /\ Calm(x, y) /\ y.accepted = x.accepted /\ y.carry = Tail(x.carry)
      /\ y.batch = x.batch /\ y.queue = <<>>
  BY <1>0, <1>1, <1>4 DEF RunRecord, Calm, Stays, Answers, UnderWay, Failed, Working,
     CommittedPcs, Over
<1> HIDE DEF y
<1>9. RunInv(y, k)
  BY <1>5, <1>7, <1>8 DEF RunInv
<1>10. Comes(r, y, k)
  BY <1>1, <1>2, <1>3, <1>5 DEF Comes, Set
<1> QED BY <1>1, <1>8, <1>9, <1>10, CalmStep DEF x

\* A message is accepted, which only a Run that has superseded nothing does.
LEMMA InterjectInv ==
  ASSUME IInv, NEW r \in Runs, NEW i \in Interjections, Interject(r, i)
  PROVE  IInv'
<1> DEFINE x == run[r]
           h == handled[r]
           y == [x EXCEPT !.accepted = Append(x.accepted, i), !.queue = Append(x.queue, i)]
<1>0. /\ x \in RunRecord /\ h \in Fate /\ Status(x) /\ Places(x, h)
      /\ Placed(x.accepted, x.batch, x.carry, x.queue, h)
  BY Before
<1>1. x.accepting /\ active = r /\ x.status \notin Terminal /\ Set(r, y) /\ Quiet
  BY DEF Interject
<1>2. x.pc \notin {"none", "gone"}
  BY <1>1 DEF IInv, SessionInv, Turns, Runs, NoRun
<1> HIDE DEF x, h
<1>3. Append(x.accepted, i) \in Msgs /\ Append(x.queue, i) \in Msgs
  BY <1>0, Values, Appended
<1>4. y \in RunRecord
  BY <1>0, <1>3, Fields, MoreFields, Values
<1>5. x.carry = <<>> /\ h.superseded = <<>> /\ h.carried = <<>>
  BY <1>0, <1>1 DEF Places
<1>6. Placed(Append(x.accepted, i), x.batch, <<>>, Append(x.queue, i), h)
  BY <1>0, <1>5, Values, Accepted
<1>7. Status(y) /\ Places(y, h)
  BY <1>0, <1>1 DEF RunRecord, Status, Places, Terminal, Working, CommittedPcs, Over
<1>8. /\ Calm(x, y) /\ y.accepted = Append(x.accepted, i) /\ y.carry = <<>>
      /\ y.batch = x.batch /\ y.queue = Append(x.queue, i)
  BY <1>0, <1>1, <1>2, <1>5 DEF RunRecord, Calm, Stays, Answers, UnderWay, Failed, Status, Pcs,
     Working, CommittedPcs, Over
<1> HIDE DEF y
<1>9. RunInv(y, h)
  BY <1>6, <1>7, <1>8 DEF RunInv
<1>10. Comes(r, y, h)
  BY <1>0, <1>1, <1>4 DEF IInv, Types, Comes, Set, Quiet, h
<1> QED BY <1>1, <1>8, <1>9, <1>10, CalmStep DEF Quiet, x

(***************************************************************************)
(* Steps that the Session notices                                          *)
(***************************************************************************)

\* The user acts: nothing may be claimed, and the epoch in force is nobody's.
LEMMA IntentGate ==
  ASSUME Types, Gate, UNCHANGED <<started, claims>>, Invalidate(NoRun), acted' = claims
  PROVE  Gate'
BY DEF Types, Gate, Invalidate, Runs, NoRun

LEMMA IntentInv ==
  ASSUME IInv, Invalidate(NoRun), acted' = claims,
         UNCHANGED <<run, active, started, closed, request, claims, handled>>
  PROVE  IInv'
<1> USE DEF IInv, SessionInv
<1>1. Types'
  BY DEF Types, Invalidate
<1>2. RunsInv'
  BY DEF RunsInv
<1>3. Turns' /\ Named'
  BY DEF Turns, Named
<1>4. Gate'
  BY IntentGate
<1> QED BY <1>1, <1>2, <1>3, <1>4

LEMMA ClaimInv ==
  ASSUME IInv, ClaimWakeup \/ \E c \in claims : DropWakeup(c)
  PROVE  IInv'
<1> USE DEF IInv, SessionInv
<1>1. UNCHANGED <<run, active, started, closed, request, epoch, handled>>
  BY DEF ClaimWakeup, DropWakeup
<1>2. Types' /\ Gate'
  <2>1. CASE ClaimWakeup
    BY <1>1, <2>1 DEF ClaimWakeup, Types, Gate, NoRun, Runs
  <2>2. CASE \E c \in claims : DropWakeup(c)
    BY <1>1, <2>2 DEF DropWakeup, Types, Gate
  <2> QED BY <2>1, <2>2
<1>3. RunsInv'
  BY <1>1 DEF RunsInv
<1>4. Turns' /\ Named'
  BY <1>1 DEF Turns, Named
<1> QED BY <1>2, <1>3, <1>4

LEMMA NothingPlaced == Placed(<<>>, <<>>, <<>>, <<>>, NothingMet)
<1> DEFINE t == <<>>
           h == NothingMet
<1>1. h.injected = <<>> /\ h.superseded = <<>> /\ h.carried = <<>>
  BY DEF NothingMet
<1> HIDE DEF h
<1>2. /\ t \in Msgs /\ <<>> = (h.injected \o <<>>) \o t
      /\ Len(t) = Len(h.superseded) + Len(h.carried) + Len(<<>>) + Len(<<>>)
      /\ ToSet(t) = ToSet(h.superseded) \cup ToSet(h.carried) \cup ToSet(<<>>) \cup ToSet(<<>>)
      /\ t = (h.carried \o <<>>) \o <<>>
  BY <1>1, Closed
<1> HIDE DEF t
<1>3. Placed(<<>>, <<>>, <<>>, <<>>, h)
  BY <1>1, <1>2 DEF Placed
<1> QED BY <1>3 DEF h

LEMMA NewRuns ==
  ASSUME NEW kind \in {"turn", "compact", "wake"}, NEW q \in Requests \cup {NoRequest}
  PROVE  LET y == NewRun(kind, q)
         IN  /\ y \in RunRecord /\ RunInv(y, NothingMet) /\ y.pc = "prepare" /\ y.req = q
             /\ ~Failed(y)
<1> DEFINE y == NewRun(kind, q)
<1>1. y \in RunRecord
  BY Closed DEF NewRun, RunRecord, Pcs, Working, Checkpoints, ActiveStatuses
<1>2. /\ y.pc = "prepare" /\ y.status = "idle" /\ y.req = q /\ ~y.asked /\ y.accepting
      /\ y.accepted = <<>> /\ y.batch = <<>> /\ y.carry = <<>> /\ y.queue = <<>>
  BY DEF NewRun
<1> HIDE DEF y
<1>3. Status(y)
  BY <1>2 DEF Status, Over, Terminal, CommittedPcs
<1>4. Places(y, NothingMet)
  BY <1>2 DEF Places, NothingMet, Over, Working, CommittedPcs
<1>5. RunInv(y, NothingMet)
  BY <1>2, <1>3, <1>4, NothingPlaced DEF RunInv
<1>6. ~Failed(y)
  BY <1>2 DEF Failed, Over
<1> QED BY <1>1, <1>2, <1>5, <1>6 DEF y

LEMMA InitInv == Init => IInv
<1> SUFFICES ASSUME Init PROVE IInv
  OBVIOUS
<1> DEFINE y == Unborn
<1>1. y \in RunRecord
  <2>1. NewRun("turn", NoRequest) \in RunRecord
    BY NewRuns
  <2> QED BY <2>1, Fields, Values DEF Unborn
<1>2. /\ y.pc = "none" /\ ~y.committed /\ y.status = "idle" /\ ~y.asked
      /\ ~y.accepting /\ y.side = 0
      /\ y.accepted = <<>> /\ y.batch = <<>> /\ y.carry = <<>> /\ y.queue = <<>>
  BY DEF Unborn, NewRun
<1>3. NothingMet \in Fate
  BY Closed DEF NothingMet, Fate
<1> HIDE DEF y
<1>4. Status(y)
  BY <1>2 DEF Status, Over, Terminal, CommittedPcs
<1>5. Places(y, NothingMet)
  BY <1>2 DEF Places, NothingMet, Over, Working, CommittedPcs
<1>6. RunInv(y, NothingMet)
  BY <1>2, <1>4, <1>5, NothingPlaced DEF RunInv
<1>7. run = [r \in Runs |-> y] /\ handled = [r \in Runs |-> NothingMet]
  BY DEF Init, y
<1>8. RunsInv
  BY <1>6, <1>7 DEF RunsInv
<1>9. Types
  <2>1. run \in [Runs -> RunRecord] /\ handled \in [Runs -> Fate]
    BY <1>1, <1>3, <1>7
  <2>2. active = NoRun /\ started \in 0..MaxRuns /\ closed = FALSE
    BY RunBounds DEF Init
  <2>3. request \in [Requests -> Runs \cup {NoRun}]
    BY DEF Init
  <2> QED BY <2>1, <2>2, <2>3 DEF Init, Types
<1>10. SessionInv
  BY <1>2, <1>7 DEF Init, SessionInv, Turns, Named, Gate, UnderWay, Working, CommittedPcs,
     Runs, NoRun
<1> QED BY <1>8, <1>9, <1>10 DEF IInv

\* A Run begins where none is under way; it is a new one, and its epoch is in force.
LEMMA BeginInv ==
  ASSUME IInv, MayStart, NEW kind \in {"turn", "compact", "wake"},
         NEW q \in Requests \cup {NoRequest}, Begin(kind, q),
         UNCHANGED <<closed, handled>>,
         claims' \subseteq claims, acted' \subseteq claims',
         \/ /\ q \in Requests /\ request[q] = NoRun
            /\ request' = [request EXCEPT ![q] = started + 1]
         \/ q = NoRequest /\ UNCHANGED request
  PROVE  IInv'
<1> DEFINE r == started + 1
           y == NewRun(kind, q)
<1> USE DEF IInv, SessionInv
<1>1. /\ y \in RunRecord /\ RunInv(y, NothingMet) /\ y.pc = "prepare" /\ y.req = q
      /\ ~Failed(y)
  BY NewRuns
<1>2. /\ run' = [run EXCEPT ![r] = y] /\ active' = r /\ started' = r /\ epoch' = r
      /\ eligible' = NoRun
  BY DEF Begin, Invalidate
<1>3. r \in Runs /\ r # NoRun /\ started' \in 0..MaxRuns
  BY <1>2, RunBounds DEF MayStart, Types, Runs, NoRun
<1> HIDE DEF y
<1>4. run[r].pc = "none" /\ handled[r] = NothingMet
  <2>1. run[r].pc = "none"
    BY <1>3 DEF Turns, Types
  <2> QED BY <1>3, <2>1, Before DEF Places
<1>5. Comes(r, y, NothingMet)
  <2>1. NothingMet \in Fate
    BY <1>3, <1>4, RunTyped
  <2> QED BY <1>1, <1>2, <1>4, <2>1 DEF Types, Comes
<1>6. run'[r] = y /\ \A s \in Runs \ {r} : run'[s] = run[s]
  BY <1>3, <1>5, RunComes
<1>7. Types'
  BY <1>2, <1>3, <1>5, RunComes DEF Types
<1>8. RunsInv'
  BY <1>1, <1>3, <1>5, OneRun
<1>9. Turns'
  <2>1. \A s \in Runs : run'[s].pc = "none" <=> s > started'
    BY <1>1, <1>2, <1>3, <1>6 DEF Turns, Types, Runs
  <2>2. ASSUME NEW s \in Runs, UnderWay(run'[s]) PROVE active' = s
    <3>1. CASE s = r
      BY <1>2, <3>1
    <3>2. CASE s # r
      <4>1. UnderWay(run[s]) /\ active = s /\ s # NoRun
        BY <1>6, <2>2, <3>2 DEF Turns, Runs, NoRun
      <4>2. run[s].status \in Terminal
        BY <4>1 DEF MayStart
      <4>3. run[s].pc \in Over
        BY <4>2, Before DEF Status
      <4> QED BY <4>1, <4>3 DEF UnderWay, Over, Working, CommittedPcs
    <3> QED BY <3>1, <3>2
  <2>3. run'[active'].pc \notin {"none", "gone"}
    BY <1>1, <1>2, <1>6
  <2> QED BY <2>1, <2>2, <2>3 DEF Turns
<1>10. Named'
  <2>1. ASSUME NEW p \in Requests, request'[p] # NoRun
        PROVE  LET x == run'[request'[p]] IN x.req = p /\ x.pc # "none" /\ ~Failed(x)
    <3>1. CASE p = q
      <4>1. request'[p] = r
        BY <3>1, RequestNames DEF Types
      <4> QED BY <1>1, <1>6, <3>1, <4>1
    <3>2. CASE p # q
      <4>1. request'[p] = request[p]
        BY <3>2 DEF Types
      <4>2. /\ run[request[p]].req = p /\ run[request[p]].pc # "none"
            /\ ~Failed(run[request[p]])
        BY <2>1, <4>1 DEF Named
      <4>3. request[p] \in Runs \ {r}
        BY <1>4, <2>1, <4>1, <4>2 DEF Types
      <4> QED BY <1>6, <4>1, <4>2, <4>3
    <3> QED BY <3>1, <3>2
  <2>2. ASSUME NEW s \in Runs, run'[s].pc # "none", run'[s].req \in Requests, ~Failed(run'[s])
        PROVE  request'[run'[s].req] = s
    <3>1. CASE s = r
      <4>1. run'[s].req = q /\ q \in Requests
        BY <1>1, <1>6, <2>2, <3>1
      <4>2. request' = [request EXCEPT ![q] = r]
        BY <4>1, RequestNames
      <4> QED BY <3>1, <4>1, <4>2 DEF Types
    <3>2. CASE s # r
      <4>1. run'[s] = run[s] /\ request[run[s].req] = s
        BY <1>6, <2>2, <3>2 DEF Named
      <4>2. s # NoRun
        BY DEF Runs, NoRun
      <4>3. request'[run[s].req] = request[run[s].req]
        BY <2>2, <4>1, <4>2 DEF Types
      <4> QED BY <4>1, <4>3
    <3> QED BY <3>1, <3>2
  <2> QED BY <2>1, <2>2 DEF Named
<1>11. Gate'
  <2>1. started \in Nat /\ \A c \in claims' : c <= started /\ c \in Nat
    BY DEF Gate, Types, Runs
  <2>2. epoch' \notin acted' /\ \A c \in claims' : c <= started'
    BY <1>2, <2>1
  <2>3. epoch' <= started' /\ eligible' <= started'
    BY <1>2, <2>1 DEF NoRun
  <2> QED BY <1>2, <2>2, <2>3 DEF Gate
<1> QED BY <1>7, <1>8, <1>9, <1>10, <1>11

\* Pcs at which the catch block may be reached.
Throwing == {"prepare", "input", "compacting", "boundary", "request", "provider", "answered",
             "settle", "parked", "tools"}

\* What the catch block makes of a Run and its messages.
LEMMA FailedRun ==
  ASSUME NEW x \in RunRecord, NEW h \in Fate, RunInv(x, h), x.pc \in Throwing,
         x.pc = "parked" => x.aborted, NEW o \in Terminal
  PROVE  LET y == [x EXCEPT !.pc = "ending", !.accepting = FALSE, !.queue = <<>>, !.outcome = o]
             k == [h EXCEPT !.superseded = @ \o x.queue]
         IN  /\ y \in RunRecord /\ k \in Fate /\ RunInv(y, k) /\ Stays(x, y)
             /\ y.req = x.req /\ y.committed = x.committed /\ y.pc = "ending"
<1> DEFINE y == [x EXCEPT !.pc = "ending", !.accepting = FALSE, !.queue = <<>>, !.outcome = o]
           k == [h EXCEPT !.superseded = @ \o x.queue]
<1>1. /\ Status(x) /\ Places(x, h)
      /\ Placed(x.accepted, x.batch, x.carry, x.queue, h)
  BY DEF RunInv
<1>2. y \in RunRecord
  BY Fields, MoreFields, Values
<1>3. x.batch = <<>> /\ x.carry = <<>> /\ h.carried = <<>>
  BY <1>1 DEF Places, Over, Throwing
<1>4. k \in Fate /\ Placed(x.accepted, <<>>, <<>>, <<>>, k)
  <2>1. Placed(x.accepted, <<>>, <<>>, x.queue, h) /\ <<>> \in Msgs /\ x.queue \in Msgs
    BY <1>1, <1>3, Values
  <2> QED BY <1>3, <2>1, Superseded
<1>5. k.carried = h.carried
  BY DEF Fate
<1> HIDE DEF k
<1>6. Status(y) /\ Places(y, k)
  BY <1>1, <1>3, <1>5 DEF RunRecord, Status, Places, Terminal, Working, CommittedPcs, Over,
     Throwing
<1>7. /\ Stays(x, y) /\ y.accepted = x.accepted /\ y.carry = <<>> /\ y.batch = <<>>
      /\ y.queue = <<>> /\ y.req = x.req /\ y.committed = x.committed /\ y.pc = "ending"
  BY <1>3 DEF RunRecord, Stays, UnderWay, Working, CommittedPcs, Throwing
<1> HIDE DEF y
<1>8. RunInv(y, k)
  BY <1>4, <1>6, <1>7 DEF RunInv
<1> QED BY <1>2, <1>4, <1>7, <1>8 DEF y, k

\* The catch block; a request whose input is not durable is forgotten with its Run.
LEMMA FailInv ==
  ASSUME IInv, NEW r \in Runs, NEW o \in Terminal, FailWith(r, o), run[r].pc \in Throwing,
         run[r].pc = "parked" => run[r].aborted
  PROVE  IInv'
<1> USE DEF IInv, SessionInv
<1> DEFINE x == run[r]
           h == handled[r]
           y == [x EXCEPT !.pc = "ending", !.accepting = FALSE, !.queue = <<>>, !.outcome = o]
           k == [h EXCEPT !.superseded = @ \o x.queue]
<1>0. x \in RunRecord /\ h \in Fate /\ RunInv(x, h)
  BY Before DEF RunsInv
<1>1. /\ Set(r, y) /\ handled' = [handled EXCEPT ![r] = k]
      /\ request' = IF x.req \in Requests /\ ~x.committed
                    THEN [request EXCEPT ![x.req] = NoRun] ELSE request
      /\ UNCHANGED <<active, started, closed>> /\ UNCHANGEDGate
  BY DEF FailWith
<1> HIDE DEF x, h
<1>2. /\ y \in RunRecord /\ k \in Fate /\ RunInv(y, k) /\ Stays(x, y)
      /\ y.req = x.req /\ y.committed = x.committed /\ y.pc = "ending"
  BY <1>0, FailedRun DEF x
<1> HIDE DEF y, k
<1>3. Comes(r, y, k)
  BY <1>1, <1>2 DEF Comes, Set
<1>4. /\ run'[r] = y /\ \A s \in Runs \ {r} : run'[s] = run[s]
  BY <1>3, RunComes
<1>5. Types'
  <2>1. request' \in [Requests -> Runs \cup {NoRun}]
    BY <1>1 DEF Types
  <2> QED BY <1>1, <1>3, <2>1, RunComes DEF Types, UNCHANGEDGate
<1>6. RunsInv'
  BY <1>2, <1>3, OneRun
<1>7. Turns'
  BY <1>1, <1>2, <1>3, StaysTurns DEF x
<1>8. Gate'
  BY <1>1, <1>2, <1>3, StaysGate DEF x
<1>9. x.pc # "none" /\ ~Failed(x) /\ (Failed(y) <=> ~x.committed)
  BY <1>2 DEF Failed, Over, Throwing, x
<1>10. Named'
  <2>1. CASE ~(x.req \in Requests /\ ~x.committed)
    <3>1. CASE x.committed
      <4>1. Answers(x, y)
        BY <1>2, <1>9, <3>1 DEF Answers
      <4> QED BY <1>1, <1>3, <2>1, <4>1, AnswersNamed DEF x
    <3>2. CASE x.req \notin Requests
      <4>1. UNCHANGED request
        BY <1>1, <2>1
      <4>2. ASSUME NEW q \in Requests, request[q] # NoRun
            PROVE  LET z == run'[request[q]] IN z.req = q /\ z.pc # "none" /\ ~Failed(z)
        <5>1. request[q] # r
          BY <3>2, <4>2 DEF Named, x
        <5> QED BY <1>4, <4>2, <5>1 DEF Named, Types
      <4>3. ASSUME NEW s \in Runs, run'[s].pc # "none", run'[s].req \in Requests,
                   ~Failed(run'[s])
            PROVE  request[run'[s].req] = s
        <5>1. s # r
          BY <1>2, <1>4, <3>2, <4>3
        <5> QED BY <1>4, <4>3, <5>1 DEF Named
      <4> QED BY <4>1, <4>2, <4>3 DEF Named
    <3> QED BY <2>1, <3>1, <3>2
  <2>2. CASE x.req \in Requests /\ ~x.committed
    <3>1. request[x.req] = r /\ request' = [request EXCEPT ![x.req] = NoRun]
      BY <1>1, <1>9, <2>2 DEF Named, x
    <3>2. ASSUME NEW q \in Requests, request'[q] # NoRun
          PROVE  LET z == run'[request'[q]] IN z.req = q /\ z.pc # "none" /\ ~Failed(z)
      <4>1. q # x.req /\ request'[q] = request[q]
        BY <2>2, <3>1, <3>2 DEF Types
      <4>2. request[q] # r
        BY <3>2, <4>1 DEF Named, x
      <4> QED BY <1>4, <3>2, <4>1, <4>2 DEF Named, Types
    <3>3. ASSUME NEW s \in Runs, run'[s].pc # "none", run'[s].req \in Requests,
                 ~Failed(run'[s])
          PROVE  request'[run'[s].req] = s
      <4>1. s # r
        BY <1>2, <1>4, <1>9, <2>2, <3>3
      <4>2. run'[s] = run[s] /\ request[run[s].req] = s
        BY <1>4, <3>3, <4>1 DEF Named
      <4>3. run[s].req # x.req
        BY <3>1, <4>1, <4>2
      <4> QED BY <2>2, <3>1, <3>3, <4>2, <4>3 DEF Types
    <3> QED BY <3>2, <3>3 DEF Named
  <2> QED BY <2>1, <2>2
<1> QED BY <1>5, <1>6, <1>7, <1>8, <1>10

LEMMA ThrowInv ==
  ASSUME IInv, NEW r \in Runs,
         StepFails(r) \/ StepsExhausted(r) \/ ParkAborted(r) \/ ToolsFail(r)
  PROVE  IInv'
<1>1. /\ run[r].pc \in Throwing /\ (run[r].pc = "parked" => run[r].aborted)
      /\ \E o \in Terminal : FailWith(r, o)
  <2>1. CASE StepFails(r)
    BY <2>1 DEF StepFails, Fail, Throwing, Checkpoints, Terminal
  <2>2. CASE StepsExhausted(r)
    BY <2>2 DEF StepsExhausted, Throwing, Terminal
  <2>3. CASE ParkAborted(r)
    BY <2>3 DEF ParkAborted, Fail, Throwing, Terminal
  <2>4. CASE ToolsFail(r)
    BY <2>4 DEF ToolsFail, Fail, Throwing, Terminal
  <2> QED BY <2>1, <2>2, <2>3, <2>4
<1> QED BY <1>1, FailInv

\* What a stop makes of a Run and its messages: its status says so unless the Session closes.
LEMMA StoppedRun ==
  ASSUME NEW x \in RunRecord, NEW h \in Fate, RunInv(x, h), x.pc \notin {"none", "gone"}
  PROVE  LET y == Stopped(x)
             z == [Stopped(x) EXCEPT !.status = "cancelling"]
             k == [h EXCEPT !.superseded = @ \o x.queue]
         IN  /\ k \in Fate /\ y \in RunRecord /\ RunInv(y, k) /\ Calm(x, y)
             /\ x.status \notin Terminal => z \in RunRecord /\ RunInv(z, k) /\ Calm(x, z)
<1> DEFINE w == [x EXCEPT !.accepting = FALSE, !.queue = <<>>, !.aborted = TRUE]
           y == Stopped(x)
           z == [y EXCEPT !.status = "cancelling"]
           k == [h EXCEPT !.superseded = @ \o x.queue]
<1>1. /\ Status(x) /\ Places(x, h)
      /\ Placed(x.accepted, x.batch, x.carry, x.queue, h)
  BY DEF RunInv
<1>2. w \in RunRecord
  BY Fields, MoreFields, Values
<1>3. /\ w.pc = x.pc /\ ~w.accepting /\ w.queue = <<>> /\ w.aborted
      /\ w.status = x.status /\ w.outcome = x.outcome /\ w.asked = x.asked /\ w.side = x.side
      /\ w.committed = x.committed /\ w.back = x.back /\ w.kind = x.kind /\ w.req = x.req
      /\ w.natural = x.natural
      /\ w.accepted = x.accepted /\ w.batch = x.batch /\ w.carry = x.carry
  BY DEF RunRecord
<1>4. y = IF w.asked THEN [w EXCEPT !.pc = "decided", !.asked = FALSE, !.verdict = "cancelled"]
          ELSE w
  BY DEF Stopped, Answered
<1> HIDE DEF w
<1>5. y \in RunRecord
  <2>1. CASE w.asked
    <3>1. [w EXCEPT !.pc = "decided", !.asked = FALSE, !.verdict = "cancelled"] \in RunRecord
      BY <1>2, Fields, MoreFields, Values
    <3> QED BY <1>4, <2>1, <3>1
  <2>2. CASE ~w.asked
    BY <1>2, <1>4, <2>2
  <2> QED BY <2>1, <2>2
<1>6. /\ IF x.asked THEN y.pc = "decided" ELSE y.pc = x.pc
      /\ ~y.asked /\ ~y.accepting /\ y.queue = <<>> /\ y.aborted
      /\ y.status = x.status /\ y.outcome = x.outcome /\ y.side = x.side
      /\ y.committed = x.committed /\ y.back = x.back /\ y.kind = x.kind /\ y.req = x.req
      /\ y.natural = x.natural
      /\ y.accepted = x.accepted /\ y.batch = x.batch /\ y.carry = x.carry
  <2>1. CASE w.asked
    BY <1>2, <1>3, <1>4, <2>1 DEF RunRecord
  <2>2. CASE ~w.asked
    BY <1>3, <1>4, <2>2
  <2> QED BY <2>1, <2>2
<1> HIDE DEF y
<1>7. z \in RunRecord /\ z = [y EXCEPT !.status = "cancelling"] /\ z.status = "cancelling"
  BY <1>5, Fields, Values DEF RunRecord
<1>8. /\ z.pc = y.pc
      /\ ~z.asked /\ ~z.accepting /\ z.queue = <<>> /\ z.aborted
      /\ z.outcome = x.outcome /\ z.side = x.side
      /\ z.committed = x.committed /\ z.back = x.back /\ z.kind = x.kind /\ z.req = x.req
      /\ z.natural = x.natural
      /\ z.accepted = x.accepted /\ z.batch = x.batch /\ z.carry = x.carry
  BY <1>5, <1>6 DEF RunRecord
<1> HIDE DEF z
<1>9. k \in Fate /\ k.carried = h.carried /\ Placed(x.accepted, x.batch, x.carry, <<>>, k)
  <2>1. k.carried = h.carried
    BY DEF Fate
  <2>2. CASE x.accepting
    <3>1. x.carry = <<>> /\ h.carried = <<>>
      BY <1>1, <2>2 DEF Places
    <3>2. /\ Placed(x.accepted, x.batch, <<>>, x.queue, h)
          /\ x.batch \in Msgs /\ x.queue \in Msgs
      BY <1>1, <3>1, Values
    <3>3. k \in Fate /\ Placed(x.accepted, x.batch, <<>>, <<>>, k)
      BY <3>1, <3>2, Superseded
    <3> QED BY <2>1, <3>1, <3>3
  <2>3. CASE ~x.accepting
    <3>1. x.queue = <<>>
      BY <1>1, <2>3 DEF Places
    <3>2. h.superseded \o x.queue = h.superseded
      BY <3>1, Values, Closed
    <3>3. k = h
      BY <3>2 DEF Fate
    <3> QED BY <1>1, <3>1, <3>3
  <2> QED BY <2>2, <2>3
<1>10. x.accepting \/ k = h
  <2>1. ASSUME ~x.accepting PROVE k = h
    <3>1. h.superseded \o x.queue = h.superseded
      BY <1>1, <2>1, Values, Closed DEF Places
    <3> QED BY <3>1 DEF Fate
  <2> QED BY <2>1
<1> HIDE DEF k
<1>11. Status(y) /\ Places(y, k)
  BY <1>1, <1>6, <1>9 DEF Status, Places, Working, CommittedPcs, Over, Terminal
<1>12. x.status \notin Terminal => Status(z) /\ Places(z, k)
  BY <1>1, <1>6, <1>7, <1>8, <1>9 DEF Status, Places, Working, CommittedPcs, Over, Terminal
<1>13. Calm(x, y) /\ (x.status \notin Terminal => Calm(x, z))
  BY <1>1, <1>6, <1>8, Values DEF Status, Calm, Stays, Answers, UnderWay, Failed, Pcs,
     Working, CommittedPcs, Over
<1>14. RunInv(y, k)
  BY <1>6, <1>9, <1>11 DEF RunInv
<1>15. x.status \notin Terminal => RunInv(z, k)
  BY <1>8, <1>9, <1>12 DEF RunInv
<1> QED BY <1>5, <1>7, <1>9, <1>13, <1>14, <1>15 DEF y, z, k

\* A stop, by the user or by the close of the Session, is an intent too.
LEMMA StopInv ==
  ASSUME IInv, NEW r \in Runs, NEW y, NEW h, Comes(r, y, h), RunInv(y, h), Calm(run[r], y),
         UNCHANGED <<active, started, request, claims>>, closed' \in BOOLEAN,
         Invalidate(NoRun), acted' = claims
  PROVE  IInv'
<1> USE DEF IInv, SessionInv
<1>1. Types'
  BY RunComes DEF Types, Invalidate
<1>2. RunsInv'
  BY OneRun
<1>3. Turns' /\ Named'
  BY StaysTurns, AnswersNamed DEF Calm
<1>4. Gate'
  BY IntentGate
<1> QED BY <1>1, <1>2, <1>3, <1>4

LEMMA InterruptInv ==
  ASSUME IInv, NEW r \in Runs, Interrupt(r)
  PROVE  IInv'
<1> DEFINE x == run[r]
           h == handled[r]
           z == [Stopped(x) EXCEPT !.status = "cancelling"]
           k == [h EXCEPT !.superseded = @ \o x.queue]
<1>0. x \in RunRecord /\ h \in Fate /\ RunInv(x, h)
  BY Before DEF IInv, RunsInv
<1>1. /\ active = r /\ x.pc # "none" /\ x.status \notin Terminal
      /\ Set(r, z) /\ handled' = [handled EXCEPT ![r] = k]
      /\ Invalidate(NoRun) /\ acted' = claims
      /\ UNCHANGED <<active, started, closed, request, claims>>
  BY DEF Interrupt, IsLive, Supersede
<1>2. x.pc \notin {"none", "gone"}
  BY <1>1 DEF IInv, SessionInv, Turns, Runs, NoRun
<1> HIDE DEF x, h
<1>3. k \in Fate /\ z \in RunRecord /\ RunInv(z, k) /\ Calm(x, z)
  BY <1>0, <1>1, <1>2, StoppedRun
<1> HIDE DEF z, k
<1>4. Comes(r, z, k)
  BY <1>1, <1>3 DEF Comes, Set
<1>5. closed' \in BOOLEAN
  BY <1>1 DEF IInv, Types
<1> QED BY <1>1, <1>3, <1>4, <1>5, StopInv DEF x

LEMMA CloseInv ==
  ASSUME IInv, Close
  PROVE  IInv'
<1>1. /\ closed' \in BOOLEAN /\ Invalidate(NoRun) /\ acted' = claims
      /\ UNCHANGED <<active, started, request, claims>>
  BY DEF Close
<1>2. CASE active = NoRun
  <2> USE DEF IInv, SessionInv
  <2>1. UNCHANGED <<run, handled>>
    BY <1>2 DEF Close
  <2>2. Types'
    BY <1>1, <2>1 DEF Types, Invalidate
  <2>3. RunsInv'
    BY <2>1 DEF RunsInv
  <2>4. Turns' /\ Named'
    BY <1>1, <2>1 DEF Turns, Named
  <2>5. Gate'
    BY <1>1, IntentGate
  <2> QED BY <2>2, <2>3, <2>4, <2>5
<1>3. CASE active # NoRun
  <2> DEFINE r == active
             x == run[r]
             h == handled[r]
             y == Stopped(x)
             k == [h EXCEPT !.superseded = @ \o x.queue]
  <2>1. r \in Runs
    BY <1>3 DEF IInv, Types
  <2>2. x \in RunRecord /\ h \in Fate /\ RunInv(x, h)
    BY <2>1, Before DEF IInv, RunsInv
  <2>3. Set(r, y) /\ handled' = [handled EXCEPT ![r] = k]
    BY <1>3 DEF Close, Supersede
  <2>4. x.pc \notin {"none", "gone"}
    BY <1>3 DEF IInv, SessionInv, Turns
  <2> HIDE DEF x, h
  <2>5. k \in Fate /\ y \in RunRecord /\ RunInv(y, k) /\ Calm(x, y)
    BY <2>2, <2>4, StoppedRun
  <2> HIDE DEF y, k
  <2>6. Comes(r, y, k)
    BY <2>3, <2>5 DEF Comes, Set
  <2> QED BY <1>1, <2>1, <2>5, <2>6, StopInv DEF x
<1> QED BY <1>2, <1>3

\* The Run leaves the Session, which may be woken after it if it ended by itself.
LEMMA SettleInv ==
  ASSUME IInv, NEW r \in Runs, Settle(r)
  PROVE  IInv'
<1> USE DEF IInv, SessionInv
<1> DEFINE x == run[r]
           h == handled[r]
           y == Remains(x)
<1>0. /\ x \in RunRecord /\ h \in Fate /\ Status(x) /\ Places(x, h)
      /\ Placed(x.accepted, x.batch, x.carry, x.queue, h)
  BY Before
<1>1. /\ x.pc = "settling" /\ x.side = 0 /\ Set(r, y)
      /\ UNCHANGED <<started, closed, request, epoch, claims, acted, handled>>
  BY DEF Settle
<1>2. \/ active = r /\ active' = NoRun /\ eligible' \in {eligible, r}
      \/ active # r /\ UNCHANGED <<active, eligible>>
  BY DEF Settle, Offer
<1>3. eligible' # eligible => ~closed /\ x.natural /\ x.status = "completed" /\ epoch = r
  BY <1>2 DEF Settle, Offer
<1> HIDE DEF x, h
<1>4. y \in RunRecord
  BY <1>0, Fields, MoreFields, Values DEF Remains, Checkpoints, Terminal
<1>5. /\ y.pc = "gone" /\ y.status = x.status /\ y.natural = x.natural /\ y.req = x.req
      /\ y.committed = x.committed /\ y.side = 0 /\ y.asked = x.asked /\ ~y.accepting
      /\ y.kind = x.kind
      /\ y.accepted = x.accepted /\ y.batch = x.batch /\ y.carry = x.carry /\ y.queue = x.queue
  BY <1>0, <1>1 DEF Remains, RunRecord
<1> HIDE DEF y
<1>6. Status(y) /\ Places(y, h)
  BY <1>0, <1>1, <1>5 DEF Status, Places, Over, Terminal, Working, CommittedPcs
<1>7. RunInv(y, h)
  BY <1>0, <1>5, <1>6 DEF RunInv
<1>8. Comes(r, y, h)
  BY <1>0, <1>1, <1>4 DEF Types, Comes, Set, h
<1>9. /\ run'[r] = y /\ \A s \in Runs \ {r} : run'[s] = run[s]
  BY <1>8, RunComes
<1>10. Types'
  BY <1>1, <1>2, <1>8, RunComes DEF Types
<1>11. RunsInv'
  BY <1>7, <1>8, OneRun
<1>12. Answers(x, y)
  BY <1>1, <1>5 DEF Answers, Failed, Over
<1>13. Named'
  BY <1>1, <1>8, <1>12, AnswersNamed DEF x
<1>14. Turns'
  <2>1. \A s \in Runs : run'[s].pc = "none" <=> s > started'
    BY <1>1, <1>5, <1>9 DEF Turns, x
  <2>2. ASSUME NEW s \in Runs, UnderWay(run'[s]) PROVE active' = s
    <3>1. s # r
      BY <1>5, <1>9, <2>2 DEF UnderWay, Working, CommittedPcs
    <3> QED BY <1>2, <1>9, <2>2, <3>1 DEF Turns
  <2>3. active' # NoRun => run'[active'].pc \notin {"none", "gone"}
    BY <1>2, <1>9 DEF Turns, Types
  <2> QED BY <2>1, <2>2, <2>3 DEF Turns
<1>15. Gate'
  <2>1. ASSUME eligible' # NoRun
        PROVE  /\ active' = NoRun /\ ~closed' /\ epoch' = eligible'
               /\ run'[eligible'].status = "completed" /\ run'[eligible'].natural
    <3>1. CASE eligible' = eligible
      <4>1. /\ active = NoRun /\ ~closed /\ epoch = eligible /\ eligible \in Runs
            /\ run[eligible].status = "completed" /\ run[eligible].natural
        BY <2>1, <3>1 DEF Gate, Types
      <4>2. active' = NoRun
        BY <1>2, <4>1
      <4> QED BY <1>1, <1>5, <1>9, <3>1, <4>1, <4>2 DEF x
    <3>2. CASE eligible' # eligible
      BY <1>1, <1>2, <1>3, <1>5, <1>9, <3>2
    <3> QED BY <3>1, <3>2
  <2>2. eligible' <= started
    <3>1. r <= started
      BY <1>1 DEF Turns, Types, Runs, x
    <3> QED BY <1>2, <3>1 DEF Gate
  <2> QED BY <1>1, <2>1, <2>2 DEF Gate
<1> QED BY <1>10, <1>11, <1>13, <1>14, <1>15

(***************************************************************************)
(* The invariant                                                           *)
(***************************************************************************)

LEMMA StartInv ==
  ASSUME IInv, NEW q \in Requests, NEW kind \in {"turn", "compact"}, Start(kind, q)
  PROVE  IInv'
<1>1. /\ MayStart /\ Begin(kind, q) /\ UNCHANGED <<closed, handled>>
      /\ claims' \subseteq claims /\ acted' \subseteq claims'
      /\ request[q] = NoRun /\ request' = [request EXCEPT ![q] = started + 1]
  BY DEF Start
<1> QED BY <1>1, BeginInv

LEMMA StartWakeupInv ==
  ASSUME IInv, NEW c \in claims, StartWakeup(c)
  PROVE  IInv'
<1>1. /\ MayStart /\ Begin("wake", NoRequest) /\ UNCHANGED <<closed, handled, request>>
      /\ claims' \subseteq claims /\ acted' \subseteq claims'
  BY DEF StartWakeup, IInv, SessionInv, Gate
<1> QED BY <1>1, BeginInv

LEMMA NextInv == IInv /\ [Next]_vars => IInv'
<1> SUFFICES ASSUME IInv, [Next]_vars PROVE IInv'
  OBVIOUS
<1>1. CASE UserIntends
  BY <1>1, IntentInv DEF UserIntends
<1>2. CASE ClaimWakeup
  BY <1>2, ClaimInv
<1>3. CASE Close
  BY <1>3, CloseInv
<1>4. ASSUME NEW q \in Requests, StartRefused(q) PROVE IInv'
  BY <1>4, IntentInv DEF StartRefused
<1>5. ASSUME NEW q \in Requests, NEW kind \in {"turn", "compact"}, Start(kind, q) PROVE IInv'
  BY <1>5, StartInv
<1>6. ASSUME NEW c \in claims, StartWakeup(c) PROVE IInv'
  BY <1>6, StartWakeupInv
<1>7. ASSUME NEW c \in claims, DropWakeup(c) PROVE IInv'
  BY <1>7, ClaimInv
<1>8. ASSUME NEW r \in Runs, RunStep(r) PROVE IInv'
  <2>1. CASE StepFails(r) \/ StepsExhausted(r) \/ ParkAborted(r) \/ ToolsFail(r)
    BY <2>1, ThrowInv
  <2>2. CASE ReachCheckpoint(r) \/ Park(r)
    BY <2>2, PauseInv
  <2>3. CASE \/ Prepare(r) \/ CommitInput(r) \/ CompactEnds(r) \/ CompactContinues(r)
             \/ SendRequest(r) \/ ProviderAnswers(r) \/ Continue(r) \/ Carried(r)
    BY <2>3, TurnInv
  <2>4. CASE \/ Authorize(r) \/ Ask(r) \/ Decided(r) \/ StartSideEffect(r) \/ ToolsDone(r)
    BY <2>4, ToolsInv
  <2>5. CASE End(r) \/ CloseTrace(r)
    BY <2>5, EndInv
  <2>6. CASE Drain(r)
    BY <2>6, DrainInv
  <2>7. CASE CommitDrain(r)
    BY <2>7, CommitDrainInv
  <2>8. CASE DrainFails(r)
    BY <2>8, DrainFailsInv
  <2>9. CASE Finish(r)
    BY <2>9, FinishInv
  <2>10. CASE CarryOne(r)
    BY <2>10, CarryOneInv
  <2>11. CASE Settle(r)
    BY <2>11, SettleInv
  <2> QED BY <1>8, <2>1, <2>2, <2>3, <2>4, <2>5, <2>6, <2>7, <2>8, <2>9, <2>10, <2>11
      DEF RunStep
<1>9. ASSUME NEW r \in Runs, SideEffectSettles(r) \/ ApprovalExpires(r) \/ Decide(r)
      PROVE  IInv'
  BY <1>9, ToolsInv
<1>10. ASSUME NEW r \in Runs, RequestPause(r) \/ Resume(r) PROVE IInv'
  BY <1>10, PauseInv
<1>11. ASSUME NEW r \in Runs, Interrupt(r) PROVE IInv'
  BY <1>11, InterruptInv
<1>12. ASSUME NEW r \in Runs, NEW i \in Interjections, Interject(r, i) PROVE IInv'
  BY <1>12, InterjectInv
<1>13. CASE UNCHANGED vars
  BY <1>13 DEF vars, IInv, Types, RunsInv, SessionInv, Turns, Named, Gate
<1> QED BY <1>1, <1>2, <1>3, <1>4, <1>5, <1>6, <1>7, <1>8, <1>9, <1>10, <1>11, <1>12, <1>13
    DEF Next

\* The invariant holds in every reachable state of the Session.
THEOREM Invariance == Spec => []IInv
BY InitInv, NextInv, PTL DEF Spec

(***************************************************************************)
(* The properties                                                          *)
(***************************************************************************)

\* The types of what the Session and its Runs keep, for any bounds, messages and requests.
THEOREM TypeCorrect == Spec => []Types
<1>1. IInv => Types
  BY DEF IInv
<1> QED BY <1>1, Invariance, PTL

\* Runs of a Session follow one another: one at a time, and woken by themselves only from rest.
THEOREM TurnsTaken == Spec => []RunsTakeTurns
<1>1. IInv => RunsTakeTurns
  <2> SUFFICES ASSUME IInv PROVE RunsTakeTurns
    OBVIOUS
  <2>1. ASSUME NEW r \in Runs, IsLive(r) PROVE active = r
    <3>1. run[r].pc \in Pcs /\ Status(run[r])
      BY Before, Values
    <3>2. UnderWay(run[r])
      BY <2>1, <3>1 DEF IsLive, Status, UnderWay, Pcs
    <3> QED BY <3>2 DEF IInv, SessionInv, Turns
  <2>2. EligibleIsIdle
    BY <2>1 DEF EligibleIsIdle, IInv, SessionInv, Gate, Runs, NoRun
  <2> QED BY <2>1, <2>2 DEF RunsTakeTurns, OneRunAtATime
<1> QED BY <1>1, Invariance, PTL

\* A Run shown as paused is parked at a checkpoint and owns nothing that still works.
THEOREM PauseIsQuiet == Spec => []PausedIsQuiet
<1>1. IInv => PausedIsQuiet
  <2> SUFFICES ASSUME IInv, NEW r \in Runs, run[r].status = "paused", ~run[r].aborted
               PROVE  run[r].pc = "parked" /\ run[r].side = 0 /\ ~run[r].asked
    BY DEF PausedIsQuiet
  <2> QED BY Before DEF Status
<1> QED BY <1>1, Invariance, PTL

\* A client request is carried out once, and one that failed before its commit is forgotten.
THEOREM RequestsOnce == Spec => []RequestsRunOnce
<1>1. IInv => RequestsRunOnce
  <2> SUFFICES ASSUME IInv PROVE RequestsRunOnce
    OBVIOUS
  <2>1. ASSUME NEW r \in Runs, run[r].committed, run[r].req \in Requests
        PROVE  request[run[r].req] = r
    <3>1. run[r].pc # "none" /\ ~Failed(run[r])
      BY <2>1, Before DEF Status, Failed
    <3> QED BY <2>1, <3>1 DEF IInv, SessionInv, Named
  <2>2. ASSUME NEW q \in Requests, request[q] # NoRun
        PROVE  run[request[q]].req = q /\ (Ended(request[q]) => run[request[q]].committed)
    BY <2>2 DEF IInv, SessionInv, Named, Failed, Ended, Over
  <2> QED BY <2>1, <2>2 DEF RequestsRunOnce
<1> QED BY <1>1, Invariance, PTL

\* What a sequence begins with, and what it ends in.
LEMMA PrefixOf ==
  ASSUME NEW a \in Msgs, NEW t \in Msgs
  PROVE  IsPrefix(a, a \o t)
<1> DEFINE u == a \o t
           n == Len(a)
<1>1. /\ u \in Msgs /\ n \in Nat /\ n <= Len(u)
      /\ \A k \in 1..n : u[k] = a[k]
  BY DEF Msgs
<1> HIDE DEF u, n
<1>2. SubSeq(a, 1, n) = [k \in 1..n |-> a[k]] /\ SubSeq(u, 1, n) = [k \in 1..n |-> u[k]]
  BY <1>1 DEF Msgs, n
<1>3. SubSeq(a, 1, n) = SubSeq(u, 1, n)
  BY <1>1, <1>2
<1> QED BY <1>1, <1>3 DEF IsPrefix, u, n

LEMMA Reversed ==
  ASSUME NEW a \in Msgs
  PROVE  /\ Reverse(a) \in Msgs /\ Len(Reverse(a)) = Len(a)
         /\ \A k \in 1..Len(a) : Reverse(a)[k] = a[(Len(a) - k) + 1]
<1>1. Len(a) \in Nat /\ \A k \in 1..Len(a) : a[k] \in Interjections
  BY DEF Msgs
<1>2. \A k \in 1..Len(a) : (Len(a) - k) + 1 \in 1..Len(a)
  BY <1>1
<1>3. Reverse(a) \in [1..Len(a) -> Interjections]
  BY <1>1, <1>2 DEF Reverse
<1> QED BY <1>1, <1>3 DEF Reverse, Msgs

LEMMA SuffixOf ==
  ASSUME NEW a \in Msgs, NEW t \in Msgs
  PROVE  IsSuffix(t, a \o t)
<1> DEFINE u == a \o t
           n == Len(t)
           v == Reverse(t)
           w == Reverse(u)
<1>1. /\ u \in Msgs /\ n \in Nat /\ Len(a) \in Nat /\ Len(u) = Len(a) + n
      /\ \A k \in 1..n : u[Len(a) + k] = t[k]
  BY DEF Msgs
<1>2. /\ v \in Msgs /\ Len(v) = n /\ \A k \in 1..n : v[k] = t[(n - k) + 1]
      /\ w \in Msgs /\ Len(w) = Len(u) /\ \A k \in 1..Len(u) : w[k] = u[(Len(u) - k) + 1]
  BY <1>1, Reversed
<1> HIDE DEF u, n, v, w
<1>3. ASSUME NEW k \in 1..n PROVE v[k] = w[k]
  <2>1. (n - k) + 1 \in 1..n /\ k \in 1..Len(u)
    BY <1>1
  <2>2. u[Len(a) + ((n - k) + 1)] = t[(n - k) + 1]
    BY <1>1, <2>1
  <2>3. (Len(u) - k) + 1 = Len(a) + ((n - k) + 1)
    BY <1>1
  <2> QED BY <1>2, <2>1, <2>2, <2>3
<1>4. SubSeq(v, 1, n) = [k \in 1..n |-> v[k]] /\ SubSeq(w, 1, n) = [k \in 1..n |-> w[k]]
  BY <1>1, <1>2 DEF Msgs
<1>5. SubSeq(v, 1, n) = SubSeq(w, 1, n)
  BY <1>3, <1>4
<1>6. Len(v) <= Len(w) /\ SubSeq(v, 1, Len(v)) = SubSeq(w, 1, Len(v))
  BY <1>1, <1>2, <1>5
<1> QED BY <1>6 DEF IsSuffix, IsPrefix, v, w, u

\* The messages of one Run, from what the invariant says of where they are.
LEMMA MessagesOfRun ==
  ASSUME IInv, NEW r \in Runs
  PROVE  LET all == Met(r) \o run[r].batch \o run[r].carry \o run[r].queue
         IN  /\ IsPrefix(handled[r].injected \o run[r].batch, run[r].accepted)
             /\ IsSuffix(handled[r].carried \o run[r].carry \o run[r].queue, run[r].accepted)
             /\ Len(all) = Len(run[r].accepted) /\ ToSet(all) = ToSet(run[r].accepted)
<1> DEFINE acc == run[r].accepted
           b == run[r].batch
           c == run[r].carry
           q == run[r].queue
           h == handled[r]
<1>0. /\ b \in Msgs /\ c \in Msgs /\ q \in Msgs /\ h \in Fate /\ Placed(acc, b, c, q, h)
      /\ Met(r) = h.injected \o h.superseded \o h.carried
  BY Before, Values DEF Met
<1> HIDE DEF acc, b, c, q, h
<1> DEFINE i == h.injected
           s == h.superseded
           d == h.carried
           ib == i \o b
<1>1. /\ i \in Msgs /\ s \in Msgs /\ d \in Msgs /\ ib \in Msgs /\ Len(ib) = Len(i) + Len(b)
      /\ ToSet(ib) = ToSet(i) \cup ToSet(b)
  BY <1>0, Values, Closed, Joined
<1>2. PICK t \in Msgs :
        /\ acc = ib \o t
        /\ Len(t) = Len(s) + Len(d) + Len(c) + Len(q)
        /\ ToSet(t) = ToSet(s) \cup ToSet(d) \cup ToSet(c) \cup ToSet(q)
        /\ s = <<>> => t = (d \o c) \o q
        /\ s # <<>> => d = <<>> /\ c = <<>> /\ q = <<>>
  BY <1>0 DEF Placed
<1> HIDE DEF i, s, d, ib
<1> DEFINE r2 == i \o s
           r3 == r2 \o d
           r4 == r3 \o b
           r5 == r4 \o c
           all == r5 \o q
<1>3. Len(all) = Len(i) + Len(s) + Len(d) + Len(b) + Len(c) + Len(q)
      /\ ToSet(all) = UNION {ToSet(i), ToSet(s), ToSet(d), ToSet(b), ToSet(c), ToSet(q)}
  <2>2. r2 \in Msgs /\ Len(r2) = Len(i) + Len(s) /\ ToSet(r2) = ToSet(i) \cup ToSet(s)
    BY <1>1, Closed, Joined
  <2> HIDE DEF r2
  <2>3. r3 \in Msgs /\ Len(r3) = Len(r2) + Len(d) /\ ToSet(r3) = ToSet(r2) \cup ToSet(d)
    BY <1>1, <2>2, Closed, Joined
  <2> HIDE DEF r3
  <2>4. r4 \in Msgs /\ Len(r4) = Len(r3) + Len(b) /\ ToSet(r4) = ToSet(r3) \cup ToSet(b)
    BY <1>0, <2>3, Closed, Joined
  <2> HIDE DEF r4
  <2>5. r5 \in Msgs /\ Len(r5) = Len(r4) + Len(c) /\ ToSet(r5) = ToSet(r4) \cup ToSet(c)
    BY <1>0, <2>4, Closed, Joined
  <2> HIDE DEF r5
  <2>6. Len(all) = Len(r5) + Len(q) /\ ToSet(all) = ToSet(r5) \cup ToSet(q)
    BY <1>0, <2>5, Closed, Joined
  <2> HIDE DEF all
  <2> QED BY <2>2, <2>3, <2>4, <2>5, <2>6
<1> HIDE DEF all
<1>4. acc \in Msgs /\ Len(acc) = Len(ib) + Len(t) /\ ToSet(acc) = ToSet(ib) \cup ToSet(t)
  BY <1>1, <1>2, Closed, Joined
<1>5. Len(all) = Len(acc)
  <2>1. /\ Len(i) \in Nat /\ Len(s) \in Nat /\ Len(d) \in Nat /\ Len(b) \in Nat
        /\ Len(c) \in Nat /\ Len(q) \in Nat
    BY <1>0, <1>1, Closed
  <2> QED BY <1>1, <1>2, <1>3, <1>4, <2>1
<1>6. ToSet(all) = ToSet(acc)
  BY <1>1, <1>2, <1>3, <1>4
<1>7. IsPrefix(ib, acc)
  BY <1>1, <1>2, PrefixOf
<1>8. IsSuffix(d \o c \o q, acc)
  <2>1. CASE s = <<>>
    BY <1>1, <1>2, <2>1, SuffixOf
  <2>2. CASE s # <<>>
    <3>1. d \o c \o q = <<>> /\ acc = acc \o <<>> /\ <<>> \in Msgs
      BY <1>2, <1>4, <2>2, Closed
    <3>2. IsSuffix(<<>>, acc \o <<>>)
      BY <1>4, <3>1, SuffixOf
    <3> QED BY <3>1, <3>2
  <2> QED BY <2>1, <2>2
<1> QED BY <1>0, <1>5, <1>6, <1>7, <1>8 DEF i, s, d, ib, all, r5, r4, r3, r2, acc, b, c, q, h

\* What the user says to a Run is answered, once and in order, by this Run or the next.
THEOREM EveryMessageMet == Spec => []MessagesAreAnswered
<1>1. IInv => MessagesAreAnswered
  <2> SUFFICES ASSUME IInv PROVE MessagesAreAnswered
    OBVIOUS
  <2>1. ASSUME NEW r \in Runs
        PROVE  LET all == Met(r) \o run[r].batch \o run[r].carry \o run[r].queue
               IN  /\ IsPrefix(handled[r].injected \o run[r].batch, run[r].accepted)
                   /\ IsSuffix(handled[r].carried \o run[r].carry \o run[r].queue,
                               run[r].accepted)
                   /\ Len(all) = Len(run[r].accepted) /\ ToSet(all) = ToSet(run[r].accepted)
    BY MessagesOfRun
  <2>2. ASSUME NEW r \in Runs, Ended(r), run[r].kind # "compact"
        PROVE  Len(Met(r)) = Len(run[r].accepted)
    <3>1. run[r].batch = <<>> /\ run[r].carry = <<>> /\ run[r].queue = <<>>
      BY <2>2, Before DEF Places, Ended, Over
    <3>2. Met(r) \in Msgs
      <4>1. /\ handled[r].injected \in Msgs /\ handled[r].superseded \in Msgs
            /\ handled[r].carried \in Msgs
        BY Before, Values
      <4>2. handled[r].injected \o handled[r].superseded \in Msgs
        BY <4>1, Closed
      <4> QED BY <4>1, <4>2, Closed DEF Met
    <3>3. Met(r) \o <<>> \o <<>> \o <<>> = Met(r)
      BY <3>2, Closed
    <3> QED BY <2>1, <3>1, <3>3
  <2> QED BY <2>1, <2>2 DEF MessagesAreAnswered, InterjectionsInOrder, NothingLeftQueued
<1> QED BY <1>1, Invariance, PTL

\* A step of a Run, or of its user, never changes a terminal status.
LEMMA TerminalStays ==
  ASSUME IInv, Next, NEW r \in Runs, run[r].status \in Terminal
  PROVE  run'[r].status = run[r].status
<1> USE DEF Over
<1>1. run[r].pc \in Over /\ ~run[r].asked /\ run[r].pc # "none"
  BY Before DEF Status
<1>2. run \in [Runs -> RunRecord] /\ run[r] \in RunRecord
  BY DEF IInv, Types
<1>3. ASSUME NEW s \in Runs, s # r, NEW y, Set(s, y) PROVE run'[r] = run[r]
  BY <1>2, <1>3 DEF Set
<1>4. ASSUME NEW y, Set(r, y), y.status = run[r].status PROVE run'[r].status = run[r].status
  BY <1>2, <1>4 DEF Set
<1>5. ASSUME NEW s \in Runs, RunStep(s) PROVE run'[r].status = run[r].status
  <2>1. CASE s # r
    <3>1. \E y : Set(s, y)
      BY <1>5 DEF RunStep, StepFails, StepsExhausted, ParkAborted, ToolsFail, Fail, FailWith,
         ReachCheckpoint, Park, Prepare, CommitInput, CompactEnds, CompactContinues, Drain,
         CommitDrain, DrainFails, SendRequest, ProviderAnswers, Continue, Finish, CarryOne,
         Carried, Authorize, Ask, Decided, StartSideEffect, ToolsDone, End, CloseTrace, Settle
    <3> QED BY <1>3, <2>1, <3>1
  <2>2. CASE s = r
    <3>1. CloseTrace(r) \/ Settle(r)
      BY <1>1, <1>5, <2>2 DEF RunStep, StepFails, StepsExhausted, ParkAborted, ToolsFail,
         ReachCheckpoint, Park, Prepare, CommitInput, CompactEnds, CompactContinues, Drain,
         CommitDrain, DrainFails, SendRequest, ProviderAnswers, Continue, Finish, CarryOne,
         Carried, Authorize, Ask, Decided, StartSideEffect, ToolsDone, End, Passes, Checkpoints
    <3>2. CASE CloseTrace(r)
      BY <1>2, <1>4, <3>2 DEF CloseTrace, RunRecord
    <3>3. CASE Settle(r)
      BY <1>2, <1>4, <3>3 DEF Settle, Remains, RunRecord
    <3> QED BY <3>1, <3>2, <3>3
  <2> QED BY <2>1, <2>2
<1>6. ASSUME NEW s \in Runs,
             \/ SideEffectSettles(s) \/ ApprovalExpires(s) \/ Decide(s)
             \/ RequestPause(s) \/ Resume(s) \/ Interrupt(s)
             \/ \E i \in Interjections : Interject(s, i)
      PROVE  run'[r].status = run[r].status
  <2>1. CASE s # r
    <3>1. \E y : Set(s, y)
      BY <1>6 DEF SideEffectSettles, ApprovalExpires, Decide, RequestPause, Resume, Interrupt,
         Interject
    <3> QED BY <1>3, <2>1, <3>1
  <2>2. CASE s = r
    <3>1. SideEffectSettles(r)
      BY <1>1, <1>6, <2>2 DEF ApprovalExpires, Decide, RequestPause, Resume, Interrupt,
         Interject, IsLive
    <3> QED BY <1>2, <1>4, <3>1 DEF SideEffectSettles, RunRecord
  <2> QED BY <2>1, <2>2
<1>7. ASSUME Close PROVE run'[r].status = run[r].status
  <2>1. CASE active = NoRun
    BY <1>7, <2>1 DEF Close
  <2>2. CASE active # NoRun /\ active # r
    <3>1. active \in Runs /\ Set(active, Stopped(run[active]))
      BY <1>7, <2>2 DEF Close, IInv, Types
    <3> QED BY <1>3, <2>2, <3>1
  <2>3. CASE active = r /\ r # NoRun
    <3>1. Set(r, Stopped(run[r]))
      BY <1>7, <2>3 DEF Close
    <3>2. Stopped(run[r]).status = run[r].status
      BY <1>1, <1>2 DEF Stopped, Answered, RunRecord
    <3> QED BY <1>4, <3>1, <3>2
  <2> QED BY <2>1, <2>2, <2>3
<1>8. ASSUME NEW kind, NEW q, MayStart, Begin(kind, q) PROVE run'[r].status = run[r].status
  <2>1. r <= started /\ started \in Nat
    BY <1>1 DEF IInv, Types, SessionInv, Turns, Runs
  <2>2. r # started + 1
    BY <2>1 DEF Runs
  <2> QED BY <1>2, <1>8, <2>2 DEF Begin
<1>9. CASE UserIntends \/ ClaimWakeup \/ \E c \in claims : DropWakeup(c)
  BY <1>9 DEF UserIntends, ClaimWakeup, DropWakeup
<1>10. CASE \E q \in Requests : StartRefused(q)
  BY <1>10 DEF StartRefused
<1>11. CASE \E q \in Requests : \E kind \in {"turn", "compact"} : Start(kind, q)
  BY <1>8, <1>11 DEF Start
<1>12. CASE \E c \in claims : StartWakeup(c)
  BY <1>8, <1>12 DEF StartWakeup
<1> QED BY <1>5, <1>6, <1>7, <1>9, <1>10, <1>11, <1>12 DEF Next

\* A terminal status is final: no pause, approval or stop that arrives late revives a Run.
THEOREM EndsAreFinal == Spec => TerminalIsFinal
<1>1. IInv /\ [Next]_vars =>
        [\A r \in Runs : run[r].status \in Terminal => run'[r].status = run[r].status]_vars
  BY TerminalStays
<1> QED BY <1>1, Invariance, PTL DEF Spec, TerminalIsFinal

\* A background event never starts a Run over something the user did after the event.
THEOREM UserGoesFirst == Spec => WakeupsYieldToUser
<1>1. IInv /\ [Next]_vars =>
        [\A c \in claims : started' # started /\ c \notin claims' => c \notin acted]_vars
  <2> SUFFICES ASSUME IInv, Next, NEW c \in claims, started' # started, c \notin claims'
               PROVE  c \notin acted
    OBVIOUS
  <2>1. StartWakeup(c)
    <3>1. \A r \in Runs : ~RunStep(r)
      BY DEF RunStep, StepFails, StepsExhausted, ParkAborted, ToolsFail, Fail, FailWith,
         ReachCheckpoint, Park, Prepare, CommitInput, CompactEnds, CompactContinues, Drain,
         CommitDrain, DrainFails, SendRequest, ProviderAnswers, Continue, Finish, CarryOne,
         Carried, Authorize, Ask, Decided, StartSideEffect, ToolsDone, End, CloseTrace, Settle,
         Quiet, UNCHANGEDSession
    <3>2. \A r \in Runs :
            /\ ~SideEffectSettles(r) /\ ~ApprovalExpires(r) /\ ~Decide(r) /\ ~RequestPause(r)
            /\ ~Resume(r) /\ ~Interrupt(r) /\ \A i \in Interjections : ~Interject(r, i)
      BY DEF SideEffectSettles, ApprovalExpires, Decide, RequestPause, Resume, Interrupt,
         Interject, Quiet, UNCHANGEDSession
    <3>3. \A q \in Requests :
            ~StartRefused(q) /\ \A kind \in {"turn", "compact"} : ~Start(kind, q)
      BY DEF Start, StartRefused
    <3>4. \A d \in claims : (StartWakeup(d) => d = c) /\ ~DropWakeup(d)
      BY DEF StartWakeup, DropWakeup
    <3>5. ~UserIntends /\ ~ClaimWakeup /\ ~Close
      BY DEF UserIntends, ClaimWakeup, Close
    <3> QED BY <3>1, <3>2, <3>3, <3>4, <3>5 DEF Next
  <2>2. epoch = c
    BY <2>1 DEF StartWakeup, WakeupValid
  <2> QED BY <2>2 DEF IInv, SessionInv, Gate
<1> QED BY <1>1, Invariance, PTL DEF Spec, WakeupsYieldToUser
=============================================================================
