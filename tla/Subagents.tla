------------------------------ MODULE Subagents ------------------------------
(***************************************************************************)
(* The child agents of one parent Session: SubagentExecutionService with   *)
(* SubagentConversations, SubagentCapacity and the worker of one child     *)
(* Run.  A child is a hidden Session that lives on after its Run; a        *)
(* message the parent sends it goes into the Run that is under way, or     *)
(* waits in a queue that a pump turns into successor Runs.  A Run that is  *)
(* parked by a pause gives its slot back, and asks for one to go on.       *)
(*                                                                         *)
(* Controls of one child are serialized, so a control is one step.  A      *)
(* promise that is already settled continues in the same turn of the event *)
(* loop, so a slot that is free is taken in the step that asks for it.     *)
(***************************************************************************)
EXTENDS Naturals, Sequences, SequencesExt, FiniteSets

CONSTANTS
  Children, \* child Sessions the parent may start
  Messages, \* messages the parent may send, each once
  Limit     \* subagents.maxSubagents

ASSUME LimitAssumption == Limit \in Nat \ {0}

VARIABLES
  worker,   \* #active and, in "reserved", the start that is still being prepared
  held,     \* capacity.#held: the executions that own a slot
  waiting,  \* capacity.#waiting
  queue,    \* conversations.#queues
  launch,   \* what the pump of the child is preparing
  blocked,  \* the pump gave up after a launch that failed
  broken,   \* messages whose execution was recorded by a launch that then failed
  closed,   \* the runtime is shutting down
  sent,     \* the accepted messages of each child, in order (history variable)
  fate,     \* what became of them, in order (history variable)
  announced \* the parent was told since the last Run began (history variable)

vars == <<worker, held, waiting, queue, launch, blocked, broken, closed, sent, fate,
          announced>>
history == <<sent, fate, announced>>

Pcs == {"none", "reserved", "waiting", "loading", "running", "parked", "closing", "settling"}

\* gen counts the executions of the child; pausing is active.pauseReason, owed a resume that
\* a message asked for, inbox the messages the Run accepted and did not inject yet.
NoWorker == [pc |-> "none", gen |-> 0, aborted |-> FALSE, pausing |-> FALSE, owed |-> FALSE,
             inbox |-> <<>>]
NoLaunch == [at |-> "idle", msg |-> "none"]

Init ==
  /\ worker = [c \in Children |-> NoWorker]
  /\ held = {} /\ waiting = <<>>
  /\ queue = [c \in Children |-> <<>>]
  /\ launch = [c \in Children |-> NoLaunch]
  /\ blocked = [c \in Children |-> FALSE]
  /\ broken = {} /\ closed = FALSE
  /\ sent = [c \in Children |-> <<>>] /\ fate = [c \in Children |-> <<>>]
  /\ announced = [c \in Children |-> FALSE]

Active(c) == worker[c].pc \notin {"none", "reserved"}
Exec(c) == <<c, worker[c].gen>>
Fates(ms, what) == [k \in 1..Len(ms) |-> [msg |-> ms[k], fate |-> what]]
Met(c, ms, what) == fate' = [fate EXCEPT ![c] = @ \o Fates(ms, what)]
Set(c, rec) == worker' = [worker EXCEPT ![c] = rec]

(***************************************************************************)
(* SubagentCapacity                                                        *)
(***************************************************************************)

\* reserve: an execution that holds a slot keeps it; a new one needs a free slot.
Reservable(e) == e \in held \/ Cardinality(held) < Limit

\* Mutant: everybody who waits is admitted once a slot is released.
MutAdmitted(h) == h \cup {waiting[k].exec : k \in DOMAIN waiting}

\* Mutant: nobody who waits is admitted.
MutDrain(h) == h

\* The slots h and those of the waiters ws that find one, in the order they came: a waiter
\* is admitted if there is room for it beside all who came before.
Fitting(h, ws, limit) ==
  h \cup {ws[k].exec : k \in {n \in DOMAIN ws :
                                Cardinality(h \cup {ws[i].exec : i \in 1..n}) <= limit}}

\* #drain
Admitted(h) == Fitting(h, waiting, Limit)

\* The waiters but those of the executions E, in their order.
Without(ws, E) ==
  LET K == {k \in DOMAIN ws : ws[k].exec \notin E}
      At(i) == CHOOSE k \in K : Cardinality({j \in K : j <= k}) = i
  IN  [i \in 1..Cardinality(K) |-> ws[At(i)]]

Resumed(rec) == [rec EXCEPT !.pausing = FALSE, !.pc = IF @ = "parked" THEN "running" ELSE @]

Waiter(c, for) == [exec |-> Exec(c), for |-> for]
Waits(c, for) == \E k \in DOMAIN waiting : waiting[k] = Waiter(c, for)

\* What becomes of a worker whose waiters were admitted.
Woken(rec, c) ==
  LET started == [rec EXCEPT !.pc = IF @ = "waiting" THEN "loading" ELSE @]
  IN  IF Waits(c, "resume") THEN Resumed(started) ELSE started

\* release(e), after which the worker of c is rec.
Release(c, rec) ==
  LET h == Admitted(held \ {Exec(c)})
  IN  /\ held' = h
      /\ waiting' = Without(waiting, h)
      /\ worker' = [d \in Children |-> IF d = c THEN rec
                                       ELSE IF Exec(d) \in h THEN Woken(worker[d], d)
                                       ELSE worker[d]]

(***************************************************************************)
(* Starting a child, and its worker                                        *)
(***************************************************************************)

\* #startStandalone: the execution is recorded with its slot; without one the call fails.
Start(c) ==
  /\ ~closed /\ worker[c].gen = 0 /\ Cardinality(held) < Limit
  /\ Set(c, [NoWorker EXCEPT !.pc = "reserved", !.gen = 1])
  /\ held' = held \cup {<<c, 1>>}
  /\ UNCHANGED <<waiting, queue, launch, blocked, broken, closed, history>>

\* The artifacts exist: the worker becomes active; one cancelled meanwhile fails at once.
LaunchStarted(c) ==
  /\ worker[c].pc = "reserved"
  /\ Set(c, [worker[c] EXCEPT !.pc = IF worker[c].aborted THEN "closing" ELSE "loading"])
  /\ UNCHANGED <<held, waiting, queue, launch, blocked, broken, closed, history>>

\* Mutant: the flushed messages stay in the queue.
MutFlushed(c) == queue

Flushed(c) == [queue EXCEPT ![c] = <<>>]

\* The Session is open and the Run starts: flush() hands it what came in meanwhile.
Loaded(c) ==
  /\ worker[c].pc = "loading"
  /\ Set(c, [worker[c] EXCEPT !.pc = "running", !.inbox = queue[c]])
  /\ queue' = Flushed(c)
  /\ UNCHANGED <<held, waiting, launch, blocked, broken, closed, history>>

LoadFails(c) ==
  /\ worker[c].pc = "loading"
  /\ Set(c, [worker[c] EXCEPT !.pc = "closing"])
  /\ UNCHANGED <<held, waiting, queue, launch, blocked, broken, closed, history>>

\* A boundary of the Run: everything accepted goes into the history.
Drain(c) ==
  /\ worker[c].pc = "running" /\ ~worker[c].pausing /\ worker[c].inbox # <<>>
  /\ Set(c, [worker[c] EXCEPT !.inbox = <<>>])
  /\ Met(c, worker[c].inbox, "injected")
  /\ UNCHANGED <<held, waiting, queue, launch, blocked, broken, closed, sent, announced>>

\* The Run parks at a boundary and its slot is released; the parent is told.
Park(c) ==
  /\ worker[c].pc = "running" /\ worker[c].pausing
  /\ Release(c, [worker[c] EXCEPT !.pc = "parked"])
  /\ UNCHANGED <<queue, launch, blocked, broken, closed, history>>

\* carry(): what a Run leaves goes back in front of the queue, and the pump goes on.  The
\* pause of a Run that ended before its next boundary stays on its worker.
RunEnds(c) ==
  /\ worker[c].pc = "running"
  /\ Set(c, [worker[c] EXCEPT !.pc = "closing", !.inbox = <<>>])
  /\ IF closed THEN Met(c, worker[c].inbox, "cancelled") /\ UNCHANGED <<queue, blocked>>
     ELSE /\ queue' = [queue EXCEPT ![c] = worker[c].inbox \o @]
          /\ blocked' = [blocked EXCEPT ![c] = @ /\ worker[c].inbox = <<>>]
          /\ UNCHANGED fate
  /\ UNCHANGED <<held, waiting, launch, broken, closed, sent, announced>>

\* An error that counts as a cancellation of the Run supersedes what it accepted.
RunBreaksOff(c) ==
  /\ worker[c].pc = "running"
  /\ Set(c, [worker[c] EXCEPT !.pc = "closing", !.inbox = <<>>])
  /\ Met(c, worker[c].inbox, "superseded")
  /\ UNCHANGED <<held, waiting, queue, launch, blocked, broken, closed, sent, announced>>

\* The Session is closed and the execution is terminal, which releases its slot.
Complete(c) ==
  /\ worker[c].pc = "closing"
  /\ Release(c, [worker[c] EXCEPT !.pc = "settling"])
  /\ UNCHANGED <<queue, launch, blocked, broken, closed, history>>

Settles(c) == worker[c].pc = "settling"

\* The finally of #launch: the capture is sealed, the worker leaves, and the parent hears of
\* it if no accepted message is pending.
Settle(c) ==
  /\ Settles(c)
  /\ Set(c, [NoWorker EXCEPT !.gen = worker[c].gen])
  /\ announced' = [announced EXCEPT ![c] = @ \/ queue[c] = <<>>]
  /\ UNCHANGED <<held, waiting, queue, launch, blocked, broken, closed, sent, fate>>

(***************************************************************************)
(* Controls                                                                *)
(***************************************************************************)

\* sendInternalMessage: a Run that is under way accepts the message.
Injectable(c) == queue[c] = <<>> /\ worker[c].pc \in {"running", "parked"}

\* A message is injected or queued; a worker that is still there is asked to resume.
Send(c, m) ==
  /\ ~closed /\ worker[c].gen > 0 /\ worker[c].pc # "reserved"
  /\ \A d \in Children : m \notin ToSet(sent[d])
  /\ sent' = [sent EXCEPT ![c] = Append(@, m)]
  /\ IF Injectable(c)
     THEN /\ Set(c, [worker[c] EXCEPT !.inbox = Append(@, m), !.owed = TRUE])
          /\ UNCHANGED <<queue, blocked>>
     ELSE /\ queue' = [queue EXCEPT ![c] = Append(@, m)]
          /\ blocked' = [blocked EXCEPT ![c] = FALSE]
          /\ Set(c, [worker[c] EXCEPT !.owed = Active(c)])
  /\ UNCHANGED <<held, waiting, launch, broken, closed, fate, announced>>

\* A control, or the deadline of the worker, asks for a pause.
Pause(c) ==
  /\ Active(c) /\ ~worker[c].aborted /\ ~worker[c].pausing
  /\ Set(c, [worker[c] EXCEPT !.pausing = TRUE])
  /\ UNCHANGED <<held, waiting, queue, launch, blocked, broken, closed, history>>

\* #resumeCurrent of the worker rec: a slot is acquired, if need be after a wait.
Resuming(c, rec) ==
  IF ~Active(c) \/ rec.aborted \/ ~rec.pausing \/ Waits(c, "resume")
  THEN Set(c, rec) /\ UNCHANGED <<held, waiting>>
  ELSE IF Reservable(Exec(c))
  THEN Set(c, Resumed(rec)) /\ held' = held \cup {Exec(c)} /\ UNCHANGED waiting
  ELSE Set(c, rec) /\ waiting' = Append(waiting, Waiter(c, "resume"))
                   /\ UNCHANGED held

Resume(c) ==
  /\ worker[c].pausing
  /\ Resuming(c, worker[c])
  /\ UNCHANGED <<queue, launch, blocked, broken, closed, history>>

ResumeOwed(c) ==
  /\ worker[c].owed
  /\ Resuming(c, [worker[c] EXCEPT !.owed = FALSE])
  /\ UNCHANGED <<queue, launch, blocked, broken, closed, history>>

\* The signal of a worker: its Run is interrupted, what it accepted is superseded.
Aborted(rec) ==
  [rec EXCEPT !.aborted = TRUE, !.inbox = <<>>,
              !.pc = IF @ \in {"waiting", "loading", "running", "parked"} THEN "closing" ELSE @]

\* The messages a stop takes away, those of the Run first.
Dropped(c) == Fates(worker[c].inbox, "superseded") \o Fates(queue[c], "cancelled")

\* #cancelCurrent: the queue is cleared and the worker aborted; one that is not active yet is
\* marked, and its record, being terminal, releases its slot.
Cancel(c) ==
  /\ worker[c].gen > 0
  /\ fate' = [fate EXCEPT ![c] = @ \o Dropped(c)]
  /\ queue' = [queue EXCEPT ![c] = <<>>]
  /\ IF worker[c].pc = "reserved" /\ ~worker[c].aborted
     THEN Release(c, [worker[c] EXCEPT !.aborted = TRUE])
     ELSE /\ Set(c, IF Active(c) THEN Aborted(worker[c]) ELSE worker[c])
          /\ waiting' = Without(waiting, IF Active(c) THEN {Exec(c)} ELSE {})
          /\ UNCHANGED held
  /\ UNCHANGED <<launch, blocked, broken, closed, sent, announced>>

(***************************************************************************)
(* The pump of a child                                                     *)
(***************************************************************************)

BeginLaunch(c) ==
  /\ ~closed /\ launch[c].at = "idle" /\ ~blocked[c]
  /\ queue[c] # <<>> /\ worker[c].pc = "none"
  /\ launch' = [launch EXCEPT ![c] = [at |-> "preparing", msg |-> Head(queue[c])]]
  /\ UNCHANGED <<worker, held, waiting, queue, blocked, broken, closed, history>>

\* wanted(): the message was not cancelled meanwhile.
Wanted(c) == launch[c].msg \in ToSet(queue[c])

EndLaunch(c) == launch' = [launch EXCEPT ![c] = NoLaunch]

\* The message leaves the queue once its launch returned.
Shifted(c) == queue' = [queue EXCEPT ![c] = Tail(@)]

\* A message that is no longer wanted is not launched, whatever was prepared for it.
Dismiss(c) ==
  /\ launch[c].at # "idle" /\ ~Wanted(c)
  /\ EndLaunch(c)
  /\ UNCHANGED <<worker, held, waiting, queue, blocked, broken, closed, history>>

\* #followup: the execution is recorded without a slot.  If an earlier launch recorded it
\* and failed, the message counts as launched and is lost.
CreateExecution(c) ==
  /\ launch[c].at = "preparing" /\ Wanted(c)
  /\ IF launch[c].msg \in broken
     THEN EndLaunch(c) /\ Shifted(c) /\ Met(c, <<launch[c].msg>>, "lost")
     ELSE /\ launch' = [launch EXCEPT ![c].at = "created"]
          /\ UNCHANGED <<queue, fate>>
  /\ UNCHANGED <<worker, held, waiting, blocked, broken, closed, sent, announced>>

\* The successor becomes active and asks for a slot.
LaunchFollowup(c) ==
  /\ launch[c].at = "created" /\ Wanted(c)
  /\ EndLaunch(c) /\ Shifted(c) /\ Met(c, <<launch[c].msg>>, "launched")
  /\ announced' = [announced EXCEPT ![c] = FALSE]
  /\ LET e == <<c, worker[c].gen + 1>>
         rec == [NoWorker EXCEPT !.gen = e[2],
                                 !.pc = IF Reservable(e) THEN "loading" ELSE "waiting"]
     IN  /\ Set(c, rec)
         /\ IF Reservable(e)
            THEN held' = held \cup {e} /\ UNCHANGED waiting
            ELSE waiting' = Append(waiting, [exec |-> e, for |-> "start"]) /\ UNCHANGED held
  /\ UNCHANGED <<blocked, broken, closed, sent>>

\* Mutant: the parent does not hear of a successor that had no model.
MutNoModel(c) ==
  /\ launch[c].at = "created" /\ Wanted(c)
  /\ EndLaunch(c) /\ Shifted(c) /\ Met(c, <<launch[c].msg>>, "retained")
  /\ UNCHANGED <<worker, held, waiting, blocked, broken, closed, sent, announced>>

\* The saved model is gone: the text is kept in the history and the execution has failed.
NoModel(c) ==
  /\ launch[c].at = "created" /\ Wanted(c)
  /\ EndLaunch(c) /\ Shifted(c) /\ Met(c, <<launch[c].msg>>, "retained")
  /\ announced' = [announced EXCEPT ![c] = TRUE]
  /\ UNCHANGED <<worker, held, waiting, blocked, broken, closed, sent>>

\* A query or a command of the launch fails: the pump stops until the next message.
LaunchFails(c) ==
  /\ launch[c].at # "idle"
  /\ EndLaunch(c)
  /\ blocked' = [blocked EXCEPT ![c] = TRUE]
  /\ broken' = IF launch[c].at = "created" THEN broken \cup {launch[c].msg} ELSE broken
  /\ UNCHANGED <<worker, held, waiting, queue, closed, history>>

(***************************************************************************)
(* Shutdown                                                                *)
(***************************************************************************)

\* dispose(): nothing is accepted any more; the queues are dropped.
Dispose ==
  /\ ~closed
  /\ closed' = TRUE
  /\ fate' = [c \in Children |-> fate[c] \o Fates(queue[c], "cancelled")]
  /\ queue' = [c \in Children |-> <<>>]
  /\ UNCHANGED <<worker, held, waiting, launch, blocked, broken, sent, announced>>

\* Once every start has settled, the active workers are aborted.
AbortAll ==
  /\ closed /\ \A c \in Children : worker[c].pc # "reserved"
  /\ \E c \in Children : Active(c) /\ ~worker[c].aborted
  /\ worker' = [c \in Children |-> IF Active(c) THEN Aborted(worker[c]) ELSE worker[c]]
  /\ fate' = [c \in Children |-> fate[c] \o Fates(worker[c].inbox, "superseded")]
  /\ waiting' = Without(waiting, {Exec(c) : c \in {d \in Children : Active(d)}})
  /\ UNCHANGED <<held, queue, launch, blocked, broken, closed, sent, announced>>

-----------------------------------------------------------------------------

RunStep(c) == Park(c) \/ RunEnds(c) \/ RunBreaksOff(c)
LoadStep(c) == LaunchStarted(c) \/ Loaded(c) \/ LoadFails(c)
WorkerStep(c) == LoadStep(c) \/ RunStep(c) \/ Complete(c) \/ Settle(c)
PumpStep(c) == \/ BeginLaunch(c) \/ Dismiss(c) \/ CreateExecution(c) \/ LaunchFollowup(c)
               \/ NoModel(c) \/ LaunchFails(c)

\* What a child does without being asked.
ChildStep(c) == WorkerStep(c) \/ PumpStep(c) \/ ResumeOwed(c)

Next ==
  \/ \E c \in Children : \/ Start(c) \/ ChildStep(c) \/ Drain(c)
                         \/ Pause(c) \/ Resume(c) \/ Cancel(c)
                         \/ \E m \in Messages : Send(c, m)
  \/ Dispose \/ AbortAll

Spec == Init /\ [][Next]_vars

\* Awaited calls settle and a Run comes to its end, or to the boundary where it parks, so a
\* child that can do something does.  Nothing resumes a parked Run but the parent.
Fairness == (\A c \in Children : WF_vars(ChildStep(c))) /\ WF_vars(AbortAll)

FairSpec == Spec /\ Fairness

-----------------------------------------------------------------------------
(***************************************************************************)
(* Properties                                                              *)
(***************************************************************************)

Worker == [pc : Pcs, gen : Nat, aborted : BOOLEAN, pausing : BOOLEAN, owed : BOOLEAN,
           inbox : Seq(Messages)]
Launches == [at : {"idle", "preparing", "created"}, msg : Messages \cup {"none"}]
MessageFates == [msg : Messages, fate : {"injected", "launched", "retained", "superseded",
                                         "cancelled", "lost"}]
Executions == Children \X Nat

\* The types of what concerns workers and messages.
MessageTypes ==
  /\ worker \in [Children -> Worker]
  /\ queue \in [Children -> Seq(Messages)] /\ launch \in [Children -> Launches]
  /\ blocked \in [Children -> BOOLEAN] /\ broken \subseteq Messages /\ closed \in BOOLEAN
  /\ sent \in [Children -> Seq(Messages)] /\ fate \in [Children -> Seq(MessageFates)]
  /\ announced \in [Children -> BOOLEAN]

\* No more workers than the limit do anything: one that loads, runs or finishes its Run owns
\* a slot, however often it was paused, resumed and overtaken.
WorkersOwnSlots ==
  /\ Cardinality(held) <= Limit
  /\ \A c \in Children : /\ worker[c].pc \in {"loading", "running"} => Exec(c) \in held
                         /\ worker[c].pc = "parked" => Exec(c) \notin held

\* Every message a child accepted is in exactly one place, in the order of acceptance: what
\* has met its fate, then what the Run holds, then what waits for a successor.
MessagesKeepTheirOrder ==
  \A c \in Children :
    [k \in 1..Len(fate[c]) |-> fate[c][k].msg] \o worker[c].inbox \o queue[c] = sent[c]

AtRest(c) == /\ worker[c].gen > 0 /\ worker[c].pc = "none"
             /\ queue[c] = <<>> /\ launch[c].at = "idle"

\* The parent was told of every child that came to rest: the end of a Run is kept back only
\* for a message that will start a successor.  Excepted is a child with a message that was
\* cancelled or lost before it did.
RestIsAnnounced ==
  \A c \in Children :
    AtRest(c) => announced[c] \/ \E k \in DOMAIN fate[c] : fate[c][k].fate \in {"cancelled", "lost"}

\* A slot belongs to an execution whose worker is being prepared or is at work.
SlotsBelongToWorkers ==
  \A e \in held : worker[e[1]].gen = e[2] /\ worker[e[1]].pc \notin {"none", "settling"}

\* Whatever a child waits for comes: a slot for its worker, and for every queued message a
\* Run that takes it, or a stop that takes it away.  The exceptions are a pump that gave up,
\* and a slot that was lost, see SlotsBelongToWorkers.
Unserved(c) == queue[c] # <<>> \/ worker[c].pc = "waiting" \/ Waits(c, "resume")

WaitingIsServed ==
  \A c \in Children : Unserved(c) ~> (~Unserved(c) \/ blocked[c] \/ ~SlotsBelongToWorkers)
=============================================================================
