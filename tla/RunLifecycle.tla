---------------------------- MODULE RunLifecycle ----------------------------
(***************************************************************************)
(* The life of the Runs of one public Session inside the main process:     *)
(* SessionRunController, with the pause control, the interjection queue,   *)
(* the human approval of a tool call, the idempotent client requests and   *)
(* the gate that lets a background event start a Run.                      *)
(*                                                                         *)
(* A Run is one asynchronous function.  pc[r] names the await it stands    *)
(* at; everything between two awaits is one step, so between two steps of  *)
(* a Run the user may stop it, pause it, speak to it or close the Session, *)
(* and timers and unfinished side effects may fire.                        *)
(***************************************************************************)
EXTENDS Naturals, Sequences, SequencesExt

CONSTANTS
  MaxRuns,       \* bound: Runs ever started in the Session
  MaxSteps,      \* limits.maxStepsPerRun, at least 1
  MaxCalls,      \* bound: noteworthy tool calls (asking or non-abortable) of a batch
  Interjections, \* the messages a user may send into a Run
  Requests       \* client request ids

ASSUME RunBounds == /\ MaxRuns \in Nat \ {0}
                    /\ MaxSteps \in Nat \ {0}
                    /\ MaxCalls \in Nat

Runs == 1..MaxRuns
NoRun == 0

VARIABLES
  run,       \* the Run objects, by order of start
  active,    \* session.activeRun
  started,   \* how many Runs were started
  closed,    \* session.closed
  request,   \* session.clientRequests
  epoch,     \* BackgroundWakeupGate: the Run whose start made the epoch, NoRun for another intent
  eligible,  \* BackgroundWakeupGate: the epoch that may be claimed
  claims,    \* epochs claimed by background events still preparing their message
  acted,     \* the claims since which the user acted (history variable)
  handled    \* the interjections of a Run by what became of them (history variable)

vars == <<run, active, started, closed, request, epoch, eligible, claims, acted, handled>>

Terminal == {"completed", "cancelled", "failed"}
Checkpoints == {"prepare", "boundary", "request"}
NoRequest == "none"

ASSUME RequestNames == NoRequest \notin Requests

\* A Run object before and after its creation by start(): an ordinary turn, a /compact
\* command ("compact") or the answer to a background event ("wake").
NewRun(kind, q) ==
  [pc |-> "prepare", back |-> "prepare", status |-> "idle", resumeTo |-> "idle",
   kind |-> kind, req |-> q, aborted |-> FALSE, accepting |-> TRUE, committed |-> FALSE,
   natural |-> FALSE, pausing |-> FALSE, step |-> 0, calls |-> 0, side |-> 0,
   asked |-> FALSE, verdict |-> "none", outcome |-> "none",
   accepted |-> <<>>, queue |-> <<>>, batch |-> <<>>, carry |-> <<>>]

Unborn == [NewRun("turn", NoRequest) EXCEPT !.pc = "none", !.accepting = FALSE]

NothingMet == [injected |-> <<>>, superseded |-> <<>>, carried |-> <<>>]

Init ==
  /\ run = [r \in Runs |-> Unborn]
  /\ active = NoRun /\ started = 0 /\ closed = FALSE
  /\ request = [q \in Requests |-> NoRun]
  /\ epoch = NoRun /\ eligible = NoRun /\ claims = {} /\ acted = {}
  /\ handled = [r \in Runs |-> NothingMet]

\* Mutant: a late stop or pause does not see that the Run ended.
MutIsLive(r) == run[r].pc # "none"

IsLive(r) == run[r].pc # "none" /\ run[r].status \notin Terminal
UNCHANGEDGate == UNCHANGED <<epoch, eligible, claims, acted>>
UNCHANGEDSession == UNCHANGED <<active, started, closed, request>>

(***************************************************************************)
(* BackgroundWakeupGate                                                    *)
(***************************************************************************)

\* invalidate: a new epoch, which only a Run can hold, and nothing to claim.
Invalidate(e) ==
  /\ epoch' = e
  /\ eligible' = NoRun

\* settled: the naturally completed Run offers one claim if no intent came since.
Offer(r) ==
  eligible' = IF run[r].natural /\ run[r].status = "completed" /\ epoch = r
              THEN r ELSE eligible

\* The start, retry and continue commands, and every lifecycle mutation, invalidate
\* before they do anything else, whether or not a Run follows.
UserIntends ==
  /\ ~closed
  /\ Invalidate(NoRun)
  /\ acted' = claims
  /\ UNCHANGED <<run, active, started, closed, request, claims, handled>>

\* A child settles or pauses: the attempt claims the eligibility of an idle Session.
ClaimWakeup ==
  /\ ~closed /\ active = NoRun /\ eligible # NoRun
  /\ claims' = claims \cup {eligible}
  /\ eligible' = NoRun
  /\ UNCHANGED <<run, active, started, closed, request, epoch, acted, handled>>

(***************************************************************************)
(* start()                                                                 *)
(***************************************************************************)

\* Mutant: a terminal check is missing before the active Run is replaced.
MutMayStart == started < MaxRuns /\ ~closed

MayStart == /\ started < MaxRuns
            /\ ~closed
            /\ active # NoRun => run[active].status \in Terminal

Begin(kind, q) ==
  LET r == started + 1
  IN  /\ run' = [run EXCEPT ![r] = NewRun(kind, q)]
      /\ active' = r
      /\ started' = r
      /\ Invalidate(r)

\* A client request that is not known: a repeated one is answered with its Run and changes
\* nothing.  A terminal Run that still settles is replaced.
Start(kind, q) ==
  /\ MayStart
  /\ request[q] = NoRun
  /\ Begin(kind, q)
  /\ request' = [request EXCEPT ![q] = started + 1]
  /\ acted' = claims
  /\ UNCHANGED <<closed, claims, handled>>

\* An active Run refuses the request, but the gate was invalidated before the check.
StartRefused(q) ==
  /\ ~closed /\ request[q] = NoRun
  /\ active # NoRun /\ run[active].status \notin Terminal
  /\ Invalidate(NoRun)
  /\ acted' = claims
  /\ UNCHANGED <<run, active, started, closed, request, claims, handled>>

\* Mutant: the claim is not checked again once the notification is ready.
MutWakeupValid(c) == ~closed /\ active = NoRun

\* The notification is ready: it starts a Run if its claim is still valid, and is dropped
\* otherwise.
WakeupValid(c) == ~closed /\ active = NoRun /\ epoch = c

StartWakeup(c) ==
  /\ c \in claims
  /\ WakeupValid(c) /\ MayStart
  /\ Begin("wake", NoRequest)
  /\ claims' = claims \ {c}
  /\ acted' = acted \ {c}
  /\ UNCHANGED <<closed, request, handled>>

DropWakeup(c) ==
  /\ c \in claims
  /\ claims' = claims \ {c}
  /\ acted' = acted \ {c}
  /\ UNCHANGED <<run, active, started, closed, request, epoch, eligible, handled>>

(***************************************************************************)
(* The steps of #run                                                       *)
(***************************************************************************)

Set(r, fields) == run' = [run EXCEPT ![r] = fields]

\* Mutant: the catch block forgets every request, committed or not.
MutFailWith(r, outcome) ==
  /\ Set(r, [run[r] EXCEPT !.pc = "ending", !.accepting = FALSE, !.queue = <<>>,
                           !.outcome = outcome])
  /\ handled' = [handled EXCEPT ![r].superseded = @ \o run[r].queue]
  /\ request' = IF run[r].req \in Requests
                THEN [request EXCEPT ![run[r].req] = NoRun] ELSE request
  /\ UNCHANGED <<active, started, closed>>
  /\ UNCHANGEDGate

\* Mutant: the catch block leaves accepting set and the queue in place.
MutFailKeeps(r, outcome) ==
  /\ Set(r, [run[r] EXCEPT !.pc = "ending", !.outcome = outcome])
  /\ request' = IF run[r].req \in Requests /\ ~run[r].committed
                THEN [request EXCEPT ![run[r].req] = NoRun] ELSE request
  /\ UNCHANGED <<active, started, closed, handled>>
  /\ UNCHANGEDGate

\* The catch block: an uncommitted request may be sent again, what is still queued is
\* superseded, and #finishRun begins.  An error named AbortError counts as a cancellation.
FailWith(r, outcome) ==
  /\ Set(r, [run[r] EXCEPT !.pc = "ending", !.accepting = FALSE, !.queue = <<>>,
                           !.outcome = outcome])
  /\ handled' = [handled EXCEPT ![r].superseded = @ \o run[r].queue]
  /\ request' = IF run[r].req \in Requests /\ ~run[r].committed
                THEN [request EXCEPT ![run[r].req] = NoRun] ELSE request
  /\ UNCHANGED <<active, started, closed>>
  /\ UNCHANGEDGate

Fail(r) == \E o \in IF run[r].aborted THEN {"cancelled"} ELSE {"failed", "cancelled"} :
             FailWith(r, o)

\* The places where a rejected await, or the signal, throws.
StepFails(r) ==
  /\ run[r].pc \in {"input", "compacting", "provider", "answered"} \cup Checkpoints
  /\ run[r].pc = "boundary" => run[r].aborted
  /\ Fail(r)

StepsLeft(r) == run[r].step < MaxSteps

StepsExhausted(r) ==
  /\ run[r].pc = "boundary" /\ ~StepsLeft(r)
  /\ ~run[r].pausing \/ run[r].aborted
  /\ FailWith(r, IF run[r].aborted THEN "cancelled" ELSE "failed")

Quiet == /\ UNCHANGEDSession
         /\ UNCHANGEDGate
         /\ UNCHANGED handled

\* checkpoint(): a requested pause first waits for the side effects that are running.
ReachCheckpoint(r) ==
  /\ run[r].pc \in Checkpoints
  /\ run[r].pausing /\ ~run[r].aborted
  /\ Set(r, [run[r] EXCEPT !.pc = "settle", !.back = run[r].pc])
  /\ Quiet

\* Mutant: nothing waits for the side effects before parking.
MutSideEffectsDone(r) == TRUE

SideEffectsDone(r) == run[r].side = 0

\* The wait is over: the Run parks, or goes on when the pause was withdrawn.
Park(r) ==
  /\ run[r].pc = "settle"
  /\ SideEffectsDone(r)
  /\ ~run[r].aborted
  /\ Set(r, IF run[r].pausing
            THEN [run[r] EXCEPT !.pc = "parked", !.status = "paused",
                                !.resumeTo = run[r].status]
            ELSE [run[r] EXCEPT !.pc = run[r].back])
  /\ Quiet

\* The signal ends the wait for the side effects, or the parked Run, with an error.
ParkAborted(r) ==
  /\ run[r].aborted
  /\ \/ run[r].pc = "settle" /\ SideEffectsDone(r)
     \/ run[r].pc = "parked"
  /\ Fail(r)

Passes(r, pc) == run[r].pc = pc /\ ~run[r].pausing /\ ~run[r].aborted

\* Before the input is appended: routes, attachments, history transition.
Prepare(r) ==
  /\ run[r].pc = "prepare" /\ ~run[r].pausing
  /\ Set(r, [run[r] EXCEPT !.pc = "input"])
  /\ Quiet

\* The input of the turn is durable: from here on the request is never forgotten.
CommitInput(r) ==
  /\ run[r].pc = "input"
  /\ Set(r, [run[r] EXCEPT !.pc = IF run[r].kind = "compact" THEN "compacting" ELSE "boundary",
                           !.committed = TRUE])
  /\ Quiet

\* /compact alone ends the Run; followed by a message it goes on with that message.
CompactEnds(r) ==
  /\ run[r].pc = "compacting"
  /\ Set(r, [run[r] EXCEPT !.pc = "ending", !.outcome = "completed"])
  /\ Quiet

CompactContinues(r) ==
  /\ run[r].pc = "compacting"
  /\ Set(r, [run[r] EXCEPT !.pc = "boundary"])
  /\ Quiet

\* drain(): the queue becomes a batch that is appended to the history.
Drain(r) ==
  /\ Passes(r, "boundary") /\ StepsLeft(r)
  /\ Set(r, IF run[r].queue = <<>>
            THEN [run[r] EXCEPT !.pc = "request", !.status = "calling_llm"]
            ELSE [run[r] EXCEPT !.pc = "drain", !.batch = run[r].queue, !.queue = <<>>])
  /\ Quiet

CommitDrain(r) ==
  /\ run[r].pc = "drain"
  /\ Set(r, [run[r] EXCEPT !.pc = "request", !.status = "calling_llm", !.batch = <<>>])
  /\ handled' = [handled EXCEPT ![r].injected = @ \o run[r].batch]
  /\ UNCHANGEDSession /\ UNCHANGEDGate

\* restore(): the batch goes back in front of what arrived since.
Restored(r) == run[r].batch \o run[r].queue

\* The durable commit fails: the batch is restored, then the catch block supersedes it.
DrainFails(r) ==
  /\ run[r].pc = "drain"
  /\ Set(r, [run[r] EXCEPT !.pc = "ending", !.accepting = FALSE, !.batch = <<>>, !.queue = <<>>,
                           !.outcome = IF run[r].aborted THEN "cancelled" ELSE "failed"])
  /\ handled' = [handled EXCEPT ![r].superseded = @ \o Restored(r)]
  /\ UNCHANGEDSession /\ UNCHANGEDGate

\* callProvider: the last checkpoint stands right before the request is sent.
SendRequest(r) ==
  /\ Passes(r, "request")
  /\ Set(r, [run[r] EXCEPT !.pc = "provider"])
  /\ Quiet

\* The answer is complete: it calls tools, or it is a final text.
ProviderAnswers(r) ==
  /\ run[r].pc = "provider"
  /\ \E tools \in BOOLEAN :
       Set(r, IF tools
              THEN [run[r] EXCEPT !.pc = "tools", !.status = "running_tools"]
              ELSE [run[r] EXCEPT !.pc = "answered"])
  /\ Quiet

\* The Goal or Plan wants another step.
Continue(r) ==
  /\ run[r].pc = "answered"
  /\ Set(r, [run[r] EXCEPT !.pc = "boundary", !.step = @ + 1])
  /\ Quiet

\* The final answer is durable: no interjection is accepted after this step.
Finish(r) ==
  /\ run[r].pc = "answered"
  /\ Set(r, [run[r] EXCEPT !.pc = "carry", !.accepting = FALSE,
                           !.carry = run[r].queue, !.queue = <<>>])
  /\ Quiet

\* carryOver(): one event for each message, each followed by a log write.
CarryOne(r) ==
  /\ run[r].pc = "carry" /\ run[r].carry # <<>>
  /\ Set(r, [run[r] EXCEPT !.carry = Tail(@)])
  /\ handled' = [handled EXCEPT ![r].carried = Append(@, Head(run[r].carry))]
  /\ UNCHANGEDSession /\ UNCHANGEDGate

Carried(r) ==
  /\ run[r].pc = "carry" /\ run[r].carry = <<>>
  /\ Set(r, [run[r] EXCEPT !.pc = "ending", !.natural = TRUE, !.outcome = "completed"])
  /\ Quiet

(***************************************************************************)
(* The tool batch, as far as the Run sees it                               *)
(***************************************************************************)

\* A call that policy does not settle awaits the resource plan, the plugins and the trace.
Authorize(r) ==
  /\ run[r].pc = "tools" /\ ~run[r].aborted /\ run[r].calls < MaxCalls
  /\ Set(r, [run[r] EXCEPT !.pc = "asking", !.calls = @ + 1])
  /\ Quiet

\* requestToolApproval: nothing looks at the signal before the question is asked.
Ask(r) ==
  /\ run[r].pc = "asking"
  /\ Set(r, [run[r] EXCEPT !.pc = "approval", !.status = "awaiting_approval", !.asked = TRUE])
  /\ Quiet

\* Mutant: neither a stop nor the timer settles the question.
MutAnswered(rec, decision) ==
  IF rec.asked /\ decision # "cancelled"
  THEN [rec EXCEPT !.pc = "decided", !.asked = FALSE, !.verdict = decision] ELSE rec

\* finish(): the first decision clears the pending approval.
Answered(rec, decision) ==
  IF rec.asked THEN [rec EXCEPT !.pc = "decided", !.asked = FALSE, !.verdict = decision]
  ELSE rec

Decide(r) ==
  /\ ~closed /\ active = r /\ run[r].asked
  /\ \E d \in {"allow", "deny"} : Set(r, Answered(run[r], d))
  /\ Quiet

ApprovalExpires(r) ==
  /\ run[r].asked
  /\ Set(r, Answered(run[r], "cancelled"))
  /\ Quiet

\* The decision is written to the trace, then the status is restored, unless it was cancelled.
Decided(r) ==
  /\ run[r].pc = "decided"
  /\ Set(r, [run[r] EXCEPT !.pc = "tools", !.verdict = "none",
                           !.status = IF run[r].verdict # "cancelled" /\ ~run[r].aborted
                                      THEN "running_tools" ELSE @])
  /\ Quiet

\* A body that cannot be aborted is tracked until it settles, however its call returns.
StartSideEffect(r) ==
  /\ run[r].pc = "tools" /\ ~run[r].aborted /\ run[r].calls < MaxCalls
  /\ Set(r, [run[r] EXCEPT !.calls = @ + 1, !.side = @ + 1])
  /\ Quiet

SideEffectSettles(r) ==
  /\ run[r].side > 0
  /\ Set(r, [run[r] EXCEPT !.side = @ - 1])
  /\ Quiet

\* The batch is durable; a cancelled batch, or a failed commit, throws afterwards.
ToolsDone(r) ==
  /\ run[r].pc = "tools" /\ ~run[r].aborted
  /\ Set(r, [run[r] EXCEPT !.pc = "boundary", !.step = @ + 1, !.calls = 0])
  /\ Quiet

ToolsFail(r) == run[r].pc = "tools" /\ Fail(r)

(***************************************************************************)
(* The end of a Run                                                        *)
(***************************************************************************)

\* #finishRun: the commands of the Run are stopped first; an abort meanwhile wins.
EndStatus(r) == IF run[r].aborted THEN "cancelled" ELSE run[r].outcome

End(r) ==
  /\ run[r].pc = "ending"
  /\ Set(r, [run[r] EXCEPT !.pc = "closing", !.status = EndStatus(r)])
  /\ Quiet

\* run.end is written and afterRun returns.
CloseTrace(r) ==
  /\ run[r].pc = "closing"
  /\ Set(r, [run[r] EXCEPT !.pc = "settling"])
  /\ Quiet

\* Nobody refers to a settled Run any more: only what the properties read is kept of it.
Remains(rec) ==
  [rec EXCEPT !.pc = "gone", !.back = "prepare", !.resumeTo = "idle", !.accepting = FALSE,
              !.pausing = FALSE, !.step = 0, !.calls = 0, !.outcome = "none"]

\* The finally of done: once the side effects settled, the Run leaves the Session, unless a
\* newer Run took its place.
Settle(r) ==
  /\ run[r].pc = "settling" /\ run[r].side = 0
  /\ Set(r, Remains(run[r]))
  /\ IF active = r
     THEN /\ active' = NoRun
          /\ IF closed THEN UNCHANGED eligible ELSE Offer(r)
     ELSE UNCHANGED <<active, eligible>>
  /\ UNCHANGED <<started, closed, request, epoch, claims, acted, handled>>

(***************************************************************************)
(* The user                                                                *)
(***************************************************************************)

\* interjectRun and queue(): accepted while the Run is live and still accepting.
Interject(r, i) ==
  /\ ~closed /\ active = r
  /\ run[r].status \notin Terminal \cup {"cancelling"} /\ run[r].accepting
  /\ \A s \in Runs : \A k \in 1..Len(run[s].accepted) : run[s].accepted[k] # i
  /\ Set(r, [run[r] EXCEPT !.accepted = Append(@, i), !.queue = Append(@, i)])
  /\ Quiet

RequestPause(r) ==
  /\ ~closed /\ active = r /\ IsLive(r) /\ ~run[r].aborted /\ ~run[r].pausing
  /\ Set(r, [run[r] EXCEPT !.pausing = TRUE])
  /\ Quiet

\* resume(): withdraws the request, or wakes the parked Run at its checkpoint.
Resume(r) ==
  /\ ~closed /\ active = r /\ IsLive(r) /\ ~run[r].aborted /\ run[r].pausing
  /\ Set(r, IF run[r].pc = "parked"
            THEN [run[r] EXCEPT !.pausing = FALSE, !.pc = run[r].back,
                                !.status = run[r].resumeTo]
            ELSE [run[r] EXCEPT !.pausing = FALSE])
  /\ Quiet

\* supersedePending() and abort(), with the pending approval answered.
Stopped(rec) ==
  Answered([rec EXCEPT !.accepting = FALSE, !.queue = <<>>, !.aborted = TRUE], "cancelled")

Supersede(r) == handled' = [handled EXCEPT ![r].superseded = @ \o run[r].queue]

Interrupt(r) ==
  /\ ~closed /\ active = r /\ IsLive(r)
  /\ Set(r, [Stopped(run[r]) EXCEPT !.status = "cancelling"])
  /\ Supersede(r)
  /\ Invalidate(NoRun)
  /\ acted' = claims
  /\ UNCHANGED <<active, started, closed, request, claims>>

\* closeSession: the gate forgets the Session, the active Run is cancelled without a status.
Close ==
  /\ ~closed
  /\ closed' = TRUE
  /\ Invalidate(NoRun)
  /\ acted' = claims
  /\ IF active = NoRun THEN UNCHANGED <<run, handled>>
     ELSE Set(active, Stopped(run[active])) /\ Supersede(active)
  /\ UNCHANGED <<active, started, request, claims>>

-----------------------------------------------------------------------------

RunStep(r) ==
  \/ StepFails(r) \/ StepsExhausted(r) \/ ReachCheckpoint(r) \/ Park(r) \/ ParkAborted(r)
  \/ Prepare(r) \/ CommitInput(r) \/ CompactEnds(r) \/ CompactContinues(r)
  \/ Drain(r) \/ CommitDrain(r) \/ DrainFails(r) \/ SendRequest(r) \/ ProviderAnswers(r)
  \/ Continue(r) \/ Finish(r) \/ CarryOne(r) \/ Carried(r)
  \/ Authorize(r) \/ Ask(r) \/ Decided(r) \/ StartSideEffect(r) \/ ToolsDone(r) \/ ToolsFail(r)
  \/ End(r) \/ CloseTrace(r) \/ Settle(r)

Next ==
  \/ UserIntends \/ ClaimWakeup \/ Close
  \/ \E q \in Requests : StartRefused(q) \/ \E kind \in {"turn", "compact"} : Start(kind, q)
  \/ \E c \in claims : StartWakeup(c) \/ DropWakeup(c)
  \/ \E r \in Runs : \/ RunStep(r) \/ SideEffectSettles(r) \/ ApprovalExpires(r) \/ Decide(r)
                     \/ RequestPause(r) \/ Resume(r) \/ Interrupt(r)
                     \/ \E i \in Interjections : Interject(r, i)

Spec == Init /\ [][Next]_vars

\* The event loop runs every ready continuation, timers fire, and a side effect settles.
FairSpec ==
  /\ Spec
  /\ \A r \in Runs : /\ WF_vars(RunStep(r))
                     /\ WF_vars(SideEffectSettles(r))
                     /\ WF_vars(ApprovalExpires(r))

-----------------------------------------------------------------------------
(***************************************************************************)
(* Properties                                                              *)
(***************************************************************************)

\* At most one Run of the Session is under way, and it is the one the Session names: a Run
\* that start() replaced, or that close() gave up waiting for, can do no more than settle.
OneRunAtATime == \A r \in Runs : IsLive(r) => active = r

\* A Run shown as paused is parked at a checkpoint and owns nothing that still works: no
\* side effect, no open question, no request to the model.
PausedIsQuiet ==
  \A r \in Runs : run[r].status = "paused" /\ ~run[r].aborted =>
    run[r].pc = "parked" /\ run[r].side = 0 /\ ~run[r].asked

Ended(r) == run[r].pc \in {"closing", "settling", "gone"}
Met(r) == handled[r].injected \o handled[r].superseded \o handled[r].carried

\* Every interjection the Run accepted is in exactly one place: waiting, or met by one fate.
\* The messages put before the model are the first that arrived, in their order; those carried
\* into the next turn are the last, in their order; a failed commit changes nothing of this.
InterjectionsInOrder ==
  \A r \in Runs :
    LET all == Met(r) \o run[r].batch \o run[r].carry \o run[r].queue
    IN  /\ IsPrefix(handled[r].injected \o run[r].batch, run[r].accepted)
        /\ IsSuffix(handled[r].carried \o run[r].carry \o run[r].queue, run[r].accepted)
        /\ Len(all) = Len(run[r].accepted) /\ ToSet(all) = ToSet(run[r].accepted)

\* A Run that ended owes its user nothing: no accepted message is still waiting.  A Run that
\* was a bare /compact is left out, see EveryMessageIsAnswered.
NothingLeftQueued ==
  \A r \in Runs : Ended(r) /\ run[r].kind # "compact" => Len(Met(r)) = Len(run[r].accepted)

\* What the user says to a Run is answered, once and in order, by this Run or the next.
MessagesAreAnswered == InterjectionsInOrder /\ NothingLeftQueued

\* A client request is carried out once however often it is sent: two Runs whose input was
\* committed never stem from one request, and one that failed before its commit is forgotten.
RequestsRunOnce ==
  /\ \A r, s \in Runs : r # s /\ run[r].committed /\ run[s].committed
                          /\ run[r].req \in Requests => run[r].req # run[s].req
  /\ \A q \in Requests : LET r == request[q] IN
       r # NoRun => run[r].req = q /\ (Ended(r) => run[r].committed)

\* Only a Run that ended by itself, with nothing under way since, may be woken after.
EligibleIsIdle ==
  eligible # NoRun =>
    /\ active = NoRun /\ ~closed /\ epoch = eligible
    /\ run[eligible].status = "completed" /\ run[eligible].natural
    /\ \A r \in Runs : ~IsLive(r)

\* Runs of a Session follow one another: one at a time, and woken by themselves only from rest.
RunsTakeTurns == OneRunAtATime /\ EligibleIsIdle

\* A terminal status is final: no pause, approval or stop that arrives late revives a Run.
TerminalIsFinal ==
  [][\A r \in Runs : run[r].status \in Terminal => run'[r].status = run[r].status]_vars

\* A background event never starts a Run over something the user did after the event.
WakeupsYieldToUser ==
  [][\A c \in claims : started' # started /\ c \notin claims' => c \notin acted]_vars

\* Every Run ends whose user does not leave it paused, or keep pausing it, for ever.
RunsEnd ==
  \A r \in Runs : <>[](~run[r].pausing) => (run[r].pc # "none") ~> (run[r].pc = "gone")

(***************************************************************************)
(* What the documentation says and the code does not do                    *)
(***************************************************************************)

\* Anything accepted before the last boundary of a Run is injected, superseded or carried.
EveryMessageIsAnswered ==
  \A r \in Runs : Ended(r) => Len(Met(r)) = Len(run[r].accepted)

=============================================================================
