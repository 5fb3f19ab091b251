------------------------------ MODULE ToolBatch ------------------------------
(***************************************************************************)
(* SessionToolRunner.executeToolCalls with ToolExecutor.execute: one batch *)
(* of tool calls the model asked for in one answer.  Calls are prepared    *)
(* and finalized one by one in their order; the bodies of a maximal run of *)
(* parallel calls overlap; a serial call is a segment of its own.  A body  *)
(* that cannot be aborted may outlive its call.                            *)
(***************************************************************************)
EXTENDS Naturals, Sequences

CONSTANT N \* the calls of the batch are 1..N

ASSUME BatchAssumption == N \in Nat \ {0}

Calls == 1..N

VARIABLES
  mode,      \* executionMode of each call: a constant of the batch
  abortable, \* supportsAbort of each call: a constant of the batch
  phase,     \* where executeToolCalls stands
  first,     \* first call of the current segment
  cur,       \* the call that is prepared or finalized next
  result,    \* execution.result of each call
  body,      \* the body of each call
  history,   \* the tool results appended to the canonical history
  aborted    \* run.controller.signal.aborted

vars == <<mode, abortable, phase, first, cur, result, body, history, aborted>>

Statuses == {"ok", "error", "denied", "cancelled", "timeout"}
Entries == [call : Calls, status : Statuses]

\* "unseen": not prepared; "pending": prepared, without a result yet.
Init ==
  /\ mode \in [Calls -> {"parallel", "serial"}]
  /\ abortable \in [Calls -> BOOLEAN]
  /\ phase = "prepare" /\ first = 1 /\ cur = 1
  /\ result = [c \in Calls |-> "unseen"]
  /\ body = [c \in Calls |-> "none"]
  /\ history = <<>>
  /\ aborted = FALSE

\* Mutant: two calls of different modes are put into one segment.
MutLastOfSegment(c) == c = N \/ mode[c] = "serial"

\* #toolCallSegments: a segment ends at a serial call, before one, and at the last call.
LastOfSegment(c) == c = N \/ mode[c] = "serial" \/ mode[c + 1] = "serial"

Ended == phase \in {"returned", "threw"}
Traits == UNCHANGED <<mode, abortable>>

(***************************************************************************)
(* Preparation: resolution, permission, approval, context preflight        *)
(***************************************************************************)

\* A call is refused, or is ready for its body; after a stop it is cancelled unseen.
PrepareOutcomes == IF aborted THEN {"cancelled"} ELSE {"pending", "error", "denied", "cancelled"}

Prepare ==
  /\ phase = "prepare"
  /\ \E o \in PrepareOutcomes : result' = [result EXCEPT ![cur] = o]
  /\ IF LastOfSegment(cur) THEN phase' = "launch" /\ cur' = first
     ELSE phase' = phase /\ cur' = cur + 1
  /\ UNCHANGED <<first, body, history, aborted>> /\ Traits

(***************************************************************************)
(* Execution                                                               *)
(***************************************************************************)

\* The segment's ready calls enter the executor together.
Launched(c) == result[c] = "pending" /\ ~aborted

Launch ==
  /\ phase = "launch"
  /\ phase' = "execute"
  /\ body' = [c \in Calls |-> IF Launched(c) THEN "entered" ELSE body[c]]
  /\ result' = [c \in Calls |-> IF result[c] = "pending" /\ aborted THEN "cancelled"
                                ELSE result[c]]
  /\ UNCHANGED <<first, cur, history, aborted>> /\ Traits

\* Mutant: the executor does not read the signal after the asynchronous validation.
MutMayRun(c) == TRUE

\* The approval is validated again, asynchronously; the signal is read after that.
MayRun(c) == ~aborted

StartBody(c) ==
  /\ body[c] = "entered" /\ MayRun(c)
  /\ body' = [body EXCEPT ![c] = "running"]
  /\ UNCHANGED <<phase, first, cur, result, history, aborted>> /\ Traits

\* The arguments or the approval are no longer valid, or the Run was stopped.
RefuseBody(c) ==
  /\ body[c] = "entered"
  /\ body' = [body EXCEPT ![c] = "none"]
  /\ \E o \in {"error"} \cup (IF aborted THEN {"cancelled"} ELSE {}) :
       result' = [result EXCEPT ![c] = o]
  /\ UNCHANGED <<phase, first, cur, history, aborted>> /\ Traits

\* What a body that ends says of its call: the signal of an abortable one, or its timeout,
\* overrides what it returned; an error thrown after a stop counts as the stop.
BodyOutcomes(c) ==
  IF aborted THEN IF abortable[c] THEN {"cancelled"} ELSE {"ok", "error", "cancelled"}
  ELSE {"ok", "error"} \cup (IF abortable[c] THEN {"timeout"} ELSE {})

EndBody(c) ==
  /\ body[c] = "running"
  /\ body' = [body EXCEPT ![c] = "ended"]
  /\ IF result[c] = "pending"
     THEN \E o \in BodyOutcomes(c) : result' = [result EXCEPT ![c] = o]
     ELSE UNCHANGED result
  /\ UNCHANGED <<phase, first, cur, history, aborted>> /\ Traits

\* Mutant: a body that cannot be aborted is awaited after a stop.
MutCutShort(c) ==
  /\ body[c] = "running" /\ ~abortable[c] /\ result[c] = "pending" /\ ~aborted
  /\ result' = [result EXCEPT ![c] = "timeout"]
  /\ UNCHANGED <<phase, first, cur, body, history, aborted>> /\ Traits

\* The race of a body that cannot be aborted with its timeout or the signal: the call
\* returns, its settlement stays among the Run's pending side effects.
CutShort(c) ==
  /\ body[c] = "running" /\ ~abortable[c] /\ result[c] = "pending"
  /\ result' = [result EXCEPT ![c] = IF aborted THEN "cancelled" ELSE "timeout"]
  /\ UNCHANGED <<phase, first, cur, body, history, aborted>> /\ Traits

\* allSettled: every call of the segment has its result.
Settled == \A c \in Calls : result[c] # "pending"

Collect ==
  /\ phase = "execute" /\ Settled
  /\ phase' = "finalize"
  /\ UNCHANGED <<first, cur, result, body, history, aborted>> /\ Traits

(***************************************************************************)
(* Finalization                                                            *)
(***************************************************************************)

\* Mutant: a call cut short by its timeout reports what it has so far as a success.
MutFilteredOutcomes(c) ==
  {IF result[c] = "timeout" THEN "ok" ELSE result[c], "denied"}
    \cup (IF aborted THEN {"cancelled"} ELSE {"error"})

\* The context gate may keep the result from the model, or fail.
FilteredOutcomes(c) ==
  {result[c], "denied"} \cup (IF aborted THEN {"cancelled"} ELSE {"error"})

\* A stopped batch throws once every result is there.
Finalize ==
  /\ phase = "finalize"
  /\ \E s \in FilteredOutcomes(cur) : history' = Append(history, [call |-> cur, status |-> s])
  /\ IF ~LastOfSegment(cur) THEN cur' = cur + 1 /\ UNCHANGED <<phase, first>>
     ELSE IF cur < N THEN cur' = cur + 1 /\ first' = cur + 1 /\ phase' = "prepare"
     ELSE /\ phase' = IF aborted THEN "threw" ELSE "returned"
          /\ UNCHANGED <<cur, first>>
  /\ UNCHANGED <<result, body, aborted>> /\ Traits

\* Mutant: the catch block answers every call, also those already answered.
MutOwedAll(status) == [k \in 1..N |-> [call |-> k, status |-> status]]

\* The calls whose result was not appended, in order, all with one status.
Owed(status) ==
  [k \in 1..(N - Len(history)) |-> [call |-> Len(history) + k, status |-> status]]

\* A preparation or a finalization throws outside its own handlers: the catch block appends
\* what is owed, and throws on.
BreakOff ==
  /\ phase \in {"prepare", "finalize"}
  /\ history' = history \o Owed(IF aborted THEN "cancelled" ELSE "error")
  /\ phase' = "threw"
  /\ UNCHANGED <<first, cur, result, body, aborted>> /\ Traits

Interrupt ==
  /\ ~Ended /\ ~aborted
  /\ aborted' = TRUE
  /\ UNCHANGED <<phase, first, cur, result, body, history>> /\ Traits

-----------------------------------------------------------------------------

Step == \/ Prepare \/ Launch \/ Collect \/ Finalize
        \/ \E c \in Calls : StartBody(c) \/ RefuseBody(c) \/ CutShort(c)

Next == Step \/ BreakOff \/ Interrupt \/ \E c \in Calls : EndBody(c)

Spec == Init /\ [][Next]_vars

\* The event loop goes on; a body that hears the signal ends; a timer cuts the others short.
\* Nothing is assumed of the end of a body that cannot be aborted.
FairSpec == /\ Spec
            /\ WF_vars(Step)
            /\ \A c \in Calls : /\ WF_vars(abortable[c] /\ EndBody(c))
                                /\ WF_vars(StartBody(c) \/ RefuseBody(c))
                                /\ WF_vars(CutShort(c))

(***************************************************************************)
(* Properties                                                              *)
(***************************************************************************)

\* The type invariant.
TypeOK ==
  /\ mode \in [Calls -> {"parallel", "serial"}] /\ abortable \in [Calls -> BOOLEAN]
  /\ phase \in {"prepare", "launch", "execute", "finalize", "returned", "threw"}
  /\ first \in Calls /\ cur \in Calls
  /\ result \in [Calls -> Statuses \cup {"unseen", "pending"}]
  /\ body \in [Calls -> {"none", "entered", "running", "ended"}]
  /\ history \in Seq(Entries)
  /\ aborted \in BOOLEAN

\* Each call has at most one result, in the order of the calls, and exactly one when the
\* batch is over, whatever was refused, stopped, timed out or thrown.
ResultsInOrder ==
  /\ Len(history) <= N
  /\ \A k \in 1..Len(history) : history[k].call = k
  /\ Ended => Len(history) = N

\* The model is told that a call succeeded only if its body ran to its end.
OkMeansRan == \A k \in 1..Len(history) : history[k].status = "ok" => body[k] = "ended"

\* A serial call is a barrier: no body is entered before every call, on the other side of
\* a serial one or serial itself, that comes earlier has delivered its result.
SerialBarrier ==
  \A c, d \in Calls : d < c /\ body[c] # "none" /\ (\E j \in d..c : mode[j] = "serial") =>
    d <= Len(history)

\* After a stop no further body starts.
StopStartsNothing ==
  [][\A c \in Calls : aborted /\ body[c] # "running" => body'[c] # "running"]_vars

\* A batch that is over leaves only bodies running that cannot be aborted, which the Run
\* goes on tracking.
OnlyTrackedBodiesOutlive ==
  Ended => \A c \in Calls : body[c] \in {"entered", "running"} => body[c] = "running" /\ ~abortable[c]

\* Bodies are accounted for: none is reported as done that did not end, and none is lost track
\* of while it runs.
BodiesAreAccountedFor == OkMeansRan /\ OnlyTrackedBodiesOutlive

\* A stopped batch ends even if a body that cannot be aborted hangs.
StoppedBatchEnds == aborted ~> Ended

\* The batch keeps the promise of ToolResults.
Results == INSTANCE ToolResults WITH log <- history, closed <- Ended
ImplementsResults == Results!Spec
=============================================================================
