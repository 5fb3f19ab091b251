-------------------------------- MODULE Swarm --------------------------------
(***************************************************************************)
(* One Swarm Job: SwarmCoordinator with the prepared children it hands to  *)
(* SubagentExecutionService.  Calls that name the same tool call share one *)
(* durable root; the call that reserved it owns the job, runs the children *)
(* and writes what became of the root.  Stop requests, the shutdown and    *)
(* storage requests that fail meet the job at any await.                   *)
(*                                                                         *)
(* A query of the store answers in the step that asks: its continuation    *)
(* runs before the next item of the queue.  A write is queued in one step  *)
(* and lands in a later one.                                               *)
(***************************************************************************)
EXTENDS Naturals, FiniteSets

CONSTANTS
  Callers,  \* calls of run() or start() for one parent tool call
  Children, \* the replicas the job is expanded to
  Stops,    \* stop requests for the root
  Faults    \* bound: storage requests that fail

VARIABLES
  call,     \* where each call is, and its answer
  promise,  \* where the promise of the job is
  root,     \* status of the root in the store
  mem,      \* root.status of the object the job works on
  leaf,     \* status of each child in the store
  worker,   \* runPrepared of each child
  doomed,   \* the controller of the worker is aborted
  marked,   \* #cancelledBeforeLaunch
  aborted,  \* controller.signal.aborted
  wanted,   \* the root is in #cancelled
  stop,     \* progress of each stop request
  shown,    \* the last status published for the root
  down,     \* progress of the shutdown
  caught,   \* workers the shutdown of the child service waits for
  rest,     \* children the recovery of the job still has to see to, or waits for
  lapsed,   \* history: children whose own worker could not read or write their record
  faults    \* storage requests that failed so far

swarmVars == <<call, promise, root, mem, leaf, worker, doomed, marked, aborted, wanted, stop,
               shown, down, caught, rest, lapsed, faults>>
members == <<leaf, worker, doomed, marked, lapsed>>
request == <<aborted, wanted, stop>>
shutdown == <<down, caught>>

Unfinished == {"queued", "preparing", "running"}
Verdicts == {"completed", "partial", "failed", "cancelled"}

Idle == [at |-> "idle", todo |-> {}, seen |-> "none"]

SwarmInit ==
  /\ call = [c \in Callers |-> "idle"]
  /\ promise = "none" /\ root = "none" /\ mem = "none"
  /\ leaf = [c \in Children |-> "none"] /\ worker = [c \in Children |-> "none"]
  /\ doomed = {} /\ marked = {} /\ aborted = FALSE /\ wanted = FALSE
  /\ stop = [s \in Stops |-> Idle]
  /\ shown = "none" /\ down = "no" /\ caught = {} /\ rest = {} /\ lapsed = {}
  /\ faults = 0

\* #starting: calls whose handle is not out and whose promise is not settled
Starting == {c \in Callers : call[c] \in {"found", "finished", "planning", "reserved", "owner"}
                             /\ ~(call[c] = "owner" /\ promise # "manifest")}
\* #active.has(root.id)
IsActive == promise \notin {"none", "reserved", "gone"}
Reply(c, what) == call' = [call EXCEPT ![c] = what]
Fails == faults < Faults /\ faults' = faults + 1
Works == UNCHANGED faults

Succeeded == root \in {"completed", "partial"}

\* #reuseExisting, and the same lines for a reservation that finds the root: the job that is
\* active now, or what the record that was read says
Reused(c, result) ==
  Reply(c, IF IsActive THEN "joined" ELSE IF result THEN "result" ELSE "error")

------------------------------------------------------------------------------
(* Calls up to the durable reservation. *)

BeginCall(c) ==
  /\ call[c] = "idle"
  /\ Reply(c, IF down \notin {"no", "children"} THEN "error"
              ELSE IF root = "none" THEN "planning"
              ELSE IF Succeeded THEN "finished" ELSE "found")
  /\ UNCHANGED <<promise, root, mem, members, request, shown, shutdown, rest, faults>>

\* The record was read, and its handle is out.
Reuse(c) ==
  /\ call[c] \in {"found", "finished"}
  /\ Reused(c, call[c] = "finished")
  /\ UNCHANGED <<promise, root, mem, members, request, shown, shutdown, rest, faults>>

\* Mutant: a second reservation is not refused.
MutReserved(c) ==
  /\ Reply(c, "reserved")
  /\ root' = "preparing" /\ mem' = "preparing" /\ promise' = "reserved"
  /\ leaf' = [l \in Children |-> "queued"]
\* createSwarmJob: the root and all leaves in one transaction, or what is there already
Reserved(c) ==
  IF root = "none"
  THEN /\ Reply(c, "reserved")
       /\ root' = "preparing" /\ mem' = "preparing" /\ promise' = "reserved"
       /\ leaf' = [l \in Children |-> "queued"]
  ELSE Reused(c, Succeeded) /\ UNCHANGED <<root, mem, promise, leaf>>

Reserve(c) ==
  /\ call[c] = "planning"
  /\ Reserved(c)
  /\ UNCHANGED <<worker, doomed, marked, lapsed, request, shown, shutdown, rest, faults>>

\* The pool cannot satisfy the requirements, the parent was interrupted, there is no capacity
\* for all leaves, or the transaction failed.
PlanFails(c) ==
  /\ call[c] = "planning"
  /\ Reply(c, "error")
  /\ UNCHANGED <<promise, root, mem, members, request, shown, shutdown, rest, faults>>

\* The continuation of the reservation: a stop that came before it aborts at once.
Activate(c) ==
  /\ call[c] = "reserved"
  /\ Reply(c, "owner") /\ promise' = "manifest" /\ aborted' = wanted
  /\ UNCHANGED <<root, mem, members, wanted, stop, shown, shutdown, rest, faults>>

------------------------------------------------------------------------------
(* The job. *)

\* #initializeManifest records its own failures; the handle goes out.
Manifest ==
  /\ promise = "manifest"
  /\ promise' = "begin" /\ mem' = "running" /\ shown' = "preparing"
  /\ UNCHANGED <<call, root, members, request, shutdown, rest, faults>>

StartRoot ==
  /\ promise = "begin"
  /\ \/ Works /\ root' = mem /\ promise' = "begun"
     \/ Fails /\ promise' = "failing" /\ UNCHANGED root
  /\ UNCHANGED <<call, mem, members, request, shown, shutdown, rest>>

Fork ==
  /\ promise = "begun"
  /\ promise' = "members" /\ shown' = mem
  /\ worker' = [c \in Children |-> "asked"]
  /\ UNCHANGED <<call, root, mem, leaf, doomed, marked, lapsed, request, shutdown, rest, faults>>

\* A child that cannot be read is left as it is.
RunPrepared(c) ==
  /\ worker[c] = "asked"
  /\ \/ /\ Works /\ UNCHANGED lapsed
        /\ worker' = [worker EXCEPT ![c] = IF down = "no" /\ leaf[c] = "queued" THEN "prepared"
                                           ELSE "threw"]
     \/ Fails /\ lapsed' = lapsed \cup {c} /\ worker' = [worker EXCEPT ![c] = "threw"]
  /\ UNCHANGED <<call, promise, root, mem, leaf, doomed, marked, request, shown, shutdown, rest>>

\* Mutant: a stop does not reach a worker that is at work.
MutTold(c) == c \in marked
\* A stop that came before the launch
Told(c) == aborted \/ c \in marked

\* #launch: a worker whose signal is aborted never reaches the status running, and one whose
\* status could not be written fails.
Launch(c) ==
  /\ worker[c] = "prepared"
  /\ worker' = [worker EXCEPT ![c] = "working"]
  /\ \/ Told(c) /\ Works /\ doomed' = doomed \cup {c} /\ UNCHANGED leaf
     \/ ~Told(c) /\ Works /\ leaf' = [leaf EXCEPT ![c] = "running"] /\ UNCHANGED doomed
     \/ ~Told(c) /\ Fails /\ UNCHANGED <<leaf, doomed>>
  /\ marked' = marked \ {c}
  /\ UNCHANGED <<call, promise, root, mem, lapsed, request, shown, shutdown, rest>>

\* The last write of a worker.  A result is on its way when a stop may still come; what failed
\* or was stopped is written too, but a failure to do so is only reported.
WorkerEnds(c) ==
  /\ worker[c] = "working"
  /\ \/ /\ Works /\ leaf[c] = "running"
        /\ leaf' = [leaf EXCEPT ![c] = "completed"]
        /\ worker' = [worker EXCEPT ![c] = "returned"] /\ UNCHANGED lapsed
     \/ /\ Works
        /\ leaf' = [leaf EXCEPT ![c] = IF c \in doomed THEN "cancelled" ELSE "failed"]
        /\ worker' = [worker EXCEPT ![c] = "threw"] /\ UNCHANGED lapsed
     \/ /\ Fails
        /\ worker' = [worker EXCEPT ![c] = "threw"]
        /\ lapsed' = lapsed \cup {c} /\ UNCHANGED leaf
  /\ doomed' = doomed \ {c}
  /\ UNCHANGED <<call, promise, root, mem, marked, request, shown, shutdown, rest>>

\* Reads the durable child after its promise; the first failure rejects Promise.all.
CollectChild(c) ==
  /\ worker[c] \in {"returned", "threw"}
  /\ \/ /\ Works
        /\ worker' = [worker EXCEPT ![c] = IF @ = "returned" THEN "success" ELSE "failure"]
        /\ shown' = mem /\ UNCHANGED promise
     \/ /\ Fails
        /\ worker' = [worker EXCEPT ![c] = "failure"]
        /\ promise' = IF promise = "members" THEN "failing" ELSE promise
        /\ UNCHANGED shown
  /\ UNCHANGED <<call, root, mem, leaf, doomed, marked, lapsed, request, shutdown, rest>>

AllCollected == \A c \in Children : worker[c] \in {"success", "failure"}
Successes == {c \in Children : worker[c] = "success"}

\* Mutant: one success is enough.
MutVerdict == IF Successes = {} THEN "failed" ELSE "completed"
\* The status the results amount to when nobody asked for a stop
Verdict ==
  IF Successes = {} THEN "failed" ELSE IF Successes = Children THEN "completed" ELSE "partial"

\* Every child was awaited, so waitForSettlement has only its terminals to look for, in a query.
Decide ==
  /\ promise = "members" /\ AllCollected
  /\ \/ Works /\ promise' = "saving" /\ mem' = IF wanted \/ aborted THEN "cancelled" ELSE Verdict
     \/ Fails /\ (wanted \/ aborted) /\ promise' = "failing" /\ UNCHANGED mem
  /\ UNCHANGED <<call, root, members, request, shown, shutdown, rest>>

Save ==
  /\ promise = "saving"
  /\ \/ Works /\ root' = mem /\ promise' = "saved"
     \/ Fails /\ promise' = "failing" /\ UNCHANGED root
  /\ UNCHANGED <<call, mem, members, request, shown, shutdown, rest>>

Publish ==
  /\ promise = "saved"
  /\ promise' = "settling" /\ shown' = mem
  /\ UNCHANGED <<call, root, mem, members, request, shutdown, rest, faults>>

\* finally: the call that owns the job and the calls that joined it get their answer.
Settle ==
  /\ promise = "settling"
  /\ promise' = "gone" /\ wanted' = FALSE
  /\ call' = [c \in Callers |-> IF call[c] \notin {"owner", "joined"} THEN call[c]
                                ELSE IF Succeeded THEN "result" ELSE "error"]
  /\ UNCHANGED <<root, mem, members, aborted, stop, shown, shutdown, rest, faults>>

------------------------------------------------------------------------------
(* subagents.cancel of one child. *)

Doom(cs) == doomed' = doomed \cup {c \in cs : worker[c] = "working"}
Running == {c \in Children : worker[c] = "working"}

\* A child without a worker is finished in the store, and its launch is told, even if the
\* write fails.
CancelChild(c) ==
  /\ IF worker[c] = "working"
     THEN Works /\ Doom({c}) /\ UNCHANGED <<leaf, marked>>
     ELSE IF leaf[c] \in Unfinished
     THEN /\ marked' = marked \cup {c} /\ UNCHANGED doomed
          /\ \/ Works /\ leaf' = [leaf EXCEPT ![c] = "cancelled"]
             \/ Fails /\ UNCHANGED leaf
     ELSE Works /\ UNCHANGED <<leaf, doomed, marked>>
  /\ UNCHANGED <<worker, lapsed>>

\* One of its queries fails.
CancelFails == Fails /\ UNCHANGED members

------------------------------------------------------------------------------
(* The catch of a job that threw: stop the children, wait for those at work, finish the     *)
(* records of the others, then that of the root.  A request that fails ends it where it is. *)

Recover ==
  /\ promise = "failing"
  /\ \/ Works /\ promise' = "stopping" /\ aborted' = TRUE /\ Doom(Children) /\ rest' = Children
     \/ Fails /\ promise' = "settling" /\ UNCHANGED <<aborted, doomed, rest>>
  /\ UNCHANGED <<call, root, mem, leaf, worker, marked, lapsed, wanted, stop, shown, shutdown>>

\* Promise.allSettled of the cancellations
RecoverChild(c) ==
  /\ promise = "stopping" /\ c \in rest
  /\ rest' = rest \ {c}
  /\ CancelChild(c) \/ CancelFails
  /\ UNCHANGED <<call, promise, root, mem, request, shown, shutdown>>

AwaitMembers ==
  /\ promise = "stopping" /\ rest = {}
  /\ promise' = "waiting" /\ rest' = Running
  /\ UNCHANGED <<call, root, mem, members, request, shown, shutdown, faults>>

\* waitForSettlement of each, with a query when its worker is over
MembersSettled ==
  /\ promise = "waiting"
  /\ \/ Works /\ rest \cap Running = {} /\ promise' = "marking" /\ rest' = Children
     \/ Fails /\ rest \cap Running # Children /\ promise' = "settling" /\ UNCHANGED rest
  /\ UNCHANGED <<call, root, mem, members, request, shown, shutdown>>

MarkChild(c) ==
  /\ promise = "marking" /\ c \in rest
  /\ rest' = rest \ {c}
  /\ \/ /\ Works /\ UNCHANGED promise
        /\ leaf' = [leaf EXCEPT ![c] = IF @ \notin Unfinished THEN @
                                       ELSE IF wanted THEN "cancelled" ELSE "failed"]
     \/ Fails /\ promise' = "settling" /\ UNCHANGED leaf
  /\ UNCHANGED <<call, root, mem, worker, doomed, marked, lapsed, request, shown, shutdown>>

RecoverRoot ==
  /\ promise = "marking" /\ rest = {}
  /\ promise' = "rewriting" /\ mem' = IF wanted THEN "cancelled" ELSE "failed"
  /\ UNCHANGED <<call, root, members, request, shown, shutdown, rest, faults>>

SaveRecovered ==
  /\ promise = "rewriting"
  /\ \/ Works /\ root' = mem /\ promise' = "saved"
     \/ Fails /\ promise' = "settling" /\ UNCHANGED root
  /\ UNCHANGED <<call, mem, members, request, shown, shutdown, rest>>

------------------------------------------------------------------------------
(* BackgroundTaskService.cancelOwned: the children, then the root, then them again. *)

AskStop(s) ==
  /\ stop[s].at = "idle" /\ root # "none"
  /\ stop' = [stop EXCEPT ![s] = [at |-> "first", todo |-> Children, seen |-> "none"]]
  /\ UNCHANGED <<call, promise, root, mem, members, aborted, wanted, shown, shutdown, rest, faults>>

\* The cancellations go on side by side, but if one of the first round fails the request does,
\* and the root is not asked.
StopChild(s) ==
  /\ stop[s].at \in {"first", "again", "refused"}
  /\ \E c \in stop[s].todo :
       \/ CancelChild(c) /\ stop' = [stop EXCEPT ![s].todo = @ \ {c}]
       \/ /\ CancelFails
          /\ stop' = [stop EXCEPT ![s].todo = @ \ {c},
                                  ![s].at = IF @ = "again" THEN @ ELSE "refused"]
  /\ UNCHANGED <<call, promise, root, mem, aborted, wanted, shown, shutdown, rest>>

StopOver(s) == stop' = [stop EXCEPT ![s].at = "done"]

\* cancel(): the record is read here and published when all children were asked.  Without a
\* job it asks the store for the children, and stops there if that fails.
StopRoot(s) ==
  /\ stop[s].at = "first" /\ stop[s].todo = {}
  /\ IF IsActive \/ root \in Unfinished
     THEN /\ wanted' = TRUE
          /\ IF IsActive THEN aborted' = TRUE /\ Doom(Children)
             ELSE UNCHANGED <<aborted, doomed>>
          /\ \/ /\ Works
                /\ stop' = [stop EXCEPT ![s] = [at |-> "again", todo |-> Children, seen |-> root]]
             \/ ~IsActive /\ Fails /\ StopOver(s)
     ELSE Works /\ StopOver(s) /\ UNCHANGED <<wanted, aborted, doomed>>
  /\ UNCHANGED <<call, promise, root, mem, leaf, worker, marked, lapsed, shown, shutdown, rest>>

\* The record cannot be read.
StopFails(s) ==
  /\ stop[s].at = "first" /\ stop[s].todo = {}
  /\ Fails /\ StopOver(s)
  /\ UNCHANGED <<call, promise, root, mem, members, aborted, wanted, shown, shutdown, rest>>

StopPublish(s) ==
  /\ stop[s].at = "again" /\ stop[s].todo = {}
  /\ shown' = stop[s].seen
  /\ StopOver(s)
  /\ UNCHANGED <<call, promise, root, mem, members, aborted, wanted, shutdown, rest, faults>>

------------------------------------------------------------------------------
(* disposeBackendRuntime: the child service first, then the coordinator. *)

DisposeChildren ==
  /\ down = "no"
  /\ down' = "children" /\ caught' = Running /\ Doom(Children)
  /\ UNCHANGED <<call, promise, root, mem, leaf, worker, marked, lapsed, request, shown, rest,
                 faults>>

DisposeJobs ==
  /\ down = "children" /\ caught \cap Running = {}
  /\ down' = "starting" /\ UNCHANGED caught
  /\ UNCHANGED <<call, promise, root, mem, members, request, shown, rest, faults>>

DisposeActive ==
  /\ down = "starting" /\ Starting = {}
  /\ down' = "jobs" /\ UNCHANGED caught
  /\ IF IsActive THEN wanted' = TRUE /\ aborted' = TRUE /\ Doom(Children)
     ELSE UNCHANGED <<wanted, aborted, doomed>>
  /\ UNCHANGED <<call, promise, root, mem, leaf, worker, marked, lapsed, stop, shown, rest, faults>>

Disposed ==
  /\ down = "jobs" /\ ~IsActive
  /\ down' = "done" /\ UNCHANGED caught
  /\ UNCHANGED <<call, promise, root, mem, members, request, shown, rest, faults>>

------------------------------------------------------------------------------
CallStep(c) == Reuse(c) \/ Reserve(c) \/ PlanFails(c) \/ Activate(c)
ChildStep(c) ==
  RunPrepared(c) \/ Launch(c) \/ CollectChild(c) \/ RecoverChild(c) \/ MarkChild(c)
JobStep ==
  \/ Manifest \/ StartRoot \/ Fork \/ Decide \/ Save \/ Publish \/ Settle
  \/ Recover \/ AwaitMembers \/ MembersSettled \/ RecoverRoot \/ SaveRecovered
StopStep(s) == StopChild(s) \/ StopRoot(s) \/ StopFails(s) \/ StopPublish(s)
DownStep == DisposeJobs \/ DisposeActive \/ Disposed

SwarmNext ==
  \/ \E c \in Callers : BeginCall(c) \/ CallStep(c)
  \/ \E c \in Children : ChildStep(c) \/ WorkerEnds(c)
  \/ JobStep
  \/ \E s \in Stops : AskStop(s) \/ StopStep(s)
  \/ DisposeChildren \/ DownStep

SwarmSpec == SwarmInit /\ [][SwarmNext]_swarmVars

\* Promises that are settled continue; a worker ends for sure only once it is aborted.
SureStep ==
  \/ \E c \in Callers : CallStep(c)
  \/ \E c \in Children : ChildStep(c) \/ (c \in doomed /\ WorkerEnds(c))
  \/ JobStep \/ DownStep
  \/ \E s \in Stops : StopStep(s)
SwarmFairness == WF_swarmVars(SureStep)

FairSwarm == SwarmSpec /\ SwarmFairness

------------------------------------------------------------------------------
(* Properties. *)

\* A root is finished after its leaves: a worker that is still alive was told to stop, and no
\* leaf is still unfinished in the store.  There are two exceptions: a shutdown refuses the
\* children of a job it caught in preparation, and a child whose own worker could not read or
\* write its record is left unfinished by a job that counts it as failed.
RootEndsLast ==
  root \in Verdicts =>
    \A c \in Children :
      /\ leaf[c] \in Unfinished => c \in lapsed \/ (down # "no" /\ leaf[c] = "queued")
      /\ worker[c] = "working" => c \in doomed

\* What the root says agrees with what became of the replicas; it is called cancelled only when
\* a stop or the shutdown asked for it, and a success only when nobody did before the results
\* were counted.
VerdictIsTrue ==
  /\ root = "completed" => \A c \in Children : leaf[c] = "completed"
  /\ root = "partial" => \E c, d \in Children : leaf[c] = "completed" /\ leaf[d] # "completed"
  /\ root = "cancelled" => aborted
  /\ root = "failed" => faults > 0 \/ \A c \in Children : leaf[c] # "completed"

\* The root tells the truth about its job, and last.
RootIsTrue == RootEndsLast /\ VerdictIsTrue

\* One tool call has one job: every call with its identity that was answered with a result got
\* the result of the one root, and no call is left waiting once that job is gone.
CallsShareTheJob ==
  /\ \A c \in Callers : call[c] = "result" => root \in {"completed", "partial"}
  /\ promise = "gone" => \A c \in Callers : call[c] \notin {"owner", "joined"}
  /\ Cardinality({c \in Callers : call[c] \in {"reserved", "owner"}}) <= 1

\* A stop that reaches a root ends its job, whatever the job awaits, and the shutdown ends too.
\* The mark of the stop goes with the job, but stays on a root that failing storage requests
\* left unfinished without a job.
StoppedJobsEnd ==
  /\ wanted ~> promise = "gone" /\ (~wanted \/ root \in Unfinished)
  /\ (down # "no") ~> (down = "done")
=============================================================================
