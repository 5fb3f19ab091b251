--------------------------- MODULE CommandSessions ---------------------------
(***************************************************************************)
(* The processes one Run starts with the exec tools: a scope of            *)
(* CommandSessionManager.  A start holds a slot across its awaits; a stop  *)
(* blocks further starts, asks every process to end and asks again by      *)
(* force when the grace period is over; the Run is not over before every   *)
(* start came to an end and every process is gone and captured.            *)
(***************************************************************************)
EXTENDS Naturals, FiniteSets

CONSTANTS
  Procs,      \* calls of start()
  ProcLimit,  \* MAX_ACTIVE_COMMAND_SESSIONS
  ProcFaults, \* terminations the host may fail
  ProcStops   \* stops of the Run

VARIABLES
  scope,  \* the Run's scope: "open", "closing", "awaiting" starts, "ending", "gone"
  proc,   \* each entry
  active, \* scope.active
  faults, \* terminations that failed so far
  stops   \* stops so far

commandVars == <<scope, proc, active, faults, stops>>

\* kill is the termination in flight (entry.stopping), again a forced one chained after it,
\* killed that the system was told to kill the process, failed that the last request failed.
NewEntry == [at |-> "free", ready |-> FALSE, stop |-> FALSE, kill |-> "none", again |-> FALSE,
             timer |-> FALSE, killed |-> FALSE, failed |-> FALSE]

CommandInit ==
  /\ scope = "open" /\ proc = [p \in Procs |-> NewEntry]
  /\ active = 0 /\ faults = 0 /\ stops = 0

PutEntry(p, r) == proc' = [proc EXCEPT ![p] = r]
IsOpen == scope = "open"
HasChild(r) == r.at \in {"spawning", "alive", "unspawned"}

\* #requestStop: nothing once the process is gone; an entry without a child is only marked.
StopRequested(r) ==
  IF r.at \in {"free", "finalizing", "settled"} THEN r
  ELSE IF ~HasChild(r) THEN [r EXCEPT !.stop = TRUE]
  ELSE [r EXCEPT !.stop = TRUE, !.timer = TRUE, !.kill = IF @ = "none" THEN "soft" ELSE @]

------------------------------------------------------------------------------
(* start() *)

Start(p) ==
  /\ proc[p].at = "free" /\ IsOpen /\ active < ProcLimit
  /\ PutEntry(p, [NewEntry EXCEPT !.at = "cwd"])
  /\ active' = active + 1
  /\ UNCHANGED <<scope, faults, stops>>

\* The catch of start() without a child: the entry is settled first, and ready after it.
Located(p) ==
  /\ proc[p].at = "cwd"
  /\ \/ IsOpen /\ PutEntry(p, [proc[p] EXCEPT !.at = "capture"])
     \/ PutEntry(p, [proc[p] EXCEPT !.at = "finalizing"])
  /\ UNCHANGED <<scope, active, faults, stops>>

\* #assertOpen after the last await before the spawn
MaySpawn == IsOpen

Captured(p) ==
  /\ proc[p].at = "capture"
  /\ \/ MaySpawn /\ PutEntry(p, [proc[p] EXCEPT !.at = "spawning"])
     \/ PutEntry(p, [proc[p] EXCEPT !.at = "finalizing"])
  /\ UNCHANGED <<scope, active, faults, stops>>

\* A Run that was stopped while the process was spawning stops the process now.
AfterSpawn(r) == IF IsOpen THEN r ELSE StopRequested(r)

Spawned(p) ==
  /\ proc[p].at = "spawning"
  /\ PutEntry(p, AfterSpawn([proc[p] EXCEPT !.at = "alive", !.ready = TRUE]))
  /\ UNCHANGED <<scope, active, faults, stops>>

SpawnFails(p) ==
  /\ proc[p].at = "spawning"
  /\ PutEntry(p, [proc[p] EXCEPT !.at = "unspawned", !.ready = TRUE])
  /\ UNCHANGED <<scope, active, faults, stops>>

\* The close event of the child
Closed(p) ==
  /\ proc[p].at \in {"alive", "unspawned"}
  /\ PutEntry(p, [proc[p] EXCEPT !.at = "finalizing", !.timer = FALSE])
  /\ UNCHANGED <<scope, active, faults, stops>>

\* finishCapture is over, with or without a capture.
EntrySettled(p) ==
  /\ proc[p].at = "finalizing"
  /\ PutEntry(p, [proc[p] EXCEPT !.at = "settled", !.ready = TRUE])
  /\ active' = active - 1
  /\ UNCHANGED <<scope, faults, stops>>

------------------------------------------------------------------------------
(* Termination *)

Terminate(p) ==
  /\ HasChild(proc[p]) /\ proc[p].ready /\ ~proc[p].stop /\ scope # "gone"
  /\ PutEntry(p, StopRequested(proc[p]))
  /\ UNCHANGED <<scope, active, faults, stops>>

\* Mutant: a forced kill is dropped while a request is in flight.
MutForced(r) == IF r.kill = "none" THEN [r EXCEPT !.kill = "force"] ELSE r
\* #kill by force waits for the request in flight.
Forced(r) == IF r.kill = "none" THEN [r EXCEPT !.kill = "force"] ELSE [r EXCEPT !.again = TRUE]

GraceOver(p) ==
  /\ proc[p].timer
  /\ PutEntry(p, Forced([proc[p] EXCEPT !.timer = FALSE]))
  /\ UNCHANGED <<scope, active, faults, stops>>

\* The request in flight answers. A soft one may be ignored by the process.
KillAnswers(p) ==
  /\ proc[p].kill # "none"
  /\ LET next == [proc[p] EXCEPT !.kill = IF proc[p].again /\ HasChild(proc[p]) THEN "force"
                                          ELSE "none",
                                 !.again = FALSE]
     IN \/ /\ PutEntry(p, [next EXCEPT !.failed = FALSE,
                                  !.killed = @ \/ proc[p].kill = "force"])
           /\ UNCHANGED faults
        \/ /\ faults < ProcFaults /\ faults' = faults + 1
           /\ PutEntry(p, [next EXCEPT !.failed = HasChild(proc[p])])
  /\ UNCHANGED <<scope, active, stops>>

------------------------------------------------------------------------------
(* The end of the Run *)

StopAll == proc' = [p \in Procs |-> StopRequested(proc[p])]

\* stopRun: the interrupt of the Run, the first one and the ones that repeat it
StopRun ==
  /\ scope # "gone" /\ stops < ProcStops
  /\ stops' = stops + 1
  /\ scope' = IF scope = "open" THEN "closing" ELSE scope
  /\ StopAll
  /\ UNCHANGED <<active, faults>>

FinishRun ==
  /\ scope \in {"open", "closing"}
  /\ scope' = "awaiting"
  /\ StopAll
  /\ UNCHANGED <<active, faults, stops>>

Known == {p \in Procs : proc[p].at # "free"}

\* Every start came to an end, so every process is known: they are asked once more.
StartsAreOver ==
  /\ scope = "awaiting" /\ \A p \in Known : proc[p].ready
  /\ scope' = "ending"
  /\ StopAll
  /\ UNCHANGED <<active, faults, stops>>

\* Mutant: the cleanup waits only until everything was asked to end.
MutOver == \A p \in Known : proc[p].stop \/ proc[p].at = "settled"
Over == \A p \in Known : proc[p].at = "settled"

ScopeGone ==
  /\ scope = "ending" /\ Over
  /\ scope' = "gone"
  /\ UNCHANGED <<proc, active, faults, stops>>

ProcStep(p) ==
  \/ Located(p) \/ Captured(p) \/ Spawned(p) \/ SpawnFails(p) \/ EntrySettled(p)
  \/ GraceOver(p) \/ KillAnswers(p)

CommandNext ==
  \/ \E p \in Procs : Start(p) \/ ProcStep(p) \/ Closed(p) \/ Terminate(p)
  \/ StopRun \/ FinishRun \/ StartsAreOver \/ ScopeGone

CommandSpec == CommandInit /\ [][CommandNext]_commandVars

------------------------------------------------------------------------------
(* Properties. *)

\* A Run that is over left no process, no start and no slot behind; and while it goes on, a slot
\* is held by exactly the entries that are not settled.
RunsLeaveNoProcess ==
  /\ scope = "gone" => \A p \in Procs : proc[p].at \in {"free", "settled"}
  /\ active = Cardinality({p \in Known : proc[p].at # "settled"})

\* The host failed the last request to end a living process, and no further one is under way.
Forsaken(p) ==
  proc[p].at = "alive" /\ proc[p].failed /\ proc[p].kill = "none" /\ ~proc[p].timer

\* The cleanup of a Run ends, whenever its stop came, unless the host failed to kill a process;
\* then it waits for somebody to stop the Run again.
CleanupEnds == scope = "awaiting" ~> (scope = "gone" \/ \E p \in Procs : Forsaken(p))
=============================================================================
