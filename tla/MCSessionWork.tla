---------------------------- MODULE MCSessionWork ----------------------------
(***************************************************************************)
(* The work a Session owns besides its Runs, on small instances: its       *)
(* terminals, the exec processes of one Run and a Swarm Job, which has     *)
(* several children and one failing storage request or one child and more  *)
(* of them.  They share no state, so a behaviour moves one of them, the    *)
(* one "focus" names.                                                      *)
(***************************************************************************)
EXTENDS TerminalPool, CommandSessions, TLC

CONSTANTS Callers, Children, LoneChild, JobStops, JobFaults

VARIABLES call, promise, root, mem, leaf, worker, doomed, marked, aborted, wanted, stop, shown,
          down, caught, rest, lapsed, jobFaults,
          focus

swarm == <<call, promise, root, mem, leaf, worker, doomed, marked, aborted, wanted, stop, shown,
           down, caught, rest, lapsed, jobFaults>>
vars == <<poolVars, commandVars, swarm, focus>>

S == INSTANCE Swarm WITH Stops <- JobStops, Faults <- 1, faults <- jobFaults
Lone == INSTANCE Swarm WITH Children <- {LoneChild}, Stops <- JobStops, Faults <- JobFaults,
                            faults <- jobFaults

Init ==
  /\ PoolInit /\ CommandInit
  /\ \/ focus \in {"terminals", "commands", "lone"} /\ Lone!SwarmInit
     \/ focus = "swarm" /\ S!SwarmInit

TerminalStep == focus = "terminals" /\ PoolNext /\ UNCHANGED <<commandVars, swarm, focus>>
CommandStep == focus = "commands" /\ CommandNext /\ UNCHANGED <<poolVars, swarm, focus>>
SwarmStep ==
  /\ \/ focus = "swarm" /\ S!SwarmNext
     \/ focus = "lone" /\ Lone!SwarmNext
  /\ UNCHANGED <<poolVars, commandVars, focus>>
Next == TerminalStep \/ CommandStep \/ SwarmStep

\* The steps that are sure to come.  A process that was killed, by force if it ignored the first
\* request, ends; nothing else has to happen.
TerminalGoesOn == \E t \in Terminals : (term[t].explicit /\ Exit(t)) \/ Exited(t)
CommandGoesOn ==
  \/ \E p \in Procs : \/ ProcStep(p)
                      \/ (proc[p].killed \/ proc[p].at = "unspawned") /\ Closed(p)
  \/ StartsAreOver
  \/ ScopeGone
\* No step can be repeated for ever, so one condition of fairness for each module is as strong
\* as one for each of its actions.
FairSpec ==
  /\ Init /\ [][Next]_vars
  /\ WF_poolVars(focus = "terminals" /\ TerminalGoesOn)
  /\ WF_commandVars(focus = "commands" /\ CommandGoesOn)
  /\ WF_swarm((focus = "swarm" /\ S!SureStep) \/ (focus = "lone" /\ Lone!SureStep))

\* What was told to end does: the terminals that were closed, the cleanup of a Run,
\* and the jobs that were stopped.
StoppedWorkEnds == ClosedTerminalsLeave /\ CleanupEnds /\ S!StoppedJobsEnd
=============================================================================
