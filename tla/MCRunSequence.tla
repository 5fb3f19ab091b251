---------------------------- MODULE MCRunSequence ----------------------------
(***************************************************************************)
(* The Runs of one Session one after the other: who starts them, and what  *)
(* they leave in memory and in the database.  RunLifecycle leaves the      *)
(* history out and DurableHistory the callers, and they share no variable, *)
(* so a behaviour moves one of them, the one "focus" names.                *)
(***************************************************************************)
EXTENDS RunLifecycle, DurableHistory, TLC

VARIABLE focus

SequenceInit == Init /\ HistoryInit /\ focus \in {"callers", "history"}

CallersStep == focus = "callers" /\ Next /\ UNCHANGED <<historyVars, focus>>
HistoryStep == focus = "history" /\ HistoryNext /\ UNCHANGED <<vars, focus>>
SequenceNext == CallersStep \/ HistoryStep

SequenceSpec == SequenceInit /\ [][SequenceNext]_<<vars, historyVars, focus>>

Symmetry == Permutations(Requests) \cup Permutations(Routes)
=============================================================================
