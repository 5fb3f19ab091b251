----------------------------- MODULE ToolResults -----------------------------
(***************************************************************************)
(* What a tool batch promises to the conversation: the model that called N *)
(* tools reads one result for each call, in the order of its calls, and a  *)
(* batch that breaks off fills in the results it still owes.               *)
(***************************************************************************)
EXTENDS Naturals, Sequences

CONSTANTS N,        \* the calls of the batch are 1..N
          Statuses  \* what a result may say

VARIABLES log,   \* the tool results appended to the history
          closed \* the batch returned or threw

Init == log = <<>> /\ closed = FALSE

\* The next result is delivered; the last one closes the batch.
Deliver ==
  /\ ~closed /\ Len(log) < N
  /\ \E s \in Statuses : log' = Append(log, [call |-> Len(log) + 1, status |-> s])
  /\ closed' = (Len(log) + 1 = N)

\* Every result still owed is delivered at once, with the same status.
GiveUp ==
  /\ ~closed
  /\ \E s \in Statuses :
       log' = log \o [k \in 1..(N - Len(log)) |-> [call |-> Len(log) + k, status |-> s]]
  /\ closed' = TRUE

Next == Deliver \/ GiveUp

Spec == Init /\ [][Next]_<<log, closed>>

\* A closed batch has answered every call, each once and in order.
Complete == closed => Len(log) = N /\ \A k \in 1..N : log[k].call = k
=============================================================================
