---------------------------- MODULE MCSubagents ----------------------------
(* Small instances of Subagents. *)
EXTENDS Subagents, TLC

CONSTANTS c1, c2, m1, m2, m3

\* The loop of #drain, which tries to reserve a slot for one waiter after the other.
Drained(h, ws, limit) ==
  FoldLeft(LAMBDA acc, w : IF w.exec \in acc \/ Cardinality(acc) < limit
                           THEN acc \cup {w.exec} ELSE acc, h, ws)

\* Those who find a slot are those the loop admits, and the others keep their order.
ASSUME DrainAdmitsFitting ==
  \A h \in SUBSET (1..3), limit \in 1..3, n \in 0..4 :
    \A ws \in [1..n -> [exec : 1..4]] :
      /\ Fitting(h, ws, limit) = Drained(h, ws, limit)
      /\ Without(ws, h) = SelectSeq(ws, LAMBDA w : w.exec \notin h)
=============================================================================
