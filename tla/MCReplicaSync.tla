---------------------------- MODULE MCReplicaSync ----------------------------
(* Small instances of ReplicaSync: two Sessions in one Project or in two. *)
EXTENDS ReplicaSync, TLC

CONSTANTS s1, s2, p1, p2

TwoProjects == s1 :> p1 @@ s2 :> p2
OneProject  == [s \in Sessions |-> p1]
=============================================================================
