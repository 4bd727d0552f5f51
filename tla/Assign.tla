------------------------------- MODULE Assign -------------------------------
(***************************************************************************)
(* Rendezvous assignment of streams to nodes (crates/ma-coord/src/         *)
(* assign.rs).  Every node evaluates these operators on the membership it  *)
(* last read; no node asks another.                                        *)
(*                                                                         *)
(* The 64-bit hash is abstracted to its order: Weight[s][n] is the score   *)
(* node n gives stream s.  Ties are allowed, so the tie-break on the node  *)
(* id (Id) is part of the model.                                           *)
(***************************************************************************)
EXTENDS Integers

CONSTANTS Node,     \* every process that may join the cluster
          Stream,   \* every (venue, symbol) the cluster runs
          Weight,   \* weight(stream, node), a 64-bit score in the code
          Id        \* the order of the node names

ASSUME AssignAssumption ==
  /\ Weight \in [Stream -> [Node -> Nat]]
  /\ Id \in [Node -> Nat]
  /\ \A m, n \in Node : Id[m] = Id[n] => m = n

\* The order max_by compares by: the higher weight, then the lower node id.
Beats(s, m, n) ==
  \/ Weight[s][m] > Weight[s][n]
  \/ Weight[s][m] = Weight[s][n] /\ Id[m] < Id[n]

\* m is the node that owner() returns for stream s among the live nodes.
IsOwner(s, m, live) ==
  /\ m \in live
  /\ \A o \in live \ {m} : Beats(s, m, o)

\* assigned_to(): every stream n should run, given the live nodes.
AssignedTo(n, live) == {s \in Stream : IsOwner(s, n, live)}

=============================================================================
