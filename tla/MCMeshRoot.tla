----------------------------- MODULE MCMeshRoot -----------------------------
(***************************************************************************)
(* Three nodes for TLC, numbered by MAC address.                           *)
(***************************************************************************)
EXTENDS MeshRoot

\* Everybody hears everybody.
FullMesh == [n \in Node |-> Node \ {n}]

\* 2 and 3 hear each other only over 1.
Star == [n \in Node |-> IF n = 1 THEN {2, 3} ELSE {1}]

\* 1 and 3 hear each other only over 2.
Line == [n \in Node |-> IF n = 2 THEN {1, 3} ELSE {2}]
=============================================================================
