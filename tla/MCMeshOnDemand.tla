--------------------------- MODULE MCMeshOnDemand ---------------------------
(***************************************************************************)
(* Three nodes for TLC that hear each other: s, i and the portal p, behind *)
(* which there is a station.  The way from s to p over i is better than    *)
(* the direct one.                                                         *)
(***************************************************************************)
EXTENDS MeshOnDemand

CONSTANTS s, i, p, sta

TriangleLink == {l \in Node \X Node : l[1] # l[2]}
TriangleCost == [l \in TriangleLink |-> IF i \in {l[1], l[2]} THEN {1} ELSE {4}]
PortalSta == [n \in Node |-> IF n = p THEN {sta} ELSE {}]

\* s wants the station, and i wants s, which is no portal.
MixedWants == {<<s, sta>>, <<i, s>>}
=============================================================================
