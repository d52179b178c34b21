----------------------------- MODULE PathTable -----------------------------
(***************************************************************************)
(* The path table of one mesh node and the rule by which every message of  *)
(* the path selection daemon (PREQ, PREP, PANN, RANN) may change it:       *)
(* updatePathByFreshness of util_PathUpdate.c.  The table itself lives in  *)
(* the wireless driver; the daemon queries, adds, modifies and removes     *)
(* entries by ioctl.                                                       *)
(***************************************************************************)
EXTENDS Naturals

CONSTANTS
    Node,                 \* mesh points, by MAC address
    None,                 \* no next hop: the zeroed entry of a failed query
    pathSwitchThreshold,  \* 20 in the code: the gain a new path must bring
    MESH_DEMO             \* build flag RTD129X_MESH_DEMO: paths below 3 hops

ASSUME PathTableAssumption ==
    /\ None \notin Node
    /\ pathSwitchThreshold \in Nat
    /\ MESH_DEMO \in BOOLEAN

path_sel_entry ==
    [nexthop : Node \cup {None}, dsn : Nat, metric : Nat, hopcount : Nat]

\* What query_table leaves behind when the driver knows no path.
NoEntry == [nexthop |-> None, dsn |-> 0, metric |-> 0, hopcount |-> 0]

HasPath(e) == e.nexthop # None

betterPath(xmetric, xhop, ymetric, yhop) ==
    /\ \/ xmetric + pathSwitchThreshold < ymetric
       \/ xmetric <= ymetric /\ xhop < yhop
    /\ MESH_DEMO => xhop < 3

\* updatePathByFreshness returns 1: the entry is created or replaced.
Accepts(e, dsn, metric, hopcount, prehop) ==
    \/ ~HasPath(e)
    \/ /\ e.dsn <= dsn
       /\ MESH_DEMO => hopcount < 3
       /\ \/ prehop = e.nexthop
          \/ betterPath(metric, hopcount, e.metric, e.hopcount)

\* The entry that it writes then.
PathTo(dsn, metric, hopcount, prehop) ==
    [nexthop |-> prehop, dsn |-> dsn, metric |-> metric, hopcount |-> hopcount]
=============================================================================
