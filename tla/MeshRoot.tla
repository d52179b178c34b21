------------------------------ MODULE MeshRoot ------------------------------
(***************************************************************************)
(* Portals and the root of the mesh (Tree_Proactive.c, init_root and       *)
(* callback_usr2 of pathselection.c).  Every portal announces itself once  *)
(* a second (PANN); one of the portals that may be root announces itself   *)
(* as the root (RANN); every node forwards the announcements it takes,     *)
(* forgets portals and roots that fall silent, and when the root is gone   *)
(* the portals choose a new one by MAC address.                            *)
(*                                                                         *)
(* Time goes in rounds of a second: in each, the timer handler of every    *)
(* running node runs once, in any order.  The frames it broadcasts are     *)
(* handled at its neighbours before another handler runs.  Handling an     *)
(* announcement sends nothing, so deliveries at different nodes commute    *)
(* and a step may make all of them.                                        *)
(***************************************************************************)
EXTENDS PathTable, FiniteSets, Sequences, SequencesExt

CONSTANTS
    Neighbours,  \* Neighbours[n]: the nodes that hear n
    Setups,      \* the sets of nodes started with -P that are looked at
    Candidates,  \* nodes started with -R: toBeRoot
    PANN_INTERVAL,   \* PORTAL_ANNOUNCEMENT_INTERVAL
    TIMEOUT,         \* PORTAL_ and ROOT_ANNOUNCEMENT_TIMEOUT
    ARBITRATION,     \* PORTAL_ARBITRATION_TIME
    MAX_MPP_NUM,     \* slots of pann_mpp_pool
    Faults,      \* the faults that happen: "crash", "start", "bridge", and
                 \* "decision", a signal of the bridge inside root_decision
    MaxFault,    \* bound: faults, not counting starts and one "decision"
    Settle,      \* rounds after the last fault in which a root is found
    MaxTime      \* bound: rounds

ASSUME MeshRootAssumption ==
    /\ Node \subseteq Nat \ {0} /\ IsFiniteSet(Node)   \* MAC addresses
    /\ None = 0                                        \* the zero address
    /\ Neighbours \in [Node -> SUBSET Node]
    /\ \A n \in Node : n \notin Neighbours[n]
    /\ Setups \subseteq SUBSET Node /\ Candidates \subseteq Node
    /\ PANN_INTERVAL \in Nat \ {0} /\ TIMEOUT \in Nat /\ ARBITRATION \in Nat
    /\ PANN_INTERVAL < TIMEOUT /\ TIMEOUT < ARBITRATION
    /\ MAX_MPP_NUM \in Nat
    /\ Faults \subseteq {"crash", "start", "bridge", "decision"}
    /\ MaxFault \in Nat /\ Settle \in Nat /\ MaxTime \in Nat

VARIABLES
    up,       \* nodes whose daemon runs
    node,     \* node[n]: the daemon's variables
    portals,  \* nodes started with -P
    torn,     \* history: nodes with a handler that SIGUSR2 interrupted
    ticked,   \* nodes whose handler ran in this round
    time, quiet,   \* rounds so far, and since the last fault
    faults

vars == <<up, node, portals, torn, ticked, time, quiet, faults>>

Frame == [type : {"pann", "rann"}, orig : Node, dsn : Nat, metric : Nat,
          hopcount : Nat, beRoot : BOOLEAN]

NoFrame == [type |-> "none"]

\* rann_root_entry: flag is mac # None.
NoRoot == [mac |-> None, timeout |-> 0, seqNum |-> 0]

\* The daemon's variables after main has read its arguments.
Started(n) ==
    [isPortal |-> n \in portals, isRoot |-> FALSE, rootDecision |-> FALSE,
     root |-> NoRoot, seq |-> 1,
     pool |-> [m \in Node |-> [timeout |-> 0, beRoot |-> FALSE]],
     pann_retx |-> [m \in Node |-> NoFrame], rann_retx |-> NoFrame,
     table |-> [m \in Node |-> NoEntry],
     pann_count |-> PANN_INTERVAL, decision_count |-> ARBITRATION,
     out |-> <<>>]

Known(s) == {m \in Node : s.pool[m].timeout > 0}

BeRoot(n, s) ==
    [s EXCEPT !.isRoot = TRUE,
              !.root = [@ EXCEPT !.mac = n, !.timeout = TIMEOUT]]

reset_timer(s) ==
    [s EXCEPT !.pann_count = PANN_INTERVAL, !.decision_count = ARBITRATION]

\* Mutant of init_root: a root that is no portal any more stays root.
init_root_StaysRoot(n, s) ==
    reset_timer(
      IF s.isPortal /\ n \in Candidates /\ (s.root.mac > n \/ s.root.mac = None)
        THEN BeRoot(n, s)
        ELSE s)

init_root(n, s) ==
    reset_timer(
      IF s.isPortal /\ n \in Candidates
        THEN IF s.root.mac > n \/ s.root.mac = None THEN BeRoot(n, s) ELSE s
        ELSE IF s.root.mac = n
               THEN [s EXCEPT !.isRoot = FALSE, !.root.mac = None]
               ELSE s)

-----------------------------------------------------------------------------
(***************************************************************************)
(* The timer functions: each maps the daemon's variables to the new ones,  *)
(* with the frames it sends appended to out.                               *)
(***************************************************************************)
Announce(n, s, kind) ==
    [s EXCEPT !.seq = @ + 1,
              !.out = Append(@, [type |-> kind, orig |-> n, dsn |-> s.seq,
                                 metric |-> 0, hopcount |-> 0,
                                 beRoot |-> n \in Candidates])]

gen_pann(n, s) ==
    IF s.pann_count > 1
      THEN [s EXCEPT !.pann_count = @ - 1]
      ELSE [Announce(n, s, "pann") EXCEPT !.pann_count = PANN_INTERVAL]

\* gen_rann also keeps the root's own entry alive.
gen_rann(n, s) ==
    [Announce(n, s, "rann") EXCEPT !.root.timeout = TIMEOUT, !.root.seqNum = s.seq]

retx_pann(s) ==
    LET due == {m \in Node : s.pann_retx[m] # NoFrame} IN
    [s EXCEPT !.out = @ \o SetToSeq({s.pann_retx[m] : m \in due}),
              !.pann_retx = [m \in Node |-> NoFrame]]

retx_rann(s) ==
    IF s.rann_retx = NoFrame THEN s
    ELSE [s EXCEPT !.out = Append(@, s.rann_retx), !.rann_retx = NoFrame]

\* Mutant of tbl_pann: free slots are counted down too.
tbl_pann_FreeToo(s) ==
    [s EXCEPT !.pool = [m \in Node |-> [s.pool[m] EXCEPT !.timeout = @ - 1]]]

\* A portal that fell silent is forgotten, and the path to it.
tbl_pann(s) ==
    [s EXCEPT
       !.pool = [m \in Node |->
                   IF m \in Known(s) THEN [s.pool[m] EXCEPT !.timeout = @ - 1]
                                     ELSE s.pool[m]],
       !.table = [m \in Node |->
                   IF s.pool[m].timeout = 1 THEN NoEntry ELSE s.table[m]]]

\* Mutant of tbl_rann: the decision for the dead root stays.
tbl_rann_KeepsDecision(s) ==
    IF s.root.mac = None THEN s
    ELSE IF s.root.timeout > 1 THEN [s EXCEPT !.root.timeout = @ - 1]
    ELSE [s EXCEPT !.root = NoRoot, !.table[s.root.mac] = NoEntry]

\* So is the root: the portals may decide again.
tbl_rann(s) ==
    IF s.root.mac = None THEN s
    ELSE IF s.root.timeout > 1 THEN [s EXCEPT !.root.timeout = @ - 1]
    ELSE [s EXCEPT !.root = [@ EXCEPT !.mac = None, !.timeout = 0],
                   !.rootDecision = FALSE,
                   !.table[s.root.mac] = NoEntry]

\* n has not decided, and is the smallest of the portals it knows of that may
\* be root.
Chosen(n, s) ==
    /\ ~s.rootDecision /\ s.decision_count <= 1
    /\ n \in Candidates
    /\ \A m \in Known(s) : s.pool[m].beRoot => n < m

Decided(s) == [s EXCEPT !.rootDecision = TRUE, !.decision_count = ARBITRATION]

root_decision(n, s) ==
    IF s.rootDecision THEN s
    ELSE IF s.decision_count > 1 THEN [s EXCEPT !.decision_count = @ - 1]
    ELSE IF Chosen(n, s) THEN BeRoot(n, Decided(s)) ELSE Decided(s)

\* What a portal that is not root does before root_decision.
PortalTimers(n, s) == tbl_rann(retx_rann(tbl_pann(retx_pann(gen_pann(n, s)))))

\* A root runs the first four timers, a portal all but gen_rann, another node
\* only those that forward and forget.
pann_handler(n, s) ==
    IF s.isRoot
      THEN IF s.isPortal THEN gen_rann(n, tbl_pann(retx_pann(gen_pann(n, s)))) ELSE s
      ELSE IF s.isPortal THEN root_decision(n, PortalTimers(n, s))
                         ELSE tbl_rann(retx_rann(tbl_pann(retx_pann(s))))

-----------------------------------------------------------------------------
\* The frame as its receiver looks at it; every link costs 1.
Aged(f) == [f EXCEPT !.metric = @ + 1, !.hopcount = @ + 1]

IsFresh(s, p, f) == Accepts(s.table[f.orig], f.dsn, f.metric, f.hopcount, p)

Updated(s, p, f) ==
    [s EXCEPT !.table[f.orig] = PathTo(f.dsn, f.metric, f.hopcount, p)]

\* Mutant of updateMppPool: the entry of a known portal is not renewed.
updateMppPool_NoRenewal(s, f) ==
    IF f.orig \notin Known(s) /\ Cardinality(Known(s)) < MAX_MPP_NUM
      THEN [s EXCEPT !.pool[f.orig] = [timeout |-> TIMEOUT, beRoot |-> f.beRoot]]
      ELSE s

\* A portal is entered if it is known or a slot is free.
updateMppPool(s, f) ==
    IF f.orig \in Known(s) \/ Cardinality(Known(s)) < MAX_MPP_NUM
      THEN [s EXCEPT !.pool[f.orig] = [timeout |-> TIMEOUT, beRoot |-> f.beRoot]]
      ELSE s

\* A frame that waits to be forwarded gives way to a newer one only.
updatePannRetx(s, f) ==
    LET due == {m \in Node : s.pann_retx[m] # NoFrame} IN
    IF \/ f.orig \in due /\ s.pann_retx[f.orig].dsn < f.dsn
       \/ f.orig \notin due /\ Cardinality(due) < MAX_MPP_NUM
      THEN [s EXCEPT !.pann_retx[f.orig] = f]
      ELSE s

recv_pann(n, s, p, f) ==
    IF f.orig = n \/ ~IsFresh(s, p, f) THEN s
    ELSE updatePannRetx(updateMppPool(Updated(s, p, f), f), f)

\* recv_rann up to the point where the frame is not dropped.
DropsRann(n, s, f) == f.orig = n \/ (s.isRoot /\ n < f.orig)

\* A root that hears of a better one quits.
Quit(s) == [s EXCEPT !.isRoot = FALSE]

\* The announced root against the one of the root entry.
Compare(s, f) ==
    IF s.root.mac = None \/ f.orig < s.root.mac THEN "better"
    ELSE IF s.root.mac = f.orig THEN "same" ELSE "worse"

\* The rest of recv_rann: the root entry, the path and the forwarding.
TakeRann(s, p, f, verdict) ==
    LET better == verdict = "better"
        t == IF better \/ (verdict = "same" /\ s.root.seqNum < f.dsn)
               THEN [s EXCEPT !.root = [mac |-> IF better THEN f.orig ELSE s.root.mac,
                                        timeout |-> TIMEOUT, seqNum |-> f.dsn],
                              !.rootDecision = @ \/ better]
               ELSE s
    IN  IF verdict # "worse" /\ IsFresh(t, p, f)
          THEN [Updated(t, p, f) EXCEPT !.rann_retx = f]
          ELSE t

recv_rann(n, s, p, f) ==
    IF DropsRann(n, s, f) THEN s ELSE TakeRann(Quit(s), p, f, Compare(s, f))

Handled(n, s, p, f) ==
    IF f.type = "pann" THEN recv_pann(n, s, p, Aged(f))
                       ELSE recv_rann(n, s, p, Aged(f))

-----------------------------------------------------------------------------
Init ==
    /\ up = Node /\ portals \in Setups /\ torn = {}
    /\ node = [n \in Node |-> init_root(n, Started(n))]
    /\ ticked = {} /\ time = 0 /\ quiet = 0 /\ faults = 0

\* It is the turn of n; the round ends when the handlers of all running nodes ran.
Turn(n) ==
    /\ n \in up \ ticked /\ time < MaxTime
    /\ IF up \subseteq ticked \cup {n}
         THEN ticked' = {} /\ time' = time + 1
         ELSE ticked' = ticked \cup {n} /\ UNCHANGED time

\* r has handled the first k frames of out, sent by n.
AfterFrames(n, r, out, k) ==
    LET after[j \in 0..Len(out)] ==
          IF j = 0 THEN node[r] ELSE Handled(r, after[j - 1], n, out[j])
    IN  after[k]

\* The handler of n leaves s, and its neighbours handle the frames it sends.
Broadcast(n, s) ==
    [m \in Node |->
       IF m = n THEN [s EXCEPT !.out = <<>>]
       ELSE IF m \in Neighbours[n] \cap up THEN AfterFrames(n, m, s.out, Len(s.out))
       ELSE node[m]]

TimerFunc(n) ==
    /\ Turn(n)
    /\ node' = Broadcast(n, pann_handler(n, node[n]))
    /\ quiet' = quiet + (time' - time)
    /\ UNCHANGED <<up, portals, torn, faults>>

Fault(kind, limit) ==
    /\ kind \in Faults /\ faults < limit /\ time < MaxTime
    /\ faults' = faults + 1 /\ quiet' = 0

\* The bridge blocks or unblocks the mesh port of n.
Toggled(n, s) == init_root(n, [s EXCEPT !.isPortal = ~@])

callback_usr2(n) ==
    /\ Fault("bridge", MaxFault) /\ n \in up
    /\ node' = [node EXCEPT ![n] = Toggled(n, node[n])]
    /\ UNCHANGED <<up, portals, torn, ticked, time>>

\* What recv_rann may take a frame for if the root entry changes from that of u
\* to that of v on the way: the flag may be tested before, the address after.
Verdicts(u, v, f) ==
    {Compare(u, f), Compare(v, f)}
      \cup (IF (u.root.mac = None) # (v.root.mac = None) THEN {"worse"} ELSE {})

\* SIGUSR2 interrupts recv_rann of r, between the test of isRoot and the change
\* of the root entry.  The RANN is the last frame of the timer of n.
recv_rann_Interrupted(n, r) ==
    /\ Turn(n) /\ Fault("bridge", MaxFault)
    /\ r \in Neighbours[n] \cap up
    /\ LET s == pann_handler(n, node[n])
           f == s.out[Len(s.out)]
           before == AfterFrames(n, r, s.out, Len(s.out) - 1)
           u == Quit(before)
           v == Toggled(r, u)
       IN  /\ s.out # <<>> /\ f.type = "rann" /\ ~DropsRann(r, before, f)
           /\ \E verdict \in Verdicts(u, v, f) :
                node' = [Broadcast(n, s) EXCEPT ![r] = TakeRann(v, n, Aged(f), verdict)]
    /\ torn' = torn \cup {r}
    /\ UNCHANGED <<up, portals>>

\* SIGUSR2 interrupts root_decision of n, which has made up its mind to be root.
root_decision_Interrupted(n) ==
    /\ Turn(n) /\ Fault("decision", MaxFault + 1)
    /\ node[n].isPortal /\ ~node[n].isRoot
    /\ LET s == PortalTimers(n, node[n]) IN
         /\ Chosen(n, s)
         /\ node' = Broadcast(n, BeRoot(n, Decided(Toggled(n, s))))
    /\ torn' = torn \cup {n}
    /\ UNCHANGED <<up, portals>>

Crash(n) ==
    /\ Fault("crash", MaxFault) /\ n \in up /\ up # {n}
    /\ up' = up \ {n}
    /\ node' = [node EXCEPT ![n] = Started(n)]
    /\ torn' = torn \ {n}
    /\ ticked' = IF up' \subseteq ticked THEN {} ELSE ticked \ {n}
    /\ UNCHANGED <<portals, time>>

\* main, up to do_daemon, after a crash.
Start(n) ==
    /\ "start" \in Faults /\ time < MaxTime /\ n \notin up
    /\ quiet' = 0
    /\ up' = up \cup {n}
    /\ node' = [node EXCEPT ![n] = init_root(n, Started(n))]
    /\ UNCHANGED <<portals, torn, ticked, time, faults>>

Next ==
    \/ \E n \in Node : TimerFunc(n)
    \/ \E n \in Node : callback_usr2(n)
    \/ \E n, r \in Node : recv_rann_Interrupted(n, r)
    \/ \E n \in Node : root_decision_Interrupted(n)
    \/ \E n \in Node : Crash(n)
    \/ \E n \in Node : Start(n)

Spec == Init /\ [][Next]_vars

-----------------------------------------------------------------------------
TypeOK ==
    /\ up \subseteq Node /\ ticked \subseteq up /\ torn \subseteq up
    /\ portals \subseteq Node
    /\ time \in 0..MaxTime /\ quiet \in 0..time /\ faults \in 0..(MaxFault + 1)
    /\ \A n \in Node :
         /\ node[n].root.mac \in Node \cup {None} /\ node[n].root.timeout \in 0..TIMEOUT
         /\ node[n].table \in [Node -> path_sel_entry]
         /\ node[n].out = <<>>
         /\ \A m \in Node : /\ node[n].pool[m].timeout \in 0..TIMEOUT
                            /\ node[n].pann_retx[m] \in Frame \cup {NoFrame}
         /\ node[n].rann_retx \in Frame \cup {NoFrame}

(***************************************************************************)
(* DeviceKind: a node is a root, a portal or an access point, the three    *)
(* cases of pann_handler: a root is a portal that may be root, and its     *)
(* root entry is its own.  A node with isRoot set and isPortal clear would *)
(* run no timer any more; only a signal inside recv_rann or root_decision  *)
(* leads there.                                                            *)
(***************************************************************************)
DeviceKind ==
    \A n \in up : node[n].isRoot =>
      /\ n \in Candidates
      /\ n \in torn \/ (node[n].isPortal /\ node[n].root.mac = n)

\* The running nodes that n can reach over running nodes.
Reach(n) ==
    {m \in up : \A C \in SUBSET up :
        n \in C /\ (\A x \in C : Neighbours[x] \cap up \subseteq C) => m \in C}

\* The portals among them.
PortalsOf(n) == {m \in Reach(n) : node[m].isPortal}

\* The one of those that should be root.
Best(n) ==
    LET able == PortalsOf(n) \cap Candidates
    IN  IF able = {} THEN None ELSE Min(able)

(***************************************************************************)
(* Elected: portals decide a root when the mesh has none (the comment on   *)
(* root_decision).  Settle rounds after the last fault the root is the     *)
(* running candidate with the smallest address in reach, nobody else       *)
(* believes to be root, and every running node knows it; without a         *)
(* candidate no node believes in a root.  Only the root itself may hold    *)
(* another one for it, if it became root inside recv_rann.                 *)
(***************************************************************************)
Elected ==
    quiet >= Settle =>
      \A n \in up :
        /\ node[n].isRoot <=> n = Best(n)
        /\ node[n].root.mac = Best(n) \/ (n = Best(n) /\ n \in torn)

\* PortalsKnown: Settle rounds after the last fault every running node has in
\* its pool exactly the other portals in reach, and a path to each (recv_pann,
\* tbl_pann), also to those whose sequence numbers started again at 1.
PortalsKnown ==
    quiet >= Settle =>
      \A n \in up :
        /\ Known(node[n]) = PortalsOf(n) \ {n}
        /\ \A m \in Known(node[n]) : HasPath(node[n].table[m])
=============================================================================
