---------------------------- MODULE MeshOnDemand ----------------------------
(***************************************************************************)
(* On-demand path selection of the mesh daemon (Path_OnDemand.c): a node   *)
(* that needs a path floods a path request (RREQ), the portal that is or   *)
(* serves the destination answers with a path reply (RREP) along the       *)
(* reverse path, and a node that cannot forward a data frame sends a path  *)
(* error (RERR) to its source.  Every node runs one daemon; a handler runs *)
(* to its end before the daemon takes the next event from the driver.      *)
(*                                                                         *)
(* Links are ordered and may lose a frame, deliver it twice, or drop it    *)
(* because the receiving driver's queue is full.                           *)
(***************************************************************************)
EXTENDS PathTable, Sequences

CONSTANTS
    Link,         \* ordered pairs of radio neighbours
    LinkCost,     \* LinkCost[l]: metrics the driver may report for a frame on l
    Portal,       \* the nodes whose daemon has isPortal set
    Sta,          \* stations behind mesh nodes, not running the daemon
    StaOf,        \* StaOf[n]: the stations of node n (is_my_stat)
    Wants,        \* <<n, d>>: the driver of n has data frames for d
    RREQ_TTL,     \* ttl the driver gives a new request
    HEADER_TTL,   \* _MESH_HEADER_TTL_, the ttl of a reply
    Faults,       \* the faults that happen: "loss", "repeat", "restart"
    QueueMax,     \* bound: frames waiting on one link
    MaxSeq,       \* bound: sequence number up to which a node asks or replies
    MaxEvent      \* bound: requests and faults

ASSUME MeshAssumption ==
    /\ Link \subseteq {l \in Node \X Node : l[1] # l[2]}
    /\ LinkCost \in [Link -> SUBSET (Nat \ {0})]
    /\ Portal \subseteq Node
    /\ Sta \cap (Node \cup {None}) = {}
    /\ StaOf \in [Node -> SUBSET Sta]
    /\ Wants \subseteq {w \in Node \X (Node \cup Sta) : w[1] # w[2]}
    /\ RREQ_TTL \in 1..255 /\ HEADER_TTL \in 1..255
    /\ Faults \subseteq {"loss", "repeat", "restart"}
    /\ QueueMax \in Nat /\ MaxEvent \in Nat
    /\ MaxSeq \in Nat \ {0}

VARIABLES
    table,    \* table[n][d]: n's path to d
    seq,      \* My_SeqNum of every node
    chan,     \* chan[l]: frames sent on link l and not yet handled
    found,    \* <<n, t>>: n's driver was told that the path to t exists
    events    \* history: the requests made and the faults, by kind, in order

vars == <<table, seq, chan, found, events>>

Dest == Node \cup Sta

(***************************************************************************)
(* Frames.  orig is the node the frame brings a path to (for an RERR, the  *)
(* node that became unreachable), to the final receiver, and about what    *)
(* is asked for or found.                                                  *)
(***************************************************************************)
Frame == [type : {"rreq", "rrep", "rerr"}, orig : Node, dsn : Nat,
          metric : Nat, hopcount : Nat, ttl : Nat, to : Dest, about : Dest]

rreq(n, d) ==
    [type |-> "rreq", orig |-> n, dsn |-> seq[n], metric |-> 0, hopcount |-> 0,
     ttl |-> RREQ_TTL, to |-> d, about |-> d]

rrep(n, src, d) ==
    [type |-> "rrep", orig |-> n, dsn |-> seq[n], metric |-> 0, hopcount |-> 0,
     ttl |-> HEADER_TTL, to |-> src, about |-> d]

rerr(d, src) ==
    [type |-> "rerr", orig |-> d, dsn |-> 0, metric |-> 0, hopcount |-> 0,
     ttl |-> HEADER_TTL, to |-> src, about |-> d]

\* What a receiver makes of a request or reply before it looks at it.
Aged(m, cost) ==
    [type |-> m.type, orig |-> m.orig, dsn |-> m.dsn, metric |-> m.metric + cost,
     hopcount |-> m.hopcount + 1, ttl |-> m.ttl - 1, to |-> m.to, about |-> m.about]

\* n transmits m to its neighbours in R; a full queue drops it.
send_packet(c, n, R, m) ==
    [l \in Link |-> IF l[1] = n /\ l[2] \in R /\ Len(c[l]) < QueueMax
                      THEN Append(c[l], m) ELSE c[l]]

\* The neighbour the driver of n hands a unicast frame for d to.
NextHop(t, n, d) == IF d \in Node THEN {t[n][d].nexthop} ELSE {}

is_my_stat(n, d) == d \in StaOf[n]

-----------------------------------------------------------------------------
Init ==
    /\ table = [n \in Node |-> [d \in Node |-> NoEntry]]
    /\ seq = [n \in Node |-> 1]
    /\ chan = [l \in Link |-> <<>>]
    /\ found = {}
    /\ events = <<>>

Event(k) ==
    /\ k \in Faults \cup {"request"} /\ Len(events) < MaxEvent
    /\ events' = Append(events, k)

\* The driver of n has data for d (or retries): the daemon floods a request.
gen_rreq(n, d) ==
    /\ <<n, d>> \in Wants
    /\ Event("request") /\ seq[n] < MaxSeq
    /\ chan' = send_packet(chan, n, Node, rreq(n, d))
    /\ seq' = [seq EXCEPT ![n] = @ + 1]
    /\ UNCHANGED <<table, found>>

\* A data frame of src for d, or for a station of d, came to n, which has no
\* path to d.
gen_rerr(n, d, src) ==
    /\ <<src, d>> \in Wants \/ \E x \in StaOf[d] : <<src, x>> \in Wants
    /\ n # d /\ ~HasPath(table[n][d])
    /\ \E p \in Node : table[p][d].nexthop = n
    /\ chan' = send_packet(chan, n, NextHop(table, n, src), rerr(d, src))
    /\ UNCHANGED <<table, seq, found, events>>

\* The frames left once the head of l is taken; a duplicate stays behind.
Taken(l, keep) == IF keep THEN chan ELSE [chan EXCEPT ![l] = Tail(@)]

\* Mutant of IsFresh: any request that is not older than the path is taken.
IsFresh_AnyMetric(n, p, r) == table[n][r.orig].dsn <= r.dsn

\* updatePathByFreshness at n for the aged frame r from neighbour p.
IsFresh(n, p, r) == Accepts(table[n][r.orig], r.dsn, r.metric, r.hopcount, p)

Updated(n, p, r) ==
    IF IsFresh(n, p, r)
      THEN [table EXCEPT ![n][r.orig] = PathTo(r.dsn, r.metric, r.hopcount, p)]
      ELSE table

\* Mutant of drop_rreq: a node takes its own request for one of another node.
drop_rreq_OwnToo(l, rest, r) ==
    /\ \/ r.orig = l[2] /\ r.ttl > 0 /\ chan' = send_packet(rest, l[2], Node, r)
       \/ r.orig # l[2] /\ ~IsFresh(l[2], l[1], r) /\ chan' = rest
    /\ UNCHANGED <<table, seq, found>>

\* recv_rreq: a request of n itself, or one that is not fresh enough.
drop_rreq(l, rest, r) ==
    /\ r.orig = l[2] \/ ~IsFresh(l[2], l[1], r)
    /\ chan' = rest
    /\ UNCHANGED <<table, seq, found>>

\* Mutant of reply_rreq: the reply is sent before the path to the node that
\* asked is entered.
reply_rreq_Early(l, rest, r) ==
    LET n == l[2] IN
    /\ r.orig # n /\ IsFresh(n, l[1], r)
    /\ n \in Portal /\ (r.to = n \/ is_my_stat(n, r.to))
    /\ seq[n] < MaxSeq
    /\ table' = Updated(n, l[1], r)
    /\ chan' = send_packet(rest, n, NextHop(table, n, r.orig),
                           rrep(n, r.orig, r.to))
    /\ seq' = [seq EXCEPT ![n] = @ + 1]
    /\ UNCHANGED found

\* recv_rreq, case 4a: n is a portal and the destination or its station's node.
reply_rreq(l, rest, r) ==
    LET n == l[2] IN
    /\ r.orig # n /\ IsFresh(n, l[1], r)
    /\ n \in Portal /\ (r.to = n \/ is_my_stat(n, r.to))
    /\ seq[n] < MaxSeq
    /\ table' = Updated(n, l[1], r)
    /\ chan' = send_packet(rest, n, NextHop(table', n, r.orig),
                           rrep(n, r.orig, r.to))
    /\ seq' = [seq EXCEPT ![n] = @ + 1]
    /\ UNCHANGED found

\* recv_rreq, case 4b: forward_rreq.
forward_rreq(l, rest, r) ==
    LET n == l[2] IN
    /\ r.orig # n /\ IsFresh(n, l[1], r)
    /\ ~(n \in Portal /\ (r.to = n \/ is_my_stat(n, r.to)))
    /\ table' = Updated(n, l[1], r)
    /\ chan' = IF r.ttl > 0 THEN send_packet(rest, n, Node, r) ELSE rest
    /\ UNCHANGED <<seq, found>>

recv_rreq(l, rest, r) ==
    /\ r.type = "rreq"
    /\ \/ drop_rreq(l, rest, r)
       \/ reply_rreq(l, rest, r)
       \/ forward_rreq(l, rest, r)

\* Mutant of recv_rrep: only the node that asked enters the path.
recv_rrep_RelayOnly(l, rest, r) ==
    LET n == l[2] IN
    /\ r.type = "rrep"
    /\ IF r.to = n
         THEN /\ table' = Updated(n, l[1], r)
              /\ chan' = rest /\ found' = found \cup {<<n, r.about>>}
         ELSE /\ chan' = send_packet(rest, n, NextHop(table, n, r.to), r)
              /\ UNCHANGED <<table, found>>
    /\ UNCHANGED seq

\* recv_rrep: the result of updatePathByFreshness is ignored.
recv_rrep(l, rest, r) ==
    LET n == l[2] IN
    /\ r.type = "rrep"
    /\ IF r.orig = n
         THEN chan' = rest /\ UNCHANGED <<table, found>>
         ELSE /\ table' = Updated(n, l[1], r)
              /\ IF r.to = n
                   THEN chan' = rest /\ found' = found \cup {<<n, r.about>>}
                   ELSE /\ chan' = IF r.ttl > 0
                                     THEN send_packet(rest, n, NextHop(table', n, r.to), r)
                                     ELSE rest
                        /\ UNCHANGED found
    /\ UNCHANGED seq

recv_rerr(l, rest, m) ==
    LET n == l[2] IN
    /\ m.type = "rerr"
    /\ IF table[n][m.orig].nexthop = l[1]
         THEN /\ table' = [table EXCEPT ![n][m.orig] = NoEntry]
              /\ chan' = IF m.to = n THEN rest
                         ELSE send_packet(rest, n, NextHop(table', n, m.to), m)
         ELSE chan' = rest /\ UNCHANGED table
    /\ UNCHANGED <<seq, found>>

\* do_daemon: the daemon at the end of l handles the next event.
Receive(l) ==
    /\ chan[l] # <<>>
    /\ \E keep \in BOOLEAN, cost \in LinkCost[l] :
         /\ IF keep THEN Event("repeat") ELSE UNCHANGED events
         /\ LET m == Head(chan[l])
                rest == Taken(l, keep)
            IN \/ recv_rreq(l, rest, Aged(m, cost))
               \/ recv_rrep(l, rest, Aged(m, cost))
               \/ recv_rerr(l, rest, m)

Lose(l) ==
    /\ Event("loss") /\ chan[l] # <<>>
    /\ chan' = [chan EXCEPT ![l] = Tail(@)]
    /\ UNCHANGED <<table, seq, found>>

\* Mutant of Restart: My_SeqNum starts at 0, the number that stands for no path.
Restart_SeqZero(n) ==
    /\ Event("restart")
    /\ table' = [table EXCEPT ![n] = [d \in Node |-> NoEntry]]
    /\ seq' = [seq EXCEPT ![n] = 0]
    /\ chan' = [l \in Link |-> IF l[2] = n THEN <<>> ELSE chan[l]]
    /\ found' = {f \in found : f[1] # n}

\* A node is switched off and on: My_SeqNum, the driver's table and what was
\* on its way to the node are gone.
Restart(n) ==
    /\ Event("restart")
    /\ table' = [table EXCEPT ![n] = [d \in Node |-> NoEntry]]
    /\ seq' = [seq EXCEPT ![n] = 1]
    /\ chan' = [l \in Link |-> IF l[2] = n THEN <<>> ELSE chan[l]]
    /\ found' = {f \in found : f[1] # n}

Next ==
    \/ \E n \in Node, d \in Dest : gen_rreq(n, d)
    \/ \E n, d, src \in Node : gen_rerr(n, d, src)
    \/ \E l \in Link : Receive(l)
    \/ \E l \in Link : Lose(l)
    \/ \E n \in Node : Restart(n)

Spec == Init /\ [][Next]_vars

\* A frame in a driver's queue is handled in the end (see MeshDaemon).
FairSpec == Spec /\ \A l \in Link : WF_vars(Receive(l))

-----------------------------------------------------------------------------
TypeOK ==
    /\ table \in [Node -> [Node -> path_sel_entry]]
    /\ seq \in [Node -> 1..MaxSeq]
    /\ chan \in [Link -> Seq(Frame)]
    /\ found \subseteq Node \X Dest
    /\ events \in Seq(Faults \cup {"request"}) /\ Len(events) <= MaxEvent

Happened(k) == \E x \in DOMAIN events : events[x] = k

\* Every link reports the same metric for every frame.
SteadyMetrics == \A l \in Link : \E c \in LinkCost[l] : LinkCost[l] = {c}

(***************************************************************************)
(* LoopFree: while metrics are steady and no node restarts, the next hops  *)
(* that requests set up towards a node never form a cycle, whatever is     *)
(* lost, repeated or still under way: every set of nodes has a member      *)
(* whose next hop towards d is outside of it.  It is the freshness rule of *)
(* updatePathByFreshness (util_PathUpdate.c) that has to ensure this.      *)
(***************************************************************************)
LoopFree ==
    SteadyMetrics /\ ~Happened("restart") =>
      \A d \in Node \ Portal : \A C \in SUBSET Node :
        C # {} => \E n \in C : table[n][d].nexthop \notin C

(***************************************************************************)
(* NoBlackHole: while no node restarts, the next hop of a path is the      *)
(* destination or has a path to it itself, and a node that was told of a   *)
(* path to a node has one; no RERR is ever needed.  recv_rreq and          *)
(* recv_rrep send a frame on only after updating the table from it.        *)
(***************************************************************************)
NoBlackHole ==
    ~Happened("restart") =>
      /\ \A n, d \in Node : HasPath(table[n][d]) =>
            \/ table[n][d].nexthop = d
            \/ HasPath(table[table[n][d].nexthop][d])
      /\ \A f \in found : f[2] \in Node => HasPath(table[f[1]][f[2]])

\* PathShape: whatever is lost, repeated or restarted, no node enters a path
\* to itself, the next hop of a path is its destination exactly when the path
\* is one hop long, and a hop costs at least 1.  It takes the early returns of
\* recv_rreq and recv_rrep for my_address and the ageing of every frame: a
\* frame that came back to its sender would break it some hops later.
PathShape ==
    \A n, d \in Node : HasPath(table[n][d]) =>
        /\ n # d
        /\ table[n][d].hopcount = 1 <=> table[n][d].nexthop = d
        /\ table[n][d].hopcount <= table[n][d].metric

\* Answered: as long as no frame is lost and no node restarts, a request for a
\* portal, or for a station behind one, leads to a reply that reaches the node
\* that asked, even when copies of it that took different ways overtake each
\* other (recv_rreq, recv_rrep).
Answered ==
    \A w \in {x \in Wants : x[2] \in Portal \cup UNION {StaOf[n] : n \in Portal}} :
        (\E l \in Link : \E k \in DOMAIN chan[l] :
            chan[l][k].type = "rreq" /\ <<chan[l][k].orig, chan[l][k].to>> = w)
        ~> (w \in found \/ Happened("loss") \/ Happened("restart"))
=============================================================================
