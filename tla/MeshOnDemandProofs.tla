------------------------- MODULE MeshOnDemandProofs -------------------------
(***************************************************************************)
(* What on-demand path selection keeps true in a mesh of any size and      *)
(* shape, with any link metrics, for any number of requests and faults:    *)
(* paths have the right shape, none ends in a black hole as long as no     *)
(* node restarts, and none runs in a circle as long as metrics are steady  *)
(* as well.                                                                *)
(***************************************************************************)
EXTENDS MeshOnDemand, NaturalsLemmas, TLAPS

\* The frames under way on link l.
Carried(l) == {chan[l][k] : k \in DOMAIN chan[l]}

\* A frame that is under way may still be received; a request or reply has made
\* no hop exactly if its sender is its origin, and a hop costs at least 1;
\* replies come from portals.
Sound(l, m) ==
    /\ m.ttl >= 1
    /\ m.type # "rerr" => /\ m.hopcount = 0 <=> l[1] = m.orig
                          /\ m.hopcount <= m.metric
    /\ m.type = "rrep" => m.orig \in Portal

FrameShape == \A l \in Link : \A m \in Carried(l) : Sound(l, m)

\* Every next hop is a neighbour.
HopsAreLinks ==
    \A n, d \in Node : HasPath(table[n][d]) => <<table[n][d].nexthop, n>> \in Link

\* The invariant that holds whatever happens.
ShapeInv == TypeOK /\ FrameShape /\ HopsAreLinks /\ PathShape

\* Without a restart, a node that sends a request or reply on has a path to its
\* origin, a reply about a node comes from that node, and no RERR is sent.
NoGap ==
    \A l \in Link : \A m \in Carried(l) :
      /\ m.type # "rerr"
      /\ l[1] = m.orig \/ HasPath(table[l[1]][m.orig])
      /\ m.type = "rrep" /\ m.about \in Node => m.about = m.orig

\* Then no path ends at a node that knows no way on.
PathsHold ==
    /\ NoGap
    /\ \A n, d \in Node : HasPath(table[n][d]) =>
          table[n][d].nexthop = d \/ HasPath(table[table[n][d].nexthop][d])
    /\ \A f \in found : f[2] \in Node => HasPath(table[f[1]][f[2]])

PathInv == ~Happened("restart") => PathsHold

(***************************************************************************)
(* The order behind LoopFree: a path or frame is as good as another if it  *)
(* is newer, or of the same age and costs no more.                         *)
(***************************************************************************)
AsGood(x, y) == x.dsn > y.dsn \/ (x.dsn = y.dsn /\ x.metric <= y.metric)

\* What a neighbour makes of x: dearer by the cost of the link.
Dearer(x, c) == [dsn |-> x.dsn, metric |-> x.metric + c]

Cost(l) == CHOOSE c \in LinkCost[l] : TRUE

\* On every link, requests of d never get worse.
Ordered(q, d) ==
    \A i, j \in DOMAIN q :
      i <= j /\ q[i].orig = d /\ q[j].orig = d => AsGood(q[j], q[i])

\* The sender of a request of d is d, which sends metric 0, or has a path that
\* is as good.
SentFrom(l, m, d) ==
    /\ m.dsn < seq[d]
    /\ IF l[1] = d THEN m.metric = 0 ELSE AsGood(table[l[1]][d], m)

\* What n can still hear from its next hop towards d, and what the next hop
\* knows now, is as good as the path of n.
Downhill(n, d) ==
    HasPath(table[n][d]) =>
      LET q == table[n][d].nexthop
          l == <<q, n>>
      IN /\ table[n][d].dsn < seq[d]
         /\ \A m \in Carried(l) : m.orig = d => AsGood(Dearer(m, Cost(l)), table[n][d])
         /\ q # d => AsGood(Dearer(table[q][d], Cost(l)), table[n][d])

Toward(d) ==
    /\ \A l \in Link : Ordered(chan[l], d)
    /\ \A l \in Link : \A m \in Carried(l) : m.orig = d => SentFrom(l, m, d)
    /\ \A n \in Node : Downhill(n, d)

LoopInv ==
    SteadyMetrics /\ ~Happened("restart") => \A d \in Node \ Portal : Toward(d)

\* The inductive invariant.
IInv == ShapeInv /\ PathInv /\ LoopInv

-----------------------------------------------------------------------------
(* Frames and links *)

\* The neighbours on a link are two nodes.
LEMMA LinkEnds ==
    ASSUME NEW l \in Link
    PROVE  l[1] \in Node /\ l[2] \in Node /\ l[1] # l[2] /\ l = <<l[1], l[2]>>
BY MeshAssumption

\* A metric the driver reports is a number above 0.
LEMMA CostType ==
    ASSUME NEW l \in Link, NEW c \in LinkCost[l]
    PROVE  c \in Nat /\ c >= 1
BY MeshAssumption

\* A frame that may still be received is a frame when its receiver has aged it.
LEMMA AgedFrame ==
    ASSUME NEW m \in Frame, m.ttl >= 1, NEW c \in Nat
    PROVE  /\ Aged(m, c) \in Frame
           /\ Aged(m, c).type = m.type /\ Aged(m, c).orig = m.orig
           /\ Aged(m, c).dsn = m.dsn /\ Aged(m, c).metric = m.metric + c
           /\ Aged(m, c).hopcount = m.hopcount + 1 /\ Aged(m, c).ttl = m.ttl - 1
           /\ Aged(m, c).to = m.to /\ Aged(m, c).about = m.about
BY DEF Aged, Frame

\* What is under way are frames.
LEMMA CarriedFrame ==
    ASSUME ShapeInv, NEW l \in Link, NEW m \in Carried(l)
    PROVE  m \in Frame
BY DEF ShapeInv, TypeOK, Carried

\* What a step makes of the queue of one link: it may take the head off, and
\* may put a frame of F at the end.
Moved(q, r, F) ==
    \E s \in Seq(Frame) :
      /\ s = q \/ (q # <<>> /\ s = Tail(q))
      /\ r = s \/ \E f \in F : r = Append(s, f)

\* The frames of a queue after such a step were there before or come from F.
LEMMA MovedFrames ==
    ASSUME NEW q \in Seq(Frame), NEW F \in SUBSET Frame, NEW r, Moved(q, r, F)
    PROVE  /\ r \in Seq(Frame)
           /\ \A k \in DOMAIN r : r[k] \in F \/ \E j \in DOMAIN q : r[k] = q[j]
<1>1. PICK s \in Seq(Frame) :
        /\ s = q \/ (q # <<>> /\ s = Tail(q))
        /\ r = s \/ \E f \in F : r = Append(s, f)
  BY DEF Moved
<1>2. ASSUME NEW k \in DOMAIN s
      PROVE  \E j \in DOMAIN q : s[k] = q[j]
  <2>1. CASE s = q
    BY <2>1
  <2>2. CASE q # <<>> /\ s = Tail(q)
    BY <2>2
  <2> QED BY <1>1, <2>1, <2>2
<1>3. CASE r = s
  BY <1>2, <1>3
<1>4. ASSUME NEW f \in F, r = Append(s, f)
      PROVE  /\ r \in Seq(Frame)
             /\ \A k \in DOMAIN r : r[k] \in F \/ \E j \in DOMAIN q : r[k] = q[j]
  <2>1. r \in Seq(Frame) /\ Len(r) = Len(s) + 1
    BY <1>4
  <2>2. ASSUME NEW k \in DOMAIN r
        PROVE  r[k] = f \/ (k \in DOMAIN s /\ r[k] = s[k])
    BY <1>4, <2>1
  <2> QED BY <1>2, <2>1, <2>2
<1> QED BY <1>1, <1>3, <1>4

\* The queues c are those of the links but for heads that have been taken.
Rest(c) ==
    /\ c \in [Link -> Seq(Frame)]
    /\ \A k \in Link : c[k] = chan[k] \/ (chan[k] # <<>> /\ c[k] = Tail(chan[k]))

\* So are those that Taken leaves, whether the head of l stays or not.
LEMMA TakenIsRest ==
    ASSUME ShapeInv, NEW l \in Link, chan[l] # <<>>, NEW keep \in BOOLEAN
    PROVE  Rest(Taken(l, keep))
<1>1. chan \in [Link -> Seq(Frame)]
  BY DEF ShapeInv, TypeOK
<1> QED BY <1>1 DEF Taken, Rest

\* What may come to a link when n sends m.
Sending(n, m, k) == IF k[1] = n THEN {m} ELSE {}

\* Taking frames off changes nothing about those that stay.
LEMMA RestKept ==
    ASSUME ShapeInv, Rest(chan')
    PROVE  /\ chan' \in [Link -> Seq(Frame)] /\ FrameShape'
           /\ \A k \in Link : Moved(chan[k], chan'[k], {})
<1>1. /\ chan \in [Link -> Seq(Frame)]
      /\ chan' \in [Link -> Seq(Frame)]
      /\ \A k \in Link : chan'[k] = chan[k] \/ (chan[k] # <<>> /\ chan'[k] = Tail(chan[k]))
  BY DEF ShapeInv, TypeOK, Rest
<1>2. ASSUME NEW k \in Link
      PROVE  Moved(chan[k], chan'[k], {})
  BY <1>1 DEF Moved
<1>3. ASSUME NEW k \in Link, NEW m \in Carried(k)'
      PROVE  m \in Carried(k)
  <2>1. \A j \in DOMAIN chan'[k] : \E i \in DOMAIN chan[k] : chan'[k][j] = chan[k][i]
    <3>1. chan[k] \in Seq(Frame)
      BY <1>1
    <3>2. CASE chan'[k] = chan[k]
      BY <3>2
    <3>3. CASE chan[k] # <<>> /\ chan'[k] = Tail(chan[k])
      BY <3>1, <3>3
    <3> QED BY <1>1, <3>2, <3>3
  <2> QED BY <1>3, <2>1 DEF Carried
<1> QED BY <1>1, <1>2, <1>3 DEF ShapeInv, FrameShape, Sound

\* So does sending a sound frame.
LEMMA SendKept ==
    ASSUME ShapeInv, NEW c, Rest(c), NEW n, NEW R, NEW f \in Frame,
           chan' = send_packet(c, n, R, f),
           \A k \in Link : k[1] = n => Sound(k, f)
    PROVE  /\ chan' \in [Link -> Seq(Frame)] /\ FrameShape'
           /\ \A k \in Link : Moved(chan[k], chan'[k], Sending(n, f, k))
<1>1. /\ chan \in [Link -> Seq(Frame)] /\ c \in [Link -> Seq(Frame)]
      /\ \A k \in Link : c[k] = chan[k] \/ (chan[k] # <<>> /\ c[k] = Tail(chan[k]))
  BY DEF ShapeInv, TypeOK, Rest
<1>2. \A k \in Link : \/ chan'[k] = c[k]
                      \/ k[1] = n /\ chan'[k] = Append(c[k], f)
  <2> SUFFICES ASSUME NEW k \in Link
               PROVE  chan'[k] = c[k] \/ (k[1] = n /\ chan'[k] = Append(c[k], f))
    BY Zenon
  <2>1. chan'[k] = IF k[1] = n /\ k[2] \in R /\ Len(c[k]) < QueueMax
                     THEN Append(c[k], f) ELSE c[k]
    BY Zenon DEF send_packet
  <2> QED BY <2>1, Zenon
<1>3. chan' \in [Link -> Seq(Frame)]
  BY <1>1 DEF send_packet
<1>4. ASSUME NEW k \in Link
      PROVE  Moved(chan[k], chan'[k], Sending(n, f, k))
  <2>1. c[k] \in Seq(Frame)
    BY <1>1
  <2>2. \/ chan'[k] = c[k]
        \/ \E g \in Sending(n, f, k) : chan'[k] = Append(c[k], g)
    BY <1>2 DEF Sending
  <2> QED BY <1>1, <2>1, <2>2 DEF Moved
<1>5. ASSUME NEW k \in Link, NEW m \in Carried(k)'
      PROVE  m \in Carried(k) \cup Sending(n, f, k)
  <2>1. Sending(n, f, k) \in SUBSET Frame
    BY DEF Sending
  <2>2. \A j \in DOMAIN chan'[k] : \/ chan'[k][j] \in Sending(n, f, k)
                                   \/ \E i \in DOMAIN chan[k] : chan'[k][j] = chan[k][i]
    BY <1>1, <1>4, <2>1, MovedFrames
  <2> QED BY <1>5, <2>2 DEF Carried
<1>6. FrameShape'
  BY <1>5 DEF ShapeInv, FrameShape, Sound, Sending
<1> QED BY <1>3, <1>4, <1>6

\* The frame that a receiver looks at, and what its table makes of it
\* (updatePathByFreshness).
LEMMA TableKept ==
    ASSUME ShapeInv, NEW l \in Link, NEW m \in Carried(l), m.type # "rerr",
           NEW c \in LinkCost[l], NEW r, r = Aged(m, c), r.orig # l[2],
           table' = Updated(l[2], l[1], r)
    PROVE  /\ table' \in [Node -> [Node -> path_sel_entry]]
           /\ HopsAreLinks' /\ PathShape'
           /\ \A x, y \in Node : x # l[2] \/ y # r.orig => table'[x][y] = table[x][y]
           /\ IF IsFresh(l[2], l[1], r)
                THEN table'[l[2]][r.orig] = PathTo(r.dsn, r.metric, r.hopcount, l[1])
                ELSE table'[l[2]][r.orig] = table[l[2]][r.orig]
           /\ HasPath(table'[l[2]][r.orig])
<1> DEFINE n == l[2]
           e == PathTo(r.dsn, r.metric, r.hopcount, l[1])
<1>1. /\ n \in Node /\ l[1] \in Node /\ l[1] # n /\ l = <<l[1], n>>
      /\ c \in Nat /\ c >= 1
  BY LinkEnds, CostType
<1>2. m \in Frame /\ Sound(l, m)
  BY DEF ShapeInv, TypeOK, FrameShape, Carried
<1>3. /\ r.orig = m.orig /\ r.orig \in Node /\ r.dsn \in Nat
      /\ r.metric = m.metric + c /\ r.hopcount = m.hopcount + 1
      /\ m.metric \in Nat /\ m.hopcount \in Nat
  BY <1>1, <1>2, AgedFrame DEF Sound, Frame
<1>4. /\ e \in path_sel_entry /\ HasPath(e) /\ e.nexthop = l[1]
      /\ e.hopcount = m.hopcount + 1 /\ e.metric = m.metric + c
  BY <1>1, <1>3, PathTableAssumption DEF PathTo, path_sel_entry, HasPath
<1>5. table \in [Node -> [Node -> path_sel_entry]]
  BY DEF ShapeInv, TypeOK
<1>6. CASE ~IsFresh(n, l[1], r)
  <2>1. table' = table
    BY <1>6 DEF Updated
  <2>2. HasPath(table[n][r.orig])
    BY <1>6 DEF IsFresh, Accepts
  <2> QED BY <1>5, <1>6, <2>1, <2>2 DEF ShapeInv, HopsAreLinks, PathShape
<1>7. CASE IsFresh(n, l[1], r)
  <2>1. table' = [table EXCEPT ![n] = [table[n] EXCEPT ![r.orig] = e]]
    BY <1>7 DEF Updated
  <2> HIDE DEF e
  <2>2. /\ table' \in [Node -> [Node -> path_sel_entry]]
        /\ table'[n][r.orig] = e
        /\ \A x, y \in Node : x # n \/ y # r.orig => table'[x][y] = table[x][y]
    BY <1>1, <1>3, <1>4, <1>5, <2>1
  <2>3. HopsAreLinks'
    <3> SUFFICES ASSUME NEW x \in Node, NEW y \in Node, HasPath(table'[x][y])
                 PROVE  <<table'[x][y].nexthop, x>> \in Link
      BY DEF HopsAreLinks
    <3>1. CASE x = n /\ y = r.orig
      BY <1>1, <1>4, <2>2, <3>1
    <3>2. CASE x # n \/ y # r.orig
      BY <2>2, <3>2 DEF ShapeInv, HopsAreLinks
    <3> QED BY <3>1, <3>2
  <2>4. PathShape'
    <3> SUFFICES ASSUME NEW x \in Node, NEW y \in Node, HasPath(table'[x][y])
                 PROVE  /\ x # y
                        /\ table'[x][y].hopcount = 1 <=> table'[x][y].nexthop = y
                        /\ table'[x][y].hopcount <= table'[x][y].metric
      BY DEF PathShape
    <3>1. CASE x = n /\ y = r.orig
      <4>1. m.hopcount = 0 <=> l[1] = m.orig
        BY <1>2 DEF Sound
      <4>2. m.hopcount <= m.metric
        BY <1>2 DEF Sound
      <4>3. e.hopcount = 1 <=> e.nexthop = r.orig
        BY <1>3, <1>4, <4>1
      <4>4. e.hopcount <= e.metric
        BY <1>1, <1>3, <1>4, <4>2
      <4> QED BY <2>2, <3>1, <4>3, <4>4
    <3>2. CASE x # n \/ y # r.orig
      BY <2>2, <3>2 DEF ShapeInv, PathShape
    <3> QED BY <3>1, <3>2
  <2> QED BY <1>4, <1>7, <2>2, <2>3, <2>4 DEF e
<1> QED BY <1>6, <1>7

-----------------------------------------------------------------------------
(* The shape of paths and frames *)

\* The history of events is a short list, and once a restart happened it stays.
LEMMA EventsKept ==
    ASSUME ShapeInv, (\E k : Event(k)) \/ UNCHANGED events
    PROVE  /\ events' \in Seq(Faults \cup {"request"}) /\ Len(events') <= MaxEvent
           /\ Happened("restart") => Happened("restart")'
<1>1. events \in Seq(Faults \cup {"request"}) /\ Len(events) <= MaxEvent
  BY DEF ShapeInv, TypeOK
<1>2. CASE UNCHANGED events
  BY <1>1, <1>2 DEF Happened
<1>3. ASSUME NEW k, Event(k)
      PROVE  /\ events' \in Seq(Faults \cup {"request"}) /\ Len(events') <= MaxEvent
             /\ Happened("restart") => Happened("restart")'
  <2>1. /\ k \in Faults \cup {"request"} /\ Len(events) < MaxEvent
        /\ events' = Append(events, k)
    BY <1>3 DEF Event
  <2>2. events' \in Seq(Faults \cup {"request"}) /\ Len(events') <= MaxEvent
    BY <1>1, <2>1, MeshAssumption
  <2>3. ASSUME NEW x \in DOMAIN events
        PROVE  x \in DOMAIN events' /\ events'[x] = events[x]
    BY <1>1, <2>1
  <2>4. Happened("restart") => Happened("restart")'
    BY <2>3 DEF Happened
  <2> QED BY <2>2, <2>4
<1> QED BY <1>2, <1>3

\* The invariant but for the history.
Shape ==
    /\ table \in [Node -> [Node -> path_sel_entry]]
    /\ seq \in [Node -> 1..MaxSeq]
    /\ chan \in [Link -> Seq(Frame)]
    /\ found \subseteq Node \X Dest
    /\ FrameShape /\ HopsAreLinks /\ PathShape

\* A step that only takes frames off keeps the shape.
LEMMA DropShape ==
    ASSUME ShapeInv, Rest(chan'), UNCHANGED <<table, seq, found>>
    PROVE  Shape'
<1>1. chan' \in [Link -> Seq(Frame)] /\ FrameShape'
  BY RestKept
<1>2. HopsAreLinks' /\ PathShape'
  BY DEF ShapeInv, HopsAreLinks, PathShape
<1> QED BY <1>1, <1>2 DEF ShapeInv, TypeOK, Shape

\* A request or reply of n is a sound frame on every link from n.
LEMMA OwnFrames ==
    ASSUME ShapeInv, NEW n \in Node, NEW d \in Dest
    PROVE  /\ rreq(n, d) \in Frame
           /\ \A k \in Link : k[1] = n => Sound(k, rreq(n, d))
           /\ \A src \in Node : rrep(n, src, d) \in Frame
           /\ \A src \in Node, k \in Link :
                k[1] = n /\ n \in Portal => Sound(k, rrep(n, src, d))
<1>1. seq[n] \in Nat
  BY MeshAssumption DEF ShapeInv, TypeOK
<1>2. rreq(n, d) \in Frame /\ \A src \in Node : rrep(n, src, d) \in Frame
  BY <1>1, MeshAssumption DEF rreq, rrep, Frame, Dest
<1>3. \A k \in Link : k[1] = n => Sound(k, rreq(n, d))
  BY MeshAssumption DEF rreq, Sound
<1>4. \A src \in Node, k \in Link :
        k[1] = n /\ n \in Portal => Sound(k, rrep(n, src, d))
  BY MeshAssumption DEF rrep, Sound
<1> QED BY <1>2, <1>3, <1>4

\* gen_rreq floods a sound frame.
LEMMA GenRreqShape ==
    ASSUME ShapeInv, NEW n \in Node, NEW d \in Dest, gen_rreq(n, d)
    PROVE  Shape'
<1>1. Rest(chan)
  BY DEF ShapeInv, TypeOK, Rest
<1>2. chan' \in [Link -> Seq(Frame)] /\ FrameShape'
  BY <1>1, OwnFrames, SendKept DEF gen_rreq
<1>3. seq' \in [Node -> 1..MaxSeq]
  BY MeshAssumption DEF gen_rreq, ShapeInv, TypeOK
<1>4. HopsAreLinks' /\ PathShape'
  BY DEF gen_rreq, ShapeInv, HopsAreLinks, PathShape
<1> QED BY <1>2, <1>3, <1>4 DEF gen_rreq, ShapeInv, TypeOK, Shape

\* So does gen_rerr.
LEMMA GenRerrShape ==
    ASSUME ShapeInv, NEW n \in Node, NEW d \in Node, NEW src \in Node, gen_rerr(n, d, src)
    PROVE  Shape'
<1>1. Rest(chan)
  BY DEF ShapeInv, TypeOK, Rest
<1>2. rerr(d, src) \in Frame /\ \A k \in Link : Sound(k, rerr(d, src))
  BY MeshAssumption DEF rerr, Frame, Dest, Sound
<1>3. chan' \in [Link -> Seq(Frame)] /\ FrameShape'
  BY <1>1, <1>2, SendKept DEF gen_rerr
<1>4. HopsAreLinks' /\ PathShape'
  BY DEF gen_rerr, ShapeInv, HopsAreLinks, PathShape
<1> QED BY <1>3, <1>4 DEF gen_rerr, ShapeInv, TypeOK, Shape

\* What a receiver may send on is sound: it is not the origin.
LEMMA ForwardedFrame ==
    ASSUME ShapeInv, NEW l \in Link, NEW m \in Carried(l), m.type # "rerr",
           NEW c \in LinkCost[l], NEW r, r = Aged(m, c)
    PROVE  /\ r \in Frame /\ r.type = m.type /\ r.orig = m.orig
           /\ r.dsn = m.dsn /\ r.metric = m.metric + c
           /\ r.to = m.to /\ r.about = m.about
           /\ r.type = "rrep" => r.orig \in Portal
           /\ r.orig # l[2] /\ r.ttl > 0 => \A k \in Link : k[1] = l[2] => Sound(k, r)
<1>1. m \in Frame /\ Sound(l, m) /\ c \in Nat /\ c >= 1
  BY CostType DEF ShapeInv, TypeOK, FrameShape, Carried
<1>2. /\ r \in Frame
      /\ r.type = m.type /\ r.orig = m.orig
      /\ r.dsn = m.dsn /\ r.metric = m.metric + c
      /\ r.hopcount = m.hopcount + 1 /\ r.ttl = m.ttl - 1
      /\ r.to = m.to /\ r.about = m.about
  BY <1>1, AgedFrame DEF Sound
<1>3. r.type = "rrep" => r.orig \in Portal
  BY <1>1, <1>2 DEF Sound
<1>4. ASSUME r.orig # l[2], r.ttl > 0, NEW k \in Link, k[1] = l[2]
      PROVE  Sound(k, r)
  <2>1. m.hopcount \in Nat /\ m.metric \in Nat /\ m.hopcount <= m.metric /\ r.ttl \in Nat
    BY <1>1, <1>2 DEF Sound, Frame
  <2>2. r.hopcount # 0 /\ r.hopcount <= r.metric /\ r.ttl >= 1
    BY <1>1, <1>2, <1>4, <2>1
  <2> QED BY <1>2, <1>3, <1>4, <2>2 DEF Sound
<1> QED BY <1>2, <1>3, <1>4

(***************************************************************************)
(* What a daemon makes of a frame comes down to three kinds of step.  It   *)
(* drops the frame; it takes a request or a reply, and may send the frame  *)
(* or, if it is a portal, an answer; or it takes an RERR.                  *)
(***************************************************************************)
Drops == Rest(chan') /\ UNCHANGED <<table, seq, found>>

Takes(l, m, c) ==
    LET n == l[2]
        r == Aged(m, c)
    IN
    /\ m.type # "rerr" /\ r.orig # n
    /\ m.type = "rreq" => IsFresh(n, l[1], r)
    /\ table' = Updated(n, l[1], r)
    /\ \E rest : /\ Rest(rest)
                 /\ \/ chan' = rest /\ UNCHANGED seq
                    \/ /\ r.ttl > 0 /\ UNCHANGED seq
                       /\ \E R : chan' = send_packet(rest, n, R, r)
                    \/ /\ n \in Portal /\ (r.to = n \/ is_my_stat(n, r.to))
                       /\ seq[n] < MaxSeq /\ seq' = [seq EXCEPT ![n] = @ + 1]
                       /\ \E R : chan' = send_packet(rest, n, R, rrep(n, r.orig, r.to))
    /\ found' = found \/ (m.type = "rrep" /\ found' = found \cup {<<n, r.about>>})

TakesError(l, m) ==
    /\ m.type = "rerr"
    /\ table' = [table EXCEPT ![l[2]] = [table[l[2]] EXCEPT ![m.orig] = NoEntry]]
    /\ \E rest : /\ Rest(rest)
                 /\ \/ chan' = rest
                    \/ \E R : chan' = send_packet(rest, l[2], R, m)
    /\ UNCHANGED <<seq, found>>

\* do_daemon makes one of these steps with the first frame of the queue.
LEMMA ReceiveKinds ==
    ASSUME ShapeInv, NEW l \in Link, Receive(l)
    PROVE  /\ chan[l] # <<>> /\ Head(chan[l]) \in Carried(l)
           /\ (\E k : Event(k)) \/ UNCHANGED events
           /\ \/ Drops
              \/ \E c \in LinkCost[l] : Takes(l, Head(chan[l]), c)
              \/ TakesError(l, Head(chan[l]))
<1> DEFINE m == Head(chan[l])
<1>1. chan[l] # <<>> /\ chan[l] \in Seq(Frame)
  BY DEF Receive, ShapeInv, TypeOK
<1>2. m \in Carried(l) /\ m \in Frame
  <2>1. 1 \in DOMAIN chan[l] /\ m = chan[l][1] /\ m \in Frame
    BY <1>1
  <2> QED BY <2>1 DEF Carried
<1>3. PICK keep \in BOOLEAN, c \in LinkCost[l] :
        /\ IF keep THEN Event("repeat") ELSE UNCHANGED events
        /\ \/ recv_rreq(l, Taken(l, keep), Aged(m, c))
           \/ recv_rrep(l, Taken(l, keep), Aged(m, c))
           \/ recv_rerr(l, Taken(l, keep), m)
  BY Zenon DEF Receive
<1>4. (\E k : Event(k)) \/ UNCHANGED events
  BY <1>3
<1> DEFINE r == Aged(m, c)
           rest == Taken(l, keep)
           n == l[2]
<1>5. Rest(rest)
  BY <1>1, TakenIsRest
<1>6. r.type = m.type
  BY DEF Aged
<1> HIDE DEF m, r, rest
<1>7. CASE recv_rreq(l, rest, r)
  <2>1. m.type # "rerr"
    BY <1>6, <1>7 DEF recv_rreq
  <2>2. ASSUME drop_rreq(l, rest, r)
        PROVE  Drops
    BY <1>5, <2>2 DEF drop_rreq, Drops
  <2>3. ASSUME reply_rreq(l, rest, r)
        PROVE  Takes(l, m, c)
    BY <1>5, <2>1, <2>3 DEF reply_rreq, Takes, r
  <2>4. ASSUME forward_rreq(l, rest, r)
        PROVE  Takes(l, m, c)
    BY <1>5, <2>1, <2>4 DEF forward_rreq, Takes, r
  <2> QED BY <1>1, <1>2, <1>4, <1>7, <2>2, <2>3, <2>4 DEF recv_rreq, m
<1>8. CASE recv_rrep(l, rest, r)
  <2>1. m.type = "rrep"
    BY <1>6, <1>8 DEF recv_rrep
  <2>2. CASE r.orig = n
    BY <1>1, <1>2, <1>4, <1>5, <1>8, <2>2 DEF recv_rrep, Drops, m
  <2>3. CASE r.orig # n
    <3>1. Takes(l, m, c)
      BY <1>5, <1>8, <2>1, <2>3 DEF recv_rrep, Takes, r
    <3> QED BY <1>1, <1>2, <1>4, <3>1 DEF m
  <2> QED BY <2>2, <2>3
<1>9. CASE recv_rerr(l, rest, m)
  <2>1. CASE table[n][m.orig].nexthop = l[1]
    <3>1. TakesError(l, m)
      BY <1>5, <1>9, <2>1 DEF recv_rerr, TakesError
    <3> QED BY <1>1, <1>2, <1>4, <3>1 DEF m
  <2>2. CASE table[n][m.orig].nexthop # l[1]
    BY <1>1, <1>2, <1>4, <1>5, <1>9, <2>2 DEF recv_rerr, Drops, m
  <2> QED BY <2>1, <2>2
<1> QED BY <1>3, <1>7, <1>8, <1>9 DEF m, r, rest

\* The frames that node n may send when it takes r.
Outgoing(n, r) ==
    {r} \cup {f \in {rrep(n, r.orig, r.to)} :
                n \in Portal /\ (r.to = n \/ is_my_stat(n, r.to))}

\* Taking a request or a reply sends sound frames, from the node that takes it.
LEMMA TakesQueues ==
    ASSUME ShapeInv, NEW l \in Link, NEW m \in Carried(l), NEW c \in LinkCost[l],
           Takes(l, m, c), NEW r, r = Aged(m, c)
    PROVE  /\ chan' \in [Link -> Seq(Frame)] /\ FrameShape'
           /\ Outgoing(l[2], r) \in SUBSET Frame
           /\ \A k \in Link : \/ Moved(chan[k], chan'[k], {})
                              \/ k[1] = l[2] /\ Moved(chan[k], chan'[k], Outgoing(l[2], r))
<1> DEFINE n == l[2]
           a == rrep(n, r.orig, r.to)
           answers == n \in Portal /\ (r.to = n \/ is_my_stat(n, r.to))
<1>1. n \in Node
  BY LinkEnds
<1>2. /\ m.type # "rerr" /\ r.orig # n
      /\ r \in Frame
      /\ r.ttl > 0 => \A k \in Link : k[1] = n => Sound(k, r)
  BY ForwardedFrame DEF Takes
<1>3. r.orig \in Node /\ r.to \in Dest
  BY <1>2 DEF Frame
<1>4. a \in Frame /\ (n \in Portal => \A k \in Link : k[1] = n => Sound(k, a))
  BY <1>1, <1>3, OwnFrames
<1>5. Outgoing(n, r) \in SUBSET Frame
  BY <1>2, <1>4 DEF Outgoing
<1> HIDE DEF n, a
<1>6. ASSUME NEW f \in Frame, NEW rest, Rest(rest), NEW R,
             chan' = send_packet(rest, n, R, f),
             \A k \in Link : k[1] = n => Sound(k, f), f \in Outgoing(n, r)
      PROVE  /\ chan' \in [Link -> Seq(Frame)] /\ FrameShape'
             /\ \A k \in Link : \/ Moved(chan[k], chan'[k], {})
                                \/ k[1] = n /\ Moved(chan[k], chan'[k], Outgoing(n, r))
  <2>1. /\ chan' \in [Link -> Seq(Frame)] /\ FrameShape'
        /\ \A k \in Link : Moved(chan[k], chan'[k], Sending(n, f, k))
    BY <1>6, SendKept
  <2>2. ASSUME NEW k \in Link
        PROVE  \/ Moved(chan[k], chan'[k], {})
               \/ k[1] = n /\ Moved(chan[k], chan'[k], Outgoing(n, r))
    <3>1. Moved(chan[k], chan'[k], Sending(n, f, k))
      BY <2>1
    <3>2. CASE k[1] = n
      <4>1. Sending(n, f, k) = {f}
        BY <3>2 DEF Sending
      <4>2. Moved(chan[k], chan'[k], Outgoing(n, r))
        BY <1>6, <3>1, <4>1 DEF Moved
      <4> QED BY <3>2, <4>2
    <3>3. CASE k[1] # n
      BY <3>1, <3>3 DEF Sending
    <3> QED BY <3>2, <3>3
  <2> QED BY <2>1, <2>2
<1>7. PICK rest : /\ Rest(rest)
                  /\ \/ chan' = rest
                     \/ r.ttl > 0 /\ \E R : chan' = send_packet(rest, n, R, r)
                     \/ answers /\ \E R : chan' = send_packet(rest, n, R, a)
  BY Zenon DEF Takes, n, a
<1>8. CASE chan' = rest
  BY <1>5, <1>7, <1>8, RestKept DEF n
<1>9. CASE r.ttl > 0 /\ \E R : chan' = send_packet(rest, n, R, r)
  <2>1. r \in Outgoing(n, r)
    BY DEF Outgoing
  <2> QED BY <1>2, <1>5, <1>6, <1>7, <1>9, <2>1 DEF n
<1>10. CASE answers /\ \E R : chan' = send_packet(rest, n, R, a)
  <2>1. a \in Outgoing(n, r)
    BY <1>10 DEF Outgoing, a
  <2> QED BY <1>4, <1>5, <1>6, <1>7, <1>10, <2>1 DEF n
<1> QED BY <1>7, <1>8, <1>9, <1>10

\* The kinds of step that receive a frame keep the shape.
LEMMA TakesShape ==
    ASSUME ShapeInv, NEW l \in Link, NEW m \in Carried(l), NEW c \in LinkCost[l],
           Takes(l, m, c)
    PROVE  Shape'
<1> DEFINE r == Aged(m, c)
<1>1. chan' \in [Link -> Seq(Frame)] /\ FrameShape'
  BY TakesQueues
<1>2. /\ m.type # "rerr" /\ r.orig # l[2] /\ table' = Updated(l[2], l[1], r)
  BY DEF Takes
<1>3. /\ table' \in [Node -> [Node -> path_sel_entry]]
      /\ HopsAreLinks' /\ PathShape'
  BY <1>2, TableKept
<1>4. seq' \in [Node -> 1..MaxSeq]
  <2>1. \/ UNCHANGED seq
        \/ seq[l[2]] < MaxSeq /\ seq' = [seq EXCEPT ![l[2]] = seq[l[2]] + 1]
    BY DEF Takes
  <2> QED BY <2>1, LinkEnds, MeshAssumption DEF ShapeInv, TypeOK
<1>5. found' \subseteq Node \X Dest
  <2>1. r.about \in Dest
    BY <1>2, ForwardedFrame DEF Frame
  <2>2. found' \subseteq found \cup {<<l[2], r.about>>}
    BY DEF Takes
  <2> QED BY <2>1, <2>2, LinkEnds DEF ShapeInv, TypeOK
<1> QED BY <1>1, <1>3, <1>4, <1>5 DEF Shape

LEMMA ErrorShape ==
    ASSUME ShapeInv, NEW l \in Link, NEW m \in Carried(l), TakesError(l, m)
    PROVE  Shape'
<1>1. m \in Frame /\ Sound(l, m) /\ l[2] \in Node
  BY LinkEnds DEF ShapeInv, TypeOK, FrameShape, Carried
<1>2. m.type = "rerr" /\ m.orig \in Node /\ \A k \in Link : Sound(k, m)
  BY <1>1 DEF TakesError, Sound, Frame
<1>3. chan' \in [Link -> Seq(Frame)] /\ FrameShape'
  <2>1. PICK rest : /\ Rest(rest)
                    /\ \/ chan' = rest
                       \/ \E R : chan' = send_packet(rest, l[2], R, m)
    BY DEF TakesError
  <2> QED BY <1>1, <1>2, <2>1, RestKept, SendKept
<1>4. NoEntry \in path_sel_entry /\ ~HasPath(NoEntry)
  BY DEF NoEntry, path_sel_entry, HasPath
<1>5. /\ table' \in [Node -> [Node -> path_sel_entry]]
      /\ \A x, y \in Node : table'[x][y] \in {table[x][y], NoEntry}
  BY <1>1, <1>2, <1>4 DEF ShapeInv, TypeOK, TakesError
<1>6. HopsAreLinks' /\ PathShape'
  <2>1. \A x, y \in Node : HasPath(table'[x][y]) => table'[x][y] = table[x][y]
    BY <1>4, <1>5
  <2> QED BY <2>1 DEF ShapeInv, HopsAreLinks, PathShape
<1> QED BY <1>3, <1>5, <1>6 DEF ShapeInv, TypeOK, Shape, TakesError

\* A node that restarts forgets its paths and what was on its way to it.
LEMMA RestartShape ==
    ASSUME ShapeInv, NEW n \in Node, Restart(n)
    PROVE  Shape'
<1>1. NoEntry \in path_sel_entry /\ ~HasPath(NoEntry)
  BY DEF NoEntry, path_sel_entry, HasPath
<1>2. /\ table' \in [Node -> [Node -> path_sel_entry]]
      /\ \A x, y \in Node : table'[x][y] \in {table[x][y], NoEntry}
  BY <1>1 DEF ShapeInv, TypeOK, Restart
<1>3. HopsAreLinks' /\ PathShape'
  <2>1. \A x, y \in Node : HasPath(table'[x][y]) => table'[x][y] = table[x][y]
    BY <1>1, <1>2
  <2> QED BY <2>1 DEF ShapeInv, HopsAreLinks, PathShape
<1>4. /\ chan' \in [Link -> Seq(Frame)]
      /\ \A k \in Link : chan'[k] = <<>> \/ chan'[k] = chan[k]
  BY DEF ShapeInv, TypeOK, Restart
<1>5. FrameShape'
  <2>1. ASSUME NEW k \in Link, NEW f \in Carried(k)'
        PROVE  f \in Carried(k)
    BY <1>4, <2>1 DEF Carried
  <2> QED BY <2>1 DEF ShapeInv, FrameShape, Sound
<1>6. seq' \in [Node -> 1..MaxSeq] /\ found' \subseteq Node \X Dest
  BY MeshAssumption DEF ShapeInv, TypeOK, Restart
<1> QED BY <1>2, <1>3, <1>4, <1>5, <1>6 DEF Shape

\* Losing a frame only takes it off.
LEMMA LoseDrops ==
    ASSUME ShapeInv, NEW l \in Link, Lose(l)
    PROVE  Drops
BY DEF Lose, Drops, Rest, ShapeInv, TypeOK

\* Every step but a restart adds at most an event of its own kind.
LEMMA StepEvents ==
    ASSUME ShapeInv, [Next]_vars
    PROVE  (\E k : Event(k)) \/ UNCHANGED events
<1>1. ASSUME NEW l \in Link, Receive(l)
      PROVE  (\E k : Event(k)) \/ UNCHANGED events
  BY <1>1, ReceiveKinds
<1> QED BY <1>1 DEF Next, gen_rreq, gen_rerr, Lose, Restart, vars

LEMMA InitShape == Init => ShapeInv
<1> SUFFICES ASSUME Init
             PROVE  ShapeInv
  OBVIOUS
<1>1. NoEntry \in path_sel_entry /\ ~HasPath(NoEntry)
  BY DEF NoEntry, path_sel_entry, HasPath
<1>2. /\ table \in [Node -> [Node -> path_sel_entry]]
      /\ \A x, y \in Node : ~HasPath(table[x][y])
  BY <1>1 DEF Init
<1>3. \A l \in Link : Carried(l) = {}
  BY DEF Init, Carried
<1>4. TypeOK
  <2>1. events \in Seq(Faults \cup {"request"}) /\ Len(events) <= MaxEvent
    BY MeshAssumption DEF Init
  <2>2. chan \in [Link -> Seq(Frame)]
    BY DEF Init
  <2> QED BY <1>2, <2>1, <2>2, MeshAssumption DEF Init, TypeOK
<1> QED BY <1>2, <1>3, <1>4 DEF ShapeInv, FrameShape, HopsAreLinks, PathShape

LEMMA NextShape == ShapeInv /\ [Next]_vars => ShapeInv'
<1> SUFFICES ASSUME ShapeInv, [Next]_vars
             PROVE  ShapeInv'
  OBVIOUS
<1>1. events' \in Seq(Faults \cup {"request"}) /\ Len(events') <= MaxEvent
  BY StepEvents, EventsKept
<1>2. Shape'
  <2>1. ASSUME NEW n \in Node, NEW d \in Dest, gen_rreq(n, d)
        PROVE  Shape'
    BY <2>1, GenRreqShape
  <2>2. ASSUME NEW n \in Node, NEW d \in Node, NEW src \in Node, gen_rerr(n, d, src)
        PROVE  Shape'
    BY <2>2, GenRerrShape
  <2>3. ASSUME NEW l \in Link, Receive(l)
        PROVE  Shape'
    BY <2>3, ReceiveKinds, DropShape, TakesShape, ErrorShape DEF Drops
  <2>4. ASSUME NEW l \in Link, Lose(l)
        PROVE  Shape'
    BY <2>4, LoseDrops, DropShape DEF Drops
  <2>5. ASSUME NEW n \in Node, Restart(n)
        PROVE  Shape'
    BY <2>5, RestartShape
  <2>6. CASE UNCHANGED vars
    <3>1. Rest(chan')
      BY <2>6 DEF vars, Rest, ShapeInv, TypeOK
    <3> QED BY <2>6, <3>1, DropShape DEF vars
  <2> QED BY <2>1, <2>2, <2>3, <2>4, <2>5, <2>6 DEF Next
<1> QED BY <1>1, <1>2 DEF Shape, ShapeInv, TypeOK

\* Type correctness: tables, sequence numbers and frames in queues are what they
\* should be; a frame is never sent with its ttl used up.
THEOREM TypeCorrect == Spec => []TypeOK
<1>1. ShapeInv => TypeOK
  BY DEF ShapeInv
<1> QED BY <1>1, InitShape, NextShape, PTL DEF Spec

\* Whatever is lost, repeated or restarted, no node has a path to itself, a path
\* of one hop leads to its destination, and a hop costs at least 1.
THEOREM PathsHaveShape == Spec => []PathShape
<1>1. ShapeInv => PathShape
  BY DEF ShapeInv
<1> QED BY <1>1, InitShape, NextShape, PTL DEF Spec

-----------------------------------------------------------------------------
(* No black holes *)

\* The frames of a link after a step.
LEMMA MovedCarried ==
    ASSUME ShapeInv, NEW k \in Link, NEW F \in SUBSET Frame,
           Moved(chan[k], chan'[k], F), NEW f \in Carried(k)'
    PROVE  f \in Carried(k) \cup F
<1>1. chan[k] \in Seq(Frame)
  BY DEF ShapeInv, TypeOK
<1>2. \A j \in DOMAIN chan'[k] : \/ chan'[k][j] \in F
                                \/ \E i \in DOMAIN chan[k] : chan'[k][j] = chan[k][i]
  BY <1>1, MovedFrames
<1> QED BY <1>2 DEF Carried

\* Without a restart no node ever sends an RERR: the node that a path leads to
\* has one too.
LEMMA NoRerr ==
    ASSUME ShapeInv, PathsHold, NEW n \in Node, NEW d \in Node, NEW src \in Node
    PROVE  ~gen_rerr(n, d, src)
<1> SUFFICES ASSUME gen_rerr(n, d, src)
             PROVE  FALSE
  OBVIOUS
<1>1. PICK p \in Node : table[p][d].nexthop = n
  BY DEF gen_rerr
<1>2. HasPath(table[p][d])
  BY <1>1, PathTableAssumption DEF HasPath
<1> QED BY <1>1, <1>2 DEF gen_rerr, PathsHold

\* Steps that leave the tables alone and put no new frame on a link, or one of
\* the sender's own.
LEMMA QuietPaths ==
    ASSUME ShapeInv, PathsHold, UNCHANGED <<table, found>>,
           NEW F, \A k \in Link : F[k] \in SUBSET Frame,
           \A k \in Link : Moved(chan[k], chan'[k], F[k]),
           \A k \in Link : \A f \in F[k] : f.type = "rreq" /\ k[1] = f.orig
    PROVE  PathsHold'
<1>1. NoGap'
  <2> SUFFICES ASSUME NEW k \in Link, NEW f \in Carried(k)'
               PROVE  /\ f.type # "rerr"
                      /\ k[1] = f.orig \/ HasPath(table'[k[1]][f.orig])
                      /\ f.type = "rrep" /\ f.about \in Node => f.about = f.orig
    BY DEF NoGap
  <2>1. f \in Carried(k) \cup F[k]
    BY MovedCarried
  <2>2. CASE f \in Carried(k)
    BY <2>2 DEF PathsHold, NoGap
  <2>3. CASE f \in F[k]
    BY <2>3
  <2> QED BY <2>1, <2>2, <2>3
<1> QED BY <1>1 DEF PathsHold

\* Taking a request or a reply enters a path whose next hop has one.
LEMMA TakesPaths ==
    ASSUME ShapeInv, PathsHold, NEW l \in Link, NEW m \in Carried(l),
           NEW c \in LinkCost[l], Takes(l, m, c)
    PROVE  PathsHold'
<1> DEFINE n == l[2]
           r == Aged(m, c)
<1>1. /\ n \in Node /\ l[1] \in Node
      /\ m.type # "rerr" /\ r.orig # n /\ table' = Updated(n, l[1], r)
  BY LinkEnds DEF Takes
<1>2. /\ r \in Frame /\ r.type = m.type /\ r.orig = m.orig /\ r.about = m.about
      /\ r.to = m.to /\ r.orig \in Node
  BY <1>1, ForwardedFrame DEF Frame
<1>3. /\ \A x, y \in Node : x # n \/ y # r.orig => table'[x][y] = table[x][y]
      /\ HasPath(table'[n][r.orig])
      /\ \/ table'[n][r.orig] = PathTo(r.dsn, r.metric, r.hopcount, l[1])
         \/ table'[n][r.orig] = table[n][r.orig]
  BY <1>1, TableKept
<1>4. /\ l[1] = r.orig \/ HasPath(table[l[1]][r.orig])
      /\ r.type = "rrep" /\ r.about \in Node => r.about = r.orig
  BY <1>2 DEF PathsHold, NoGap
<1>5. /\ Outgoing(n, r) \in SUBSET Frame
      /\ \A k \in Link : \/ Moved(chan[k], chan'[k], {})
                         \/ k[1] = n /\ Moved(chan[k], chan'[k], Outgoing(n, r))
  BY TakesQueues
<1> HIDE DEF n, r
<1>6. \A x, y \in Node : HasPath(table[x][y]) => HasPath(table'[x][y])
  BY <1>3
<1>7. NoGap'
  <2> SUFFICES ASSUME NEW k \in Link, NEW f \in Carried(k)'
               PROVE  /\ f.type # "rerr"
                      /\ k[1] = f.orig \/ HasPath(table'[k[1]][f.orig])
                      /\ f.type = "rrep" /\ f.about \in Node => f.about = f.orig
    BY DEF NoGap
  <2>1. f \in Carried(k) \/ (k[1] = n /\ f \in Outgoing(n, r))
    <3>1. {} \in SUBSET Frame
      OBVIOUS
    <3> QED BY <1>5, <3>1, MovedCarried
  <2>2. CASE f \in Carried(k)
    <3>1. k[1] \in Node /\ f.orig \in Node
      BY <2>2, LinkEnds, CarriedFrame DEF Frame
    <3> QED BY <1>6, <2>2, <3>1 DEF PathsHold, NoGap
  <2>3. CASE k[1] = n /\ f = r
    BY <1>1, <1>2, <1>3, <1>4, <2>3
  <2>4. CASE /\ k[1] = n /\ f = rrep(n, r.orig, r.to)
             /\ r.to = n \/ is_my_stat(n, r.to)
    <3>1. f.type = "rrep" /\ f.orig = n /\ f.about = r.to
      BY <2>4 DEF rrep
    <3>2. r.to \in Node => r.to = n
      BY <1>1, <2>4, MeshAssumption DEF is_my_stat
    <3> QED BY <2>4, <3>1, <3>2
  <2> QED BY <2>1, <2>2, <2>3, <2>4 DEF Outgoing
<1>8. ASSUME NEW x \in Node, NEW y \in Node, HasPath(table'[x][y])
      PROVE  table'[x][y].nexthop = y \/ HasPath(table'[table'[x][y].nexthop][y])
  <2>1. CASE table'[x][y] = table[x][y]
    <3>1. table[x][y].nexthop \in Node
      BY <1>8, <2>1 DEF ShapeInv, TypeOK, path_sel_entry, HasPath
    <3> QED BY <1>6, <1>8, <2>1, <3>1 DEF PathsHold
  <2>2. CASE x = n /\ y = r.orig /\ table'[x][y] # table[x][y]
    <3>1. table'[x][y].nexthop = l[1]
      BY <1>3, <2>2 DEF PathTo
    <3> QED BY <1>1, <1>2, <1>4, <1>6, <2>2, <3>1
  <2> QED BY <1>3, <1>8, <2>1, <2>2
<1>9. ASSUME NEW f \in found', f[2] \in Node
      PROVE  HasPath(table'[f[1]][f[2]])
  <2>1. CASE f \in found
    BY <1>6, <1>9, <2>1 DEF PathsHold, ShapeInv, TypeOK
  <2>2. CASE m.type = "rrep" /\ f = <<n, r.about>>
    BY <1>2, <1>3, <1>4, <1>9, <2>2
  <2>3. found' = found \/ (m.type = "rrep" /\ found' = found \cup {<<n, r.about>>})
    BY DEF Takes, n, r
  <2> QED BY <1>9, <2>1, <2>2, <2>3
<1> QED BY <1>7, <1>8, <1>9 DEF PathsHold

LEMMA InitPaths == Init => PathsHold
<1> SUFFICES ASSUME Init
             PROVE  PathsHold
  OBVIOUS
<1>1. \A l \in Link : Carried(l) = {}
  BY DEF Init, Carried
<1>2. \A x, y \in Node : ~HasPath(table[x][y])
  BY DEF Init, NoEntry, HasPath
<1> QED BY <1>1, <1>2 DEF PathsHold, NoGap, Init

\* Every step but a restart keeps the paths whole.
LEMMA NextPaths ==
    ASSUME ShapeInv, PathInv, [Next]_vars
    PROVE  PathInv'
<1> SUFFICES ASSUME ~Happened("restart")'
             PROVE  PathsHold'
  BY DEF PathInv
<1>1. PathsHold
  BY StepEvents, EventsKept DEF PathInv
<1>2. \A k \in Link : chan[k] \in Seq(Frame)
  BY DEF ShapeInv, TypeOK
<1>3. ASSUME NEW n \in Node, NEW d \in Dest, gen_rreq(n, d)
      PROVE  PathsHold'
  <2> DEFINE F == [k \in Link |-> Sending(n, rreq(n, d), k)]
  <2>1. rreq(n, d) \in Frame /\ Rest(chan) /\ \A k \in Link : k[1] = n => Sound(k, rreq(n, d))
    BY OwnFrames DEF ShapeInv, TypeOK, Rest
  <2>2. \A k \in Link : Moved(chan[k], chan'[k], F[k])
    BY <1>3, <2>1, SendKept DEF gen_rreq
  <2>3. \A k \in Link : F[k] \in SUBSET Frame
    BY <2>1 DEF Sending
  <2>4. \A k \in Link : \A f \in F[k] : f.type = "rreq" /\ k[1] = f.orig
    BY DEF Sending, rreq
  <2>5. UNCHANGED <<table, found>>
    BY <1>3 DEF gen_rreq
  <2> HIDE DEF F
  <2> QED BY <1>1, <2>2, <2>3, <2>4, <2>5, QuietPaths
<1>4. ASSUME Drops
      PROVE  PathsHold'
  <2> DEFINE F == [k \in Link |-> {}]
  <2>1. \A k \in Link : Moved(chan[k], chan'[k], F[k]) /\ F[k] = {}
    BY <1>4, RestKept DEF Drops
  <2>2. UNCHANGED <<table, found>>
    BY <1>4 DEF Drops
  <2> HIDE DEF F
  <2> QED BY <1>1, <2>1, <2>2, QuietPaths
<1>5. ASSUME NEW l \in Link, Receive(l)
      PROVE  PathsHold'
  <2>1. /\ Head(chan[l]) \in Carried(l)
        /\ \/ Drops
           \/ \E c \in LinkCost[l] : Takes(l, Head(chan[l]), c)
           \/ TakesError(l, Head(chan[l]))
    BY <1>5, ReceiveKinds
  <2>2. ~TakesError(l, Head(chan[l]))
    BY <1>1, <2>1 DEF PathsHold, NoGap, TakesError
  <2> QED BY <1>1, <1>4, <2>1, <2>2, TakesPaths
<1>6. ASSUME NEW l \in Link, Lose(l)
      PROVE  PathsHold'
  BY <1>4, <1>6, LoseDrops
<1>7. ASSUME NEW n \in Node, Restart(n)
      PROVE  FALSE
  <2>1. events \in Seq(Faults \cup {"request"}) /\ events' = Append(events, "restart")
    BY <1>7 DEF Restart, Event, ShapeInv, TypeOK
  <2>2. Len(events) + 1 \in DOMAIN events' /\ events'[Len(events) + 1] = "restart"
    BY <2>1
  <2> QED BY <2>2 DEF Happened
<1>8. CASE UNCHANGED vars
  <2>1. Drops
    BY <1>8 DEF vars, Drops, Rest, ShapeInv, TypeOK
  <2> QED BY <1>4, <2>1
<1> QED BY <1>1, <1>3, <1>5, <1>6, <1>7, <1>8, NoRerr DEF Next

\* As long as no node restarts, the next hop of a path is its destination or has a
\* path to it, and a node that was told of a path to a node has one.
THEOREM NoBlackHoles == Spec => []NoBlackHole
<1> DEFINE J == ShapeInv /\ PathInv
<1>1. Init => J
  BY InitShape, InitPaths DEF PathInv
<1>2. J /\ [Next]_vars => J'
  BY NextShape, NextPaths
<1>3. J => NoBlackHole
  BY DEF PathInv, PathsHold, NoBlackHole
<1> QED BY <1>1, <1>2, <1>3, PTL DEF Spec

-----------------------------------------------------------------------------
(* No loops *)

\* The order is one of pairs of numbers.
Keyed(x) == x.dsn \in Nat /\ x.metric \in Nat

LEMMA AsGoodTransitive ==
    ASSUME NEW x, NEW y, NEW z, Keyed(x), Keyed(y), Keyed(z), AsGood(x, y), AsGood(y, z)
    PROVE  AsGood(x, z)
BY DEF Keyed, AsGood

\* A link makes both dearer by the same amount.
LEMMA DearerMonotone ==
    ASSUME NEW x, NEW y, Keyed(x), Keyed(y), AsGood(x, y), NEW c \in Nat
    PROVE  /\ AsGood(Dearer(x, c), Dearer(y, c))
           /\ Keyed(Dearer(x, c)) /\ Keyed(Dearer(y, c))
BY DEF Keyed, AsGood, Dearer

\* Entries and frames are ordered.
LEMMA KeyedState ==
    ASSUME ShapeInv
    PROVE  /\ \A n, d \in Node : Keyed(table[n][d])
           /\ \A l \in Link : \A m \in Carried(l) : Keyed(m)
           /\ \A d \in Node : seq[d] \in Nat
<1>1. \A n, d \in Node : Keyed(table[n][d])
  BY DEF ShapeInv, TypeOK, path_sel_entry, Keyed
<1>2. \A l \in Link : \A m \in Carried(l) : Keyed(m)
  BY CarriedFrame DEF Frame, Keyed
<1>3. \A d \in Node : seq[d] \in Nat
  BY MeshAssumption DEF ShapeInv, TypeOK
<1> QED BY <1>1, <1>2, <1>3

\* Where metrics are steady the driver reports the one metric of the link.
LEMMA SteadyCost ==
    ASSUME SteadyMetrics, NEW l \in Link
    PROVE  /\ Cost(l) \in Nat /\ Cost(l) >= 1
           /\ \A c \in LinkCost[l] : c = Cost(l)
<1>1. PICK c \in LinkCost[l] : LinkCost[l] = {c}
  BY DEF SteadyMetrics
<1>2. Cost(l) \in LinkCost[l]
  BY <1>1 DEF Cost
<1> QED BY <1>1, <1>2, CostType

\* A queue stays ordered if what comes to its end is as good as all before.
LEMMA OrderedMoved ==
    ASSUME NEW q \in Seq(Frame), NEW F \in SUBSET Frame, NEW r, Moved(q, r, F),
           NEW d, Ordered(q, d),
           \A f \in F : f.orig = d =>
             \A i \in DOMAIN q : q[i].orig = d => AsGood(f, q[i])
    PROVE  Ordered(r, d)
<1>1. PICK s \in Seq(Frame) :
        /\ s = q \/ (q # <<>> /\ s = Tail(q))
        /\ r = s \/ \E f \in F : r = Append(s, f)
  BY DEF Moved
<1>2. /\ Ordered(s, d)
      /\ \A f \in F : f.orig = d =>
           \A i \in DOMAIN s : s[i].orig = d => AsGood(f, s[i])
  <2>1. CASE s = q
    BY <2>1
  <2>2. CASE q # <<>> /\ s = Tail(q)
    <3>1. \A i \in DOMAIN s : i \in Nat /\ i + 1 \in DOMAIN q /\ s[i] = q[i + 1]
      BY <2>2
    <3>2. Ordered(s, d)
      <4> SUFFICES ASSUME NEW i \in DOMAIN s, NEW j \in DOMAIN s,
                          i <= j, s[i].orig = d, s[j].orig = d
                   PROVE  AsGood(s[j], s[i])
        BY DEF Ordered
      <4>1. i + 1 <= j + 1
        BY <3>1
      <4> QED BY <3>1, <4>1 DEF Ordered
    <3> QED BY <3>1, <3>2
  <2> QED BY <1>1, <2>1, <2>2
<1>3. CASE r = s
  BY <1>2, <1>3
<1>4. ASSUME NEW f \in F, r = Append(s, f)
      PROVE  Ordered(r, d)
  <2>1. /\ DOMAIN r = 1..(Len(s) + 1) /\ DOMAIN s = 1..Len(s) /\ Len(s) \in Nat
        /\ r[Len(s) + 1] = f
        /\ \A i \in DOMAIN s : r[i] = s[i]
    BY <1>4
  <2> SUFFICES ASSUME NEW i \in DOMAIN r, NEW j \in DOMAIN r,
                      i <= j, r[i].orig = d, r[j].orig = d
               PROVE  AsGood(r[j], r[i])
    BY DEF Ordered
  <2>2. CASE j \in DOMAIN s
    BY <1>2, <2>1, <2>2 DEF Ordered
  <2>3. CASE j = Len(s) + 1 /\ i \in DOMAIN s
    BY <1>2, <2>1, <2>3
  <2>4. CASE j = Len(s) + 1 /\ i = Len(s) + 1
    <3>1. f.dsn \in Nat /\ f.metric \in Nat
      BY DEF Frame
    <3> QED BY <2>1, <2>4, <3>1 DEF AsGood
  <2> QED BY <2>1, <2>2, <2>3, <2>4
<1> QED BY <1>1, <1>3, <1>4

\* A step that brings no request of d and enters no path to d changes nothing in
\* the order towards d.
LEMMA Elsewhere ==
    ASSUME ShapeInv, NEW d \in Node, Toward(d),
           \A x \in Node : table'[x][d] = table[x][d],
           seq'[d] \in Nat, seq'[d] >= seq[d],
           NEW F, \A k \in Link : F[k] \in SUBSET Frame,
           \A k \in Link : Moved(chan[k], chan'[k], F[k]),
           \A k \in Link : \A f \in F[k] : f.orig # d
    PROVE  Toward(d)'
<1>1. \A k \in Link : chan[k] \in Seq(Frame) /\ k[1] \in Node
  BY LinkEnds DEF ShapeInv, TypeOK
<1>2. \A k \in Link : Ordered(chan'[k], d)
  BY <1>1, OrderedMoved DEF Toward
<1>3. ASSUME NEW k \in Link, NEW f \in Carried(k)', f.orig = d
      PROVE  f \in Carried(k)
  BY <1>3, MovedCarried
<1>4. ASSUME NEW k \in Link, NEW f \in Carried(k)', f.orig = d
      PROVE  SentFrom(k, f, d)'
  <2>1. SentFrom(k, f, d) /\ Keyed(f) /\ seq[d] \in Nat
    BY <1>3, <1>4, KeyedState DEF Toward
  <2>2. f.dsn < seq'[d]
    BY <2>1 DEF SentFrom, Keyed
  <2> QED BY <1>1, <2>1, <2>2 DEF SentFrom
<1>5. ASSUME NEW n \in Node
      PROVE  Downhill(n, d)'
  <2> SUFFICES ASSUME HasPath(table[n][d])
               PROVE  Downhill(n, d)'
    BY DEF Downhill
  <2> DEFINE q == table[n][d].nexthop
             l == <<q, n>>
  <2>1. l \in Link /\ q \in Node
    BY LinkEnds DEF ShapeInv, HopsAreLinks
  <2>2. /\ table[n][d].dsn < seq[d]
        /\ \A m \in Carried(l) : m.orig = d => AsGood(Dearer(m, Cost(l)), table[n][d])
        /\ q # d => AsGood(Dearer(table[q][d], Cost(l)), table[n][d])
    BY DEF Toward, Downhill
  <2>3. table[n][d].dsn < seq'[d]
    BY <2>2, KeyedState DEF Keyed
  <2>4. \A m \in Carried(l)' : m.orig = d => AsGood(Dearer(m, Cost(l)), table'[n][d])
    BY <1>3, <2>1, <2>2
  <2>5. table'[n][d] = table[n][d] /\ table'[q][d] = table[q][d]
    BY <2>1
  <2> QED BY <2>2, <2>3, <2>4, <2>5 DEF Downhill, Cost
<1> QED BY <1>2, <1>4, <1>5 DEF Toward

\* A new request of d is newer than all that is known of d.
LEMMA RequestToward ==
    ASSUME ShapeInv, NEW d \in Node, Toward(d), NEW x \in Dest, gen_rreq(d, x)
    PROVE  Toward(d)'
<1> DEFINE f == rreq(d, x)
<1>1. /\ f \in Frame /\ f.orig = d /\ f.dsn = seq[d] /\ f.metric = 0
      /\ seq[d] \in Nat /\ seq'[d] = seq[d] + 1
      /\ UNCHANGED table
  <2>1. f \in Frame /\ seq[d] \in Nat
    BY OwnFrames, KeyedState
  <2>2. seq'[d] = seq[d] + 1 /\ UNCHANGED table
    BY DEF gen_rreq, ShapeInv, TypeOK
  <2> QED BY <2>1, <2>2 DEF rreq
<1>2. \A k \in Link : Moved(chan[k], chan'[k], Sending(d, f, k))
  <2>1. Rest(chan) /\ \A k \in Link : k[1] = d => Sound(k, f)
    BY OwnFrames DEF ShapeInv, TypeOK, Rest
  <2> QED BY <1>1, <2>1, SendKept DEF gen_rreq
<1> HIDE DEF f
<1>3. \A k \in Link : Sending(d, f, k) \in SUBSET Frame
  BY <1>1 DEF Sending
<1>4. ASSUME NEW k \in Link, NEW g \in Carried(k), g.orig = d
      PROVE  AsGood(f, g) /\ g.dsn < seq'[d]
  BY <1>1, <1>4, KeyedState DEF Toward, SentFrom, AsGood, Keyed
<1>5. ASSUME NEW k \in Link
      PROVE  Ordered(chan'[k], d)
  <2>1. chan[k] \in Seq(Frame) /\ \A i \in DOMAIN chan[k] : chan[k][i] \in Carried(k)
    BY DEF ShapeInv, TypeOK, Carried
  <2>2. \A g \in Sending(d, f, k) : g = f
    BY DEF Sending
  <2> QED BY <1>2, <1>3, <1>4, <2>1, <2>2, OrderedMoved DEF Toward
<1>6. ASSUME NEW k \in Link, NEW g \in Carried(k)'
      PROVE  g \in Carried(k) \/ (k[1] = d /\ g = f)
  <2>1. g \in Carried(k) \cup Sending(d, f, k)
    BY <1>2, <1>3, MovedCarried
  <2> QED BY <2>1 DEF Sending
<1>7. ASSUME NEW k \in Link, NEW g \in Carried(k)', g.orig = d
      PROVE  SentFrom(k, g, d)'
  <2>1. CASE g \in Carried(k)
    BY <1>1, <1>4, <1>7, <2>1 DEF Toward, SentFrom
  <2>2. CASE k[1] = d /\ g = f
    BY <1>1, <2>2 DEF SentFrom
  <2> QED BY <1>6, <1>7, <2>1, <2>2
<1>8. ASSUME NEW n \in Node
      PROVE  Downhill(n, d)'
  <2> SUFFICES ASSUME HasPath(table[n][d])
               PROVE  Downhill(n, d)'
    BY <1>1 DEF Downhill
  <2> PICK q : q = table[n][d].nexthop
    OBVIOUS
  <2> DEFINE l == <<q, n>>
  <2>1. l \in Link
    BY DEF ShapeInv, HopsAreLinks
  <2>2. /\ table[n][d].dsn < seq[d] /\ Keyed(table[n][d])
        /\ \A m \in Carried(l) : m.orig = d => AsGood(Dearer(m, Cost(l)), table[n][d])
        /\ q # d => AsGood(Dearer(table[q][d], Cost(l)), table[n][d])
    BY KeyedState DEF Toward, Downhill
  <2>3. table[n][d].dsn < seq'[d]
    BY <1>1, <2>2 DEF Keyed
  <2>4. AsGood(Dearer(f, Cost(l)), table[n][d])
    BY <1>1, <2>2 DEF AsGood, Dearer, Keyed
  <2>5. \A m \in Carried(l)' : m.orig = d => AsGood(Dearer(m, Cost(l)), table[n][d])
    BY <1>6, <2>1, <2>2, <2>4
  <2> QED BY <1>1, <2>2, <2>3, <2>5 DEF Downhill, Cost
<1> QED BY <1>5, <1>7, <1>8 DEF Toward

\* A request of d that a node takes is as good as what the node had, and so is
\* what it sends on (updatePathByFreshness).
LEMMA TakesToward ==
    ASSUME ShapeInv, PathsHold, SteadyMetrics, NEW d \in Node \ Portal, Toward(d),
           NEW l \in Link, chan[l] # <<>>, NEW m \in Carried(l), m = Head(chan[l]),
           NEW c \in LinkCost[l], Takes(l, m, c), m.orig = d
    PROVE  Toward(d)'
<1> DEFINE n == l[2]
           p == l[1]
           r == Aged(m, c)
           old == table[n][d]
           e == PathTo(r.dsn, r.metric, r.hopcount, p)
<1>1. /\ n \in Node /\ p \in Node /\ n # p /\ l = <<p, n>>
      /\ m.type # "rerr" /\ r.orig # n /\ table' = Updated(n, p, r)
  BY LinkEnds DEF Takes
<1>2. /\ r \in Frame /\ r.type = m.type /\ r.orig = d
      /\ r.dsn = m.dsn /\ r.metric = m.metric + c
      /\ m.type # "rrep"
  BY <1>1, ForwardedFrame
<1>3. /\ Keyed(m) /\ Keyed(r) /\ Keyed(old) /\ seq[d] \in Nat
      /\ Cost(l) \in Nat /\ c = Cost(l)
  <2>1. Keyed(m) /\ Keyed(old) /\ seq[d] \in Nat
    BY <1>1, KeyedState
  <2>2. Keyed(r)
    BY <1>2 DEF Frame, Keyed
  <2> QED BY <2>1, <2>2, SteadyCost
<1>4. IsFresh(n, p, r)
  <2>1. m.type = "rreq"
    BY <1>1, <1>2, CarriedFrame DEF Frame
  <2> QED BY <2>1 DEF Takes
<1>5. /\ table'[n][d] = e
      /\ \A x \in Node \ {n} : table'[x][d] = table[x][d]
  BY <1>1, <1>2, <1>4, TableKept
<1>6. /\ e.nexthop = p /\ e.dsn = r.dsn /\ e.metric = r.metric
      /\ Keyed(e) /\ HasPath(e)
  BY <1>1, <1>3, PathTableAssumption DEF PathTo, Keyed, HasPath
<1>7. seq'[d] = seq[d]
  <2>1. seq' = seq \/ seq' = [seq EXCEPT ![n] = seq[n] + 1]
    BY DEF Takes
  <2> QED BY <1>1, <1>2, <2>1 DEF ShapeInv, TypeOK
<1>8. ASSUME HasPath(old)
      PROVE  AsGood(e, old)
  <2>1. old.dsn <= r.dsn /\ (p = old.nexthop \/ betterPath(r.metric, r.hopcount, old.metric, old.hopcount))
    BY <1>2, <1>4, <1>8 DEF IsFresh, Accepts
  <2>2. CASE p = old.nexthop
    <3>1. AsGood(Dearer(m, Cost(l)), old)
      BY <1>1, <1>8, <2>2 DEF Toward, Downhill
    <3> QED BY <1>2, <1>3, <1>6, <3>1 DEF AsGood, Dearer
  <2>3. CASE betterPath(r.metric, r.hopcount, old.metric, old.hopcount)
    <3>1. r.metric <= old.metric
      BY <1>3, <2>3, PathTableAssumption DEF betterPath, Keyed
    <3> QED BY <1>3, <1>6, <2>1, <3>1 DEF AsGood, Keyed
  <2> QED BY <2>1, <2>2, <2>3
<1>9. /\ Outgoing(n, r) \in SUBSET Frame
      /\ \A k \in Link : \/ Moved(chan[k], chan'[k], {})
                         \/ k[1] = n /\ Moved(chan[k], chan'[k], Outgoing(n, r))
  BY TakesQueues
<1>10. \A f \in Outgoing(n, r) : f.orig = d => f = r
  BY <1>1, <1>2 DEF Outgoing, rrep
<1> HIDE DEF n, p, r, old, e
<1>11. ASSUME NEW k \in Link, k[1] = n, NEW f \in Carried(k), f.orig = d
       PROVE  HasPath(old) /\ AsGood(e, f)
  <2>1. SentFrom(k, f, d) /\ Keyed(f) /\ n # d
    BY <1>1, <1>2, <1>11, KeyedState DEF Toward
  <2>2. HasPath(old)
    BY <1>1, <1>2, <1>11 DEF PathsHold, NoGap, old
  <2>3. AsGood(old, f)
    BY <1>11, <2>1 DEF SentFrom, old
  <2> QED BY <1>3, <1>6, <1>8, <2>1, <2>2, <2>3, AsGoodTransitive
<1>12. ASSUME NEW k \in Link
       PROVE  Ordered(chan'[k], d)
  <2>1. chan[k] \in Seq(Frame) /\ \A i \in DOMAIN chan[k] : chan[k][i] \in Carried(k)
    BY DEF ShapeInv, TypeOK, Carried
  <2>2. CASE Moved(chan[k], chan'[k], {})
    <3>1. {} \in SUBSET Frame
      OBVIOUS
    <3> QED BY <2>1, <2>2, <3>1, OrderedMoved DEF Toward
  <2>3. CASE k[1] = n /\ Moved(chan[k], chan'[k], Outgoing(n, r))
    <3>1. ASSUME NEW f \in Outgoing(n, r), f.orig = d,
                 NEW i \in DOMAIN chan[k], chan[k][i].orig = d
          PROVE  AsGood(f, chan[k][i])
      <4>1. f = r /\ AsGood(e, chan[k][i])
        BY <1>10, <1>11, <2>1, <2>3, <3>1
      <4> QED BY <1>6, <4>1 DEF AsGood
    <3> QED BY <1>9, <2>1, <2>3, <3>1, OrderedMoved DEF Toward
  <2> QED BY <1>9, <2>2, <2>3
<1>13. ASSUME NEW k \in Link, NEW f \in Carried(k)', f.orig = d
       PROVE  f \in Carried(k) \/ (k[1] = n /\ f = r)
  <2>1. {} \in SUBSET Frame
    OBVIOUS
  <2> QED BY <1>9, <1>10, <1>13, <2>1, MovedCarried
<1>14. ASSUME NEW k \in Link, NEW f \in Carried(k)', f.orig = d
       PROVE  SentFrom(k, f, d)'
  <2>1. k[1] \in Node
    BY LinkEnds
  <2>2. SentFrom(l, m, d)
    BY DEF Toward
  <2>3. CASE f \in Carried(k) /\ k[1] # n
    BY <1>5, <1>7, <1>14, <2>1, <2>3 DEF Toward, SentFrom
  <2>4. CASE f \in Carried(k) /\ k[1] = n
    BY <1>1, <1>2, <1>5, <1>7, <1>11, <1>14, <2>4 DEF Toward, SentFrom
  <2>5. CASE k[1] = n /\ f = r
    <3>1. f.dsn < seq[d]
      BY <1>2, <2>2, <2>5 DEF SentFrom
    <3>2. AsGood(e, f)
      BY <1>6, <2>5 DEF AsGood, Keyed
    <3> QED BY <1>1, <1>2, <1>5, <1>7, <2>5, <3>1, <3>2 DEF SentFrom
  <2> QED BY <1>13, <1>14, <2>3, <2>4, <2>5
<1>15. Downhill(n, d)'
  <2>1. SentFrom(l, m, d)
    BY DEF Toward
  <2>2. e.dsn < seq'[d]
    BY <1>2, <1>6, <1>7, <2>1 DEF SentFrom
  <2>3. ASSUME NEW f \in Carried(l)', f.orig = d
        PROVE  AsGood(Dearer(f, Cost(l)), e)
    <3>1. f \in Carried(l) /\ Keyed(f)
      BY <1>1, <1>13, <2>3, KeyedState DEF p
    <3>2. PICK j \in DOMAIN chan[l] : f = chan[l][j]
      BY <3>1 DEF Carried
    <3>3. 1 \in DOMAIN chan[l] /\ m = chan[l][1] /\ 1 <= j
      BY <3>2 DEF ShapeInv, TypeOK
    <3>4. AsGood(f, m)
      BY <2>3, <3>2, <3>3 DEF Toward, Ordered
    <3>5. AsGood(Dearer(f, Cost(l)), Dearer(m, Cost(l)))
      BY <1>3, <3>1, <3>4, DearerMonotone
    <3> QED BY <1>2, <1>3, <1>6, <3>5 DEF AsGood, Dearer
  <2>4. p # d => AsGood(Dearer(table'[p][d], Cost(l)), e)
    <3> SUFFICES ASSUME p # d
                 PROVE  AsGood(Dearer(table[p][d], Cost(l)), e)
      BY <1>1, <1>5
    <3>1. AsGood(table[p][d], m) /\ Keyed(table[p][d])
      BY <1>1, <2>1, KeyedState DEF SentFrom, p
    <3>2. AsGood(Dearer(table[p][d], Cost(l)), Dearer(m, Cost(l)))
      BY <1>3, <3>1, DearerMonotone
    <3> QED BY <1>2, <1>3, <1>6, <3>2 DEF AsGood, Dearer
  <2> QED BY <1>1, <1>5, <1>6, <2>2, <2>3, <2>4 DEF Downhill, Cost
<1>16. ASSUME NEW x \in Node, x # n
       PROVE  Downhill(x, d)'
  <2>1. table'[x][d] = table[x][d]
    BY <1>5, <1>16
  <2> SUFFICES ASSUME HasPath(table[x][d])
               PROVE  Downhill(x, d)'
    BY <2>1 DEF Downhill
  <2> PICK q, t : t = table[x][d] /\ q = t.nexthop
    OBVIOUS
  <2> DEFINE k == <<q, x>>
  <2>2. k \in Link /\ q \in Node /\ Keyed(t) /\ Cost(k) \in Nat
    BY LinkEnds, KeyedState, SteadyCost DEF ShapeInv, HopsAreLinks
  <2>3. /\ t.dsn < seq[d]
        /\ \A f \in Carried(k) : f.orig = d => AsGood(Dearer(f, Cost(k)), t)
        /\ q # d => AsGood(Dearer(table[q][d], Cost(k)), t)
    BY DEF Toward, Downhill
  <2>4. ASSUME q = n
        PROVE  AsGood(Dearer(e, Cost(k)), t) /\ AsGood(Dearer(r, Cost(k)), t)
    <3>1. n # d /\ AsGood(Dearer(old, Cost(k)), t)
      BY <1>1, <1>2, <2>3, <2>4 DEF old
    <3>2. HasPath(old)
      BY <2>4, <3>1 DEF PathsHold, old
    <3>3. /\ AsGood(Dearer(e, Cost(k)), Dearer(old, Cost(k)))
          /\ Keyed(Dearer(e, Cost(k))) /\ Keyed(Dearer(old, Cost(k)))
      BY <1>3, <1>6, <1>8, <2>2, <3>2, DearerMonotone
    <3>4. AsGood(Dearer(e, Cost(k)), t)
      BY <2>2, <3>1, <3>3, AsGoodTransitive
    <3> QED BY <1>6, <3>4 DEF AsGood, Dearer
  <2> HIDE DEF k
  <2>5. \A f \in Carried(k)' : f.orig = d => AsGood(Dearer(f, Cost(k)), t)
    <3>1. k[1] = q
      BY DEF k
    <3> QED BY <1>13, <2>2, <2>3, <2>4, <3>1
  <2>6. q # d => AsGood(Dearer(table'[q][d], Cost(k)), t)
    BY <1>5, <2>2, <2>3, <2>4
  <2> QED BY <1>7, <2>1, <2>3, <2>5, <2>6 DEF Downhill, Cost, k
<1> QED BY <1>12, <1>14, <1>15, <1>16 DEF Toward

LEMMA InitLoop == Init => LoopInv
<1> SUFFICES ASSUME Init, NEW d \in Node
             PROVE  Toward(d)
  BY DEF LoopInv
<1>1. \A l \in Link : chan[l] = <<>>
  BY DEF Init
<1>2. \A n \in Node : ~HasPath(table[n][d])
  BY DEF Init, NoEntry, HasPath
<1> QED BY <1>1, <1>2 DEF Toward, Ordered, Carried, Downhill

\* Every step but a restart keeps the order towards every node that is no portal.
LEMMA NextLoop ==
    ASSUME IInv, [Next]_vars
    PROVE  LoopInv'
<1> SUFFICES ASSUME SteadyMetrics, ~Happened("restart")', NEW d \in Node \ Portal
             PROVE  Toward(d)'
  BY DEF LoopInv, SteadyMetrics
<1>1. /\ ShapeInv /\ PathsHold /\ Toward(d)
      /\ ~Happened("restart")
  BY StepEvents, EventsKept DEF IInv, PathInv, LoopInv
<1>2. seq[d] \in Nat /\ seq \in [Node -> 1..MaxSeq]
  BY <1>1, KeyedState DEF ShapeInv, TypeOK
<1>3. ASSUME Drops
      PROVE  Toward(d)'
  <2> DEFINE F == [k \in Link |-> {}]
  <2>1. \A k \in Link : Moved(chan[k], chan'[k], F[k]) /\ F[k] = {}
    BY <1>1, <1>3, RestKept DEF Drops
  <2>2. UNCHANGED <<table, seq>>
    BY <1>3 DEF Drops
  <2> HIDE DEF F
  <2> QED BY <1>1, <1>2, <2>1, <2>2, Elsewhere
<1>4. ASSUME NEW n \in Node, NEW x \in Dest, gen_rreq(n, x)
      PROVE  Toward(d)'
  <2>1. CASE n = d
    BY <1>1, <1>4, <2>1, RequestToward
  <2>2. CASE n # d
    <3> DEFINE F == [k \in Link |-> Sending(n, rreq(n, x), k)]
    <3>1. /\ rreq(n, x) \in Frame /\ Rest(chan)
          /\ \A k \in Link : k[1] = n => Sound(k, rreq(n, x))
      BY <1>1, OwnFrames DEF ShapeInv, TypeOK, Rest
    <3>2. \A k \in Link : Moved(chan[k], chan'[k], F[k])
      BY <1>1, <1>4, <3>1, SendKept DEF gen_rreq
    <3>3. \A k \in Link : F[k] \in SUBSET Frame /\ \A f \in F[k] : f.orig # d
      BY <2>2, <3>1 DEF Sending, rreq
    <3>4. seq'[d] = seq[d] /\ UNCHANGED table
      BY <1>2, <1>4, <2>2 DEF gen_rreq
    <3> HIDE DEF F
    <3> QED BY <1>1, <1>2, <3>2, <3>3, <3>4, Elsewhere
  <2> QED BY <2>1, <2>2
<1>5. ASSUME NEW l \in Link, chan[l] # <<>>, NEW m \in Carried(l), m = Head(chan[l]),
             NEW c \in LinkCost[l], Takes(l, m, c)
      PROVE  Toward(d)'
  <2>1. CASE m.orig = d
    BY <1>1, <1>5, <2>1, TakesToward
  <2>2. CASE m.orig # d
    <3> DEFINE n == l[2]
               r == Aged(m, c)
               F == [k \in Link |-> IF Moved(chan[k], chan'[k], {}) THEN {}
                                    ELSE Outgoing(n, r)]
    <3>1. /\ n \in Node
          /\ m.type # "rerr" /\ r.orig # n /\ table' = Updated(n, l[1], r)
      BY <1>5, LinkEnds DEF Takes
    <3>2. r.orig = m.orig
      BY <1>1, <3>1, ForwardedFrame
    <3>3. \A x \in Node : table'[x][d] = table[x][d]
      BY <1>1, <2>2, <3>1, <3>2, TableKept
    <3>4. seq'[d] \in Nat /\ seq'[d] >= seq[d]
      <4>1. seq' = seq \/ seq' = [seq EXCEPT ![n] = seq[n] + 1]
        BY <1>5 DEF Takes
      <4> QED BY <1>2, <3>1, <4>1, MeshAssumption
    <3>5. /\ Outgoing(n, r) \in SUBSET Frame
          /\ \A k \in Link : \/ Moved(chan[k], chan'[k], {})
                             \/ Moved(chan[k], chan'[k], Outgoing(n, r))
      BY <1>1, <1>5, TakesQueues
    <3>6. \A f \in Outgoing(n, r) : f.orig # d
      BY <2>2, <3>2 DEF Outgoing, rrep
    <3>7. \A k \in Link : /\ F[k] \in SUBSET Frame /\ Moved(chan[k], chan'[k], F[k])
                         /\ \A f \in F[k] : f.orig # d
      BY <3>5, <3>6
    <3> HIDE DEF F
    <3> QED BY <1>1, <3>3, <3>4, <3>7, Elsewhere
  <2> QED BY <2>1, <2>2
<1>6. ASSUME NEW l \in Link, Receive(l)
      PROVE  Toward(d)'
  <2>1. /\ chan[l] # <<>> /\ Head(chan[l]) \in Carried(l)
        /\ \/ Drops
           \/ \E c \in LinkCost[l] : Takes(l, Head(chan[l]), c)
           \/ TakesError(l, Head(chan[l]))
    BY <1>1, <1>6, ReceiveKinds
  <2>2. ~TakesError(l, Head(chan[l]))
    BY <1>1, <2>1 DEF PathsHold, NoGap, TakesError
  <2> QED BY <1>3, <1>5, <2>1, <2>2
<1>7. ASSUME NEW l \in Link, Lose(l)
      PROVE  Toward(d)'
  BY <1>1, <1>3, <1>7, LoseDrops
<1>8. ASSUME NEW n \in Node, Restart(n)
      PROVE  FALSE
  <2>1. events \in Seq(Faults \cup {"request"}) /\ events' = Append(events, "restart")
    BY <1>1, <1>8 DEF Restart, Event, ShapeInv, TypeOK
  <2>2. Len(events) + 1 \in DOMAIN events' /\ events'[Len(events) + 1] = "restart"
    BY <2>1
  <2> QED BY <2>2 DEF Happened
<1>9. CASE UNCHANGED vars
  <2>1. Drops
    BY <1>1, <1>9 DEF vars, Drops, Rest, ShapeInv, TypeOK
  <2> QED BY <1>3, <2>1
<1> QED BY <1>1, <1>4, <1>6, <1>7, <1>8, <1>9, NoRerr DEF Next

\* Paths that are as good at every next hop cannot run in a circle: among its
\* nodes with the newest path, the one with the cheapest has a next hop whose
\* path is newer or cheaper still.
LEMMA NoCircle ==
    ASSUME ShapeInv, SteadyMetrics, NEW d \in Node, Toward(d),
           NEW C \in SUBSET Node, C # {}
    PROVE  \E n \in C : table[n][d].nexthop \notin C
<1> SUFFICES ASSUME \A n \in C : table[n][d].nexthop \in C
             PROVE  FALSE
  OBVIOUS
<1>1. \A n \in C : HasPath(table[n][d])
  BY PathTableAssumption DEF HasPath
<1>2. d \notin C
  BY <1>1 DEF ShapeInv, PathShape
<1>3. \A n \in C : Keyed(table[n][d]) /\ table[n][d].dsn <= MaxSeq
  <2>1. ASSUME NEW n \in C
        PROVE  Keyed(table[n][d]) /\ table[n][d].dsn <= MaxSeq
    <3>1. table[n][d].dsn < seq[d] /\ Keyed(table[n][d])
      BY <1>1, KeyedState DEF Toward, Downhill
    <3>2. seq[d] \in Nat /\ seq[d] <= MaxSeq
      BY MeshAssumption DEF ShapeInv, TypeOK
    <3> QED BY <3>1, <3>2, MeshAssumption DEF Keyed
  <2> QED BY <2>1
<1> DEFINE D == {table[n][d].dsn : n \in C}
<1>4. PICK a \in C : \A n \in C : table[n][d].dsn <= table[a][d].dsn
  <2>1. D \in SUBSET Nat /\ D # {} /\ MaxSeq \in Nat /\ \A x \in D : x <= MaxSeq
    BY <1>3, MeshAssumption DEF Keyed
  <2>2. PICK x \in D : \A y \in D : y <= x
    <3> HIDE DEF D
    <3> QED BY <2>1, GreatestNumber
  <2> QED BY <2>2
<1> DEFINE B == {n \in C : table[n][d].dsn = table[a][d].dsn}
           M == {table[n][d].metric : n \in B}
<1>5. PICK b \in B : \A n \in B : table[b][d].metric <= table[n][d].metric
  <2>1. M \in SUBSET Nat /\ M # {}
    BY <1>3 DEF Keyed
  <2>2. PICK x \in M : \A y \in M : x <= y
    <3> HIDE DEF M
    <3> QED BY <2>1, LeastNumber
  <2> QED BY <2>2
<1> DEFINE q == table[b][d].nexthop
           l == <<q, b>>
<1>6. b \in C /\ q \in C /\ q # d /\ l \in Link
  BY <1>1, <1>2 DEF ShapeInv, HopsAreLinks
<1>7. AsGood(Dearer(table[q][d], Cost(l)), table[b][d]) /\ Cost(l) \in Nat /\ Cost(l) >= 1
  BY <1>1, <1>6, SteadyCost DEF Toward, Downhill
<1>8. \/ table[q][d].dsn > table[b][d].dsn
      \/ /\ table[q][d].dsn = table[b][d].dsn
         /\ table[q][d].metric + Cost(l) <= table[b][d].metric
  BY <1>7 DEF AsGood, Dearer
<1>9. Keyed(table[q][d]) /\ Keyed(table[b][d]) /\ table[q][d].dsn <= table[b][d].dsn
  BY <1>3, <1>4, <1>6
<1>10. q \in B
  BY <1>6, <1>8, <1>9 DEF Keyed
<1> QED BY <1>5, <1>7, <1>8, <1>9, <1>10 DEF Keyed

\* The inductive invariant holds in every state.
LEMMA Invariance == Spec => []IInv
<1>1. Init => IInv
  BY InitShape, InitPaths, InitLoop DEF IInv, PathInv
<1>2. IInv /\ [Next]_vars => IInv'
  BY NextShape, NextPaths, NextLoop DEF IInv
<1> QED BY <1>1, <1>2, PTL DEF Spec

\* While metrics are steady and no node restarts, the next hops towards a node that
\* is no portal never form a cycle, in a mesh of any size and shape.
THEOREM NoLoops == Spec => []LoopFree
<1>1. IInv => LoopFree
  BY NoCircle DEF IInv, LoopInv, LoopFree
<1> QED BY <1>1, Invariance, PTL
=============================================================================
