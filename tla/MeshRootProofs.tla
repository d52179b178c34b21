--------------------------- MODULE MeshRootProofs ---------------------------
(***************************************************************************)
(* What the daemons keep about portals and roots, for every mesh, every    *)
(* number of rounds and every sequence of crashes, starts and signals.     *)
(***************************************************************************)
EXTENDS MeshRoot, NaturalsLemmas, TLAPS

RootEntry == [mac : Node \cup {None}, timeout : 0..TIMEOUT, seqNum : Nat]

\* The daemon's variables.
Variables ==
    [isPortal : BOOLEAN, isRoot : BOOLEAN, rootDecision : BOOLEAN,
     root : RootEntry,
     seq : Nat,
     pool : [Node -> [timeout : 0..TIMEOUT, beRoot : BOOLEAN]],
     pann_retx : [Node -> Frame \cup {NoFrame}], rann_retx : Frame \cup {NoFrame},
     table : [Node -> path_sel_entry],
     pann_count : Nat, decision_count : Nat, out : Seq(Frame)]

\* A root may be root and, when whole (no handler of it was interrupted), is a
\* portal and holds itself for the root.
Kind(n, s, whole) ==
    s.isRoot => n \in Candidates /\ (whole => s.isPortal /\ s.root.mac = n)

\* What a function of the timer or of a receiver leaves of that.
SameKind(s, t) ==
    t.isPortal = s.isPortal /\ t.isRoot = s.isRoot

-----------------------------------------------------------------------------
(* The functions, one by one *)

LEMMA Basics ==
    /\ TIMEOUT \in Nat /\ TIMEOUT \in 0..TIMEOUT /\ 0 \in 0..TIMEOUT
    /\ ARBITRATION \in Nat /\ PANN_INTERVAL \in Nat
    /\ None = 0 /\ Node \subseteq Nat /\ \A n \in Node : n # None
    /\ IsFiniteSet(Node) /\ NoRoot \in RootEntry
    /\ NoEntry \in path_sel_entry
  BY MeshRootAssumption DEF NoRoot, NoEntry, path_sel_entry, RootEntry

LEMMA StartedType ==
    ASSUME NEW n \in Node
    PROVE  /\ Started(n) \in Variables /\ Started(n).out = <<>>
           /\ Started(n).isRoot = FALSE
  BY Basics DEF Started, Variables

LEMMA BeRootType ==
    ASSUME NEW n \in Node, NEW s \in Variables
    PROVE  /\ BeRoot(n, s) \in Variables /\ BeRoot(n, s).out = s.out
           /\ BeRoot(n, s).isPortal = s.isPortal /\ BeRoot(n, s).isRoot
           /\ BeRoot(n, s).root.mac = n
<1> DEFINE r == [s.root EXCEPT !.mac = n, !.timeout = TIMEOUT]
<1>1. r \in RootEntry /\ r.mac = n
  <2>1. s.root \in RootEntry /\ s.seq \in Nat
    BY DEF Variables
  <2> QED BY <2>1, Basics DEF RootEntry
<1>2. BeRoot(n, s) = [s EXCEPT !.isRoot = TRUE, !.root = r]
  BY DEF BeRoot, Variables
<1> HIDE DEF r
<1> QED
  BY <1>1, <1>2 DEF Variables

LEMMA reset_timerType ==
    ASSUME NEW s \in Variables
    PROVE  /\ reset_timer(s) \in Variables /\ reset_timer(s).out = s.out
           /\ SameKind(s, reset_timer(s)) /\ reset_timer(s).root = s.root
  BY Basics DEF reset_timer, Variables, SameKind

LEMMA AnnounceType ==
    ASSUME NEW n \in Node, NEW s \in Variables, NEW kind \in {"pann", "rann"}
    PROVE  /\ Announce(n, s, kind) \in Variables
           /\ SameKind(s, Announce(n, s, kind)) /\ Announce(n, s, kind).root = s.root
<1> DEFINE f == [type |-> kind, orig |-> n, dsn |-> s.seq, metric |-> 0, hopcount |-> 0,
                 beRoot |-> n \in Candidates]
<1>1. f \in Frame
  BY DEF Variables, Frame
<1>2. Announce(n, s, kind) = [s EXCEPT !.seq = s.seq + 1, !.out = Append(s.out, f)]
  BY DEF Announce, Variables
<1> HIDE DEF f
<1>3. s.seq + 1 \in Nat /\ Append(s.out, f) \in Seq(Frame)
  BY <1>1 DEF Variables
<1> QED
  BY <1>2, <1>3 DEF Variables, SameKind

LEMMA gen_pannType ==
    ASSUME NEW n \in Node, NEW s \in Variables
    PROVE  /\ gen_pann(n, s) \in Variables
           /\ SameKind(s, gen_pann(n, s)) /\ gen_pann(n, s).root = s.root
<1>1. CASE s.pann_count > 1
  <2>1. s.pann_count - 1 \in Nat
    BY <1>1 DEF Variables
  <2>2. gen_pann(n, s) = [s EXCEPT !.pann_count = s.pann_count - 1]
    BY <1>1 DEF gen_pann, Variables
  <2> QED BY <2>1, <2>2 DEF Variables, SameKind
<1>2. CASE ~(s.pann_count > 1)
  <2> DEFINE t == Announce(n, s, "pann")
  <2>1. t \in Variables /\ SameKind(s, t) /\ t.root = s.root
    BY AnnounceType
  <2>2. gen_pann(n, s) = [t EXCEPT !.pann_count = PANN_INTERVAL]
    BY <1>2 DEF gen_pann
  <2> HIDE DEF t
  <2> QED BY <2>1, <2>2, Basics DEF Variables, SameKind
<1> QED
  BY <1>1, <1>2

LEMMA gen_rannType ==
    ASSUME NEW n \in Node, NEW s \in Variables
    PROVE  /\ gen_rann(n, s) \in Variables
           /\ SameKind(s, gen_rann(n, s)) /\ gen_rann(n, s).root.mac = s.root.mac
<1> DEFINE t == Announce(n, s, "rann")
<1>1. t \in Variables /\ SameKind(s, t) /\ t.root = s.root
  BY AnnounceType
<1>2. gen_rann(n, s) = [t EXCEPT !.root.timeout = TIMEOUT, !.root.seqNum = s.seq]
  BY DEF gen_rann
<1> HIDE DEF t
<1> DEFINE r == [s.root EXCEPT !.timeout = TIMEOUT, !.seqNum = s.seq]
<1>3. r \in RootEntry /\ r.mac = s.root.mac
  <2>1. s.root \in RootEntry /\ s.seq \in Nat
    BY DEF Variables
  <2> QED BY <2>1, Basics DEF RootEntry
<1>4. gen_rann(n, s) = [t EXCEPT !.root = r]
  BY <1>1, <1>2 DEF Variables, RootEntry
<1> HIDE DEF r
<1> QED
  BY <1>1, <1>3, <1>4 DEF Variables, SameKind

\* The members of a finite set in a row.
LEMMA SetToSeqType ==
    ASSUME NEW S, IsFiniteSet(S), NEW T, S \subseteq T
    PROVE  SetToSeq(S) \in Seq(T)
<1> DEFINE c == Cardinality(S)
<1>1. c \in Nat
  BY FS_CardinalityType
<1>2. \E f \in [1..c -> S] : IsInjective(f)
  <2>1. ExistsBijection(1..c, S)
    BY FS_CountingElements, FS_CardinalityType, FS_NatBijection
  <2> HIDE DEF c
  <2> QED BY <2>1 DEF ExistsBijection, Bijection, Injection
<1>3. SetToSeq(S) \in [1..c -> S]
  <2>1. SetToSeq(S) = CHOOSE f \in [1..c -> S] : IsInjective(f)
    BY DEF SetToSeq
  <2> HIDE DEF c
  <2> QED BY <1>2, <2>1
<1>4. SetToSeq(S) \in [1..c -> T]
  BY <1>3
<1> HIDE DEF c
<1> QED
  BY <1>1, <1>4

LEMMA retx_pannType ==
    ASSUME NEW s \in Variables
    PROVE  /\ retx_pann(s) \in Variables
           /\ SameKind(s, retx_pann(s)) /\ retx_pann(s).root = s.root
<1> DEFINE due == {m \in Node : s.pann_retx[m] # NoFrame}
           S == {s.pann_retx[m] : m \in due}
           p == [m \in Node |-> NoFrame]
<1>1. IsFiniteSet(due)
  BY Basics, FS_Subset
<1>2. IsFiniteSet(S)
  <2> DEFINE g == [m \in due |-> s.pann_retx[m]]
  <2> HIDE DEF due
  <2>1. g \in [due -> S] /\ \A x \in S : \E m \in due : g[m] = x
    OBVIOUS
  <2> HIDE DEF S, g
  <2>2. g \in Surjection(due, S)
    BY <2>1 DEF Surjection
  <2> QED BY <1>1, <2>2, FS_Surjection
<1>3. S \subseteq Frame
  BY DEF Variables
<1>4. SetToSeq(S) \in Seq(Frame)
  <2> HIDE DEF S
  <2> QED BY <1>2, <1>3, SetToSeqType
<1>5. retx_pann(s) = [s EXCEPT !.out = s.out \o SetToSeq(S), !.pann_retx = p]
  BY DEF retx_pann, Variables
<1>6. p \in [Node -> Frame \cup {NoFrame}]
  OBVIOUS
<1> HIDE DEF S, p
<1>7. s.out \o SetToSeq(S) \in Seq(Frame)
  BY <1>4 DEF Variables
<1> QED
  BY <1>5, <1>6, <1>7 DEF Variables, SameKind

LEMMA retx_rannType ==
    ASSUME NEW s \in Variables
    PROVE  /\ retx_rann(s) \in Variables
           /\ SameKind(s, retx_rann(s)) /\ retx_rann(s).root = s.root
<1>1. CASE s.rann_retx = NoFrame
  BY <1>1 DEF retx_rann, SameKind
<1>2. CASE s.rann_retx # NoFrame
  <2>1. s.rann_retx \in Frame /\ Append(s.out, s.rann_retx) \in Seq(Frame)
    BY <1>2 DEF Variables
  <2>2. retx_rann(s) = [s EXCEPT !.out = Append(s.out, s.rann_retx), !.rann_retx = NoFrame]
    BY <1>2 DEF retx_rann, Variables
  <2> QED BY <2>1, <2>2 DEF Variables, SameKind
<1> QED
  BY <1>1, <1>2

LEMMA tbl_pannType ==
    ASSUME NEW s \in Variables
    PROVE  /\ tbl_pann(s) \in Variables
           /\ SameKind(s, tbl_pann(s)) /\ tbl_pann(s).root = s.root
<1> DEFINE p == [m \in Node |-> IF m \in Known(s) THEN [s.pool[m] EXCEPT !.timeout = @ - 1]
                                                  ELSE s.pool[m]]
           q == [m \in Node |-> IF s.pool[m].timeout = 1 THEN NoEntry ELSE s.table[m]]
<1>1. ASSUME NEW m \in Node
      PROVE  p[m] \in [timeout : 0..TIMEOUT, beRoot : BOOLEAN]
  <2>1. s.pool[m] \in [timeout : 0..TIMEOUT, beRoot : BOOLEAN]
    BY DEF Variables
  <2>2. CASE m \in Known(s)
    <3>1. s.pool[m].timeout - 1 \in 0..TIMEOUT
      BY <2>1, <2>2, Basics DEF Known
    <3> QED BY <2>1, <2>2, <3>1
  <2> QED BY <2>1, <2>2
<1>2. p \in [Node -> [timeout : 0..TIMEOUT, beRoot : BOOLEAN]]
  <2>1. p = [m \in Node |-> p[m]]
    OBVIOUS
  <2> HIDE DEF p
  <2> QED BY <1>1, <2>1
<1>3. q \in [Node -> path_sel_entry]
  BY Basics DEF Variables
<1>4. tbl_pann(s) = [s EXCEPT !.pool = p, !.table = q]
  BY DEF tbl_pann
<1> HIDE DEF p, q
<1> QED
  BY <1>2, <1>3, <1>4 DEF Variables, SameKind

LEMMA tbl_rannType ==
    ASSUME NEW s \in Variables
    PROVE  /\ tbl_rann(s) \in Variables /\ SameKind(s, tbl_rann(s))
<1>0. s.root \in RootEntry /\ s.table \in [Node -> path_sel_entry]
  BY DEF Variables
<1>1. CASE s.root.mac = None
  BY <1>1 DEF tbl_rann, SameKind
<1>2. CASE s.root.mac # None /\ s.root.timeout > 1
  <2> DEFINE r == [s.root EXCEPT !.timeout = s.root.timeout - 1]
  <2>1. s.root.timeout - 1 \in 0..TIMEOUT
    BY <1>0, <1>2, Basics DEF RootEntry
  <2>2. r \in RootEntry
    BY <1>0, <2>1 DEF RootEntry
  <2>3. tbl_rann(s) = [s EXCEPT !.root = r]
    BY <1>2 DEF tbl_rann, Variables, RootEntry
  <2> HIDE DEF r
  <2> QED BY <2>2, <2>3 DEF Variables, SameKind
<1>3. CASE s.root.mac # None /\ ~(s.root.timeout > 1)
  <2> DEFINE r == [s.root EXCEPT !.mac = None, !.timeout = 0]
             q == [s.table EXCEPT ![s.root.mac] = NoEntry]
  <2>1. r \in RootEntry
    BY <1>0, Basics DEF RootEntry
  <2>2. q \in [Node -> path_sel_entry]
    BY <1>0, Basics
  <2>3. tbl_rann(s) = [s EXCEPT !.root = r, !.rootDecision = FALSE, !.table = q]
    BY <1>3 DEF tbl_rann, Variables, RootEntry
  <2> HIDE DEF r, q
  <2> QED BY <2>1, <2>2, <2>3 DEF Variables, SameKind
<1> QED
  BY <1>1, <1>2, <1>3

LEMMA DecidedType ==
    ASSUME NEW s \in Variables
    PROVE  /\ Decided(s) \in Variables /\ SameKind(s, Decided(s))
           /\ Decided(s).root = s.root
  BY Basics DEF Decided, Variables, SameKind

LEMMA root_decisionType ==
    ASSUME NEW n \in Node, NEW s \in Variables, s.isPortal
    PROVE  /\ root_decision(n, s) \in Variables
           /\ \A whole \in BOOLEAN :
                 Kind(n, s, whole) => Kind(n, root_decision(n, s), whole)
<1> DEFINE t == Decided(s)
<1>1. t \in Variables /\ SameKind(s, t) /\ t.root = s.root
  BY DecidedType
<1>2. CASE s.rootDecision
  BY <1>2 DEF root_decision
<1>3. CASE ~s.rootDecision /\ s.decision_count > 1
  <2>1. s.decision_count - 1 \in Nat
    BY <1>3 DEF Variables
  <2>2. root_decision(n, s) = [s EXCEPT !.decision_count = s.decision_count - 1]
    BY <1>3 DEF root_decision, Variables
  <2> QED BY <2>1, <2>2 DEF Variables, Kind
<1>4. CASE ~s.rootDecision /\ ~(s.decision_count > 1)
  <2>1. \/ root_decision(n, s) = t
        \/ root_decision(n, s) = BeRoot(n, t) /\ n \in Candidates
    BY <1>4 DEF root_decision, Chosen
  <2> HIDE DEF t
  <2>2. /\ BeRoot(n, t) \in Variables /\ BeRoot(n, t).isPortal = t.isPortal
        /\ BeRoot(n, t).root.mac = n
    BY <1>1, BeRootType
  <2> QED BY <1>1, <2>1, <2>2 DEF Kind, SameKind
<1> QED
  BY <1>2, <1>3, <1>4

LEMMA init_rootType ==
    ASSUME NEW n \in Node, NEW s \in Variables
    PROVE  /\ init_root(n, s) \in Variables /\ init_root(n, s).out = s.out
           /\ (s.isRoot => n \in Candidates /\ s.root.mac = n)
                 => Kind(n, init_root(n, s), TRUE)
           /\ (s.isRoot => n \in Candidates) => Kind(n, init_root(n, s), FALSE)
<1> DEFINE r == [s.root EXCEPT !.mac = None]
           q == [s EXCEPT !.isRoot = FALSE, !.root = r]
           b == BeRoot(n, s)
<1>1. r \in RootEntry
  <2>1. s.root \in RootEntry
    BY DEF Variables
  <2> QED BY <2>1 DEF RootEntry
<1>2. [s EXCEPT !.isRoot = FALSE, !.root.mac = None] = q
  BY DEF Variables, RootEntry
<1> HIDE DEF r
<1>3. q \in Variables /\ q.out = s.out /\ q.isPortal = s.isPortal /\ q.isRoot = FALSE
  BY <1>1 DEF Variables
<1>4. /\ b \in Variables /\ b.out = s.out /\ b.isPortal = s.isPortal
      /\ b.isRoot /\ b.root.mac = n
  BY BeRootType
<1>5. \/ init_root(n, s) = reset_timer(b) /\ s.isPortal /\ n \in Candidates
      \/ /\ init_root(n, s) = reset_timer(s)
         /\ s.isRoot /\ n \in Candidates /\ s.root.mac = n => s.isPortal
      \/ init_root(n, s) = reset_timer(q)
  <2> HIDE DEF q, b
  <2>1. CASE s.isPortal /\ n \in Candidates
    BY <2>1 DEF init_root, b
  <2>2. CASE ~(s.isPortal /\ n \in Candidates)
    <3>1. init_root(n, s) = reset_timer(IF s.root.mac = n THEN q ELSE s)
      BY <1>2, <2>2 DEF init_root
    <3> QED BY <2>2, <3>1
  <2> QED BY <2>1, <2>2
<1> HIDE DEF q, b
<1>6. \A t \in Variables : /\ reset_timer(t) \in Variables /\ reset_timer(t).out = t.out
                           /\ SameKind(t, reset_timer(t)) /\ reset_timer(t).root = t.root
  BY reset_timerType
<1> QED
  BY <1>3, <1>4, <1>5, <1>6 DEF Kind, SameKind

\* SIGUSR2: what init_root makes of the other state of the port.
LEMMA ToggledType ==
    ASSUME NEW n \in Node, NEW s \in Variables
    PROVE  /\ Toggled(n, s) \in Variables /\ Toggled(n, s).out = s.out
           /\ \A whole \in BOOLEAN :
                 Kind(n, s, whole) => Kind(n, Toggled(n, s), whole)
<1> DEFINE t == [s EXCEPT !.isPortal = ~@]
<1>1. t \in Variables /\ t.out = s.out /\ t.isRoot = s.isRoot /\ t.root = s.root
  BY DEF Variables
<1>2. Toggled(n, s) = init_root(n, t)
  BY DEF Toggled
<1> HIDE DEF t
<1>3. /\ init_root(n, t) \in Variables /\ init_root(n, t).out = t.out
      /\ (t.isRoot => n \in Candidates /\ t.root.mac = n)
            => Kind(n, init_root(n, t), TRUE)
      /\ (t.isRoot => n \in Candidates) => Kind(n, init_root(n, t), FALSE)
  BY <1>1, init_rootType
<1>4. Kind(n, s, TRUE) => Kind(n, init_root(n, t), TRUE)
  BY <1>1, <1>3 DEF Kind
<1>5. Kind(n, s, FALSE) => Kind(n, init_root(n, t), FALSE)
  BY <1>1, <1>3 DEF Kind
<1>6. ASSUME NEW whole \in BOOLEAN, Kind(n, s, whole)
      PROVE  Kind(n, init_root(n, t), whole)
  <2>1. CASE whole = TRUE
    BY <1>4, <1>6, <2>1
  <2>2. CASE whole = FALSE
    BY <1>5, <1>6, <2>2
  <2> QED BY <2>1, <2>2
<1> QED
  BY <1>1, <1>2, <1>3, <1>6

\* The timers of a portal before root_decision.
LEMMA PortalTimersType ==
    ASSUME NEW n \in Node, NEW s \in Variables
    PROVE  PortalTimers(n, s) \in Variables /\ SameKind(s, PortalTimers(n, s))
<1> DEFINE a == gen_pann(n, s)
           b == retx_pann(a)
           c == tbl_pann(b)
           d == retx_rann(c)
           e == tbl_rann(d)
<1>1. PortalTimers(n, s) = e
  BY DEF PortalTimers
<1>2. a \in Variables /\ SameKind(s, a)
  BY gen_pannType
<1> HIDE DEF a
<1>3. b \in Variables /\ SameKind(a, b)
  BY <1>2, retx_pannType
<1> HIDE DEF b
<1>4. c \in Variables /\ SameKind(b, c)
  BY <1>3, tbl_pannType
<1> HIDE DEF c
<1>5. d \in Variables /\ SameKind(c, d)
  BY <1>4, retx_rannType
<1> HIDE DEF d
<1>6. e \in Variables /\ SameKind(d, e)
  BY <1>5, tbl_rannType
<1> HIDE DEF e
<1> QED
  BY <1>1, <1>2, <1>3, <1>4, <1>5, <1>6 DEF SameKind

\* The timer: a root that is no portal would do nothing any more.
LEMMA pann_handlerType ==
    ASSUME NEW n \in Node, NEW s \in Variables
    PROVE  /\ pann_handler(n, s) \in Variables
           /\ \A whole \in BOOLEAN :
                 Kind(n, s, whole) => Kind(n, pann_handler(n, s), whole)
<1>1. CASE s.isRoot /\ ~s.isPortal
  BY <1>1 DEF pann_handler
<1>2. CASE s.isRoot /\ s.isPortal
  <2> DEFINE a == gen_pann(n, s)
             b == retx_pann(a)
             c == tbl_pann(b)
             d == gen_rann(n, c)
  <2>1. pann_handler(n, s) = d
    BY <1>2 DEF pann_handler
  <2>2. a \in Variables /\ SameKind(s, a) /\ a.root = s.root
    BY gen_pannType
  <2> HIDE DEF a
  <2>3. b \in Variables /\ SameKind(a, b) /\ b.root = a.root
    BY <2>2, retx_pannType
  <2> HIDE DEF b
  <2>4. c \in Variables /\ SameKind(b, c) /\ c.root = b.root
    BY <2>3, tbl_pannType
  <2> HIDE DEF c
  <2>5. d \in Variables /\ SameKind(c, d) /\ d.root.mac = c.root.mac
    BY <2>4, gen_rannType
  <2> HIDE DEF d
  <2> QED BY <2>1, <2>2, <2>3, <2>4, <2>5 DEF SameKind, Kind
<1>3. CASE ~s.isRoot /\ s.isPortal
  <2> DEFINE e == PortalTimers(n, s)
  <2>1. pann_handler(n, s) = root_decision(n, e)
    BY <1>3 DEF pann_handler
  <2>2. e \in Variables /\ e.isPortal = s.isPortal /\ e.isRoot = s.isRoot
    BY PortalTimersType DEF SameKind
  <2> HIDE DEF e
  <2>3. \A whole \in BOOLEAN : Kind(n, e, whole)
    BY <1>3, <2>2 DEF Kind
  <2> QED BY <1>3, <2>1, <2>2, <2>3, root_decisionType
<1>4. CASE ~s.isRoot /\ ~s.isPortal
  <2> DEFINE u == retx_pann(s)
             v == tbl_pann(u)
             w == retx_rann(v)
             z == tbl_rann(w)
  <2>1. pann_handler(n, s) = z
    BY <1>4 DEF pann_handler
  <2>2. u \in Variables /\ SameKind(s, u)
    BY retx_pannType
  <2> HIDE DEF u
  <2>3. v \in Variables /\ SameKind(u, v)
    BY <2>2, tbl_pannType
  <2> HIDE DEF v
  <2>4. w \in Variables /\ SameKind(v, w)
    BY <2>3, retx_rannType
  <2> HIDE DEF w
  <2>5. z \in Variables /\ SameKind(w, z)
    BY <2>4, tbl_rannType
  <2> HIDE DEF z
  <2> QED BY <1>4, <2>1, <2>2, <2>3, <2>4, <2>5 DEF SameKind, Kind
<1> QED
  BY <1>1, <1>2, <1>3, <1>4

-----------------------------------------------------------------------------
(* The receivers *)

LEMMA AgedType ==
    ASSUME NEW f \in Frame
    PROVE  Aged(f) \in Frame /\ Aged(f).orig = f.orig
<1>1. f.metric + 1 \in Nat /\ f.hopcount + 1 \in Nat
  BY DEF Frame
<1>2. Aged(f) = [f EXCEPT !.metric = f.metric + 1, !.hopcount = f.hopcount + 1]
  BY DEF Aged, Frame
<1> QED
  BY <1>1, <1>2 DEF Frame

LEMMA UpdatedType ==
    ASSUME NEW s \in Variables, NEW p \in Node, NEW f \in Frame
    PROVE  /\ Updated(s, p, f) \in Variables /\ SameKind(s, Updated(s, p, f))
           /\ Updated(s, p, f).out = s.out /\ Updated(s, p, f).root = s.root
<1> DEFINE x == PathTo(f.dsn, f.metric, f.hopcount, p)
           q == [s.table EXCEPT ![f.orig] = x]
<1>1. x \in path_sel_entry
  BY DEF PathTo, path_sel_entry, Frame
<1> HIDE DEF x
<1>2. q \in [Node -> path_sel_entry]
  BY <1>1 DEF Variables
<1>3. Updated(s, p, f) = [s EXCEPT !.table = q]
  BY DEF Updated, Variables, x
<1> HIDE DEF q
<1> QED
  BY <1>2, <1>3 DEF Variables, SameKind

LEMMA updateMppPoolType ==
    ASSUME NEW s \in Variables, NEW f \in Frame
    PROVE  /\ updateMppPool(s, f) \in Variables /\ SameKind(s, updateMppPool(s, f))
           /\ updateMppPool(s, f).out = s.out /\ updateMppPool(s, f).root = s.root
<1> DEFINE x == [timeout |-> TIMEOUT, beRoot |-> f.beRoot]
           q == [s.pool EXCEPT ![f.orig] = x]
<1>1. x \in [timeout : 0..TIMEOUT, beRoot : BOOLEAN]
  BY Basics DEF Frame
<1> HIDE DEF x
<1>2. q \in [Node -> [timeout : 0..TIMEOUT, beRoot : BOOLEAN]]
  BY <1>1 DEF Variables
<1>3. updateMppPool(s, f) = s \/ updateMppPool(s, f) = [s EXCEPT !.pool = q]
  BY DEF updateMppPool, Variables, x
<1> HIDE DEF q
<1> QED
  BY <1>2, <1>3 DEF Variables, SameKind

LEMMA updatePannRetxType ==
    ASSUME NEW s \in Variables, NEW f \in Frame
    PROVE  /\ updatePannRetx(s, f) \in Variables /\ SameKind(s, updatePannRetx(s, f))
           /\ updatePannRetx(s, f).out = s.out /\ updatePannRetx(s, f).root = s.root
<1> DEFINE q == [s.pann_retx EXCEPT ![f.orig] = f]
<1>1. q \in [Node -> Frame \cup {NoFrame}]
  BY DEF Variables
<1>2. updatePannRetx(s, f) = s \/ updatePannRetx(s, f) = [s EXCEPT !.pann_retx = q]
  BY DEF updatePannRetx, Variables
<1> HIDE DEF q
<1> QED
  BY <1>1, <1>2 DEF Variables, SameKind

LEMMA TakeRannType ==
    ASSUME NEW s \in Variables, NEW p \in Node, NEW f \in Frame, NEW verdict
    PROVE  /\ TakeRann(s, p, f, verdict) \in Variables
           /\ SameKind(s, TakeRann(s, p, f, verdict))
           /\ TakeRann(s, p, f, verdict).out = s.out
<1> DEFINE better == verdict = "better"
           mac == IF better THEN f.orig ELSE s.root.mac
           r == [mac |-> mac, timeout |-> TIMEOUT, seqNum |-> f.dsn]
           u == [s EXCEPT !.root = r, !.rootDecision = @ \/ better]
           t == IF better \/ (verdict = "same" /\ s.root.seqNum < f.dsn) THEN u ELSE s
           v == Updated(t, p, f)
<1>1. r \in RootEntry
  <2>1. s.root \in RootEntry
    BY DEF Variables
  <2>2. mac \in Node \cup {None}
    BY <2>1 DEF RootEntry, Frame
  <2> HIDE DEF mac
  <2> QED BY <2>2, Basics DEF RootEntry, Frame
<1>2. u \in Variables /\ SameKind(s, u) /\ u.out = s.out
  <2> HIDE DEF r, better
  <2>1. (s.rootDecision \/ better) \in BOOLEAN
    OBVIOUS
  <2> QED BY <1>1, <2>1 DEF Variables, SameKind
<1>3. \/ TakeRann(s, p, f, verdict) = t
      \/ TakeRann(s, p, f, verdict) = [v EXCEPT !.rann_retx = f]
  BY Zenon DEF TakeRann
<1> HIDE DEF u
<1>4. t \in Variables /\ SameKind(s, t) /\ t.out = s.out
  BY <1>2 DEF SameKind
<1> HIDE DEF t
<1>5. v \in Variables /\ SameKind(t, v) /\ v.out = t.out
  BY <1>4, UpdatedType
<1> HIDE DEF v
<1> QED
  BY <1>3, <1>4, <1>5 DEF Variables, SameKind

\* A frame makes no root, and a root that handles one still holds itself for it.
LEMMA HandledType ==
    ASSUME NEW r \in Node, NEW s \in Variables, NEW p \in Node, NEW f \in Frame
    PROVE  /\ Handled(r, s, p, f) \in Variables /\ Handled(r, s, p, f).out = s.out
           /\ \A whole \in BOOLEAN :
                 Kind(r, s, whole) => Kind(r, Handled(r, s, p, f), whole)
<1> DEFINE g == Aged(f)
<1>1. g \in Frame
  BY AgedType
<1>2. CASE f.type = "pann"
  <2> DEFINE a == Updated(s, p, g)
             b == updateMppPool(a, g)
             c == updatePannRetx(b, g)
  <2>1. Handled(r, s, p, f) = s \/ Handled(r, s, p, f) = c
    BY <1>2 DEF Handled, recv_pann
  <2> HIDE DEF g
  <2>2. a \in Variables /\ SameKind(s, a) /\ a.out = s.out /\ a.root = s.root
    BY <1>1, UpdatedType
  <2> HIDE DEF a
  <2>3. b \in Variables /\ SameKind(a, b) /\ b.out = a.out /\ b.root = a.root
    BY <1>1, <2>2, updateMppPoolType
  <2> HIDE DEF b
  <2>4. c \in Variables /\ SameKind(b, c) /\ c.out = b.out /\ c.root = b.root
    BY <1>1, <2>3, updatePannRetxType
  <2> HIDE DEF c
  <2> QED BY <2>1, <2>2, <2>3, <2>4 DEF SameKind, Kind
<1>3. CASE f.type # "pann"
  <2> DEFINE a == Quit(s)
             b == TakeRann(a, p, g, Compare(s, g))
  <2>1. Handled(r, s, p, f) = s \/ Handled(r, s, p, f) = b
    BY <1>3 DEF Handled, recv_rann
  <2> HIDE DEF g
  <2>2. a \in Variables /\ a.isRoot = FALSE /\ a.out = s.out
    BY DEF Quit, Variables
  <2> HIDE DEF a
  <2>3. b \in Variables /\ SameKind(a, b) /\ b.out = a.out
    BY <1>1, <2>2, TakeRannType
  <2> HIDE DEF b
  <2> QED BY <2>1, <2>2, <2>3 DEF SameKind, Kind
<1> QED
  BY <1>2, <1>3

\* What holds of node[r] and is kept by every frame holds after any number of
\* frames.
LEMMA AfterFramesIn ==
    ASSUME NEW T, NEW n \in Node, NEW r \in Node, NEW out \in Seq(Frame),
           node[r] \in T,
           \A s \in T, f \in Frame : Handled(r, s, n, f) \in T,
           NEW k \in 0..Len(out)
    PROVE  AfterFrames(n, r, out, k) \in T
<1> DEFINE L == Len(out)
           Prefix(g, m) == /\ g \in [0..m -> T]
                           /\ g[0] = node[r]
                           /\ \A j \in 1..m : g[j] = Handled(r, g[j - 1], n, out[j])
           Bad == {m \in 0..L : ~\E g : Prefix(g, m)}
<1>0. L \in Nat /\ \A j \in 1..L : out[j] \in Frame
  OBVIOUS
<1> HIDE DEF L
<1>1. Bad = {}
  <2> SUFFICES ASSUME Bad # {} PROVE FALSE
    OBVIOUS
  <2>1. Bad \in SUBSET Nat
    BY <1>0
  <2>2. PICK m \in Bad : \A x \in Bad : m <= x
    <3> HIDE DEF Bad
    <3> QED BY <2>1, LeastNumber
  <2>3. m \in 0..L /\ ~\E g : Prefix(g, m)
    OBVIOUS
  <2>4. CASE m = 0
    <3>1. Prefix([j \in 0..0 |-> node[r]], 0)
      OBVIOUS
    <3> QED BY <2>3, <2>4, <3>1
  <2>5. CASE m # 0
    <3>1. m - 1 \in 0..L /\ ~(m <= m - 1) /\ m \in 1..L
      BY <1>0, <2>3, <2>5
    <3>2. m - 1 \notin Bad
      BY <2>2, <3>1
    <3>3. PICK g : Prefix(g, m - 1)
      BY <3>1, <3>2
    <3> DEFINE h == [j \in 0..m |-> IF j = m THEN Handled(r, g[m - 1], n, out[m]) ELSE g[j]]
    <3>4. g[m - 1] \in T
      BY <1>0, <3>1, <3>3
    <3>5. Handled(r, g[m - 1], n, out[m]) \in T
      BY <1>0, <3>1, <3>4
    <3>6. h \in [0..m -> T]
      BY <1>0, <3>1, <3>3, <3>5
    <3>7. h[0] = node[r]
      BY <1>0, <3>1, <3>3
    <3>8. ASSUME NEW j \in 1..m PROVE h[j] = Handled(r, h[j - 1], n, out[j])
      <4>1. h[j - 1] = g[j - 1]
        BY <1>0, <3>1
      <4>2. CASE j = m
        BY <4>1, <4>2
      <4>3. CASE j # m
        <5>1. j \in 1..(m - 1) /\ j \in 0..m
          BY <1>0, <3>1, <4>3
        <5> QED BY <3>3, <4>1, <4>3, <5>1
      <4> QED BY <4>2, <4>3
    <3>9. Prefix(h, m)
      BY <3>6, <3>7, <3>8
    <3> QED BY <2>3, <3>9
  <2> QED BY <2>4, <2>5
<1>2. PICK g : Prefix(g, L)
  BY <1>0, <1>1
<1> DEFINE Step(x) == [j \in 0..L |-> IF j = 0 THEN node[r]
                                       ELSE Handled(r, x[j - 1], n, out[j])]
           after == CHOOSE x : x = Step(x)
<1>3. g = Step(g)
  <2>1. g = [j \in 0..L |-> g[j]]
    BY <1>2
  <2>2. ASSUME NEW j \in 0..L
        PROVE  g[j] = IF j = 0 THEN node[r] ELSE Handled(r, g[j - 1], n, out[j])
    BY <1>0, <1>2
  <2> QED BY <2>1, <2>2, Zenon
<1>4. after = Step(after)
  <2> HIDE DEF Step
  <2> QED BY <1>3
<1>5. AfterFrames(n, r, out, k) = after[k]
  BY DEF AfterFrames, L
<1> HIDE DEF after
<1>6. ASSUME NEW j \in 0..L
      PROVE  after[j] = IF j = 0 THEN node[r] ELSE Handled(r, after[j - 1], n, out[j])
  <2>1. after[j] = Step(after)[j]
    <3> HIDE DEF Step
    <3> QED BY <1>4
  <2>2. Step(after)[j] = IF j = 0 THEN node[r] ELSE Handled(r, after[j - 1], n, out[j])
    OBVIOUS
  <2> QED BY <2>1, <2>2
<1> DEFINE Out == {j \in 0..L : after[j] \notin T}
<1>7. Out = {}
  <2> SUFFICES ASSUME Out # {} PROVE FALSE
    OBVIOUS
  <2>1. Out \in SUBSET Nat
    BY <1>0
  <2>2. PICK m \in Out : \A x \in Out : m <= x
    <3> HIDE DEF Out
    <3> QED BY <2>1, LeastNumber
  <2>3. m # 0
    BY <1>6, <2>2
  <2>4. m - 1 \in 0..L /\ m \in 1..L /\ ~(m <= m - 1)
    BY <1>0, <2>2, <2>3
  <2>5. after[m - 1] \in T
    BY <2>2, <2>4
  <2>6. after[m] = Handled(r, after[m - 1], n, out[m])
    BY <1>6, <2>3, <2>2
  <2> QED BY <1>0, <2>2, <2>4, <2>5, <2>6
<1> QED
  BY <1>5, <1>7 DEF L

-----------------------------------------------------------------------------
(* The invariants *)

\* Types: the announcements that were sent are handled.
TypeInv ==
    /\ up \subseteq Node /\ ticked \subseteq up /\ torn \subseteq up
    /\ portals \subseteq Node
    /\ time \in 0..MaxTime /\ quiet \in 0..time /\ faults \in 0..(MaxFault + 1)
    /\ node \in [Node -> Variables]
    /\ \A n \in Node : node[n].out = <<>>

\* A root with no interrupted handler is a portal and holds itself for the root.
KindInv == \A n \in Node : Kind(n, node[n], n \notin torn)

\* Whatever kind a node was, it is in the new state s.
KindKept(n, s) ==
    \A whole \in BOOLEAN : Kind(n, node[n], whole) => Kind(n, s, whole)

-----------------------------------------------------------------------------
(* The steps *)

LEMMA RootInit == Init => TypeInv /\ KindInv
<1> SUFFICES ASSUME Init PROVE TypeInv /\ KindInv
  OBVIOUS
<1>1. ASSUME NEW n \in Node
      PROVE  node[n] \in Variables /\ node[n].out = <<>> /\ Kind(n, node[n], TRUE)
  <2> DEFINE s == Started(n)
  <2>1. s \in Variables /\ s.out = <<>> /\ s.isRoot = FALSE
    BY StartedType
  <2>2. node[n] = init_root(n, s)
    BY DEF Init
  <2> HIDE DEF s
  <2> QED BY <2>1, <2>2, init_rootType
<1>2. node = [n \in Node |-> node[n]]
  BY DEF Init
<1>3. node \in [Node -> Variables]
  BY <1>1, <1>2
<1>4. /\ up = Node /\ ticked = {} /\ torn = {} /\ portals \in Setups
      /\ time = 0 /\ quiet = 0 /\ faults = 0
  BY DEF Init
<1>5. /\ time \in 0..MaxTime /\ quiet \in 0..time /\ faults \in 0..(MaxFault + 1)
      /\ portals \subseteq Node
  BY <1>4, MeshRootAssumption
<1>6. TypeInv
  BY <1>1, <1>3, <1>4, <1>5, Zenon DEF TypeInv
<1>7. KindInv
  BY <1>1, <1>4 DEF KindInv, Kind
<1> QED
  BY <1>6, <1>7

\* A receiver after k frames of n.
LEMMA AfterFramesType ==
    ASSUME TypeInv, NEW n \in Node, NEW r \in Node, NEW out \in Seq(Frame),
           NEW k \in 0..Len(out)
    PROVE  /\ AfterFrames(n, r, out, k) \in Variables
           /\ AfterFrames(n, r, out, k).out = <<>>
           /\ \A whole \in BOOLEAN :
                 Kind(r, node[r], whole) => Kind(r, AfterFrames(n, r, out, k), whole)
<1> DEFINE T == {s \in Variables :
                   /\ s.out = <<>>
                   /\ \A whole \in BOOLEAN :
                         Kind(r, node[r], whole) => Kind(r, s, whole)}
<1>1. node[r] \in T
  BY DEF TypeInv
<1>2. ASSUME NEW s \in T, NEW f \in Frame PROVE Handled(r, s, n, f) \in T
  <2>1. /\ Handled(r, s, n, f) \in Variables /\ Handled(r, s, n, f).out = s.out
        /\ \A whole \in BOOLEAN :
              Kind(r, s, whole) => Kind(r, Handled(r, s, n, f), whole)
    BY HandledType
  <2> QED BY <2>1
<1>3. AfterFrames(n, r, out, k) \in T
  <2> HIDE DEF T
  <2> QED BY <1>1, <1>2, AfterFramesIn
<1> QED
  BY <1>3

\* The handler of n ends with s.
LEMMA BroadcastType ==
    ASSUME TypeInv, NEW n \in Node, NEW s \in Variables
    PROVE  /\ Broadcast(n, s) \in [Node -> Variables]
           /\ \A m \in Node : Broadcast(n, s)[m].out = <<>>
           /\ SameKind(s, Broadcast(n, s)[n]) /\ Broadcast(n, s)[n].root = s.root
           /\ \A m \in Node : m # n => KindKept(m, Broadcast(n, s)[m])
<1> DEFINE t == [s EXCEPT !.out = <<>>]
           hears == Neighbours[n] \cap up
           new(m) == IF m = n THEN t
                     ELSE IF m \in hears THEN AfterFrames(n, m, s.out, Len(s.out))
                     ELSE node[m]
<1>1. Broadcast(n, s) = [m \in Node |-> new(m)]
  BY DEF Broadcast
<1>2. s.out \in Seq(Frame) /\ Len(s.out) \in 0..Len(s.out) /\ <<>> \in Seq(Frame)
  BY DEF Variables
<1>3. t \in Variables /\ t.out = <<>> /\ SameKind(s, t) /\ t.root = s.root
  BY <1>2 DEF Variables, SameKind
<1> HIDE DEF t
<1>4. ASSUME NEW m \in Node
      PROVE  /\ new(m) \in Variables /\ new(m).out = <<>>
             /\ m # n => KindKept(m, new(m))
  <2>1. CASE m = n
    BY <1>3, <2>1
  <2>2. CASE m # n /\ m \in hears
    <3>1. new(m) = AfterFrames(n, m, s.out, Len(s.out))
      BY <2>2
    <3> QED BY <1>2, <3>1, AfterFramesType DEF KindKept
  <2>3. CASE m # n /\ m \notin hears
    BY <2>3 DEF TypeInv, KindKept
  <2> QED BY <2>1, <2>2, <2>3
<1>5. new(n) = t
  OBVIOUS
<1> HIDE DEF new
<1>6. /\ Broadcast(n, s) \in [Node -> Variables]
      /\ \A m \in Node : Broadcast(n, s)[m] = new(m)
  BY <1>1, <1>4
<1> QED
  BY <1>3, <1>4, <1>5, <1>6

\* The end of a handler, and of a round.
LEMMA TurnType ==
    ASSUME TypeInv, NEW n \in Node, Turn(n), up' = up
    PROVE  /\ n \in up /\ ticked' \subseteq up' /\ time' \in 0..MaxTime
           /\ quiet + (time' - time) \in 0..time'
<1>1. n \in up /\ time < MaxTime
  BY DEF Turn
<1>2. CASE up \subseteq ticked \cup {n}
  <2>1. ticked' = {} /\ time' = time + 1
    BY <1>2 DEF Turn
  <2> QED BY <1>1, <2>1, MeshRootAssumption DEF TypeInv
<1>3. CASE ~(up \subseteq ticked \cup {n})
  <2>1. ticked' = ticked \cup {n} /\ time' = time
    BY <1>3 DEF Turn
  <2> QED BY <1>1, <2>1, MeshRootAssumption DEF TypeInv
<1> QED
  BY <1>2, <1>3

\* A fault leaves the counters in range.
LEMMA FaultType ==
    ASSUME TypeInv, NEW kind, NEW limit \in 0..(MaxFault + 1), Fault(kind, limit),
           time' \in 0..MaxTime
    PROVE  quiet' \in 0..time' /\ faults' \in 0..(MaxFault + 1)
<1>1. faults < limit /\ faults' = faults + 1 /\ quiet' = 0
  BY DEF Fault
<1> QED
  BY <1>1, MeshRootAssumption DEF TypeInv

LEMMA Limits == MaxFault \in 0..(MaxFault + 1) /\ MaxFault + 1 \in 0..(MaxFault + 1)
  BY MeshRootAssumption

\* A step after which every node keeps its kind or is torn.
LEMMA KindStep ==
    ASSUME KindInv, torn \subseteq torn',
           \A m \in Node : \/ KindKept(m, node'[m])
                           \/ m \in torn' /\ Kind(m, node'[m], FALSE)
    PROVE  KindInv'
<1> SUFFICES ASSUME NEW m \in Node PROVE Kind(m, node'[m], m \notin torn')
  BY DEF KindInv
<1>1. CASE m \in torn' /\ Kind(m, node'[m], FALSE)
  BY <1>1 DEF Kind
<1>2. CASE KindKept(m, node'[m])
  <2>1. Kind(m, node[m], m \notin torn) /\ (m \notin torn) \in BOOLEAN
    BY DEF KindInv
  <2>2. Kind(m, node'[m], m \notin torn)
    BY <1>2, <2>1 DEF KindKept
  <2> QED BY <2>2 DEF Kind
<1> QED
  BY <1>1, <1>2

LEMMA TimerStep ==
    ASSUME TypeInv, KindInv, NEW n \in Node, TimerFunc(n)
    PROVE  TypeInv' /\ KindInv'
<1> DEFINE s == pann_handler(n, node[n])
<1>1. /\ Turn(n) /\ node' = Broadcast(n, s) /\ quiet' = quiet + (time' - time)
      /\ up' = up /\ portals' = portals /\ torn' = torn /\ faults' = faults
  BY DEF TimerFunc
<1>2. s \in Variables /\ KindKept(n, s)
  BY pann_handlerType DEF TypeInv, KindKept
<1> HIDE DEF s
<1>3. /\ node' \in [Node -> Variables] /\ \A m \in Node : node'[m].out = <<>>
      /\ SameKind(s, node'[n]) /\ node'[n].root = s.root
      /\ \A m \in Node : m # n => KindKept(m, node'[m])
  BY <1>1, <1>2, BroadcastType
<1>4. KindKept(n, node'[n])
  BY <1>2, <1>3 DEF KindKept, Kind, SameKind
<1>5. ticked' \subseteq up' /\ time' \in 0..MaxTime /\ quiet' \in 0..time'
  BY <1>1, TurnType
<1>6. TypeInv'
  BY <1>1, <1>3, <1>5 DEF TypeInv
<1>7. KindInv'
  <2>1. torn \subseteq torn' /\ \A m \in Node : KindKept(m, node'[m])
    BY <1>1, <1>3, <1>4
  <2> QED BY <2>1, KindStep
<1> QED
  BY <1>6, <1>7

LEMMA RannInterruptedStep ==
    ASSUME TypeInv, KindInv, NEW n \in Node, NEW r \in Node, recv_rann_Interrupted(n, r)
    PROVE  TypeInv' /\ KindInv'
<1> DEFINE s == pann_handler(n, node[n])
           f == s.out[Len(s.out)]
           before == AfterFrames(n, r, s.out, Len(s.out) - 1)
           u == Quit(before)
           v == Toggled(r, u)
<1>1. /\ Turn(n) /\ Fault("bridge", MaxFault) /\ r \in Neighbours[n] \cap up
      /\ s.out # <<>>
      /\ torn' = torn \cup {r} /\ up' = up /\ portals' = portals
  BY DEF recv_rann_Interrupted
<1>2. PICK verdict : node' = [Broadcast(n, s) EXCEPT ![r] = TakeRann(v, n, Aged(f), verdict)]
  BY DEF recv_rann_Interrupted
<1>3. s \in Variables /\ KindKept(n, s)
  BY pann_handlerType DEF TypeInv, KindKept
<1> HIDE DEF s
<1>4. /\ s.out \in Seq(Frame) /\ Len(s.out) - 1 \in 0..Len(s.out) /\ f \in Frame
  BY <1>1, <1>3 DEF Variables
<1>5. before \in Variables /\ before.out = <<>>
  BY <1>4, AfterFramesType
<1> HIDE DEF before
<1>6. u \in Variables /\ u.out = <<>> /\ u.isRoot = FALSE
  BY <1>5 DEF Quit, Variables
<1> HIDE DEF u
<1>7. v \in Variables /\ v.out = <<>> /\ Kind(r, v, FALSE)
  <2>1. Kind(r, u, FALSE)
    BY <1>6 DEF Kind
  <2> QED BY <1>6, <2>1, ToggledType
<1> HIDE DEF v
<1>8. Aged(f) \in Frame
  BY <1>4, AgedType
<1> HIDE DEF f
<1> DEFINE w == TakeRann(v, n, Aged(f), verdict)
<1>9. w \in Variables /\ w.out = <<>> /\ Kind(r, w, FALSE)
  BY <1>7, <1>8, TakeRannType DEF Kind, SameKind
<1> HIDE DEF w
<1> DEFINE b == Broadcast(n, s)
<1>10. /\ b \in [Node -> Variables] /\ \A m \in Node : b[m].out = <<>>
       /\ SameKind(s, b[n]) /\ b[n].root = s.root
       /\ \A m \in Node : m # n => KindKept(m, b[m])
  BY <1>3, BroadcastType
<1>11. node' = [b EXCEPT ![r] = w]
  BY <1>2 DEF w
<1> HIDE DEF b
<1>12. /\ node' \in [Node -> Variables] /\ node'[r] = w
       /\ \A m \in Node : m # r => node'[m] = b[m]
  BY <1>9, <1>10, <1>11
<1>13. KindKept(n, b[n])
  BY <1>3, <1>10 DEF KindKept, Kind, SameKind
<1>14. ticked' \subseteq up' /\ time' \in 0..MaxTime
  BY <1>1, TurnType
<1>15. quiet' \in 0..time' /\ faults' \in 0..(MaxFault + 1)
  BY <1>1, <1>14, FaultType, Limits
<1>16. TypeInv'
  BY <1>1, <1>9, <1>10, <1>12, <1>14, <1>15 DEF TypeInv
<1>17. KindInv'
  <2>1. \A m \in Node \ {r} : KindKept(m, node'[m])
    BY <1>10, <1>12, <1>13
  <2>2. \A m \in {r} : Kind(m, node'[m], FALSE)
    BY <1>9, <1>12
  <2>3. torn \subseteq torn' /\ r \in torn'
    BY <1>1
  <2>4. \A m \in Node : \/ KindKept(m, node'[m])
                        \/ m \in torn' /\ Kind(m, node'[m], FALSE)
    BY <2>1, <2>2, <2>3
  <2> QED BY <2>3, <2>4, KindStep
<1> QED
  BY <1>16, <1>17

LEMMA DecisionInterruptedStep ==
    ASSUME TypeInv, KindInv, NEW n \in Node, root_decision_Interrupted(n)
    PROVE  TypeInv' /\ KindInv'
<1> DEFINE s == PortalTimers(n, node[n])
           t == Toggled(n, s)
           d == Decided(t)
           u == BeRoot(n, d)
<1>1. /\ Turn(n) /\ Fault("decision", MaxFault + 1) /\ Chosen(n, s)
      /\ node' = Broadcast(n, u)
      /\ torn' = torn \cup {n} /\ up' = up /\ portals' = portals
  BY DEF root_decision_Interrupted
<1>2. n \in Candidates
  BY <1>1 DEF Chosen
<1>3. s \in Variables
  BY PortalTimersType DEF TypeInv
<1> HIDE DEF s
<1>4. t \in Variables
  BY <1>3, ToggledType
<1> HIDE DEF t
<1>5. d \in Variables
  BY <1>4, DecidedType
<1> HIDE DEF d
<1>6. u \in Variables
  BY <1>5, BeRootType
<1> HIDE DEF u
<1>7. /\ node' \in [Node -> Variables] /\ \A m \in Node : node'[m].out = <<>>
      /\ \A m \in Node : m # n => KindKept(m, node'[m])
  BY <1>1, <1>6, BroadcastType
<1>8. n \in up /\ ticked' \subseteq up' /\ time' \in 0..MaxTime
  BY <1>1, TurnType
<1>9. quiet' \in 0..time' /\ faults' \in 0..(MaxFault + 1)
  BY <1>1, <1>8, FaultType, Limits
<1>10. TypeInv'
  BY <1>1, <1>7, <1>8, <1>9 DEF TypeInv
<1>11. KindInv'
  <2>1. \A m \in Node \ {n} : KindKept(m, node'[m])
    BY <1>7
  <2>2. \A m \in {n} : Kind(m, node'[m], FALSE)
    BY <1>2 DEF Kind
  <2>3. torn \subseteq torn' /\ n \in torn'
    BY <1>1
  <2>4. \A m \in Node : \/ KindKept(m, node'[m])
                        \/ m \in torn' /\ Kind(m, node'[m], FALSE)
    BY <2>1, <2>2, <2>3
  <2> QED BY <2>3, <2>4, KindStep
<1> QED
  BY <1>10, <1>11

LEMMA BridgeStep ==
    ASSUME TypeInv, KindInv, NEW n \in Node, callback_usr2(n)
    PROVE  TypeInv' /\ KindInv'
<1> DEFINE t == Toggled(n, node[n])
<1>1. /\ Fault("bridge", MaxFault) /\ node' = [node EXCEPT ![n] = t]
      /\ up' = up /\ portals' = portals /\ torn' = torn /\ ticked' = ticked /\ time' = time
  BY DEF callback_usr2
<1>2. node[n] \in Variables /\ node[n].out = <<>>
  BY DEF TypeInv
<1>3. t \in Variables /\ t.out = <<>> /\ KindKept(n, t)
  BY <1>2, ToggledType DEF KindKept
<1> HIDE DEF t
<1>4. /\ node' \in [Node -> Variables] /\ node'[n] = t
      /\ \A m \in Node : m # n => node'[m] = node[m]
  BY <1>1, <1>3 DEF TypeInv
<1>5. time' \in 0..MaxTime /\ quiet' \in 0..time' /\ faults' \in 0..(MaxFault + 1)
  BY <1>1, FaultType, Limits DEF TypeInv
<1>6. TypeInv'
  BY <1>1, <1>3, <1>4, <1>5 DEF TypeInv
<1>7. KindInv'
  <2>1. \A m \in Node : KindKept(m, node'[m])
    BY <1>3, <1>4 DEF KindKept
  <2>2. torn \subseteq torn'
    BY <1>1
  <2> QED BY <2>1, <2>2, KindStep
<1> QED
  BY <1>6, <1>7

LEMMA CrashStep ==
    ASSUME TypeInv, KindInv, NEW n \in Node, Crash(n)
    PROVE  TypeInv' /\ KindInv'
<1> DEFINE s == Started(n)
<1>1. /\ Fault("crash", MaxFault) /\ n \in up /\ up' = up \ {n}
      /\ node' = [node EXCEPT ![n] = s] /\ torn' = torn \ {n}
      /\ ticked' = IF up' \subseteq ticked THEN {} ELSE ticked \ {n}
      /\ portals' = portals /\ time' = time
  BY DEF Crash
<1>2. s \in Variables /\ s.out = <<>> /\ s.isRoot = FALSE
  BY StartedType
<1> HIDE DEF s
<1>3. time' \in 0..MaxTime /\ quiet' \in 0..time' /\ faults' \in 0..(MaxFault + 1)
  BY <1>1, FaultType, Limits DEF TypeInv
<1>4. /\ node' \in [Node -> Variables] /\ node'[n] = s
      /\ \A m \in Node : m # n => node'[m] = node[m]
  BY <1>1, <1>2 DEF TypeInv
<1>5. up' \subseteq Node /\ ticked' \subseteq up' /\ torn' \subseteq up'
  BY <1>1 DEF TypeInv
<1>6. \A m \in Node : node'[m].out = <<>>
  BY <1>2, <1>4 DEF TypeInv
<1>7. TypeInv'
  BY <1>1, <1>3, <1>4, <1>5, <1>6 DEF TypeInv
<1>8. ASSUME NEW m \in Node PROVE Kind(m, node'[m], m \notin torn')
  <2>1. CASE m = n
    BY <1>2, <1>4, <2>1 DEF Kind
  <2>2. CASE m # n
    <3>1. node'[m] = node[m] /\ (m \notin torn' <=> m \notin torn)
      BY <1>1, <1>4, <2>2
    <3> QED BY <3>1 DEF KindInv, Kind
  <2> QED BY <2>1, <2>2
<1> QED
  BY <1>7, <1>8 DEF KindInv

LEMMA StartStep ==
    ASSUME TypeInv, KindInv, NEW n \in Node, Start(n)
    PROVE  TypeInv' /\ KindInv'
<1> DEFINE s == Started(n)
           t == init_root(n, s)
<1>1. /\ n \notin up /\ quiet' = 0 /\ up' = up \cup {n} /\ node' = [node EXCEPT ![n] = t]
      /\ portals' = portals /\ torn' = torn /\ ticked' = ticked /\ time' = time
      /\ faults' = faults
  BY DEF Start
<1>2. s \in Variables /\ s.out = <<>> /\ s.isRoot = FALSE
  BY StartedType
<1> HIDE DEF s
<1>3. t \in Variables /\ t.out = <<>> /\ Kind(n, t, TRUE)
  BY <1>2, init_rootType
<1> HIDE DEF t
<1>4. /\ node' \in [Node -> Variables] /\ node'[n] = t
      /\ \A m \in Node : m # n => node'[m] = node[m]
  BY <1>1, <1>3 DEF TypeInv
<1>5. quiet' \in 0..time' /\ time' \in 0..MaxTime
  BY <1>1 DEF TypeInv
<1>6. TypeInv'
  BY <1>1, <1>3, <1>4, <1>5 DEF TypeInv
<1>7. \A m \in Node : KindKept(m, node'[m])
  BY <1>3, <1>4 DEF KindKept, Kind
<1>8. torn \subseteq torn'
  BY <1>1
<1> QED
  BY <1>6, <1>7, <1>8, KindStep

-----------------------------------------------------------------------------
(* The theorems *)

LEMMA RootNext == TypeInv /\ KindInv /\ [Next]_vars => TypeInv' /\ KindInv'
<1> SUFFICES ASSUME TypeInv, KindInv, [Next]_vars PROVE TypeInv' /\ KindInv'
  OBVIOUS
<1>1. CASE \E n \in Node : TimerFunc(n)
  BY <1>1, TimerStep
<1>2. CASE \E n \in Node : callback_usr2(n)
  BY <1>2, BridgeStep
<1>3. CASE \E n, r \in Node : recv_rann_Interrupted(n, r)
  BY <1>3, RannInterruptedStep
<1>4. CASE \E n \in Node : root_decision_Interrupted(n)
  BY <1>4, DecisionInterruptedStep
<1>5. CASE \E n \in Node : Crash(n)
  BY <1>5, CrashStep
<1>6. CASE \E n \in Node : Start(n)
  BY <1>6, StartStep
<1>7. CASE UNCHANGED vars
  BY <1>7 DEF vars, TypeInv, KindInv
<1> QED
  BY <1>1, <1>2, <1>3, <1>4, <1>5, <1>6, <1>7 DEF Next

\* Every table, pool and frame that the timers and receivers leave behind is of
\* its type, and the timeouts stay in range, whatever crashes, starts and
\* signals there are and wherever they interrupt recv_rann or root_decision.
THEOREM RootTypeCorrect == Spec => []TypeOK
<1>1. Init => TypeInv /\ KindInv
  BY RootInit
<1>2. TypeInv => TypeOK
  <2> SUFFICES ASSUME TypeInv PROVE TypeOK
    OBVIOUS
  <2>1. ASSUME NEW n \in Node
        PROVE  /\ node[n].root.mac \in Node \cup {None} /\ node[n].root.timeout \in 0..TIMEOUT
               /\ node[n].table \in [Node -> path_sel_entry]
               /\ node[n].out = <<>>
               /\ \A m \in Node : /\ node[n].pool[m].timeout \in 0..TIMEOUT
                                  /\ node[n].pann_retx[m] \in Frame \cup {NoFrame}
               /\ node[n].rann_retx \in Frame \cup {NoFrame}
    <3>1. node[n] \in Variables /\ node[n].out = <<>>
      BY DEF TypeInv
    <3>2. node[n].root \in RootEntry
      BY <3>1 DEF Variables
    <3>3. node[n].root.mac \in Node \cup {None} /\ node[n].root.timeout \in 0..TIMEOUT
      BY <3>2 DEF RootEntry
    <3>4. node[n].pool \in [Node -> [timeout : 0..TIMEOUT, beRoot : BOOLEAN]]
      BY <3>1 DEF Variables
    <3> QED BY <3>1, <3>3, <3>4 DEF Variables
  <2> QED BY <2>1 DEF TypeInv, TypeOK
<1> QED
  BY <1>1, <1>2, RootNext, PTL DEF Spec

\* A root is a portal that may be root and holds itself for the root, so that
\* pann_handler finds a kind of device it has timers for, with any number of
\* crashes, starts and signals, unless a signal has interrupted recv_rann or
\* root_decision of that node since it was started.
THEOREM RootIsPortal == Spec => []DeviceKind
<1>1. Init => TypeInv /\ KindInv
  BY RootInit
<1>2. TypeInv /\ KindInv => DeviceKind
  BY DEF TypeInv, KindInv, DeviceKind, Kind
<1> QED
  BY <1>1, <1>2, RootNext, PTL DEF Spec
=============================================================================
