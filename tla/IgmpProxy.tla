----------------------------- MODULE IgmpProxy -----------------------------
(***************************************************************************)
(* The IGMP proxy (rtk-igmpproxy: main.c with timeout.c).  It learns from  *)
(* the reports of the hosts in the LAN which multicast groups they listen  *)
(* to, joins them upstream and routes them, and drops a group when its     *)
(* last known member leaves or when nobody answers its queries.            *)
(*                                                                         *)
(* Groups and their members live in two static tables.  A group's timer is *)
(* part of its slot, and the list of running timers (callout) may hold the *)
(* timer of a slot that has been freed, and reused, in the meantime.       *)
(*                                                                         *)
(* The main loop handles one packet or one due timer at a time.  Packets   *)
(* that the proxy takes no notice of are left out.                         *)
(***************************************************************************)
EXTENDS Integers, FiniteSets, FiniteSetsExt

CONSTANTS
    Group, Host,        \* group addresses that may be learned; hosts
    MAX_MFCT_ENTRY, MAX_MBR_ENTRY,     \* sizes of the two tables
    MaxJoin,            \* the kernel's limit of memberships (external)
    LAST_MEMBER_QUERY_INTERVAL, LAST_MEMBER_QUERY_COUNT,
    MEMBER_QUERY_INTERVAL, MEMBER_QUERY_COUNT,
    Interval,           \* Interval[q]: the interval of general query timer q
    Times,              \* Times[q]: how often a limited one sends
    RetryMod,           \* 2^32: retry_left is unsigned
    MaxBack,            \* bound: seconds by which the clock is set back
    MaxEvent            \* bound: packets, signals, restarts and clock changes

Query == {"startup", "link", "general"}

ASSUME IgmpAssumption ==
    /\ IsFiniteSet(Host)
    /\ MAX_MFCT_ENTRY \in Nat /\ MAX_MBR_ENTRY \in Nat /\ MaxJoin \in Nat
    /\ LAST_MEMBER_QUERY_INTERVAL \in Nat \ {0}
    /\ MEMBER_QUERY_INTERVAL \in Nat \ {0}
    /\ LAST_MEMBER_QUERY_COUNT \in Nat \ {0}
    /\ MEMBER_QUERY_COUNT \in Nat /\ RetryMod \in Nat
    /\ LAST_MEMBER_QUERY_COUNT <= MEMBER_QUERY_COUNT
    /\ MEMBER_QUERY_COUNT + 1 < RetryMod
    /\ Interval \in [Query -> Nat \ {0}]
    /\ Times \in [Query -> Nat]
    /\ \A q \in Query : Times[q] < RetryMod
    /\ MaxBack \in Nat /\ MaxEvent \in Nat

Slot == 1..MAX_MFCT_ENTRY
Off == -1    \* the time left of a timer that is not in the callout list

VARIABLES
    mcft,     \* mcft[s]: the entry in slot s of mcft_entry_tbl
    valid,    \* slots in use
    mcpq,     \* slots in the list of groups
    query,    \* query[q]: the timers of the general queries
    routes,   \* groups the kernel forwards
    joined,   \* groups the kernel has joined upstream
    asked,    \* history: queries tried for a group since its last report
    events    \* events so far

vars == <<mcft, valid, mcpq, query, routes, joined, asked, events>>

\* grp_mbr and user_count stay as they are when a slot is freed.
Entry == [grp : Group \cup {"none"}, users : SUBSET Host,
          retry_left : 0..(RetryMod - 1), timer : Int]

user_count(s) == Cardinality(mcft[s].users)
Listed == {mcft[s].grp : s \in mcpq}
get_mcft(g) == CHOOSE s \in mcpq : mcft[s].grp = g

\* The entries of mbr_entry_tbl in use: one for each member of a listed group.
Members == {m \in Slot \X Host : m[1] \in mcpq /\ m[2] \in mcft[m[1]].users}
MembersUsed == Cardinality(Members)

-----------------------------------------------------------------------------
(***************************************************************************)
(* Start: init_igmp, the clearing of the tables and the first query.       *)
(***************************************************************************)
NoEntry == [grp |-> "none", users |-> {}, retry_left |-> 0, timer |-> Off]

init_igmp ==
    [q \in Query |->
       [retry_left |-> IF q = "link" THEN 0 ELSE Times[q],
        timer |-> IF q = "link" THEN Off ELSE Interval[q]]]

Init ==
    /\ mcft = [s \in Slot |-> NoEntry]
    /\ valid = {} /\ mcpq = {} /\ routes = {} /\ joined = {}
    /\ query = init_igmp
    /\ asked = [g \in Group |-> 0]
    /\ events = 0

Event == events < MaxEvent /\ events' = events + 1

\* hup: the process ends, and the kernel forgets its routes and memberships;
\* it is started again.
hup ==
    /\ Event
    /\ mcft' = [s \in Slot |-> NoEntry]
    /\ valid' = {} /\ mcpq' = {} /\ routes' = {} /\ joined' = {}
    /\ query' = init_igmp
    /\ asked' = [g \in Group |-> 0]

-----------------------------------------------------------------------------
(***************************************************************************)
(* Reports and leaves.                                                     *)
(***************************************************************************)
\* The failure of IP_ADD_MEMBERSHIP is not noticed.
add_mr(g) ==
    /\ joined' = IF Cardinality(joined) < MaxJoin THEN joined \cup {g} ELSE joined
    /\ routes' = routes \cup {g}

\* Mutant of del_mr: the route stays.
del_mr_KeepsRoute(g) ==
    /\ joined' = joined \ {g}
    /\ UNCHANGED routes

\* Dropping a group that was never joined fails and changes nothing.
del_mr(g) ==
    /\ joined' = joined \ {g}
    /\ routes' = routes \ {g}

\* What add_group_and_src writes into the entry it has found or made.
Reported(g, users) ==
    [grp |-> g, users |-> users,
     retry_left |-> MEMBER_QUERY_COUNT + 1, timer |-> MEMBER_QUERY_INTERVAL]

\* add_mcft takes the first free slot.
free_mcft == Slot \ valid

Learn(g, src) ==
    /\ g \notin Listed /\ free_mcft # {} /\ MembersUsed < MAX_MBR_ENTRY
    /\ LET s == Min(free_mcft) IN
         /\ valid' = valid \cup {s} /\ mcpq' = mcpq \cup {s}
         /\ mcft' = [mcft EXCEPT ![s] = Reported(g, {src})]
    /\ add_mr(g)

\* The slot is taken before a member is looked for, and not given back.
LearnFails(g) ==
    /\ g \notin Listed /\ (free_mcft = {} \/ MembersUsed >= MAX_MBR_ENTRY)
    /\ valid' = IF free_mcft = {} THEN valid ELSE valid \cup {Min(free_mcft)}
    /\ UNCHANGED <<mcft, mcpq, routes, joined>>

\* Mutant of Renew: the timer is stopped and not started again.
Renew_Unwatched(g, src) ==
    /\ g \in Listed
    /\ LET s == get_mcft(g)
           added == IF MembersUsed < MAX_MBR_ENTRY THEN {src} ELSE {}
       IN mcft' = [mcft EXCEPT ![s] =
                     [Reported(g, mcft[s].users \cup added) EXCEPT !.timer = Off]]
    /\ UNCHANGED <<valid, mcpq, routes, joined>>

\* The timer starts again, also if add_user finds no room for the member.
Renew(g, src) ==
    /\ g \in Listed
    /\ LET s == get_mcft(g)
           added == IF MembersUsed < MAX_MBR_ENTRY THEN {src} ELSE {}
       IN mcft' = [mcft EXCEPT ![s] = Reported(g, mcft[s].users \cup added)]
    /\ UNCHANGED <<valid, mcpq, routes, joined>>

add_group_and_src(g, src) ==
    /\ Learn(g, src) \/ LearnFails(g) \/ Renew(g, src)
    /\ asked' = [asked EXCEPT ![g] = 0]
    /\ UNCHANGED query

\* One more query for g, whether or not it can be sent; nobody looks at the
\* result.  Two are as good as many.
igmp_query(g) ==
    asked' = [asked EXCEPT ![g] =
                IF @ < LAST_MEMBER_QUERY_COUNT THEN @ + 1 ELSE @]

\* Mutants of del_mcft: the slot stays in use, or in the list.
del_mcft_KeepsSlot(s) == mcpq' = mcpq \ {s} /\ UNCHANGED valid
del_mcft_KeepsListed(s) == valid' = valid \ {s} /\ UNCHANGED mcpq

del_mcft(s) == mcpq' = mcpq \ {s} /\ valid' = valid \ {s}

\* A leave.  del_mcft stops the timer of a group without members, but it is
\* started again: the freed slot then has a timer.
del_group_and_src(g, src) ==
    /\ g \in Listed
    /\ LET s == get_mcft(g) IN
         /\ mcft' = [mcft EXCEPT ![s] =
                       [grp |-> g, users |-> mcft[s].users \ {src},
                        retry_left |-> LAST_MEMBER_QUERY_COUNT,
                        timer |-> LAST_MEMBER_QUERY_INTERVAL]]
         /\ IF mcft[s].users \subseteq {src}
              THEN del_mr(g) /\ del_mcft(s)
              ELSE UNCHANGED <<mcpq, valid, routes, joined>>
    /\ igmp_query(g)
    /\ UNCHANGED query

\* Version 1 and 2 reports, TO_EX and TO_IN with sources; IS_IN and IS_EX,
\* which are taken only for a known group; leaves and TO_IN without sources.
igmp_accept(g, src) ==
    /\ Event
    /\ \/ add_group_and_src(g, src)
       \/ g \in Listed /\ add_group_and_src(g, src)
       \/ del_group_and_src(g, src)

-----------------------------------------------------------------------------
(***************************************************************************)
(* Timers.                                                                 *)
(***************************************************************************)
Decremented(n) == (n - 1) % RetryMod

\* An entry with n retries and t seconds left.
Rearmed(e, n, t) == [grp |-> e.grp, users |-> e.users, retry_left |-> n, timer |-> t]

\* Mutant of igmp_specific_timer_expired: the members are not looked at.
igmp_specific_timer_expired_Blind(s) ==
    LET left == Decremented(mcft[s].retry_left)
        g == mcft[s].grp
    IN
    /\ mcft[s].timer = 0
    /\ \/ /\ left = 0 /\ g \in Listed
          /\ del_mr(g) /\ del_mcft(get_mcft(g))
          /\ mcft' = [t \in Slot |->
               IF t = s THEN Rearmed(mcft[s], left, Off)
               ELSE IF t = get_mcft(g) THEN [mcft[t] EXCEPT !.timer = Off]
               ELSE mcft[t]]
          /\ UNCHANGED asked
       \/ /\ left = 0 /\ g \notin Listed
          /\ mcft' = [mcft EXCEPT ![s] = Rearmed(@, left, Off)]
          /\ UNCHANGED <<mcpq, valid, routes, joined, asked>>
       \/ /\ left > 0
          /\ mcft' = [mcft EXCEPT ![s] =
                        Rearmed(@, left, LAST_MEMBER_QUERY_INTERVAL)]
          /\ igmp_query(g)
          /\ UNCHANGED <<mcpq, valid, routes, joined>>
    /\ UNCHANGED <<query, events>>

\* The last time, a group that has members is dropped; del_mr and del_mcft
\* look it up by its address.  Otherwise it is asked for again.
igmp_specific_timer_expired(s) ==
    LET left == Decremented(mcft[s].retry_left)
        g == mcft[s].grp
        drops == user_count(s) # 0 /\ g \in Listed
    IN
    /\ mcft[s].timer = 0
    /\ \/ /\ left = 0 /\ drops
          /\ del_mr(g) /\ del_mcft(get_mcft(g))
          /\ mcft' = [t \in Slot |->
               IF t = s THEN Rearmed(mcft[s], left, Off)
               ELSE IF t = get_mcft(g) THEN [mcft[t] EXCEPT !.timer = Off]
               ELSE mcft[t]]
          /\ UNCHANGED asked
       \/ /\ left = 0 /\ ~drops
          /\ mcft' = [mcft EXCEPT ![s] = Rearmed(@, left, Off)]
          /\ UNCHANGED <<mcpq, valid, routes, joined, asked>>
       \/ /\ left > 0
          /\ mcft' = [mcft EXCEPT ![s] =
                        Rearmed(@, left, LAST_MEMBER_QUERY_INTERVAL)]
          /\ igmp_query(g)
          /\ UNCHANGED <<mcpq, valid, routes, joined>>
    /\ UNCHANGED <<query, events>>

\* Mutant of igmp_general_query_timer_expired: the retries are not counted.
igmp_general_query_timer_expired_Uncounted(q) ==
    /\ query[q].timer = 0
    /\ query' = [query EXCEPT ![q].timer =
         IF query[q].retry_left = 0 THEN Off ELSE Interval[q]]
    /\ UNCHANGED <<mcft, valid, mcpq, routes, joined, asked, events>>

igmp_general_query_timer_expired(q) ==
    /\ query[q].timer = 0
    /\ query' = [query EXCEPT ![q] =
         IF q = "general" THEN [@ EXCEPT !.timer = Interval[q]]
         ELSE IF @.retry_left = 0 THEN [@ EXCEPT !.timer = Off]
         ELSE [retry_left |-> Decremented(@.retry_left), timer |-> Interval[q]]]
    /\ UNCHANGED <<mcft, valid, mcpq, routes, joined, asked, events>>

\* SIGUSR2, a link has changed.  If it interrupts the main loop while timeout
\* puts another timer at the head of the callout list, or untimeout takes the
\* first one or this one off, the timer does not stay in the list.
callback_usr2 ==
    /\ Event
    /\ \E stays \in BOOLEAN :
         /\ stays \/ query["link"].timer \in {Off, 0}
         /\ query' = [query EXCEPT !["link"] =
                        [retry_left |-> Times["link"],
                         timer |-> IF stays THEN Interval["link"] ELSE Off]]
    /\ UNCHANGED <<mcft, valid, mcpq, routes, joined, asked>>

\* The clock moves by d seconds: a timer is due, or d seconds closer; farther
\* away, if d is negative.
Elapse(d) ==
    /\ mcft' = [s \in Slot |-> IF mcft[s].timer = Off THEN mcft[s]
                               ELSE [mcft[s] EXCEPT !.timer = IF @ > d THEN @ - d ELSE 0]]
    /\ query' = [q \in Query |-> IF query[q].timer = Off THEN query[q]
                                 ELSE [query[q] EXCEPT !.timer = IF @ > d THEN @ - d ELSE 0]]
    /\ UNCHANGED <<valid, mcpq, routes, joined, asked>>

Due == (\E s \in Slot : mcft[s].timer = 0) \/ (\E q \in Query : query[q].timer = 0)

\* A second passes; calltimeout runs ten times as often.
Tick ==
    /\ ~Due
    /\ Elapse(1)
    /\ UNCHANGED events

\* The clock is set (gettimeofday); setting it forward by more than the longest
\* interval makes no difference.
ClockSet ==
    /\ Event
    /\ \/ \E d \in 1..Max({MEMBER_QUERY_INTERVAL, LAST_MEMBER_QUERY_INTERVAL}
                          \cup {Interval[q] : q \in Query}) : Elapse(d)
       \/ \E d \in 1..MaxBack : Elapse(-d)

calltimeout ==
    \/ \E s \in Slot : igmp_specific_timer_expired(s)
    \/ \E q \in Query : igmp_general_query_timer_expired(q)

Next ==
    \/ \E g \in Group, src \in Host : igmp_accept(g, src)
    \/ calltimeout
    \/ Tick
    \/ callback_usr2
    \/ ClockSet
    \/ hup

Spec == Init /\ [][Next]_vars

\* Time passes and the main loop runs.
FairSpec == Spec /\ WF_vars(Tick \/ calltimeout)

-----------------------------------------------------------------------------
TypeOK ==
    /\ mcft \in [Slot -> Entry]
    /\ mcpq \subseteq valid /\ valid \subseteq Slot
    /\ query \in [Query -> [retry_left : 0..(RetryMod - 1), timer : Int]]
    /\ asked \in [Group -> 0..LAST_MEMBER_QUERY_COUNT]
    /\ events \in 0..MaxEvent

(***************************************************************************)
(* RoutesFollowGroups: a group is listed once, the kernel routes exactly   *)
(* the listed groups ("system only forward multicast packets which group   *)
(* address learned by IGMP report", main.c), no group stays joined         *)
(* upstream after it is dropped, and the tables are not overrun, although  *)
(* groups are dropped by address from timers of slots that changed hands.  *)
(***************************************************************************)
RoutesFollowGroups ==
    /\ \A s, t \in mcpq : mcft[s].grp = mcft[t].grp => s = t
    /\ routes = Listed /\ joined \subseteq Listed
    /\ MembersUsed <= MAX_MBR_ENTRY

(***************************************************************************)
(* Watched: the timer of every listed group runs, with queries left to     *)
(* send, so that no group can stay for ever; the timer of a freed slot     *)
(* runs only after a leave, with no member and few retries, and            *)
(* retry_left, which is unsigned, is never decremented from 0.             *)
(***************************************************************************)
Watched ==
    \A s \in Slot :
      /\ s \in mcpq => mcft[s].timer # Off /\ mcft[s].users # {}
      /\ mcft[s].timer # Off => mcft[s].retry_left \in 1..(MEMBER_QUERY_COUNT + 1)
      /\ mcft[s].timer # Off /\ s \notin mcpq =>
           mcft[s].users = {} /\ mcft[s].retry_left <= LAST_MEMBER_QUERY_COUNT

\* AskedTwice: a timer drops a group only when it has been asked for at least
\* LAST_MEMBER_QUERY_COUNT times since the last report ("query twice to make
\* sure there is no other member", main.c), also when a report or a leave
\* comes between the queries, the slot had another group, or the clock is set.
AskedTwice ==
    [][calltimeout =>
         \A g \in Listed \ Listed' : asked[g] >= LAST_MEMBER_QUERY_COUNT]_vars

\* NoSlotLost: a slot that is in use and not in the list, which nothing ever
\* frees, comes only from a report that found no room for a member (add_mcft).
NoSlotLost ==
    [][valid' \ mcpq' # valid \ mcpq =>
         MembersUsed = MAX_MBR_ENTRY \/ valid' = {}]_vars

\* Quiesces: when the hosts fall silent every group is dropped and every timer
\* ends but the one of the periodical general query.
Quiesces ==
    <>[](/\ mcpq = {} /\ routes = {}
         /\ \A s \in Slot : mcft[s].timer = Off
         /\ \A q \in Query \ {"general"} : query[q].timer = Off)
=============================================================================
