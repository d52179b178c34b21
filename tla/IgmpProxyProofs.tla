-------------------------- MODULE IgmpProxyProofs --------------------------
(***************************************************************************)
(* What the IGMP proxy keeps true for any number of groups and hosts, any  *)
(* size of its two tables and any intervals: the kernel routes the listed  *)
(* groups, every listed group is watched by a timer, and a timer drops a   *)
(* group only after asking for it.                                         *)
(***************************************************************************)
EXTENDS IgmpProxy, NaturalsLemmas, FiniteSetTheorems, TLAPS

\* A listed group is one that can be learned, and the queries sent for it and
\* the retries left together exceed the queries it takes to drop it.
Asks ==
    \A s \in mcpq :
      /\ mcft[s].grp \in Group
      /\ asked[mcft[s].grp] + mcft[s].retry_left > LAST_MEMBER_QUERY_COUNT

\* The inductive invariant.
IInv == TypeOK /\ RoutesFollowGroups /\ Watched /\ Asks

-----------------------------------------------------------------------------
(* The tables *)

\* The first free slot is a free slot (find_mcft_entry_from_tbl).
LEMMA FreeSlot ==
    ASSUME free_mcft # {}
    PROVE  Min(free_mcft) \in Slot /\ Min(free_mcft) \notin valid
<1>1. free_mcft \in SUBSET Nat
  BY IgmpAssumption DEF free_mcft, Slot
<1>2. Min(free_mcft) \in free_mcft
  BY <1>1, LeastNumber DEF Min
<1> QED
  BY <1>2 DEF free_mcft

\* get_mcft finds the entry of a listed group.
LEMMA ListedSlot ==
    ASSUME NEW g \in Listed
    PROVE  get_mcft(g) \in mcpq /\ mcft[get_mcft(g)].grp = g
BY DEF Listed, get_mcft

\* The members are finitely many.
LEMMA MembersFinite == IsFiniteSet(Members) /\ MembersUsed \in Nat
<1>1. IsFiniteSet(Slot)
  BY FS_Interval, IgmpAssumption DEF Slot
<1>2. IsFiniteSet(Slot \X Host)
  BY <1>1, FS_Product, IgmpAssumption
<1>3. IsFiniteSet(Members)
  BY <1>2, FS_Subset DEF Members
<1> QED
  BY <1>3, FS_CardinalityType DEF MembersUsed

\* Fewer members use fewer entries of mbr_entry_tbl.
LEMMA MembersShrink ==
    ASSUME Members' \subseteq Members
    PROVE  MembersUsed' <= MembersUsed
<1>1. IsFiniteSet(Members)
  BY MembersFinite
<1> QED
  BY <1>1, FS_Subset DEF MembersUsed

\* One more member uses one more entry (find_mbr_entry_from_tbl).
LEMMA MembersGrow ==
    ASSUME NEW x, Members' \subseteq Members \cup {x}
    PROVE  MembersUsed' <= MembersUsed + 1
<1>1. /\ IsFiniteSet(Members \cup {x})
      /\ Cardinality(Members \cup {x}) <= MembersUsed + 1
  BY MembersFinite, FS_AddElement DEF MembersUsed
<1>2. Cardinality(Members') <= Cardinality(Members \cup {x})
  BY <1>1, FS_Subset
<1>3. /\ Cardinality(Members') \in Nat
      /\ Cardinality(Members \cup {x}) \in Nat
      /\ MembersUsed \in Nat
  BY <1>1, MembersFinite, FS_CardinalityType, FS_Subset
<1> QED
  BY <1>1, <1>2, <1>3 DEF MembersUsed

\* retry_left is unsigned, but above 0 it is decremented as a number.
LEMMA DecrementedType ==
    ASSUME NEW n \in 1..(RetryMod - 1)
    PROVE  Decremented(n) = n - 1
BY IgmpAssumption DEF Decremented

\* A group has members exactly if user_count is not 0.
LEMMA UserCount ==
    ASSUME NEW s \in Slot, mcft[s].users \in SUBSET Host
    PROVE  user_count(s) # 0 <=> mcft[s].users # {}
<1>1. IsFiniteSet(mcft[s].users)
  BY FS_Subset, IgmpAssumption
<1> QED
  BY <1>1, FS_EmptySet DEF user_count

\* What a report leaves in the entry (add_group_and_src).
LEMMA ReportedEntry ==
    ASSUME NEW g \in Group, NEW u \in SUBSET Host
    PROVE  Reported(g, u) \in Entry
BY IgmpAssumption DEF Entry, Reported

-----------------------------------------------------------------------------
(* The invariant: one lemma for each operation *)

\* A process that has just started: the state of Init, and of hup's end.
Fresh ==
    /\ mcft = [s \in Slot |-> NoEntry]
    /\ valid = {} /\ mcpq = {} /\ routes = {} /\ joined = {}
    /\ query = init_igmp /\ asked = [g \in Group |-> 0] /\ events \in 0..MaxEvent

\* It satisfies the invariant.
LEMMA FreshIInv == Fresh => IInv
<1> SUFFICES ASSUME Fresh
             PROVE  IInv
  OBVIOUS
<1> USE DEF Fresh
<1>1. TypeOK
  <2>1. NoEntry \in Entry
    BY IgmpAssumption DEF NoEntry, Entry, Off
  <2>2. query \in [Query -> [retry_left : 0..(RetryMod - 1), timer : Int]]
    <3> SUFFICES ASSUME NEW q \in Query
                 PROVE  /\ Interval[q] \in Int /\ Off \in Int
                        /\ Times[q] \in 0..(RetryMod - 1) /\ 0 \in 0..(RetryMod - 1)
      BY DEF init_igmp
    <3> QED BY IgmpAssumption DEF Off
  <2>3. asked \in [Group -> 0..LAST_MEMBER_QUERY_COUNT]
    BY IgmpAssumption
  <2> QED BY <2>1, <2>2, <2>3 DEF TypeOK
<1>2. RoutesFollowGroups
  <2>1. Listed = {} /\ Members = {}
    BY DEF Listed, Members
  <2>2. MembersUsed = 0
    BY <2>1, FS_EmptySet DEF MembersUsed
  <2> QED BY <2>1, <2>2, IgmpAssumption DEF RoutesFollowGroups
<1>3. Watched
  BY DEF Watched, NoEntry
<1>4. Asks
  BY DEF Asks
<1> QED BY <1>1, <1>2, <1>3, <1>4 DEF IInv

\* A report for a new group: it takes a slot and a member, and is routed.
LEMMA LearnIInv ==
    ASSUME IInv, NEW g \in Group, NEW src \in Host, Event,
           Learn(g, src), asked' = [asked EXCEPT ![g] = 0], UNCHANGED query
    PROVE  IInv'
<1> DEFINE s == Min(free_mcft)
           e == Reported(g, {src})
<1>1. /\ s \in Slot /\ s \notin valid /\ s \notin mcpq
      /\ mcft \in [Slot -> Entry]
  BY FreeSlot DEF IInv, TypeOK, Learn
<1>2. /\ e \in Entry
      /\ e.grp = g /\ e.users = {src}
      /\ e.retry_left = MEMBER_QUERY_COUNT + 1
      /\ e.timer = MEMBER_QUERY_INTERVAL
  BY ReportedEntry DEF Reported
<1>3. /\ mcft' = [mcft EXCEPT ![s] = e]
      /\ valid' = valid \cup {s} /\ mcpq' = mcpq \cup {s}
      /\ routes' = routes \cup {g} /\ joined' \subseteq joined \cup {g}
      /\ g \notin Listed /\ MembersUsed < MAX_MBR_ENTRY
  BY DEF Learn, add_mr
<1> HIDE DEF s, e
<1>4. /\ mcft' \in [Slot -> Entry]
      /\ mcft'[s] = e
      /\ \A t \in Slot \ {s} : mcft'[t] = mcft[t]
  BY <1>1, <1>2, <1>3
<1>5. mcpq \subseteq Slot \ {s}
  BY <1>1 DEF IInv, TypeOK
<1>6. TypeOK'
  BY <1>1, <1>3, <1>4, IgmpAssumption DEF IInv, TypeOK, Event
<1>7. RoutesFollowGroups'
  <2>1. Listed' = Listed \cup {g}
    BY <1>2, <1>3, <1>4, <1>5 DEF Listed
  <2>2. \A t \in mcpq : mcft'[t].grp # g /\ mcft'[t] = mcft[t]
    BY <1>3, <1>4, <1>5 DEF Listed
  <2>3. \A t, v \in mcpq' : mcft'[t].grp = mcft'[v].grp => t = v
    BY <1>2, <1>3, <1>4, <2>2 DEF IInv, RoutesFollowGroups
  <2>4. Members' \subseteq Members \cup {<<s, src>>}
    BY <1>2, <1>3, <1>4, <1>5 DEF Members
  <2>5. MembersUsed' <= MAX_MBR_ENTRY
    <3>1. MembersUsed' <= MembersUsed + 1
      BY <2>4, MembersGrow
    <3>2. MembersUsed' \in Nat
      <4>1. IsFiniteSet(Members \cup {<<s, src>>})
        BY MembersFinite, FS_AddElement
      <4> QED BY <4>1, <2>4, FS_Subset, FS_CardinalityType DEF MembersUsed
    <3> QED BY <3>1, <3>2, <1>3, MembersFinite, IgmpAssumption
  <2> QED BY <1>3, <2>1, <2>3, <2>5 DEF IInv, RoutesFollowGroups
<1>8. Watched'
  BY <1>1, <1>2, <1>3, <1>4, IgmpAssumption DEF IInv, Watched, Off
<1>9. Asks'
  <2>1. \A t \in mcpq : mcft'[t] = mcft[t] /\ mcft[t].grp # g
    BY <1>3, <1>4, <1>5 DEF Listed
  <2>2. \A h \in Group \ {g} : asked'[h] = asked[h]
    BY DEF IInv, TypeOK
  <2>3. asked'[g] = 0
    BY DEF IInv, TypeOK
  <2> QED BY <1>2, <1>3, <1>4, <2>1, <2>2, <2>3, IgmpAssumption DEF IInv, Asks
<1> QED BY <1>6, <1>7, <1>8, <1>9 DEF IInv

\* A report that finds no slot or no member changes at most what is in use.
LEMMA LearnFailsIInv ==
    ASSUME IInv, NEW g \in Group, Event,
           LearnFails(g), asked' = [asked EXCEPT ![g] = 0], UNCHANGED query
    PROVE  IInv'
<1>1. TypeOK'
  <2>1. valid' \subseteq Slot /\ valid \subseteq valid'
    BY FreeSlot DEF IInv, TypeOK, LearnFails
  <2> QED BY <2>1, IgmpAssumption DEF IInv, TypeOK, LearnFails, Event
<1>2. RoutesFollowGroups'
  BY DEF IInv, RoutesFollowGroups, Listed, MembersUsed, Members, LearnFails
<1>3. Watched'
  BY DEF IInv, Watched, LearnFails
<1>4. Asks'
  <2>1. \A t \in mcpq : mcft[t].grp # g
    BY DEF Listed, LearnFails
  <2>2. \A h \in Group \ {g} : asked'[h] = asked[h]
    BY DEF IInv, TypeOK
  <2> QED BY <2>1, <2>2 DEF IInv, Asks, LearnFails
<1> QED BY <1>1, <1>2, <1>3, <1>4 DEF IInv

\* A slot of a listed group that keeps its group keeps the list, and so the
\* routes; only its members, its retries and its timer are new.
LEMMA SameList ==
    ASSUME IInv, NEW s \in mcpq, NEW e \in Entry, e.grp = mcft[s].grp,
           mcft' = [mcft EXCEPT ![s] = e],
           UNCHANGED <<mcpq, routes, joined>>
    PROVE  /\ mcft' \in [Slot -> Entry] /\ mcft'[s] = e
           /\ \A t \in Slot \ {s} : mcft'[t] = mcft[t]
           /\ Listed' = Listed
           /\ MembersUsed' <= MAX_MBR_ENTRY => RoutesFollowGroups'
<1>1. s \in Slot /\ mcpq \subseteq Slot /\ mcft \in [Slot -> Entry]
  BY DEF IInv, TypeOK
<1>2. /\ mcft' \in [Slot -> Entry] /\ mcft'[s] = e
      /\ \A t \in Slot \ {s} : mcft'[t] = mcft[t]
  BY <1>1
<1>3. \A t \in mcpq : mcft'[t].grp = mcft[t].grp
  BY <1>1, <1>2
<1>4. Listed' = Listed
  BY <1>3 DEF Listed
<1>5. MembersUsed' <= MAX_MBR_ENTRY => RoutesFollowGroups'
  BY <1>3, <1>4 DEF IInv, RoutesFollowGroups
<1> QED BY <1>2, <1>4, <1>5

\* A report for a listed group starts its timer again.
LEMMA RenewIInv ==
    ASSUME IInv, NEW g \in Group, NEW src \in Host, Event,
           Renew(g, src), asked' = [asked EXCEPT ![g] = 0], UNCHANGED query
    PROVE  IInv'
<1> DEFINE s == get_mcft(g)
           added == IF MembersUsed < MAX_MBR_ENTRY THEN {src} ELSE {}
           e == Reported(g, mcft[s].users \cup added)
<1>1. /\ s \in mcpq /\ mcft[s].grp = g /\ s \in Slot
      /\ mcft \in [Slot -> Entry] /\ mcpq \subseteq Slot
  BY ListedSlot DEF IInv, TypeOK, Renew
<1>2. mcft[s].users \in SUBSET Host /\ mcft[s].users # {}
  BY <1>1 DEF IInv, Watched, Entry
<1>3. /\ e \in Entry
      /\ e.grp = g /\ e.users = mcft[s].users \cup added
      /\ e.retry_left = MEMBER_QUERY_COUNT + 1
      /\ e.timer = MEMBER_QUERY_INTERVAL
  BY <1>2, ReportedEntry DEF Reported
<1>4. /\ mcft' = [mcft EXCEPT ![s] = e]
      /\ UNCHANGED <<valid, mcpq, routes, joined>>
  BY DEF Renew
<1> HIDE DEF s, e
<1>5. /\ mcft' \in [Slot -> Entry] /\ mcft'[s] = e
      /\ \A t \in Slot \ {s} : mcft'[t] = mcft[t]
      /\ MembersUsed' <= MAX_MBR_ENTRY => RoutesFollowGroups'
  BY <1>1, <1>3, <1>4, SameList
<1>6. TypeOK'
  BY <1>4, <1>5, IgmpAssumption DEF IInv, TypeOK, Event
<1>7. MembersUsed' <= MAX_MBR_ENTRY
  <2>1. CASE MembersUsed < MAX_MBR_ENTRY
    <3>1. Members' \subseteq Members \cup {<<s, src>>}
      BY <1>1, <1>3, <1>4, <1>5, <2>1 DEF Members
    <3>2. MembersUsed' <= MembersUsed + 1
      BY <3>1, MembersGrow
    <3>3. MembersUsed' \in Nat
      <4>1. IsFiniteSet(Members \cup {<<s, src>>})
        BY MembersFinite, FS_AddElement
      <4> QED BY <4>1, <3>1, FS_Subset, FS_CardinalityType DEF MembersUsed
    <3> QED BY <2>1, <3>2, <3>3, MembersFinite, IgmpAssumption
  <2>2. CASE ~(MembersUsed < MAX_MBR_ENTRY)
    <3>1. Members' = Members
      BY <1>1, <1>3, <1>4, <1>5, <2>2 DEF Members
    <3> QED BY <3>1 DEF IInv, RoutesFollowGroups, MembersUsed
  <2> QED BY <2>1, <2>2
<1>8. Watched'
  BY <1>1, <1>2, <1>3, <1>4, <1>5, IgmpAssumption DEF IInv, Watched, Off
<1>9. Asks'
  <2>1. \A t \in mcpq \ {s} : mcft'[t] = mcft[t] /\ mcft[t].grp # g
    BY <1>1, <1>5 DEF IInv, RoutesFollowGroups
  <2>2. asked'[g] = 0 /\ \A h \in Group \ {g} : asked'[h] = asked[h]
    BY DEF IInv, TypeOK
  <2> QED BY <1>3, <1>4, <1>5, <2>1, <2>2, IgmpAssumption DEF IInv, Asks
<1> QED BY <1>5, <1>6, <1>7, <1>8, <1>9 DEF IInv

\* One more query: the count for g grows, up to LAST_MEMBER_QUERY_COUNT, and no
\* other count changes.
LEMMA QueryCounted ==
    ASSUME IInv, NEW g \in Group \cup {"none"}, igmp_query(g)
    PROVE  /\ asked' \in [Group -> 0..LAST_MEMBER_QUERY_COUNT]
           /\ \A h \in Group : asked'[h] >= asked[h]
           /\ g \in Group => asked'[g] > asked[g] \/ asked'[g] = LAST_MEMBER_QUERY_COUNT
<1>1. asked \in [Group -> 0..LAST_MEMBER_QUERY_COUNT]
  BY DEF IInv, TypeOK
<1> DEFINE n == IF asked[g] < LAST_MEMBER_QUERY_COUNT THEN asked[g] + 1 ELSE asked[g]
<1>2. asked' = [asked EXCEPT ![g] = n]
  BY DEF igmp_query
<1>3. CASE g \in Group
  <2>1. /\ n \in 0..LAST_MEMBER_QUERY_COUNT
        /\ n > asked[g] \/ n = LAST_MEMBER_QUERY_COUNT
        /\ n >= asked[g]
    BY <1>1, <1>3, IgmpAssumption
  <2> HIDE DEF n
  <2> QED BY <1>1, <1>2, <1>3, <2>1
<1>4. CASE g \notin Group
  <2> HIDE DEF n
  <2>1. asked' = asked
    BY <1>1, <1>2, <1>4
  <2> QED BY <1>1, <1>4, <2>1
<1> QED BY <1>3, <1>4

\* Dropping the entry of a listed group takes the group, and no other, off the
\* list, and its members with it (del_mr and del_mcft).
LEMMA Dropped ==
    ASSUME IInv, NEW s \in mcpq, NEW g, g = mcft[s].grp, del_mr(g), del_mcft(s),
           \A t \in Slot \ {s} : mcft'[t] = mcft[t]
    PROVE  /\ RoutesFollowGroups'
           /\ Listed' = Listed \ {g}
           /\ mcpq' \subseteq valid' /\ valid' \subseteq Slot
<1>1. mcpq \subseteq Slot /\ mcpq \subseteq valid /\ valid \subseteq Slot
  BY DEF IInv, TypeOK
<1>2. mcpq' = mcpq \ {s} /\ valid' = valid \ {s}
  BY DEF del_mcft
<1>3. \A t \in mcpq' : t \in mcpq /\ mcft'[t] = mcft[t] /\ mcft[t].grp # g
  BY <1>1, <1>2 DEF IInv, RoutesFollowGroups
<1>4. Listed' = Listed \ {g}
  BY <1>2, <1>3 DEF Listed
<1>5. Members' \subseteq Members
  BY <1>1, <1>2, <1>3 DEF Members
<1>6. MembersUsed' <= MAX_MBR_ENTRY
  <2>1. MembersUsed' <= MembersUsed
    BY <1>5, MembersShrink
  <2>2. MembersUsed' \in Nat
    BY <1>5, MembersFinite, FS_Subset, FS_CardinalityType DEF MembersUsed
  <2> QED BY <2>1, <2>2, MembersFinite, IgmpAssumption DEF IInv, RoutesFollowGroups
<1>7. RoutesFollowGroups'
  BY <1>3, <1>4, <1>6 DEF IInv, RoutesFollowGroups, del_mr
<1> QED BY <1>1, <1>2, <1>4, <1>7

\* A leave: the group goes with its last known member, and the timer of its
\* slot starts again in any case.
LEMMA LeaveIInv ==
    ASSUME IInv, NEW g \in Group, NEW src \in Host, Event, del_group_and_src(g, src)
    PROVE  IInv'
<1> DEFINE s == get_mcft(g)
           e == [grp |-> g, users |-> mcft[s].users \ {src},
                 retry_left |-> LAST_MEMBER_QUERY_COUNT,
                 timer |-> LAST_MEMBER_QUERY_INTERVAL]
<1>1. /\ s \in mcpq /\ mcft[s].grp = g /\ s \in Slot
      /\ mcft \in [Slot -> Entry] /\ mcpq \subseteq Slot
  BY ListedSlot DEF IInv, TypeOK, del_group_and_src
<1>2. mcft[s].users \in SUBSET Host
  BY <1>1 DEF Entry
<1>3. /\ e \in Entry
      /\ e.grp = g /\ e.users = mcft[s].users \ {src}
      /\ e.retry_left = LAST_MEMBER_QUERY_COUNT
      /\ e.timer = LAST_MEMBER_QUERY_INTERVAL
  BY <1>2, IgmpAssumption DEF Entry
<1>4. /\ mcft' = [mcft EXCEPT ![s] = e]
      /\ igmp_query(g) /\ UNCHANGED query
  BY DEF del_group_and_src
<1>5. IF mcft[s].users \subseteq {src}
        THEN del_mr(g) /\ del_mcft(s)
        ELSE UNCHANGED <<mcpq, valid, routes, joined>>
  BY DEF del_group_and_src
<1> HIDE DEF s, e
<1>6. /\ mcft' \in [Slot -> Entry] /\ mcft'[s] = e
      /\ \A t \in Slot \ {s} : mcft'[t] = mcft[t]
  BY <1>1, <1>3, <1>4
<1>7. /\ asked' \in [Group -> 0..LAST_MEMBER_QUERY_COUNT]
      /\ \A h \in Group : asked'[h] >= asked[h]
      /\ asked'[g] > asked[g] \/ asked'[g] = LAST_MEMBER_QUERY_COUNT
  BY <1>4, QueryCounted
<1>8. asked \in [Group -> 0..LAST_MEMBER_QUERY_COUNT]
  BY DEF IInv, TypeOK
<1>9. CASE mcft[s].users \subseteq {src}
  <2>1. del_mr(g) /\ del_mcft(s)
    BY <1>5, <1>9
  <2>2. /\ RoutesFollowGroups' /\ mcpq' \subseteq valid' /\ valid' \subseteq Slot
    BY <1>1, <1>6, <2>1, Dropped
  <2>3. TypeOK'
    BY <1>4, <1>6, <1>7, <2>2, IgmpAssumption DEF IInv, TypeOK, Event
  <2>4. e.users = {}
    BY <1>3, <1>9
  <2>5. Watched'
    BY <1>1, <1>3, <1>6, <2>1, <2>4, IgmpAssumption DEF IInv, Watched, Off, del_mcft
  <2>6. Asks'
    <3> SUFFICES ASSUME NEW t \in mcpq'
                 PROVE  /\ mcft'[t].grp \in Group
                        /\ asked'[mcft'[t].grp] + mcft'[t].retry_left
                             > LAST_MEMBER_QUERY_COUNT
      BY DEF Asks
    <3>1. t \in mcpq /\ mcft'[t] = mcft[t] /\ mcft[t] \in Entry
      BY <1>1, <1>6, <2>1 DEF del_mcft
    <3>2. /\ mcft[t].grp \in Group
          /\ asked[mcft[t].grp] + mcft[t].retry_left > LAST_MEMBER_QUERY_COUNT
          /\ mcft[t].retry_left \in Nat
      BY <3>1 DEF IInv, Asks, Entry
    <3> QED BY <1>7, <1>8, <3>1, <3>2, IgmpAssumption
  <2> QED BY <2>2, <2>3, <2>5, <2>6 DEF IInv
<1>10. CASE ~(mcft[s].users \subseteq {src})
  <2>1. UNCHANGED <<mcpq, valid, routes, joined>>
    BY <1>5, <1>10
  <2>2. MembersUsed' <= MAX_MBR_ENTRY => RoutesFollowGroups'
    BY <1>1, <1>3, <1>4, <2>1, SameList
  <2>3. Members' \subseteq Members
    BY <1>1, <1>3, <1>6, <2>1 DEF Members
  <2>4. MembersUsed' <= MAX_MBR_ENTRY
    <3>1. MembersUsed' <= MembersUsed
      BY <2>3, MembersShrink
    <3>2. MembersUsed' \in Nat
      BY <2>3, MembersFinite, FS_Subset, FS_CardinalityType DEF MembersUsed
    <3> QED BY <3>1, <3>2, MembersFinite, IgmpAssumption DEF IInv, RoutesFollowGroups
  <2>5. TypeOK'
    BY <1>4, <1>6, <1>7, <2>1, IgmpAssumption DEF IInv, TypeOK, Event
  <2>6. Watched'
    <3>1. e.users # {}
      BY <1>3, <1>10
    <3> QED BY <1>1, <1>3, <1>6, <2>1, <3>1, IgmpAssumption DEF IInv, Watched, Off
  <2>7. Asks'
    <3> SUFFICES ASSUME NEW t \in mcpq
                 PROVE  /\ mcft'[t].grp \in Group
                        /\ asked'[mcft'[t].grp] + mcft'[t].retry_left
                             > LAST_MEMBER_QUERY_COUNT
      BY <2>1 DEF Asks
    <3>1. CASE t = s
      BY <1>3, <1>6, <1>7, <1>8, <3>1, IgmpAssumption
    <3>2. CASE t # s
      <4>1. mcft'[t] = mcft[t] /\ mcft[t] \in Entry
        BY <1>1, <1>6, <3>2
      <4>2. /\ mcft[t].grp \in Group
            /\ asked[mcft[t].grp] + mcft[t].retry_left > LAST_MEMBER_QUERY_COUNT
            /\ mcft[t].retry_left \in Nat
        BY <4>1 DEF IInv, Asks, Entry
      <4> QED BY <1>7, <1>8, <4>1, <4>2, IgmpAssumption
    <3> QED BY <3>1, <3>2
  <2> QED BY <2>2, <2>4, <2>5, <2>6, <2>7 DEF IInv
<1> QED BY <1>9, <1>10

\* A timer that runs out counts one retry down, and it is the timer of a listed
\* group exactly if its slot has members; then get_mcft finds that slot.
LEMMA DueTimer ==
    ASSUME IInv, NEW s \in Slot, mcft[s].timer = 0
    PROVE  /\ mcft[s] \in Entry
           /\ mcft[s].retry_left \in 1..(MEMBER_QUERY_COUNT + 1)
           /\ Decremented(mcft[s].retry_left) = mcft[s].retry_left - 1
           /\ user_count(s) # 0 <=> s \in mcpq
           /\ s \in mcpq => mcft[s].grp \in Listed /\ get_mcft(mcft[s].grp) = s
<1>1. mcft[s] \in Entry
  BY DEF IInv, TypeOK
<1>2. mcft[s].retry_left \in 1..(MEMBER_QUERY_COUNT + 1)
  BY DEF IInv, Watched, Off
<1>3. Decremented(mcft[s].retry_left) = mcft[s].retry_left - 1
  BY <1>2, DecrementedType, IgmpAssumption
<1>4. user_count(s) # 0 <=> s \in mcpq
  BY <1>1, UserCount DEF IInv, Watched, Off, Entry
<1>5. ASSUME s \in mcpq
      PROVE  mcft[s].grp \in Listed /\ get_mcft(mcft[s].grp) = s
  <2>1. mcft[s].grp \in Listed
    BY <1>5 DEF Listed
  <2>2. get_mcft(mcft[s].grp) \in mcpq /\ mcft[get_mcft(mcft[s].grp)].grp = mcft[s].grp
    BY <2>1, ListedSlot
  <2> QED BY <1>5, <2>1, <2>2 DEF IInv, RoutesFollowGroups
<1> QED BY <1>1, <1>2, <1>3, <1>4, <1>5

\* The timer of a slot runs out.
LEMMA SpecificIInv ==
    ASSUME IInv, NEW s \in Slot, igmp_specific_timer_expired(s)
    PROVE  IInv'
<1> DEFINE left == Decremented(mcft[s].retry_left)
           g == mcft[s].grp
           drops == user_count(s) # 0 /\ g \in Listed
<1>1. /\ mcft[s].timer = 0 /\ UNCHANGED <<query, events>>
      /\ mcft \in [Slot -> Entry] /\ mcpq \subseteq Slot
      /\ mcpq \subseteq valid /\ valid \subseteq Slot
      /\ asked \in [Group -> 0..LAST_MEMBER_QUERY_COUNT]
  BY DEF igmp_specific_timer_expired, IInv, TypeOK
<1>2. /\ mcft[s] \in Entry /\ g \in Group \cup {"none"}
      /\ mcft[s].retry_left \in 1..(MEMBER_QUERY_COUNT + 1)
      /\ left = mcft[s].retry_left - 1
      /\ left \in 0..(RetryMod - 1)
      /\ drops <=> s \in mcpq
      /\ s \in mcpq => get_mcft(g) = s
  BY <1>1, DueTimer, IgmpAssumption DEF Entry
<1>3. ASSUME NEW i \in Int
      PROVE  Rearmed(mcft[s], left, i) \in Entry
  BY <1>2, <1>3 DEF Rearmed, Entry
<1>4. CASE left = 0 /\ drops
  <2>1. /\ s \in mcpq /\ del_mr(g) /\ del_mcft(s) /\ UNCHANGED asked
        /\ mcft' = [t \in Slot |-> IF t = s THEN Rearmed(mcft[s], left, Off)
                      ELSE IF t = get_mcft(g) THEN [mcft[t] EXCEPT !.timer = Off]
                      ELSE mcft[t]]
    BY <1>2, <1>4 DEF igmp_specific_timer_expired
  <2>2. /\ mcft'[s] = Rearmed(mcft[s], left, Off)
        /\ \A t \in Slot \ {s} : mcft'[t] = mcft[t]
        /\ mcft' = [t \in Slot |-> IF t = s THEN Rearmed(mcft[s], left, Off) ELSE mcft[t]]
    BY <1>2, <2>1
  <2>3. mcft' \in [Slot -> Entry]
    <3>1. Rearmed(mcft[s], left, Off) \in Entry
      BY <1>3 DEF Off
    <3> QED BY <1>1, <2>2, <3>1
  <2>4. RoutesFollowGroups' /\ mcpq' \subseteq valid' /\ valid' \subseteq Slot
    BY <2>1, <2>2, Dropped
  <2>5. TypeOK'
    BY <1>1, <2>1, <2>3, <2>4 DEF IInv, TypeOK
  <2>6. Watched'
    <3>1. mcft'[s].timer = Off /\ s \notin mcpq'
      BY <2>1, <2>2 DEF del_mcft, Rearmed
    <3>2. \A t \in Slot \ {s} : mcft'[t] = mcft[t] /\ (t \in mcpq' <=> t \in mcpq)
      BY <2>1, <2>2 DEF del_mcft
    <3> QED BY <3>1, <3>2 DEF IInv, Watched
  <2>7. Asks'
    BY <1>1, <2>1, <2>2 DEF IInv, Asks, del_mcft
  <2> QED BY <2>4, <2>5, <2>6, <2>7 DEF IInv
<1>5. CASE left = 0 /\ ~drops
  <2>1. /\ s \notin mcpq /\ UNCHANGED <<mcpq, valid, routes, joined, asked>>
        /\ mcft' = [mcft EXCEPT ![s] = Rearmed(mcft[s], left, Off)]
    BY <1>2, <1>5 DEF igmp_specific_timer_expired
  <2>2. Rearmed(mcft[s], left, Off) \in Entry
    BY <1>3 DEF Off
  <2>3. /\ mcft' \in [Slot -> Entry]
        /\ mcft'[s] = Rearmed(mcft[s], left, Off)
        /\ \A t \in Slot \ {s} : mcft'[t] = mcft[t]
        /\ \A t \in mcpq : mcft'[t] = mcft[t]
    BY <1>1, <2>1, <2>2
  <2>4. TypeOK'
    BY <1>1, <2>1, <2>3 DEF IInv, TypeOK
  <2>5. RoutesFollowGroups'
    <3>1. Listed' = Listed /\ Members' = Members
      BY <2>1, <2>3 DEF Listed, Members
    <3> QED BY <2>1, <2>3, <3>1 DEF IInv, RoutesFollowGroups, MembersUsed
  <2>6. Watched'
    BY <2>1, <2>3 DEF IInv, Watched, Rearmed
  <2>7. Asks'
    BY <2>1, <2>3 DEF IInv, Asks
  <2> QED BY <2>4, <2>5, <2>6, <2>7 DEF IInv
<1>6. CASE left > 0
  <2> DEFINE e == Rearmed(mcft[s], left, LAST_MEMBER_QUERY_INTERVAL)
  <2>1. /\ mcft' = [mcft EXCEPT ![s] = e] /\ igmp_query(g)
        /\ UNCHANGED <<mcpq, valid, routes, joined>>
    BY <1>2, <1>6 DEF igmp_specific_timer_expired
  <2>2. /\ e \in Entry /\ e.grp = g /\ e.users = mcft[s].users
        /\ e.retry_left = left /\ e.timer = LAST_MEMBER_QUERY_INTERVAL
    BY <1>3, IgmpAssumption DEF Rearmed
  <2> HIDE DEF e
  <2>3. /\ mcft' \in [Slot -> Entry] /\ mcft'[s] = e
        /\ \A t \in Slot \ {s} : mcft'[t] = mcft[t]
    BY <1>1, <2>1, <2>2
  <2>4. /\ asked' \in [Group -> 0..LAST_MEMBER_QUERY_COUNT]
        /\ \A h \in Group : asked'[h] >= asked[h]
        /\ g \in Group => asked'[g] > asked[g] \/ asked'[g] = LAST_MEMBER_QUERY_COUNT
    BY <1>2, <2>1, QueryCounted
  <2>5. TypeOK'
    BY <1>1, <2>1, <2>3, <2>4 DEF IInv, TypeOK
  <2>6. RoutesFollowGroups'
    <3>1. \A t \in mcpq : mcft'[t].grp = mcft[t].grp /\ mcft'[t].users = mcft[t].users
      BY <1>1, <2>2, <2>3
    <3>2. Listed' = Listed /\ Members' = Members
      BY <2>1, <3>1 DEF Listed, Members
    <3> QED BY <2>1, <3>1, <3>2 DEF IInv, RoutesFollowGroups, MembersUsed
  <2>7. Watched'
    BY <1>1, <1>2, <1>6, <2>1, <2>2, <2>3, IgmpAssumption DEF IInv, Watched, Off
  <2>8. Asks'
    <3> SUFFICES ASSUME NEW t \in mcpq
                 PROVE  /\ mcft'[t].grp \in Group
                        /\ asked'[mcft'[t].grp] + mcft'[t].retry_left
                             > LAST_MEMBER_QUERY_COUNT
      BY <2>1 DEF Asks
    <3>1. /\ mcft[t].grp \in Group /\ mcft[t] \in Entry
          /\ asked[mcft[t].grp] + mcft[t].retry_left > LAST_MEMBER_QUERY_COUNT
          /\ mcft[t].retry_left \in Nat
      BY <1>1 DEF IInv, Asks, Entry
    <3>2. CASE t = s
      BY <1>1, <1>2, <1>6, <2>2, <2>3, <2>4, <3>1, <3>2, IgmpAssumption
    <3>3. CASE t # s
      BY <1>1, <2>3, <2>4, <3>1, <3>3, IgmpAssumption
    <3> QED BY <3>2, <3>3
  <2> QED BY <2>5, <2>6, <2>7, <2>8 DEF IInv
<1> QED BY <1>2, <1>4, <1>5, <1>6

\* Only the general query timers and the event count change.
LEMMA QueriesIInv ==
    ASSUME IInv, UNCHANGED <<mcft, valid, mcpq, routes, joined, asked>>,
           query' \in [Query -> [retry_left : 0..(RetryMod - 1), timer : Int]],
           events' \in 0..MaxEvent
    PROVE  IInv'
<1>1. TypeOK'
  BY DEF IInv, TypeOK
<1>2. RoutesFollowGroups'
  BY DEF IInv, RoutesFollowGroups, Listed, MembersUsed, Members
<1>3. Watched' /\ Asks'
  BY DEF IInv, Watched, Asks
<1> QED BY <1>1, <1>2, <1>3 DEF IInv

\* Time passes for every timer, or goes back: none stops.
LEMMA ElapseIInv ==
    ASSUME IInv, NEW d \in Int, Elapse(d), events' \in 0..MaxEvent
    PROVE  IInv'
<1>1. /\ mcft \in [Slot -> Entry] /\ mcpq \subseteq Slot
      /\ query \in [Query -> [retry_left : 0..(RetryMod - 1), timer : Int]]
      /\ UNCHANGED <<valid, mcpq, routes, joined, asked>>
  BY DEF IInv, TypeOK, Elapse
<1>2. ASSUME NEW s \in Slot
      PROVE  /\ mcft'[s] \in Entry
             /\ mcft'[s].grp = mcft[s].grp /\ mcft'[s].users = mcft[s].users
             /\ mcft'[s].retry_left = mcft[s].retry_left
             /\ mcft'[s].timer = Off <=> mcft[s].timer = Off
  <2>1. mcft[s] \in Entry /\ mcft[s].timer \in Int
    BY <1>1, <1>2 DEF Entry
  <2>2. CASE mcft[s].timer = Off
    BY <1>2, <2>1, <2>2 DEF Elapse
  <2>3. CASE mcft[s].timer # Off
    <3> DEFINE i == IF mcft[s].timer > d THEN mcft[s].timer - d ELSE 0
    <3>1. mcft'[s] = [mcft[s] EXCEPT !.timer = i]
      BY <1>2, <2>3 DEF Elapse
    <3>2. i \in Int /\ i # Off
      BY <2>1 DEF Off
    <3> HIDE DEF i
    <3> QED BY <2>1, <2>3, <3>1, <3>2 DEF Entry
  <2> QED BY <2>2, <2>3
<1>3. mcft' \in [Slot -> Entry]
  <2>1. mcft' = [s \in Slot |-> mcft'[s]]
    BY Zenon DEF Elapse
  <2> QED BY <1>2, <2>1
<1>4. query' \in [Query -> [retry_left : 0..(RetryMod - 1), timer : Int]]
  BY <1>1 DEF Elapse
<1>5. TypeOK'
  BY <1>1, <1>3, <1>4 DEF IInv, TypeOK
<1>6. RoutesFollowGroups'
  <2>1. Listed' = Listed /\ Members' = Members
    BY <1>1, <1>2 DEF Listed, Members
  <2> QED BY <1>1, <1>2, <2>1 DEF IInv, RoutesFollowGroups, MembersUsed
<1>7. Watched'
  BY <1>1, <1>2 DEF IInv, Watched
<1>8. Asks'
  BY <1>1, <1>2 DEF IInv, Asks
<1> QED BY <1>5, <1>6, <1>7, <1>8 DEF IInv

\* The longest interval is a number.
LEMMA LongestInterval ==
    Max({MEMBER_QUERY_INTERVAL, LAST_MEMBER_QUERY_INTERVAL}
        \cup {Interval[q] : q \in Query}) \in Nat
<1> DEFINE T == {MEMBER_QUERY_INTERVAL, LAST_MEMBER_QUERY_INTERVAL}
                \cup {Interval[q] : q \in Query}
           a == Interval["startup"]
           b == Interval["link"]
           c == Interval["general"]
<1>1. /\ T = {MEMBER_QUERY_INTERVAL, LAST_MEMBER_QUERY_INTERVAL, a, b, c}
      /\ a \in Nat /\ b \in Nat /\ c \in Nat
      /\ MEMBER_QUERY_INTERVAL \in Nat /\ LAST_MEMBER_QUERY_INTERVAL \in Nat
  BY IgmpAssumption DEF Query
<1> HIDE DEF T, a, b, c
<1>2. \E x \in T : \A y \in T : x >= y
  BY <1>1
<1>3. Max(T) \in T
  BY <1>2 DEF Max
<1> QED BY <1>1, <1>3 DEF T

\* A report is one of three.
LEMMA ReportIInv ==
    ASSUME IInv, NEW g \in Group, NEW src \in Host, Event, add_group_and_src(g, src)
    PROVE  IInv'
BY LearnIInv, LearnFailsIInv, RenewIInv DEF add_group_and_src

-----------------------------------------------------------------------------
(* The invariant *)

\* The proxy starts in a state that satisfies the invariant.
LEMMA InitIInv == Init => IInv
BY FreshIInv, IgmpAssumption DEF Init, Fresh

\* Every packet, timer and signal preserves it.
LEMMA NextIInv == IInv /\ [Next]_vars => IInv'
<1> SUFFICES ASSUME IInv, [Next]_vars
             PROVE  IInv'
  OBVIOUS
<1>1. events \in 0..MaxEvent /\ (Event => events' \in 0..MaxEvent)
  BY IgmpAssumption DEF IInv, TypeOK, Event
<1>2. query \in [Query -> [retry_left : 0..(RetryMod - 1), timer : Int]]
  BY DEF IInv, TypeOK
<1>3. ASSUME NEW g \in Group, NEW src \in Host, igmp_accept(g, src)
      PROVE  IInv'
  BY <1>3, ReportIInv, LeaveIInv DEF igmp_accept
<1>4. ASSUME NEW s \in Slot, igmp_specific_timer_expired(s)
      PROVE  IInv'
  BY <1>4, SpecificIInv
<1>5. ASSUME NEW q \in Query, igmp_general_query_timer_expired(q)
      PROVE  IInv'
  <2>1. ASSUME query[q].retry_left # 0
        PROVE  Decremented(query[q].retry_left) \in 0..(RetryMod - 1)
    <3>1. query[q].retry_left \in 1..(RetryMod - 1)
      BY <1>2, <2>1, IgmpAssumption
    <3> QED BY <3>1, DecrementedType, IgmpAssumption
  <2>2. Interval[q] \in Int /\ Off \in Int
    BY IgmpAssumption DEF Off
  <2>3. query' \in [Query -> [retry_left : 0..(RetryMod - 1), timer : Int]]
    BY <1>2, <1>5, <2>1, <2>2 DEF igmp_general_query_timer_expired
  <2> QED BY <1>1, <1>5, <2>3, QueriesIInv DEF igmp_general_query_timer_expired
<1>6. CASE Tick
  BY <1>1, <1>6, ElapseIInv DEF Tick
<1>7. CASE callback_usr2
  <2>1. Interval["link"] \in Int /\ Off \in Int /\ Times["link"] \in 0..(RetryMod - 1)
    BY IgmpAssumption DEF Off, Query
  <2>2. query' \in [Query -> [retry_left : 0..(RetryMod - 1), timer : Int]]
    <3>1. PICK i \in {Interval["link"], Off} :
            query' = [query EXCEPT !["link"] = [retry_left |-> Times["link"], timer |-> i]]
      BY <1>7 DEF callback_usr2
    <3> QED BY <1>2, <2>1, <3>1
  <2> QED BY <1>1, <1>7, <2>2, QueriesIInv DEF callback_usr2
<1>8. CASE ClockSet
  <2>1. PICK d \in Int : Elapse(d)
    BY <1>8, LongestInterval, IgmpAssumption DEF ClockSet
  <2> QED BY <1>1, <1>8, <2>1, ElapseIInv DEF ClockSet
<1>9. CASE hup
  <2>1. events' \in 0..MaxEvent
    BY <1>1, <1>9 DEF hup
  <2>2. Fresh'
    BY <1>9, <2>1 DEF hup, Fresh, init_igmp
  <2> QED BY <2>2, FreshIInv, PTL
<1>10. CASE UNCHANGED vars
  BY <1>1, <1>2, <1>10, QueriesIInv DEF vars
<1> QED BY <1>3, <1>4, <1>5, <1>6, <1>7, <1>8, <1>9, <1>10 DEF Next, calltimeout

\* The inductive invariant holds in every state.
LEMMA Invariance == Spec => []IInv
<1> QED BY InitIInv, NextIInv, PTL DEF Spec

-----------------------------------------------------------------------------
(* What it gives *)

\* Type correctness: the tables hold entries, retry_left fits its width and no
\* slot is listed that is not in use.
THEOREM TypeCorrect == Spec => []TypeOK
<1>1. IInv => TypeOK
  BY DEF IInv
<1> QED BY <1>1, Invariance, PTL

\* The kernel routes exactly the listed groups, each listed once, no group stays
\* joined after it is dropped, and mbr_entry_tbl is not overrun.
THEOREM RoutesAreTheGroups == Spec => []RoutesFollowGroups
<1>1. IInv => RoutesFollowGroups
  BY DEF IInv
<1> QED BY <1>1, Invariance, PTL

\* Every listed group has a running timer with queries left, the timer of a freed
\* slot finds no member, and retry_left never wraps below 0.
THEOREM GroupsAreWatched == Spec => []Watched
<1>1. IInv => Watched
  BY DEF IInv
<1> QED BY <1>1, Invariance, PTL

\* A timer drops only its own group, and only at its last retry.
LEMMA TimerDropsAsked ==
    ASSUME IInv, calltimeout, NEW h \in Listed \ Listed'
    PROVE  asked[h] >= LAST_MEMBER_QUERY_COUNT
<1>1. ASSUME NEW q \in Query, igmp_general_query_timer_expired(q)
      PROVE  FALSE
  BY <1>1 DEF igmp_general_query_timer_expired, Listed
<1>2. PICK s \in Slot : igmp_specific_timer_expired(s)
  BY <1>1 DEF calltimeout
<1> DEFINE left == Decremented(mcft[s].retry_left)
           g == mcft[s].grp
           drops == user_count(s) # 0 /\ g \in Listed
<1>3. /\ mcft[s].timer = 0
      /\ mcft \in [Slot -> Entry] /\ mcpq \subseteq Slot
  BY <1>2 DEF igmp_specific_timer_expired, IInv, TypeOK
<1>4. /\ mcft[s].retry_left \in 1..(MEMBER_QUERY_COUNT + 1)
      /\ left = mcft[s].retry_left - 1
      /\ user_count(s) # 0 <=> s \in mcpq
      /\ s \in mcpq => get_mcft(g) = s
  BY <1>3, DueTimer
<1>5. CASE left = 0 /\ drops
  <2>1. /\ s \in mcpq /\ mcpq' = mcpq \ {s}
        /\ \A t \in Slot \ {s} : mcft'[t] = mcft[t]
    BY <1>2, <1>4, <1>5 DEF igmp_specific_timer_expired, del_mcft
  <2>2. h = g
    BY <1>3, <2>1 DEF Listed
  <2>3. g \in Group /\ asked[g] + mcft[s].retry_left > LAST_MEMBER_QUERY_COUNT
    BY <2>1 DEF IInv, Asks
  <2>4. asked[g] \in Nat
    BY <2>3, IgmpAssumption DEF IInv, TypeOK
  <2> QED BY <1>4, <1>5, <2>2, <2>3, <2>4, IgmpAssumption
<1>6. CASE ~(left = 0 /\ drops)
  <2>1. mcpq' = mcpq /\ \A t \in mcpq : mcft'[t].grp = mcft[t].grp
    <3>1. PICK i, n : mcft' = [mcft EXCEPT ![s] = Rearmed(mcft[s], n, i)] /\ mcpq' = mcpq
      BY <1>2, <1>6 DEF igmp_specific_timer_expired
    <3>2. Rearmed(mcft[s], n, i).grp = mcft[s].grp
      BY DEF Rearmed
    <3> QED BY <1>3, <3>1, <3>2
  <2>2. Listed' = Listed
    BY <2>1 DEF Listed
  <2> QED BY <2>2
<1> QED BY <1>5, <1>6

\* A timer never drops a group that has not been asked for often enough since
\* its last report.
THEOREM DroppedAfterAsking == Spec => AskedTwice
<1>1. IInv /\ [Next]_vars =>
        [calltimeout =>
           \A g \in Listed \ Listed' : asked[g] >= LAST_MEMBER_QUERY_COUNT]_vars
  BY TimerDropsAsked
<1> QED BY <1>1, Invariance, PTL DEF Spec, AskedTwice

\* A slot is lost only to a report that found every member entry in use.
THEOREM SlotsAreKept == Spec => NoSlotLost
<1> DEFINE A == valid' \ mcpq' # valid \ mcpq =>
                  MembersUsed = MAX_MBR_ENTRY \/ valid' = {}
<1>1. ASSUME IInv, Next
      PROVE  A
  <2>1. mcpq \subseteq valid
    BY <1>1 DEF IInv, TypeOK
  <2>2. ASSUME NEW g \in Group, NEW src \in Host, Learn(g, src)
        PROVE  A
    <3>1. Min(free_mcft) \notin valid
      BY <2>2, FreeSlot DEF Learn
    <3> QED BY <2>1, <2>2, <3>1 DEF Learn
  <2>3. ASSUME NEW g \in Group, LearnFails(g)
        PROVE  A
    <3>1. CASE free_mcft = {}
      BY <2>3, <3>1 DEF LearnFails
    <3>2. CASE free_mcft # {}
      BY <1>1, <2>3, <3>2, MembersFinite, IgmpAssumption
         DEF LearnFails, IInv, RoutesFollowGroups
    <3> QED BY <3>1, <3>2
  <2>4. ASSUME NEW s \in mcpq, del_mcft(s)
        PROVE  A
    BY <2>1, <2>4 DEF del_mcft
  <2>5. ASSUME NEW g \in Group, NEW src \in Host, igmp_accept(g, src)
        PROVE  A
    <3>1. CASE add_group_and_src(g, src)
      BY <2>2, <2>3, <3>1 DEF add_group_and_src, Renew
    <3>2. CASE del_group_and_src(g, src)
      BY <2>4, <3>2, ListedSlot DEF del_group_and_src
    <3> QED BY <2>5, <3>1, <3>2 DEF igmp_accept
  <2>6. ASSUME NEW s \in Slot, igmp_specific_timer_expired(s)
        PROVE  A
    BY <2>4, <2>6, ListedSlot DEF igmp_specific_timer_expired
  <2>7. ASSUME NEW q \in Query, igmp_general_query_timer_expired(q)
        PROVE  A
    BY <2>7 DEF igmp_general_query_timer_expired
  <2>8. CASE Tick \/ callback_usr2 \/ ClockSet
    BY <2>8 DEF Tick, callback_usr2, ClockSet, Elapse
  <2>9. CASE hup
    BY <2>9 DEF hup
  <2> QED BY <1>1, <2>5, <2>6, <2>7, <2>8, <2>9 DEF Next, calltimeout
<1>2. IInv /\ [Next]_vars => [A]_vars
  BY <1>1
<1> QED BY <1>2, Invariance, PTL DEF Spec, NoSlotLost
=============================================================================
