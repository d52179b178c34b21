-------------------------- MODULE MeshDaemonProofs --------------------------
(***************************************************************************)
(* Proofs about the event loop of the path selection daemon, for a queue   *)
(* of any size.                                                            *)
(***************************************************************************)
EXTENDS MeshDaemon, TLAPS

\* Signals and the loop agree: a signal on its way will be caught, the daemon
\* that drains has gHasData set, and nothing has happened before main is done.
Agree ==
    /\ pending => usr1 = "caught" /\ registered
    /\ pc \in {"dequeue", "handle", "empty"} => gHasData
    /\ pc = "catch" => ~gHasData
    /\ pc = "install" => ~gHasData /\ ~registered

\* The inductive invariant of the event loop.
IInv == TypeOK /\ NeverDeaf /\ NoDoubleCatch /\ Agree

\* The daemon starts in a state that satisfies the invariant (main).
LEMMA InitIInv == Init => IInv
  BY QueueAssumption DEF Init, IInv, TypeOK, NeverDeaf, NoDoubleCatch, Agree

\* Every step of the driver, of a signal handler and of the loop preserves it.
LEMMA NextIInv == IInv /\ [Next]_vars => IInv'
<1> USE QueueAssumption
<1> SUFFICES ASSUME IInv, [Next]_vars PROVE IInv'
  OBVIOUS
<1> USE DEF IInv, TypeOK, NeverDeaf, NoDoubleCatch, Agree
<1>1. CASE Arrive
  <2>1. TypeOK'
    <3>1. queue' \in 0..QueueMax
      BY <1>1 DEF Arrive
    <3>2. pending' \in BOOLEAN
      BY <1>1, Zenon DEF Arrive
    <3> QED BY <1>1, <3>1, <3>2 DEF Arrive
  <2>2. NeverDeaf'
    BY <1>1 DEF Arrive
  <2>3. NoDoubleCatch'
    BY <1>1 DEF Arrive
  <2>4. Agree'
    BY <1>1 DEF Arrive
  <2> QED BY <2>1, <2>2, <2>3, <2>4
<1>2. CASE callback_usr1
  BY <1>2 DEF callback_usr1, Woken
<1>3. CASE TimerFunc
  BY <1>3 DEF TimerFunc, Woken
<1>4. CASE main
  <2>1. TypeOK'
    BY <1>4 DEF main
  <2>2. NeverDeaf'
    BY <1>4 DEF main
  <2>3. NoDoubleCatch'
    BY <1>4 DEF main
  <2>4. Agree'
    BY <1>4 DEF main
  <2> QED BY <2>1, <2>2, <2>3, <2>4
<1>5. CASE do_daemon
  <2>1. CASE pause
    BY <2>1 DEF pause, Goto
  <2>2. CASE while_gHasData
    BY <2>2 DEF while_gHasData, Goto
  <2>3. CASE dequeue
    BY <2>3 DEF dequeue, Goto
  <2>4. CASE handle
    BY <2>4 DEF handle, Goto
  <2>5. CASE queue_is_empty
    <3>1. TypeOK'
      BY <2>5 DEF queue_is_empty, Goto
    <3>2. NeverDeaf'
      BY <2>5 DEF queue_is_empty, Goto
    <3>3. NoDoubleCatch'
      BY <2>5 DEF queue_is_empty, Goto
    <3>4. Agree'
      BY <2>5 DEF queue_is_empty, Goto
    <3> QED BY <3>1, <3>2, <3>3, <3>4
  <2> QED BY <1>5, <2>1, <2>2, <2>3, <2>4, <2>5 DEF do_daemon
<1>6. CASE UNCHANGED vars
  BY <1>6 DEF vars
<1> QED BY <1>1, <1>2, <1>3, <1>4, <1>5, <1>6 DEF Next

\* Type correctness: main and do_daemon are in one of their places, the queue of
\* the driver stays within its size and the disposition of SIGUSR1 is one that the
\* daemon installs, whenever signals cut in.
THEOREM DaemonTypeCorrect == Spec => []TypeOK
<1>1. IInv => TypeOK
  BY DEF IInv
<1> QED BY InitIInv, NextIInv, <1>1, PTL DEF Spec

\* The daemon never sleeps with SIGUSR1 ignored and nothing to do: no order of
\* driver events, signals and steps of do_daemon leads there.
THEOREM DaemonNeverDeaf == Spec => [](TypeOK /\ NeverDeaf)
<1>1. IInv => TypeOK /\ NeverDeaf
  BY DEF IInv
<1> QED BY InitIInv, NextIInv, <1>1, PTL DEF Spec

\* While the daemon drains the queue its SIGUSR1 handler cannot run.
THEOREM DaemonNoDoubleCatch == Spec => []NoDoubleCatch
<1>1. IInv => NoDoubleCatch
  BY DEF IInv
<1> QED BY InitIInv, NextIInv, <1>1, PTL DEF Spec
=============================================================================
