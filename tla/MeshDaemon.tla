----------------------------- MODULE MeshDaemon -----------------------------
(***************************************************************************)
(* The event loop of the path selection daemon (main, do_daemon,           *)
(* dequeue_from_driver, callback_usr1 and TimerFunc of pathselection.c).   *)
(* The wireless driver puts events into a queue and sends SIGUSR1; the     *)
(* daemon sleeps in pause, takes events until the driver says that the     *)
(* queue is empty, and ignores SIGUSR1 meanwhile.  SIGALRM comes once a    *)
(* second.  A signal may arrive between any two steps of the loop.         *)
(***************************************************************************)
EXTENDS Naturals

CONSTANT QueueMax  \* slots of the driver's queue

ASSUME QueueAssumption == QueueMax \in Nat \ {0}

VARIABLES
    queue,       \* number of events in the driver's queue
    gHasData,
    usr1,        \* what SIGUSR1 does: "ignored" or "caught"
    pending,     \* SIGUSR1 is on its way to the daemon
    registered,  \* the driver knows the daemon's pid
    pc           \* where the daemon is

vars == <<queue, gHasData, usr1, pending, registered, pc>>

Init ==
    /\ queue \in 0..QueueMax /\ gHasData = FALSE /\ usr1 = "ignored"
    /\ pending = FALSE /\ registered = FALSE /\ pc = "install"

\* The driver: an event arrives (a full queue drops it) and is signalled.
Arrive ==
    /\ queue' = IF queue < QueueMax THEN queue + 1 ELSE queue
    /\ pending' = IF registered /\ usr1 = "caught" THEN TRUE ELSE pending
    /\ UNCHANGED <<gHasData, usr1, registered, pc>>

\* pause returns once a handler has run.
Woken == pc' = IF pc = "asleep" THEN "check" ELSE pc

callback_usr1 ==
    /\ pending
    /\ gHasData' = TRUE /\ usr1' = "ignored" /\ pending' = FALSE
    /\ Woken
    /\ UNCHANGED <<queue, registered>>

\* Mutant of TimerFunc: the alarm does not end pause.
TimerFunc_NoWake ==
    /\ pc # "install"
    /\ registered' = TRUE
    /\ UNCHANGED <<queue, gHasData, usr1, pending, pc>>

\* SIGALRM: alarm(1) is set again in every run; every 16th run sends the pid
\* once more.
TimerFunc ==
    /\ pc # "install" /\ Woken
    /\ registered' = TRUE
    /\ UNCHANGED <<queue, gHasData, usr1, pending>>

\* main: the handler is set before the driver learns the pid.
main ==
    \/ /\ pc = "install" /\ usr1 = "ignored" /\ usr1' = "caught"
       /\ UNCHANGED <<queue, gHasData, pending, registered, pc>>
    \/ /\ pc = "install" /\ usr1 = "caught"
       /\ registered' = TRUE /\ pc' = "pause"
       /\ UNCHANGED <<queue, gHasData, usr1, pending>>

Goto(from, to) == pc = from /\ pc' = to

pause ==
    /\ Goto("pause", "asleep")
    /\ UNCHANGED <<queue, gHasData, usr1, pending, registered>>

\* Mutant of while_gHasData: what came before pause is forgotten.
while_gHasData_Once ==
    /\ Goto("check", IF gHasData THEN "dequeue" ELSE "pause")
    /\ gHasData' = FALSE
    /\ UNCHANGED <<queue, usr1, pending, registered>>

\* The condition of the inner loop of do_daemon.
while_gHasData ==
    /\ Goto("check", IF gHasData THEN "dequeue" ELSE "pause")
    /\ UNCHANGED <<queue, gHasData, usr1, pending, registered>>

\* Mutant of dequeue: an event is taken from an empty queue.
dequeue_Blind ==
    /\ Goto("dequeue", "handle")
    /\ queue' = queue - 1
    /\ UNCHANGED <<gHasData, usr1, pending, registered>>

\* DEQUEUEDATA_IOCTL: an event, or "Queue is empty".
dequeue ==
    /\ Goto("dequeue", IF queue > 0 THEN "handle" ELSE "empty")
    /\ queue' = IF queue > 0 THEN queue - 1 ELSE queue
    /\ UNCHANGED <<gHasData, usr1, pending, registered>>

\* The switch of do_daemon: gen_rreq, gen_rerr, recv_rreq, ..., recv_rann.
handle ==
    /\ Goto("handle", "check")
    /\ UNCHANGED <<queue, gHasData, usr1, pending, registered>>

\* Mutant of queue_is_empty: the signal is caught again before gHasData is cleared.
queue_is_empty_Swapped ==
    \/ /\ Goto("empty", "catch") /\ usr1' = "caught"
       /\ UNCHANGED <<queue, gHasData, pending, registered>>
    \/ /\ Goto("catch", "check") /\ gHasData' = FALSE
       /\ UNCHANGED <<queue, usr1, pending, registered>>

\* dequeue_from_driver when the queue was empty.
queue_is_empty ==
    \/ /\ Goto("empty", "catch") /\ gHasData' = FALSE
       /\ UNCHANGED <<queue, usr1, pending, registered>>
    \/ /\ Goto("catch", "check") /\ usr1' = "caught"
       /\ UNCHANGED <<queue, gHasData, pending, registered>>

do_daemon == pause \/ while_gHasData \/ dequeue \/ handle \/ queue_is_empty

Next == Arrive \/ callback_usr1 \/ TimerFunc \/ main \/ do_daemon

Spec == Init /\ [][Next]_vars

\* The daemon runs, signals are delivered and the alarm rings.  No event need
\* ever arrive: in a mesh without a portal nobody announces anything.
FairSpec ==
    /\ Spec /\ WF_vars(main) /\ WF_vars(do_daemon)
    /\ WF_vars(callback_usr1) /\ WF_vars(TimerFunc)

-----------------------------------------------------------------------------
TypeOK ==
    /\ queue \in 0..QueueMax
    /\ gHasData \in BOOLEAN /\ usr1 \in {"ignored", "caught"}
    /\ pending \in BOOLEAN /\ registered \in BOOLEAN
    /\ pc \in {"install", "pause", "asleep", "check", "dequeue", "handle",
               "empty", "catch"}

\* NeverDeaf: the daemon never goes to sleep with SIGUSR1 ignored unless the
\* loop will look at the queue when the alarm wakes it: otherwise no event
\* could ever reach it again.  It takes the order of the two assignments in
\* dequeue_from_driver and those in callback_usr1.
NeverDeaf ==
    usr1 = "ignored" => gHasData \/ pc \in {"install", "catch"}

\* NoDoubleCatch: while the daemon drains the queue, SIGUSR1 is ignored, so that
\* its handler never interrupts the loop between the last look at the queue
\* and the assignments that follow (callback_usr1, dequeue_from_driver).
NoDoubleCatch ==
    (gHasData \/ pc \in {"dequeue", "handle", "empty", "catch"}) =>
        usr1 = "ignored" /\ ~pending

\* The daemon is about to learn, or has learned and not forgotten, that there
\* are events: the signal is on its way, or the flag is set and the driver has
\* not said since that the queue is empty.
Signalled == pending \/ (gHasData /\ pc # "empty")

\* Drained: an event that was signalled is taken, although the signal may come
\* between the test of gHasData and pause (do_daemon), where only the alarm
\* wakes the daemon again.  Nothing is claimed of an event that comes after the
\* driver said that the queue is empty and before SIGUSR1 is caught again
\* (dequeue_from_driver): it is not signalled, and waits for the next one.
Drained == (queue > 0 /\ Signalled) ~> (pc = "handle")
=============================================================================
