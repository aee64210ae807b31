------------------------------- MODULE Worker -------------------------------
(***************************************************************************)
(* A worker: the client that starts and stops it, its activity thread      *)
(* (activity_task_loop) and its decision thread (DecisionTaskLoop.run),    *)
(* each with a connection of its own.  They share the counters             *)
(* threads_started and threads_stopped, the flag stop_requested and the    *)
(* list of connections, all without a lock.                                *)
(*                                                                         *)
(* What a thread does with a task is left out (see ReplayDecider): here it *)
(* ends, or fails in one of the ways the loops tell apart.                 *)
(***************************************************************************)
EXTENDS Integers, Sequences, FiniteSets

CONSTANTS
  Kinds,         \* what is registered: "activity", "decision" or both
  MaxStarts,     \* bound: how often the worker is started
  StopModes,     \* how the client stops it: "foreground", "background"
  RestartsAfter, \* after which of these the client may start it again
  MayRefuse,     \* whether the service may refuse a connection
  MayBreak       \* whether a connection may break

ASSUME WorkerAssumption ==
  /\ Kinds \subseteq {"activity", "decision"}
  /\ MaxStarts \in Nat
  /\ StopModes \subseteq {"foreground", "background"}
  /\ RestartsAfter \subseteq StopModes
  /\ MayRefuse \in BOOLEAN
  /\ MayBreak \in BOOLEAN

\* A thread is known by what it does and by the start that made it.
Thread == Kinds \X (1..MaxStarts)
Kind(t) == t[1]

VARIABLES
  starts,            \* how often start was called
  client,            \* where the client is: in start, in stop, or between them
  mode,              \* how it stops, or stopped last
  closing,           \* stop's index into service_instances
  threads_started,
  threads_stopped,
  stop_requested,
  service_instances, \* the threads whose connections are managed, in order
  pc,                \* where each thread is
  conn,              \* the connection of each thread
  loaded             \* what each thread has read of threads_stopped

clientVars == <<starts, client, mode, closing>>
sharedVars == <<threads_started, threads_stopped, stop_requested, service_instances>>
threadVars == <<pc, conn, loaded>>
vars == <<clientVars, sharedVars, threadVars>>

Init ==
  /\ starts = 0
  /\ client = "idle"
  /\ mode = "none"
  /\ closing = 0
  /\ threads_started = 0
  /\ threads_stopped = 0
  /\ stop_requested = FALSE
  /\ service_instances = <<>>
  /\ pc = [t \in Thread |-> "none"]
  /\ conn = [t \in Thread |-> "none"]
  /\ loaded = [t \in Thread |-> 0]

-----------------------------------------------------------------------------
(* Worker.start *)

\* Mutant: the counters go on from where they were.
Reset_flag == stop_requested' = FALSE /\ UNCHANGED <<threads_started, threads_stopped>>

\* Threads of an earlier start may still run, and find the counters reset.
Reset ==
  /\ threads_started' = 0
  /\ threads_stopped' = 0
  /\ stop_requested' = FALSE

start ==
  /\ client = "idle" \/ (client = "stopped" /\ mode \in RestartsAfter)
  /\ starts < MaxStarts
  /\ starts' = starts + 1
  /\ Reset
  /\ client' = "start activity"
  /\ UNCHANGED <<mode, closing, service_instances, threadVars>>

StartThread(kind) ==
  IF kind \in Kinds
  THEN /\ pc' = [pc EXCEPT ![<<kind, starts>>] = "create"]
       /\ threads_started' = threads_started + 1
  ELSE UNCHANGED <<pc, threads_started>>

StartActivityThread ==
  /\ client = "start activity"
  /\ StartThread("activity")
  /\ client' = "start decision"
  /\ UNCHANGED <<starts, mode, closing, threads_stopped, stop_requested, service_instances,
                 conn, loaded>>

StartDecisionThread ==
  /\ client = "start decision"
  /\ StartThread("decision")
  /\ client' = "started"
  /\ UNCHANGED <<starts, mode, closing, threads_stopped, stop_requested, service_instances,
                 conn, loaded>>

(* Worker.stop *)

\* Mutant: the flag is set for a foreground stop alone.
Requests_foreground(m) == m = "foreground"

\* Whether a stop in this mode sets stop_requested.
Requests(m) == TRUE

stop ==
  /\ client = "started"
  /\ \E m \in StopModes :
       /\ mode' = m
       /\ stop_requested' = Requests(m)
       /\ client' = IF m = "background" THEN "closing" ELSE "waiting"
  /\ closing' = 1
  /\ UNCHANGED <<starts, threads_started, threads_stopped, service_instances, threadVars>>

\* One turn of the loop over service_instances, which may grow meanwhile.  Closing a
\* connection again does nothing.
CloseService ==
  /\ client = "closing"
  /\ closing <= Len(service_instances)
  /\ conn' = [conn EXCEPT ![service_instances[closing]] = "closed"]
  /\ closing' = closing + 1
  /\ UNCHANGED <<starts, client, mode, sharedVars, pc, loaded>>

ClosedServices ==
  /\ client = "closing"
  /\ closing > Len(service_instances)
  /\ client' = "stopped"
  /\ UNCHANGED <<starts, mode, closing, sharedVars, threadVars>>

\* Mutant: it is enough that one thread has stopped.
AllStopped_any == threads_stopped > 0

AllStopped == threads_stopped = threads_started

\* stop looks at the counters every five seconds.
StopReturns ==
  /\ client = "waiting"
  /\ AllStopped
  /\ client' = "stopped"
  /\ UNCHANGED <<starts, mode, closing, sharedVars, threadVars>>

-----------------------------------------------------------------------------
(* The threads *)

Goto(t, place) == pc' = [pc EXCEPT ![t] = place]

\* WorkflowService.create.
Connects(t) ==
  /\ pc[t] = "create"
  /\ conn' = [conn EXCEPT ![t] = "open"]
  /\ Goto(t, "manage")
  /\ UNCHANGED <<clientVars, sharedVars, loaded>>

\* The activity loop connects before its try: nobody hears of its end.
AfterRefusal(t) == IF Kind(t) = "activity" THEN "ended" ELSE "close"

IsRefused(t) ==
  /\ MayRefuse
  /\ pc[t] = "create"
  /\ Goto(t, AfterRefusal(t))
  /\ UNCHANGED <<clientVars, sharedVars, conn, loaded>>

manage_service(t) ==
  /\ pc[t] = "manage"
  /\ service_instances' = Append(service_instances, t)
  /\ Goto(t, "check")
  /\ UNCHANGED <<clientVars, threads_started, threads_stopped, stop_requested, conn, loaded>>

\* The start of a turn of either loop.
Check(t) ==
  /\ pc[t] = "check"
  /\ Goto(t, IF stop_requested THEN "close" ELSE "poll")
  /\ UNCHANGED <<clientVars, sharedVars, conn, loaded>>

\* A poll that has no task to give, or an error that the service reports.
PollsNothing(t) ==
  /\ pc[t] = "poll"
  /\ conn[t] = "open"
  /\ Goto(t, "check")
  /\ UNCHANGED <<clientVars, sharedVars, conn, loaded>>

PollsTask(t) ==
  /\ pc[t] = "poll"
  /\ conn[t] = "open"
  /\ Goto(t, "task")
  /\ UNCHANGED <<clientVars, sharedVars, conn, loaded>>

\* read_or_eof waits for the first byte of an answer a second at a time, and then
\* calls raise_if_stop_requested.
raise_if_stop_requested(t) ==
  /\ pc[t] = "poll"
  /\ stop_requested
  /\ Goto(t, "close")
  /\ UNCHANGED <<clientVars, sharedVars, conn, loaded>>

\* A poll on a connection that is gone: the activity loop logs the error and goes on,
\* the decision loop knows TChannelException alone and ends.
PollFails(t) ==
  /\ pc[t] = "poll"
  /\ conn[t] # "open"
  /\ Goto(t, IF Kind(t) = "activity" THEN "check" ELSE "close")
  /\ UNCHANGED <<clientVars, sharedVars, conn, loaded>>

\* An activity that completes elsewhere, or that nobody knows, needs no answer.
EndsTask(t) ==
  /\ pc[t] = "task"
  /\ Kind(t) = "activity" \/ conn[t] = "open"
  /\ Goto(t, "check")
  /\ UNCHANGED <<clientVars, sharedVars, conn, loaded>>

\* The decider raises, the activity's input is no JSON, or the answer does not get
\* through; of an activity that fails, the report of its failure does not.
TaskRaises(t) ==
  /\ pc[t] = "task"
  /\ Goto(t, "close")
  /\ UNCHANGED <<clientVars, sharedVars, conn, loaded>>

\* The finally of either loop.  A decision thread without a connection only logs.
Close(t) ==
  /\ pc[t] = "close"
  /\ conn' = [conn EXCEPT ![t] = IF @ = "none" THEN @ ELSE "closed"]
  /\ Goto(t, "load")
  /\ UNCHANGED <<clientVars, sharedVars, loaded>>

\* notify_thread_stopped: threads_stopped += 1 is a read and a write.
LoadStopped(t) ==
  /\ pc[t] = "load"
  /\ loaded' = [loaded EXCEPT ![t] = threads_stopped]
  /\ Goto(t, "store")
  /\ UNCHANGED <<clientVars, sharedVars, conn>>

StoreStopped(t) ==
  /\ pc[t] = "store"
  /\ threads_stopped' = loaded[t] + 1
  /\ Goto(t, "ended")
  /\ UNCHANGED <<clientVars, threads_started, stop_requested, service_instances, conn, loaded>>

\* The network, or the service, goes away.
Breaks(t) ==
  /\ MayBreak
  /\ conn[t] = "open"
  /\ conn' = [conn EXCEPT ![t] = "broken"]
  /\ UNCHANGED <<clientVars, sharedVars, pc, loaded>>

-----------------------------------------------------------------------------

ClientStep ==
  \/ StartActivityThread
  \/ StartDecisionThread
  \/ CloseService
  \/ ClosedServices
  \/ StopReturns

\* A step that the thread takes by itself; it gets a connection, or is refused.
ThreadStep(t) ==
  \/ Connects(t)
  \/ IsRefused(t)
  \/ manage_service(t)
  \/ Check(t)
  \/ PollsNothing(t)
  \/ raise_if_stop_requested(t)
  \/ PollFails(t)
  \/ EndsTask(t)
  \/ TaskRaises(t)
  \/ Close(t)
  \/ LoadStopped(t)
  \/ StoreStopped(t)

Next ==
  \/ start
  \/ stop
  \/ ClientStep
  \/ \E t \in Thread : ThreadStep(t) \/ PollsTask(t) \/ Breaks(t)

Spec == Init /\ [][Next]_vars

\* Threads that can go on do; a poll ends after a minute at the latest, and tasks
\* end.  Nobody has to start or stop a worker, and nothing has to break.
Fairness ==
  /\ WF_vars(ClientStep)
  /\ \A t \in Thread : WF_vars(ThreadStep(t))

FairSpec == Spec /\ Fairness

-----------------------------------------------------------------------------
(* Properties *)

TypeOK ==
  /\ starts \in 0..MaxStarts
  /\ client \in {"idle", "start activity", "start decision", "started", "closing", "waiting",
                 "stopped"}
  /\ mode \in {"none"} \cup StopModes
  /\ closing \in Nat
  /\ threads_started \in 0..Cardinality(Kinds)
  /\ threads_stopped \in 0..Cardinality(Thread)
  /\ stop_requested \in BOOLEAN
  /\ service_instances \in Seq(Thread)
  /\ pc \in [Thread -> {"none", "create", "manage", "check", "poll", "task", "close", "load",
                        "store", "ended"}]
  /\ conn \in [Thread -> {"none", "open", "broken", "closed"}]
  /\ loaded \in [Thread -> 0..Cardinality(Thread)]

Ended(t) == pc[t] \in {"none", "ended"}

\* When stop returns, "Workers stopped..." (README.md:103 of the repository) is true:
\* no thread runs any more and no connection is open.
StopMeansStopped ==
  client = "stopped" /\ mode = "foreground" =>
    \A t \in Thread : Ended(t) /\ conn[t] \in {"none", "closed"}

\* After a stop of either kind every thread ends, whatever it is doing and whatever
\* happens to its connection, unless the worker is started again meanwhile.
ThreadsEnd ==
  client \in {"closing", "waiting", "stopped"} ~>
    client = "start activity" \/ \A t \in Thread : Ended(t)

\* stop returns: the code after it, which says "Workers stopped..." (README.md:102-103
\* of the repository), is reached.
StopEnds == client = "waiting" ~> client = "stopped"
=============================================================================
