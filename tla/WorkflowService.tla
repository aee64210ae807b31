--------------------------- MODULE WorkflowService --------------------------
(***************************************************************************)
(* The Cadence service, as far as one workflow execution can tell: it is   *)
(* not part of this repository and is modelled from how the worker uses    *)
(* it.  It keeps the history, hands out one decision task at a time,       *)
(* buffers what happens while a decision task is started, gives a decision *)
(* task up when its worker takes too long, and turns the decisions of a    *)
(* response into events.                                                   *)
(***************************************************************************)
EXTENDS History, FiniteSets, SequencesExt

CONSTANTS
  SignalName,  \* the names of the signals that may be sent
  MaxSignals,  \* bound: how many signals are sent
  MaxTimeouts, \* bound: how many decision tasks time out
  MayCancel,   \* whether a cancelation of the workflow may be requested
  MayFail      \* whether activities may fail or time out

ASSUME ServiceAssumption ==
  /\ SignalName \subseteq STRING
  /\ MaxSignals \in Nat
  /\ MaxTimeouts \in Nat
  /\ MayCancel \in BOOLEAN
  /\ MayFail \in BOOLEAN

VARIABLES
  history,     \* the events of the execution
  buffered,    \* the events that wait for the started decision task to end
  decisionTask \* "none", "scheduled" or "started"

serviceVars == <<history, buffered, decisionTask>>

Scheduled == Event("DecisionTaskScheduled", 0, "")

ServiceInit ==
  /\ history = <<Event("WorkflowExecutionStarted", 0, ""), Scheduled>>
  /\ buffered = <<>>
  /\ decisionTask = "scheduled"

-----------------------------------------------------------------------------
(* What has happened so far *)

Recorded == history \o buffered

Count(type) == Cardinality({i \in DOMAIN Recorded : Recorded[i].type = type})

Closed == Last(history).type \in ClosingEventTypes

\* The token of the started decision task is the id of its DecisionTaskStarted.
StartedTask == IF decisionTask = "started" THEN Len(history) ELSE 0

ActivityClosed == {"ActivityTaskCompleted", "ActivityTaskFailed", "ActivityTaskTimedOut"}
TimerClosed == {"TimerFired", "TimerCanceled"}

\* The ids of the start events of this type that no event of the given types closed.
Open(events, type, closing) ==
  {i \in DOMAIN events :
     /\ events[i].type = type
     /\ \A j \in DOMAIN events : events[j].type \in closing => events[j].ref # i}

-----------------------------------------------------------------------------
(* What happens to the execution while it is open *)

\* An event wakes the workflow: at once with a new decision task, or when the
\* decision task under way has ended.
Record(events) ==
  /\ ~Closed
  /\ IF decisionTask = "started"
     THEN /\ buffered' = buffered \o events
          /\ UNCHANGED <<history, decisionTask>>
     ELSE /\ history' = history \o events \o
               (IF decisionTask = "none" THEN <<Scheduled>> ELSE <<>>)
          /\ decisionTask' = "scheduled"
          /\ UNCHANGED buffered

Signal ==
  /\ Count("WorkflowExecutionSignaled") < MaxSignals
  /\ \E name \in SignalName : Record(<<Event("WorkflowExecutionSignaled", 0, name)>>)

RequestCancel ==
  /\ MayCancel
  /\ Count("WorkflowExecutionCancelRequested") = 0
  /\ Record(<<Event("WorkflowExecutionCancelRequested", 0, "")>>)

\* The start of an activity is recorded with its end.
CloseActivity ==
  \E i \in Open(Recorded, "ActivityTaskScheduled", ActivityClosed),
     type \in IF MayFail THEN ActivityClosed ELSE {"ActivityTaskCompleted"} :
    Record(<<Event("ActivityTaskStarted", i, ""), Event(type, i, "")>>)

FireTimer ==
  \E i \in Open(Recorded, "TimerStarted", TimerClosed) :
    Record(<<Event("TimerFired", i, "")>>)

-----------------------------------------------------------------------------
(* The decision tasks *)

StartDecisionTask ==
  /\ decisionTask = "scheduled"
  /\ ~Closed
  /\ history' = Append(history, Event("DecisionTaskStarted", 0, ""))
  /\ decisionTask' = "started"
  /\ UNCHANGED buffered

\* A decision task has ended with the events ended, those of rest come next.
EndDecisionTask(ended, rest, retry) ==
  LET again == retry \/ rest # <<>> IN
  /\ history' = history \o ended \o rest \o (IF again THEN <<Scheduled>> ELSE <<>>)
  /\ decisionTask' = IF again THEN "scheduled" ELSE "none"
  /\ buffered' = <<>>

TimeoutDecisionTask ==
  /\ decisionTask = "started"
  /\ Count("DecisionTaskTimedOut") < MaxTimeouts
  /\ EndDecisionTask(<<Event("DecisionTaskTimedOut", 0, "")>>, buffered, TRUE)

\* The events of this sequence that are not in S, in their order.
Without(events, S) ==
  LET kept[i \in 0..Len(events)] ==
        IF i = 0 THEN <<>>
        ELSE IF events[i] \in S THEN kept[i - 1] ELSE Append(kept[i - 1], events[i])
  IN  kept[Len(events)]

\* A decision is a record like an event: ref is an activity_id or timer_id, or
\* the version in a marker, and name the change id of a marker.
Decision ==
  [type : {"ScheduleActivityTask", "StartTimer", "CancelTimer", "RecordMarker",
           "CompleteWorkflowExecution", "FailWorkflowExecution", "CancelWorkflowExecution"},
   ref : Int,
   name : STRING]

Closes(decision) ==
  decision.type \in {"CompleteWorkflowExecution", "FailWorkflowExecution",
                     "CancelWorkflowExecution"}

\* The timer that a CancelTimer means, by its timer_id.
MeantTimers(decision) ==
  {i \in Open(history, "TimerStarted", TimerClosed) : history[i].ref = decision.ref}

\* The event that answers a decision.
DecisionEvent(decision) ==
  CASE decision.type = "ScheduleActivityTask" -> Event("ActivityTaskScheduled", decision.ref, decision.name)
    [] decision.type = "StartTimer" -> Event("TimerStarted", decision.ref, decision.name)
    [] decision.type = "RecordMarker" -> Event("MarkerRecorded", decision.ref, decision.name)
    [] decision.type = "CompleteWorkflowExecution" -> Event("WorkflowExecutionCompleted", 0, "")
    [] decision.type = "FailWorkflowExecution" -> Event("WorkflowExecutionFailed", 0, "")
    [] decision.type = "CancelWorkflowExecution" -> Event("WorkflowExecutionCanceled", 0, "")
    [] decision.type = "CancelTimer" ->
         IF MeantTimers(decision) = {} THEN Event("CancelTimerFailed", 0, "")
         ELSE Event("TimerCanceled", CHOOSE i \in MeantTimers(decision) : TRUE, "")

\* Nothing is done after the first decision that closes the workflow.
UpToClose(decisions) ==
  LET first == SelectInSeq(decisions, Closes)
  IN  IF first = 0 THEN decisions ELSE SubSeq(decisions, 1, first)

\* The worker answers the decision task with this token.  An answer to a task
\* that is over is refused.  A workflow cannot be closed while events wait that
\* the worker has not seen: the decision task fails and another one follows.
\* Canceling a timer takes back its TimerFired when that one still waits.
RespondDecisionTaskCompleted(token, decisions) ==
  IF token # StartedTask
  THEN UNCHANGED serviceVars
  ELSE IF buffered # <<>> /\ SelectInSeq(decisions, Closes) # 0
  THEN EndDecisionTask(<<Event("DecisionTaskFailed", 0, "")>>, buffered, TRUE)
  ELSE LET done == UpToClose(decisions)
           answers == [i \in DOMAIN done |-> DecisionEvent(done[i])]
           canceled == {i \in DOMAIN answers : answers[i].type = "TimerCanceled"}
           fired == {Event("TimerFired", answers[i].ref, "") : i \in canceled}
       IN  EndDecisionTask(<<Event("DecisionTaskCompleted", 0, "")>> \o answers,
                           Without(buffered, fired), FALSE)

\* What the service does of itself, apart from answering the worker.
ServiceStep ==
  \/ Signal
  \/ RequestCancel
  \/ CloseActivity
  \/ FireTimer
  \/ TimeoutDecisionTask
=============================================================================
