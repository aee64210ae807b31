------------------------------ MODULE History -------------------------------
(***************************************************************************)
(* Workflow histories, and the batches in which HistoryHelper hands them   *)
(* to the decider.  The id of an event is its place in the history, as the *)
(* service numbers them.  An event is a record                             *)
(*   type : its EventType,                                                 *)
(*   ref  : the id it refers to - the scheduled or started event of a      *)
(*          close event, the activity_id or timer_id of a start event, the *)
(*          version in a marker - or 0,                                    *)
(*   name : the signal's name, or the change id of a marker, or "".        *)
(***************************************************************************)
EXTENDS Integers, Sequences

Event(type, ref, name) == [type |-> type, ref |-> ref, name |-> name]

\* The event types that answer a decision, of those that can occur here.
DecisionEventTypes ==
  {"ActivityTaskScheduled", "TimerStarted", "WorkflowExecutionCompleted",
   "WorkflowExecutionFailed", "WorkflowExecutionCanceled", "TimerCanceled",
   "CancelTimerFailed", "MarkerRecorded"}

is_decision_event(event) == event.type \in DecisionEventTypes

ClosingEventTypes ==
  {"WorkflowExecutionCompleted", "WorkflowExecutionFailed", "WorkflowExecutionCanceled"}

\* A DecisionTaskStarted whose task was given up: HistoryHelper skips it.
GivenUp(h, i) ==
  /\ h[i].type = "DecisionTaskStarted"
  /\ h[i + 1].type \in {"DecisionTaskTimedOut", "DecisionTaskFailed"}

\* A batch ends at a DecisionTaskStarted that was not given up, or at the end.
EndsBatch(h, i) ==
  i = Len(h) \/ (h[i].type = "DecisionTaskStarted" /\ ~GivenUp(h, i))

\* The end of the batch that starts at from.
BatchStop(h, from) ==
  CHOOSE i \in from..Len(h) : EndsBatch(h, i) /\ \A j \in from..(i - 1) : ~EndsBatch(h, j)

\* The first event from i on that is no decision event.
DecisionsStop(h, i) ==
  CHOOSE j \in i..(Len(h) + 1) :
    /\ \A k \in i..(j - 1) : is_decision_event(h[k])
    /\ j <= Len(h) => ~is_decision_event(h[j])

\* What HistoryHelper.next returns when it stands at from: the events before
\* stop (the DecisionTaskStarted among them left out), then the decision events
\* from next_decision_event_id to the end of the batch (exclusive).  The last
\* event of the history is the DecisionTaskStarted of the task being decided;
\* its batch is not a replay, and its decisions will follow the
\* DecisionTaskCompleted that has the next id.
Batch(h, from) ==
  LET stop == BatchStop(h, from)
      replay == stop # Len(h)
  IN  [from |-> from,
       stop |-> stop,
       replay |-> replay,
       next_decision_event_id |-> stop + 2,
       end |-> IF replay THEN DecisionsStop(h, stop + 2) ELSE stop + 1]

\* DecisionEvents.events, as ids.
BatchEvents(h, b) == {i \in b.from..(b.stop - 1) : h[i].type # "DecisionTaskStarted"}

\* DecisionEvents.decision_events, as ids.
BatchDecisionEvents(b) == b.next_decision_event_id..(b.end - 1)
=============================================================================
