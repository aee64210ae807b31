------------------------ MODULE DecisionStateMachine ------------------------
(***************************************************************************)
(* The state machine a ReplayDecider keeps for each decision: the classes  *)
(* of state_machines.py as operators on a record.  A handler is a table    *)
(* from the states it accepts to the state it leaves; every other state is *)
(* fail_state_transition, and the machine is then ILLEGAL for good.        *)
(***************************************************************************)

\* DecisionTarget, of which ReplayDecider creates these four.
Targets == {"ACTIVITY", "TIMER", "MARKER", "SELF"}

\* DecisionState without STARTED and CANCELED_AFTER_STARTED, which no machine
\* of state_machines.py ever enters.
DecisionState ==
  {"CREATED", "DECISION_SENT", "CANCELED_BEFORE_INITIATED", "INITIATED",
   "CANCELED_AFTER_INITIATED", "CANCELLATION_DECISION_SENT",
   "COMPLETED_AFTER_CANCELLATION_DECISION_SENT", "COMPLETED"}

\* canceled is the flag of TimerDecisionStateMachine, FALSE for the others.
Machine ==
  [target : Targets, state : DecisionState \cup {"ILLEGAL"}, canceled : BOOLEAN]

NewMachine(target) == [target |-> target, state |-> "CREATED", canceled |-> FALSE]

\* Only the activity and the timer override what a cancelation does.
Cancelable(m) == m.target \in {"ACTIVITY", "TIMER"}

fail_state_transition(m) == [m EXCEPT !.state = "ILLEGAL"]

\* Apply a handler's table.
Handle(table, m) ==
  IF m.state \in DOMAIN table
  THEN [m EXCEPT !.state = table[m.state]]
  ELSE fail_state_transition(m)

-----------------------------------------------------------------------------

\* Mutant: a decision the service has accepted is sent again.
get_decision_again(m) ==
  CASE m.target = "SELF" \/ m.state \in {"CREATED", "INITIATED"} -> "schedule"
    [] Cancelable(m) /\ m.state = "CANCELED_AFTER_INITIATED" -> "cancel"
    [] OTHER -> "none"

\* The decision the machine wants sent: "schedule" stands for
\* ScheduleActivityTask, StartTimer, RecordMarker and the closing decisions,
\* "cancel" for RequestCancelActivityTask and CancelTimer.
get_decision(m) ==
  CASE m.target = "SELF" \/ m.state = "CREATED" -> "schedule"
    [] Cancelable(m) /\ m.state = "CANCELED_AFTER_INITIATED" -> "cancel"
    [] OTHER -> "none"

\* Mutant: TimerDecisionStateMachine without its own is_done.
is_done_not_overridden(m) ==
  m.state \in {"COMPLETED", "COMPLETED_AFTER_CANCELLATION_DECISION_SENT"}

is_done(m) ==
  \/ m.target = "SELF"
  \/ m.state = "COMPLETED"
  \/ m.target = "TIMER" /\ m.canceled
  \/ m.target \in {"ACTIVITY", "MARKER"} /\ m.state = "COMPLETED_AFTER_CANCELLATION_DECISION_SENT"

\* Mutant: the cancelation sent is not noted.
handle_decision_task_started_event_once(m) ==
  IF m.target # "SELF" /\ m.state = "CREATED" THEN [m EXCEPT !.state = "DECISION_SENT"] ELSE m

handle_decision_task_started_event(m) ==
  CASE m.target = "SELF" -> m
    [] m.target # "SELF" /\ m.state = "CREATED" -> [m EXCEPT !.state = "DECISION_SENT"]
    [] Cancelable(m) /\ m.state = "CANCELED_AFTER_INITIATED" ->
         [m EXCEPT !.state = "CANCELLATION_DECISION_SENT"]
    [] OTHER -> m

InitiatedTable ==
  [s \in {"DECISION_SENT", "CANCELED_BEFORE_INITIATED"} |->
     IF s = "DECISION_SENT" THEN "INITIATED" ELSE "CANCELED_AFTER_INITIATED"]

handle_initiated_event(m) == Handle(InitiatedTable, m)

CompletionTable ==
  [s \in {"INITIATED", "CANCELED_AFTER_INITIATED", "CANCELLATION_DECISION_SENT"} |->
     IF s = "CANCELLATION_DECISION_SENT"
     THEN "COMPLETED_AFTER_CANCELLATION_DECISION_SENT" ELSE "COMPLETED"]

handle_completion_event(m) == Handle(CompletionTable, m)

CancellationTable == [s \in {"CANCELLATION_DECISION_SENT"} |-> "COMPLETED"]

handle_cancellation_event(m) == Handle(CancellationTable, m)

\* Only the activity and the timer accept CANCELLATION_DECISION_SENT; in any
\* other unexpected state the base class raises too (an AttributeError, since
\* it asks the state and not the machine to fail).
CancellationFailureTable(m) ==
  [s \in {"COMPLETED_AFTER_CANCELLATION_DECISION_SENT"}
         \cup (IF Cancelable(m) THEN {"CANCELLATION_DECISION_SENT"} ELSE {}) |->
     IF s = "CANCELLATION_DECISION_SENT" THEN "INITIATED" ELSE "COMPLETED"]

handle_cancellation_failure_event(m) == Handle(CancellationFailureTable(m), m)

\* Mutant: what is initiated is canceled without telling the service.
CancelTable_at_once ==
  [s \in {"CREATED", "DECISION_SENT", "INITIATED"} |->
     IF s = "DECISION_SENT" THEN "CANCELED_BEFORE_INITIATED" ELSE "COMPLETED"]

CancelTable ==
  [s \in {"CREATED", "DECISION_SENT", "INITIATED"} |->
     CASE s = "CREATED" -> "COMPLETED"
       [] s = "DECISION_SENT" -> "CANCELED_BEFORE_INITIATED"
       [] OTHER -> "CANCELED_AFTER_INITIATED"]

cancel(m) ==
  [Handle(CancelTable, m) EXCEPT !.canceled = (m.target = "TIMER")]

\* What cancel returns: that a decision to cancel will have to be sent.
CancelNeedsDecision(m) == m.state \in {"DECISION_SENT", "INITIATED"}
=============================================================================
