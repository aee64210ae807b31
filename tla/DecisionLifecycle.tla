------------------------- MODULE DecisionLifecycle --------------------------
(***************************************************************************)
(* The decisions of one ReplayDecider while it replays a history, and what *)
(* that history says of them.  process_decision_events takes the history   *)
(* batch by batch: first the events of the batch (activities closed,       *)
(* timers fired), then the workflow code, then notify_decision_sent, then  *)
(* the decision events that answer what the code decided.  In the last     *)
(* batch, which is not a replay, get_decisions answers the service instead *)
(* and the decider is thrown away.                                         *)
(*                                                                         *)
(* This module leaves out which id a decision has (see ReplayDecider) and  *)
(* keeps what the machines must agree on with the service.                 *)
(***************************************************************************)
EXTENDS DecisionStateMachine

CONSTANT DecisionId \* the decisions the workflow code may make

VARIABLES
  created,  \* the decisions in ReplayDecider.decisions
  machine,  \* the state machine of each created decision
  service,  \* what the events replayed so far say of each decision
  sent,     \* the decision each machine sent in this batch
  phase     \* where process_decision_events is

lifecycleVars == <<created, machine, service, sent, phase>>

LifecycleTypeOK ==
  /\ created \subseteq DecisionId
  /\ machine \in [DecisionId -> Machine]
  /\ service \in [DecisionId -> {"none", "open", "closed"}]
  /\ sent \in [DecisionId -> {"none", "schedule", "cancel"}]
  /\ phase \in {"events", "code", "decision_events", "responded"}

Idle == [d \in DecisionId |-> "none"]

LifecycleInit ==
  /\ created = {}
  /\ machine = [d \in DecisionId |-> NewMachine("ACTIVITY")]
  /\ service = Idle
  /\ sent = Idle
  /\ phase = "events"

-----------------------------------------------------------------------------
(* The events of a batch *)

\* ActivityTaskCompleted, ActivityTaskFailed, ActivityTaskTimedOut or
\* TimerFired: the service closes something that is open.
handle_closed(d) ==
  /\ phase = "events"
  /\ service[d] = "open"
  /\ machine' = [machine EXCEPT ![d] = handle_completion_event(@)]
  /\ service' = [service EXCEPT ![d] = "closed"]
  /\ UNCHANGED <<created, sent, phase>>

RunCode ==
  /\ phase = "events"
  /\ phase' = "code"
  /\ UNCHANGED <<created, machine, service, sent>>

(* The workflow code, run by the event loop *)

\* Mutant: an id is given out twice, and the machine under it is replaced.
add_decision_reused(d) ==
  /\ phase = "code"
  /\ created' = created \cup {d}
  /\ machine' = [machine EXCEPT ![d] = NewMachine("ACTIVITY")]
  /\ UNCHANGED <<service, sent, phase>>

add_decision(d) ==
  /\ phase = "code"
  /\ d \notin created
  /\ created' = created \cup {d}
  /\ \E t \in {"ACTIVITY", "TIMER", "MARKER"} :
       machine' = [machine EXCEPT ![d] = NewMachine(t)]
  /\ UNCHANGED <<service, sent, phase>>

\* ReplayDecider.cancel_timer: nothing to do when the timer is done.
cancel_timer(d) ==
  /\ phase = "code"
  /\ d \in created
  /\ machine[d].target = "TIMER"
  /\ ~is_done(machine[d])
  /\ machine' = [machine EXCEPT ![d] = cancel(@)]
  /\ UNCHANGED <<created, service, sent, phase>>

(* The end of a batch *)

notify_decision_sent ==
  /\ phase = "code"
  /\ sent' = [d \in DecisionId |-> IF d \in created THEN get_decision(machine[d]) ELSE "none"]
  /\ machine' = [d \in DecisionId |->
                   IF sent'[d] = "none" THEN machine[d]
                   ELSE handle_decision_task_started_event(machine[d])]
  /\ phase' = "decision_events"
  /\ UNCHANGED <<created, service>>

\* ActivityTaskScheduled and TimerStarted; MarkerRecorded does not reach the
\* marker's machine.
handle_initiated(d) ==
  /\ phase = "decision_events"
  /\ sent[d] = "schedule"
  /\ IF machine[d].target = "MARKER"
     THEN /\ service' = [service EXCEPT ![d] = "closed"]
          /\ UNCHANGED machine
     ELSE /\ service' = [service EXCEPT ![d] = "open"]
          /\ machine' = [machine EXCEPT ![d] = handle_initiated_event(@)]
  /\ sent' = [sent EXCEPT ![d] = "none"]
  /\ UNCHANGED <<created, phase>>

\* TimerCanceled.
handle_timer_canceled(d) ==
  /\ phase = "decision_events"
  /\ sent[d] = "cancel"
  /\ machine' = [machine EXCEPT ![d] = handle_cancellation_event(@)]
  /\ service' = [service EXCEPT ![d] = "closed"]
  /\ sent' = [sent EXCEPT ![d] = "none"]
  /\ UNCHANGED <<created, phase>>

NextBatch ==
  /\ phase = "decision_events"
  /\ sent = Idle
  /\ phase' = "events"
  /\ UNCHANGED <<created, machine, service, sent>>

\* get_decisions in the last batch.
get_decisions ==
  /\ phase = "code"
  /\ sent' = [d \in DecisionId |-> IF d \in created THEN get_decision(machine[d]) ELSE "none"]
  /\ phase' = "responded"
  /\ UNCHANGED <<created, machine, service>>

\* The next decision task starts from a new decider and the whole history.
NewDecider ==
  /\ phase = "responded"
  /\ created' = {}
  /\ machine' = [d \in DecisionId |-> NewMachine("ACTIVITY")]
  /\ service' = Idle
  /\ sent' = Idle
  /\ phase' = "events"

LifecycleNext ==
  \/ \E d \in DecisionId :
       \/ handle_closed(d)
       \/ add_decision(d)
       \/ cancel_timer(d)
       \/ handle_initiated(d)
       \/ handle_timer_canceled(d)
  \/ RunCode
  \/ notify_decision_sent
  \/ NextBatch
  \/ get_decisions
  \/ NewDecider

LifecycleSpec == LifecycleInit /\ [][LifecycleNext]_lifecycleVars

-----------------------------------------------------------------------------
(* Properties *)

\* No event the service can send, and no cancelation by the code, meets a
\* machine in a state that does not accept it: fail_state_transition
\* (state_machines.py:159), which would end the decision thread, never runs.
NoIllegalTransition == \A d \in DecisionId : machine[d].state # "ILLEGAL"

\* What is sent is what the service can accept: a decision is scheduled at most
\* once, and a cancelation is sent only for what the service still holds open
\* (state_machines.py:254-260).
SendsAcceptable ==
  \A d \in DecisionId :
    /\ sent[d] = "schedule" => service[d] = "none"
    /\ sent[d] = "cancel" => service[d] = "open"

\* Between two batches the machines and the service agree: what the service holds
\* open is exactly what the machines have INITIATED, so a result always finds a
\* machine that waits for it, and everything else the code asked for is over.
AgreesWithService ==
  phase = "events" =>
    \A d \in created :
      /\ service[d] = "open" <=> machine[d].state = "INITIATED"
      /\ service[d] # "open" => is_done(machine[d]) \/ machine[d].target = "MARKER"

\* A decision that is done stays done until the decider is thrown away
\* (cancel_timer relies on it: it cancels only what is not done).
DoneIsFinal ==
  [][\A d \in created : d \in created' /\ is_done(machine[d]) => is_done(machine'[d])]_lifecycleVars

-----------------------------------------------------------------------------
(* The inductive invariant *)

\* Each state of a machine belongs to one stage of the exchange with the service.
StateMatchesStage(d) ==
  LET m == machine[d] IN
  /\ service[d] = "none" =>
       \/ m.state = "CREATED" /\ ~m.canceled /\ phase = "code" /\ sent[d] = "none"
       \/ m.state = "CREATED" /\ ~m.canceled /\ phase = "responded" /\ sent[d] = "schedule"
       \/ m.state = "DECISION_SENT" /\ ~m.canceled
            /\ phase = "decision_events" /\ sent[d] = "schedule"
       \/ m.state = "COMPLETED" /\ m.canceled /\ sent[d] = "none"
  /\ service[d] = "open" =>
       /\ m.target # "MARKER"
       /\ \/ m.state = "INITIATED" /\ ~m.canceled /\ sent[d] = "none"
          \/ m.state = "CANCELED_AFTER_INITIATED" /\ m.canceled
               /\ phase = "code" /\ sent[d] = "none"
          \/ m.state = "CANCELED_AFTER_INITIATED" /\ m.canceled
               /\ phase = "responded" /\ sent[d] = "cancel"
          \/ m.state = "CANCELLATION_DECISION_SENT" /\ m.canceled
               /\ phase = "decision_events" /\ sent[d] = "cancel"
  /\ service[d] = "closed" =>
       /\ sent[d] = "none"
       /\ m.state = IF m.target = "MARKER" THEN "DECISION_SENT" ELSE "COMPLETED"

\* What holds of a decision, made or not yet made.
DecisionInv(d) ==
  /\ d \in created =>
       /\ machine[d].target # "SELF"
       /\ machine[d].canceled => machine[d].target = "TIMER"
       /\ StateMatchesStage(d)
  /\ d \notin created =>
       /\ service[d] = "none"
       /\ sent[d] = "none"
       /\ machine[d] = NewMachine("ACTIVITY")

\* The inductive invariant behind the properties above.
LifecycleInv == LifecycleTypeOK /\ \A d \in DecisionId : DecisionInv(d)
=============================================================================
