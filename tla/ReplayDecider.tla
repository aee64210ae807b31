---------------------------- MODULE ReplayDecider ---------------------------
(***************************************************************************)
(* Workers that decide the decision tasks of one workflow execution.  For  *)
(* each task a new ReplayDecider replays the whole history against the     *)
(* workflow code, batch by batch, and answers with the decisions the code  *)
(* has made since.  All the decider's state is rebuilt each time: what     *)
(* survives a worker is the history alone, in WorkflowService.             *)
(*                                                                         *)
(* The workflow code is a deterministic program chosen once and for all:   *)
(* a sequence of operations for the workflow method and one for each       *)
(* signal method.  An operation is [op, arg]:                              *)
(*   activity      : call an activity and wait for its result              *)
(*   sleep         : Workflow.sleep                                        *)
(*   await         : Workflow.await_till(lambda: arg is set)               *)
(*   await_timeout : the same with a timeout                               *)
(*   await_failing : await_till(c), where c raises once arg is set         *)
(*   get_version   : Workflow.get_version(arg, DEFAULT_VERSION, 1)         *)
(*   set           : set arg                                               *)
(***************************************************************************)
EXTENDS WorkflowService, DecisionStateMachine

CONSTANTS
  Workflow, \* the programs: [main : Seq(op), handler : [some SignalName -> Seq(op)]]
  MayQuery  \* whether clients may query the workflow

Operation ==
  [op : {"activity", "sleep", "await", "await_timeout", "await_failing", "get_version", "set"},
   arg : STRING]

\* The names of the tasks that run no signal method.
OtherTasks == {"main", "query"}

ASSUME DeciderAssumption ==
  /\ MayQuery \in BOOLEAN
  /\ SignalName \cap OtherTasks = {}
  /\ \A w \in Workflow :
       /\ w.main \in Seq(Operation)
       /\ DOMAIN w.handler \cap OtherTasks = {}
       /\ \A name \in DOMAIN w.handler : w.handler[name] \in Seq(Operation)

VARIABLES
  workflow,     \* the program of this execution
  \* DecisionTaskLoop and the locals of decide and process_decision_events
  phase,        \* where the decision thread is
  querying,     \* whether its task is a query
  polled,       \* the number of events of its decision task's history
  at,           \* the id of the next event to process
  batch,        \* decision_events
  error,        \* what ended the decision thread, or ""
  \* ReplayDecider, DecisionContext and ClockDecisionContext
  next_decision_event_id,
  id_counter,
  decisions,            \* the OrderedDict, as a sequence
  scheduled_activities, \* for each id with a pending future, the task that awaits it
  scheduled_timers,     \* for each id with a pending callback, the task it is for
  mutable_marker_results,
  completed,
  \* the tasks, the workflow instance and the event loop
  task,         \* every task of this decider: 1 runs the workflow method
  tasks,        \* ReplayDecider.tasks
  ready,        \* the tasks that have a handle in the event loop, in order
  quota,        \* how many handles the current iteration has left
  running,      \* the task that runs, or 0
  flags,        \* what the code has set
  log,          \* the operations the code has completed, with their outcomes
  committed     \* log when a worker's decisions were last accepted

replayVars == <<phase, querying, polled, at, batch, error>>
deciderVars == <<next_decision_event_id, id_counter, decisions, scheduled_activities,
                 scheduled_timers, mutable_marker_results, completed>>
codeVars == <<task, tasks, ready, quota, running, flags, log>>
vars == <<serviceVars, workflow, replayVars, deciderVars, codeVars, committed>>

NoBatch == [from |-> 1, stop |-> 0, replay |-> TRUE, next_decision_event_id |-> 0, end |-> 1]

DEFAULT_VERSION == -1
MAX_SUPPORTED == 1

\* What the code learns from a version.
VersionName(data) == IF data = DEFAULT_VERSION THEN "default version" ELSE "max supported"

-----------------------------------------------------------------------------
(* The decisions *)

\* The dict with one more entry, and without one.
With(dict, id, value) ==
  [i \in DOMAIN dict \cup {id} |-> IF i = id THEN value ELSE dict[i]]
Pop(dict, id) == [i \in DOMAIN dict \ {id} |-> dict[i]]

\* An entry of decisions: its DecisionId is the machine's target and id; key is
\* the activity_id or timer_id, or the version in a marker; name is the kind of a
\* closing decision, the change id of a marker, or the place in the code that
\* calls the activity or creates the timer.
Entry(target, id, key, name) ==
  [machine |-> NewMachine(target), id |-> id, key |-> key, name |-> name]

IndexOf(ds, target, id) ==
  SelectInSeq(ds, LAMBDA e : e.machine.target = target /\ e.id = id)

\* Assignment to an OrderedDict: a key that is there keeps its place.
WithDecision(entry) ==
  LET k == IndexOf(decisions, entry.machine.target, entry.id)
  IN  IF k = 0 THEN Append(decisions, entry) ELSE [decisions EXCEPT ![k] = entry]

add_decision(entry) ==
  /\ decisions' = WithDecision(entry)
  /\ next_decision_event_id' = next_decision_event_id + 1

\* complete_, fail_ and cancel_workflow_execution.
close_workflow_execution(type) ==
  /\ add_decision(Entry("SELF", 0, 0, type))
  /\ completed' = TRUE

ScheduleType(target) ==
  CASE target = "ACTIVITY" -> "ScheduleActivityTask"
    [] target = "TIMER" -> "StartTimer"
    [] target = "MARKER" -> "RecordMarker"

\* The Decision that an entry's machine returns from get_decision.
Sent(entry) ==
  CASE get_decision(entry.machine) = "cancel" -> Event("CancelTimer", entry.key, "")
    [] entry.machine.target = "SELF" -> Event(entry.name, 0, "")
    [] OTHER -> Event(ScheduleType(entry.machine.target), entry.key, entry.name)

Sends(entry) == get_decision(entry.machine) # "none"

\* The places of the entries that have a decision to send.
Sending ==
  Without([k \in DOMAIN decisions |-> k], {k \in DOMAIN decisions : ~Sends(decisions[k])})

\* Mutant: the last decision first.
get_decisions_reversed == [n \in DOMAIN Sending |-> Sent(decisions[Reverse(Sending)[n]])]

get_decisions == [n \in DOMAIN Sending |-> Sent(decisions[Sending[n]])]

\* Mutant: the machines are not told.
notify_decision_sent_never == UNCHANGED decisions

notify_decision_sent ==
  decisions' = [k \in DOMAIN decisions |->
    IF Sends(decisions[k])
    THEN [decisions[k] EXCEPT !.machine = handle_decision_task_started_event(@)]
    ELSE decisions[k]]

-----------------------------------------------------------------------------
(* A decision task *)

NewDecider ==
  /\ next_decision_event_id = 0
  /\ id_counter = 0
  /\ decisions = <<>>
  /\ scheduled_activities = <<>>
  /\ scheduled_timers = <<>>
  /\ mutable_marker_results = <<>>
  /\ completed = FALSE
  /\ task = <<>>
  /\ tasks = <<>>
  /\ ready = <<>>
  /\ quota = 0
  /\ running = 0
  /\ flags = {}
  /\ log = <<>>

Init ==
  /\ ServiceInit
  /\ workflow \in Workflow
  /\ phase = "idle"
  /\ querying = FALSE
  /\ polled = 0
  /\ at = 1
  /\ batch = NoBatch
  /\ error = ""
  /\ NewDecider
  /\ committed = <<>>

\* The decision thread has its task: a new ReplayDecider starts to decide.
Poll ==
  /\ phase = "idle"
  /\ StartDecisionTask
  /\ phase' = "next"
  /\ polled' = Len(history')
  /\ at' = 1
  /\ UNCHANGED <<workflow, querying, batch, error, deciderVars, codeVars, committed>>

\* The thread's task is a query, at whatever point the execution is.
PollQuery ==
  /\ MayQuery
  /\ phase = "idle"
  /\ phase' = "next"
  /\ querying' = TRUE
  /\ polled' = Len(history)
  /\ UNCHANGED <<serviceVars, workflow, at, batch, error, deciderVars, codeVars, committed>>

\* The decider is thrown away, with or without an answer.
DropDecider ==
  /\ phase' = "idle"
  /\ querying' = FALSE
  /\ polled' = 0
  /\ at' = 1
  /\ batch' = NoBatch
  /\ next_decision_event_id' = 0
  /\ id_counter' = 0
  /\ decisions' = <<>>
  /\ scheduled_activities' = <<>>
  /\ scheduled_timers' = <<>>
  /\ mutable_marker_results' = <<>>
  /\ completed' = FALSE
  /\ task' = <<>>
  /\ tasks' = <<>>
  /\ ready' = <<>>
  /\ quota' = 0
  /\ running' = 0
  /\ flags' = {}
  /\ log' = <<>>

\* HistoryHelper has no batch left: the decisions are the answer.  An answer
\* that is refused is only logged.
RespondDecisions ==
  /\ phase = "next"
  /\ ~querying
  /\ at > polled
  /\ RespondDecisionTaskCompleted(polled, get_decisions)
  /\ committed' = IF polled = StartedTask /\ history'[polled + 1].type = "DecisionTaskCompleted"
                  THEN log ELSE committed
  /\ DropDecider
  /\ UNCHANGED <<workflow, error>>

\* The worker's process dies, and another worker polls later on.  The service
\* notices by a timeout, so crashes are bounded as timeouts are.
Crash ==
  /\ phase # "idle"
  /\ Count("DecisionTaskTimedOut") < MaxTimeouts
  /\ DropDecider
  /\ error' = ""
  /\ UNCHANGED <<serviceVars, workflow, committed>>

\* These are no subclasses of Exception.
BaseExceptions == {"NonDeterministicWorkflowException", "IllegalStateException"}

\* An exception leaves process_task: the decision thread ends.  If it leaves
\* process_query it is the answer, unless it is one of BaseExceptions.
Raise(exception) ==
  /\ phase' = "dead"
  /\ error' = exception
  /\ UNCHANGED <<serviceVars, workflow, querying, polled, at, batch, deciderVars, codeVars, committed>>

RespondQueryFailed ==
  /\ phase = "dead"
  /\ querying
  /\ error \notin BaseExceptions
  /\ DropDecider
  /\ error' = ""
  /\ UNCHANGED <<serviceVars, workflow, committed>>

-----------------------------------------------------------------------------
(* process_decision_events *)

\* Mutant: the markers of a batch are not looked at before its events.
Markers_late(b) == {}

\* DecisionEvents.markers, of which there are no local activities' here.
Markers(b) == {i \in BatchDecisionEvents(b) : history[i].type = "MarkerRecorded"}

\* MarkerResult(data) for a marker: what was replayed before is forgotten.
WithMarkers(results, S) ==
  [c \in DOMAIN results \cup {history[i].name : i \in S} |->
     IF \E i \in S : history[i].name = c
     THEN [data |-> LET last == CHOOSE i \in S : /\ history[i].name = c
                                                 /\ \A j \in S : history[j].name = c => j <= i
                    IN history[last].ref,
           replayed |-> FALSE]
     ELSE results[c]]

\* The next batch: set_replaying, handle_decision_task_started, then the markers.
BeginBatch ==
  /\ phase = "next"
  /\ at <= polled
  /\ batch' = Batch(SubSeq(history, 1, polled), at)
  /\ next_decision_event_id' = batch'.next_decision_event_id
  /\ mutable_marker_results' = WithMarkers(mutable_marker_results, Markers(batch'))
  /\ phase' = "events"
  /\ UNCHANGED <<serviceVars, workflow, querying, polled, at, error, id_counter, decisions,
                 scheduled_activities, scheduled_timers, completed, codeVars, committed>>

\* The tasks that unblock_all wakes.
Blocked(t) == task[t].awaited = "pending"
\* Those for which set_result raises, since they did not go on the last time.
Unblocked(t) == task[t].awaited = "set"

\* Mutant: the tasks wait on.
unblock_all_none == UNCHANGED <<task, ready>>

unblock_all ==
  /\ task' = [t \in DOMAIN task |->
                IF t \in ToSet(tasks) /\ Blocked(t)
                THEN [task[t] EXCEPT !.awaited = "set"] ELSE task[t]]
  /\ ready' = ready \o Without(tasks, {t \in ToSet(tasks) : ~Blocked(t)})

\* Mutant: the handle of stop is counted among those of the tasks.
Handles_and_stop(handles) == Len(handles) + 1

\* What the event loop runs before it stops: the handles it has now.
Handles(handles) == Len(handles)

\* The events are processed: unless the workflow is completed, unblock_all, and
\* one iteration of the event loop.
RunEventLoop ==
  /\ phase = "events"
  /\ at = batch.stop
  /\ ~completed
  /\ IF \E t \in ToSet(tasks) : Unblocked(t)
     THEN Raise("InvalidStateError")
     ELSE /\ unblock_all
          /\ quota' = Handles(ready')
          /\ phase' = "loop"
          /\ UNCHANGED <<serviceVars, workflow, querying, polled, at, batch, error, deciderVars,
                         tasks, running, flags, log, committed>>

SkipCompleted ==
  /\ phase = "events"
  /\ at = batch.stop
  /\ completed
  /\ at' = batch.end
  /\ phase' = "next"
  /\ UNCHANGED <<serviceVars, workflow, querying, polled, batch, error, deciderVars, codeVars, committed>>

\* The iteration is over: notify_decision_sent in a replay, then the decision events.
EndEventLoop ==
  /\ phase = "loop"
  /\ quota = 0
  /\ running = 0
  /\ IF batch.replay THEN notify_decision_sent ELSE UNCHANGED decisions
  /\ phase' = "decision_events"
  /\ at' = IF batch.replay THEN batch.next_decision_event_id ELSE batch.end
  /\ UNCHANGED <<serviceVars, workflow, querying, polled, batch, error, next_decision_event_id,
                 id_counter, scheduled_activities, scheduled_timers,
                 mutable_marker_results, completed, codeVars, committed>>

EndBatch ==
  /\ phase = "decision_events"
  /\ at = batch.end
  /\ phase' = "next"
  /\ UNCHANGED <<serviceVars, workflow, querying, polled, at, batch, error, deciderVars, codeVars, committed>>

-----------------------------------------------------------------------------
(* process_event *)

AtEvent(types) ==
  /\ \/ phase = "events" /\ at < batch.stop
     \/ phase = "decision_events" /\ at < batch.end
  /\ history[at].type \in types

Consume == at' = at + 1 /\ UNCHANGED <<serviceVars, workflow, querying, phase, polled, batch, error, committed>>

Created(name) ==
  [name |-> name, status |-> "CREATED", pc |-> 1, entered |-> FALSE,
   awaited |-> "none", id |-> 0, fired |-> FALSE, result |-> "none"]

\* A task is made, which has a handle in the event loop from then on.
NewTask(name) ==
  /\ task' = Append(task, Created(name))
  /\ tasks' = Append(tasks, Len(task'))
  /\ ready' = Append(ready, Len(task'))

\* The other events that close a workflow have no handler.
NoEventHandler ==
  /\ AtEvent({"WorkflowExecutionFailed", "WorkflowExecutionCanceled"})
  /\ Raise("No event handler")

\* The events whose handler does nothing, and the DecisionTaskStarted that
\* HistoryHelper leaves out.
SkipEvent ==
  /\ AtEvent({"DecisionTaskScheduled", "DecisionTaskStarted", "DecisionTaskTimedOut",
              "DecisionTaskFailed", "WorkflowExecutionCompleted"})
  /\ Consume
  /\ UNCHANGED <<deciderVars, codeVars>>

\* The workflow instance is made in an iteration of its own, which leaves the
\* workflow method ready to start.
handle_workflow_execution_started ==
  /\ AtEvent({"WorkflowExecutionStarted"})
  /\ NewTask("main")
  /\ Consume
  /\ UNCHANGED <<deciderVars, quota, running, flags, log>>

\* Mutant: a signal is not delivered again in a replay.
handle_workflow_execution_signaled_live ==
  /\ AtEvent({"WorkflowExecutionSignaled"})
  /\ IF batch.replay THEN UNCHANGED <<task, tasks, ready>>
     ELSE NewTask(history[at].name)
  /\ Consume
  /\ UNCHANGED <<deciderVars, quota, running, flags, log>>

handle_workflow_execution_signaled ==
  /\ AtEvent({"WorkflowExecutionSignaled"})
  /\ NewTask(history[at].name)
  /\ Consume
  /\ UNCHANGED <<deciderVars, quota, running, flags, log>>

handle_workflow_execution_cancel_requested ==
  /\ AtEvent({"WorkflowExecutionCancelRequested"})
  /\ close_workflow_execution("CancelWorkflowExecution")
  /\ Consume
  /\ UNCHANGED <<id_counter, scheduled_activities, scheduled_timers,
                 mutable_marker_results, codeVars>>

\* As a decision event: the marker was handled before the batch, and is again.
handle_marker_recorded ==
  /\ AtEvent({"MarkerRecorded"})
  /\ mutable_marker_results' = WithMarkers(mutable_marker_results, {at})
  /\ Consume
  /\ UNCHANGED <<next_decision_event_id, id_counter, decisions, scheduled_activities,
                 scheduled_timers, completed, codeVars>>

\* The events that a decision's machine handles.
MachineEvents ==
  {"ActivityTaskScheduled", "ActivityTaskStarted", "TimerStarted", "TimerFired",
   "TimerCanceled", "CancelTimerFailed"} \cup ActivityClosed

\* The entry of decisions that such an event is about, 0 if there is none: a start
\* event has the id of its decision, and so, wrongly, has a CancelTimerFailed.
Addressed ==
  LET event == history[at] IN
  CASE event.type = "ActivityTaskScheduled" -> IndexOf(decisions, "ACTIVITY", at)
    [] event.type \in {"TimerStarted", "CancelTimerFailed"} -> IndexOf(decisions, "TIMER", at)
    [] event.type \in ActivityClosed \cup {"ActivityTaskStarted"} ->
         IndexOf(decisions, "ACTIVITY", event.ref)
    [] event.type \in TimerClosed -> IndexOf(decisions, "TIMER", event.ref)

\* What the event makes of the machine.
Handled(m) ==
  LET type == history[at].type IN
  CASE type \in {"ActivityTaskScheduled", "TimerStarted"} -> handle_initiated_event(m)
    [] type \in ActivityClosed \cup {"TimerFired"} -> handle_completion_event(m)
    [] type = "TimerCanceled" -> handle_cancellation_event(m)
    [] type = "CancelTimerFailed" -> handle_cancellation_failure_event(m)
    [] type = "ActivityTaskStarted" -> m

\* No future waits for the activity's result.
NoFuture(m) ==
  /\ history[at].type \in ActivityClosed
  /\ is_done(m)
  /\ history[at].ref \notin DOMAIN scheduled_activities

\* What the event's handler raises, or "": get_decision finds no decision, the
\* machine does not accept the event, or no future waits.
Exception ==
  IF Addressed = 0 THEN "NonDeterministicWorkflowException"
  ELSE LET m == Handled(decisions[Addressed].machine)
       IN  CASE m.state = "ILLEGAL" -> "IllegalStateException"
             [] m.state # "ILLEGAL" /\ NoFuture(m) -> "NonDeterministicWorkflowException"
             [] OTHER -> ""

EventRaises ==
  /\ AtEvent(MachineEvents)
  /\ Exception # ""
  /\ Raise(Exception)

\* The machine handles the event at hand.
UpdateMachine ==
  /\ Exception = ""
  /\ decisions' = [decisions EXCEPT ![Addressed].machine = Handled(@)]
  /\ UNCHANGED <<next_decision_event_id, id_counter, mutable_marker_results, completed>>

handle_initiated ==
  /\ AtEvent({"ActivityTaskScheduled", "ActivityTaskStarted", "TimerStarted",
              "CancelTimerFailed"})
  /\ UpdateMachine
  /\ Consume
  /\ UNCHANGED <<scheduled_activities, scheduled_timers, codeVars>>

\* Mutant: the task that has waited longest, whatever it waits for.
Waiter_longest(dict, id) ==
  CHOOSE t \in DOMAIN task : /\ task[t].entered /\ task[t].result = "none"
                             /\ \A u \in 1..(t - 1) : ~task[u].entered \/ task[u].result # "none"

\* The task whose future or callback a dict holds for this id.
Waiter(dict, id) == dict[id]

\* set_result or set_exception on the future a task awaits.
Resolve(t, result) ==
  /\ task' = [task EXCEPT ![t].result = result]
  /\ ready' = Append(ready, t)

\* Mutant: a timeout is taken for a result.
ActivityOutcome_timeout_ok(type) == IF type = "ActivityTaskFailed" THEN "failed" ELSE "ok"

\* The result or exception that the future gets.
ActivityOutcome(type) == IF type = "ActivityTaskCompleted" THEN "ok" ELSE "failed"

handle_activity_closed ==
  /\ AtEvent(ActivityClosed)
  /\ UpdateMachine
  /\ LET id == history[at].ref IN
     IF is_done(decisions'[Addressed].machine)
     THEN /\ scheduled_activities' = Pop(scheduled_activities, id)
          /\ Resolve(Waiter(scheduled_activities, id), ActivityOutcome(history[at].type))
     ELSE UNCHANGED <<scheduled_activities, task, ready>>
  /\ Consume
  /\ UNCHANGED <<scheduled_timers, tasks, quota, running, flags, log>>

CodeOf(t) ==
  IF task[t].name = "main" THEN workflow.main ELSE workflow.handler[task[t].name]

Op(t) == CodeOf(t)[task[t].pc]

\* The callback of a timer resolves a sleep's future, and only leaves a note for
\* await_till, which unblock_all will wake.
handle_timer_fired ==
  /\ AtEvent({"TimerFired"})
  /\ UpdateMachine
  /\ LET id == history[at].ref
         t == Waiter(scheduled_timers, id)
     IN
     IF is_done(decisions'[Addressed].machine) /\ id \in DOMAIN scheduled_timers
     THEN /\ scheduled_timers' = Pop(scheduled_timers, id)
          /\ IF Op(t).op = "sleep"
             THEN Resolve(t, "ok")
             ELSE /\ task' = [task EXCEPT ![t].fired = TRUE]
                  /\ UNCHANGED ready
     ELSE UNCHANGED <<scheduled_timers, task, ready>>
  /\ Consume
  /\ UNCHANGED <<scheduled_activities, tasks, quota, running, flags, log>>

\* Mutant: the callback of a canceled timer stays.
timer_cancelled_keeps(id) == UNCHANGED scheduled_timers

\* The callback is dropped; await_till, which alone cancels timers, does not care
\* for the exception that the callback gets.
timer_cancelled(id) == scheduled_timers' = Pop(scheduled_timers, id)

handle_timer_canceled ==
  /\ AtEvent({"TimerCanceled"})
  /\ UpdateMachine
  /\ IF is_done(decisions'[Addressed].machine)
     THEN timer_cancelled(history[at].ref)
     ELSE UNCHANGED scheduled_timers
  /\ Consume
  /\ UNCHANGED <<scheduled_activities, codeVars>>

-----------------------------------------------------------------------------
(* The event loop and the workflow code *)

Quiet == UNCHANGED <<serviceVars, workflow, replayVars, committed>>

\* The next handle of the iteration: the task starts, or goes on where it waits.
StartHandle ==
  /\ phase \in {"loop", "query"}
  /\ running = 0
  /\ quota > 0
  /\ running' = Head(ready)
  /\ ready' = Tail(ready)
  /\ quota' = quota - 1
  /\ task' = [task EXCEPT ![running'].status = "RUNNING"]
  /\ UNCHANGED <<deciderVars, tasks, flags, log>>
  /\ Quiet

Runs(ops, entered) ==
  /\ running # 0
  /\ task[running].name = "main" \/ task[running].name \in DOMAIN workflow.handler
  /\ task[running].pc <= Len(CodeOf(running))
  /\ Op(running).op \in ops
  /\ task[running].entered = entered

Place == <<running, task[running].pc>>

\* The running task enters its operation, which waits for id.
Enter(id) == task' = [task EXCEPT ![running].entered = TRUE, ![running].id = id]

\* The running task has completed its operation with this outcome.
Leave(outcome) ==
  /\ task' = [task EXCEPT ![running] =
                [task[running] EXCEPT !.pc = @ + 1, !.entered = FALSE, !.awaited = "none",
                                      !.id = 0, !.fired = FALSE, !.result = "none"]]
  /\ log' = Append(log, <<Place, outcome>>)

\* DecisionContext.schedule_activity_task, up to the await.
schedule_activity_task ==
  /\ Runs({"activity"}, FALSE)
  /\ add_decision(Entry("ACTIVITY", next_decision_event_id, id_counter, Place))
  /\ id_counter' = id_counter + 1
  /\ scheduled_activities' = With(scheduled_activities, next_decision_event_id, running)
  /\ Enter(next_decision_event_id)
  /\ running' = 0
  /\ UNCHANGED <<scheduled_timers, mutable_marker_results, completed, tasks, ready, quota,
                 flags, log>>
  /\ Quiet

\* ClockDecisionContext.create_timer.
create_timer ==
  /\ add_decision(Entry("TIMER", next_decision_event_id, id_counter, Place))
  /\ id_counter' = id_counter + 1
  /\ scheduled_timers' = With(scheduled_timers, next_decision_event_id, running)
  /\ Enter(next_decision_event_id)
  /\ UNCHANGED <<mutable_marker_results, completed, scheduled_activities>>

schedule_timer ==
  /\ Runs({"sleep"}, FALSE)
  /\ create_timer
  /\ running' = 0
  /\ UNCHANGED <<tasks, ready, quota, flags, log>>
  /\ Quiet

\* The future of an activity or a sleep is done.
FutureDone ==
  /\ Runs({"activity", "sleep"}, TRUE)
  /\ task[running].result = "ok"
  /\ Leave("ok")
  /\ UNCHANGED <<deciderVars, tasks, ready, quota, running, flags>>
  /\ Quiet

\* An exception leaves the code of the running task, which does not catch it: the
\* task is done.  A signal method's task stays in tasks, with what it awaited.
CodeRaises(outcome) ==
  /\ task' = [task EXCEPT ![running].status = "DONE", ![running].id = 0]
  /\ log' = Append(log, <<Place, outcome>>)
  /\ running' = 0
  /\ IF task[running].name = "main"
     THEN close_workflow_execution("FailWorkflowExecution")
     ELSE UNCHANGED <<decisions, next_decision_event_id, completed>>
  /\ UNCHANGED <<id_counter, scheduled_activities, scheduled_timers,
                 mutable_marker_results, tasks, ready, quota, flags>>
  /\ Quiet

\* The activity has failed or timed out.
FutureFailed ==
  /\ Runs({"activity", "sleep"}, TRUE)
  /\ task[running].result = "failed"
  /\ CodeRaises("failed")

\* await_till creates its timer before it looks at the condition.
EnterAwait ==
  /\ \/ /\ Runs({"await", "await_failing"}, FALSE)
        /\ Enter(0)
        /\ UNCHANGED deciderVars
     \/ /\ Runs({"await_timeout"}, FALSE)
        /\ create_timer
  /\ UNCHANGED <<tasks, ready, quota, running, flags, log>>
  /\ Quiet

\* One test of the loop in await_till: wait for the next unblock_all.
AwaitBlocks ==
  /\ Runs({"await", "await_timeout", "await_failing"}, TRUE)
  /\ Op(running).arg \notin flags
  /\ ~task[running].fired
  /\ task' = [task EXCEPT ![running].awaited = "pending"]
  /\ running' = 0
  /\ UNCHANGED <<deciderVars, tasks, ready, quota, flags, log>>
  /\ Quiet

\* The condition of await_till raises.
AwaitRaises ==
  /\ Runs({"await_failing"}, TRUE)
  /\ Op(running).arg \in flags
  /\ CodeRaises("raised")

\* Mutant: the decision to cancel uses no id up.
IdsToCancel_none(m) == 0

\* The ids used up: one when a decision will have to be sent.
IdsToCancel(m) == IF CancelNeedsDecision(m) THEN 1 ELSE 0

\* ReplayDecider.cancel_timer, from TimerCancellationHandler.accept.
cancel_timer(id) ==
  LET k == IndexOf(decisions, "TIMER", id)
      m == decisions[k].machine
  IN  IF is_done(m)
      THEN UNCHANGED <<decisions, scheduled_timers, next_decision_event_id>>
      ELSE /\ decisions' = [decisions EXCEPT ![k].machine = cancel(m)]
           /\ timer_cancelled(id)
           /\ next_decision_event_id' = next_decision_event_id + IdsToCancel(m)

\* Mutant: a replay does not know whether the timer fired.
AwaitOutcome_live(fired) == IF fired /\ ~batch.replay THEN "timeout" ELSE "true"

\* await_till returns False if the timer has fired, True otherwise.
AwaitOutcome(fired) == IF fired THEN "timeout" ELSE "true"

\* The loop ends.
AwaitReturns ==
  /\ Runs({"await", "await_timeout"}, TRUE)
  /\ Op(running).arg \in flags \/ task[running].fired
  /\ IF task[running].fired \/ task[running].id = 0
     THEN UNCHANGED <<decisions, scheduled_timers, next_decision_event_id>>
     ELSE cancel_timer(task[running].id)
  /\ Leave(AwaitOutcome(task[running].fired))
  /\ UNCHANGED <<id_counter, scheduled_activities, mutable_marker_results, completed,
                 tasks, ready, quota, running, flags>>
  /\ Quiet

\* MarkerHandler.record_mutable_marker
record_mutable_marker(change, data) ==
  /\ add_decision(Entry("MARKER", next_decision_event_id, data, change))
  /\ mutable_marker_results' =
       With(mutable_marker_results, change,
            [data |-> data, replayed |-> change \in DOMAIN mutable_marker_results])

\* MarkerHandler.handle: a replayed marker takes its id again, once.
RecordsAgain(result) == batch.replay /\ ~result.replayed

\* ClockDecisionContext.get_version and MarkerHandler.handle.
get_version ==
  /\ Runs({"get_version"}, FALSE)
  /\ LET change == Op(running).arg
         known == change \in DOMAIN mutable_marker_results
         result == mutable_marker_results[change]
     IN  \/ /\ known
            /\ Leave(VersionName(result.data))
            /\ IF RecordsAgain(result)
               THEN record_mutable_marker(change, result.data)
               ELSE UNCHANGED <<decisions, next_decision_event_id, mutable_marker_results>>
         \/ /\ ~known
            /\ batch.replay
            /\ Leave(VersionName(DEFAULT_VERSION))
            /\ mutable_marker_results' =
                 With(mutable_marker_results, change, [data |-> DEFAULT_VERSION, replayed |-> TRUE])
            /\ UNCHANGED <<decisions, next_decision_event_id>>
         \/ /\ ~known
            /\ ~batch.replay
            /\ Leave(VersionName(MAX_SUPPORTED))
            /\ record_mutable_marker(change, MAX_SUPPORTED)
  /\ UNCHANGED <<id_counter, scheduled_activities, scheduled_timers, completed, tasks, ready,
                 quota, running, flags>>
  /\ Quiet

SetFlag ==
  /\ Runs({"set"}, FALSE)
  /\ flags' = flags \cup {Op(running).arg}
  /\ Leave("set")
  /\ UNCHANGED <<deciderVars, tasks, ready, quota, running>>
  /\ Quiet

Returns ==
  /\ running # 0
  /\ task[running].name = "main" \/ task[running].name \in DOMAIN workflow.handler
  /\ task[running].pc > Len(CodeOf(running))
  /\ task' = [task EXCEPT ![running].status = "DONE"]
  /\ running' = 0

\* The workflow method returns.
MainReturns ==
  /\ Returns
  /\ task[running].name = "main"
  /\ close_workflow_execution("CompleteWorkflowExecution")
  /\ UNCHANGED <<id_counter, scheduled_activities, scheduled_timers,
                 mutable_marker_results, tasks, ready, quota, flags, log>>
  /\ Quiet

\* A signal method returns: complete_signal_execution removes its task.
SignalReturns ==
  /\ Returns
  /\ task[running].name # "main"
  /\ tasks' = Without(tasks, {running})
  /\ UNCHANGED <<deciderVars, ready, quota, flags, log>>
  /\ Quiet

\* SignalNotFound: the task is done, and stays in tasks.
UnknownSignal ==
  /\ running # 0
  /\ task[running].name \notin DOMAIN workflow.handler \cup {"main", "query"}
  /\ task' = [task EXCEPT ![running].status = "DONE"]
  /\ running' = 0
  /\ UNCHANGED <<deciderVars, tasks, ready, quota, flags, log>>
  /\ Quiet

-----------------------------------------------------------------------------
(* ReplayDecider.query, once all batches are replayed; what the code decides *)
(* in the meantime is dropped.                                               *)

\* The query method gets a task, for one iteration of the event loop.
query ==
  /\ phase = "next"
  /\ querying
  /\ at > polled
  /\ NewTask("query")
  /\ quota' = Handles(ready')
  /\ phase' = "query"
  /\ UNCHANGED <<serviceVars, workflow, querying, polled, at, batch, error, deciderVars,
                 running, flags, log, committed>>

\* A query method looks at the instance and returns, or raises.
QueryReturns ==
  /\ running # 0
  /\ task[running].name = "query"
  /\ task' = [task EXCEPT ![running].status = "DONE"]
  /\ running' = 0
  /\ UNCHANGED <<deciderVars, tasks, ready, quota, flags, log>>
  /\ Quiet

respond_query ==
  /\ phase = "query"
  /\ quota = 0
  /\ running = 0
  /\ DropDecider
  /\ UNCHANGED <<serviceVars, workflow, error, committed>>

-----------------------------------------------------------------------------

ServiceActs ==
  ServiceStep /\ UNCHANGED <<workflow, replayVars, deciderVars, codeVars, committed>>

ProcessEvent ==
  \/ SkipEvent
  \/ handle_workflow_execution_started
  \/ handle_workflow_execution_signaled
  \/ handle_workflow_execution_cancel_requested
  \/ handle_marker_recorded
  \/ handle_initiated
  \/ handle_activity_closed
  \/ handle_timer_fired
  \/ handle_timer_canceled
  \/ EventRaises
  \/ NoEventHandler

RunCode ==
  \/ StartHandle
  \/ schedule_activity_task
  \/ schedule_timer
  \/ FutureDone
  \/ FutureFailed
  \/ EnterAwait
  \/ AwaitBlocks
  \/ AwaitRaises
  \/ AwaitReturns
  \/ get_version
  \/ SetFlag
  \/ MainReturns
  \/ SignalReturns
  \/ UnknownSignal
  \/ QueryReturns

\* A step of the decision thread on its task.
WorkerStep ==
  \/ BeginBatch
  \/ ProcessEvent
  \/ RunEventLoop
  \/ SkipCompleted
  \/ RunCode
  \/ EndEventLoop
  \/ EndBatch
  \/ RespondDecisions
  \/ query
  \/ respond_query
  \/ RespondQueryFailed

Next ==
  \/ Poll
  \/ PollQuery
  \/ WorkerStep
  \/ Crash
  \/ ServiceActs

Spec == Init /\ [][Next]_vars

-----------------------------------------------------------------------------
(* Fairness *)

\* The service times out a decision task whose worker is gone.
ServiceNotices == (phase = "idle" \/ querying) /\ TimeoutDecisionTask

\* A worker thread runs on and polls again, and the service hands the decision task
\* out at some time, whatever queries it has; it times out lost decision tasks and
\* fires timers; activities, which have timeouts, end; clients send the signals they
\* mean to send.  Nothing is assumed of crashes, cancelations or queries.
Fairness ==
  /\ SF_vars(Poll)
  /\ WF_vars(WorkerStep)
  /\ WF_vars(ServiceNotices /\ ServiceActs)
  /\ WF_vars(CloseActivity /\ ServiceActs)
  /\ WF_vars(FireTimer /\ ServiceActs)
  /\ WF_vars(Signal /\ ServiceActs)

FairSpec == Spec /\ Fairness

-----------------------------------------------------------------------------
(* Properties *)

TypeOK ==
  /\ decisionTask \in {"none", "scheduled", "started"}
  /\ phase \in {"idle", "next", "events", "loop", "decision_events", "query", "dead"}
  /\ querying \in BOOLEAN
  /\ polled \in 0..Len(history)
  /\ at \in Nat
  /\ next_decision_event_id \in Nat
  /\ id_counter \in Nat
  /\ \A k \in DOMAIN decisions : decisions[k].machine \in Machine
  /\ \A dict \in {scheduled_activities, scheduled_timers} :
       \A id \in DOMAIN dict : id \in Nat /\ dict[id] \in DOMAIN task
  /\ completed \in BOOLEAN
  /\ tasks \in Seq(DOMAIN task)
  /\ ready \in Seq(DOMAIN task)
  /\ quota \in 0..Len(ready)
  /\ running \in {0} \cup DOMAIN task

\* Whatever the service makes of the worker's own decisions, the decider can replay
\* it: no decision is unknown, no machine is in the wrong state, no future is
\* resolved twice.  Any of these ends the decision thread (decision_loop.py:876), or
\* fails a query, which is refused for a workflow that has failed alone
\* (decision_loop.py:579).
NeverRaises == error # "" => querying /\ Last(history).type = "WorkflowExecutionFailed"

\* The task is at an operation that waits for the activity or timer with this id.
WaitsFor(t, ops, id) ==
  /\ task[t].status = "RUNNING"
  /\ task[t].name \in DOMAIN workflow.handler \cup {"main"}
  /\ task[t].pc <= Len(CodeOf(t))
  /\ Op(t).op \in ops
  /\ task[t].entered
  /\ task[t].id = id
  /\ task[t].result = "none"
  /\ ~task[t].fired

\* The ids of the decisions of this kind that are not done.
OpenIds(target) ==
  {decisions[k].id : k \in {k \in DOMAIN decisions : /\ decisions[k].machine.target = target
                                                     /\ ~is_done(decisions[k].machine)}}

\* Three tables tell who waits for what: the decisions, the dicts of futures and
\* callbacks, and the coroutines.  They agree, even where the ids no longer agree
\* with the history: a result is handed to the task that stands at the operation
\* that asked for it and has no result yet, and a decision is open as long as
\* somebody waits for it, so that no future is missing (decision_loop.py:441) nor
\* resolved twice, and no sleep is told of another's cancelation.
PendingIsAwaited ==
  /\ DOMAIN scheduled_activities = OpenIds("ACTIVITY")
  /\ DOMAIN scheduled_timers = OpenIds("TIMER")
  /\ \A id \in DOMAIN scheduled_activities :
       WaitsFor(scheduled_activities[id], {"activity"}, id)
  /\ \A id \in DOMAIN scheduled_timers :
       WaitsFor(scheduled_timers[id], {"sleep", "await_timeout"}, id)

\* The history has answered the decision of this machine.
Answered(m) ==
  /\ m.target \in {"ACTIVITY", "TIMER"}
  /\ m.state \notin {"CREATED", "DECISION_SENT"}
  /\ ~(m.state = "COMPLETED" /\ m.canceled)

\* The ids that replay gives to the decisions are those the service gave to the
\* events (decision_loop.py:642-648, 741-745): an activity's result reaches the
\* place in the code that asked for it, and a cancelation the right timer.
DecisionsMatchHistory ==
  phase # "dead" =>
    \A k \in DOMAIN decisions :
      LET d == decisions[k] IN
      Answered(d.machine) =>
        /\ history[d.id].type = IF d.machine.target = "ACTIVITY" THEN "ActivityTaskScheduled"
                                ELSE "TimerStarted"
        /\ history[d.id].ref = d.key
        /\ history[d.id].name = d.name

\* However often the code is replayed, and whatever tasks time out, each place in it
\* schedules one activity.
ScheduledOnce ==
  \A i, j \in DOMAIN history :
    /\ history[i].type = "ActivityTaskScheduled"
    /\ history[j].type = "ActivityTaskScheduled"
    /\ history[i].name = history[j].name
    => i = j

\* The code never sees a result that the history does not hold for that place.
ResultsAreRecorded ==
  \A n \in DOMAIN log :
    log[n][2] \in {"ok", "failed"} =>
      \E i, j \in DOMAIN history :
        /\ history[i].type \in {"ActivityTaskScheduled", "TimerStarted"}
        /\ history[i].name = log[n][1]
        /\ history[j].ref = i
        /\ history[j].type \in IF log[n][2] = "ok" THEN {"ActivityTaskCompleted", "TimerFired"}
                               ELSE {"ActivityTaskFailed", "ActivityTaskTimedOut"}

\* A worker that has replayed the history, after any crash, is where the last
\* worker was when its decisions were accepted, or further: a decision task goes on
\* from there, and a query sees all that is done.
Resumes == phase = "next" /\ at > polled => IsPrefix(committed, log)

\* What the accepted decision tasks have done is one durable execution of the code.
Durable == INSTANCE DurableExecution WITH done <- committed, closed <- Closed
DurableSpec == Durable!Spec

\* Every workflow whose code does not wait forever is eventually closed.
Completes == <>Closed
=============================================================================
