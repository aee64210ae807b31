------------------------------- MODULE Replay -------------------------------
(***************************************************************************)
(* What a step of a ReplayDecider makes of its state, as a function of     *)
(* that state, of the history it has polled and of the program: nothing    *)
(* else has a say in it.  ReplayDeciderProofs shows that every step of     *)
(* ReplayDecider from Poll to the answer, unless it raises, is one of      *)
(* Succ, and reasons about whole replays with it.                          *)
(*                                                                         *)
(* The state of the code does not contain the ids that its tasks wait for: *)
(* these are part of the decider's state, and a replay may give others.    *)
(***************************************************************************)
EXTENDS ReplayDecider

\* A task without its status and its id.
Bare(r) ==
  [name |-> r.name, pc |-> r.pc, entered |-> r.entered, awaited |-> r.awaited,
   fired |-> r.fired, result |-> r.result]

Code(ts, all, handles, left, current, set, done) ==
  [task |-> ts, tasks |-> all, ready |-> handles, quota |-> left, running |-> current,
   flags |-> set, log |-> done]

Decider(next, counter, ds, activities, timers, ids, over) ==
  [next |-> next, counter |-> counter, decisions |-> ds, activities |-> activities,
   timers |-> timers, ids |-> ids, completed |-> over]

State(where, id, b, markers, d, c) ==
  [phase |-> where, at |-> id, batch |-> b, markers |-> markers, decider |-> d, code |-> c]

TasksNow == [t \in DOMAIN task |-> Bare(task[t])]
IdsNow == [t \in DOMAIN task |-> task[t].id]
CodeNow == Code(TasksNow, tasks, ready, quota, running, flags, log)
DeciderNow ==
  Decider(next_decision_event_id, id_counter, decisions, scheduled_activities,
          scheduled_timers, IdsNow, completed)
Now == State(phase, at, batch, mutable_marker_results, DeciderNow, CodeNow)

\* The history that the decider has.
Polled == SubSeq(history, 1, polled)

NewCode == Code(<<>>, <<>>, <<>>, 0, 0, {}, <<>>)
NoDecisions == Decider(0, 0, <<>>, <<>>, <<>>, <<>>, FALSE)
Start == State("next", 1, NoBatch, <<>>, NoDecisions, NewCode)

-----------------------------------------------------------------------------
(* The decisions *)

\* The decisions with one more; its id is used up.
WithEntry(ds, entry) ==
  LET k == IndexOf(ds, entry.machine.target, entry.id)
  IN  IF k = 0 THEN Append(ds, entry) ELSE [ds EXCEPT ![k] = entry]

Deciding(d, entry, counter, activities, timers, ids, over) ==
  Decider(d.next + 1, counter, WithEntry(d.decisions, entry), activities, timers, ids, over)

Closing(d, type, ids) ==
  Deciding(d, Entry("SELF", 0, 0, type), d.counter, d.activities, d.timers, ids, TRUE)

\* The decider of which only the ids of the tasks change.
Moving(d, ids) ==
  Decider(d.next, d.counter, d.decisions, d.activities, d.timers, ids, d.completed)

\* notify_decision_sent.
Notified(ds) ==
  [k \in DOMAIN ds |->
    IF Sends(ds[k]) THEN [ds[k] EXCEPT !.machine = handle_decision_task_started_event(@)]
    ELSE ds[k]]

\* WithMarkers, for the history h.
Marked(h, results, S) ==
  [c \in DOMAIN results \cup {h[i].name : i \in S} |->
     IF \E i \in S : h[i].name = c
     THEN [data |-> LET last == CHOOSE i \in S : /\ h[i].name = c
                                                 /\ \A j \in S : h[j].name = c => j <= i
                    IN h[last].ref,
           replayed |-> FALSE]
     ELSE results[c]]

MarkersOf(h, b) == {i \in BatchDecisionEvents(b) : h[i].type = "MarkerRecorded"}

-----------------------------------------------------------------------------
(* process_event, for the event with this id *)

About(ds, event, id) ==
  CASE event.type = "ActivityTaskScheduled" -> IndexOf(ds, "ACTIVITY", id)
    [] event.type \in {"TimerStarted", "CancelTimerFailed"} -> IndexOf(ds, "TIMER", id)
    [] event.type \in ActivityClosed \cup {"ActivityTaskStarted"} ->
         IndexOf(ds, "ACTIVITY", event.ref)
    [] event.type \in TimerClosed -> IndexOf(ds, "TIMER", event.ref)

HandledBy(m, type) ==
  CASE type \in {"ActivityTaskScheduled", "TimerStarted"} -> handle_initiated_event(m)
    [] type \in ActivityClosed \cup {"TimerFired"} -> handle_completion_event(m)
    [] type = "TimerCanceled" -> handle_cancellation_event(m)
    [] type = "CancelTimerFailed" -> handle_cancellation_failure_event(m)
    [] type = "ActivityTaskStarted" -> m

\* The decisions after the event, and whether the one it is about is done.
Told(ds, event, id) ==
  LET k == About(ds, event, id)
  IN  [ds EXCEPT ![k].machine = HandledBy(@, event.type)]

Finishes(ds, event, id) == is_done(Told(ds, event, id)[About(ds, event, id)].machine)

CodeIn(w, r) == IF r.name = "main" THEN w.main ELSE w.handler[r.name]
OpIn(w, r) == CodeIn(w, r)[r.pc]

\* The code with other tasks and handles.
Woken(c, ts, handles) == Code(ts, c.tasks, handles, c.quota, c.running, c.flags, c.log)

AfterNew(c, name) ==
  LET t == Len(c.task) + 1
  IN  Code(Append(c.task, Bare(Created(name))), Append(c.tasks, t), Append(c.ready, t),
           c.quota, c.running, c.flags, c.log)

Resolved(c, t, result) ==
  Woken(c, [c.task EXCEPT ![t].result = result], Append(c.ready, t))

Noted(c, t) == Woken(c, [c.task EXCEPT ![t].fired = TRUE], c.ready)

CodeAfterEvent(c, d, w, event, id) ==
  CASE event.type = "WorkflowExecutionStarted" -> AfterNew(c, "main")
    [] event.type = "WorkflowExecutionSignaled" -> AfterNew(c, event.name)
    [] event.type \in ActivityClosed /\ Finishes(d.decisions, event, id) ->
         Resolved(c, d.activities[event.ref], ActivityOutcome(event.type))
    [] /\ event.type = "TimerFired"
       /\ Finishes(d.decisions, event, id)
       /\ event.ref \in DOMAIN d.timers ->
         LET t == d.timers[event.ref]
         IN  IF OpIn(w, c.task[t]).op = "sleep" THEN Resolved(c, t, "ok") ELSE Noted(c, t)
    [] OTHER -> c

\* The decider after an event that a decision's machine handles.
Telling(d, event, id, activities, timers) ==
  Decider(d.next, d.counter, Told(d.decisions, event, id), activities, timers, d.ids, d.completed)

DeciderAfterEvent(d, event, id) ==
  CASE event.type \in {"WorkflowExecutionStarted", "WorkflowExecutionSignaled"} ->
         Moving(d, Append(d.ids, 0))
    [] event.type = "WorkflowExecutionCancelRequested" ->
         Closing(d, "CancelWorkflowExecution", d.ids)
    [] event.type \in {"ActivityTaskScheduled", "ActivityTaskStarted", "TimerStarted",
                       "CancelTimerFailed"} ->
         Telling(d, event, id, d.activities, d.timers)
    [] event.type \in ActivityClosed ->
         Telling(d, event, id,
                 IF Finishes(d.decisions, event, id) THEN Pop(d.activities, event.ref)
                 ELSE d.activities,
                 d.timers)
    [] event.type = "TimerFired" ->
         Telling(d, event, id, d.activities,
                 IF Finishes(d.decisions, event, id) /\ event.ref \in DOMAIN d.timers
                 THEN Pop(d.timers, event.ref) ELSE d.timers)
    [] event.type = "TimerCanceled" ->
         Telling(d, event, id, d.activities,
                 IF Finishes(d.decisions, event, id) THEN Pop(d.timers, event.ref) ELSE d.timers)
    [] OTHER -> d

MarkersAfterEvent(markers, h, id) ==
  IF h[id].type = "MarkerRecorded" THEN Marked(h, markers, {id}) ELSE markers

AfterEvent(s, w, h) ==
  State(s.phase, s.at + 1, s.batch, MarkersAfterEvent(s.markers, h, s.at),
        DeciderAfterEvent(s.decider, h[s.at], s.at),
        CodeAfterEvent(s.code, s.decider, w, h[s.at], s.at))

-----------------------------------------------------------------------------
(* One step of the event loop *)

\* unblock_all, and the handles of one iteration.
Unblocking(c) ==
  LET ts == [t \in DOMAIN c.task |->
               IF t \in ToSet(c.tasks) /\ c.task[t].awaited = "pending"
               THEN [c.task[t] EXCEPT !.awaited = "set"] ELSE c.task[t]]
      handles == c.ready \o Without(c.tasks, {t \in ToSet(c.tasks) : c.task[t].awaited # "pending"})
  IN  Code(ts, c.tasks, handles, Len(handles), c.running, c.flags, c.log)

Starting(c) ==
  Code(c.task, c.tasks, Tail(c.ready), c.quota - 1, Head(c.ready), c.flags, c.log)

PlaceIn(c) == <<c.running, c.task[c.running].pc>>

Entering(c, current) ==
  Code([c.task EXCEPT ![c.running].entered = TRUE], c.tasks, c.ready, c.quota, current,
       c.flags, c.log)

Leaving(c, outcome, set) ==
  Code([c.task EXCEPT ![c.running] =
          [name |-> @.name, pc |-> @.pc + 1, entered |-> FALSE, awaited |-> "none",
           fired |-> FALSE, result |-> "none"]],
       c.tasks, c.ready, c.quota, c.running, set, Append(c.log, <<PlaceIn(c), outcome>>))

Blocking(c) ==
  Code([c.task EXCEPT ![c.running].awaited = "pending"], c.tasks, c.ready, c.quota, 0,
       c.flags, c.log)

Raising(c, outcome) ==
  Code(c.task, c.tasks, c.ready, c.quota, 0, c.flags, Append(c.log, <<PlaceIn(c), outcome>>))

Ending(c, all) == Code(c.task, all, c.ready, c.quota, 0, c.flags, c.log)

\* The running task runs the workflow method or a signal method.
HasCode(c, w) ==
  c.task[c.running].name = "main" \/ c.task[c.running].name \in DOMAIN w.handler

\* That task stands at an operation of it.
Stands(c, w) ==
  /\ c.running # 0
  /\ HasCode(c, w)
  /\ c.task[c.running].pc <= Len(CodeIn(w, c.task[c.running]))

\* What the code learns when it asks for a version.
Learns(markers, change, replay) ==
  IF change \in DOMAIN markers THEN VersionName(markers[change].data)
  ELSE VersionName(IF replay THEN DEFAULT_VERSION ELSE MAX_SUPPORTED)

\* The code comes to the operation o.
CodeBegins(c, o, markers, replay) ==
  CASE o.op \in {"activity", "sleep"} -> Entering(c, 0)
    [] o.op \in {"await", "await_timeout", "await_failing"} -> Entering(c, c.running)
    [] o.op = "get_version" -> Leaving(c, Learns(markers, o.arg, replay), c.flags)
    [] o.op = "set" -> Leaving(c, "set", c.flags \cup {o.arg})

\* The code is in the midst of it.
CodeGoesOn(c, o) ==
  LET r == c.task[c.running] IN
  CASE o.op \in {"activity", "sleep"} ->
         IF r.result = "ok" THEN Leaving(c, "ok", c.flags) ELSE Raising(c, "failed")
    [] o.op \in {"await", "await_timeout", "await_failing"} ->
         IF o.arg \notin c.flags /\ ~r.fired THEN Blocking(c)
         ELSE IF o.op = "await_failing" THEN Raising(c, "raised")
         ELSE Leaving(c, AwaitOutcome(r.fired), c.flags)

CodeAfterStep(c, w, markers, replay) ==
  LET r == c.task[c.running] IN
  IF c.running = 0 THEN Starting(c)
  ELSE IF Stands(c, w)
  THEN IF r.entered THEN CodeGoesOn(c, OpIn(w, r)) ELSE CodeBegins(c, OpIn(w, r), markers, replay)
  ELSE Ending(c, IF r.name # "main" /\ HasCode(c, w) THEN Without(c.tasks, {c.running}) ELSE c.tasks)

\* Asking for this version takes an id.
Records(markers, change, replay) ==
  IF change \in DOMAIN markers THEN replay /\ ~markers[change].replayed ELSE ~replay

\* The version that record_mutable_marker records.
VersionRecorded(markers, change) ==
  IF change \in DOMAIN markers THEN markers[change].data ELSE MAX_SUPPORTED

\* The results once the version is asked for.
MarkersAsked(markers, change, replay) ==
  IF Records(markers, change, replay)
  THEN With(markers, change, [data |-> VersionRecorded(markers, change),
                              replayed |-> change \in DOMAIN markers])
  ELSE IF change \in DOMAIN markers THEN markers
  ELSE With(markers, change, [data |-> DEFAULT_VERSION, replayed |-> TRUE])

\* The code is about to ask for a version.
Asks(c, w) ==
  LET r == c.task[c.running] IN Stands(c, w) /\ ~r.entered /\ OpIn(w, r).op = "get_version"

MarkersAfterStep(c, w, markers, replay) ==
  IF Asks(c, w) THEN MarkersAsked(markers, OpIn(w, c.task[c.running]).arg, replay) ELSE markers

WithId(d, c, id) == [d.ids EXCEPT ![c.running] = id]

\* cancel_timer, and the task goes on.
Canceling(d, c) ==
  LET id == d.ids[c.running]
      k == IndexOf(d.decisions, "TIMER", id)
      m == d.decisions[k].machine
  IN  IF id = 0 \/ is_done(m) THEN Moving(d, WithId(d, c, 0))
      ELSE Decider(d.next + IdsToCancel(m), d.counter, [d.decisions EXCEPT ![k].machine = cancel(m)],
                   d.activities, Pop(d.timers, id), WithId(d, c, 0), d.completed)

\* schedule_activity_task, create_timer and record_mutable_marker.
Scheduling(d, c) ==
  Deciding(d, Entry("ACTIVITY", d.next, d.counter, PlaceIn(c)), d.counter + 1,
           With(d.activities, d.next, c.running), d.timers, WithId(d, c, d.next), d.completed)

Timing(d, c) ==
  Deciding(d, Entry("TIMER", d.next, d.counter, PlaceIn(c)), d.counter + 1,
           d.activities, With(d.timers, d.next, c.running), WithId(d, c, d.next), d.completed)

Recording(d, c, markers, change) ==
  Deciding(d, Entry("MARKER", d.next, VersionRecorded(markers, change), change), d.counter,
           d.activities, d.timers, WithId(d, c, 0), d.completed)

DeciderBegins(d, c, o, markers, replay) ==
  CASE o.op = "activity" -> Scheduling(d, c)
    [] o.op \in {"sleep", "await_timeout"} -> Timing(d, c)
    [] o.op \in {"await", "await_failing", "set"} -> Moving(d, WithId(d, c, 0))
    [] o.op = "get_version" ->
         IF Records(markers, o.arg, replay) THEN Recording(d, c, markers, o.arg)
         ELSE Moving(d, WithId(d, c, 0))

\* An exception leaves the code.
DeciderRaises(d, c) ==
  IF c.task[c.running].name = "main" THEN Closing(d, "FailWorkflowExecution", WithId(d, c, 0))
  ELSE Moving(d, WithId(d, c, 0))

DeciderGoesOn(d, c, o) ==
  LET r == c.task[c.running] IN
  CASE o.op \in {"activity", "sleep"} ->
         IF r.result = "ok" THEN Moving(d, WithId(d, c, 0)) ELSE DeciderRaises(d, c)
    [] o.op \in {"await", "await_timeout", "await_failing"} ->
         IF o.arg \notin c.flags /\ ~r.fired THEN d
         ELSE IF o.op = "await_failing" THEN DeciderRaises(d, c)
         ELSE IF r.fired THEN Moving(d, WithId(d, c, 0)) ELSE Canceling(d, c)

DeciderAfterStep(d, c, w, markers, replay) ==
  LET r == c.task[c.running] IN
  IF c.running = 0 THEN d
  ELSE IF Stands(c, w)
  THEN IF r.entered THEN DeciderGoesOn(d, c, OpIn(w, r))
       ELSE DeciderBegins(d, c, OpIn(w, r), markers, replay)
  ELSE IF r.name = "main" THEN Closing(d, "CompleteWorkflowExecution", d.ids) ELSE d

AfterStep(s, w) ==
  State("loop", s.at, s.batch, MarkersAfterStep(s.code, w, s.markers, s.batch.replay),
        DeciderAfterStep(s.decider, s.code, w, s.markers, s.batch.replay),
        CodeAfterStep(s.code, w, s.markers, s.batch.replay))

-----------------------------------------------------------------------------
(* One step of the decision thread *)

BatchBegins(s, h) ==
  LET b == Batch(h, s.at)
      d == s.decider
  IN  State("events", s.at, b, Marked(h, s.markers, MarkersOf(h, b)),
            Decider(b.next_decision_event_id, d.counter, d.decisions, d.activities, d.timers,
                    d.ids, d.completed),
            s.code)

LoopBegins(s) == State("loop", s.at, s.batch, s.markers, s.decider, Unblocking(s.code))

LoopEnds(s) ==
  LET d == s.decider IN
  State("decision_events",
        IF s.batch.replay THEN s.batch.next_decision_event_id ELSE s.batch.end,
        s.batch, s.markers,
        Decider(d.next, d.counter, IF s.batch.replay THEN Notified(d.decisions) ELSE d.decisions,
                d.activities, d.timers, d.ids, d.completed),
        s.code)

\* The batch is over.
Goes(s, id) == State("next", id, s.batch, s.markers, s.decider, s.code)

Succ(s, h, w) ==
  CASE s.phase = "next" -> BatchBegins(s, h)
    [] s.phase = "events" /\ s.at < s.batch.stop -> AfterEvent(s, w, h)
    [] s.phase = "events" /\ s.at >= s.batch.stop ->
         IF s.decider.completed THEN Goes(s, s.batch.end) ELSE LoopBegins(s)
    [] s.phase = "loop" ->
         IF s.code.quota = 0 /\ s.code.running = 0 THEN LoopEnds(s) ELSE AfterStep(s, w)
    [] s.phase = "decision_events" /\ s.at < s.batch.end -> AfterEvent(s, w, h)
    [] s.phase = "decision_events" /\ s.at >= s.batch.end -> Goes(s, s.at)

\* A decider at work, of which a step that does not raise is one of Succ.
AtWork == phase \in {"next", "events", "loop", "decision_events"}

\* Every step of the decider but its first and its last.
Deterministic ==
  [][AtWork /\ AtWork' /\ ~Poll /\ ~PollQuery
       => Now' = Now \/ Now' = Succ(Now, Polled, workflow)]_vars
=============================================================================
