# Verification of the Cadence Python worker

TLA+ models, model-checking runs and machine-checked proofs for
`cadence-python`, a client library for Cadence workflows (`src/cadence`).  The
library promises that "if the process/machine fails the state of the function is not
lost and can resume from where it left off" (`README.md:3` of the repository).
It keeps that promise by *replay*: each time a workflow has something to
do, a worker fetches its whole history, runs the code again from the start and
sends what the code has decided beyond the end of the history.  Nothing is kept
by the worker.  Half of this project asks whether that replay is faithful; the other
half follows what is around it: the activities and who reports them, the clients that
start workflows and wait for them, and the connections under all three.

## 1. Inventory

| Component | Source | State | Operations | Interacts with |
|---|---|---|---|---|
| HistoryHelper | `decision_loop.py` 35–138 | a peekable iterator over the events | `has_next`, `next` | called by `ReplayDecider.decide` |
| Decision state machines | `state_machines.py`, `decision_loop.py` 603–810 | one machine per decision: target, state, canceled | initiation, started, closed, cancel, `get_decision`, `is_done` | called by the decider's event handlers and by the code |
| ReplayDecider | `decision_loop.py` 140–840, `clock_decision_context.py`, `marker.py` | next decision id, ordered decisions, pending futures and timers, marker results, tasks | one handler per event type, `unblock_all`, `get_decisions`, the workflow API | HistoryHelper, the machines, the event loop, the workflow code |
| DecisionTaskLoop | `decision_loop.py` 840–960 | one thread, one connection, an asyncio loop | `poll`, `process_task`, `process_query`, `respond_*` | service, ReplayDecider, Worker |
| Cadence service | not in this repository | history, buffered events, the decision task | poll, respond, signal, cancel, timeouts | everybody |
| Worker | `worker.py`, `workerfactory.py` | thread counters, `stop_requested`, connections, tables of implementations | `start`, `stop`, `notify_thread_stopped`, `register_*` | both loops |
| Activity task loop | `activity_loop.py`, `activity.py` | the current activity's context | poll, run, complete or fail, heartbeat, completion from elsewhere | service, Worker, connection |
| TChannel connection | `connection.py`, `ioutils.py` | message id, socket, timeout callback | `call_function`, `read_frame`, `read_or_eof` | both loops and the client, through the stub |
| Frames | `connection.py` 31–110, `frames.py`, `kvheaders.py` | fragments of arguments | `build_frames`, `process_frame`, `is_complete` | connection |
| WorkflowClient | `workflow.py` | the execution of a stub, the context of a start | stubs, `start`, `wait_for_close`, signals, queries | service, through the stub |
| WorkflowService stub | `workflowservice.py`, `thrift.py`, `errors.py` | none | one call each; `find_error` | connection |
| Exceptions | `exception_handling.py`, `exceptions.py` | none | `serialize_exception`, `deserialize_exception` | activities, decider, client |
| Types and conversions | `cadence_types.py`, `conversions.py` | none | copying between data classes and Thrift, spelling of names | stub, registration |
| Activity stubs, logging | `activity_method.py`, `replay_interceptor.py`, `util.py` | none | wrappers | – |

What is hard, and what makes each component correct:

- **HistoryHelper** must cut a history into the batches that were once decided
  together, although decision tasks time out and fail in between, and must guess
  the id of the first decision.  Correct when every replayed batch is, event for
  event and id for id, one that a worker decided (`ReplaysTheAnswered`), no event
  is lost or given twice (`NothingLost`), and no history makes it raise.
- **State machines** must agree with the service about what is open while the
  code cancels timers at any moment.  Correct when no event meets a machine that
  cannot take it (`NoIllegalTransition`), what is sent can be accepted
  (`SendsAcceptable`), and both sides agree between batches (`AgreesWithService`).
- **ReplayDecider** must give each decision the id its event will have, deliver
  results to the right future, wake the right task, and do so identically in every
  replay, whatever order signals, results and timers arrive in, and whenever a
  worker dies.  Correct when replay never raises, ids match the history, a result
  reaches the place that asked for it, nothing is scheduled twice, and the log of
  what the code has done only grows.
- **DecisionTaskLoop** must answer stale and repeated tasks without harm.
- **Worker** must stop when asked to: threads count themselves with an unlocked
  `+=`, end in several ways, and block in a poll.
- **Activity task loop** must report each attempt as what it was, although an activity
  may hand its token to a client, a report may raise after the service has taken it, and
  the service may have given the attempt up meanwhile.  Correct when an activity is closed
  for what its last attempt has done (`ClosedForCause`), no task is lost for no reason
  (`LostForCause`), and no thread is stuck with one (`ThreadGoesOn`).
- **Connection** must pair answers with calls across timeouts (`OwnAnswer`), and leave
  a blocked poll when the worker is to stop.
- **WorkflowClient** starts runs over calls that may raise although the service has acted.
  Correct when only an exception leaves the caller in doubt (`StartsAreKnown`),
  when `wait_for_close` follows the right one of several runs with the same workflow id
  (`OwnOutcome`) and returns (`WaitReturns`).
- **Registration** must find, for each name that a stub uses, the method that is meant
  (`RunsTheMethods`, `RunsTheActivity`).
- **Exceptions** are taken apart and put together up to three times on their way to
  the caller, who must still be told what was raised (`CauseIsShown`).
- **Frames** must reassemble what they fragmented, at every boundary.

Every such hazard is listed, at its line, in `PROJECT.json` under `hazards`, with
the properties that cover it or the reason why none does.

## 2. Modules

```
 History --> WorkflowService --+--> HistoryHelper --+--> HistoryHelperMC
                               |                    +--> ReplayPartsProofs (1)
                               +--> ReplayDecider --+--> ReplayDeciderMC
                                      |      |      +--> ReplayDeciderProofs --+
                                      |      |      +--> Replay ---------------+--> ReplayProofs
 DecisionStateMachine ----------------+      +-- refines --> DurableExecution
        |
        +--> DecisionLifecycle --+--> DecisionLifecycleMC
                                 +--> ReplayPartsProofs (1)

 Connection ---+--> ConnectionProofs --+--------------------+
               |         |             |                    |
 Registration -+---------+             |                    |
               |                       |                    |
 Errors -------+--> Activities --+--> ActivitiesProofs      |
               |                 +--> ActivitiesMC          |
 Failures -----+--> Client ------+--> ClientProofs ---------+
                                 +--> ClientMC

 Worker -----> WorkerProofs            the threads around replay and activities

 Fragments --+--> FragmentsProofs      the bytes under the calls
             +--> FragmentsMC

 (1) one module, with the proofs about both
```

Activities and Client are compositions: each extends Connection, whose steps are conjuncts
of theirs, and uses Errors and Registration as the code does.  Worker and Fragments stand
alone.  Worker leaves out what a thread does with a task, ReplayDecider and Activities
leave out how their threads start and stop; ReplayDecider takes a call for a
single exchange, Connection takes an answer for a single element of a stream, and
what such an element is made of is what Fragments is about.

**History** defines, without any iteration, the batches of a history: where one
starts and stops, whether it is a replay, and which decision events answer it.

**WorkflowService** is the Cadence service as one workflow execution sees it.  It
is outside this repository, so the map marks it external.  It records events,
buffers those that arrive while a decision task is started, gives a decision task
up when its worker is late, refuses stale answers, fails a task that closes the
workflow while events wait, and turns accepted decisions into events.

**HistoryHelper** is `HistoryHelper.next`, one action per iteration of its two
loops and per case of the peek after `DecisionTaskStarted`, over the histories that
WorkflowService can build.  `answered` is a history variable: the batches that were
decided and accepted.

**DecisionStateMachine** holds the classes of `state_machines.py` as operators on a
record `[target, state, canceled]`.  Each handler is a table from state to state;
a state that is not in the table becomes `ILLEGAL`, as `fail_state_transition` has it.

**DecisionLifecycle** drives any number of machines in the order
`process_decision_events` imposes: the events of a batch, the code, the end of the
batch, the decision events.  It forgets the ids, and is therefore small enough to
be proved for any set of decisions.

**ReplayDecider** is the heart: `DecisionTaskLoop.poll`, `process_task` and
`respond_decisions`, and in between the whole of `decide` over WorkflowService's
histories.  The correspondence:

| Model | Code |
|---|---|
| `phase` | the position in `decide` and `process_decision_events`; `"dead"` is the decision thread after an exception |
| `batch`, `at` | the `DecisionEvents` being processed and the next event |
| `next_decision_event_id`, `decisions`, `mutable_marker_results`, `completed` | the fields of the same names |
| `scheduled_activities`, `scheduled_timers` | the dicts of these names; for a future or a callback stands the task that waits for it |
| `task`, `tasks` | every `ITask`, and `ReplayDecider.tasks`; a signal's task has the signal's name, and the two others are called `"main"` and `"query"` |
| `ready`, `quota` | the handles in the asyncio loop, and how many of them the current `run_event_loop_once` still runs |
| `log` | the operations the code has completed in this replay, and how they ended |
| `committed` | `log` at the last accepted answer: a history variable |

The workflow code is a constant: a set of programs, each a sequence of operations for
the workflow method and one for each signal method.  A step of the event loop runs
a task up to its next operation, so that the interleaving of tasks is the one that
asyncio's FIFO queue gives, and everything else interleaves freely: the service acts
between any two steps of a worker.  `Crash` loses the whole decider at any point.

**Queries** go through the same replay: `process_query` makes a decider, lets it decide,
drops the decisions and runs the query method for one iteration of the event loop.
In ReplayDecider `PollQuery` starts one at any point of the execution (`querying`),
`BeginBatch` and all that follows are shared with decision tasks, and `query`,
`QueryReturns` and `respond_query` end it.  An exception that would end the thread of a
decision task is the answer of a query (`RespondQueryFailed`), but for the two that are
no subclasses of `Exception` (`BaseExceptions`): line 872 does not catch them, and they end
the thread of a query, too.  The history of
a query need not end in a `DecisionTaskStarted`, which is what makes it a new case
for HistoryHelper: its last event is left out all the same.

**DurableExecution** is the abstract specification of the promise quoted above:
one execution that goes forward, in program order, and never undoes or repeats
anything.  ReplayDecider is checked and proved to implement it, with `committed` for
what was done.

**Replay** says what a step of the decision thread makes of its state, as a function
`Succ` of that state, the history it has polled and the program.  It is ReplayDecider
written a second time, without nondeterminism, for the proofs of section 4: there is
no other way to speak of two replays at once.  That each step of ReplayDecider between
`Poll` and the answer is a step of `Succ`, unless it raises, is proved.  The state
has two parts.  `Code` is what the coroutines and the event loop are: it has no ids.
`Decider` has the ids, the decisions and the tables, which another replay may number
otherwise.

**Worker** is `Worker.start` and `stop` and the two loops that its threads run:
`activity_task_loop` and `DecisionTaskLoop.run`.

| Model | Code |
|---|---|
| `client`, `mode`, `closing` | where the caller of `start` and `stop` is, how it stops, and the loop over `service_instances` |
| `threads_started`, `threads_stopped`, `stop_requested`, `service_instances` | the fields of the same names, none of which has a lock |
| `pc`, `conn`, `loaded` | of each thread: where it is, its connection, and what it has read in the middle of `threads_stopped += 1` |

A thread leaves a poll with nothing, with a task, with an error of the connection, or
by `raise_if_stop_requested`, which `read_or_eof` calls each second.  The two loops
differ in what they do with each of these, and in where they create the connection.

**Fragments** is `build_frames`, `FragmentReader.process_frame` and the loop of
`call_function` that ties them together, with the sizes of frames and arguments in
bytes.  Many messages go over one stream, so that what one leaves there shows in the next.

**Connection** is `TChannelConnection.call_function` and `read_or_eof` for calls that
time out and peers that go away, with one element of a stream for an answer.

| Model | Code |
|---|---|
| `status` | the socket: `"deaf"` after a read has timed out, for `SocketIO` refuses to read again; `"gone"` when the peer has closed it and what has come can still be read |
| `asked` | the request for which `call_function` is in its loop |
| `reading` | whether `read_or_eof` has left the loop that calls `next_timeout_cb` |
| `sent`, `stream` | the requests that the service has not acted on, the answers that are not read |

A request is late once its call has been given up; the service may still act on it.
Late requests of the set `Harmless` are forgotten, since nobody can tell whether they are
acted on.  Which requests there are is a constant.

**Errors** is what `find_error` and `read_frame` make of an answer: a value, an error
beside it, or an exception.

**Registration** is `Worker.register_activities_implementation` and
`register_workflow_implementation_type`, the decorators, and the names of stubs, as
operators on classes (`mro`, methods, decorations).  A name is a sequence of words in
a spelling, and `camel_to_snake` and `snake_to_camel` change the spelling, so that
what they lose is lost in the model too.

**Failures** is `serialize_exception` and `deserialize_exception`, and what the decider
and the client do with the results.  A class can be made again or not, with or
without its arguments.

**Activities** is the body of `activity_task_loop`, `ActivityContext`,
`Activity.heartbeat` and `ActivityCompletionClient`, against the service's attempts, timeouts,
retries and cancelations.

| Model | Code |
|---|---|
| `pc` | where a thread is in the loop's body |
| `task`, `do_not_complete` | the thread's `ActivityContext` |
| `holds` | a task token that the activity has given to a completion client |
| `scheduled`, `state`, `attempt`, `cancel_requested` | the service |
| `ran`, `said`, `lost` | history: how the code of each attempt has ended, what clients have said of it, which attempts went down with something |

What an activity does is up to it: it heartbeats, hands its token on, returns or raises.
The call of a completion client is one step: the client waits for nothing else, so
a call that is long under way is one that is made later.

**Client** is `WorkflowClient` and its stubs: `exec_workflow`, `wait_for_close`,
`exec_signal`, `exec_query`, with the service's runs under one or several workflow ids.
How a run gets from its start to its end is ReplayDecider's; here it ends in one of
the ways in which its code may end, or otherwise, and its failure goes through Failures.
What a run is worked on with comes from Registration.

| Model | Code |
|---|---|
| `pc`, `sync` | where a caller is, and whether its stub waits for what it starts |
| `stub_execution`, `context`, `waits` | `_execution` of the stub; the `WorkflowExecutionContext` of the last start; the execution that `wait_for_close` asks for |
| `wm` | the declaration: workflow id, reuse policy, the stub's class, how the code may end |
| `runs` | the service |
| `outcome`, `heard` | history: what a wait has told, what each start has come to |

## 3. Runs

| Run | Bounds | What it shows |
|---|---|---|
| `lifecycle` | 3 decisions | the machines and the service agree through any number of batches; also checks the invariant that the proofs use |
| `history_helper` | 18 events, 2 signals, 2 timed-out tasks | each batch is the one `History` defines, the one that was decided, and all events are given once |
| `replay_ends` | 6 programs of two operations, 1 timeout, failures, cancelation, any number of queries | nothing raises but the query of a failed workflow, every result is recorded for its place, each task and each query sees all that is committed, and the workflow closes |
| `replay_signals` | 14 programs, 1 signal, 1 timeout | signals beside the workflow method, with `await_till` and `get_version`: nothing raises, ids match, a replay gets as far as before |
| `replay_durable` | 8 programs, 1 signal, 1 timeout, cancelation | the refinement of DurableExecution, that nothing is scheduled twice, and that decisions, futures and coroutines agree on who waits for what, for programs whose replay may raise too |
| `fragments` | frames of 12 bytes, of which 4 or 2 are used up; messages of up to five frames | the arguments come back as they were sent, and no frame is left over |
| `worker` | both threads, 2 starts, both ways to stop, refused and broken connections | when `stop` returns nothing runs and nothing is open; after a stop every thread ends |
| `activities` | 1 thread, 1 activity of four kinds, 2 attempts, 1 completion client, 1 crash or broken connection | an activity is closed for what its last attempt has done, no task is lost without a reason, no thread is stuck, and the method that runs is the one meant; for a name that is registered, one that is not, and input that is no JSON |
| `client` | 1 caller, 2 starts under one id or two, 3 reuse policies, 4 declarations, 1 signal, any number of queries, waits and timeouts | only an exception leaves a start in doubt, each wait tells of its own run and returns, the methods meant are run, and the caller sees what was raised |
| `early_flag` | 1 program | finding 1 below |
| `lost_wakeup` | 1 program, 1 signal | finding 2 below |
| `worker_stop` | the activity thread, 1 start | finding 3 below |

Why the bounds are enough.  A timeout is enough to have a stale answer, a crash (each
crash needs one), and a batch that spans a task that was given up; two of them
appear in `history_helper`, where they are cheap.  A batch can hold any mixture of
the results of up to three operations and a signal, since the service chooses
freely when each arrives.  Programs of two or three operations are enough to have a
decision after a batch boundary, where a wrong id shows; a fault in the ids
shows with the next decision and does not need a longer program.  Three decisions
suffice for the machines since they do not interact: the proof confirms it.
Signals, timeouts and events are bounded by `MaxSignals`, `MaxTimeouts` and
`MaxEvents`.  In `fragments` the sizes are small but the boundary cases depend on
remainders alone: the arguments end at the end of a frame and at any distance before or
after it, but the first and second do not end exactly three bytes before it (section 5).
In `worker` two starts (`MaxStarts`) are enough for a thread to meet the counters of
another start.

In `activities` one thread suffices for a stale report to meet a new attempt: the thread
may give a report up, take the next attempt in another way (a completion client has the
first token), or the service may hand out an attempt whose predecessor is still under
way on the connection.  Two attempts (`MaxAttempts`) give one retry and the last
attempt, which differ.  `MaxFaults` bounds crashes and broken connections together;
timeouts are not bounded.  In `client` two starts (`MaxStarts`) are enough for a second
run under the same id, of which the first wait must not hear, and `MaxSignals` bounds
signals alone; a second caller would only share the service's runs with the first.
The invariants that say which answer or run belongs to whom are proved without any of
these bounds (section 4).

The runs disable the deadlock check where executions end, or where
the bounds are used up; `lifecycle` and `fragments` never end and check it.

Each property of a passing run has a mutant (`PROJECT.json`): an operator next to
the definition it changes, commented as such, that stands for a plausible fault in the
code and makes that property fail.

### Fairness

In ReplayDecider only `Completes` needs it.  `WorkerStep` is weakly fair: a thread
that is not stopped goes on.  `Poll` is strongly fair: `DecisionTaskLoop.run` polls
again after each task, and although queries may come in between at any time, the
service hands out the waiting decision task at some time.
`ServiceNotices`: a decision task whose worker is gone times out.  `CloseActivity`
and `FireTimer`: activities have timeouts, and timers fire.  `Signal`: the clients
send what they mean to send.  Nothing is assumed of crashes, cancelations or early
timeouts.  Crashes are bounded as timeouts are, since a service that is allowed
no further timeout would never notice another crash.

In Worker `ThreadsEnd` and `StopEnds` need it.  A thread goes on when it can
(`ThreadStep`), and so does the client within `start` and `stop` (`ClientStep`).
That includes the end of a poll, which the service ends after a minute, and
the end of a task.  Nobody has to start or stop a worker.

In Activities `ThreadGoesOn` needs that a thread goes on (`ThreadStep` is weakly fair: a
call ends, at the latest by its socket's timeout) and that an activity ends (`CodeEnds`
is strongly fair: it may heartbeat as often as it likes, but not for ever).  Nothing is
asked of the service.  That is why the mutant `Calls_patient`, in which a call
waits without a timeout, fails.

In Client `WaitReturns` needs that a caller goes on (`CallerStep`) and that every run is
ended by something: each has an `execution_start_to_close_timeout`, which the service
enforces.  Without that `wait_for_close` would wait for ever for a run that stays open.

## 4. Proofs

`ReplayPartsProofs` is about the two parts of a replay that have models of their own.  Of
DecisionLifecycle it proves, for every set `DecisionId` and any number of batches:

| Theorem | Statement |
|---|---|
| `Invariance` | `LifecycleSpec => []LifecycleInv` |
| `LegalTransitions` | no machine meets an event it does not accept |
| `AcceptableDecisions` | a decision is scheduled at most once, and a cancelation is sent only for what is open |
| `Agreement` | between batches the service holds open exactly what is `INITIATED` |
| `DoneForGood` | a decision that is done stays done |

None of the properties is inductive.  That `handle_completion_event` always finds the
machine `INITIATED`, say, depends on the machine not having been canceled in the
batch before, on what was sent when it was, and on the event that
answered.  The invariant `LifecycleInv` is `LifecycleTypeOK` and, of each decision, `StateMatchesStage`:
a table of the machine states that are possible for each stage of the exchange with
the service (nothing recorded, open, closed), for each phase of the batch and for what
was sent.  The argument has three lemmas about the operators (`HandlerTypes`: a
handler stays within the machines' type; `HandlerSteps`: what each handler does in the
states that occur) and two about steps (`LifecycleNextTypeOK`, and `NextDecisionInv`, with one
step per action; decisions do not touch one another, so each action is looked at
once for the decision it names and once for any other).  There is no assumption
on the constant.

`FragmentsProofs` proves, for all sizes of frames and all messages:

| Theorem | Statement |
|---|---|
| `TypeCorrect` | `Spec => []TypeOK`: above all, `frame.size` never exceeds `MaxFrame` |
| `TakesAllFrames` | when the arguments of a message are complete, its frames are used up (`NothingLeft`) |
| `ComesBack` | the arguments come back as they were sent (`Reassembles`) |

A length is two bytes, and a longer frame would be cut off by its own header.
`append_arg` writes the two bytes of a length and at most as many bytes as are left
after them, which keeps the frame within its limit.  The assumption `FrameAssumption` says
that a frame without arguments has room for one, which the fixed headers of the code
guarantee.

The other two have the hypothesis `[]~ThreeLeft`: no argument but the last ends three
bytes before the end of its frame.  There the code is wrong (`frames.py:107`, section 5),
and without the hypothesis both are false; it holds of all behaviours of the `fragments`
run.  The invariant `Whole` lays the message out as one line of bytes with two lengths
between its arguments, and says which interval of it each frame of the stream carries
(`Chain`), where the writer is within the frame it fills (`Building`), and what the reader
has put together of what it has read (`Reading`, `HasRead`).  The argument is that the
intervals follow one another without a gap, and that writer and reader agree on where in a
frame an argument ends, although neither says so to the other: the reader takes a frame
boundary for the end of an argument exactly when the writer has put it there.

Of HistoryHelper, `ReplayPartsProofs` proves, for histories of any length that the service may
build:

| Theorem | Statement |
|---|---|
| `TypeCorrect` | `Spec => []TypeOK` |
| `Splits` | the helper never raises, and never runs past the end (`NeverRaises`) |
| `Returns` | each batch is the one that History defines (`ReturnsBatch`) |
| `ReplaysPast` | a replayed batch is, event for event and id for id, one that was decided, and a batch is taken for a replay only if it was (`ReplaysTheAnswered`) |
| `HandsOutAll` | in the end every event but those of the decision tasks themselves has been handed out, and none twice (`NothingLost`) |

The invariant has two parts.  `ServiceInv` says what histories look like, by means of the
history variable `answered`: after the events of the kth answered batch come its
`DecisionTaskStarted`, a completion, and the decision events; between them lie only
decision tasks that were given up, each start followed at once by its timeout or failure;
and an event that is no decision event follows the decision events if anything does.
`HelperInv` says where the helper is in that: at a place within the kth batch, with the
events up to there, before or among the decision events.  From these `Returns` and
`ReplaysPast` follow by showing that the least end of a batch, by which History defines
it, is the end that `answered` has.  `HandsOutAll` is a partition of the ids.
`ServiceAssumption` and `HelperAssumption` give the constants their types.

`WorkerProofs` proves, for any set of loops and any number of starts:

| Theorem | Statement |
|---|---|
| `TypeCorrect` | `Spec => []TypeOK`; `threads_stopped` counts no thread that has not ended, however additions interleave |
| `StopsWhenItReturns` | when a stop in the foreground returns, all threads have ended and no connection is open (`StopMeansStopped`) |

`StopsWhenItReturns` has the hypothesis that `RestartsAfter` has no background stops;
with them it is false (section 5).  Its invariant `StopInv` has to say that what a thread
has read of `threads_stopped`, and is about to store one more of, is no more than the
number of threads of the latest start that have ended (`LatestCount`): additions may get lost but
never count too many.  This holds only because threads of earlier starts are over.

`ConnectionProofs` proves, for any number of connections and whatever is asked and
answered on them:

| Theorem | Statement |
|---|---|
| `ConnTypeCorrect` | `ConnSpec => []ConnTypeOK` |
| `OwnAnswerHolds` | a call that returns gives the answer to itself and not to an earlier one |

`OwnAnswer` speaks of the moment before a call returns.  The invariant `OneCall` says more: as
long as a connection can be read, what is sent on it and not acted on, and what is
not yet read, belong to the one call that is under way, and there is nothing of
either between calls.  It holds because every way in which a call ends without
its answer makes the connection unreadable, and it is this that the mutant
`AfterTimeout_open` breaks.  The only assumption is that `NoRequest` is no request.

`ActivitiesProofs` and `ClientProofs` prove first that each of the two is a refinement of
Connection (`Implements`, `Spec => ConnSpec`): every step of a thread, a caller
or the service is a step of `ConnNext` or leaves the connections alone.  What is proved of
connections then holds of both (`ThreadsOwnAnswer`, `CallersOwnAnswer`).  The rest is
about what the requests mean:

| Theorem | Statement |
|---|---|
| `ActivitiesProofs!TypeCorrect` | types; a thread has a task exactly while it works on it |
| `ActivitiesProofs!ForCause` | an activity is closed for what its last attempt has done |
| `ActivitiesProofs!OnlyLostForCause` | an attempt that nobody can report any more was lost to one of the causes in `LostForCause` |
| `ActivitiesProofs!RunsWhatIsAskedFor` | the method that runs is the one that the task asks for |
| `ClientProofs!TypeCorrect` | types; runs have the workflow ids of their starts |
| `ClientProofs!StartsKnown` | a caller who gets a run gets its own; whoever is told of an error has started none |
| `ClientProofs!OutcomesOwn` | a wait tells how the run ended that was asked for |
| `ClientProofs!CausesShown` | the caller is told of the class that the code, or an activity, has raised |
| `ClientProofs!RunsWhatIsMeant` | a run is worked on by the methods that its stub means |

They hold for any number of threads, completion clients, activities and attempts; and of
callers, starts, signals and declarations.  `TokenAssumption` and `MessageAssumption`
say which requests and answers the constants of Connection are.

`ForCause` needs `CauseInv`: an attempt is in one place at most, with the service, in a
stream or with a thread (`HandedOnce`); its code has come as far as the thread's place
says (`RanSoFar`); and what is on its way to the service, late or not, is what that
attempt has done (`Reported`).  Late reports are the reason why the last part speaks of
requests and not of threads.

`OnlyLostForCause` needs `LostInv` beside it: what a thread reports is the task it has
(`Reports`); a task that is not to be completed on return is with a client, or was lost
(`LeftWith`); and an answer on its way that says that all is well is true, since the
service has closed that attempt (`Truthful`, `Confirmed`).  The last is what lets a thread
forget its task when `complete` returns.

`StartsKnown` and `OutcomesOwn` need `Inv` of ClientProofs: a start that the service has
not acted on has no run, and there is one request for it at most (`Asked`, `SentOnce`);
every answer that is under way says what is so and will remain so (`AnswersWell`), since runs
are only added and do not change once they have ended; and each caller is at a place that
fits what it has asked (`CallerInv`).  That ids of runs stay within their type takes a
pigeonhole argument: there are no more runs than starts.

`CausesShown` needs `CauseInv` of ClientProofs: a run that has failed has failed by what
its code has raised, and an outcome is that of the run's event.  The rest is about
Failures: what is told of an exception after it was serialized and deserialized, once or
twice, with or without a class that can be made again (`TellsAll`).
`EndsAssumption` says how code may end (`MayEnd`): above all, neither it nor an activity raises
the library's own `ExternalException`, which stands for an exception of any class.

`RunsWhatIsAskedFor` and `RunsWhatIsMeant` compute with names.  That `camel_to_snake` and
`snake_to_camel` make of a name in either spelling the two spellings of its words is
`BothSpelled` in ConnectionProofs, for names of any length; it rests on what `FlattenSeq`,
a recursive function, comes to for such names.  Their hypotheses are those of the two
properties: each name is in one of the two spellings (`Spelled`, `Registered`), methods
have no names of the user's, and a stub's class has the name of the interface and, where
it is spelled in one of the two ways, a method that the implementation has
(`StubsMatch`).  The implementations and stubs of the two runs satisfy them; among these
stubs is one with a mixed spelling, for which nothing may be found.

`ReplayDeciderProofs` proves, for every set of workflow programs, and any number of tasks,
decisions, signals, timeouts, crashes and queries:

| Theorem | Statement |
|---|---|
| `Invariant` | `Spec => []Inv` |
| `TypeCorrect` | `Spec => []TypeOK`: above all, a machine that becomes `ILLEGAL` raises before it gets into the dict |
| `PendingAreAwaited` | three tables agree on who waits for what (`PendingIsAwaited`): the decisions that are not done, the dicts of futures and callbacks, and the coroutines |
| `DoneInProgramOrder` | in every replay, and in what is accepted of it, each method does its operations in program order, each once |
| `ClosedForGood` | no event follows the one that closes the execution, and no worker still busy with it has its decisions accepted |
| `AdvancesTheExecution` | initial states are initial states of DurableExecution; a step that changes what is done, or closes the execution, is its `Advance` if what was done stays done |
| `CancelFindsItsTimer` | when `await_till` cancels its timer, the lookup of line 748 finds the decision |

`PendingIsAwaited` is what a result needs to reach its future: where the decider
takes an event for a decision that is then done, `scheduled_activities` has a future for
it (so that the exception of line 441 is never raised for one that is missing), the future
belongs to the coroutine that stands at the operation that made it, and it has no
result yet, so that no future is resolved twice and no sleep hears of a timer that
`await_till` has canceled.  It makes no assumption on programs: it is true of the
programs of section 5 as well, whose replays raise, since an id that no longer agrees
with the history is found missing before anything is changed.

It is not inductive, and neither is anything smaller than the five parts of `Inv`:

- `IsDecisions`: no two entries of the dict have the same key; each machine is in a
  state that its kind can be in (`Legal`), so that a cancelation finds what it expects and a
  timer's machine that was not canceled cannot be done by a cancelation.
- `PendingInv`: `PendingIsAwaited`, and in addition that a task whose future is pending
  sleeps (`Asleep`): it is not running, has no handle and awaits no `unblock_all`.  Otherwise
  a task could move on and leave its future behind.  A task in `await_till`
  with a timeout is different: it may be woken by either, and keeps its callback until
  it returns.
- `TasksInv`: each task has one handle at most, and none while it runs, once it is done, or
  while it waits for `unblock_all`.  With two handles a task would go on twice for
  one result.
- `ThreadInv`: where the decision thread is, and that outside the event loop no task runs;
  the id of the next decision is known whenever there is a batch.
- `workflow \in Workflow`: the code that the tasks run is that of the program.

The argument follows the parts of the model.  Lemmas about the operators come first: what
`WithDecision` adds, what `Without` leaves, in what order (`WithoutOrder`), and what each
handler does to a machine that waits (`CompletionLegal`, `FailureLegal` and others).  Then
come the steps that leave the code alone: the service only makes histories longer
(`ServiceGrows`), and the thread takes batches of what it has polled.  The handlers of events
change one decision each and resolve at most one future.  What a coroutine does is covered
by `RunStep`: the running task moves on, and makes or withdraws a decision and its
future together.  `DeciderAssumption` gives the constants their types; that no signal
is called like one of the two tasks without a signal is a convention of the model.

The other four theorems each take one invariant more, inductive together with `Inv`:

- `OrderInv`, for `DoneInProgramOrder`: the place of a task in its code is one more than the
  number of operations that the log has of it, unless it is done.
- `QuietInv`, for `ClosedForGood`: while the execution is closed, no decision task is
  scheduled or started.  So the answer of a worker that has been timed out comes with the token
  of no task, and is refused.
- `TimersKept`, for `CancelFindsItsTimer`: a task that is in `await_till` with a timer
  has an entry for it in the dict of decisions.  No step removes an entry; the one that
  another decision with the same key replaces is of the same kind and id, which happens where ids
  have gone astray (section 5).
- `AdvancesTheExecution` takes the first two.  It is two of the three conditions for a
  step of DurableExecution: that the execution was open and that what is done is in program
  order.  The third, that what was done stays done, is its hypothesis, and is the subject
  of the next module.

`ReplayProofs` proves what the repository promises, for every set of workflow programs and
without bounds:

| Theorem | Statement |
|---|---|
| `ReplayIsDeterministic` | a step of the decider between its poll and its answer, unless it raises, leaves the state that `Succ` gives (`Deterministic`) |
| `ReplayResumes` | a worker that has replayed the history of an open execution has done all that is committed, or more (`[](~Closed => Resumes)`) |
| `IsDurable` | ReplayDecider implements DurableExecution (`DurableSpec`) |
| `SchedulesOnce` | each place in the code schedules one activity, however often it is replayed (`ScheduledOnce`) |
| `IdsMakeResults` | as long as the decisions agree with the history (`DecisionsMatchHistory`), what an operation returns is what the history holds for it (`ResultsAreRecorded`) |

They hold of programs whose replays raise, too (section 5): the thread ends, but
nothing that was done is done otherwise.  The difficulty is that the two replays to be
compared are hours and processes apart: one decided and was answered, the other reads what
has become of the history meanwhile.  The argument:

- *A replay is a set of states.*  `Trace(R, e, h, w)` says that the set `R` has the start
  and the `Succ`, for history `h` and program `w`, of each of its states but the last one, `e`.
  No state variable remembers a replay; the sets are quantified over, and `Path` says
  that there is one for the decider at work.
- *What became of the history.*  The service only makes it longer, and only answers record
  markers (`GoesOn`, `Answer`).  When an answer is accepted `committed` becomes the log of a
  replay of the history as far as some `DecisionTaskStarted`, which is now followed by its
  `DecisionTaskCompleted`, and the markers that answer it are those of the versions
  which that replay has asked for and not known before (`Decided`, `MarkersTell`).
- *The batches agree.*  A batch of the shorter history is, in the longer one, the same, or it is
  the one that was decided then and is replayed now (`BatchesAgree`).
- *The replay follows the first run* (`Match`).  Up to the batch that was decided last its states
  are in `R`.  Within that batch they have the same code, decider and place,
  and differ in the batch's `replay` and in the markers (`Follows`): the first run recorded a
  version where the replay finds it in the history, and the code learns the same
  (`Alike`).  After the event loop of that batch its log is the one committed, and from
  then on the log only grows.
- `ResumeInv` puts these together: `Path` for the decider at work, `Committed` for the
  history, and `Resuming`, which is `Match` unless the log has already reached what is
  committed.  `CommittedGrows` is the third condition of `AdvancesTheExecution`.

`SchedulesOnce` says which operations the activities of a history belong to:

- *An operation that has begun stays begun.*  `Begun(c, t, k)` says that code `c` has entered
  the operation at place `k` of task `t`, or is past it.  What begins an operation is done once
  per `Succ`, so that along a replay, and from a first run to what replays it, the operations
  begun only grow (`Further`).
- *The history schedules only what has begun* (`Covers`).  Each activity of the history is that
  of an operation which the committed code has begun.  This is why it rests on
  `ResumeInv`: the next worker has begun as much when it leaves replay, and so does not
  begin those operations again.  An operation that it does begin is new to the history.
- *What is yet to be sent* (`FreshInv`).  The decisions of activities that have not been sent are
  of operations which this code has begun, which the polled history does not have, and
  each of another operation (`FreshOk`).  In a replay there are none after the event loop of a
  batch: `notify_decision_sent` has marked them as sent, as they were when they were decided.
- An answer schedules each of those once and no others (`Schedules`), so the history that
  results still schedules every operation once (`Once`).

`IdsMakeResults` follows one result from the service to the operation that returns it, over four
ids that nothing compares: the key under which the code waits for its future, the id of the
decision, the id of the event that answers it, and the id to which the event of the result refers.
Its invariant `RecordedInv` has a part for each stretch of the way:

- `RefersInv`: an event that closes an activity or a timer, buffered or not, refers to an
  event that the history has.
- `WaitersNamed`: the decision with the id of a future or of a sleep bears the name of
  the place where its task stands.
- `ResultsTold`: the result of a task is the history's for that place.  Here the hypothesis
  comes in: the decision that takes a result by its id, and the event that opened what
  has closed, are of one kind and of one name.
- `LogRecorded`: so is every result that the log has.

The hypothesis cannot be dropped, nor be replaced by one that no replay raises:
`SwappedTimersPrograms` (section 5) raises nothing and mixes up two results.
What the service adds to a history, and who waits where for what, are lemmas at the end of
ReplayDeciderProofs.

`ReplayResumes` is restricted to open executions because `Resumes` is false of a closed one:
a program that makes a version known in the batch whose closing decision precedes
the marker loses that marker (the observation on `get_version` in section 5), and a query
then replays otherwise.  The runs of `Resumes` have no such program.  `IsDurable` needs no
restriction, since nothing is committed after the end.

Only model-checked:

- Two invariants of ReplayDecider, `DecisionsMatchHistory` and `NeverRaises`, which are not
  true of every program (section 5): a proof would have to say of which programs they are, and
  keep the ids of two replays equal as well as their codes.  `ResultsAreRecorded` is proved
  under the first of them, and that the first holds is model-checked.
- Liveness under fairness (`Completes`, `ThreadsEnd`, `ThreadGoesOn`, `WaitReturns`), which
  the prover cannot express.
- What a recursive definition computes for every input, where that needs an induction
  over an operator.  Where it was needed (`FlattenSeq`, `Without`), the proofs use that
  a set of numbers that is not empty has a least element.

## 5. Findings

Each was first met as a counterexample of the run named, and each can be repeated by
feeding `ReplayDecider` the history of the counterexample.

1. `early_flag`: `await_till` with a timeout creates a timer before it looks at its
   condition.  When the condition holds at once, the timer is taken back before it
   was ever sent, but its id stays used up; every later decision has an id one too
   high, and the next replay raises `NonDeterministicWorkflowException`.  A close
   relative is the program `BusySignalPrograms` of ReplayDeciderMC: the cancelation
   of a timer takes its id when the code cancels, but is sent at the place of the
   timer, before activities with lower ids.  It fails `NeverRaises` in the same way.
2. `lost_wakeup`: conditions are looked at once per batch.  A signal that is in the
   first batch sets the flag after the workflow method has looked, and no later
   event makes it look again.
3. `worker_stop`: `activity_task_loop` connects before its `try`.  When the
   connection is refused the thread ends without `notify_thread_stopped`, and
   `stop` waits forever for a thread that is gone.  The decision loop connects inside
   its `try` and does not have the fault.
In the first the exception ends the decision thread, since `DecisionTaskLoop.run`
catches `StopRequestedException` alone, and every other worker that replays the
same history ends the same way.  `replay_durable` shows what is left of the promise
then: the execution stops, but nothing it has done is undone or repeated.

Observations that contradict no statement of the repository:

- Ids that agree with nothing need not raise.  In `SwappedTimersPrograms` of ReplayDeciderMC
  five timers that `await_till` takes back unsent, as in the first finding, leave five ids
  used up, which the next batch gives out again.  A decision of that batch takes the place in
  the dict that an unsent timer of the same id still has (line 700), before decisions with
  lower ids.  The timer of the signal method's `sleep` is thus sent before that of the workflow
  method, and the service numbers them in that order.  The replay finds a timer for
  each id; when one fires, the wrong method goes on, and `ResultsAreRecorded` fails
  (in a behaviour of 111 steps).
- Two more replays end their thread; ReplayDeciderMC keeps programs for both, which fail
  `NeverRaises`.  `RepeatedVersionPrograms`: a marker is handled before its batch and again
  among its decision events; the second time forgets that the code has already seen it
  replayed, and a `get_version` of the same change in a later batch takes an id that it
  did not take live.  `FailingConditionPrograms`: a signal method whose condition raises
  stays among the tasks with a future that is done; the next batch sets it again.
- After a poll has timed out the activity loop polls on over a connection that is never
  read again.  The service hands tasks to these polls, each of which is lost until its
  timeout.
- When `complete` raises, because the result is no JSON or the answer does not come, the
  handler of the activity's own exceptions reports a failure: an activity that has
  succeeded may be retried, or be down as failed.  `ClosedForCause` has this case.
- A start that raises may have made a run; a retry uses a fresh request id and so cannot
  find it.  `StartsAreKnown` says that nothing but an exception leaves this open.
- A workflow whose failure cannot be encoded, or whose class is not found, leaves
  its run open until the execution times out.
- `clientVersionNotSupportedError` raises a `TypeError` in `find_error`, since the Thrift
  names of its fields are not those of the constructor.
- The tables of signals and queries are attributes of classes, and a base that is
  registered first shares its table with its subclasses (`Holder`).  An implementation
  that inherits another one registers its signals for both.
- Headers are measured in characters and written in UTF-8, so that a user or host name
  that is not ASCII shifts what follows it (`kvheaders.py:37`).  No model has such names.
- `stop` can also hang when nothing fails, if the two threads end at once and one
  `threads_stopped += 1` overwrites the other.  `worker` therefore checks that `stop`
  does not return too early, and that the threads end, not that `stop` returns.
- `start` after `stop(background=True)` resets the counters and the flag under threads
  that are still ending.  With `RestartsAfter` extended to background stops
  `StopMeansStopped` fails.
- When the first or second argument ends three bytes before the end of a frame,
  `is_frame_boundary` says that nothing more fits, yet `build_frames` writes one more,
  empty argument, and the later arguments shift by one place.  `fragments` leaves such
  messages out.  Only an unusually long method or header reaches it.
- When a signal method calls `get_version` in the batch in which the workflow method
  returns, its marker is sent after the closing decision and is never recorded; a
  query of the closed workflow then replays with the default version.  Queries
  are checked in `replay_ends` alone, where there are no versions.
- A query leaves out the last event of its history, and so may miss a signal.

## 6. Not modelled

- A workflow whose constructor raises: ReplayDecider starts each decider with an
  instance.  Tasks and handles that an earlier decider leaves in the thread's event loop:
  they belong to objects that nothing refers to any more.
- The workflow clock, random numbers and side-effect markers: deterministic
  functions of the history, or handlers without effect.
- `handle_initiation_failed_event` and `handle_cancellation_initiated_event`, which
  nothing calls.
- Errors in the data that a decider works on.  Inputs of workflows and signals, recorded
  failures and recorded versions can be read (lines 450, 589 and 689 of `decision_loop.py`
  and `validate_version` of `clock_decision_context.py` do not raise); results and exceptions
  can be written (lines 255, 612, 624 and 874); the times of a history do not go back (line 472).
  Delays are positive: with zero, `create_timer` calls its callback at once and makes no
  decision, and with a negative one it raises.  Programs whose failure cannot be encoded,
  and the run that this leaves open, are in Client.
- Multiple inheritance: `_find_metadata_field` asks each base by `getattr`, which goes by the
  base's own order of bases.  In Registration each class has one base at most.
- Frames of a type that `read_frame` does not know (`frames.py:59`): the call would raise with
  the connection open and its answer still to come.  The service is assumed to send none.
- How activities look to a decider and how they look to the loop that runs them are two
  models.  In WorkflowService an activity ends once, in one of the ways that
  Activities gives it; a composition would multiply their states and add no
  interaction, since all that passes between them is that end.
- Message ids and the contents of the handshake: nothing compares the ids.
- Two implementations in one worker of which one inherits the other: see the observation
  above; each run registers one.
- Most of `cadence_types.py`, `conversions.py` and `workflowservice.py`: data classes with
  the names of Thrift, a recursive copy between the two, and one method per call that
  differs from the next in names alone.  What a call comes to is in Errors and Connection.
- Activity stubs (`activity_method.py`): decorators that fill in the parameters of a call
  that is modelled.  Logging, tracebacks, JSON, the layout of frames beyond sizes.

## 7. Plan

1. *Done*: History, WorkflowService, HistoryHelper, DecisionStateMachine,
   DecisionLifecycle and its proofs, ReplayDecider with queries, DurableExecution.
2. *Done*: Worker; Fragments and the first proof about it.
3. *Done*: Connection and its proofs; Activities, Client, Errors, Registration and Failures;
   ActivitiesProofs and ClientProofs.
4. *Done*: ReplayPartsProofs and WorkerProofs; `LostForCause` and the names of
   activities in ActivitiesProofs; causes and names in ClientProofs; `NothingLeft` and
   `Reassembles` in FragmentsProofs.
5. *Done*: ReplayDeciderProofs: types, who waits for what, program order, closed
   executions, and `cancel_timer`.
6. *Done*: Replay and ReplayProofs: replays are deterministic, resume where the last one
   was, implement DurableExecution, schedule each activity once, and, where the ids agree with
   the history, give each operation its own result.
7. Open: to say of which programs the ids agree with the history (`DecisionsMatchHistory`),
   and to prove it of them.  In the models: a workflow whose constructor raises
   (ReplayDecider), and two implementations of which one inherits the other (Registration).
