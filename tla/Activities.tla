----------------------------- MODULE Activities -----------------------------
(***************************************************************************)
(* Activities from the moment the service schedules them until they are    *)
(* closed: the worker threads that run them (the body of                   *)
(* activity_task_loop), the clients that complete them from elsewhere      *)
(* (ActivityCompletionClient) and the service with its timeouts and        *)
(* retries, over connections that break and time out.                      *)
(*                                                                         *)
(* Starting and stopping threads is Worker's.  What an activity does, and  *)
(* what it returns or raises, is up to it.                                 *)
(***************************************************************************)
EXTENDS Integers, FiniteSets, Functions, Connection, Errors, Registration

CONSTANTS
  Activity,
  Thread,      \* the worker threads, each in a process of its own
  Client,      \* completion clients
  NoTask,
  Scheduled,   \* what may be scheduled: [type, json], a key and whether the input is JSON
  ServiceError,     \* the errors that the service reports, of CADENCE_ERROR_FIELDS
  ActivitiesClass,
  Methods,     \* the names of the methods of the registered implementation
  MaxAttempts, \* RetryParameters.maximum_attempts
  MaxFaults    \* bound: how often a thread may crash or a connection break

ASSUME ActivitiesAssumption ==
  /\ Conn = Thread
  /\ ServiceError \subseteq CADENCE_ERROR_FIELDS
  /\ \A what \in Scheduled : what.type = Key(what.type.cls, what.type.name)
  /\ MaxAttempts \in Nat \ {0}
  /\ MaxFaults \in Nat

\* A task token names the attempt that it was handed out for.
Token == Activity \X (1..MaxAttempts)

Poll == [call |-> "poll", token |-> NoTask]
ActivityRequest ==
  {Poll} \cup [call : {"complete", "fail", "heartbeat"}, token : Token]

Heartbeats == {request \in ActivityRequest : request.call = "heartbeat"}

ActivityAnswer ==
  [kind : {"ok", "cancel requested", "no task", "error frame"} \cup ServiceError,
   token : {NoTask}]
    \cup [kind : {"task"}, token : Token]

ASSUME TokenAssumption ==
  /\ NoTask \notin Token
  /\ Request = ActivityRequest
  /\ Answer = ActivityAnswer
  /\ Harmless = Heartbeats

Says(kind) == [kind |-> kind, token |-> NoTask]

VARIABLES
  scheduled,        \* service: each activity's type and input
  state,            \* service: where each activity is
  attempt,          \* service: the attempt under way, or the last one
  cancel_requested, \* service
  pc,               \* where each thread is
  task,             \* the token in its ActivityContext
  do_not_complete,
  holds,            \* the token a client has been given
  faults,
  ran,              \* history: how the code of each attempt has ended
  said,             \* history: what clients have reported of each attempt
  lost              \* history: attempts that went down with a connection, a process or a
                    \* report that the service would not take

serviceVars == <<scheduled, state, attempt, cancel_requested>>
threadVars == <<pc, task, do_not_complete>>
histVars == <<ran, said, lost>>
vars == <<connVars, serviceVars, threadVars, holds, faults, histVars>>

Init ==
  /\ ConnInit
  /\ scheduled \in [Activity -> Scheduled]
  /\ state = [a \in Activity |-> "scheduled"]
  /\ attempt = [a \in Activity |-> 1]
  /\ cancel_requested = [a \in Activity |-> FALSE]
  /\ pc = [t \in Thread |-> "poll"]
  /\ task = [t \in Thread |-> NoTask]
  /\ do_not_complete = [t \in Thread |-> FALSE]
  /\ holds = [c \in Client |-> NoTask]
  /\ faults = 0
  /\ ran = [k \in Token |-> "no"]
  /\ said = [k \in Token |-> "no"]
  /\ lost = {}

-----------------------------------------------------------------------------
(* The service *)

Current(k) == state[k[1]] = "started" /\ attempt[k[1]] = k[2]

\* A failure or a timeout of an attempt: the retry policy asks for another one, unless
\* the activity is to be canceled.
EndsAttempt(a, closed) ==
  IF attempt[a] < MaxAttempts /\ ~cancel_requested[a]
  THEN /\ state' = [state EXCEPT ![a] = "scheduled"]
       /\ attempt' = [attempt EXCEPT ![a] = @ + 1]
  ELSE /\ state' = [state EXCEPT ![a] = closed]
       /\ UNCHANGED attempt

\* The tasks that wait in the stream of a connection.
TasksIn(c) ==
  {arrived.answer.token : arrived \in {x \in Range(stream[c]) : x.answer.kind = "task"}}

\* The task may be handed to a caller that will not hear of it.
HandOut(s) ==
  /\ s.request = Poll
  /\ \E a \in Activity :
       LET k == <<a, attempt[a]>>
       IN  /\ state[a] = "scheduled"
           /\ state' = [state EXCEPT ![a] = "started"]
           /\ \/ Serve(s, [kind |-> "task", token |-> k])
              \/ Serve(s, Says("error frame"))
           /\ lost' = IF k \in TasksIn(s.conn)' THEN lost ELSE lost \cup {k}
  /\ UNCHANGED <<scheduled, attempt, cancel_requested, threadVars, holds, faults, ran, said>>

\* RespondActivityTaskCompleted and RespondActivityTaskFailed, for the attempt under way.
Closes(call, k) ==
  IF call = "complete"
  THEN state' = [state EXCEPT ![k[1]] = "completed"] /\ UNCHANGED attempt
  ELSE EndsAttempt(k[1], "failed")

\* The answer may be an error frame although the service has acted.
Acted(s, answer) == Serve(s, answer) \/ Serve(s, Says("error frame"))

Report(s) ==
  /\ s.request.call \in {"complete", "fail"}
  /\ Current(s.request.token)
  /\ Closes(s.request.call, s.request.token)
  /\ Acted(s, Says("ok"))
  /\ UNCHANGED <<scheduled, cancel_requested, threadVars, holds, faults, histVars>>

RecordHeartbeat(s) ==
  /\ s.request.call = "heartbeat"
  /\ Current(s.request.token)
  /\ Acted(s, Says(IF cancel_requested[s.request.token[1]] THEN "cancel requested" ELSE "ok"))
  /\ UNCHANGED <<serviceVars, threadVars, holds, faults, histVars>>

\* There is no task, the attempt is not the current one, or the service is busy.
Refuse(s) ==
  /\ \E kind \in {"error frame"} \cup ServiceError \cup (IF s.request = Poll THEN {"no task"} ELSE {}) :
       Serve(s, Says(kind))
  /\ UNCHANGED <<serviceVars, threadVars, holds, faults, histVars>>

RequestCancel(a) ==
  /\ state[a] \in {"scheduled", "started"}
  /\ ~cancel_requested[a]
  /\ cancel_requested' = [cancel_requested EXCEPT ![a] = TRUE]
  /\ UNCHANGED <<connVars, scheduled, state, attempt, threadVars, holds, faults, histVars>>

TimeOutAttempt(a) ==
  /\ state[a] = "started"
  /\ EndsAttempt(a, "timed out")
  /\ UNCHANGED <<connVars, scheduled, cancel_requested, threadVars, holds, faults, histVars>>

PeerGoes(c) ==
  /\ faults < MaxFaults
  /\ faults' = faults + 1
  /\ Breaks(c)
  /\ lost' = lost \cup (TasksIn(c) \ TasksIn(c)')
  /\ UNCHANGED <<serviceVars, threadVars, holds, ran, said>>

-----------------------------------------------------------------------------
(* activity_task_loop *)

\* Worker.activities.
activities ==
  register_activities_implementation(<<>>, ActivitiesClass, [name \in Methods |-> name])

Registered(a) == scheduled[a].type \in DOMAIN activities

\* What the call of a thread is about to come to.
HeardBy(t) == Heard(NextAnswer(t).answer.kind)

Goto(t, place) == pc' = [pc EXCEPT ![t] = place]

Stays == UNCHANGED <<task, do_not_complete>>

\* Mutant: the context of one activity is left to the next.
Leaves_context(t, place) == Goto(t, place) /\ Stays

\* The finally around an activity: the context is cleared.
Leaves(t, place) ==
  /\ Goto(t, place)
  /\ task' = [task EXCEPT ![t] = NoTask]
  /\ do_not_complete' = [do_not_complete EXCEPT ![t] = FALSE]

poll_for_activity_task(t) ==
  /\ pc[t] = "poll"
  /\ Call(t, Poll, TRUE)
  /\ Goto(t, "polling")
  /\ Stays
  /\ UNCHANGED <<serviceVars, holds, faults, histVars>>

\* A poll that brings no task, for whatever reason: the loop goes on.
PollsNothing(t) ==
  /\ pc[t] = "polling"
  /\ \/ Raises(t) /\ lost' = lost \cup TasksIn(t)
     \/ Return(t) /\ NextAnswer(t).answer.kind # "task" /\ UNCHANGED lost
  /\ Goto(t, "poll")
  /\ Stays
  /\ UNCHANGED <<serviceVars, holds, faults, ran, said>>

PollsTask(t) ==
  /\ pc[t] = "polling"
  /\ Return(t)
  /\ NextAnswer(t).answer.kind = "task"
  /\ task' = [task EXCEPT ![t] = NextAnswer(t).answer.token]
  /\ Goto(t, "dispatch")
  /\ UNCHANGED <<serviceVars, do_not_complete, holds, faults, histVars>>

\* json_to_args raises outside the try, and the thread ends.
json_to_args_raises(t) ==
  /\ pc[t] = "dispatch"
  /\ ~scheduled[task[t][1]].json
  /\ Leaves(t, "close")
  /\ UNCHANGED <<connVars, serviceVars, holds, faults, histVars>>

\* The service is not told that the activity type is not found.
NotFound(t) ==
  /\ pc[t] = "dispatch"
  /\ scheduled[task[t][1]].json
  /\ ~Registered(task[t][1])
  /\ Leaves(t, "poll")
  /\ UNCHANGED <<connVars, serviceVars, holds, faults, histVars>>

Dispatch(t) ==
  /\ pc[t] = "dispatch"
  /\ scheduled[task[t][1]].json
  /\ Registered(task[t][1])
  /\ Goto(t, "running")
  /\ ran' = [ran EXCEPT ![task[t]] = "running"]
  /\ Stays
  /\ UNCHANGED <<connVars, serviceVars, holds, faults, said, lost>>

\* Mutant: the callback of the last poll is still set, and so nothing times out.
Calls_patient(t, call, place) ==
  /\ Call(t, [call |-> call, token |-> task[t]], TRUE)
  /\ Goto(t, place)
  /\ Stays
  /\ UNCHANGED <<serviceVars, holds, faults, histVars>>

\* A call whose answer the thread waits for in this place; reads time out.
Calls(t, call, place) ==
  /\ Call(t, [call |-> call, token |-> task[t]], FALSE)
  /\ Goto(t, place)
  /\ Stays
  /\ UNCHANGED <<serviceVars, holds, faults, histVars>>

\* A call raises: its connection is gone, or the answer is an exception.
CallRaises(t) ==
  \/ Raises(t)
  \/ Return(t) /\ HeardBy(t) = "exception"

NotWritten(t) == CannotWrite(t) /\ UNCHANGED connVars

(* The activity's code *)

heartbeat(t) == pc[t] = "running" /\ Calls(t, "heartbeat", "heartbeat")

\* An error or ActivityCancelledException is raised, which the activity may catch.
HeartbeatRaises(t) ==
  /\ \/ pc[t] = "running" /\ NotWritten(t)
     \/ pc[t] = "heartbeat" /\ CallRaises(t)
     \/ pc[t] = "heartbeat" /\ Return(t)
          /\ HeardBy(t) \in {"error", "cancel requested"}
  /\ \E place \in {"running", "raising"} : Goto(t, place)
  /\ Stays
  /\ UNCHANGED <<serviceVars, holds, faults, histVars>>

HeartbeatReturns(t) ==
  /\ pc[t] = "heartbeat"
  /\ Return(t)
  /\ NextAnswer(t).answer.kind = "ok"
  /\ Goto(t, "running")
  /\ Stays
  /\ UNCHANGED <<serviceVars, holds, faults, histVars>>

\* The activity leaves its token with a client.
do_not_complete_on_return(t) ==
  /\ pc[t] = "running"
  /\ ~do_not_complete[t]
  /\ do_not_complete' = [do_not_complete EXCEPT ![t] = TRUE]
  /\ \E c \in Client : holds[c] = NoTask /\ holds' = [holds EXCEPT ![c] = task[t]]
  /\ UNCHANGED <<connVars, serviceVars, pc, task, faults, histVars>>

\* Mutant: the flag is not looked at.
Completes_always(t) == TRUE

\* Whether the loop reports what the activity has returned.
Completes(t) == ~do_not_complete[t]

CodeReturns(t) ==
  /\ pc[t] = "running"
  /\ ran' = [ran EXCEPT ![task[t]] = IF do_not_complete[t] THEN "handed over" ELSE "returned"]
  /\ IF Completes(t) THEN Goto(t, "returned") /\ Stays ELSE Leaves(t, "poll")
  /\ UNCHANGED <<connVars, serviceVars, holds, faults, said, lost>>

CodeRaises(t) ==
  /\ pc[t] \in {"running", "raising"}
  /\ ran' = [ran EXCEPT ![task[t]] = "raised"]
  /\ Goto(t, "raised")
  /\ Stays
  /\ UNCHANGED <<connVars, serviceVars, holds, faults, said, lost>>

(* Reporting it *)

complete(t) == pc[t] = "returned" /\ Calls(t, "complete", "completing")

\* Mutant: a completion that raises is only logged.
AfterComplete_logged(t) == Leaves(t, "poll")

\* The handler of the activity's own exceptions reports the activity as failed.
AfterComplete(t) == Goto(t, "raised") /\ Stays

\* The result cannot be encoded, or the call raises, whether or not the service has acted.
CompleteRaises(t) ==
  /\ \/ pc[t] = "returned" /\ UNCHANGED connVars
     \/ pc[t] = "completing" /\ CallRaises(t)
  /\ ran' = [ran EXCEPT ![task[t]] = "unreported"]
  /\ AfterComplete(t)
  /\ UNCHANGED <<serviceVars, holds, faults, said, lost>>

\* An error is logged; the result is gone.
ReportReturns(t) ==
  /\ pc[t] \in {"completing", "failing"}
  /\ Return(t)
  /\ HeardBy(t) \in {"ok", "error"}
  /\ Leaves(t, "poll")
  /\ lost' = IF HeardBy(t) = "error" THEN lost \cup {task[t]} ELSE lost
  /\ UNCHANGED <<serviceVars, holds, faults, ran, said>>

complete_exceptionally(t) == pc[t] = "raised" /\ Calls(t, "fail", "failing")

\* The exception cannot be encoded, or the call raises: the thread ends.
FailRaises(t) ==
  /\ \/ pc[t] = "raised" /\ UNCHANGED connVars
     \/ pc[t] = "failing" /\ CallRaises(t)
  /\ Leaves(t, "close")
  /\ lost' = lost \cup {task[t]}
  /\ UNCHANGED <<serviceVars, holds, faults, ran, said>>

ThreadEnds(t) ==
  /\ pc[t] = "close"
  /\ close(t)
  /\ Goto(t, "ended")
  /\ Stays
  /\ UNCHANGED <<serviceVars, holds, faults, histVars>>

Crash(t) ==
  /\ faults < MaxFaults
  /\ pc[t] # "ended"
  /\ faults' = faults + 1
  /\ Dies(t)
  /\ Leaves(t, "ended")
  /\ lost' = lost \cup TasksIn(t) \cup ({task[t]} \ {NoTask})
  /\ UNCHANGED <<serviceVars, holds, ran, said>>

-----------------------------------------------------------------------------
(* ActivityCompletionClient *)

\* complete or complete_exceptionally, as often as the client likes.  The client changes
\* nothing while it waits, so a call that is under way for long is one made later, and has
\* its effect at once here; a call that is refused or lost has none.
ClientCalls(c) ==
  /\ holds[c] # NoTask
  /\ Current(holds[c])
  /\ \E call \in {"complete", "fail"} :
       /\ said' = [said EXCEPT ![holds[c]] = call]
       /\ Closes(call, holds[c])
  /\ UNCHANGED <<connVars, scheduled, cancel_requested, threadVars, holds, faults, ran, lost>>

\* The client has heard that it is done, or lets an error pass.
ClientLeaves(c) ==
  /\ holds[c] # NoTask
  /\ holds' = [holds EXCEPT ![c] = NoTask]
  /\ lost' = lost \cup {holds[c]}
  /\ UNCHANGED <<connVars, serviceVars, threadVars, faults, ran, said>>

-----------------------------------------------------------------------------

ServiceStep == \E s \in sent : HandOut(s) \/ Report(s) \/ RecordHeartbeat(s) \/ Refuse(s)

\* What a thread does by itself, once it has a task.
ThreadStep(t) ==
  \/ PollsNothing(t)
  \/ PollsTask(t)
  \/ json_to_args_raises(t)
  \/ NotFound(t)
  \/ Dispatch(t)
  \/ HeartbeatRaises(t)
  \/ HeartbeatReturns(t)
  \/ complete(t)
  \/ CompleteRaises(t)
  \/ ReportReturns(t)
  \/ complete_exceptionally(t)
  \/ FailRaises(t)
  \/ ThreadEnds(t)

CodeEnds(t) == CodeReturns(t) \/ CodeRaises(t)

Next ==
  \/ ServiceStep
  \/ \E a \in Activity : RequestCancel(a) \/ TimeOutAttempt(a)
  \/ \E t \in Thread :
       \/ poll_for_activity_task(t)
       \/ ThreadStep(t)
       \/ heartbeat(t)
       \/ do_not_complete_on_return(t)
       \/ CodeEnds(t)
       \/ Crash(t)
  \/ \E c \in Client : ClientCalls(c) \/ ClientLeaves(c)
  \/ \E c \in Conn :
       \/ FirstByte(c) /\ UNCHANGED <<serviceVars, threadVars, holds, faults, histVars>>
       \/ PeerGoes(c)

Spec == Init /\ [][Next]_vars

\* Threads go on, and reads that take too long time out: nothing is asked of the service.
\* An activity may heartbeat as long as it likes, but not for ever.
Fairness ==
  \A t \in Thread : WF_vars(ThreadStep(t)) /\ SF_vars(CodeEnds(t))

FairSpec == Spec /\ Fairness

-----------------------------------------------------------------------------
(* Properties *)

ActivityState == {"scheduled", "started", "completed", "failed", "timed out"}
Away == {"poll", "polling", "close", "ended"}
Place == Away \cup {"dispatch", "running", "heartbeat", "raising", "returned", "completing",
                    "raised", "failing"}
Ending == {"no", "running", "returned", "handed over", "raised", "unreported"}

\* Among the types: a thread has a task exactly while it works on it.
TypeOK ==
  /\ ConnTypeOK
  /\ scheduled \in [Activity -> Scheduled]
  /\ state \in [Activity -> ActivityState]
  /\ attempt \in [Activity -> 1..MaxAttempts]
  /\ cancel_requested \in [Activity -> BOOLEAN]
  /\ pc \in [Thread -> Place]
  /\ task \in [Thread -> Token \cup {NoTask}]
  /\ \A t \in Thread : task[t] = NoTask <=> pc[t] \in Away
  /\ do_not_complete \in [Thread -> BOOLEAN]
  /\ holds \in [Client -> Token \cup {NoTask}]
  /\ faults \in 0..MaxFaults
  /\ ran \in [Token -> Ending]
  /\ said \in [Token -> {"no", "complete", "fail"}]
  /\ lost \subseteq Token

\* The service has an activity down as completed or failed because of that attempt and of
\* no other: the loop reports what the activity has done, unless the activity leaves that
\* to a client, and a failure in place of a result only when the report of the result
\* raised (activity_loop.py:68-74).
ClosedForCause ==
  \A a \in Activity :
    LET k == <<a, attempt[a]>>
    IN  /\ state[a] = "completed" =>
             ran[k] \in {"returned", "unreported"} \/ said[k] = "complete"
        /\ state[a] = "failed" =>
             ran[k] \in {"raised", "unreported"} \/ said[k] = "fail"

\* The method that runs is the one whose name the stub has used, in either spelling and
\* whatever other methods of the implementation are called (worker.py:75-76).
RunsTheActivity ==
  \A k \in Token :
    LET type == scheduled[k[1]].type
    IN  ran[k] # "no" => SameMethod(activities[type], type.name)

Kept(k) ==
  \/ \E t \in Thread : task[t] = k \/ k \in TasksIn(t)
  \/ \E c \in Client : holds[c] = k

\* An activity that has arguments, and the name of a method of the implementation in one
\* of the two spellings.
Sensible(what) ==
  /\ what.json
  /\ what.type.cls = ActivitiesClass
  /\ IsSpelled(what.type.name)
  /\ \E name \in Methods : SameMethod(name, what.type.name)

\* An attempt that the service waits for and nobody works on can only time out.  That happens to what went down with a connection or a process, to
\* reports that the service would not take, and to activities no worker can make
\* anything of (activity_loop.py:50-55), and to nothing else.
LostForCause ==
  \A k \in Token :
    Current(k) /\ ~Kept(k) => k \in lost \/ ~Sensible(scheduled[k[1]])

\* A thread that has a task is some time done with it and polls again or ends, even if
\* the service never answers.
ThreadGoesOn ==
  \A t \in Thread : task[t] # NoTask ~> task[t] = NoTask
=============================================================================
