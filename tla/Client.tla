------------------------------- MODULE Client -------------------------------
(***************************************************************************)
(* WorkflowClient: a caller starts workflows through a stub, waits for     *)
(* them, signals and queries them, over connections that time out and      *)
(* break; the runs that the service has of them, and how the worker finds  *)
(* their code and ends it.                                                 *)
(*                                                                         *)
(* How a run gets from its start to its end is ReplayDecider's.            *)
(***************************************************************************)
EXTENDS Integers, Functions, Connection, Errors, Failures, Registration

CONSTANTS
  WorkflowMethod, \* how the workflow may be declared: whether a workflow_id is given, its
                  \* reuse policy, the mro of the class that the stub is made from, and the
                  \* ways in which its code may end
  Implementation, \* the mro of the class registered with the worker
  OtherEnds,      \* how a run may be closed by others
  ServiceError,   \* the errors that the service reports for reasons of its own
  MaxStarts,      \* bound
  MaxSignals      \* bound

ASSUME ClientAssumption ==
  /\ ServiceError \subseteq CADENCE_ERROR_FIELDS
  /\ MaxStarts \in Nat
  /\ MaxSignals \in Nat

\* Starts are numbered, which stands for their request ids.  The workflow id is the one of
\* the declaration, or a fresh one: the number of the start.  A run's id is its place in
\* runs.
TheId == 0
NoRun == 0
Execution == [workflow_id : 0..MaxStarts, run_id : 0..MaxStarts]
NoExecution == [workflow_id |-> -1, run_id |-> NoRun]

ClientRequest == [call : {"start", "history", "signal", "query"}, of : Execution, start : 0..MaxStarts]

\* run is the run that the answer is about.
ClientAnswer ==
  [kind : {"ok", "run", "empty", "event", "error frame"} \cup CADENCE_ERROR_FIELDS,
   run : 0..MaxStarts]

ReadOnly == {request \in ClientRequest : request.call \in {"history", "query"}}

ASSUME MessageAssumption ==
  Request = ClientRequest /\ Answer = ClientAnswer /\ Harmless = ReadOnly

Says(kind, r) == [kind |-> kind, run |-> r]

VARIABLES
  wm,         \* the declaration
  runs,       \* service: all runs, in the order of their starts
  pc,         \* where each caller is
  sync,       \* whether it goes on to wait for what it starts
  stub_execution, \* the _execution of its stub
  context,    \* what its last start has returned
  waits,      \* what it waits for
  starts, signals, \* how many there were
  outcome,    \* history: what its wait has come to, until it does something else
  heard       \* history: what each start has come to

callerVars == <<pc, sync, stub_execution, context, waits>>
histVars == <<outcome, heard>>
vars == <<connVars, wm, runs, callerVars, starts, signals, histVars>>

\* What a start comes to, if not to a run.
Unheard == 0
Raised == -1
Refused == -2

NoOutcome == [of |-> NoExecution, run |-> NoRun, kind |-> "none",
              exception |-> NoException, cause |-> NoException]
NotEnded == [exception |-> NoException, origin |-> Exception("not ended", <<>>)]

\* How the workflow's code may end: it returns, or raises an exception of its own, or lets
\* pass what an activity's failure or timeout raises in it.  Neither it nor an activity
\* raises the library's ExternalException, which stands for an exception of any class.
MayEnd(end) ==
  /\ end.origin.class # "ExternalException"
  /\ \/ end.exception = NoException
     \/ /\ end.origin.class # NoException.class
        /\ \/ end.exception = end.origin /\ end.origin.class # "ActivityFailureException"
           \/ end.exception = ActivityFailureException(serialize_exception(end.origin))
     \/ end.exception = ActivityTimeout /\ end.origin = ActivityTaskTimeoutException

ASSUME EndsAssumption ==
  /\ \A workflow \in WorkflowMethod : \A end \in workflow.ends : MayEnd(end)
  /\ "failed" \notin OtherEnds

NotFound == [cls |-> NoClass, name |-> <<>>]
NoEvent == [kind |-> "open", details |-> Plain]

Init ==
  /\ ConnInit
  /\ wm \in WorkflowMethod
  /\ runs = <<>>
  /\ pc = [c \in Conn |-> "idle"]
  /\ sync = [c \in Conn |-> FALSE]
  /\ stub_execution = [c \in Conn |-> NoExecution]
  /\ context = [c \in Conn |-> NoExecution]
  /\ waits = [c \in Conn |-> NoExecution]
  /\ starts = 0
  /\ signals = 0
  /\ outcome = [c \in Conn |-> NoOutcome]
  /\ heard = [n \in 1..MaxStarts |-> Unheard]

-----------------------------------------------------------------------------
(* The service *)

RunsOf(workflow_id) == {r \in DOMAIN runs : runs[r].workflow_id = workflow_id}
Latest(workflow_id) == IF RunsOf(workflow_id) = {} THEN NoRun ELSE Max(RunsOf(workflow_id))

\* The run that an execution names, or the latest with its workflow id.
Target(execution) ==
  IF execution.run_id # NoRun THEN execution.run_id ELSE Latest(execution.workflow_id)

IsOpen(r) == runs[r].event = NoEvent

\* WorkflowIdReusePolicy.
MayStart(workflow_id) ==
  LET r == Latest(workflow_id)
  IN  \/ r = NoRun
      \/ /\ ~IsOpen(r)
         /\ wm.policy # "RejectDuplicate"
         /\ wm.policy = "AllowDuplicateFailedOnly" => runs[r].event.kind # "completed"

\* An answer may be an error frame although the service has acted.
Acted(s, answer) == Serve(s, answer) \/ Serve(s, Says("error frame", NoRun))

ServeStart(s) ==
  /\ s.request.call = "start"
  /\ IF MayStart(s.request.of.workflow_id)
     THEN /\ runs' = Append(runs, [workflow_id |-> s.request.of.workflow_id,
                                   start |-> s.request.start, event |-> NoEvent,
                                   code |-> NotEnded, handled |-> {}])
          /\ Acted(s, Says("run", Len(runs) + 1))
     ELSE Serve(s, Says("sessionAlreadyExistError", NoRun)) /\ UNCHANGED runs
  /\ UNCHANGED <<wm, callerVars, starts, signals, histVars>>

\* GetWorkflowExecutionHistory with wait_for_new_event and the filter CLOSE_EVENT: the
\* service waits for the end of the run, but not longer than a minute.
ServeHistory(s) ==
  /\ s.request.call = "history"
  /\ LET r == Target(s.request.of)
     IN  /\ r # NoRun
         /\ Acted(s, IF IsOpen(r) THEN Says("empty", r) ELSE Says("event", r))
  /\ UNCHANGED <<wm, runs, callerVars, starts, signals, histVars>>

ServeQuery(s) ==
  /\ s.request.call = "query"
  /\ Target(s.request.of) # NoRun
  /\ \E kind \in {"ok", "queryFailedError"} : Acted(s, Says(kind, Target(s.request.of)))
  /\ UNCHANGED <<wm, runs, callerVars, starts, signals, histVars>>

\* The run does not exist or has ended, or the service is busy.
Refuse(s) ==
  /\ \E kind \in ServiceError \cup {"error frame"} : Serve(s, Says(kind, NoRun))
  /\ UNCHANGED <<wm, runs, callerVars, starts, signals, histVars>>

\* Every run has an execution timeout; and others may terminate it, cancel it, or have it go
\* on as a new one.
EndsOtherwise(r) ==
  /\ IsOpen(r)
  /\ \E kind \in OtherEnds : runs' = [runs EXCEPT ![r].event = [kind |-> kind, details |-> Plain]]
  /\ UNCHANGED <<connVars, wm, callerVars, starts, signals, histVars>>

-----------------------------------------------------------------------------
(* The worker *)

registry == register_workflow_implementation_type(NoImplementations, Implementation, <<>>)

\* The names that the stub uses; the interface has one workflow method and one signal.
TypeName == LET names == new_workflow_stub(wm.stub, "workflow")
            IN  names[CHOOSE name \in DOMAIN names : TRUE]
SignalName == LET names == new_workflow_stub(wm.stub, "signal")
              IN  names[CHOOSE name \in DOMAIN names : TRUE]

\* complete_workflow_execution and fail_workflow_execution.  An end is what the code has
\* raised, if anything, and the exception that this comes from.  A failure that cannot be
\* encoded is raised where nobody sees it, and the run stays open.
EventOf(end) ==
  IF end.exception = NoException THEN [kind |-> "completed", details |-> Plain]
  ELSE IF Encodable(end.exception)
  THEN [kind |-> "failed", details |-> serialize_exception(end.exception)]
  ELSE NoEvent

\* workflow_main.
workflow_main(r) ==
  /\ IsOpen(r)
  /\ runs[r].code = NotEnded
  /\ TypeName \in DOMAIN registry.workflow_methods
  /\ \E end \in wm.ends :
       runs' = [runs EXCEPT ![r].code = end, ![r].event = EventOf(end)]
  /\ UNCHANGED <<connVars, wm, callerVars, starts, signals, histVars>>

\* The decision thread ends at each attempt, and the run stays open.
TypeNotFound(r) ==
  /\ IsOpen(r)
  /\ TypeName \notin DOMAIN registry.workflow_methods
  /\ runs' = [runs EXCEPT ![r].handled = {NotFound}]
  /\ UNCHANGED <<connVars, wm, callerVars, starts, signals, histVars>>

\* What the worker finds for the signal.
SignalMethod ==
  LET table == SignalMethods(registry, Implementation)
  IN  IF SignalName \in DOMAIN table THEN table[SignalName] ELSE NotFound

\* The signal is recorded, and the worker runs its method if it finds one.
ServeSignal(s) ==
  /\ s.request.call = "signal"
  /\ LET r == Target(s.request.of)
     IN  /\ r # NoRun
         /\ IsOpen(r)
         /\ runs' = [runs EXCEPT ![r].handled = @ \cup {SignalMethod}]
         /\ Acted(s, Says("ok", r))
  /\ UNCHANGED <<wm, callerVars, starts, signals, histVars>>

-----------------------------------------------------------------------------
(* The caller *)

Goto(c, place) == pc' = [pc EXCEPT ![c] = place]

\* What a call is about to come to.
HeardBy(c) == Heard(NextAnswer(c).answer.kind)

\* A call raises: its connection is gone, or it returns an error or an exception.
CallRaises(c) == Raises(c) \/ (Return(c) /\ HeardBy(c) \in {"error", "exception"})

\* Mutant: the declared workflow_id is not looked at.
WorkflowIdFor_fresh(n) == n

\* create_start_workflow_request: the workflow id of the nth start.
WorkflowIdFor(n) == IF wm.named THEN TheId ELSE n

\* By WorkflowClient.start or by the stub's method itself.
exec_workflow(c) ==
  /\ pc[c] = "idle"
  /\ starts < MaxStarts
  /\ starts' = starts + 1
  /\ LET of == [workflow_id |-> WorkflowIdFor(starts + 1), run_id |-> NoRun]
     IN  Call(c, [call |-> "start", of |-> of, start |-> starts + 1], FALSE)
  /\ \E b \in BOOLEAN : sync' = [sync EXCEPT ![c] = b]
  /\ Goto(c, "starting")
  /\ outcome' = [outcome EXCEPT ![c] = NoOutcome]
  /\ UNCHANGED <<wm, runs, stub_execution, context, waits, signals, heard>>

ExecReturns(c) ==
  /\ pc[c] = "starting"
  /\ Return(c)
  /\ HeardBy(c) = "run"
  /\ LET execution == [workflow_id |-> asked[c].of.workflow_id,
                       run_id |-> NextAnswer(c).answer.run]
     IN  /\ stub_execution' = [stub_execution EXCEPT ![c] = execution]
         /\ context' = [context EXCEPT ![c] = execution]
         /\ waits' = IF sync[c] THEN [waits EXCEPT ![c] = execution] ELSE waits
  /\ Goto(c, IF sync[c] THEN "wait" ELSE "idle")
  /\ sync' = [sync EXCEPT ![c] = FALSE]
  /\ heard' = [heard EXCEPT ![asked[c].start] = NextAnswer(c).answer.run]
  /\ UNCHANGED <<wm, runs, starts, signals, outcome>>

\* The stub and its context stay as they were.
ExecRaises(c) ==
  /\ pc[c] = "starting"
  /\ \/ /\ Return(c)
        /\ HeardBy(c) = "error"
        /\ heard' = [heard EXCEPT ![asked[c].start] = Refused]
     \/ /\ Raises(c) \/ (Return(c) /\ HeardBy(c) = "exception")
        /\ heard' = [heard EXCEPT ![asked[c].start] = Raised]
  /\ Goto(c, "idle")
  /\ sync' = [sync EXCEPT ![c] = FALSE]
  /\ UNCHANGED <<wm, runs, stub_execution, context, waits, starts, signals, outcome>>

(* Waiting *)

\* With the context, or with the workflow id alone.
wait_for_close(c) ==
  /\ pc[c] = "idle"
  /\ context[c] # NoExecution
  /\ waits' \in {[waits EXCEPT ![c] = context[c]],
                 [waits EXCEPT ![c] = [context[c] EXCEPT !.run_id = NoRun]]}
  /\ outcome' = [outcome EXCEPT ![c] = NoOutcome]
  /\ Goto(c, "wait")
  /\ UNCHANGED <<connVars, wm, runs, sync, stub_execution, context, starts, signals, heard>>

\* Mutant: the request forgets the run id.
WaitedFor_id(execution) == [execution EXCEPT !.run_id = NoRun]

\* create_close_history_event_request: the execution that the history is asked of.
WaitedFor(execution) == execution

get_workflow_execution_history(c) ==
  /\ pc[c] = "wait"
  /\ Call(c, [call |-> "history", of |-> WaitedFor(waits[c]), start |-> 0], FALSE)
  /\ Goto(c, "waiting")
  /\ UNCHANGED <<wm, runs, sync, stub_execution, context, waits, starts, signals, histVars>>

\* Mutant: an ending that is not known is no ending.
EndsWait_known(kind) == kind \in {"completed", "failed"}

\* Whether the loop ends with this event, by returning or by raising.
EndsWait(kind) == TRUE

\* The service has no event yet.
WaitsOn(c) ==
  /\ pc[c] = "waiting"
  /\ Return(c)
  /\ \/ HeardBy(c) = "empty"
     \/ HeardBy(c) = "event" /\ ~EndsWait(runs[NextAnswer(c).answer.run].event.kind)
  /\ Goto(c, "wait")
  /\ UNCHANGED <<wm, runs, sync, stub_execution, context, waits, starts, signals, histVars>>

\* Mutant: an exception of an activity is shown without its cause.
Cause_none(exception) == NoException

Cause(exception) == CauseOf(exception)

\* What the caller gets to see of an event, which is of this run.
OutcomeOf(execution, r) ==
  LET event == runs[r].event
      exception == IF event.kind = "failed" THEN deserialize_exception(event.details)
                   ELSE NoException
  IN  [of |-> execution, run |-> r, kind |-> event.kind, exception |-> exception,
       cause |-> Cause(exception)]

Leaves(c) ==
  /\ Goto(c, "idle")
  /\ waits' = [waits EXCEPT ![c] = NoExecution]

WaitEnds(c) ==
  /\ pc[c] = "waiting"
  /\ Return(c)
  /\ HeardBy(c) = "event"
  /\ LET r == NextAnswer(c).answer.run
     IN  /\ EndsWait(runs[r].event.kind)
         /\ outcome' = [outcome EXCEPT ![c] = OutcomeOf(waits[c], r)]
  /\ Leaves(c)
  /\ UNCHANGED <<wm, runs, sync, stub_execution, context, starts, signals, heard>>

WaitRaises(c) ==
  /\ \/ pc[c] = "waiting" /\ CallRaises(c)
     \/ pc[c] = "wait" /\ CannotWrite(c) /\ UNCHANGED connVars
  /\ Leaves(c)
  /\ UNCHANGED <<wm, runs, sync, stub_execution, context, starts, signals, histVars>>

(* Signals and queries *)

\* The stub is made for the workflow id, whichever run has it.  A caller has one stub.
new_workflow_stub_from_workflow_id(c) ==
  /\ pc[c] = "idle"
  /\ stub_execution[c] = NoExecution
  /\ starts = 0
  /\ wm.named
  /\ stub_execution' = [stub_execution EXCEPT ![c] = [workflow_id |-> TheId, run_id |-> NoRun]]
  /\ UNCHANGED <<connVars, wm, runs, pc, sync, context, waits, starts, signals, histVars>>

\* Both assert that the stub has an execution.
exec_signal(c) ==
  /\ pc[c] = "idle"
  /\ stub_execution[c] # NoExecution
  /\ signals < MaxSignals
  /\ signals' = signals + 1
  /\ Call(c, [call |-> "signal", of |-> stub_execution[c], start |-> 0], FALSE)
  /\ Goto(c, "signalling")
  /\ outcome' = [outcome EXCEPT ![c] = NoOutcome]
  /\ UNCHANGED <<wm, runs, sync, stub_execution, context, waits, starts, heard>>

exec_query(c) ==
  /\ pc[c] = "idle"
  /\ stub_execution[c] # NoExecution
  /\ Call(c, [call |-> "query", of |-> stub_execution[c], start |-> 0], FALSE)
  /\ Goto(c, "querying")
  /\ outcome' = [outcome EXCEPT ![c] = NoOutcome]
  /\ UNCHANGED <<wm, runs, sync, stub_execution, context, waits, starts, signals, heard>>

\* The caller knows whether it has been done, if the answer is not an exception.
ExecEnds(c) ==
  /\ pc[c] \in {"signalling", "querying"}
  /\ Return(c) \/ Raises(c)
  /\ Goto(c, "idle")
  /\ UNCHANGED <<wm, runs, sync, stub_execution, context, waits, starts, signals, histVars>>

PeerGoes(c) ==
  /\ Breaks(c)
  /\ UNCHANGED <<wm, runs, callerVars, starts, signals, histVars>>

-----------------------------------------------------------------------------

CallerStep(c) ==
  \/ ExecReturns(c)
  \/ ExecRaises(c)
  \/ get_workflow_execution_history(c)
  \/ WaitsOn(c)
  \/ WaitEnds(c)
  \/ WaitRaises(c)
  \/ ExecEnds(c)

Next ==
  \/ \E s \in sent :
       ServeStart(s) \/ ServeHistory(s) \/ ServeSignal(s) \/ ServeQuery(s) \/ Refuse(s)
  \/ \E r \in DOMAIN runs : workflow_main(r) \/ TypeNotFound(r) \/ EndsOtherwise(r)
  \/ \E c \in Conn :
       \/ CallerStep(c)
       \/ exec_workflow(c)
       \/ wait_for_close(c)
       \/ new_workflow_stub_from_workflow_id(c)
       \/ exec_signal(c)
       \/ exec_query(c)
       \/ PeerGoes(c)

Spec == Init /\ [][Next]_vars

\* A caller goes on: its reads end, by an answer or by a timeout.  The service ends each
\* run in time.
Fairness ==
  /\ \A c \in Conn : WF_vars(CallerStep(c))
  /\ \A r \in 1..MaxStarts : WF_vars(r \in DOMAIN runs /\ EndsOtherwise(r))

FairSpec == Spec /\ Fairness

-----------------------------------------------------------------------------
(* Properties *)

\* Among the types: runs, starts and contexts belong together.
TypeOK ==
  /\ ConnTypeOK
  /\ wm \in WorkflowMethod
  /\ \A r \in DOMAIN runs :
       /\ runs[r].workflow_id = IF wm.named THEN TheId ELSE runs[r].start
       /\ runs[r].start \in 1..starts
       /\ runs[r].code \in wm.ends \cup {NotEnded}
  /\ \A c \in Conn :
       /\ pc[c] \in {"idle", "starting", "wait", "waiting", "signalling", "querying"}
       /\ pc[c] \in {"idle", "wait"} <=> Idle(c)
       /\ {stub_execution[c], context[c], waits[c]} \subseteq Execution \cup {NoExecution}
       /\ context[c].run_id \in {NoRun} \cup DOMAIN runs
  /\ starts \in 0..MaxStarts
  /\ signals \in 0..MaxSignals

\* No run goes astray but by an exception.  A caller whose start returns knows the very run
\* that this start has made, and a caller who is told of an error has started nothing; only
\* an exception leaves open whether there is a run now, which the stub then does not know
\* (workflow.py:206-214).
StartsAreKnown ==
  \A r \in DOMAIN runs : heard[runs[r].start] \in {Unheard, Raised, r}

\* What wait_for_close tells is how the run ended that was asked for, although other runs
\* have the same workflow id and the answer comes after any number of empty ones
\* (workflow.py:165-200).
OwnOutcome ==
  \A c \in Conn :
    LET out == outcome[c]
    IN  out # NoOutcome =>
          /\ out.run = out.of.run_id \/ out.of.run_id = NoRun
          /\ runs[out.run].workflow_id = out.of.workflow_id
          /\ runs[out.run].event.kind = out.kind

\* The caller is told of the class of the exception that the workflow's code has raised, and,
\* when the code has let an activity's failure pass, of the class that the activity has
\* raised, whether or not these classes can be made again on the way
\* (exception_handling.py:39-73, workflow.py:178-185).
CauseIsShown ==
  \A c \in Conn :
    LET out == outcome[c]
        code == runs[out.run].code
    IN  out.kind = "failed" =>
          /\ Tells(out.exception) = code.exception.class
          /\ Tells(IF out.cause = NoException THEN out.exception ELSE out.cause) = code.origin.class

\* What has run for a run, or was looked for in vain.
HandledBy(r) ==
  runs[r].handled \cup
    (IF runs[r].code # NotEnded THEN {registry.workflow_methods[TypeName]} ELSE {})

\* A run is worked on by the methods of the implementation that the stub means, as long as
\* the stub's class has the interface's name and its methods are spelled in one of
\* the two ways; otherwise by none (worker.py:83-115).
RunsTheMethods ==
  \A r \in DOMAIN runs :
    \A method \in HandledBy(r) :
      \/ method = NotFound /\ ~(IsSpelled(TypeName.name) /\ IsSpelled(SignalName.name))
      \/ /\ method.cls = Implementation[1].cls
         /\ \E key \in {TypeName, SignalName} : SameMethod(key.name, method.name)

\* A caller who waits gets an outcome or an exception in the end.
WaitReturns == \A c \in Conn : pc[c] \in {"wait", "waiting"} ~> pc[c] = "idle"
=============================================================================
