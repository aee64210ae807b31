------------------------------ MODULE Failures ------------------------------
(***************************************************************************)
(* Exceptions on their way from the code that raises them to the caller of *)
(* the workflow.  They are serialized by the activity worker, made anew by *)
(* the decider, wrapped into an ActivityFailureException, serialized again *)
(* as the failure of the workflow, and made anew by the client.            *)
(***************************************************************************)
EXTENDS Sequences, Functions

CONSTANTS
  Importable, \* exception classes that are found in the module and under the name that
              \* exception_class_fqn gives: builtin and nested ones are not
  TakesArgs   \* those of them whose constructor takes the args that the exception keeps

(***************************************************************************)
(* Details are what serialize_exception writes; an argument is itself      *)
(* something that JSON can write, or an object, or details.  All have the  *)
(* same fields, to be told apart.                                          *)
(***************************************************************************)
THIS_SOURCE == "cadence-python"
Plain == [source |-> "value", class |-> "", args |-> <<>>]
Object == [source |-> "object", class |-> "", args |-> <<>>]
Details(class, args) == [source |-> THIS_SOURCE, class |-> class, args |-> args]

Exception(class, args) == [class |-> class, args |-> args]

\* json.dumps raises where something in it is an object.
Encodable(exception) == Object \notin Range(exception.args)

serialize_exception(exception) == Details(exception.class, exception.args)

\* The library's own exceptions pass their args back to their constructors, except for
\* ActivityTaskTimeoutException, which keeps none.
Constructs(class, args) ==
  \/ class = "ExternalException" /\ Len(args) = 1
  \/ class = "ActivityFailureException" /\ Len(args) = 4
  \/ class \in Importable \cap TakesArgs

deserialize_exception(details) ==
  IF details.source = THIS_SOURCE /\ Constructs(details.class, details.args)
  THEN Exception(details.class, details.args)
  ELSE Exception("ExternalException", <<details>>)

-----------------------------------------------------------------------------
(* The decider *)

\* What an activity whose failure is known by these details raises in the workflow.
\* schedule_activity_task serializes the exception once more.
ActivityFailureException(details) ==
  Exception("ActivityFailureException",
            <<Plain, Plain, Plain, serialize_exception(deserialize_exception(details))>>)

ActivityTaskTimeoutException == Exception("ActivityTaskTimeoutException", <<>>)

\* An activity that has timed out.
ActivityTimeout ==
  Exception("ActivityFailureException",
            <<Plain, Plain, Plain, serialize_exception(ActivityTaskTimeoutException)>>)

-----------------------------------------------------------------------------
(* The client *)

NoException == Exception("none", <<>>)

\* set_cause.
set_cause(exception) == deserialize_exception(exception.args[4])

CauseOf(exception) ==
  IF exception.class = "ActivityFailureException" THEN set_cause(exception) ELSE NoException

\* The class that an exception tells of: an ExternalException holds details that name it.
Tells(exception) ==
  IF exception.class = "ExternalException" THEN exception.args[1].class ELSE exception.class
=============================================================================
