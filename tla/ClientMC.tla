------------------------------ MODULE ClientMC ------------------------------
EXTENDS Client

Workflow(given) == [kind |-> "workflow", given |-> given]
Signal == [kind |-> "signal", given |-> <<>>]
Undecorated == [kind |-> "none", given |-> <<>>]

\* An interface with a workflow method and a signal, in a given spelling.
Interface(cls, run, hello, given) ==
  [cls |-> cls, methods |-> run :> Workflow(given) @@ hello :> Signal]

RunSnake == Snake(<<"say", "hello">>)
RunCamel == Camel(<<"say", "hello">>)
HelloSnake == Snake(<<"set", "name">>)
HelloCamel == Camel(<<"set", "name">>)

\* The implementation overrides the methods of its interface, in snake case.
MCImplementation ==
  <<[cls |-> "GreetingImpl", methods |-> RunSnake :> Undecorated @@ HelloSnake :> Undecorated],
    Interface("Greeting", RunSnake, HelloSnake, <<>>)>>

Declared(named, policy, stub, ends) ==
  [named |-> named, policy |-> policy, stub |-> stub, ends |-> ends]

\* An exception that the code raises itself, and one that an activity has raised.
Own(class, arg) == [exception |-> Exception(class, <<arg>>), origin |-> Exception(class, <<arg>>)]
OfActivity(exception) ==
  [exception |-> ActivityFailureException(serialize_exception(exception)), origin |-> exception]
TimedOut == [exception |-> ActivityTimeout, origin |-> ActivityTaskTimeoutException]
Normal == [exception |-> NoException, origin |-> NoException]

\* The stub is made from the implementation's interface, from one for another language, or
\* from a class that inherits it; the last has a mixed spelling.
MCWorkflowMethod ==
  {Declared(TRUE, "AllowDuplicateFailedOnly", <<MCImplementation[2]>>,
            {Normal, Own("AppError", Plain)}),
   Declared(TRUE, "AllowDuplicate", <<Interface("Greeting", RunCamel, HelloCamel, <<>>)>>,
            {OfActivity(Exception("TypeError", <<Plain>>))}),
   Declared(FALSE, "AllowDuplicateFailedOnly",
            <<[cls |-> "LocalGreeting", methods |-> <<>>], MCImplementation[2]>>,
            {TimedOut, Own("AppError", Object)}),
   Declared(TRUE, "RejectDuplicate",
            <<Interface("Greeting", << << <<"say">> >>, << <<"it">>, <<"hello">> >> >>,
                        HelloCamel, <<>>)>>, {Normal})}
=============================================================================
