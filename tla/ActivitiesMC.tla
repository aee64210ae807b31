---------------------------- MODULE ActivitiesMC ----------------------------
EXTENDS Activities

\* The implementation has getGreeting and get_the_greeting.
MCMethods == {Camel(<<"get", "greeting">>), Snake(<<"get", "the", "greeting">>)}

\* The stub may call get_greeting, with arguments or with input that is no JSON;
\* get_theGreeting, which is spelled neither way; or a name without a class.
MCScheduled ==
  LET Type(name) == Key("Greetings", name)
  IN  {[type |-> Type(Snake(<<"get", "greeting">>)), json |-> TRUE],
       [type |-> Type(Snake(<<"get", "greeting">>)), json |-> FALSE],
       [type |-> Type(<< << <<"get">> >>, << <<"the">>, <<"greeting">> >> >>), json |-> TRUE],
       [type |-> Key(NoClass, Camel(<<"get", "greeting">>)), json |-> TRUE]}

=============================================================================
