--------------------------- MODULE ReplayDeciderMC --------------------------
(***************************************************************************)
(* Sets of workflow programs, one for each question the runs ask.  Each    *)
(* run explores all the programs of its set.                               *)
(***************************************************************************)
EXTENDS ReplayDecider

Do(op, arg) == [op |-> op, arg |-> arg]
Activity == Do("activity", "")
Sleep == Do("sleep", "")
Await == Do("await", "flag")
AwaitTimeout == Do("await_timeout", "flag")
AwaitFailing == Do("await_failing", "flag")
SetTheFlag == Do("set", "flag")
GetVersion == Do("get_version", "change")

Programs(mains, handlers) == [main : mains, handler : handlers]
NoSignals == {<<>>}
On(code) == [signal |-> code]

\* Only the workflow method, with activities and timers one after the other.
SequentialPrograms ==
  Programs({<<a, b>> : a, b \in {Activity, Sleep}}, NoSignals)

\* A signal method that runs beside the workflow method; in the last program the
\* signal is unknown.
ConcurrentPrograms ==
  Programs({<<Activity, Sleep>>, <<Sleep, Activity>>}, {On(<<Activity>>), On(<<Sleep>>)})
    \cup Programs({<<Activity>>}, {[other |-> <<Activity>>]})

\* A workflow method that waits for a signal method to set a flag.
AwaitPrograms ==
  Programs({<<Await, Activity>>, <<Activity, Await, Activity>>, <<AwaitTimeout, Activity>>,
            <<AwaitTimeout, Sleep, Activity>>}, {On(<<SetTheFlag>>)})

\* All the calls of get_version for one change fall in one batch.
VersionPrograms ==
  Programs({<<GetVersion, Activity, Activity>>, <<Activity, GetVersion, Activity>>,
            <<Activity, GetVersion, GetVersion, Sleep>>}, {On(<<Activity>>)})
    \cup Programs({<<Activity, Activity>>}, {On(<<GetVersion, Activity>>), On(<<GetVersion>>)})

\* All those in which signals run code.
SignalPrograms == ConcurrentPrograms \cup AwaitPrograms \cup VersionPrograms

\* Programs that need no signal to end.
EndingPrograms ==
  SequentialPrograms
    \cup Programs({<<Activity, AwaitTimeout>>, <<AwaitTimeout, Activity>>}, NoSignals)

-----------------------------------------------------------------------------
(* Programs that the code does not keep its promises for *)

\* The flag may be set before the code waits for it.
EarlyFlagPrograms == Programs({<<Activity, AwaitTimeout, Activity>>}, {On(<<SetTheFlag>>)})

\* The signal method goes on after it has set the flag.
BusySignalPrograms == Programs({<<AwaitTimeout, Activity>>}, {On(<<SetTheFlag, Activity>>)})

\* The version of one change is asked for again later on.
RepeatedVersionPrograms ==
  Programs({<<GetVersion, Activity, GetVersion, Activity, Activity>>}, NoSignals)

\* The condition that a signal method awaits raises.
FailingConditionPrograms ==
  Programs({<<Activity, SetTheFlag, Activity, Activity>>}, {On(<<AwaitFailing>>)})

\* Timers that are taken back before they are sent use up ids, until two timers of the
\* same batch are sent in the order opposite to that of their ids.
SwappedTimersPrograms ==
  Programs({<<SetTheFlag>> \o [i \in 1..5 |-> AwaitTimeout]
              \o <<GetVersion, AwaitTimeout, Do("await", "go"), Sleep>>},
           {On(<<Do("set", "go"), Sleep>>)})

\* The workflow only waits for its signal.
WaitingPrograms == Programs({<<Await>>}, {On(<<SetTheFlag>>)})

\* All of them together, and those that await.
DurablePrograms ==
  AwaitPrograms \cup EarlyFlagPrograms \cup BusySignalPrograms \cup RepeatedVersionPrograms
    \cup FailingConditionPrograms
=============================================================================
