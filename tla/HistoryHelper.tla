---------------------------- MODULE HistoryHelper ---------------------------
(***************************************************************************)
(* HistoryHelper.next, which splits the history of a decision task into    *)
(* the batches that the decider replays, iteration by iteration.  Workers  *)
(* poll for a decision task, split its history to the end and answer with  *)
(* some decisions; meanwhile and afterwards the execution goes on.         *)
(***************************************************************************)
EXTENDS WorkflowService

CONSTANTS
  Answers,  \* the sequences of decisions a worker may answer with
  MaxEvents \* bound: no decision task is polled with a longer history

ASSUME HelperAssumption ==
  /\ Answers \subseteq Seq(Decision)
  /\ MaxEvents \in Nat

VARIABLES
  polled,  \* the number of events of the decision task's history, 0 without a task
  pos,     \* the id of the event that peek would return
  pc,      \* where the helper is
  batch,   \* the local variables of next, in the end what it returns
  answered \* the batches that were decided, each with the events that answered it

vars == <<history, buffered, decisionTask, polled, pos, pc, batch, answered>>

NoBatch == [events |-> <<>>, decision_events |-> <<>>, from |-> 0, replay |-> TRUE,
            next_decision_event_id |-> -1]

Init ==
  /\ ServiceInit
  /\ polled = 0
  /\ pos = 1
  /\ pc = "idle"
  /\ batch = NoBatch
  /\ answered = <<>>

has_next == pos <= polled

\* A worker polls: the events of the history are now those of the task.
Poll ==
  /\ pc = "idle"
  /\ Len(history) < MaxEvents
  /\ StartDecisionTask
  /\ polled' = Len(history')
  /\ pos' = 1
  /\ pc' = "returned"
  /\ batch' = NoBatch
  /\ UNCHANGED answered

\* next is called again as long as has_next.
Enter ==
  /\ pc = "returned"
  /\ has_next
  /\ batch' = [NoBatch EXCEPT !.from = pos]
  /\ pc' = "scan"
  /\ UNCHANGED <<serviceVars, polled, pos, answered>>

\* One iteration over an event that belongs to the batch.
TakeEvent ==
  /\ pc = "scan"
  /\ history[pos].type # "DecisionTaskStarted"
  /\ pos # polled
  /\ batch' = [batch EXCEPT !.events = Append(@, pos)]
  /\ pos' = pos + 1
  /\ UNCHANGED <<serviceVars, polled, pc, answered>>

\* Mutants: the DecisionTaskCompleted to come is not counted; the id is not set.
NextDecisionEventId_off_by_one(last) == last + 1
NextDecisionEventId_unset(last) == -1

\* The first decision of the batch that ends with the history: a
\* DecisionTaskCompleted will come first.
NextDecisionEventId(last) == last + 2

\* The last event of the history ends the batch that has to be decided.
TakeLast ==
  /\ pc = "scan"
  /\ pos = polled
  /\ batch' = [batch EXCEPT !.replay = FALSE,
                           !.next_decision_event_id = NextDecisionEventId(pos)]
  /\ pos' = pos + 1
  /\ pc' = "decisions"
  /\ UNCHANGED <<serviceVars, polled, answered>>

\* Mutant: a decision task that failed is not expected.
GivenUpTypes_timeouts == {"DecisionTaskTimedOut"}

\* What may follow the DecisionTaskStarted of a task that was given up.
GivenUpTypes == {"DecisionTaskTimedOut", "DecisionTaskFailed"}

\* Mutant: the event that gave the task up is taken too.
AfterGivenUp_both(started) == started + 2

\* continue, which drops the DecisionTaskStarted alone.
AfterGivenUp(started) == started + 1

\* A DecisionTaskStarted, by the event that peek shows after it.
TakeDecisionTaskStarted ==
  /\ pc = "scan"
  /\ history[pos].type = "DecisionTaskStarted"
  /\ pos # polled
  /\ LET peeked == history[pos + 1].type IN
     CASE peeked \in GivenUpTypes -> pos' = AfterGivenUp(pos) /\ UNCHANGED <<batch, pc>>
       [] peeked = "DecisionTaskCompleted" ->
            /\ batch' = [batch EXCEPT !.next_decision_event_id = pos + 1 + 1]
            /\ pos' = pos + 2
            /\ pc' = "decisions"
       [] OTHER -> pc' = "raised" /\ UNCHANGED <<batch, pos>>
  /\ UNCHANGED <<serviceVars, polled, answered>>

\* The loop that takes the decision events.
TakeDecisionEvent ==
  /\ pc = "decisions"
  /\ has_next
  /\ is_decision_event(history[pos])
  /\ batch' = [batch EXCEPT !.decision_events = Append(@, pos)]
  /\ pos' = pos + 1
  /\ UNCHANGED <<serviceVars, polled, pc, answered>>

\* Mutant: the decision events are left to the next batch.
Return_early ==
  /\ pc = "decisions"
  /\ pc' = "returned"
  /\ UNCHANGED <<serviceVars, polled, pos, batch, answered>>

Return ==
  /\ pc = "decisions"
  /\ has_next => ~is_decision_event(history[pos])
  /\ pc' = "returned"
  /\ UNCHANGED <<serviceVars, polled, pos, batch, answered>>

\* The history is used up, so the batch returned last is the one to decide.
Respond ==
  /\ pc = "returned"
  /\ ~has_next
  /\ \E decisions \in Answers :
       /\ RespondDecisionTaskCompleted(polled, decisions)
       /\ answered' =
            IF polled = StartedTask /\ history'[polled + 1].type = "DecisionTaskCompleted"
            THEN Append(answered, [batch EXCEPT
                   !.replay = TRUE,
                   !.decision_events = [i \in DOMAIN UpToClose(decisions) |-> polled + 1 + i]])
            ELSE answered
  /\ polled' = 0
  /\ pc' = "idle"
  /\ UNCHANGED <<pos, batch>>

\* The worker's process dies, or it gives the task up.
Crash ==
  /\ pc # "idle"
  /\ polled' = 0
  /\ pc' = "idle"
  /\ UNCHANGED <<serviceVars, pos, batch, answered>>

ServiceActs == ServiceStep /\ UNCHANGED <<polled, pos, pc, batch, answered>>

Next ==
  \/ Poll
  \/ Enter
  \/ TakeEvent
  \/ TakeLast
  \/ TakeDecisionTaskStarted
  \/ TakeDecisionEvent
  \/ Return
  \/ Respond
  \/ Crash
  \/ ServiceActs

Spec == Init /\ [][Next]_vars

-----------------------------------------------------------------------------
(* Properties *)

TypeOK ==
  /\ polled \in 0..Len(history)
  /\ pos \in 1..(Len(history) + 1)
  /\ pc \in {"idle", "scan", "decisions", "returned", "raised"}
  /\ batch \in [events : Seq(Nat), decision_events : Seq(Nat), from : Nat,
                 replay : BOOLEAN,
                 next_decision_event_id : IF pc = "decisions" THEN Nat ELSE Nat \cup {-1}]

\* The histories of the service, with decision tasks that time out and fail at any
\* point, are all split: "Unexpected event after DecisionTaskStarted"
\* (decision_loop.py:107), which ends the decision thread, is never raised.
NeverRaises == pc # "raised"

\* A sequence of ids that has those of S, in ascending order.
Lists(ids, S) ==
  /\ ToSet(ids) = S
  /\ \A m, n \in DOMAIN ids : m < n => ids[m] < ids[n]

HasBatch == pc = "returned" /\ batch.from # 0

\* next, with its peeks and its continue, returns the batch that History defines.
ReturnsBatch ==
  HasBatch =>
    LET h == SubSeq(history, 1, polled)
        b == Batch(h, batch.from)
    IN  /\ pos = b.end
        /\ batch.replay = b.replay
        /\ batch.next_decision_event_id = b.next_decision_event_id
        /\ Lists(batch.events, BatchEvents(h, b))
        /\ Lists(batch.decision_events, BatchDecisionEvents(b))

\* Replay sees the past as it was: a batch that is replayed is one that a worker
\* decided, with the same events, the same ids for its decisions, and exactly the
\* events that answered them; the batch to decide starts where the last one ended.
\* The ids were a guess when the batch was decided (decision_loop.py:96).
ReplaysTheAnswered ==
  HasBatch =>
    IF batch.replay
    THEN \E k \in DOMAIN answered : answered[k] = batch
    ELSE batch.from = IF answered = <<>> THEN 1
                      ELSE LET b == Last(answered)
                           IN  b.next_decision_event_id + Len(b.decision_events)

\* When the history is used up, every event but those of the decision tasks' own
\* start and completion has been handed out, and none of them twice.
NothingLost ==
  HasBatch /\ ~has_next =>
    LET batches == Append(answered, batch)
        given == [k \in DOMAIN batches |-> batches[k].events \o batches[k].decision_events]
    IN  /\ UNION {ToSet(given[k]) : k \in DOMAIN given} =
             {i \in 1..polled : history[i].type \notin
                                  {"DecisionTaskStarted", "DecisionTaskCompleted"}}
        /\ \A k \in DOMAIN given : IsInjective(given[k])
        /\ \A j, k \in DOMAIN given : j # k => ToSet(given[j]) \cap ToSet(given[k]) = {}
=============================================================================
