-------------------------- MODULE ActivitiesProofs --------------------------
(***************************************************************************)
(* Proofs about Activities, for any number of activities, attempts, worker *)
(* threads and completion clients.                                         *)
(***************************************************************************)
EXTENDS Activities, ConnectionProofs

-----------------------------------------------------------------------------
(* What is asked and answered *)

\* What the threads ask are requests.
LEMMA Requests ==
  /\ Poll \in Request
  /\ \A k \in Token, call \in {"complete", "fail", "heartbeat"} :
       [call |-> call, token |-> k] \in Request
  /\ \A request \in Request : request.call # "poll" => request.token \in Token
  /\ \A request \in Request : request.call = "poll" <=> request = Poll
  BY TokenAssumption DEF ActivityRequest, Poll

\* What the service says are answers.
LEMMA Answers ==
  /\ \A kind \in {"ok", "cancel requested", "no task", "error frame"} \cup ServiceError :
       Says(kind) \in Answer
  /\ \A k \in Token : [kind |-> "task", token |-> k] \in Answer
  /\ \A answer \in Answer : answer.kind = "task" => answer.token \in Token
<1>1. "task" \notin ServiceError
  BY ActivitiesAssumption DEF CADENCE_ERROR_FIELDS
<1> QED
  BY <1>1, TokenAssumption DEF ActivityAnswer, Says

\* The tasks of a stream are those that its elements say.
LEMMA TasksAre ==
  ASSUME NEW S, NEW c \in Conn, stream \in [Conn -> Seq(S)]
  PROVE  \A k : k \in TasksIn(c) <=>
           \E i \in DOMAIN stream[c] :
             stream[c][i].answer.kind = "task" /\ stream[c][i].answer.token = k
  BY DEF TasksIn, Range

\* Tasks that are under way are tokens.
LEMMA TasksAreTokens == ASSUME ConnTypeOK, NEW c \in Conn PROVE TasksIn(c) \subseteq Token
<1>1. stream \in [Conn -> Seq(Arrived)]
  BY DEF ConnTypeOK
<1>2. stream[c] \in Seq(Arrived)
  BY <1>1
<1>3. \A i \in DOMAIN stream[c] : stream[c][i] \in Arrived
  BY <1>2
<1>4. \A i \in DOMAIN stream[c] : stream[c][i].answer \in Answer
  BY <1>3 DEF Arrived
<1> QED
  BY <1>1, <1>4, TasksAre, Answers

-----------------------------------------------------------------------------
(* Connections *)

\* Whatever a thread or the service does, its connections see it as one of their steps.
LEMMA ConnStep == TypeOK /\ [Next]_vars => [ConnNext]_connVars
<1> SUFFICES ASSUME TypeOK, [Next]_vars PROVE [ConnNext]_connVars
  OBVIOUS
<1>1. ASSUME NEW s \in sent, NEW answer \in Answer, Serve(s, answer) PROVE ConnNext
  BY <1>1 DEF ConnNext
<1>2. ASSUME NEW s \in sent, HandOut(s) \/ Report(s) \/ RecordHeartbeat(s) \/ Refuse(s)
      PROVE  ConnNext
  <2>1. CASE HandOut(s)
    <3>1. \A a \in Activity : <<a, attempt[a]>> \in Token
      BY DEF TypeOK, Token
    <3> QED
      BY <1>1, <2>1, <3>1, Answers DEF HandOut
  <2>2. CASE Report(s)
    BY <1>1, <2>2, Answers DEF Report, Acted
  <2>3. CASE RecordHeartbeat(s)
    BY <1>1, <2>3, Answers DEF RecordHeartbeat, Acted
  <2>4. CASE Refuse(s)
    BY <1>1, <2>4, Answers DEF Refuse
  <2> QED
    BY <1>2, <2>1, <2>2, <2>3, <2>4
<1>3. ASSUME NEW a \in Activity, RequestCancel(a) \/ TimeOutAttempt(a)
      PROVE  UNCHANGED connVars
  BY <1>3 DEF RequestCancel, TimeOutAttempt
<1>4. ASSUME NEW t \in Thread, NEW call \in {"complete", "fail", "heartbeat"}, NEW place,
             task[t] # NoTask, Calls(t, call, place)
      PROVE  ConnNext
  <2>1. [call |-> call, token |-> task[t]] \in Request
    BY <1>4, Requests DEF TypeOK
  <2> QED
    BY <1>4, <2>1, ActivitiesAssumption DEF Calls, ConnNext
<1>5. ASSUME NEW t \in Thread, ThreadStep(t) \/ heartbeat(t) \/ poll_for_activity_task(t)
      PROVE  [ConnNext]_connVars
  <2>1. CASE poll_for_activity_task(t)
    BY <2>1, Requests, ActivitiesAssumption DEF poll_for_activity_task, ConnNext
  <2>2. CASE heartbeat(t)
    BY <1>4, <2>2 DEF heartbeat, TypeOK, Away
  <2>3. CASE PollsNothing(t) \/ PollsTask(t)
    BY <2>3, ActivitiesAssumption DEF PollsNothing, PollsTask, ConnNext
  <2>4. CASE json_to_args_raises(t) \/ NotFound(t) \/ Dispatch(t)
    BY <2>4 DEF json_to_args_raises, NotFound, Dispatch
  <2>5. CASE HeartbeatRaises(t) \/ HeartbeatReturns(t)
    BY <2>5, ActivitiesAssumption
    DEF HeartbeatRaises, HeartbeatReturns, NotWritten, CallRaises, ConnNext
  <2>6. CASE complete(t) \/ complete_exceptionally(t)
    BY <1>4, <2>6 DEF complete, complete_exceptionally, TypeOK, Away
  <2>7. CASE CompleteRaises(t) \/ FailRaises(t)
    BY <2>7, ActivitiesAssumption DEF CompleteRaises, FailRaises, CallRaises, ConnNext
  <2>8. CASE ReportReturns(t) \/ ThreadEnds(t)
    BY <2>8, ActivitiesAssumption DEF ReportReturns, ThreadEnds, ConnNext
  <2> QED
    BY <1>5, <2>1, <2>2, <2>3, <2>4, <2>5, <2>6, <2>7, <2>8 DEF ThreadStep
<1>6. ASSUME NEW t \in Thread, do_not_complete_on_return(t) \/ CodeEnds(t) \/ Crash(t)
      PROVE  [ConnNext]_connVars
  <2>1. CASE do_not_complete_on_return(t) \/ CodeEnds(t)
    BY <2>1 DEF do_not_complete_on_return, CodeEnds, CodeReturns, CodeRaises
  <2>2. CASE Crash(t)
    BY <2>2, ActivitiesAssumption DEF Crash, ConnNext
  <2> QED
    BY <1>6, <2>1, <2>2
<1>7. ASSUME NEW c \in Client, ClientCalls(c) \/ ClientLeaves(c) PROVE UNCHANGED connVars
  BY <1>7 DEF ClientCalls, ClientLeaves
<1>8. ASSUME NEW c \in Conn, FirstByte(c) \/ PeerGoes(c) PROVE ConnNext
  BY <1>8 DEF PeerGoes, ConnNext
<1>9. CASE UNCHANGED vars
  BY <1>9 DEF vars
<1> QED
  BY <1>2, <1>3, <1>5, <1>6, <1>7, <1>8, <1>9 DEF Next, ServiceStep

-----------------------------------------------------------------------------
(* Types *)

\* At first every variable has its type.
LEMMA InitType == Init => TypeOK /\ ConnInv
<1> SUFFICES ASSUME Init PROVE TypeOK /\ ConnInv
  OBVIOUS
<1>1. ConnInv /\ ConnTypeOK
  BY InitInv DEF Init, ConnInv
<1> QED
  BY <1>1, ActivitiesAssumption DEF Init, TypeOK, ActivityState, Place, Away, Ending

\* A thread that goes from place to place keeps the types when it keeps to what the
\* places mean: it has a task exactly while it works on it.
LEMMA ThreadType ==
  ASSUME TypeOK, ConnTypeOK', NEW t \in Thread,
         NEW place \in Place,
         NEW k \in Token \cup {NoTask}, NEW b \in BOOLEAN,
         k = NoTask <=> place \in Away,
         pc' = [pc EXCEPT ![t] = place],
         task' = [task EXCEPT ![t] = k],
         do_not_complete' = [do_not_complete EXCEPT ![t] = b],
         UNCHANGED <<serviceVars, holds, said>>,
         faults' \in 0..MaxFaults, lost' \subseteq Token,
         ran' \in [Token -> Ending]
  PROVE  TypeOK'
<1>1. /\ pc' \in [Thread -> Place]
      /\ task' \in [Thread -> Token \cup {NoTask}]
      /\ do_not_complete' \in [Thread -> BOOLEAN]
  BY DEF TypeOK
<1>2. \A u \in Thread : task'[u] = NoTask <=> pc'[u] \in Away
  BY DEF TypeOK
<1> QED
  BY <1>1, <1>2 DEF TypeOK, serviceVars

\* Among them, going somewhere and leaving the activity.
LEMMA GoesType ==
  ASSUME TypeOK, ConnTypeOK', NEW t \in Thread,
         NEW place \in Place,
         \/ /\ task[t] = NoTask <=> place \in Away
            /\ Goto(t, place)
            /\ Stays
         \/ /\ place \in Away
            /\ Leaves(t, place),
         UNCHANGED <<serviceVars, holds, said>>,
         faults' \in 0..MaxFaults, lost' \subseteq Token,
         ran' \in [Token -> Ending]
  PROVE  TypeOK'
<1>1. CASE Goto(t, place) /\ Stays /\ (task[t] = NoTask <=> place \in Away)
  <2>1. /\ task' = [task EXCEPT ![t] = task[t]]
        /\ do_not_complete' = [do_not_complete EXCEPT ![t] = do_not_complete[t]]
        /\ task[t] \in Token \cup {NoTask}
        /\ do_not_complete[t] \in BOOLEAN
    BY <1>1 DEF Stays, TypeOK
  <2> QED
    BY <1>1, <2>1, ThreadType DEF Goto
<1>2. CASE place \in Away /\ Leaves(t, place)
  <2>1. FALSE \in BOOLEAN /\ NoTask \in Token \cup {NoTask}
    OBVIOUS
  <2> QED
    BY <1>2, <2>1, ThreadType DEF Leaves, Goto
<1> QED
  BY <1>1, <1>2

\* Counters within their bounds.
LEMMA Counts ==
  /\ \A n \in 1..MaxAttempts : n < MaxAttempts => n + 1 \in 1..MaxAttempts
  /\ \A n \in 0..MaxFaults : n < MaxFaults => n + 1 \in 0..MaxFaults
  /\ \A n \in Nat : n + 1 > n
  BY ActivitiesAssumption

\* What the service does to an attempt.
LEMMA EndsAttemptType ==
  ASSUME TypeOK, NEW a \in Activity, NEW closed \in {"completed", "failed", "timed out"},
         EndsAttempt(a, closed)
  PROVE  /\ state' \in [Activity -> ActivityState]
         /\ attempt' \in [Activity -> 1..MaxAttempts]
<1>1. attempt[a] \in 1..MaxAttempts
  BY DEF TypeOK
<1>2. attempt[a] < MaxAttempts => attempt[a] + 1 \in 1..MaxAttempts
  BY <1>1, Counts
<1>3. \E n \in 1..MaxAttempts : attempt' = [attempt EXCEPT ![a] = n] \/ attempt' = attempt
  BY <1>1, <1>2 DEF EndsAttempt
<1>4. attempt' \in [Activity -> 1..MaxAttempts]
  BY <1>3 DEF TypeOK
<1>5. state' = [state EXCEPT ![a] = "scheduled"] \/ state' = [state EXCEPT ![a] = closed]
  BY DEF EndsAttempt
<1>6. /\ [state EXCEPT ![a] = "scheduled"] \in [Activity -> ActivityState]
      /\ [state EXCEPT ![a] = closed] \in [Activity -> ActivityState]
  BY DEF TypeOK, ActivityState
<1> QED
  BY <1>4, <1>5, <1>6

\* An attempt that is closed leaves its activity in one of its states.
LEMMA ClosesType ==
  ASSUME TypeOK, NEW k \in Token, NEW call, Closes(call, k)
  PROVE  /\ state' \in [Activity -> ActivityState]
         /\ attempt' \in [Activity -> 1..MaxAttempts]
<1>1. k[1] \in Activity
  BY DEF Token
<1> QED
  BY <1>1, EndsAttemptType DEF Closes, TypeOK, ActivityState

\* The service and the completion clients keep the types.
LEMMA ServiceType ==
  ASSUME TypeOK, ConnTypeOK',
         \/ ServiceStep
         \/ \E a \in Activity : RequestCancel(a) \/ TimeOutAttempt(a)
         \/ \E c \in Client : ClientCalls(c) \/ ClientLeaves(c)
         \/ \E c \in Conn : \/ FirstByte(c) /\ UNCHANGED <<serviceVars, threadVars, holds, faults, histVars>>
                            \/ PeerGoes(c)
  PROVE  TypeOK'
<1> USE DEF threadVars, serviceVars, histVars
<1>1. ASSUME NEW s \in sent, HandOut(s) PROVE TypeOK'
  <2>1. \A a \in Activity : <<a, attempt[a]>> \in Token
    BY DEF TypeOK, Token
  <2> QED
    BY <1>1, <2>1 DEF HandOut, TypeOK, ActivityState
<1>2. ASSUME NEW s \in sent, Report(s) PROVE TypeOK'
  <2>1. s.request.token \in Token
    BY <1>2, Requests DEF Report, TypeOK, ConnTypeOK, SentRequest
  <2> QED
    BY <1>2, <2>1, ClosesType DEF Report, TypeOK
<1>3. ASSUME NEW s \in sent, RecordHeartbeat(s) \/ Refuse(s) PROVE TypeOK'
  BY <1>3 DEF RecordHeartbeat, Refuse, TypeOK
<1>4. ASSUME NEW a \in Activity, RequestCancel(a) PROVE TypeOK'
  BY <1>4 DEF RequestCancel, TypeOK
<1>5. ASSUME NEW a \in Activity, TimeOutAttempt(a) PROVE TypeOK'
  BY <1>5, EndsAttemptType DEF TimeOutAttempt, TypeOK
<1>6. ASSUME NEW c \in Client, ClientCalls(c) PROVE TypeOK'
  <2>1. holds[c] \in Token
    BY <1>6 DEF ClientCalls, TypeOK
  <2>2. /\ state' \in [Activity -> ActivityState]
        /\ attempt' \in [Activity -> 1..MaxAttempts]
    BY <1>6, <2>1, ClosesType DEF ClientCalls
  <2>3. said' \in [Token -> {"no", "complete", "fail"}]
    BY <1>6, <2>1 DEF ClientCalls, TypeOK
  <2> QED
    BY <1>6, <2>2, <2>3 DEF ClientCalls, TypeOK
<1>7. ASSUME NEW c \in Client, ClientLeaves(c) PROVE TypeOK'
  BY <1>7 DEF ClientLeaves, TypeOK
<1>8. ASSUME NEW c \in Conn, FirstByte(c), UNCHANGED <<serviceVars, threadVars, holds, faults, histVars>>
      PROVE  TypeOK'
  BY <1>8 DEF TypeOK
<1>9. ASSUME NEW c \in Conn, PeerGoes(c) PROVE TypeOK'
  <2>1. TasksIn(c) \subseteq Token
    BY TasksAreTokens DEF TypeOK
  <2>2. lost' \subseteq Token
    BY <1>9, <2>1 DEF PeerGoes, TypeOK
  <2>3. faults' \in 0..MaxFaults
    BY <1>9, Counts DEF PeerGoes, TypeOK
  <2> QED
    BY <1>9, <2>2, <2>3 DEF PeerGoes, TypeOK
<1> QED
  BY <1>1, <1>2, <1>3, <1>4, <1>5, <1>6, <1>7, <1>8, <1>9 DEF ServiceStep

\* Threads keep the types.
LEMMA ThreadsType ==
  ASSUME TypeOK, ConnTypeOK', NEW t \in Thread,
         \/ poll_for_activity_task(t)
         \/ ThreadStep(t)
         \/ heartbeat(t)
         \/ do_not_complete_on_return(t)
         \/ CodeEnds(t)
         \/ Crash(t)
  PROVE  TypeOK'
<1> USE DEF histVars, Place, Away
<1> DEFINE Quiet == /\ UNCHANGED <<serviceVars, holds, said, faults>>
                    /\ ran' \in [Token -> Ending] /\ lost' \subseteq Token
<1>1. faults \in 0..MaxFaults /\ lost \subseteq Token /\ ran \in [Token -> Ending]
  BY DEF TypeOK
<1>2. ASSUME NEW place \in Place, Goto(t, place), Stays, Quiet,
             task[t] = NoTask <=> place \in Away
      PROVE  TypeOK'
  BY <1>1, <1>2, GoesType
<1>3. ASSUME NEW place \in Away, Leaves(t, place), Quiet PROVE TypeOK'
  BY <1>1, <1>3, GoesType
<1>4. task[t] = NoTask <=> pc[t] \in Away
  BY DEF TypeOK
<1>5. task[t] # NoTask => task[t] \in Token
  BY DEF TypeOK
<1>6. ASSUME NEW ending \in Ending, ran' = [ran EXCEPT ![task[t]] = ending]
      PROVE  ran' \in [Token -> Ending]
  BY <1>1, <1>6
<1>7. CASE poll_for_activity_task(t)
  BY <1>1, <1>2, <1>4, <1>7 DEF poll_for_activity_task
<1>8. CASE PollsNothing(t)
  <2>1. TasksIn(t) \subseteq Token
    BY TasksAreTokens, ActivitiesAssumption DEF TypeOK
  <2> QED
    BY <1>1, <1>2, <1>4, <1>8, <2>1 DEF PollsNothing
<1>9. CASE PollsTask(t)
  <2>1. NextAnswer(t).answer \in Answer
    <3>1. stream[t] \in Seq(Arrived) /\ stream[t] # <<>>
      BY <1>9, ActivitiesAssumption DEF PollsTask, Return, Readable, TypeOK, ConnTypeOK
    <3>2. Head(stream[t]) \in Arrived
      BY <3>1
    <3> QED
      BY <3>2 DEF NextAnswer, Arrived
  <2>2. NextAnswer(t).answer.token \in Token
    BY <1>9, <2>1, Answers DEF PollsTask
  <2>3. do_not_complete[t] \in BOOLEAN /\ do_not_complete' = [do_not_complete EXCEPT ![t] = do_not_complete[t]]
    BY <1>9 DEF PollsTask, TypeOK
  <2>4. NextAnswer(t).answer.token # NoTask
    BY <2>2, TokenAssumption
  <2> QED
    BY <1>1, <1>9, <2>2, <2>3, <2>4, ThreadType DEF PollsTask, Goto
<1>10. CASE json_to_args_raises(t) \/ NotFound(t)
  BY <1>1, <1>3, <1>10 DEF json_to_args_raises, NotFound
<1>11. CASE Dispatch(t)
  BY <1>1, <1>2, <1>4, <1>6, <1>11 DEF Dispatch, Ending
<1>12. CASE heartbeat(t) \/ HeartbeatRaises(t) \/ HeartbeatReturns(t)
  BY <1>1, <1>2, <1>4, <1>12 DEF heartbeat, Calls, HeartbeatRaises, HeartbeatReturns
<1>13. CASE do_not_complete_on_return(t)
  <2>1. task[t] \in Token
    BY <1>4, <1>5, <1>13 DEF do_not_complete_on_return
  <2>2. holds' \in [Client -> Token \cup {NoTask}]
    BY <1>13, <2>1 DEF do_not_complete_on_return, TypeOK
  <2> QED
    BY <1>13, <2>2 DEF do_not_complete_on_return, TypeOK, serviceVars
<1>14. CASE CodeReturns(t)
  BY <1>1, <1>2, <1>3, <1>4, <1>6, <1>14 DEF CodeReturns, Ending
<1>15. CASE CodeRaises(t)
  BY <1>1, <1>2, <1>4, <1>6, <1>15 DEF CodeRaises, Ending
<1>16. CASE complete(t) \/ complete_exceptionally(t)
  BY <1>1, <1>2, <1>4, <1>16 DEF complete, complete_exceptionally, Calls
<1>17. CASE CompleteRaises(t)
  BY <1>1, <1>2, <1>4, <1>6, <1>17 DEF CompleteRaises, AfterComplete, Ending
<1>18. CASE ReportReturns(t)
  BY <1>1, <1>3, <1>4, <1>5, <1>18 DEF ReportReturns
<1>19. CASE FailRaises(t)
  BY <1>1, <1>3, <1>4, <1>5, <1>19 DEF FailRaises
<1>20. CASE ThreadEnds(t)
  BY <1>1, <1>2, <1>4, <1>20 DEF ThreadEnds
<1>21. CASE Crash(t)
  <2>1. TasksIn(t) \subseteq Token
    BY TasksAreTokens, ActivitiesAssumption DEF TypeOK
  <2>2. lost' \subseteq Token
    BY <1>1, <1>5, <1>21, <2>1 DEF Crash
  <2>3. faults' \in 0..MaxFaults
    BY <1>1, <1>21, Counts DEF Crash
  <2> QED
    BY <1>1, <1>21, <2>2, <2>3, GoesType DEF Crash
<1> QED
  BY <1>7, <1>8, <1>9, <1>10, <1>11, <1>12, <1>13, <1>14, <1>15, <1>16, <1>17, <1>18, <1>19,
     <1>20, <1>21 DEF ThreadStep, CodeEnds

\* Every step keeps the types.
LEMMA NextType == TypeOK /\ ConnInv /\ [Next]_vars => TypeOK' /\ ConnInv'
<1> SUFFICES ASSUME TypeOK, ConnInv, [Next]_vars PROVE TypeOK' /\ ConnInv'
  OBVIOUS
<1>1. ConnInv'
  BY ConnStep, NextInv
<1>2. ConnTypeOK'
  BY <1>1 DEF ConnInv
<1>3. CASE Next
  <2>1. CASE \/ ServiceStep
             \/ \E a \in Activity : RequestCancel(a) \/ TimeOutAttempt(a)
             \/ \E c \in Client : ClientCalls(c) \/ ClientLeaves(c)
             \/ \E c \in Conn :
                  \/ FirstByte(c) /\ UNCHANGED <<serviceVars, threadVars, holds, faults, histVars>>
                  \/ PeerGoes(c)
    BY <1>1, <1>2, <2>1, ServiceType
  <2>2. CASE \E t \in Thread :
               \/ poll_for_activity_task(t)
               \/ ThreadStep(t)
               \/ heartbeat(t)
               \/ do_not_complete_on_return(t)
               \/ CodeEnds(t)
               \/ Crash(t)
    BY <1>1, <1>2, <2>2, ThreadsType
  <2> QED
    BY <1>3, <2>1, <2>2, Zenon DEF Next
<1>4. CASE UNCHANGED vars
  <2>1. UNCHANGED <<scheduled, state, attempt, cancel_requested, pc, task, do_not_complete,
                    holds, faults, ran, said, lost>>
    BY <1>4 DEF vars, serviceVars, threadVars, histVars
  <2>2. (\A t \in Thread : task[t] = NoTask <=> pc[t] \in Away)'
    BY <2>1 DEF TypeOK
  <2> QED
    BY <1>1, <1>2, <2>1, <2>2 DEF TypeOK
<1> QED
  BY <1>3, <1>4

\* The threads' calls, seen on the connections alone, are those of Connection.
THEOREM Implements == Spec => ConnSpec
<1>1. Init => ConnInit
  BY DEF Init
<1>2. TypeOK /\ [Next]_vars => [ConnNext]_connVars
  BY ConnStep
<1> QED
  BY <1>1, <1>2, InitType, NextType, PTL DEF Spec, ConnSpec

-----------------------------------------------------------------------------
(* Each attempt has one life *)

\* The service has handed out this attempt, or a later one.
Handed(k) ==
  attempt[k[1]] > k[2] \/ (attempt[k[1]] = k[2] /\ state[k[1]] # "scheduled")

\* No thread has come to know of this attempt.
Unseen(k) == ran[k] = "no" /\ \A t \in Thread : task[t] # k

\* An attempt is in one place at most: with the service, in a stream, or with a thread.
HandedOnce ==
  /\ \A k \in Token : ~Handed(k) => Unseen(k) /\ \A t \in Thread : k \notin TasksIn(t)
  /\ \A t \in Thread : \A k \in TasksIn(t) :
       Unseen(k) /\ \A u \in Thread \ {t} : k \notin TasksIn(u)
  /\ \A t, u \in Thread : task[t] = task[u] => t = u \/ task[t] = NoTask

\* How far the code has come in the attempt of a thread at each place.
RanSoFar(t) ==
  /\ pc[t] = "dispatch" => ran[task[t]] = "no"
  /\ pc[t] \in {"running", "heartbeat", "raising"} => ran[task[t]] = "running"
  /\ pc[t] \in {"returned", "completing"} => ran[task[t]] = "returned"
  /\ pc[t] \in {"raised", "failing"} => ran[task[t]] \in {"raised", "unreported"}

\* What is on its way to the service is so.
Reported(request) ==
  /\ request.call = "complete" => ran[request.token] \in {"returned", "unreported"}
  /\ request.call = "fail" => ran[request.token] \in {"raised", "unreported"}

CauseInv ==
  /\ HandedOnce
  /\ \A t \in Thread : RanSoFar(t)
  /\ \A s \in sent : Reported(s.request)
  /\ ClosedForCause

\* No connection has a task that it has not had.
NoNewTasks == \A c \in Conn : TasksIn(c)' \subseteq TasksIn(c)

\* The tasks among the answers of a connection are those that wait in it.
LEMMA AnswersThere ==
  ASSUME NEW c \in Conn
  PROVE  \E answers : /\ AnswersIn(c, answers)
                      /\ \A x \in answers : x[2].kind = "task" => x[2].token \in TasksIn(c)
<1> DEFINE answers == {<<stream[c][i].request, stream[c][i].answer>> : i \in DOMAIN stream[c]}
<1>1. AnswersIn(c, answers)
  BY DEF AnswersIn
<1>2. ASSUME NEW x \in answers, x[2].kind = "task" PROVE x[2].token \in TasksIn(c)
  <2>1. PICK i \in DOMAIN stream[c] : x = <<stream[c][i].request, stream[c][i].answer>>
    OBVIOUS
  <2>2. stream[c][i].answer.kind = "task" /\ x[2].token = stream[c][i].answer.token
    BY <1>2, <2>1
  <2> QED
    BY <2>2 DEF TasksIn, Range
<1> HIDE DEF answers
<1> QED
  BY <1>1, <1>2

\* And each task there is an answer's.
LEMMA TasksThere ==
  ASSUME NEW c \in Conn, NEW answers, AnswersIn(c, answers)', NEW k \in TasksIn(c)'
  PROVE  \E x \in answers : x[2].kind = "task" /\ x[2].token = k
<1>1. PICK i \in DOMAIN stream'[c] : stream'[c][i].answer.kind = "task" /\ stream'[c][i].answer.token = k
  BY DEF TasksIn, Range
<1>2. <<stream'[c][i].request, stream'[c][i].answer>> \in answers
  BY DEF AnswersIn
<1> QED
  BY <1>1, <1>2

\* Without new answers there are no new tasks.
LEMMA NoTasks == ASSUME NoNewAnswers PROVE NoNewTasks
<1>1. ASSUME NEW c \in Conn, NEW k \in TasksIn(c)' PROVE k \in TasksIn(c)
  <2>1. PICK answers : /\ AnswersIn(c, answers)
                       /\ \A x \in answers : x[2].kind = "task" => x[2].token \in TasksIn(c)
    BY AnswersThere
  <2>2. AnswersIn(c, answers)'
    BY <2>1 DEF NoNewAnswers
  <2> QED
    BY <1>1, <2>1, <2>2, TasksThere
<1> QED
  BY <1>1 DEF NoNewTasks

\* The service brings the task that it hands out.
LEMMA ServesTask ==
  ASSUME ConnTypeOK, NEW s \in sent, NEW answer, Serve(s, answer)
  PROVE  /\ NoNewRequests
         /\ s.conn \in Conn
         /\ \A c \in Conn \ {s.conn} : TasksIn(c)' = TasksIn(c)
         /\ answer.kind # "task" => NoNewTasks
         /\ TasksIn(s.conn)' \subseteq TasksIn(s.conn) \cup {answer.token}
<1> DEFINE c == s.conn
<1>0. c \in Conn
  BY ServeKeeps
<1>1. PICK answers : /\ AnswersIn(c, answers)
                     /\ \A x \in answers : x[2].kind = "task" => x[2].token \in TasksIn(c)
  BY <1>0, AnswersThere
<1>2. ASSUME NEW k \in TasksIn(c)'
      PROVE  k \in TasksIn(c) \/ (answer.kind = "task" /\ k = answer.token)
  <2>1. AnswersIn(c, answers \cup {<<s.request, answer>>})'
    BY <1>1, ServeKeeps
  <2>2. \E x \in answers \cup {<<s.request, answer>>} : x[2].kind = "task" /\ x[2].token = k
    BY <1>0, <2>1, TasksThere
  <2> QED
    BY <1>1, <2>2
<1>3. \A d \in Conn \ {c} : TasksIn(d)' = TasksIn(d)
  BY ServeKeeps DEF TasksIn, Range
<1>4. NoNewRequests
  BY ServeKeeps DEF NoNewRequests
<1> QED
  BY <1>0, <1>2, <1>3, <1>4 DEF NoNewTasks

-----------------------------------------------------------------------------
(* What the service does *)

\* What no thread does leaves the life of an attempt as it is, as long as the service
\* takes back nothing that it has handed out.
LEMMA Onlooking ==
  ASSUME CauseInv, NoNewTasks, NoNewRequests, Conn = Thread, UNCHANGED <<pc, task, ran>>,
         \A k \in Token : Handed(k) => Handed(k)',
         ClosedForCause'
  PROVE  CauseInv'
<1>1. HandedOnce'
  <2>1. \A k : Unseen(k)' = Unseen(k)
    BY DEF Unseen
  <2>2. \A t \in Thread : TasksIn(t)' \subseteq TasksIn(t)
    BY DEF NoNewTasks
  <2> QED
    BY <2>1, <2>2 DEF CauseInv, HandedOnce
<1>2. \A t \in Thread : RanSoFar(t)'
  BY DEF CauseInv, RanSoFar
<1>3. \A s \in sent' : Reported(s.request)'
  BY DEF CauseInv, NoNewRequests, Reported
<1> QED
  BY <1>1, <1>2, <1>3 DEF CauseInv

\* An attempt that ends is closed, or there is another one; no other activity is touched.
LEMMA Ends ==
  ASSUME TypeOK, NEW a \in Activity, NEW closed,
         EndsAttempt(a, closed) \/ (state' = [state EXCEPT ![a] = closed] /\ UNCHANGED attempt)
  PROVE  /\ \/ state'[a] = "scheduled" /\ attempt'[a] = attempt[a] + 1
            \/ state'[a] = closed /\ attempt'[a] = attempt[a]
         /\ \A b \in Activity \ {a} : state'[b] = state[b] /\ attempt'[b] = attempt[b]
<1>1. \/ /\ state' = [state EXCEPT ![a] = "scheduled"]
         /\ attempt' = [attempt EXCEPT ![a] = attempt[a] + 1]
      \/ state' = [state EXCEPT ![a] = closed] /\ attempt' = attempt
  BY DEF EndsAttempt
<1>2. DOMAIN state = Activity /\ DOMAIN attempt = Activity
  BY DEF TypeOK
<1> QED
  BY <1>1, <1>2

\* Attempts that are handed out stay so.
LEMMA HandedStays ==
  ASSUME attempt \in [Activity -> 1..MaxAttempts], NEW a \in Activity, NEW closed, closed # "scheduled",
         \/ state'[a] = "scheduled" /\ attempt'[a] = attempt[a] + 1
         \/ state'[a] = closed /\ attempt'[a] = attempt[a],
         \A b \in Activity \ {a} : state'[b] = state[b] /\ attempt'[b] = attempt[b],
         NEW k \in Token, Handed(k)
  PROVE  Handed(k)'
<1>1. k[1] \in Activity /\ k[2] \in Nat /\ attempt[a] \in Nat
  BY ActivitiesAssumption DEF Token
<1>2. CASE k[1] # a
  BY <1>1, <1>2 DEF Handed
<1>3. CASE k[1] = a
  BY <1>1, <1>3 DEF Handed
<1> QED
  BY <1>2, <1>3

\* An attempt that ends, however it does, is retried or remains the activity's last.
LEMMA EndsAttemptCause ==
  ASSUME TypeOK, NEW a \in Activity, NEW closed \in {"completed", "failed", "timed out"},
         EndsAttempt(a, closed) \/ (state' = [state EXCEPT ![a] = closed] /\ UNCHANGED attempt)
  PROVE  /\ \A k \in Token : Handed(k) => Handed(k)'
         /\ \A b \in Activity \ {a} : state'[b] = state[b] /\ attempt'[b] = attempt[b]
         /\ \/ state'[a] = "scheduled"
            \/ state'[a] = closed /\ attempt'[a] = attempt[a]
<1>1. attempt \in [Activity -> 1..MaxAttempts]
  BY DEF TypeOK
<1> QED
  BY <1>1, Ends, HandedStays, Zenon

\* Closing the attempt under way, for cause.
LEMMA ClosesCause ==
  ASSUME TypeOK, ClosedForCause, NEW k \in Token, Current(k), NEW call \in {"complete", "fail"},
         Closes(call, k), UNCHANGED ran,
         \A j \in Token : j # k => said'[j] = said[j],
         call = "complete" => ran[k] \in {"returned", "unreported"} \/ said'[k] = "complete",
         call = "fail" => ran[k] \in {"raised", "unreported"} \/ said'[k] = "fail"
  PROVE  ClosedForCause' /\ \A j \in Token : Handed(j) => Handed(j)'
<1> DEFINE a == k[1]
<1> DEFINE closed == IF call = "complete" THEN "completed" ELSE "failed"
<1>1. a \in Activity /\ k = <<a, attempt[a]>> /\ state[a] = "started"
  BY DEF Token, Current
<1>2. EndsAttempt(a, closed) \/ (state' = [state EXCEPT ![a] = closed] /\ UNCHANGED attempt)
  BY DEF Closes
<1>3. /\ \A j \in Token : Handed(j) => Handed(j)'
      /\ \A b \in Activity \ {a} : state'[b] = state[b] /\ attempt'[b] = attempt[b]
      /\ \/ state'[a] = "scheduled"
         \/ state'[a] = closed /\ attempt'[a] = attempt[a]
  BY <1>1, <1>2, EndsAttemptCause
<1>4. ASSUME NEW b \in Activity \ {a}
      PROVE  /\ state'[b] = state[b] /\ attempt'[b] = attempt[b]
             /\ <<b, attempt[b]>> \in Token /\ <<b, attempt[b]>> # k
  BY <1>1, <1>3 DEF TypeOK, Token
<1>5. \A b \in Activity \ {a} : said'[<<b, attempt[b]>>] = said[<<b, attempt[b]>>]
  BY <1>4
<1> QED
  BY <1>1, <1>3, <1>4, <1>5 DEF ClosedForCause

\* An attempt is handed out when it is started.
LEMMA StartedIsHanded ==
  ASSUME UNCHANGED attempt, NEW a \in Activity, state'[a] = "started",
         \A b \in Activity \ {a} : state'[b] = state[b]
  PROVE  \A j \in Token : Handed(j) \/ j = <<a, attempt[a]>> => Handed(j)'
  BY DEF Token, Handed

\* The service, the completion clients and the network keep the invariant.
LEMMA ServiceCause ==
  ASSUME TypeOK, ConnInv, ConnInv', CauseInv,
         \/ ServiceStep
         \/ \E a \in Activity : RequestCancel(a) \/ TimeOutAttempt(a)
         \/ \E c \in Client : ClientCalls(c) \/ ClientLeaves(c)
         \/ \E c \in Conn : \/ FirstByte(c) /\ UNCHANGED <<serviceVars, threadVars, holds, faults, histVars>>
                            \/ PeerGoes(c)
  PROVE  CauseInv'
<1> USE DEF threadVars, serviceVars, histVars
<1>0. Conn = Thread /\ ConnTypeOK /\ ConnTypeOK'
  BY ActivitiesAssumption DEF ConnInv
<1>1. ASSUME UNCHANGED <<state, attempt, ran, said>> PROVE ClosedForCause' /\ \A k \in Token : Handed(k) => Handed(k)'
  BY <1>1 DEF CauseInv, ClosedForCause, Handed
<1>2. ASSUME NEW s \in sent, HandOut(s) PROVE CauseInv'
  <2>1. PICK a \in Activity :
          /\ state[a] = "scheduled"
          /\ state' = [state EXCEPT ![a] = "started"]
          /\ \/ Serve(s, [kind |-> "task", token |-> <<a, attempt[a]>>])
             \/ Serve(s, Says("error frame"))
    BY <1>2 DEF HandOut
  <2> DEFINE k == <<a, attempt[a]>>
  <2>2. k \in Token /\ k[1] = a /\ k[2] = attempt[a] /\ ~Handed(k)
    <3>1. k \in Token
      BY DEF TypeOK, Token
    <3>2. ~(attempt[a] > attempt[a])
      BY ActivitiesAssumption DEF TypeOK
    <3> QED
      BY <2>1, <3>1, <3>2 DEF Handed
  <2>3. /\ NoNewRequests
        /\ \A c \in Conn : TasksIn(c)' \subseteq TasksIn(c) \cup {k}
        /\ \A c, d \in Conn : k \in TasksIn(c)' /\ k \in TasksIn(d)' => c = d
    <3>1. \A c \in Conn : k \notin TasksIn(c)
      BY <1>0, <2>2 DEF CauseInv, HandedOnce
    <3>2. CASE Serve(s, [kind |-> "task", token |-> k])
      <4>1. [kind |-> "task", token |-> k] \in Answer
        BY <2>2, Answers
      <4> QED
        BY <1>0, <3>1, <3>2, <4>1, ServesTask
    <3>3. CASE Serve(s, Says("error frame"))
      <4>1. Says("error frame") \in Answer /\ Says("error frame").kind # "task"
        BY Answers DEF Says
      <4> QED
        BY <1>0, <3>1, <3>3, <4>1, ServesTask DEF NoNewTasks
    <3> QED
      BY <2>1, <3>2, <3>3
  <2>4. /\ \A j \in Token : Handed(j) => Handed(j)'
        /\ Handed(k)'
        /\ UNCHANGED <<pc, task, ran, said, attempt>>
        /\ state'[a] = "started" /\ \A b \in Activity \ {a} : state'[b] = state[b]
    <3>1. UNCHANGED <<pc, task, ran, said, attempt>>
      BY <1>2 DEF HandOut
    <3>2. state'[a] = "started" /\ \A b \in Activity \ {a} : state'[b] = state[b]
      BY <2>1 DEF TypeOK
    <3> QED
      BY <2>2, <3>1, <3>2, StartedIsHanded
  <2>5. HandedOnce'
    <3>1. \A j : Unseen(j)' = Unseen(j)
      BY <2>4 DEF Unseen
    <3> QED
      BY <1>0, <2>2, <2>3, <2>4, <3>1 DEF CauseInv, HandedOnce
  <2>6. (\A t \in Thread : RanSoFar(t))'
    BY <2>4 DEF CauseInv, RanSoFar
  <2>7. \A r \in sent' : Reported(r.request)'
    BY <2>3, <2>4 DEF CauseInv, NoNewRequests, Reported
  <2>8. ClosedForCause'
    BY <2>1, <2>4 DEF CauseInv, ClosedForCause
  <2> QED
    BY <2>5, <2>6, <2>7, <2>8 DEF CauseInv
<1>3. ASSUME NEW s \in sent, NEW kind \in {"ok", "cancel requested", "no task", "error frame"} \cup ServiceError,
             Serve(s, Says(kind))
      PROVE  NoNewTasks /\ NoNewRequests
  <2>1. Says(kind) \in Answer /\ Says(kind).kind # "task"
    BY Answers, ActivitiesAssumption DEF Says, CADENCE_ERROR_FIELDS
  <2> QED
    BY <1>0, <1>3, <2>1, ServesTask
<1>4. ASSUME NEW s \in sent, Report(s) PROVE CauseInv'
  <2>1. s.request.token \in Token
    BY <1>4, Requests DEF Report, TypeOK, ConnTypeOK, SentRequest
  <2>2. Reported(s.request)
    BY DEF CauseInv
  <2>3. ClosedForCause' /\ \A j \in Token : Handed(j) => Handed(j)'
    BY <1>4, <2>1, <2>2, ClosesCause DEF Report, Reported, CauseInv
  <2>4. NoNewTasks /\ NoNewRequests
    BY <1>3, <1>4 DEF Report, Acted
  <2> QED
    BY <1>0, <1>4, <2>3, <2>4, Onlooking DEF Report
<1>5. ASSUME NEW s \in sent, RecordHeartbeat(s) \/ Refuse(s) PROVE CauseInv'
  <2>1. NoNewTasks /\ NoNewRequests
    BY <1>3, <1>5 DEF RecordHeartbeat, Refuse, Acted
  <2> QED
    BY <1>0, <1>1, <1>5, <2>1, Onlooking DEF RecordHeartbeat, Refuse
<1>6. ASSUME UNCHANGED connVars PROVE NoNewTasks /\ NoNewRequests
  BY <1>6 DEF connVars, NoNewTasks, NoNewRequests, TasksIn
<1>7. ASSUME NEW a \in Activity, RequestCancel(a) PROVE CauseInv'
  BY <1>0, <1>1, <1>6, <1>7, Onlooking DEF RequestCancel
<1>8. ASSUME NEW a \in Activity, TimeOutAttempt(a) PROVE CauseInv'
  <2>1. /\ \A k \in Token : Handed(k) => Handed(k)'
        /\ \A b \in Activity \ {a} : state'[b] = state[b] /\ attempt'[b] = attempt[b]
        /\ state'[a] = "scheduled" \/ state'[a] = "timed out"
    BY <1>8, EndsAttemptCause DEF TimeOutAttempt
  <2>2. ClosedForCause'
    BY <1>8, <2>1 DEF TimeOutAttempt, CauseInv, ClosedForCause
  <2> QED
    BY <1>0, <1>6, <1>8, <2>1, <2>2, Onlooking DEF TimeOutAttempt
<1>9. ASSUME NEW c \in Client, ClientCalls(c) PROVE CauseInv'
  <2>1. holds[c] \in Token
    BY <1>9 DEF ClientCalls, TypeOK
  <2>2. PICK call \in {"complete", "fail"} :
          said' = [said EXCEPT ![holds[c]] = call] /\ Closes(call, holds[c])
    BY <1>9 DEF ClientCalls
  <2>3. said'[holds[c]] = call /\ \A j \in Token : j # holds[c] => said'[j] = said[j]
    BY <2>1, <2>2 DEF TypeOK
  <2>4. ClosedForCause' /\ \A j \in Token : Handed(j) => Handed(j)'
    BY <1>9, <2>1, <2>2, <2>3, ClosesCause DEF ClientCalls, CauseInv
  <2> QED
    BY <1>0, <1>6, <1>9, <2>4, Onlooking DEF ClientCalls
<1>10. ASSUME NEW c \in Client, ClientLeaves(c) PROVE CauseInv'
  BY <1>0, <1>1, <1>6, <1>10, Onlooking DEF ClientLeaves
<1>11. ASSUME NEW c \in Conn, \/ FirstByte(c) /\ UNCHANGED <<serviceVars, threadVars, holds, faults, histVars>>
                              \/ PeerGoes(c)
       PROVE  CauseInv'
  <2>1. NoNewTasks /\ NoNewRequests
    BY <1>0, <1>11, ConnKeeps, NoTasks DEF PeerGoes
  <2> QED
    BY <1>0, <1>1, <1>11, <2>1, Onlooking DEF PeerGoes
<1> QED
  BY <1>2, <1>4, <1>5, <1>7, <1>8, <1>9, <1>10, <1>11 DEF ServiceStep

-----------------------------------------------------------------------------
(* What threads do *)

\* How the code of an attempt may get on.
Advances(from, to) ==
  \/ to = from
  \/ from = "no"
  \/ from = "running"
  \/ from = "returned" /\ to = "unreported"

\* A thread gets on with its task, or leaves it.
LEMMA Working ==
  ASSUME TypeOK, CauseInv, Conn = Thread, NoNewTasks, NEW t \in Thread,
         UNCHANGED <<state, attempt, said>>,
         \A u \in Thread \ {t} : pc'[u] = pc[u] /\ task'[u] = task[u],
         task'[t] = task[t] \/ task'[t] = NoTask,
         \A k \in Token : k # task[t] => ran'[k] = ran[k],
         task[t] \in Token => Advances(ran[task[t]], ran'[task[t]]),
         RanSoFar(t)',
         \A s \in sent' : Reported(s.request)' \/ \E r \in sent : r.request = s.request
  PROVE  CauseInv'
<1>1. \A k \in Token : Advances(ran[k], ran'[k])
  BY DEF Advances
<1>2. \A k \in Token : Unseen(k) => Unseen(k)'
  BY TokenAssumption DEF Unseen
<1>3. \A k \in Token : Handed(k)' = Handed(k)
  BY DEF Handed
<1>4. HandedOnce'
  <2>1. \A u \in Thread : TasksIn(u)' \subseteq TasksIn(u)
    BY DEF NoNewTasks
  <2>2. \A u \in Thread : task'[u] = task[u] \/ task'[u] = NoTask
    OBVIOUS
  <2>3. (\A k \in Token : ~Handed(k) => Unseen(k) /\ \A u \in Thread : k \notin TasksIn(u))'
    BY <1>2, <1>3, <2>1 DEF CauseInv, HandedOnce
  <2>4. \A u \in Thread : \A k \in TasksIn(u) : k \in Token
    BY TasksAreTokens DEF TypeOK
  <2>5. (\A u \in Thread : \A k \in TasksIn(u) :
           Unseen(k) /\ \A v \in Thread \ {u} : k \notin TasksIn(v))'
    BY <1>2, <2>1, <2>4 DEF CauseInv, HandedOnce
  <2>6. (\A u, v \in Thread : task[u] = task[v] => u = v \/ task[u] = NoTask)'
    BY <2>2 DEF CauseInv, HandedOnce
  <2> QED
    BY <2>3, <2>5, <2>6 DEF HandedOnce
<1>5. ASSUME NEW u \in Thread PROVE RanSoFar(u)'
  <2>1. CASE u = t
    BY <2>1
  <2>2. CASE u # t /\ task[u] # NoTask
    <3>1. task[u] # task[t] /\ task[u] \in Token
      BY <2>2 DEF CauseInv, HandedOnce, TypeOK
    <3> QED
      BY <2>2, <3>1 DEF CauseInv, RanSoFar
  <2>3. CASE u # t /\ task[u] = NoTask
    BY <2>3 DEF TypeOK, Away, RanSoFar
  <2> QED
    BY <2>1, <2>2, <2>3
<1>6. ASSUME NEW s \in sent' PROVE Reported(s.request)'
  <2>1. CASE \E r \in sent : r.request = s.request
    <3>1. Reported(s.request) /\ s.request \in Request
      BY <2>1 DEF CauseInv, TypeOK, ConnTypeOK, SentRequest
    <3>2. s.request.call # "poll" => s.request.token \in Token
      BY <3>1, Requests
    <3> QED
      BY <1>1, <3>1, <3>2 DEF Reported, Advances
  <2> QED
    BY <2>1
<1>7. ClosedForCause'
  <2>1. \A a \in Activity : <<a, attempt[a]>> \in Token
    BY DEF TypeOK, Token
  <2> QED
    BY <1>1, <2>1 DEF CauseInv, ClosedForCause, Advances
<1> QED
  BY <1>4, <1>5, <1>6, <1>7 DEF CauseInv

\* A thread takes the task that its connection brings.
LEMMA Taking ==
  ASSUME TypeOK, ConnInv, CauseInv, NEW t \in Thread, PollsTask(t)
  PROVE  CauseInv'
<1> DEFINE k == NextAnswer(t).answer.token
<1>0. Conn = Thread
  BY ActivitiesAssumption
<1>1. stream[t] \in Seq(Arrived) /\ stream[t] # <<>> /\ Len(stream[t]) = 1
  BY <1>0 DEF PollsTask, Return, Readable, ConnInv, ConnTypeOK, OneCall
<1>2. k \in TasksIn(t)
  <2>1. 1 \in DOMAIN stream[t] /\ NextAnswer(t) = stream[t][1]
    BY <1>1 DEF NextAnswer
  <2> QED
    BY <2>1 DEF PollsTask, TasksIn, Range
<1>3. stream'[t] = <<>> /\ \A u \in Thread \ {t} : stream'[u] = stream[u]
  BY <1>0, <1>1 DEF PollsTask, Return, ConnInv, ConnTypeOK
<1>4. TasksIn(t)' = {} /\ \A u \in Thread \ {t} : TasksIn(u)' = TasksIn(u)
  BY <1>3 DEF TasksIn, Range
<1>5. k \in Token
  BY <1>0, <1>2, TasksAreTokens DEF TypeOK
<1>6. Unseen(k) /\ Handed(k) /\ \A u \in Thread \ {t} : k \notin TasksIn(u)
  BY <1>2, <1>5 DEF CauseInv, HandedOnce
<1>7. /\ UNCHANGED <<ran, said, state, attempt, sent>>
      /\ task'[t] = k /\ pc'[t] = "dispatch"
      /\ \A u \in Thread \ {t} : task'[u] = task[u] /\ pc'[u] = pc[u]
  BY DEF PollsTask, Goto, Return, TypeOK, serviceVars, histVars
<1>8. HandedOnce'
  <2>1. \A j \in Token : j # k => Unseen(j)' = Unseen(j)
    <3>1. task[t] = NoTask
      BY DEF PollsTask, TypeOK, Away
    <3> QED
      BY <1>7, <3>1, TokenAssumption DEF Unseen
  <2>2. \A j : Handed(j)' = Handed(j)
    BY <1>7 DEF Handed
  <2>3. \A u \in Thread : \A j \in TasksIn(u) : j \in Token
    BY <1>0, TasksAreTokens DEF TypeOK
  <2>4. (\A j \in Token : ~Handed(j) => Unseen(j) /\ \A u \in Thread : j \notin TasksIn(u))'
    BY <1>4, <1>6, <2>1, <2>2 DEF CauseInv, HandedOnce
  <2>5. (\A u \in Thread : \A j \in TasksIn(u) :
           Unseen(j) /\ \A v \in Thread \ {u} : j \notin TasksIn(v))'
    BY <1>4, <1>6, <2>1, <2>3 DEF CauseInv, HandedOnce
  <2>6. (\A u, v \in Thread : task[u] = task[v] => u = v \/ task[u] = NoTask)'
    BY <1>6, <1>7 DEF CauseInv, HandedOnce, Unseen
  <2> QED
    BY <2>4, <2>5, <2>6 DEF HandedOnce
<1>9. ASSUME NEW u \in Thread PROVE RanSoFar(u)'
  BY <1>6, <1>7 DEF CauseInv, RanSoFar, Unseen
<1>10. ClosedForCause' /\ \A s \in sent' : Reported(s.request)'
  BY <1>7 DEF CauseInv, ClosedForCause, Reported
<1> QED
  BY <1>8, <1>9, <1>10 DEF CauseInv

\* Threads keep the invariant.
LEMMA ThreadsCause ==
  ASSUME TypeOK, ConnInv, ConnInv', CauseInv, NEW t \in Thread,
         \/ poll_for_activity_task(t)
         \/ ThreadStep(t)
         \/ heartbeat(t)
         \/ do_not_complete_on_return(t)
         \/ CodeEnds(t)
         \/ Crash(t)
  PROVE  CauseInv'
<1> USE DEF serviceVars, histVars, Place, Away, Ending
<1>0. Conn = Thread /\ ConnTypeOK'
  BY ActivitiesAssumption DEF ConnInv
<1>1. /\ RanSoFar(t)
      /\ task[t] = NoTask <=> pc[t] \in Away
      /\ task[t] # NoTask => task[t] \in Token
      /\ NoTask \notin Token
      /\ DOMAIN pc = Thread /\ DOMAIN task = Thread /\ DOMAIN ran = Token
  BY TokenAssumption DEF CauseInv, TypeOK
<1> DEFINE Rest == /\ NoNewTasks
                   /\ UNCHANGED <<state, attempt, said>>
                   /\ \A s \in sent' : Reported(s.request)' \/ \E r \in sent : r.request = s.request
<1>2. ASSUME NEW place \in Place, Goto(t, place), Stays
      PROVE  /\ \A u \in Thread \ {t} : pc'[u] = pc[u] /\ task'[u] = task[u]
             /\ task'[t] = task[t] /\ pc'[t] = place
  BY <1>1, <1>2 DEF Goto, Stays
<1>3. ASSUME NEW place \in Place, Leaves(t, place)
      PROVE  /\ \A u \in Thread \ {t} : pc'[u] = pc[u] /\ task'[u] = task[u]
             /\ task'[t] = NoTask /\ pc'[t] = place
  BY <1>1, <1>3 DEF Goto, Leaves
<1> DEFINE Codes == /\ task[t] \in Token => Advances(ran[task[t]], ran'[task[t]])
                    /\ \A k \in Token : k # task[t] => ran'[k] = ran[k]
<1>4. ASSUME NEW place \in Place, Goto(t, place), Stays, Rest, Codes \/ UNCHANGED ran, RanSoFar(t)'
      PROVE  CauseInv'
  <2>1. Codes
    BY <1>4 DEF Advances
  <2>2. /\ \A u \in Thread \ {t} : pc'[u] = pc[u] /\ task'[u] = task[u]
        /\ task'[t] = task[t]
    BY <1>2, <1>4
  <2> QED
    BY <1>0, <1>4, <2>1, <2>2, Working
<1>5. ASSUME NEW place \in Away, Leaves(t, place), Rest, Codes \/ UNCHANGED ran
      PROVE  CauseInv'
  <2>1. RanSoFar(t)'
    BY <1>3, <1>5 DEF RanSoFar
  <2>2. Codes
    BY <1>5 DEF Advances
  <2>3. /\ \A u \in Thread \ {t} : pc'[u] = pc[u] /\ task'[u] = task[u]
        /\ task'[t] = NoTask
    BY <1>3, <1>5
  <2> QED
    BY <1>0, <1>5, <2>1, <2>2, <2>3, Working
<1>6. UNCHANGED connVars => NoNewTasks /\ NoNewRequests
  BY DEF connVars, NoNewTasks, NoNewRequests, TasksIn
<1>7. Raises(t) \/ Return(t) \/ Dies(t) \/ close(t) => NoNewTasks /\ NoNewRequests
  BY <1>0, ConnKeeps, NoTasks
<1>8. NoNewTasks /\ NoNewRequests /\ UNCHANGED <<state, attempt, said>> => Rest
  BY DEF NoNewRequests
<1>9. ASSUME NEW call \in {"complete", "fail", "heartbeat"}, NEW place \in Place,
             Calls(t, call, place), RanSoFar(t)',
             call = "complete" => ran[task[t]] = "returned",
             call = "fail" => ran[task[t]] \in {"raised", "unreported"}
      PROVE  CauseInv'
  <2>1. /\ NoNewTasks
        /\ UNCHANGED <<state, attempt, said, ran>>
        /\ \A s \in sent' : \/ s.request = [call |-> call, token |-> task[t]]
                            \/ \E r \in sent : r.request = s.request
    BY <1>9 DEF Calls, Call, NoNewTasks, TasksIn
  <2>2. Rest
    BY <1>9, <2>1 DEF Reported
  <2> QED
    BY <1>4, <1>9, <2>1, <2>2 DEF Calls
<1>10. CASE poll_for_activity_task(t)
  <2>1. \A s \in sent' : s.request = Poll \/ \E r \in sent : r.request = s.request
    BY <1>10 DEF poll_for_activity_task, Call
  <2>2. Rest
    BY <1>10, <2>1 DEF poll_for_activity_task, Call, Poll, Reported, NoNewTasks, TasksIn
  <2>3. RanSoFar(t)'
    BY <1>2, <1>10 DEF poll_for_activity_task, RanSoFar
  <2> QED
    BY <1>4, <1>10, <2>2, <2>3 DEF poll_for_activity_task
<1>11. CASE PollsNothing(t)
  <2>1. Rest
    BY <1>7, <1>8, <1>11 DEF PollsNothing
  <2>2. RanSoFar(t)'
    BY <1>2, <1>11 DEF PollsNothing, RanSoFar
  <2> QED
    BY <1>4, <1>11, <2>1, <2>2 DEF PollsNothing
<1>12. CASE PollsTask(t)
  BY <1>12, Taking
<1>13. CASE json_to_args_raises(t) \/ NotFound(t)
  <2>1. Rest
    BY <1>6, <1>8, <1>13 DEF json_to_args_raises, NotFound
  <2> QED
    BY <1>5, <1>13, <2>1 DEF json_to_args_raises, NotFound
<1>14. CASE Dispatch(t)
  <2>1. Rest
    BY <1>6, <1>8, <1>14 DEF Dispatch
  <2>2. task[t] \in Token /\ ran[task[t]] = "no"
    BY <1>1, <1>14 DEF Dispatch, RanSoFar
  <2>3. ran'[task[t]] = "running" /\ Codes
    BY <1>1, <1>14, <2>2 DEF Dispatch, Advances
  <2>4. RanSoFar(t)'
    BY <1>2, <1>14, <2>3 DEF Dispatch, RanSoFar
  <2> QED
    BY <1>4, <1>14, <2>1, <2>3, <2>4 DEF Dispatch
<1>15. CASE heartbeat(t)
  <2>1. RanSoFar(t)'
    BY <1>1, <1>2, <1>15 DEF heartbeat, Calls, RanSoFar
  <2> QED
    BY <1>9, <1>15, <2>1 DEF heartbeat
<1>16. CASE HeartbeatRaises(t) \/ HeartbeatReturns(t)
  <2>1. Rest
    BY <1>6, <1>7, <1>8, <1>16 DEF HeartbeatRaises, HeartbeatReturns, NotWritten, CallRaises
  <2>2. PICK place \in {"running", "raising"} : Goto(t, place) /\ Stays /\ UNCHANGED ran
    BY <1>16 DEF HeartbeatRaises, HeartbeatReturns
  <2>3. place \in Place
    OBVIOUS
  <2>4. RanSoFar(t)'
    BY <1>1, <1>2, <1>16, <2>2, <2>3 DEF HeartbeatRaises, HeartbeatReturns, RanSoFar
  <2> QED
    BY <1>4, <2>1, <2>2, <2>3, <2>4, Zenon
<1>17. CASE do_not_complete_on_return(t)
  <2>1. Rest /\ UNCHANGED <<pc, task, ran>>
    BY <1>6, <1>8, <1>17 DEF do_not_complete_on_return
  <2>2. RanSoFar(t)'
    BY <1>1, <2>1 DEF RanSoFar
  <2> QED
    BY <1>0, <2>1, <2>2, Working DEF Advances
<1>18. CASE CodeReturns(t)
  <2>1. Rest
    BY <1>6, <1>8, <1>18 DEF CodeReturns
  <2>2. task[t] \in Token /\ ran[task[t]] = "running"
    BY <1>1, <1>18 DEF CodeReturns, RanSoFar
  <2>3. Codes /\ ran'[task[t]] = IF do_not_complete[t] THEN "handed over" ELSE "returned"
    BY <1>1, <1>18, <2>2 DEF CodeReturns, Advances
  <2>4. CASE Completes(t)
    <3>1. ran'[task[t]] = "returned" /\ Goto(t, "returned") /\ Stays
      BY <1>18, <2>3, <2>4 DEF CodeReturns, Completes
    <3>2. RanSoFar(t)'
      BY <1>2, <3>1 DEF RanSoFar
    <3> QED
      BY <1>4, <2>1, <2>3, <3>1, <3>2
  <2>5. CASE ~Completes(t)
    <3>1. Leaves(t, "poll")
      BY <1>18, <2>5 DEF CodeReturns
    <3> QED
      BY <1>5, <2>1, <2>3, <3>1
  <2> QED
    BY <2>4, <2>5
<1>19. CASE CodeRaises(t)
  <2>1. Rest
    BY <1>6, <1>8, <1>19 DEF CodeRaises
  <2>2. task[t] \in Token /\ ran[task[t]] = "running"
    BY <1>1, <1>19 DEF CodeRaises, RanSoFar
  <2>3. Codes /\ ran'[task[t]] = "raised"
    BY <1>1, <1>19, <2>2 DEF CodeRaises, Advances
  <2>4. RanSoFar(t)'
    BY <1>2, <1>19, <2>3 DEF CodeRaises, RanSoFar
  <2> QED
    BY <1>4, <1>19, <2>1, <2>3, <2>4 DEF CodeRaises
<1>20. CASE complete(t)
  <2>1. RanSoFar(t)' /\ ran[task[t]] = "returned"
    BY <1>1, <1>2, <1>20 DEF complete, Calls, RanSoFar
  <2> QED
    BY <1>9, <1>20, <2>1 DEF complete
<1>21. CASE complete_exceptionally(t)
  <2>1. RanSoFar(t)' /\ ran[task[t]] \in {"raised", "unreported"}
    BY <1>1, <1>2, <1>21 DEF complete_exceptionally, Calls, RanSoFar
  <2> QED
    BY <1>9, <1>21, <2>1 DEF complete_exceptionally
<1>22. CASE CompleteRaises(t)
  <2>1. Rest
    BY <1>6, <1>7, <1>8, <1>22 DEF CompleteRaises, CallRaises
  <2>2. task[t] \in Token /\ ran[task[t]] = "returned"
    BY <1>1, <1>22 DEF CompleteRaises, RanSoFar
  <2>3. Codes /\ ran'[task[t]] = "unreported"
    BY <1>1, <1>22, <2>2 DEF CompleteRaises, Advances
  <2>4. RanSoFar(t)'
    BY <1>2, <1>22, <2>3 DEF CompleteRaises, AfterComplete, RanSoFar
  <2> QED
    BY <1>4, <1>22, <2>1, <2>3, <2>4 DEF CompleteRaises, AfterComplete
<1>23. CASE ReportReturns(t)
  <2>1. Rest
    BY <1>7, <1>8, <1>23 DEF ReportReturns
  <2> QED
    BY <1>5, <1>23, <2>1 DEF ReportReturns
<1>24. CASE FailRaises(t)
  <2>1. Rest
    BY <1>6, <1>7, <1>8, <1>24 DEF FailRaises, CallRaises
  <2> QED
    BY <1>5, <1>24, <2>1 DEF FailRaises
<1>25. CASE ThreadEnds(t)
  <2>1. Rest
    BY <1>7, <1>8, <1>25 DEF ThreadEnds
  <2>2. RanSoFar(t)'
    BY <1>2, <1>25 DEF ThreadEnds, RanSoFar
  <2> QED
    BY <1>4, <1>25, <2>1, <2>2 DEF ThreadEnds
<1>26. CASE Crash(t)
  <2>1. Rest
    BY <1>7, <1>8, <1>26 DEF Crash
  <2> QED
    BY <1>5, <1>26, <2>1 DEF Crash
<1> QED
  BY <1>10, <1>11, <1>12, <1>13, <1>14, <1>15, <1>16, <1>17, <1>18, <1>19, <1>20, <1>21, <1>22,
     <1>23, <1>24, <1>25, <1>26 DEF ThreadStep, CodeEnds

-----------------------------------------------------------------------------
(* Names *)

\* The methods of the implementation have names in one of the two spellings.
Spelled == \A name \in Methods : SpelledBy(name, Words(name))

\* What is registered, and what runs under each of the keys.
LEMMA ActivitiesAre ==
  /\ DOMAIN activities = UNION {BothSpellings(ActivitiesClass, name) : name \in Methods}
  /\ \A key \in DOMAIN activities :
       activities[key] \in Methods /\ key \in BothSpellings(ActivitiesClass, activities[key])
<1> DEFINE methods == [name \in Methods |-> name]
           keys == UNION {BothSpellings(ActivitiesClass, name) : name \in Methods}
           chosen(key) == CHOOSE name \in Methods : key \in BothSpellings(ActivitiesClass, name)
<1>1. DOMAIN methods = Methods /\ \A name \in Methods : methods[name] = name
  OBVIOUS
<1>2. activities = [key \in keys \cup DOMAIN <<>> |->
                       IF key \in keys THEN methods[chosen(key)] ELSE <<>>[key]]
  BY <1>1, Zenon DEF activities, register_activities_implementation, ActivityKeys
<1>3. \A key \in keys : chosen(key) \in Methods /\ key \in BothSpellings(ActivitiesClass, chosen(key))
  <2>1. ASSUME NEW key \in keys
        PROVE  chosen(key) \in Methods /\ key \in BothSpellings(ActivitiesClass, chosen(key))
    <3>1. \E name \in Methods : key \in BothSpellings(ActivitiesClass, name)
      OBVIOUS
    <3> QED
      BY <3>1, Zenon
  <2> QED
    BY <2>1
<1> HIDE DEF keys, chosen, methods
<1>4. DOMAIN activities = keys /\ \A key \in keys : activities[key] = methods[chosen(key)]
  <2>1. DOMAIN <<>> = {}
    OBVIOUS
  <2> QED
    BY <1>2, <2>1
<1> QED
  BY <1>1, <1>3, <1>4 DEF keys

\* What runs under a key is the method whose name the key has.
LEMMA RunsRegistered ==
  ASSUME Spelled, NEW key \in DOMAIN activities
  PROVE  SameMethod(activities[key], key.name)
<1> DEFINE name == activities[key]
           words == Words(name)
<1>1. name \in Methods /\ key \in BothSpellings(ActivitiesClass, name)
  BY ActivitiesAre
<1>2. SpelledBy(name, words)
  BY <1>1 DEF Spelled
<1>3. key.name \in {Snake(words), Camel(words)}
  BY <1>1, <1>2, BothSpelled DEF BothSpellings, Key
<1>4. SpelledBy(key.name, words)
  BY <1>2, <1>3 DEF SpelledBy
<1> QED
  BY <1>4, BothSpelled DEF SameMethod

\* What is sensible is found.
LEMMA SensibleFound ==
  ASSUME Spelled, NEW what \in Scheduled, Sensible(what)
  PROVE  what.type \in DOMAIN activities
<1>1. PICK name \in Methods : Words(name) = Words(what.type.name)
  BY DEF Sensible, SameMethod
<1>2. camel_to_snake(name) = Snake(Words(name)) /\ snake_to_camel(name) = Camel(Words(name))
  BY BothSpelled DEF Spelled
<1>3. what.type.name \in {camel_to_snake(name), snake_to_camel(name)}
  BY <1>1, <1>2 DEF Sensible, IsSpelled
<1>4. what.type = Key(ActivitiesClass, what.type.name)
  BY ActivitiesAssumption DEF Sensible
<1>5. what.type \in BothSpellings(ActivitiesClass, name)
  BY <1>3, <1>4 DEF BothSpellings
<1> QED
  BY <1>5, ActivitiesAre

-----------------------------------------------------------------------------
(* What is lost *)

\* The attempt is over: nothing is under way, and nothing can be any more.
Over(k) == Handed(k) /\ ~Current(k)

\* What a thread that reports waits for.
Reports(t) ==
  /\ pc[t] = "completing" => asked[t] = [call |-> "complete", token |-> task[t]]
  /\ pc[t] = "failing" => asked[t] = [call |-> "fail", token |-> task[t]]

\* An activity that need not be completed on return is with a client, or was.
LeftWith(t) ==
  do_not_complete[t] => task[t] # NoTask /\ (task[t] \in lost \/ \E c \in Client : holds[c] = task[t])

\* The service says that all is well when it has closed the attempt.
Truthful(x) ==
  x[2].kind = "ok" /\ x[1].call \in {"complete", "fail"} => x[1].token \in Token /\ Over(x[1].token)

Confirmed(c) == \E answers : AnswersIn(c, answers) /\ \A x \in answers : Truthful(x)

LostInv ==
  /\ LostForCause
  /\ \A t \in Thread : Reports(t) /\ LeftWith(t)
  /\ \A c \in Conn : Confirmed(c)

\* No connection loses a task but this one's.
KeepsTasks(S) == \A c \in Conn \ S : TasksIn(c) \subseteq TasksIn(c)'

\* The service takes no task out of a stream, and puts in the one that it serves.
LEMMA ServeKeepsTasks ==
  ASSUME ConnTypeOK, NEW s \in sent, NEW answer, Serve(s, answer) PROVE KeepsTasks({})
<1>1. s.conn \in Conn
  BY ServeKeeps
<1>2. ASSUME NEW c \in Conn, NEW k \in TasksIn(c) PROVE k \in TasksIn(c)'
  <2>1. PICK i \in DOMAIN stream[c] : stream[c][i].answer.kind = "task" /\ stream[c][i].answer.token = k
    BY DEF TasksIn, Range
  <2>2. stream[c] \in Seq(Arrived)
    BY DEF ConnTypeOK
  <2>3. i \in DOMAIN stream'[c] /\ stream'[c][i] = stream[c][i]
    <3>1. CASE stream'[c] = stream[c]
      BY <3>1
    <3>2. CASE \E a : stream'[c] = Append(stream[c], a)
      BY <2>2, <3>2
    <3> QED
      BY <1>1, <3>1, <3>2 DEF Serve, ConnTypeOK
  <2> QED
    BY <2>1, <2>3 DEF TasksIn, Range
<1> QED
  BY <1>2 DEF KeepsTasks

\* What is given up is late, but still there.
LEMMA GivenUpKeepsTasks ==
  ASSUME ConnTypeOK, NEW c \in Conn, GivenUp(c) PROVE KeepsTasks({})
<1> DEFINE late == [i \in DOMAIN stream[c] |-> [stream[c][i] EXCEPT !.late = TRUE]]
<1>1. stream' = [stream EXCEPT ![c] = late]
  BY DEF GivenUp
<1>2. \A d \in Conn : stream'[d] = IF d = c THEN late ELSE stream[d]
  BY <1>1 DEF ConnTypeOK
<1>3. \A a \in Arrived : [a EXCEPT !.late = TRUE].answer = a.answer
  BY DEF Arrived
<1>4. \A i \in DOMAIN stream[c] : stream[c][i] \in Arrived
  BY DEF ConnTypeOK
<1>5. ASSUME NEW d \in Conn, NEW k \in TasksIn(d) PROVE k \in TasksIn(d)'
  <2>1. PICK i \in DOMAIN stream[d] : stream[d][i].answer.kind = "task" /\ stream[d][i].answer.token = k
    BY DEF TasksIn, Range
  <2>2. i \in DOMAIN stream'[d] /\ stream'[d][i].answer = stream[d][i].answer
    <3>1. CASE d = c
      <4>1. stream'[d] = late /\ stream[c][i] \in Arrived
        BY <1>2, <1>4, <3>1
      <4>2. late[i] = [stream[c][i] EXCEPT !.late = TRUE] /\ i \in DOMAIN late
        BY <3>1
      <4> HIDE DEF late
      <4> QED
        BY <1>3, <3>1, <4>1, <4>2
    <3>2. CASE d # c
      BY <1>2, <3>2
    <3> QED
      BY <3>1, <3>2
  <2> QED
    BY <2>1, <2>2 DEF TasksIn, Range
<1> QED
  BY <1>5 DEF KeepsTasks

\* Where no answer is new, those that are there remain true, if nothing starts again.
LEMMA StaysConfirmed ==
  ASSUME NEW c \in Conn, Confirmed(c), NoNewAnswers, \A k \in Token : Over(k) => Over(k)'
  PROVE  Confirmed(c)'
<1>1. PICK answers : AnswersIn(c, answers) /\ \A x \in answers : Truthful(x)
  BY DEF Confirmed
<1>2. AnswersIn(c, answers)'
  BY <1>1 DEF NoNewAnswers
<1>3. \A x \in answers : Truthful(x)'
  BY <1>1 DEF Truthful
<1> QED
  BY <1>2, <1>3 DEF Confirmed

\* An answer that is served is among the true ones, if it is true.
LEMMA ServeConfirmed ==
  ASSUME ConnTypeOK, NEW s \in sent, NEW answer, Serve(s, answer), \A k \in Token : Over(k) => Over(k)',
         \A c \in Conn : Confirmed(c), Truthful(<<s.request, answer>>)'
  PROVE  \A c \in Conn : Confirmed(c)'
<1> SUFFICES ASSUME NEW c \in Conn PROVE Confirmed(c)'
  OBVIOUS
<1>1. PICK answers : AnswersIn(c, answers) /\ \A x \in answers : Truthful(x)
  BY DEF Confirmed
<1> DEFINE all == answers \cup {<<s.request, answer>>}
<1>2. AnswersIn(c, all)'
  <2>1. CASE c = s.conn
    BY <1>1, <2>1, ServeKeeps
  <2>2. CASE c # s.conn
    BY <1>1, <2>2, ServeKeeps DEF AnswersIn
  <2> QED
    BY <2>1, <2>2
<1>3. \A x \in answers : Truthful(x)'
  BY <1>1 DEF Truthful
<1>4. \A x \in all : Truthful(x)'
  BY <1>3
<1> HIDE DEF all
<1> QED
  BY <1>2, <1>4 DEF Confirmed

\* What the service may do with an activity.
Moved(a) ==
  /\ \A b \in Activity \ {a} : state'[b] = state[b] /\ attempt'[b] = attempt[b]
  /\ \/ state[a] = "scheduled" /\ state'[a] = "started" /\ attempt'[a] = attempt[a]
     \/ state'[a] = "scheduled" /\ attempt'[a] = attempt[a] + 1
     \/ state'[a] \in {"completed", "failed", "timed out"} /\ attempt'[a] = attempt[a]

\* A token is of an activity and an attempt.
LEMMA TokensAre ==
  ASSUME NEW k \in Token PROVE k[1] \in Activity /\ k[2] \in Nat /\ k = <<k[1], k[2]>>
<1>1. MaxAttempts \in Nat
  BY ActivitiesAssumption
<1> QED
  BY <1>1 DEF Token

\* What is over remains so, and only what is handed out comes to be under way.
LEMMA MovesOn ==
  ASSUME TypeOK, NEW a \in Activity, Moved(a), NEW k \in Token
  PROVE  /\ Over(k) => Over(k)'
         /\ Current(k)' => Current(k) \/ (k = <<a, attempt[a]>> /\ state'[a] = "started")
<1>1. k[1] \in Activity /\ k[2] \in Nat /\ k = <<k[1], k[2]>>
  BY ActivitiesAssumption DEF Token
<1>2. \A b \in Activity : attempt[b] \in Nat
  BY ActivitiesAssumption DEF TypeOK
<1>3. CASE k[1] # a
  BY <1>1, <1>3 DEF Moved, Over, Handed, Current
<1>4. CASE k[1] = a
  <2>1. attempt[a] \in Nat /\ k[2] \in Nat /\ k = <<a, k[2]>>
    BY <1>1, <1>2, <1>4
  <2>2. CASE state[a] = "scheduled" /\ state'[a] = "started" /\ attempt'[a] = attempt[a]
    BY <1>4, <2>1, <2>2 DEF Over, Handed, Current
  <2>3. CASE state'[a] = "scheduled" /\ attempt'[a] = attempt[a] + 1
    <3>1. ~Current(k)'
      BY <1>4, <2>3 DEF Current
    <3>2. Handed(k) => attempt[a] + 1 > k[2]
      BY <1>4, <2>1 DEF Handed
    <3> QED
      BY <1>4, <2>3, <3>1, <3>2 DEF Over, Handed
  <2>4. CASE state'[a] \in {"completed", "failed", "timed out"} /\ attempt'[a] = attempt[a]
    BY <1>4, <2>1, <2>4 DEF Over, Handed, Current
  <2> QED
    BY <2>2, <2>3, <2>4 DEF Moved
<1> QED
  BY <1>3, <1>4

\* An attempt that ends is such a move, and that attempt is over.
LEMMA EndsMoves ==
  ASSUME TypeOK, NEW k \in Token, Current(k), NEW closed \in {"completed", "failed", "timed out"},
         EndsAttempt(k[1], closed) \/ (state' = [state EXCEPT ![k[1]] = closed] /\ UNCHANGED attempt)
  PROVE  Moved(k[1]) /\ Over(k)'
<1>0. k[1] \in Activity /\ k[2] \in Nat
  BY TokensAre
<1>1. k[1] \in Activity /\ k[2] \in Nat /\ attempt[k[1]] = k[2]
  BY <1>0 DEF Current
<1>2. /\ \/ state'[k[1]] = "scheduled" /\ attempt'[k[1]] = attempt[k[1]] + 1
         \/ state'[k[1]] = closed /\ attempt'[k[1]] = attempt[k[1]]
      /\ \A b \in Activity \ {k[1]} : state'[b] = state[b] /\ attempt'[b] = attempt[b]
  BY <1>1, Ends
<1>3. Moved(k[1])
  BY <1>2 DEF Moved
<1>4. ~Current(k)' /\ Handed(k)'
  <2>1. CASE state'[k[1]] = "scheduled" /\ attempt'[k[1]] = attempt[k[1]] + 1
    <3>1. attempt[k[1]] + 1 > k[2]
      BY <1>1, Counts, Zenon
    <3> QED
      BY <2>1, <3>1 DEF Handed, Current
  <2>2. CASE state'[k[1]] = closed /\ attempt'[k[1]] = attempt[k[1]]
    BY <1>1, <2>2 DEF Handed, Current
  <2> QED
    BY <1>2, <2>1, <2>2
<1> QED
  BY <1>3, <1>4 DEF Over

\* What no thread does loses nothing, if tasks and tokens that go are known as lost.
LEMMA Watching ==
  ASSUME TypeOK, LostInv, UNCHANGED <<scheduled, pc, task, do_not_complete, asked>>,
         lost \subseteq lost',
         \A c \in Client : holds'[c] = holds[c] \/ holds[c] \in lost',
         \A c \in Thread : \A k \in TasksIn(c) : k \in TasksIn(c)' \/ k \in lost',
         \A k \in Token : Current(k)' => \/ Current(k)
                                         \/ k \in lost'
                                         \/ \E t \in Thread : k \in TasksIn(t)',
         \A c \in Conn : Confirmed(c)'
  PROVE  LostInv'
<1>1. LostForCause'
  <2> SUFFICES ASSUME NEW k \in Token, Current(k)', k \notin lost',
                      Sensible(scheduled[k[1]])
               PROVE  Kept(k)'
    BY DEF LostForCause, Sensible
  <2>1. CASE Current(k)
    <3>1. Kept(k)
      BY <2>1 DEF LostInv, LostForCause
    <3> QED
      BY <3>1 DEF Kept
  <2>2. CASE \E t \in Thread : k \in TasksIn(t)'
    BY <2>2 DEF Kept
  <2> QED
    BY <2>1, <2>2
<1>2. ASSUME NEW t \in Thread PROVE Reports(t)' /\ LeftWith(t)'
  BY DEF LostInv, Reports, LeftWith
<1> QED
  BY <1>1, <1>2 DEF LostInv

\* The service, the clients and the network lose nothing without cause.
LEMMA ServiceLost ==
  ASSUME TypeOK, ConnInv, LostInv,
         \/ ServiceStep
         \/ \E a \in Activity : RequestCancel(a) \/ TimeOutAttempt(a)
         \/ \E c \in Client : ClientCalls(c) \/ ClientLeaves(c)
         \/ \E c \in Conn : \/ FirstByte(c) /\ UNCHANGED <<serviceVars, threadVars, holds, faults, histVars>>
                            \/ PeerGoes(c)
  PROVE  LostInv'
<1> USE DEF threadVars, serviceVars, histVars
<1>0. Conn = Thread /\ ConnTypeOK
  BY ActivitiesAssumption DEF ConnInv
<1>1. \A c \in Conn : Confirmed(c)
  BY DEF LostInv
<1>2. ASSUME UNCHANGED <<state, attempt>> PROVE \A k : Over(k)' = Over(k) /\ Current(k)' = Current(k)
  BY <1>2 DEF Over, Handed, Current
<1>3. ASSUME UNCHANGED connVars, \A k \in Token : Over(k) => Over(k)'
      PROVE  /\ \A c \in Conn : Confirmed(c)'
             /\ \A c \in Thread : TasksIn(c)' = TasksIn(c)
             /\ UNCHANGED asked
  <2>1. NoNewAnswers
    BY <1>3 DEF connVars, NoNewAnswers, AnswersIn
  <2>2. \A c \in Conn : Confirmed(c)'
    BY <1>1, <1>3, <2>1, StaysConfirmed
  <2> QED
    BY <1>3, <2>2 DEF connVars, TasksIn
<1>4. ASSUME NEW s \in sent, NEW answer, Serve(s, answer), \A k \in Token : Over(k) => Over(k)',
             Truthful(<<s.request, answer>>)'
      PROVE  /\ \A c \in Conn : Confirmed(c)'
             /\ \A c \in Thread : TasksIn(c) \subseteq TasksIn(c)'
             /\ UNCHANGED asked
  <2>1. \A c \in Conn : Confirmed(c)'
    BY <1>0, <1>1, <1>4, ServeConfirmed
  <2>2. \A c \in Thread : TasksIn(c) \subseteq TasksIn(c)'
    BY <1>0, <1>4, ServeKeepsTasks DEF KeepsTasks
  <2> QED
    BY <1>4, <2>1, <2>2 DEF Serve
<1>5. \A s \in sent : s.request \in Request /\ s.conn \in Conn
  BY <1>0 DEF ConnTypeOK, SentRequest
<1>6. ASSUME NEW s \in sent, HandOut(s) PROVE LostInv'
  <2>1. PICK a \in Activity :
          /\ state[a] = "scheduled"
          /\ state' = [state EXCEPT ![a] = "started"]
          /\ \/ Serve(s, [kind |-> "task", token |-> <<a, attempt[a]>>])
             \/ Serve(s, Says("error frame"))
          /\ lost' = IF <<a, attempt[a]>> \in TasksIn(s.conn)' THEN lost ELSE lost \cup {<<a, attempt[a]>>}
    BY <1>6 DEF HandOut
  <2>2. UNCHANGED <<scheduled, attempt, pc, task, do_not_complete, holds>>
    BY <1>6 DEF HandOut
  <2>3. Moved(a)
    BY <2>1, <2>2 DEF Moved, TypeOK
  <2>4. \A k \in Token : /\ Over(k) => Over(k)'
                         /\ Current(k)' => Current(k) \/ k = <<a, attempt[a]>>
    BY <2>3, MovesOn
  <2>5. PICK answer : Serve(s, answer) /\ answer.kind # "ok"
    <3>1. /\ [kind |-> "task", token |-> <<a, attempt[a]>>].kind # "ok"
          /\ Says("error frame").kind # "ok"
      BY DEF Says
    <3> QED
      BY <2>1, <3>1, Zenon
  <2>6. Truthful(<<s.request, answer>>)'
    BY <2>5 DEF Truthful
  <2>7. /\ \A c \in Conn : Confirmed(c)'
        /\ \A c \in Thread : TasksIn(c) \subseteq TasksIn(c)'
        /\ UNCHANGED asked
    BY <1>4, <2>4, <2>5, <2>6
  <2>8. lost \subseteq lost' /\ (<<a, attempt[a]>> \in lost' \/ <<a, attempt[a]>> \in TasksIn(s.conn)')
    BY <2>1
  <2> QED
    BY <1>0, <1>5, <2>2, <2>4, <2>7, <2>8, Watching
<1>7. ASSUME NEW s \in sent, Report(s) PROVE LostInv'
  <2> DEFINE k == s.request.token
  <2>1. k \in Token /\ Current(k) /\ s.request.call \in {"complete", "fail"}
    BY <1>5, <1>7, Requests DEF Report
  <2>2. k[1] \in Activity
    BY <2>1 DEF Token
  <2>3. Moved(k[1]) /\ Over(k)'
    BY <1>7, <2>1, EndsMoves DEF Report, Closes
  <2>4. \A j \in Token : /\ Over(j) => Over(j)'
                         /\ Current(j)' => Current(j) \/ j = <<k[1], attempt[k[1]]>>
    BY <2>2, <2>3, MovesOn
  <2>5. k = <<k[1], attempt[k[1]]>>
    BY <2>1 DEF Token, Current
  <2>6. PICK answer : Serve(s, answer)
    BY <1>7 DEF Report, Acted
  <2>7. Truthful(<<s.request, answer>>)'
    BY <2>1, <2>3 DEF Truthful
  <2>8. /\ \A c \in Conn : Confirmed(c)'
        /\ \A c \in Thread : TasksIn(c) \subseteq TasksIn(c)'
        /\ UNCHANGED asked
    BY <1>4, <2>4, <2>6, <2>7
  <2>9. UNCHANGED <<scheduled, pc, task, do_not_complete, holds, lost>>
    BY <1>7 DEF Report
  <2>10. \A j \in Token : Current(j)' => Current(j)
    BY <2>1, <2>4, <2>5
  <2> QED
    BY <2>8, <2>9, <2>10, Watching
<1>8. ASSUME NEW s \in sent, RecordHeartbeat(s) \/ Refuse(s) PROVE LostInv'
  <2>1. UNCHANGED <<scheduled, state, attempt, pc, task, do_not_complete, holds, lost>>
    BY <1>8 DEF RecordHeartbeat, Refuse
  <2>2. PICK answer : /\ Serve(s, answer)
                      /\ answer.kind # "ok" \/ s.request.call = "heartbeat"
    <3>1. "ok" \notin ServiceError
      BY ActivitiesAssumption DEF CADENCE_ERROR_FIELDS
    <3>2. CASE Refuse(s)
      <4>1. PICK kind \in {"error frame"} \cup ServiceError \cup {"no task"} : Serve(s, Says(kind))
        BY <3>2 DEF Refuse
      <4>2. Says(kind).kind # "ok"
        BY <3>1, <4>1 DEF Says
      <4> QED
        BY <4>1, <4>2
    <3>3. CASE RecordHeartbeat(s)
      BY <3>3 DEF RecordHeartbeat, Acted
    <3> QED
      BY <1>8, <3>2, <3>3
  <2>3. Truthful(<<s.request, answer>>)'
    BY <2>2 DEF Truthful
  <2>4. \A k : Over(k)' = Over(k) /\ Current(k)' = Current(k)
    BY <1>2, <2>1
  <2>5. /\ \A c \in Conn : Confirmed(c)'
        /\ \A c \in Thread : TasksIn(c) \subseteq TasksIn(c)'
        /\ UNCHANGED asked
    BY <1>4, <2>2, <2>3, <2>4
  <2> QED
    BY <2>1, <2>4, <2>5, Watching
<1>9. ASSUME NEW a \in Activity, RequestCancel(a) PROVE LostInv'
  <2>1. UNCHANGED <<connVars, scheduled, state, attempt, pc, task, do_not_complete, holds, lost>>
    BY <1>9 DEF RequestCancel
  <2> QED
    BY <1>2, <1>3, <2>1, Watching
<1>10. ASSUME NEW a \in Activity, TimeOutAttempt(a) PROVE LostInv'
  <2>1. PICK k \in Token : k = <<a, attempt[a]>> /\ k[1] = a /\ Current(k)
    <3>1. <<a, attempt[a]>> \in Token
      BY DEF TypeOK, Token
    <3>2. Current(<<a, attempt[a]>>)
      BY <1>10 DEF TimeOutAttempt, Current
    <3> QED
      BY <3>1, <3>2
  <2>2. Moved(a)
    <3>1. EndsAttempt(k[1], "timed out")
      BY <1>10, <2>1 DEF TimeOutAttempt
    <3>2. Moved(k[1])
      BY <2>1, <3>1, EndsMoves
    <3> QED
      BY <2>1, <3>2
  <2>3. \A j \in Token : Over(j) => Over(j)'
    BY <2>2, MovesOn
  <2>4. \A j \in Token : Current(j)' => Current(j)
    BY <2>1, <2>2, MovesOn
  <2>5. UNCHANGED <<connVars, scheduled, pc, task, do_not_complete, holds, lost>>
    BY <1>10 DEF TimeOutAttempt
  <2> QED
    BY <1>3, <2>3, <2>4, <2>5, Watching
<1>11. ASSUME NEW c \in Client, ClientCalls(c) PROVE LostInv'
  <2> DEFINE k == holds[c]
  <2>1. k \in Token /\ Current(k)
    BY <1>11 DEF ClientCalls, TypeOK
  <2>2. k[1] \in Activity /\ k = <<k[1], attempt[k[1]]>>
    BY <2>1 DEF Token, Current
  <2>3. Moved(k[1]) /\ Over(k)'
    BY <1>11, <2>1, EndsMoves DEF ClientCalls, Closes
  <2>4. \A j \in Token : Over(j) => Over(j)'
    BY <2>2, <2>3, MovesOn
  <2>5. \A j \in Token : Current(j)' => Current(j)
    BY <2>1, <2>2, <2>3, MovesOn
  <2>6. UNCHANGED <<connVars, scheduled, pc, task, do_not_complete, holds, lost>>
    BY <1>11 DEF ClientCalls
  <2> QED
    BY <1>3, <2>4, <2>5, <2>6, Watching
<1>12. ASSUME NEW c \in Client, ClientLeaves(c) PROVE LostInv'
  <2>1. UNCHANGED <<connVars, scheduled, state, attempt, pc, task, do_not_complete>>
    BY <1>12 DEF ClientLeaves
  <2>2. /\ lost \subseteq lost'
        /\ \A d \in Client : holds'[d] = holds[d] \/ holds[d] \in lost'
    BY <1>12 DEF ClientLeaves, TypeOK
  <2> QED
    BY <1>2, <1>3, <2>1, <2>2, Watching
<1>13. ASSUME NEW c \in Conn, \/ FirstByte(c) /\ UNCHANGED <<serviceVars, threadVars, holds, faults, histVars>>
                              \/ PeerGoes(c)
       PROVE  LostInv'
  <2>1. UNCHANGED <<scheduled, state, attempt, pc, task, do_not_complete, holds, asked>>
    BY <1>13 DEF PeerGoes, FirstByte, Breaks
  <2>2. lost \subseteq lost'
    BY <1>13 DEF PeerGoes
  <2>3. NoNewAnswers
    BY <1>13, ConnKeeps DEF PeerGoes
  <2>4. \A d \in Conn : Confirmed(d)'
    BY <1>1, <1>2, <2>1, <2>3, StaysConfirmed
  <2>5. ASSUME NEW d \in Thread, NEW k \in TasksIn(d) PROVE k \in TasksIn(d)' \/ k \in lost'
    <3>1. CASE FirstByte(c)
      BY <3>1 DEF FirstByte, TasksIn
    <3>2. CASE PeerGoes(c) /\ d = c
      BY <2>5, <3>2 DEF PeerGoes
    <3>3. CASE PeerGoes(c) /\ d # c
      <4>1. stream'[d] = stream[d]
        BY <1>0, <3>3 DEF PeerGoes, Breaks, ConnTypeOK
      <4> QED
        BY <2>5, <4>1 DEF TasksIn
    <3> QED
      BY <1>13, <3>1, <3>2, <3>3
  <2> QED
    BY <1>2, <2>1, <2>2, <2>4, <2>5, Watching
<1> QED
  BY <1>6, <1>7, <1>8, <1>9, <1>10, <1>11, <1>12, <1>13 DEF ServiceStep

\* A thread may leave a task that is lost, over, with a client, or no sensible one.
MayLeave(k) ==
  \/ k \in lost'
  \/ ~Current(k)
  \/ ~Sensible(scheduled[k[1]])
  \/ \E c \in Client : holds'[c] = k

\* A thread that goes on loses nothing, if it leaves its task only when it may.
LEMMA GoingOn ==
  ASSUME TypeOK, LostInv, Conn = Thread, NEW t \in Thread,
         UNCHANGED <<scheduled, state, attempt>>, lost \subseteq lost', NoNewAnswers,
         KeepsTasks({t}),
         \A k \in TasksIn(t) : k \in TasksIn(t)' \/ task'[t] = k \/ k \in lost',
         \A u \in Thread \ {t} : /\ pc'[u] = pc[u] /\ task'[u] = task[u]
                                 /\ do_not_complete'[u] = do_not_complete[u]
                                 /\ asked'[u] = asked[u],
         task[t] \in Token => task'[t] = task[t] \/ MayLeave(task[t]),
         \A c \in Client : holds[c] \in Token => holds'[c] = holds[c],
         Reports(t)', LeftWith(t)'
  PROVE  LostInv'
<1>1. \A k : Over(k)' = Over(k) /\ Current(k)' = Current(k)
  BY DEF Over, Handed, Current
<1>2. \A c \in Conn : Confirmed(c)'
  BY <1>1, StaysConfirmed DEF LostInv
<1>3. ASSUME NEW u \in Thread PROVE Reports(u)' /\ LeftWith(u)'
  <2>1. CASE u = t
    BY <2>1
  <2>2. CASE u # t
    <3>1. Reports(u) /\ LeftWith(u)
      BY DEF LostInv
    <3>2. Reports(u)'
      BY <2>2, <3>1 DEF Reports
    <3>3. LeftWith(u)'
      BY <2>2, <3>1 DEF LeftWith, TypeOK
    <3> QED
      BY <3>2, <3>3
  <2> QED
    BY <2>1, <2>2
<1>4. LostForCause'
  <2> SUFFICES ASSUME NEW k \in Token, Current(k), k \notin lost', Sensible(scheduled[k[1]])
               PROVE  Kept(k)'
    BY <1>1 DEF LostForCause, Sensible
  <2>1. Kept(k)
    BY DEF LostInv, LostForCause
  <2>2. ASSUME NEW u \in Thread, task[u] = k PROVE Kept(k)'
    BY <2>2 DEF Kept, MayLeave
  <2>3. ASSUME NEW u \in Thread, k \in TasksIn(u) PROVE Kept(k)'
    BY <2>3 DEF Kept, KeepsTasks
  <2>4. ASSUME NEW c \in Client, holds[c] = k PROVE Kept(k)'
    BY <2>4 DEF Kept
  <2> QED
    BY <2>1, <2>2, <2>3, <2>4 DEF Kept
<1> QED
  BY <1>2, <1>3, <1>4 DEF LostInv

\* What a thread hears that is no task, and takes no task from its stream.
LEMMA HearsNoTask ==
  ASSUME ConnInv, NEW t \in Conn, Return(t), NextAnswer(t).answer.kind # "task"
  PROVE  KeepsTasks({})
<1>1. stream[t] \in Seq(Arrived) /\ Len(stream[t]) = 1
  BY DEF Return, Readable, ConnInv, ConnTypeOK, OneCall
<1>2. NextAnswer(t) = stream[t][1] /\ DOMAIN stream[t] = {1}
  BY <1>1 DEF NextAnswer
<1>3. TasksIn(t) = {}
  BY <1>2 DEF TasksIn, Range
<1>4. \A c \in Conn \ {t} : stream'[c] = stream[c]
  BY DEF Return, ConnInv, ConnTypeOK
<1> QED
  BY <1>3, <1>4 DEF KeepsTasks, TasksIn

\* Nothing is a task that amounts to an error, and what amounts to "ok" is.
LEMMA Hears ==
  ASSUME NEW t
  PROVE  /\ HeardBy(t) \in {"ok", "error", "exception", "cancel requested"} =>
              NextAnswer(t).answer.kind # "task"
         /\ HeardBy(t) = "ok" => NextAnswer(t).answer.kind = "ok"
<1>1. "task" \notin CADENCE_ERROR_FIELDS
  BY DEF CADENCE_ERROR_FIELDS
<1>2. \A error : find_error(error) # "ok"
  BY DEF find_error
<1> QED
  BY <1>1, <1>2 DEF HeardBy, Heard

\* A report that is confirmed is about an attempt that is over.
LEMMA ConfirmedIsOver ==
  ASSUME ConnInv, LostInv, Conn = Thread, NEW t \in Thread, pc[t] \in {"completing", "failing"},
         Return(t), HeardBy(t) = "ok"
  PROVE  ~Current(task[t])
<1>1. Len(stream[t]) = 1 /\ stream[t][1].request = asked[t] /\ stream[t] \in Seq(Arrived)
  BY DEF Return, Readable, ConnInv, ConnTypeOK, OneCall
<1>2. 1 \in DOMAIN stream[t] /\ NextAnswer(t) = stream[t][1]
  BY <1>1 DEF NextAnswer
<1>3. stream[t][1].answer.kind = "ok"
  BY <1>2, Hears
<1>4. PICK answers : AnswersIn(t, answers) /\ \A x \in answers : Truthful(x)
  BY DEF LostInv, Confirmed
<1>5. Truthful(<<stream[t][1].request, stream[t][1].answer>>)
  BY <1>2, <1>4 DEF AnswersIn
<1>6. asked[t].call \in {"complete", "fail"} /\ asked[t].token = task[t]
  <2>1. \/ asked[t] = [call |-> "complete", token |-> task[t]]
        \/ asked[t] = [call |-> "fail", token |-> task[t]]
    BY DEF LostInv, Reports
  <2> QED
    BY <2>1
<1> QED
  BY <1>1, <1>3, <1>5, <1>6 DEF Truthful, Over

\* Threads lose nothing without cause.
LEMMA ThreadsLost ==
  ASSUME TypeOK, ConnInv, LostInv, Spelled, NEW t \in Thread,
         \/ poll_for_activity_task(t)
         \/ ThreadStep(t)
         \/ heartbeat(t)
         \/ do_not_complete_on_return(t)
         \/ CodeEnds(t)
         \/ Crash(t)
  PROVE  LostInv'
<1> USE DEF serviceVars, histVars
<1>0. Conn = Thread /\ ConnTypeOK
  BY ActivitiesAssumption DEF ConnInv
<1>1. /\ Reports(t) /\ LeftWith(t)
      /\ task[t] = NoTask <=> pc[t] \in Away
      /\ task[t] # NoTask => task[t] \in Token
      /\ NoTask \notin Token
      /\ DOMAIN pc = Thread /\ DOMAIN task = Thread /\ DOMAIN do_not_complete = Thread
      /\ DOMAIN asked = Thread /\ DOMAIN holds = Client
  BY <1>0, TokenAssumption DEF LostInv, TypeOK, ConnTypeOK
<1> DEFINE Others == \A u \in Thread \ {t} : asked'[u] = asked[u]
           Quiet == NoNewAnswers /\ KeepsTasks({}) /\ Others
           Rest == UNCHANGED <<scheduled, state, attempt, holds>> /\ lost \subseteq lost'
<1>2. ASSUME NEW place, Goto(t, place)
      PROVE  pc'[t] = place /\ \A u \in Thread \ {t} : pc'[u] = pc[u]
  BY <1>1, <1>2 DEF Goto
<1>3. ASSUME NEW place, Quiet, Rest, Goto(t, place), Stays, Reports(t)' PROVE LostInv'
  <2>1. LeftWith(t)'
    BY <1>1, <1>3 DEF Stays, LeftWith
  <2>2. /\ \A u \in Thread \ {t} : /\ pc'[u] = pc[u] /\ task'[u] = task[u]
                                   /\ do_not_complete'[u] = do_not_complete[u]
                                   /\ asked'[u] = asked[u]
        /\ task'[t] = task[t]
        /\ \A c \in Client : holds'[c] = holds[c]
    BY <1>2, <1>3 DEF Stays
  <2>3. KeepsTasks({t}) /\ \A k \in TasksIn(t) : k \in TasksIn(t)'
    BY <1>0, <1>3 DEF KeepsTasks
  <2> QED
    BY <1>0, <1>3, <2>1, <2>2, <2>3, GoingOn
<1>4. ASSUME NEW place \in Away, Quiet, Rest, Leaves(t, place), task[t] \in Token => MayLeave(task[t])
      PROVE  LostInv'
  <2>1. /\ \A u \in Thread \ {t} : /\ pc'[u] = pc[u] /\ task'[u] = task[u]
                                   /\ do_not_complete'[u] = do_not_complete[u]
                                   /\ asked'[u] = asked[u]
        /\ ~do_not_complete'[t] /\ pc'[t] = place
        /\ \A c \in Client : holds'[c] = holds[c]
    BY <1>1, <1>2, <1>4 DEF Leaves
  <2>2. LeftWith(t)' /\ Reports(t)'
    BY <2>1 DEF LeftWith, Reports, Away
  <2>3. KeepsTasks({t}) /\ \A k \in TasksIn(t) : k \in TasksIn(t)'
    BY <1>0, <1>4 DEF KeepsTasks
  <2> QED
    BY <1>0, <1>4, <2>1, <2>2, <2>3, GoingOn
<1>5. ASSUME UNCHANGED connVars PROVE Quiet
  BY <1>5 DEF connVars, NoNewAnswers, AnswersIn, KeepsTasks, TasksIn
<1>6. ASSUME NEW request, NEW has_cb, Call(t, request, has_cb) PROVE Quiet /\ asked'[t] = request
  <2>1. asked'[t] = request /\ Others
    BY <1>1, <1>6 DEF Call
  <2>2. NoNewAnswers /\ KeepsTasks({})
    BY <1>6 DEF Call, NoNewAnswers, AnswersIn, KeepsTasks, TasksIn
  <2> QED
    BY <2>1, <2>2
<1>7. ASSUME Raises(t) \/ Dies(t) \/ close(t) PROVE Quiet
  <2>1. NoNewAnswers
    BY <1>0, <1>7, ConnKeeps
  <2>2. CASE GivenUp(t)
    <3>1. Others
      BY <1>1, <2>2 DEF GivenUp
    <3>2. KeepsTasks({})
      BY <1>0, <2>2, GivenUpKeepsTasks
    <3> QED
      BY <2>1, <3>1, <3>2
  <2>3. CASE close(t)
    BY <2>1, <2>3 DEF close, KeepsTasks, TasksIn
  <2> QED
    BY <1>7, <2>2, <2>3 DEF Raises, TimesOut, RefusesToRead, EndOfStream, Dies
<1>8. ASSUME Return(t), NextAnswer(t).answer.kind # "task" PROVE Quiet
  <2>1. NoNewAnswers
    BY <1>0, <1>8, ConnKeeps
  <2>2. KeepsTasks({})
    BY <1>0, <1>8, HearsNoTask
  <2>3. Others
    BY <1>1, <1>8 DEF Return
  <2> QED
    BY <2>1, <2>2, <2>3
<1>9. ASSUME \/ CallRaises(t)
             \/ Return(t) /\ HeardBy(t) \in {"ok", "error", "exception", "cancel requested"}
      PROVE  Quiet
  BY <1>7, <1>8, <1>9, Hears DEF CallRaises
<1> HIDE DEF Quiet
<1>10. ASSUME NEW call, NEW place, Calls(t, call, place),
              place \in {"heartbeat", "completing", "failing"},
              place = "completing" => call = "complete",
              place = "failing" => call = "fail"
       PROVE  LostInv'
  <2>1. Quiet /\ asked'[t] = [call |-> call, token |-> task[t]]
    BY <1>6, <1>10 DEF Calls
  <2>2. Goto(t, place) /\ Stays /\ Rest
    BY <1>10 DEF Calls
  <2>3. pc'[t] = place /\ task'[t] = task[t]
    BY <1>2, <2>2 DEF Stays
  <2>4. Reports(t)'
    BY <1>10, <2>1, <2>3 DEF Reports
  <2> QED
    BY <1>3, <2>1, <2>2, <2>4
<1>11. ASSUME NEW place, Goto(t, place), place \notin {"completing", "failing"} PROVE Reports(t)'
  BY <1>2, <1>11 DEF Reports
<1>12. CASE poll_for_activity_task(t)
  BY <1>3, <1>6, <1>11, <1>12 DEF poll_for_activity_task
<1>13. CASE PollsNothing(t)
  <2>1. Quiet
    BY <1>7, <1>8, <1>13 DEF PollsNothing
  <2> QED
    BY <1>3, <1>11, <1>13, <2>1 DEF PollsNothing
<1>14. CASE PollsTask(t)
  <2>1. stream[t] \in Seq(Arrived) /\ Len(stream[t]) = 1
    BY <1>0, <1>14 DEF PollsTask, Return, Readable, ConnInv, ConnTypeOK, OneCall
  <2>2. NextAnswer(t) = stream[t][1] /\ DOMAIN stream[t] = {1}
    BY <2>1 DEF NextAnswer
  <2>3. task[t] = NoTask /\ ~do_not_complete[t]
    BY <1>1, <1>14 DEF PollsTask, Away, LeftWith
  <2>4. task'[t] = NextAnswer(t).answer.token /\ \A u \in Thread \ {t} : task'[u] = task[u]
    BY <1>1, <1>14 DEF PollsTask
  <2>5. \A k \in TasksIn(t) : task'[t] = k
    BY <2>2, <2>4 DEF TasksIn, Range
  <2>6. KeepsTasks({t})
    BY <1>0, <1>14 DEF PollsTask, Return, ConnTypeOK, KeepsTasks, TasksIn
  <2>7. NoNewAnswers
    BY <1>0, <1>14, ConnKeeps DEF PollsTask
  <2>8. Others
    BY <1>1, <1>14 DEF PollsTask, Return
  <2>9. UNCHANGED <<scheduled, state, attempt, do_not_complete, holds, lost>> /\ Goto(t, "dispatch")
    BY <1>14 DEF PollsTask
  <2>10. LeftWith(t)' /\ Reports(t)'
    BY <1>11, <2>3, <2>9 DEF LeftWith
  <2>11. \A u \in Thread \ {t} : /\ pc'[u] = pc[u] /\ task'[u] = task[u]
                                 /\ do_not_complete'[u] = do_not_complete[u]
                                 /\ asked'[u] = asked[u]
    BY <1>2, <2>4, <2>8, <2>9
  <2>12. task[t] \notin Token /\ \A c \in Client : holds'[c] = holds[c]
    BY <1>1, <2>3, <2>9
  <2> QED
    BY <1>0, <2>5, <2>6, <2>7, <2>9, <2>10, <2>11, <2>12, GoingOn
<1>15. CASE json_to_args_raises(t)
  <2>1. MayLeave(task[t])
    BY <1>15 DEF json_to_args_raises, MayLeave, Sensible
  <2>2. "close" \in Away
    BY DEF Away
  <2> QED
    BY <1>4, <1>5, <1>15, <2>1, <2>2 DEF json_to_args_raises
<1>16. CASE NotFound(t)
  <2>1. task[t] \in Token => MayLeave(task[t])
    <3>1. SUFFICES ASSUME task[t] \in Token, Sensible(scheduled[task[t][1]]) PROVE FALSE
      BY DEF MayLeave
    <3>2. scheduled[task[t][1]] \in Scheduled
      BY <3>1, TokensAre DEF TypeOK
    <3>3. scheduled[task[t][1]].type \in DOMAIN activities
      BY <3>1, <3>2, SensibleFound
    <3> QED
      BY <1>16, <3>3 DEF NotFound, Registered
  <2>2. "poll" \in Away
    BY DEF Away
  <2> QED
    BY <1>4, <1>5, <1>16, <2>1, <2>2 DEF NotFound
<1>17. CASE Dispatch(t)
  BY <1>3, <1>5, <1>11, <1>17 DEF Dispatch
<1>18. CASE HeartbeatRaises(t) \/ HeartbeatReturns(t)
  <2>1. PICK place \in {"running", "raising"} : Goto(t, place) /\ Stays /\ Rest
    BY <1>18 DEF HeartbeatRaises, HeartbeatReturns
  <2>2. Quiet
    <3>1. NextAnswer(t).answer.kind = "ok" => NextAnswer(t).answer.kind # "task"
      OBVIOUS
    <3>2. \/ UNCHANGED connVars
          \/ CallRaises(t)
          \/ Return(t) /\ HeardBy(t) \in {"error", "cancel requested"}
          \/ Return(t) /\ NextAnswer(t).answer.kind = "ok"
      BY <1>18 DEF HeartbeatRaises, HeartbeatReturns, NotWritten
    <3> QED
      BY <1>5, <1>8, <1>9, <3>1, <3>2
  <2> QED
    BY <1>3, <1>11, <2>1, <2>2
<1>19. CASE heartbeat(t)
  BY <1>10, <1>19 DEF heartbeat
<1>20. CASE complete(t) \/ complete_exceptionally(t)
  BY <1>10, <1>20 DEF complete, complete_exceptionally
<1>21. CASE CompleteRaises(t)
  <2>1. Quiet
    <3>1. UNCHANGED connVars \/ CallRaises(t)
      BY <1>21 DEF CompleteRaises
    <3> QED
      BY <1>5, <1>9, <3>1
  <2> QED
    BY <1>3, <1>11, <1>21, <2>1 DEF CompleteRaises, AfterComplete
<1>22. CASE ReportReturns(t)
  <2>1. Quiet
    BY <1>9, <1>22 DEF ReportReturns
  <2>2. MayLeave(task[t])
    <3>1. CASE HeardBy(t) = "error"
      BY <1>22, <3>1 DEF ReportReturns, MayLeave
    <3>2. CASE HeardBy(t) = "ok"
      <4>1. ~Current(task[t])
        BY <1>0, <1>22, <3>2, ConfirmedIsOver DEF ReportReturns
      <4> QED
        BY <4>1 DEF MayLeave
    <3> QED
      BY <1>22, <3>1, <3>2 DEF ReportReturns
  <2>3. Rest /\ Leaves(t, "poll") /\ "poll" \in Away
    BY <1>22 DEF ReportReturns, Away
  <2> QED
    BY <1>4, <2>1, <2>2, <2>3
<1>23. CASE FailRaises(t)
  <2>1. Quiet
    <3>1. UNCHANGED connVars \/ CallRaises(t)
      BY <1>23 DEF FailRaises
    <3> QED
      BY <1>5, <1>9, <3>1
  <2>2. MayLeave(task[t]) /\ Rest /\ Leaves(t, "close") /\ "close" \in Away
    BY <1>23 DEF FailRaises, MayLeave, Away
  <2> QED
    BY <1>4, <2>1, <2>2
<1>24. CASE ThreadEnds(t)
  BY <1>3, <1>7, <1>11, <1>24 DEF ThreadEnds
<1>25. CASE Crash(t)
  <2>1. Quiet
    BY <1>7, <1>25 DEF Crash
  <2>2. task[t] \in Token => MayLeave(task[t])
    BY <1>1, <1>25 DEF Crash, MayLeave
  <2>3. Rest /\ Leaves(t, "ended") /\ "ended" \in Away
    BY <1>25 DEF Crash, Away
  <2> QED
    BY <1>4, <2>1, <2>2, <2>3
<1>26. CASE CodeRaises(t)
  BY <1>3, <1>5, <1>11, <1>26 DEF CodeRaises
<1>27. CASE CodeReturns(t)
  <2>1. Quiet /\ Rest
    BY <1>5, <1>27 DEF CodeReturns
  <2>2. CASE Completes(t)
    BY <1>3, <1>11, <1>27, <2>1, <2>2 DEF CodeReturns
  <2>3. CASE ~Completes(t)
    <3>1. MayLeave(task[t])
      BY <1>1, <1>27, <2>3 DEF CodeReturns, Completes, LeftWith, MayLeave
    <3>2. Leaves(t, "poll") /\ "poll" \in Away
      BY <1>27, <2>3 DEF CodeReturns, Away
    <3> QED
      BY <1>4, <2>1, <3>1, <3>2
  <2> QED
    BY <2>2, <2>3
<1>28. CASE do_not_complete_on_return(t)
  <2>1. Quiet /\ UNCHANGED <<scheduled, state, attempt, lost, pc, task, asked>>
    BY <1>5, <1>28 DEF do_not_complete_on_return, connVars
  <2>2. PICK c \in Client : holds[c] = NoTask /\ holds' = [holds EXCEPT ![c] = task[t]]
    BY <1>28 DEF do_not_complete_on_return
  <2>3. holds'[c] = task[t] /\ \A d \in Client : holds[d] \in Token => holds'[d] = holds[d]
    BY <1>1, <2>2
  <2>4. \A u \in Thread \ {t} : do_not_complete'[u] = do_not_complete[u]
    BY <1>1, <1>28 DEF do_not_complete_on_return
  <2>5. LeftWith(t)' /\ Reports(t)'
    <3>1. task[t] # NoTask
      BY <1>1, <1>28 DEF do_not_complete_on_return, Away
    <3> QED
      BY <1>1, <2>1, <2>3, <3>1 DEF LeftWith, Reports
  <2>6. KeepsTasks({t}) /\ NoNewAnswers /\ \A k \in TasksIn(t) : k \in TasksIn(t)'
    BY <1>0, <2>1 DEF Quiet, KeepsTasks
  <2> QED
    BY <1>0, <2>1, <2>3, <2>4, <2>5, <2>6, GoingOn
<1> QED
  BY <1>12, <1>13, <1>14, <1>15, <1>16, <1>17, <1>18, <1>19, <1>20, <1>21, <1>22, <1>23, <1>24,
     <1>25, <1>26, <1>27, <1>28 DEF ThreadStep, CodeEnds

\* At first nothing is lost.
LEMMA InitLost == Init => LostInv
<1> SUFFICES ASSUME Init PROVE LostInv
  OBVIOUS
<1>0. Conn = Thread
  BY ActivitiesAssumption
<1>1. /\ state = [a \in Activity |-> "scheduled"] /\ pc = [t \in Thread |-> "poll"]
      /\ do_not_complete = [t \in Thread |-> FALSE] /\ stream = [c \in Conn |-> <<>>]
  BY DEF Init, ConnInit
<1>2. LostForCause
  BY <1>1, TokensAre DEF LostForCause, Current
<1>3. \A t \in Thread : Reports(t) /\ LeftWith(t)
  BY <1>1 DEF Reports, LeftWith
<1>4. ASSUME NEW c \in Conn PROVE Confirmed(c)
  <2>1. AnswersIn(c, {})
    BY <1>1 DEF AnswersIn
  <2> QED
    BY <2>1 DEF Confirmed
<1> QED
  BY <1>2, <1>3, <1>4 DEF LostInv

\* No step loses anything without cause.
LEMMA NextLost == TypeOK /\ ConnInv /\ LostInv /\ Spelled /\ [Next]_vars => LostInv'
<1> SUFFICES ASSUME TypeOK, ConnInv, LostInv, Spelled, [Next]_vars PROVE LostInv'
  OBVIOUS
<1>1. CASE \/ ServiceStep
           \/ \E a \in Activity : RequestCancel(a) \/ TimeOutAttempt(a)
           \/ \E c \in Client : ClientCalls(c) \/ ClientLeaves(c)
           \/ \E c \in Conn :
                \/ FirstByte(c) /\ UNCHANGED <<serviceVars, threadVars, holds, faults, histVars>>
                \/ PeerGoes(c)
  BY <1>1, ServiceLost
<1>2. CASE \E t \in Thread :
             \/ poll_for_activity_task(t)
             \/ ThreadStep(t)
             \/ heartbeat(t)
             \/ do_not_complete_on_return(t)
             \/ CodeEnds(t)
             \/ Crash(t)
  BY <1>2, ThreadsLost
<1>3. CASE UNCHANGED vars
  <2>1. /\ UNCHANGED <<scheduled, state, attempt, pc, task, do_not_complete, holds, lost>>
        /\ UNCHANGED <<asked, stream>>
    BY <1>3 DEF vars, connVars, serviceVars, threadVars, histVars
  <2>2. NoNewAnswers /\ \A c \in Thread : TasksIn(c)' = TasksIn(c)
    BY <2>1 DEF NoNewAnswers, AnswersIn, TasksIn
  <2>3. \A k : Over(k)' = Over(k) /\ Current(k)' = Current(k)
    BY <2>1 DEF Over, Handed, Current
  <2>4. \A c \in Conn : Confirmed(c)'
    BY <2>2, <2>3, StaysConfirmed DEF LostInv
  <2> QED
    BY <2>1, <2>2, <2>3, <2>4, Watching
<1> QED
  BY <1>1, <1>2, <1>3, Zenon DEF Next

-----------------------------------------------------------------------------
(* What runs *)

\* Only activities that have been found run.
FoundInv == \A k \in Token : ran[k] # "no" => Registered(k[1])

\* No step runs an activity that has not been found.
LEMMA NextFound == TypeOK /\ CauseInv /\ FoundInv /\ [Next]_vars => FoundInv'
<1> SUFFICES ASSUME TypeOK, CauseInv, FoundInv, [Next]_vars PROVE FoundInv'
  OBVIOUS
<1> USE DEF serviceVars, threadVars, histVars
<1>1. ASSUME UNCHANGED <<scheduled, ran>> PROVE FoundInv'
  BY <1>1 DEF FoundInv, Registered
<1>2. ASSUME NEW t \in Thread, UNCHANGED scheduled, NEW ending,
             ran' = [ran EXCEPT ![task[t]] = ending],
             task[t] \in Token => ran[task[t]] # "no" \/ Registered(task[t][1])
      PROVE  FoundInv'
  BY <1>2 DEF FoundInv, Registered, TypeOK
<1>3. CASE ServiceStep
  BY <1>1, <1>3 DEF ServiceStep, HandOut, Report, RecordHeartbeat, Refuse
<1>4. CASE \/ \E a \in Activity : RequestCancel(a) \/ TimeOutAttempt(a)
           \/ \E c \in Client : ClientCalls(c) \/ ClientLeaves(c)
  BY <1>1, <1>4 DEF RequestCancel, TimeOutAttempt, ClientCalls, ClientLeaves
<1>5. CASE \E c \in Conn : \/ FirstByte(c) /\ UNCHANGED <<serviceVars, threadVars, holds, faults, histVars>>
                           \/ PeerGoes(c)
  BY <1>1, <1>5 DEF PeerGoes
<1>6. ASSUME NEW t \in Thread, Dispatch(t) \/ CodeEnds(t) \/ CompleteRaises(t) PROVE FoundInv'
  <2>1. task[t] \in Token => ran[task[t]] # "no" \/ Registered(task[t][1])
    <3>1. RanSoFar(t)
      BY DEF CauseInv
    <3>2. CASE Dispatch(t)
      BY <3>2 DEF Dispatch
    <3>3. CASE CodeEnds(t)
      <4>1. pc[t] \in {"running", "raising"}
        BY <3>3 DEF CodeEnds, CodeReturns, CodeRaises
      <4> QED
        BY <3>1, <4>1 DEF RanSoFar
    <3>4. CASE CompleteRaises(t)
      <4>1. pc[t] \in {"returned", "completing"}
        BY <3>4 DEF CompleteRaises
      <4> QED
        BY <3>1, <4>1 DEF RanSoFar
    <3> QED
      BY <1>6, <3>2, <3>3, <3>4
  <2>2. UNCHANGED scheduled /\ \E ending : ran' = [ran EXCEPT ![task[t]] = ending]
    BY <1>6 DEF Dispatch, CodeEnds, CodeReturns, CodeRaises, CompleteRaises
  <2> QED
    BY <1>2, <2>1, <2>2
<1>7. ASSUME NEW t \in Thread,
             \/ poll_for_activity_task(t) \/ heartbeat(t) \/ do_not_complete_on_return(t) \/ Crash(t)
             \/ PollsNothing(t) \/ PollsTask(t) \/ json_to_args_raises(t) \/ NotFound(t)
             \/ HeartbeatRaises(t) \/ HeartbeatReturns(t) \/ complete(t) \/ ReportReturns(t)
             \/ complete_exceptionally(t) \/ FailRaises(t) \/ ThreadEnds(t)
      PROVE  FoundInv'
  <2>1. UNCHANGED <<scheduled, ran>>
    BY <1>7 DEF poll_for_activity_task, heartbeat, Calls, do_not_complete_on_return, Crash,
         PollsNothing, PollsTask, json_to_args_raises, NotFound, HeartbeatRaises, HeartbeatReturns,
         complete, ReportReturns, complete_exceptionally, FailRaises, ThreadEnds
  <2> QED
    BY <1>1, <2>1
<1>8. CASE UNCHANGED vars
  BY <1>1, <1>8 DEF vars
<1> QED
  BY <1>3, <1>4, <1>5, <1>6, <1>7, <1>8 DEF Next, ThreadStep

-----------------------------------------------------------------------------
(* Theorems *)

\* At first nothing is closed.
LEMMA InitCause == Init => CauseInv
<1> SUFFICES ASSUME Init PROVE CauseInv
  OBVIOUS
<1>1. \A t \in Thread : TasksIn(t) = {}
  BY ActivitiesAssumption DEF Init, ConnInit, TasksIn, Range
<1>2. /\ ran = [k \in Token |-> "no"] /\ task = [t \in Thread |-> NoTask]
      /\ pc = [t \in Thread |-> "poll"] /\ sent = {}
      /\ state = [a \in Activity |-> "scheduled"]
  BY DEF Init, ConnInit
<1>3. HandedOnce
  BY <1>1, <1>2, TokenAssumption DEF HandedOnce, Unseen
<1> QED
  BY <1>2, <1>3 DEF CauseInv, RanSoFar, ClosedForCause

\* Every step keeps the causes.
LEMMA NextCause == TypeOK /\ ConnInv /\ ConnInv' /\ CauseInv /\ [Next]_vars => CauseInv'
<1> SUFFICES ASSUME TypeOK, ConnInv, ConnInv', CauseInv, [Next]_vars PROVE CauseInv'
  OBVIOUS
<1>1. CASE \/ ServiceStep
           \/ \E a \in Activity : RequestCancel(a) \/ TimeOutAttempt(a)
           \/ \E c \in Client : ClientCalls(c) \/ ClientLeaves(c)
           \/ \E c \in Conn :
                \/ FirstByte(c) /\ UNCHANGED <<serviceVars, threadVars, holds, faults, histVars>>
                \/ PeerGoes(c)
  BY <1>1, ServiceCause
<1>2. CASE \E t \in Thread :
             \/ poll_for_activity_task(t)
             \/ ThreadStep(t)
             \/ heartbeat(t)
             \/ do_not_complete_on_return(t)
             \/ CodeEnds(t)
             \/ Crash(t)
  BY <1>2, ThreadsCause
<1>3. CASE UNCHANGED vars
  <2>1. UNCHANGED <<connVars, state, attempt, pc, task, ran, said>>
    BY <1>3 DEF vars, serviceVars, threadVars, histVars
  <2>2. NoNewTasks /\ NoNewRequests
    BY <2>1 DEF connVars, NoNewTasks, NoNewRequests, TasksIn
  <2>3. ClosedForCause' /\ \A k \in Token : Handed(k) => Handed(k)'
    BY <2>1 DEF CauseInv, ClosedForCause, Handed
  <2> QED
    BY <2>1, <2>2, <2>3, Onlooking, ActivitiesAssumption
<1> QED
  BY <1>1, <1>2, <1>3, Zenon DEF Next

\* Variables have their types, and a thread has a task exactly while it works on it.
THEOREM TypeCorrect == Spec => []TypeOK
  BY InitType, NextType, PTL DEF Spec

\* What a thread reads is the answer to what it has asked (connection.py:353).
THEOREM ThreadsOwnAnswer == Spec => []OwnAnswer
  BY Implements, OwnAnswerHolds, PTL

\* An activity is down as completed or failed because of what its current attempt has
\* come to (activity_loop.py:68-74).
THEOREM ForCause == Spec => []ClosedForCause
<1>1. CauseInv => ClosedForCause
  BY DEF CauseInv
<1> QED
  BY <1>1, InitType, NextType, InitCause, NextCause, PTL DEF Spec

\* An attempt that the service waits for and nobody works on has gone down with a
\* connection, a process or a report that the service would not take, if only the activity
\* has arguments and the name of a method: also after any number of calls that were given
\* up, and whoever else reports it (activity_loop.py:50-75).
THEOREM OnlyLostForCause == ASSUME Spelled PROVE Spec => []LostForCause
<1>1. LostInv => LostForCause
  BY DEF LostInv
<1>2. TypeOK /\ ConnInv /\ LostInv /\ [Next]_vars => LostInv'
  BY NextLost
<1> QED
  BY <1>1, <1>2, InitType, NextType, InitLost, PTL DEF Spec

\* The method that runs has the name that the stub has used, in either spelling, whatever
\* the implementation's other methods are called (worker.py:75-76).
THEOREM RunsWhatIsAskedFor == ASSUME Spelled PROVE Spec => []RunsTheActivity
<1>1. Init => FoundInv
  BY DEF Init, FoundInv
<1>2. FoundInv => RunsTheActivity
  BY RunsRegistered DEF FoundInv, RunsTheActivity, Registered
<1> QED
  BY <1>1, <1>2, InitType, NextType, InitCause, NextCause, NextFound, PTL DEF Spec
=============================================================================
