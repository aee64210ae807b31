---------------------------- MODULE ClientProofs ----------------------------
(***************************************************************************)
(* Proofs about Client, for any number of callers, starts and signals and  *)
(* whatever workflows and implementations there are.                       *)
(***************************************************************************)
EXTENDS Client, ConnectionProofs, FiniteSetTheorems

-----------------------------------------------------------------------------
(* Runs *)

\* What is known of every run.
RunsType ==
  \E E, H : runs \in Seq([workflow_id : 0..MaxStarts, start : 1..MaxStarts, event : E,
                          code : wm.ends \cup {NotEnded}, handled : H])

\* Runs are only added, and stay as they were once they have ended.
RunsKept ==
  /\ DOMAIN runs \subseteq DOMAIN runs'
  /\ \A r \in DOMAIN runs : /\ runs'[r].workflow_id = runs[r].workflow_id
                            /\ runs'[r].start = runs[r].start
                            /\ ~IsOpen(r) => runs'[r].event = runs[r].event

NoRunOf(n) == \A r \in DOMAIN runs : runs[r].start # n

\* Each run has a start of its own, and the workflow id that this start asks for.
RunsOwn ==
  /\ \A r \in DOMAIN runs : runs[r].workflow_id = WorkflowIdFor(runs[r].start)
  /\ \A r \in DOMAIN runs : runs[r].start \in 1..starts
  /\ \A r, q \in DOMAIN runs : runs[r].start = runs[q].start => r = q

\* There are no more of them than there are numbers.
LEMMA Pigeons ==
  ASSUME NEW list, NEW n \in Nat, NEW k \in Nat, DOMAIN list = 1..k,
         \A r \in DOMAIN list : list[r].start \in 1..n,
         \A r, q \in DOMAIN list : list[r].start = list[q].start => r = q
  PROVE  k \in 0..n
<1> DEFINE f == [r \in 1..k |-> list[r].start]
<1>2. f \in [1..k -> 1..n]
  OBVIOUS
<1>3. \A r, q \in 1..k : f[r] = f[q] => r = q
  OBVIOUS
<1>4. \A m \in Nat : IsFiniteSet(1..m) /\ Cardinality(1..m) = m
  <2>1. ASSUME NEW m \in Nat PROVE IsFiniteSet(1..m) /\ Cardinality(1..m) = m
    <3>1. 1 \in Int /\ m \in Int /\ m - 1 + 1 = m /\ (1 > m => m = 0)
      OBVIOUS
    <3> QED
      BY <3>1, FS_Interval
  <2> QED
    BY <2>1
<1>5. ~(n < k)
  <2> HIDE DEF f
  <2>1. SUFFICES ASSUME n < k PROVE FALSE
    OBVIOUS
  <2>2. /\ IsFiniteSet(1..k) /\ IsFiniteSet(1..n)
        /\ Cardinality(1..n) < Cardinality(1..k)
    BY <1>4, <2>1
  <2>3. \E r, q \in 1..k : r # q /\ f[r] = f[q]
    BY <1>2, <2>2, FS_PigeonHole
  <2> QED
    BY <1>3, <2>3
<1> QED
  BY <1>5

\* There are no more runs than starts.
LEMMA RunsBounded == ASSUME RunsType, RunsOwn, starts \in Nat PROVE Len(runs) \in 0..starts
<1>1. Len(runs) \in Nat /\ DOMAIN runs = 1..Len(runs)
  BY DEF RunsType
<1> QED
  BY <1>1, Pigeons DEF RunsOwn

\* A set of numbers that is bounded has a greatest.
LEMMA Greatest == ASSUME NEW N \in Nat, NEW S \in SUBSET (0..N), S # {}
                  PROVE  Max(S) \in S
<1> DEFINE T == {N - x : x \in S}
<1>1. T \subseteq Nat /\ T # {}
  <2>1. \A x \in S : x \in Int /\ N - x \in Nat
    OBVIOUS
  <2> QED
    BY <2>1
<1>2. PICK y \in T : \A z \in T : ~(<<z, y>> \in OpToRel(<, Nat))
  <2> HIDE DEF T
  <2> QED
    BY <1>1, WFMin, NatLessThanWellFounded
<1>3. \A z \in T : ~(z < y)
  BY <1>1, <1>2 DEF OpToRel
<1>4. PICK x \in S : y = N - x
  BY <1>2
<1>5. ASSUME NEW z \in S PROVE x >= z
  <2>1. ~(N - z < N - x)
    BY <1>3, <1>4
  <2> QED
    BY <2>1
<1> QED
  BY <1>5 DEF Max

\* The run that an execution means is there, and has its workflow id.
Known(execution) ==
  execution.run_id # NoRun =>
    /\ execution.run_id \in DOMAIN runs
    /\ runs[execution.run_id].workflow_id = execution.workflow_id

\* The service finds the run that is meant, if there is one.
LEMMA TargetIsThere ==
  ASSUME RunsType, NEW execution, Known(execution), Target(execution) # NoRun
  PROVE  /\ Target(execution) \in DOMAIN runs
         /\ runs[Target(execution)].workflow_id = execution.workflow_id
         /\ execution.run_id # NoRun => Target(execution) = execution.run_id
<1>1. CASE execution.run_id # NoRun
  BY <1>1 DEF Known, Target
<1>2. CASE execution.run_id = NoRun
  <2> DEFINE S == RunsOf(execution.workflow_id)
  <2>1. S # {} /\ Target(execution) = Max(S)
    BY <1>2 DEF Target, Latest
  <2>2. Len(runs) \in Nat /\ S \in SUBSET (0..Len(runs))
    BY DEF RunsType, RunsOf
  <2>3. Max(S) \in S
    BY <2>1, <2>2, Greatest
  <2> QED
    BY <1>2, <2>1, <2>3 DEF RunsOf
<1> QED
  BY <1>1, <1>2

-----------------------------------------------------------------------------
(* The invariant *)

\* No start of this number is under way to the service.
NotSent(n) == \A s \in sent : s.request.call = "start" => s.request.start # n

\* What is asked of the service: a start that it has not acted on has no run.
Asked(request) ==
  /\ Known(request.of)
  /\ request.call = "start" => /\ request.start \in 1..starts
                               /\ request.of.workflow_id = WorkflowIdFor(request.start)
                               /\ NoRunOf(request.start)

SentOnce ==
  \A s, x \in sent : s.request.call = "start" /\ x.request.call = "start"
                       /\ s.request.start = x.request.start => s = x

\* What an answer says is so.
IsTrue(request, answer) ==
  /\ request.call = "start" /\ answer.kind = "run" =>
       /\ answer.run \in DOMAIN runs
       /\ runs[answer.run].start = request.start
       /\ runs[answer.run].workflow_id = request.of.workflow_id
  /\ request.call = "start" /\ Heard(answer.kind) = "error" => NoRunOf(request.start)
  /\ request.call = "history" /\ answer.kind = "event" =>
       /\ answer.run \in DOMAIN runs
       /\ ~IsOpen(answer.run)
       /\ runs[answer.run].workflow_id = request.of.workflow_id
       /\ request.of.run_id = NoRun \/ answer.run = request.of.run_id

\* And stays so: a start that is answered is not acted on again.
Answered(request, answer) ==
  /\ IsTrue(request, answer)
  /\ request.call = "start" => request.start \in 1..starts /\ NotSent(request.start)

AnswersWell ==
  \A c \in Conn : \A i \in DOMAIN stream[c] : Answered(stream[c][i].request, stream[c][i].answer)

\* What a caller believes of its start.
HeardOf(n) ==
  \/ heard[n] \in {Unheard, Raised}
  \/ NotSent(n) /\ n \in 1..starts /\ heard[n] = Refused /\ NoRunOf(n)
  \/ NotSent(n) /\ heard[n] \in DOMAIN runs /\ runs[heard[n]].start = n

\* What a caller keeps, and what it waits for at each place.
CallerInv(c) ==
  /\ pc[c] \in {"idle", "starting", "wait", "waiting", "signalling", "querying"}
  /\ pc[c] \in {"idle", "wait"} <=> Idle(c)
  /\ \A execution \in {stub_execution[c], context[c], waits[c]} :
       execution \in Execution \cup {NoExecution} /\ Known(execution)
  /\ pc[c] = "starting" => asked[c].call = "start" /\ asked[c].start \in 1..starts
  /\ pc[c] = "waiting" => asked[c].call = "history" /\ asked[c].of = waits[c]
  /\ pc[c] \in {"wait", "waiting"} => waits[c] # NoExecution
  /\ LET out == outcome[c]
     IN  out # NoOutcome =>
           /\ out.run \in DOMAIN runs
           /\ ~IsOpen(out.run)
           /\ out.run = out.of.run_id \/ out.of.run_id = NoRun
           /\ runs[out.run].workflow_id = out.of.workflow_id
           /\ runs[out.run].event.kind = out.kind

Domains ==
  /\ \A f \in {pc, sync, stub_execution, context, waits, outcome} : DOMAIN f = Conn
  /\ DOMAIN heard = 1..MaxStarts
  /\ wm \in WorkflowMethod
  /\ starts \in 0..MaxStarts
  /\ signals \in 0..MaxSignals

Inv ==
  /\ ConnInv
  /\ Domains
  /\ RunsType
  /\ RunsOwn
  /\ \A s \in sent : Asked(s.request)
  /\ SentOnce
  /\ AnswersWell
  /\ \A n \in 1..MaxStarts : HeardOf(n)
  /\ \A c \in Conn : CallerInv(c)

\* At first nothing has been asked.
LEMMA InitInvariant == Init => Inv
<1> SUFFICES ASSUME Init PROVE Inv
  OBVIOUS
<1>1. ConnInv
  BY InitInv DEF Init
<1>2. Domains
  BY ClientAssumption DEF Init, Domains
<1>3. RunsType
  BY DEF Init, RunsType
<1>4. RunsOwn /\ \A n : NoRunOf(n)
  BY DEF Init, RunsOwn, NoRunOf
<1>5. (\A s \in sent : Asked(s.request)) /\ SentOnce
  BY DEF Init, ConnInit, SentOnce
<1>6. AnswersWell
  BY DEF Init, ConnInit, AnswersWell
<1>7. \A n \in 1..MaxStarts : HeardOf(n)
  BY DEF Init, HeardOf
<1>8. \A c \in Conn : CallerInv(c)
  BY DEF Init, ConnInit, CallerInv, Known, NoExecution, Idle
<1> QED
  BY <1>1, <1>2, <1>3, <1>4, <1>5, <1>6, <1>7, <1>8 DEF Inv

-----------------------------------------------------------------------------
(* What steps leave as it is *)

\* No start is new, and none is there twice.
NoNewStarts ==
  \A s, x \in sent' :
    s.request.call = "start" /\ x.request.call = "start" =>
      \E r, q \in sent : r.request = s.request /\ q.request = x.request /\ (r = q => s = x)

\* A run that is known stays known.
LEMMA KnownStays == ASSUME RunsKept, NEW execution, Known(execution) PROVE Known(execution)'
  BY DEF RunsKept, Known

\* Runs that only get on are still their starts' own.
LEMMA SameRuns ==
  ASSUME RunsOwn, RunsKept, DOMAIN runs' = DOMAIN runs, UNCHANGED <<wm, starts>>
  PROVE  RunsOwn' /\ \A n : NoRunOf(n)' = NoRunOf(n)
<1>1. \A n : WorkflowIdFor(n)' = WorkflowIdFor(n)
  BY DEF WorkflowIdFor
<1>2. \A n : NoRunOf(n)' = NoRunOf(n)
  BY DEF RunsKept, NoRunOf
<1> QED
  BY <1>1, <1>2 DEF RunsOwn, RunsKept

\* A start that is not under way does not get under way again.
LEMMA NotSentStays == ASSUME NoNewStarts, NEW n, NotSent(n) PROVE NotSent(n)'
  BY DEF NoNewStarts, NotSent

\* What has been answered stays true, as long as no start that was answered with none makes a run.
LEMMA AnsweredStays ==
  ASSUME RunsKept, NoNewStarts, UNCHANGED starts, NEW request, NEW answer,
         Answered(request, answer),
         request.call = "start" /\ NoRunOf(request.start) => NoRunOf(request.start)'
  PROVE  Answered(request, answer)'
<1>1. request.call = "start" => request.start \in 1..starts' /\ NotSent(request.start)'
  BY NotSentStays DEF Answered
<1>2. \A r \in DOMAIN runs : ~IsOpen(r) => ~IsOpen(r)'
  BY DEF RunsKept, IsOpen
<1> QED
  BY <1>1, <1>2 DEF Answered, IsTrue, RunsKept

\* The answers of a connection, as a set.
LEMMA AnswersThere ==
  ASSUME AnswersWell, NEW c \in Conn
  PROVE  \E answers : AnswersIn(c, answers) /\ \A x \in answers : Answered(x[1], x[2])
<1> DEFINE answers == {<<stream[c][i].request, stream[c][i].answer>> : i \in DOMAIN stream[c]}
<1>1. AnswersIn(c, answers)
  BY DEF AnswersIn
<1>2. ASSUME NEW x \in answers PROVE Answered(x[1], x[2])
  <2>1. PICK i \in DOMAIN stream[c] : x = <<stream[c][i].request, stream[c][i].answer>>
    OBVIOUS
  <2>2. x[1] = stream[c][i].request /\ x[2] = stream[c][i].answer
    BY <2>1
  <2> QED
    BY <2>2 DEF AnswersWell
<1> HIDE DEF answers
<1> QED
  BY <1>1, <1>2

\* Answers stay true if whatever is answered truly does.
LEMMA AnswersStay ==
  ASSUME AnswersWell, NoNewAnswers,
         \A request, answer : Answered(request, answer) => Answered(request, answer)'
  PROVE  AnswersWell'
<1>1. ASSUME NEW c \in Conn, NEW i \in DOMAIN stream'[c]
      PROVE  Answered(stream[c][i].request, stream[c][i].answer)'
  <2>1. PICK answers : AnswersIn(c, answers) /\ \A x \in answers : Answered(x[1], x[2])
    BY AnswersThere
  <2>2. <<stream'[c][i].request, stream'[c][i].answer>> \in answers
    BY <2>1 DEF NoNewAnswers, AnswersIn
  <2>3. Answered(stream'[c][i].request, stream'[c][i].answer)
    BY <2>1, <2>2
  <2>4. PICK request, answer : request = stream'[c][i].request /\ answer = stream'[c][i].answer
    OBVIOUS
  <2>5. Answered(request, answer)'
    BY <2>3, <2>4
  <2> QED
    BY <2>4, <2>5
<1> QED
  BY <1>1 DEF AnswersWell

\* A caller that does nothing keeps what it knows.
LEMMA CallerStays ==
  ASSUME NEW c \in Conn, CallerInv(c), RunsKept, \A n \in 1..starts : n \in 1..starts',
         pc'[c] = pc[c], asked'[c] = asked[c], stub_execution'[c] = stub_execution[c],
         context'[c] = context[c], waits'[c] = waits[c], outcome'[c] = outcome[c]
  PROVE  CallerInv(c)'
<1>1. \A execution : Known(execution) => Known(execution)'
  BY KnownStays
<1>2. \A r \in DOMAIN runs : ~IsOpen(r) => ~IsOpen(r)' /\ runs'[r].event = runs[r].event
  BY DEF RunsKept, IsOpen
<1> QED
  BY <1>1, <1>2 DEF CallerInv, RunsKept, Idle

\* So does what each start has come to.
LEMMA HeardStays ==
  ASSUME NEW n, HeardOf(n), heard'[n] = heard[n], RunsKept, \A m \in 1..starts : m \in 1..starts',
         NotSent(n) => NotSent(n)',
         NotSent(n) /\ NoRunOf(n) => NoRunOf(n)'
  PROVE  HeardOf(n)'
  BY DEF HeardOf, RunsKept

\* Steps that make no run and ask for none.
LEMMA Onward ==
  ASSUME Inv, ConnInv', Domains', RunsType', RunsKept, DOMAIN runs' = DOMAIN runs,
         UNCHANGED <<wm, starts>>, NoNewStarts, \A s \in sent' : Known(s.request.of)',
         AnswersWell',
         \A n \in 1..MaxStarts : heard'[n] = heard[n] \/ HeardOf(n)',
         \A c \in Conn :
           \/ CallerInv(c)'
           \/ /\ pc'[c] = pc[c] /\ asked'[c] = asked[c] /\ stub_execution'[c] = stub_execution[c]
              /\ context'[c] = context[c] /\ waits'[c] = waits[c] /\ outcome'[c] = outcome[c]
  PROVE  Inv'
<1>1. RunsOwn' /\ \A n : NoRunOf(n)' = NoRunOf(n)
  BY SameRuns DEF Inv
<1>2. \A n : WorkflowIdFor(n)' = WorkflowIdFor(n)
  BY DEF WorkflowIdFor
<1>3. ASSUME NEW s \in sent' PROVE Asked(s.request)'
  <2>1. CASE s.request.call = "start"
    <3>1. PICK r \in sent : r.request = s.request
      BY <2>1 DEF NoNewStarts
    <3>2. Asked(s.request)
      BY <3>1 DEF Inv
    <3>3. Known(s.request.of)'
      BY <1>3
    <3> QED
      BY <1>1, <1>2, <2>1, <3>2, <3>3 DEF Asked
  <2>2. CASE s.request.call # "start"
    BY <1>3, <2>2 DEF Asked
  <2> QED
    BY <2>1, <2>2
<1>4. SentOnce'
  BY DEF Inv, SentOnce, NoNewStarts
<1>5. ASSUME NEW n \in 1..MaxStarts PROVE HeardOf(n)'
  <2>1. CASE heard'[n] = heard[n]
    BY <1>1, <2>1, NotSentStays, HeardStays DEF Inv
  <2> QED
    BY <2>1
<1>6. \A c \in Conn : CallerInv(c)'
  BY CallerStays DEF Inv
<1> QED
  BY <1>1, <1>3, <1>4, <1>5, <1>6 DEF Inv

\* Where no request is new, all that is asked for is known.
LEMMA NoRequests == ASSUME Inv, RunsKept, NoNewRequests
                    PROVE  NoNewStarts /\ \A s \in sent' : Known(s.request.of)'
<1>1. NoNewStarts
  BY DEF NoNewRequests, NoNewStarts
<1>2. ASSUME NEW s \in sent' PROVE Known(s.request.of)'
  <2>1. PICK r \in sent : r.request = s.request
    BY DEF NoNewRequests
  <2>2. Known(s.request.of)
    BY <2>1 DEF Inv, Asked
  <2> QED
    BY <2>2, KnownStays
<1> QED
  BY <1>1, <1>2

\* Where runs only get on, answers stay true.
LEMMA SameAnswers ==
  ASSUME Inv, RunsKept, DOMAIN runs' = DOMAIN runs, UNCHANGED <<wm, starts>>, NoNewStarts
  PROVE  \A request, answer : Answered(request, answer) => Answered(request, answer)'
  BY AnsweredStays, SameRuns DEF Inv

-----------------------------------------------------------------------------
(* The service *)

\* What the service answers to a request joins the other answers if it is so.
LEMMA AnswersServed ==
  ASSUME Inv, NEW s \in sent, NEW answer, Serve(s, answer), UNCHANGED starts,
         \A x, y : Answered(x, y) /\ x # s.request => Answered(x, y)',
         s.request.call # "start" => \A y : Answered(s.request, y) => Answered(s.request, y)',
         IsTrue(s.request, answer)'
  PROVE  AnswersWell'
<1>1. /\ s.conn \in Conn
      /\ sent' = sent \ {s}
      /\ \A c \in Conn \ {s.conn} : stream'[c] = stream[c]
      /\ \A answers : AnswersIn(s.conn, answers) =>
           AnswersIn(s.conn, answers \cup {<<s.request, answer>>})'
  BY ServeKeeps DEF Inv, ConnInv
<1>2. Answered(s.request, answer)'
  BY <1>1 DEF Inv, Answered, Asked, SentOnce, NotSent
<1>3. \A x, y : Answered(x, y) => Answered(x, y)'
  <2>1. s.request.call = "start" => \A y : ~Answered(s.request, y)
    BY DEF Answered, NotSent
  <2> QED
    BY <2>1
<1>4. ASSUME NEW c \in Conn, NEW i \in DOMAIN stream'[c]
      PROVE  Answered(stream[c][i].request, stream[c][i].answer)'
  <2>1. PICK request, a : request = stream'[c][i].request /\ a = stream'[c][i].answer
    OBVIOUS
  <2>2. CASE c # s.conn
    <3>1. Answered(request, a)
      BY <1>1, <2>1, <2>2 DEF Inv, AnswersWell
    <3>2. Answered(request, a)'
      BY <1>3, <3>1
    <3> QED
      BY <2>1, <3>2
  <2>3. CASE c = s.conn
    <3>1. PICK answers : AnswersIn(c, answers) /\ \A x \in answers : Answered(x[1], x[2])
      BY AnswersThere DEF Inv
    <3>2. <<request, a>> \in answers \cup {<<s.request, answer>>}
      BY <1>1, <2>1, <2>3, <3>1 DEF AnswersIn
    <3>3. Answered(request, a)'
      BY <1>2, <1>3, <3>1, <3>2
    <3> QED
      BY <2>1, <3>3
  <2> QED
    BY <2>2, <2>3
<1> QED
  BY <1>4 DEF AnswersWell

\* Whoever is not the service's caller stays where it is.
StayPut == UNCHANGED <<wm, callerVars, starts, signals, histVars>>

\* A request that is served without making a run.
LEMMA Serving ==
  ASSUME Inv, ConnInv', NEW s \in sent, NEW answer, Serve(s, answer), StayPut,
         RunsType', RunsKept, DOMAIN runs' = DOMAIN runs, IsTrue(s.request, answer)'
  PROVE  Inv'
<1> USE DEF StayPut, callerVars, histVars
<1>1. sent' = sent \ {s} /\ asked' = asked
  BY ServeKeeps DEF Inv, ConnInv, Serve
<1>2. NoNewRequests
  BY <1>1 DEF NoNewRequests
<1>3. NoNewStarts /\ \A x \in sent' : Known(x.request.of)'
  BY <1>2, NoRequests
<1>4. AnswersWell'
  BY <1>3, SameAnswers, AnswersServed
<1>5. Domains'
  BY DEF Inv, Domains
<1> QED
  BY <1>1, <1>3, <1>4, <1>5, Onward

\* Fields that a run keeps.
LEMMA ChangesRun ==
  ASSUME RunsType, NEW r \in DOMAIN runs, NEW run, runs' = [runs EXCEPT ![r] = run], UNCHANGED wm,
         run = [workflow_id |-> runs[r].workflow_id, start |-> runs[r].start, event |-> run.event,
                code |-> run.code, handled |-> run.handled],
         run.code \in wm.ends \cup {NotEnded}, IsOpen(r)
  PROVE  RunsType' /\ RunsKept /\ DOMAIN runs' = DOMAIN runs
<1>1. PICK E, H : runs \in Seq([workflow_id : 0..MaxStarts, start : 1..MaxStarts, event : E,
                                code : wm.ends \cup {NotEnded}, handled : H])
  BY DEF RunsType
<1> DEFINE EE == E \cup {run.event}
<1> DEFINE HH == H \cup {run.handled}
<1> DEFINE R == [workflow_id : 0..MaxStarts, start : 1..MaxStarts, event : EE,
                 code : wm.ends \cup {NotEnded}, handled : HH]
<1>2. /\ Len(runs) \in Nat /\ DOMAIN runs = 1..Len(runs)
      /\ \A q \in DOMAIN runs : runs[q] \in R
  <2> DEFINE Q == [workflow_id : 0..MaxStarts, start : 1..MaxStarts, event : E,
                   code : wm.ends \cup {NotEnded}, handled : H]
  <2>1. \A x \in Q : x \in R
    OBVIOUS
  <2>2. runs \in Seq(Q)
    BY <1>1
  <2> HIDE DEF Q, R
  <2> QED
    BY <2>1, <2>2
<1>3. run \in R
  BY <1>2
<1>4. runs' \in [1..Len(runs) -> R]
  <2> HIDE DEF R
  <2> QED
    BY <1>2, <1>3
<1>5. runs' \in Seq(R)
  <2> HIDE DEF R
  <2> QED
    BY <1>2, <1>4, IsASeq
<1>6. RunsType'
  <2>1. wm'.ends = wm.ends
    OBVIOUS
  <2> QED
    BY <1>5, <2>1 DEF RunsType
<1>7. \A q \in DOMAIN runs : /\ runs'[q].workflow_id = runs[q].workflow_id
                             /\ runs'[q].start = runs[q].start
                             /\ q # r => runs'[q] = runs[q]
  <2>1. runs'[r] = run
    BY <1>2
  <2>2. \A q \in DOMAIN runs \ {r} : runs'[q] = runs[q]
    BY <1>2
  <2>3. run.workflow_id = runs[r].workflow_id /\ run.start = runs[r].start
    BY <1>2
  <2> QED
    BY <2>1, <2>2, <2>3
<1> QED
  BY <1>2, <1>4, <1>6, <1>7 DEF RunsKept

\* A start that is acted on makes a run, which is its own.
LEMMA NewRun ==
  ASSUME Inv, NEW s \in sent, s.request.call = "start", UNCHANGED <<wm, starts>>,
         runs' = Append(runs, [workflow_id |-> s.request.of.workflow_id,
                               start |-> s.request.start, event |-> NoEvent,
                               code |-> NotEnded, handled |-> {}])
  PROVE  /\ RunsType' /\ RunsOwn' /\ RunsKept
         /\ Len(runs) + 1 \in 0..MaxStarts
         /\ Len(runs) + 1 \in DOMAIN runs'
         /\ runs'[Len(runs) + 1].start = s.request.start
         /\ runs'[Len(runs) + 1].workflow_id = s.request.of.workflow_id
         /\ \A n : NoRunOf(n) /\ n # s.request.start => NoRunOf(n)'
<1> DEFINE run == [workflow_id |-> s.request.of.workflow_id, start |-> s.request.start,
                   event |-> NoEvent, code |-> NotEnded, handled |-> {}]
<1>1. PICK E, H : runs \in Seq([workflow_id : 0..MaxStarts, start : 1..MaxStarts, event : E,
                                code : wm.ends \cup {NotEnded}, handled : H])
  BY DEF Inv, RunsType
<1> DEFINE Q == [workflow_id : 0..MaxStarts, start : 1..MaxStarts, event : E,
                 code : wm.ends \cup {NotEnded}, handled : H]
<1> DEFINE R == [workflow_id : 0..MaxStarts, start : 1..MaxStarts, event : E \cup {NoEvent},
                 code : wm.ends \cup {NotEnded}, handled : H \cup {{}}]
<1>2. /\ s.request.start \in 1..starts
      /\ s.request.of.workflow_id = WorkflowIdFor(s.request.start)
      /\ NoRunOf(s.request.start)
      /\ starts \in 0..MaxStarts /\ MaxStarts \in Nat
  BY ClientAssumption DEF Inv, Asked, Domains
<1>3. WorkflowIdFor(s.request.start) \in 0..MaxStarts
  BY <1>2 DEF WorkflowIdFor, TheId
<1>4. run \in R
  BY <1>2, <1>3
<1>5. runs \in Seq(R)
  <2>1. \A x \in Q : x \in R
    OBVIOUS
  <2>2. runs \in Seq(Q)
    BY <1>1
  <2> HIDE DEF Q, R
  <2> QED
    BY <2>1, <2>2, SeqMonotonic
<1>6. runs' = Append(runs, run)
  OBVIOUS
<1>7. /\ run.start = s.request.start /\ run.workflow_id = s.request.of.workflow_id
  OBVIOUS
<1>8. /\ runs' \in Seq(R)
      /\ Len(runs) \in Nat /\ DOMAIN runs = 1..Len(runs) /\ DOMAIN runs' = 1..(Len(runs) + 1)
      /\ \A r \in DOMAIN runs : runs'[r] = runs[r]
      /\ runs'[Len(runs) + 1] = run
  <2> HIDE DEF R, run
  <2> QED
    BY <1>4, <1>5, <1>6
<1>9. RunsType'
  <2>1. wm'.ends = wm.ends
    OBVIOUS
  <2> QED
    BY <1>8, <2>1 DEF RunsType
<1>10. \A n : WorkflowIdFor(n)' = WorkflowIdFor(n)
  BY DEF WorkflowIdFor
<1> HIDE DEF R, Q, run
<1>11. RunsKept
  BY <1>8 DEF RunsKept
<1>12. RunsOwn'
  <2>1. \A r \in DOMAIN runs' : r \in DOMAIN runs \/ r = Len(runs) + 1
    BY <1>8
  <2>2. \A r \in DOMAIN runs : r # Len(runs) + 1 /\ runs[r].start # s.request.start
    BY <1>2, <1>8 DEF NoRunOf
  <2>3. \A r \in DOMAIN runs' : runs'[r].workflow_id = WorkflowIdFor(runs[r].start)'
    BY <1>2, <1>7, <1>8, <1>10, <2>1 DEF Inv, RunsOwn
  <2>4. \A r \in DOMAIN runs' : runs'[r].start \in 1..starts'
    BY <1>2, <1>7, <1>8, <2>1 DEF Inv, RunsOwn
  <2>5. \A r, q \in DOMAIN runs' : runs'[r].start = runs'[q].start => r = q
    BY <1>7, <1>8, <2>1, <2>2 DEF Inv, RunsOwn
  <2> QED
    BY <2>3, <2>4, <2>5 DEF RunsOwn
<1>13. Len(runs) + 1 \in 0..MaxStarts
  <2>1. Len(runs) + 1 \in 0..starts'
    <3>1. starts' \in Nat /\ Len(runs) + 1 \in Nat
      BY <1>2, <1>8
    <3> QED
      BY <1>8, <1>12, <3>1, Pigeons, Zenon DEF RunsOwn
  <2> QED
    BY <1>2, <2>1
<1>14. ASSUME NEW n, NoRunOf(n), n # s.request.start PROVE NoRunOf(n)'
  BY <1>7, <1>8, <1>14 DEF NoRunOf
<1> QED
  BY <1>7, <1>8, <1>9, <1>11, <1>12, <1>13, <1>14

-----------------------------------------------------------------------------
(* Connections *)

\* The requests of Client are some of the connection's.
LEMMA Requests ==
  ASSUME Inv
  PROVE  /\ \A n \in 1..MaxStarts :
              [call |-> "start", of |-> [workflow_id |-> WorkflowIdFor(n), run_id |-> NoRun],
               start |-> n] \in Request
         /\ \A execution \in Execution, call \in {"history", "signal", "query"} :
              [call |-> call, of |-> execution, start |-> 0] \in Request
<1>1. 0 \in 0..MaxStarts /\ \A n \in 1..MaxStarts : n \in 0..MaxStarts
  BY ClientAssumption
<1>2. \A n \in 1..MaxStarts : WorkflowIdFor(n) \in 0..MaxStarts
  BY <1>1 DEF WorkflowIdFor, TheId
<1>3. \A n \in 1..MaxStarts : [workflow_id |-> WorkflowIdFor(n), run_id |-> NoRun] \in Execution
  BY <1>1, <1>2 DEF Execution, NoRun
<1> QED
  BY <1>1, <1>3, MessageAssumption DEF ClientRequest

\* And so are its answers.
LEMMA Answers ==
  \A kind \in {"ok", "run", "empty", "event", "error frame"} \cup CADENCE_ERROR_FIELDS,
     r \in 0..MaxStarts : Says(kind, r) \in Answer
  BY MessageAssumption DEF ClientAnswer, Says

\* A run's id is a number that Client counts with.
LEMMA RunIds ==
  ASSUME Inv PROVE NoRun \in 0..MaxStarts /\ \A r \in DOMAIN runs : r \in 0..MaxStarts
<1>1. starts \in 0..MaxStarts /\ starts \in Nat /\ MaxStarts \in Nat
  BY ClientAssumption DEF Inv, Domains
<1>2. DOMAIN runs = 1..Len(runs)
  BY DEF Inv, RunsType
<1>3. Len(runs) \in 0..starts
  BY <1>1, RunsBounded DEF Inv
<1> QED
  BY <1>1, <1>2, <1>3 DEF NoRun

\* Whatever a caller or the service does, their connections see it as one of their steps.
LEMMA ConnStep == Inv /\ [Next]_vars => [ConnNext]_connVars
<1> SUFFICES ASSUME Inv, [Next]_vars PROVE [ConnNext]_connVars
  OBVIOUS
<1>1. ASSUME NEW s \in sent, NEW r \in 0..MaxStarts,
             NEW kind \in {"ok", "run", "empty", "event", "error frame"} \cup CADENCE_ERROR_FIELDS,
             Serve(s, Says(kind, r))
      PROVE  ConnNext
  BY <1>1, Answers DEF ConnNext
<1>2. \A s \in sent : Target(s.request.of) # NoRun => Target(s.request.of) \in 0..MaxStarts
  BY TargetIsThere, RunIds DEF Inv, Asked
<1>3. {"queryFailedError", "sessionAlreadyExistError"} \cup ServiceError \subseteq CADENCE_ERROR_FIELDS
  BY ClientAssumption DEF CADENCE_ERROR_FIELDS
<1>4. NoRun \in 0..MaxStarts
  BY RunIds
<1>5. ASSUME NEW s \in sent, ServeStart(s) PROVE ConnNext
  <2>1. CASE MayStart(s.request.of.workflow_id)
    <3>1. Len(runs) + 1 \in 0..MaxStarts
      BY <1>5, <2>1, NewRun DEF ServeStart
    <3> QED
      BY <1>1, <1>4, <1>5, <2>1, <3>1 DEF ServeStart, Acted
  <2>2. CASE ~MayStart(s.request.of.workflow_id)
    BY <1>1, <1>3, <1>4, <1>5, <2>2 DEF ServeStart
  <2> QED
    BY <2>1, <2>2
<1>6. ASSUME NEW s \in sent, ServeHistory(s) PROVE ConnNext
  BY <1>1, <1>2, <1>4, <1>6 DEF ServeHistory, Acted
<1>7. ASSUME NEW s \in sent, ServeSignal(s) PROVE ConnNext
  BY <1>1, <1>2, <1>4, <1>7 DEF ServeSignal, Acted
<1>8. ASSUME NEW s \in sent, ServeQuery(s) PROVE ConnNext
  BY <1>1, <1>2, <1>3, <1>4, <1>8 DEF ServeQuery, Acted
<1>9. ASSUME NEW s \in sent, Refuse(s) PROVE ConnNext
  BY <1>1, <1>3, <1>4, <1>9 DEF Refuse
<1>10. ASSUME NEW r \in DOMAIN runs, workflow_main(r) \/ TypeNotFound(r) \/ EndsOtherwise(r)
       PROVE  UNCHANGED connVars
  BY <1>10 DEF workflow_main, TypeNotFound, EndsOtherwise
<1>11. ASSUME NEW c \in Conn, NEW request \in Request, NEW has_cb \in BOOLEAN,
              Call(c, request, has_cb)
       PROVE  ConnNext
  BY <1>11 DEF ConnNext
<1>12. ASSUME NEW c \in Conn, NEW execution \in Execution,
              NEW call \in {"history", "signal", "query"},
              Call(c, [call |-> call, of |-> execution, start |-> 0], FALSE)
       PROVE  ConnNext
  BY <1>11, <1>12, Requests
<1>13. ASSUME NEW c \in Conn, CallerStep(c) PROVE [ConnNext]_connVars
  <2>1. CASE ExecReturns(c)
    BY <2>1 DEF ExecReturns, ConnNext
  <2>2. CASE ExecRaises(c)
    BY <2>2 DEF ExecRaises, ConnNext
  <2>3. CASE get_workflow_execution_history(c)
    <3>1. waits[c] \in Execution
      BY <2>3 DEF get_workflow_execution_history, Inv, CallerInv
    <3> QED
      BY <1>12, <2>3, <3>1 DEF get_workflow_execution_history, WaitedFor
  <2>4. CASE WaitsOn(c) \/ WaitEnds(c)
    BY <2>4 DEF WaitsOn, WaitEnds, ConnNext
  <2>5. CASE WaitRaises(c)
    BY <2>5 DEF WaitRaises, CallRaises, ConnNext
  <2>6. CASE ExecEnds(c)
    BY <2>6 DEF ExecEnds, ConnNext
  <2> QED
    BY <1>13, <2>1, <2>2, <2>3, <2>4, <2>5, <2>6 DEF CallerStep
<1>14. ASSUME NEW c \in Conn, exec_workflow(c) PROVE ConnNext
  <2>1. starts + 1 \in 1..MaxStarts
    BY <1>14, ClientAssumption DEF exec_workflow, Inv, Domains
  <2> QED
    BY <1>11, <1>14, <2>1, Requests DEF exec_workflow
<1>15. ASSUME NEW c \in Conn, exec_signal(c) \/ exec_query(c) PROVE ConnNext
  <2>1. stub_execution[c] \in Execution
    BY <1>15 DEF exec_signal, exec_query, Inv, CallerInv
  <2> QED
    BY <1>12, <1>15, <2>1 DEF exec_signal, exec_query
<1>16. ASSUME NEW c \in Conn, wait_for_close(c) \/ new_workflow_stub_from_workflow_id(c)
       PROVE  UNCHANGED connVars
  BY <1>16 DEF wait_for_close, new_workflow_stub_from_workflow_id
<1>17. ASSUME NEW c \in Conn, PeerGoes(c) PROVE ConnNext
  BY <1>17 DEF PeerGoes, ConnNext
<1>18. CASE UNCHANGED vars
  BY <1>18 DEF vars
<1> QED
  BY <1>5, <1>6, <1>7, <1>8, <1>9, <1>10, <1>13, <1>14, <1>15, <1>16, <1>17, <1>18 DEF Next

-----------------------------------------------------------------------------
(* The service's steps *)

\* Where runs stay as they are.
LEMMA RunsUnchanged == ASSUME UNCHANGED <<wm, runs>>
                       PROVE  RunsKept /\ (RunsType => RunsType') /\ \A r : IsOpen(r)' = IsOpen(r)
  BY DEF RunsKept, RunsType, IsOpen

\* Kinds of answers that tell nothing of a start or of an end.
Silent(kind) == kind # "run" /\ kind # "event"

\* Only a start answers with a run, and only a history with an event.
LEMMA NotEvents ==
  /\ \A kind \in {"error frame", "queryFailedError", "sessionAlreadyExistError", "ok", "empty"}
                   \cup ServiceError : Silent(kind)
  /\ Heard("error frame") = "exception" /\ Heard("run") = "run"
<1>1. \A kind \in CADENCE_ERROR_FIELDS : Silent(kind)
  BY DEF CADENCE_ERROR_FIELDS, Silent
<1>2. \A kind \in ServiceError : Silent(kind)
  BY <1>1, ClientAssumption
<1>3. "run" \notin CADENCE_ERROR_FIELDS
  BY <1>1 DEF Silent
<1>4. \A kind \in {"error frame", "queryFailedError", "sessionAlreadyExistError", "ok", "empty"} :
        Silent(kind)
  BY DEF Silent
<1>5. Heard("error frame") = "exception"
  BY DEF Heard
<1>6. Heard("run") = "run"
  BY <1>3 DEF Heard
<1> QED
  BY <1>2, <1>4, <1>5, <1>6

\* The service acts on a start, or refuses it.
LEMMA ServeStartInv ==
  ASSUME Inv, ConnInv', NEW s \in sent, ServeStart(s) PROVE Inv'
<1> USE DEF callerVars, histVars, Says
<1>1. CASE MayStart(s.request.of.workflow_id)
  <2>1. /\ s.request.call = "start"
        /\ UNCHANGED <<wm, callerVars, starts, signals, histVars>>
        /\ runs' = Append(runs, [workflow_id |-> s.request.of.workflow_id,
                                 start |-> s.request.start, event |-> NoEvent,
                                 code |-> NotEnded, handled |-> {}])
    BY <1>1 DEF ServeStart
  <2>2. /\ RunsType' /\ RunsOwn' /\ RunsKept
        /\ Len(runs) + 1 \in DOMAIN runs'
        /\ runs'[Len(runs) + 1].start = s.request.start
        /\ runs'[Len(runs) + 1].workflow_id = s.request.of.workflow_id
        /\ \A n : NoRunOf(n) /\ n # s.request.start => NoRunOf(n)'
    BY <2>1, NewRun
  <2>3. PICK answer : /\ Serve(s, answer)
                      /\ answer \in {Says("run", Len(runs) + 1), Says("error frame", NoRun)}
    BY <1>1 DEF ServeStart, Acted
  <2>4. sent' = sent \ {s} /\ asked' = asked
    BY <2>3, ServeKeeps DEF Inv, ConnInv, Serve
  <2>5. NoNewRequests /\ NoNewStarts
    BY <2>4 DEF NoNewRequests, NoNewStarts
  <2>6. \A n : NotSent(n) => NotSent(n)' /\ n # s.request.start
    BY <2>1, <2>4 DEF NotSent
  <2>7. ASSUME NEW x, NEW y, Answered(x, y), x # s.request PROVE Answered(x, y)'
    <3>1. x.call = "start" => x.start # s.request.start
      BY <2>6, <2>7 DEF Answered
    <3> QED
      BY <2>1, <2>2, <2>5, <2>7, <3>1, AnsweredStays
  <2>8. IsTrue(s.request, answer)'
    <3>1. CASE answer = Says("run", Len(runs) + 1)
      <4>1. answer.kind = "run" /\ answer.run = Len(runs) + 1 /\ Heard(answer.kind) = "run"
        BY <3>1, NotEvents
      <4> QED
        BY <2>1, <2>2, <4>1 DEF IsTrue
    <3>2. CASE answer = Says("error frame", NoRun)
      <4>1. answer.kind = "error frame" /\ Heard(answer.kind) = "exception"
        BY <3>2, NotEvents
      <4> QED
        BY <2>1, <4>1 DEF IsTrue
    <3> QED
      BY <2>3, <3>1, <3>2
  <2>9. AnswersWell'
    BY <2>1, <2>3, <2>7, <2>8, AnswersServed
  <2>10. \A n : WorkflowIdFor(n)' = WorkflowIdFor(n)
    BY <2>1 DEF WorkflowIdFor
  <2>11. ASSUME NEW x \in sent' PROVE Asked(x.request)'
    <3>1. Known(x.request.of)'
      BY <2>2, <2>5, <2>11, NoRequests
    <3>2. x.request.call = "start" => x.request.start # s.request.start
      BY <2>1, <2>4, <2>11 DEF Inv, SentOnce
    <3> QED
      BY <2>1, <2>2, <2>4, <2>10, <2>11, <3>1, <3>2 DEF Inv, Asked
  <2>12. SentOnce'
    BY <2>4 DEF Inv, SentOnce
  <2>13. \A n \in 1..MaxStarts : HeardOf(n)'
    BY <2>1, <2>2, <2>6, HeardStays DEF Inv
  <2>14. \A c \in Conn : CallerInv(c)'
    BY <2>1, <2>2, <2>4, CallerStays DEF Inv
  <2>15. Domains'
    BY <2>1 DEF Inv, Domains
  <2> QED
    BY <2>2, <2>9, <2>11, <2>12, <2>13, <2>14, <2>15 DEF Inv
<1>2. CASE ~MayStart(s.request.of.workflow_id)
  <2>1. /\ Serve(s, Says("sessionAlreadyExistError", NoRun)) /\ UNCHANGED runs /\ StayPut
        /\ s.request.call = "start"
    BY <1>2 DEF ServeStart, StayPut
  <2>2. NoRunOf(s.request.start)'
    BY <2>1 DEF Inv, Asked, NoRunOf
  <2>3. IsTrue(s.request, Says("sessionAlreadyExistError", NoRun))'
    BY <2>1, <2>2 DEF IsTrue
  <2>4. RunsKept /\ RunsType'
    BY <2>1, RunsUnchanged DEF Inv, StayPut
  <2> QED
    BY <2>1, <2>3, <2>4, Serving
<1> QED
  BY <1>1, <1>2

\* An answer that tells nothing of a start or of an end.
LEMMA TellsNothing ==
  ASSUME Inv, NEW request, NEW kind, Silent(kind), NEW r, UNCHANGED <<wm, runs>>,
         request.call = "start" => NoRunOf(request.start)
  PROVE  IsTrue(request, Says(kind, r))'
  BY DEF IsTrue, NoRunOf, Says, Silent

\* The service answers and does nothing else.
LEMMA ServesInv ==
  ASSUME Inv, ConnInv', NEW s \in sent, ServeHistory(s) \/ ServeQuery(s) \/ Refuse(s)
  PROVE  Inv'
<1>1. /\ UNCHANGED runs /\ StayPut /\ UNCHANGED wm
      /\ RunsKept /\ RunsType'
  BY RunsUnchanged DEF ServeHistory, ServeQuery, Refuse, StayPut, Inv
<1>2. PICK kind, r : /\ Serve(s, Says(kind, r))
                     /\ \/ Silent(kind)
                        \/ /\ s.request.call = "history" /\ kind = "event"
                           /\ r = Target(s.request.of) /\ r # NoRun /\ ~IsOpen(r)
  <2>1. CASE ServeHistory(s)
    BY <2>1, NotEvents DEF ServeHistory, Acted
  <2>2. CASE ServeQuery(s)
    BY <2>2, NotEvents DEF ServeQuery, Acted
  <2>3. CASE Refuse(s)
    BY <2>3, NotEvents DEF Refuse
  <2> QED
    BY <2>1, <2>2, <2>3
<1>3. Known(s.request.of) /\ (s.request.call = "start" => NoRunOf(s.request.start))
  BY DEF Inv, Asked
<1>4. IsTrue(s.request, Says(kind, r))'
  <2>1. CASE Silent(kind)
    BY <1>1, <1>3, <2>1, TellsNothing
  <2>2. CASE /\ s.request.call = "history" /\ kind = "event"
             /\ r = Target(s.request.of) /\ r # NoRun /\ ~IsOpen(r)
    <3>1. /\ r \in DOMAIN runs
          /\ runs[r].workflow_id = s.request.of.workflow_id
          /\ s.request.of.run_id # NoRun => r = s.request.of.run_id
      BY <1>3, <2>2, TargetIsThere DEF Inv
    <3> QED
      BY <1>1, <2>2, <3>1 DEF IsTrue, Says, IsOpen
  <2> QED
    BY <1>2, <2>1, <2>2
<1> QED
  BY <1>1, <1>2, <1>4, Serving

\* A run, which is written out by its fields.
Whole(run) ==
  run = [workflow_id |-> run.workflow_id, start |-> run.start, event |-> run.event,
         code |-> run.code, handled |-> run.handled]

\* What a change of one field leaves of a run.
LEMMA Changed ==
  ASSUME NEW run, Whole(run), NEW x
  PROVE  /\ Whole([run EXCEPT !.event = x]) /\ Whole([run EXCEPT !.handled = x])
         /\ Whole([run EXCEPT !.code = x])
         /\ [run EXCEPT !.event = x].workflow_id = run.workflow_id
         /\ [run EXCEPT !.event = x].start = run.start
         /\ [run EXCEPT !.event = x].code = run.code
         /\ [run EXCEPT !.handled = x].workflow_id = run.workflow_id
         /\ [run EXCEPT !.handled = x].start = run.start
         /\ [run EXCEPT !.handled = x].code = run.code
         /\ [run EXCEPT !.code = x].workflow_id = run.workflow_id
         /\ [run EXCEPT !.code = x].start = run.start
         /\ [run EXCEPT !.code = x].code = x
<1>1. [run EXCEPT !.event = x]
        = [workflow_id |-> run.workflow_id, start |-> run.start, event |-> x,
           code |-> run.code, handled |-> run.handled]
  BY DEF Whole
<1>2. [run EXCEPT !.handled = x]
        = [workflow_id |-> run.workflow_id, start |-> run.start, event |-> run.event,
           code |-> run.code, handled |-> x]
  BY DEF Whole
<1>3. [run EXCEPT !.code = x]
        = [workflow_id |-> run.workflow_id, start |-> run.start, event |-> run.event,
           code |-> x, handled |-> run.handled]
  BY DEF Whole
<1> QED
  BY <1>1, <1>2, <1>3 DEF Whole

\* An element of a sequence.
LEMMA InRuns == ASSUME NEW Q, NEW s \in Seq(Q), NEW r \in DOMAIN s PROVE s[r] \in Q
  BY ElementOfSeq

\* What a run may change about itself.
LEMMA RunFields ==
  ASSUME RunsType, UNCHANGED wm, NEW r \in DOMAIN runs, IsOpen(r),
         \/ \E event : runs' = [runs EXCEPT ![r].event = event]
         \/ \E handled : runs' = [runs EXCEPT ![r].handled = handled]
         \/ \E event : \E code \in wm.ends :
              runs' = [runs EXCEPT ![r].code = code, ![r].event = event]
  PROVE  RunsType' /\ RunsKept /\ DOMAIN runs' = DOMAIN runs
<1>1. PICK E, H : runs \in Seq([workflow_id : 0..MaxStarts, start : 1..MaxStarts, event : E,
                                code : wm.ends \cup {NotEnded}, handled : H])
  BY DEF RunsType
<1>2. Whole(runs[r]) /\ runs[r].code \in wm.ends \cup {NotEnded}
  <2> DEFINE Q == [workflow_id : 0..MaxStarts, start : 1..MaxStarts, event : E,
                   code : wm.ends \cup {NotEnded}, handled : H]
  <2>1. runs \in Seq(Q)
    BY <1>1
  <2> HIDE DEF Q
  <2>2. runs[r] \in Q
    BY <2>1, InRuns, Zenon
  <2> QED
    BY <2>2 DEF Q, Whole
<1>3. PICK old : /\ old = runs[r]
                 /\ Whole(old) /\ old.code \in wm.ends \cup {NotEnded}
  BY <1>2
<1>4. \E new : /\ runs' = [runs EXCEPT ![r] = new]
               /\ Whole(new) /\ new.code \in wm.ends \cup {NotEnded}
               /\ new.workflow_id = old.workflow_id /\ new.start = old.start
  <2>1. CASE \E event : runs' = [runs EXCEPT ![r].event = event]
    <3>1. PICK event : runs' = [runs EXCEPT ![r].event = event]
      BY <2>1
    <3>2. PICK new : new = [old EXCEPT !.event = event]
      OBVIOUS
    <3>3. runs' = [runs EXCEPT ![r] = new]
      BY <1>3, <3>1, <3>2
    <3>4. /\ Whole(new) /\ new.code = old.code
          /\ new.workflow_id = old.workflow_id /\ new.start = old.start
      <4>1. Whole(old)
        BY <1>3
      <4> QED
        BY <3>2, <4>1, Changed, Zenon
    <3> QED
      BY <1>3, <3>3, <3>4
  <2>2. CASE \E handled : runs' = [runs EXCEPT ![r].handled = handled]
    <3>1. PICK handled : runs' = [runs EXCEPT ![r].handled = handled]
      BY <2>2
    <3>2. PICK new : new = [old EXCEPT !.handled = handled]
      OBVIOUS
    <3>3. runs' = [runs EXCEPT ![r] = new]
      BY <1>3, <3>1, <3>2
    <3>4. /\ Whole(new) /\ new.code = old.code
          /\ new.workflow_id = old.workflow_id /\ new.start = old.start
      <4>1. Whole(old)
        BY <1>3
      <4> QED
        BY <3>2, <4>1, Changed, Zenon
    <3> QED
      BY <1>3, <3>3, <3>4
  <2>3. CASE \E event : \E code \in wm.ends :
               runs' = [runs EXCEPT ![r].code = code, ![r].event = event]
    <3>1. PICK event : \E code \in wm.ends :
                         runs' = [runs EXCEPT ![r].code = code, ![r].event = event]
      BY <2>3
    <3>2. PICK code \in wm.ends : runs' = [runs EXCEPT ![r].code = code, ![r].event = event]
      BY <3>1
    <3>3. PICK mid : mid = [old EXCEPT !.code = code]
      OBVIOUS
    <3>4. PICK new : new = [mid EXCEPT !.event = event]
      OBVIOUS
    <3>5. runs' = [runs EXCEPT ![r] = new]
      BY <1>3, <3>2, <3>3, <3>4
    <3>6. /\ Whole(mid) /\ mid.code = code
          /\ mid.workflow_id = old.workflow_id /\ mid.start = old.start
      <4>1. Whole(old)
        BY <1>3
      <4>2. Whole(mid) /\ mid.workflow_id = old.workflow_id /\ mid.start = old.start
        BY <3>3, <4>1, Changed, Zenon
      <4>3. mid.code = code
        BY <3>3, <4>1 DEF Whole
      <4> QED
        BY <4>2, <4>3
    <3>7. /\ Whole(new) /\ new.code = mid.code
          /\ new.workflow_id = mid.workflow_id /\ new.start = mid.start
      BY <3>4, <3>6, Changed, Zenon
    <3> QED
      BY <3>5, <3>6, <3>7
  <2> QED
    BY <2>1, <2>2, <2>3
<1>5. PICK run : /\ runs' = [runs EXCEPT ![r] = run]
                 /\ Whole(run) /\ run.code \in wm.ends \cup {NotEnded}
                 /\ run.workflow_id = runs[r].workflow_id /\ run.start = runs[r].start
  BY <1>3, <1>4
<1>6. run = [workflow_id |-> runs[r].workflow_id, start |-> runs[r].start, event |-> run.event,
             code |-> run.code, handled |-> run.handled]
  BY <1>5 DEF Whole
<1> QED
  BY <1>5, <1>6, ChangesRun

\* The service records a signal.
LEMMA ServeSignalInv == ASSUME Inv, ConnInv', NEW s \in sent, ServeSignal(s) PROVE Inv'
<1>1. PICK r : /\ r = Target(s.request.of) /\ r # NoRun /\ IsOpen(r)
               /\ \E handled : runs' = [runs EXCEPT ![r].handled = handled]
               /\ Acted(s, Says("ok", r))
  BY DEF ServeSignal
<1>2. StayPut /\ UNCHANGED wm /\ s.request.call = "signal"
  BY DEF ServeSignal, StayPut
<1>3. r \in DOMAIN runs
  BY <1>1, TargetIsThere DEF Inv, Asked
<1>4. RunsType' /\ RunsKept /\ DOMAIN runs' = DOMAIN runs
  BY <1>1, <1>2, <1>3, RunFields DEF Inv
<1>5. PICK answer : Serve(s, answer)
  BY <1>1 DEF Acted
<1>6. IsTrue(s.request, answer)'
  BY <1>2 DEF IsTrue
<1> QED
  BY <1>2, <1>4, <1>5, <1>6, Serving

\* Runs get on and end.
LEMMA RunsInv ==
  ASSUME Inv, ConnInv', NEW r \in DOMAIN runs,
         workflow_main(r) \/ TypeNotFound(r) \/ EndsOtherwise(r)
  PROVE  Inv'
<1>1. /\ IsOpen(r)
      /\ \/ \E event : runs' = [runs EXCEPT ![r].event = event]
         \/ \E handled : runs' = [runs EXCEPT ![r].handled = handled]
         \/ \E event : \E code \in wm.ends :
              runs' = [runs EXCEPT ![r].code = code, ![r].event = event]
  BY DEF workflow_main, TypeNotFound, EndsOtherwise
<1>2. UNCHANGED <<connVars, wm, callerVars, starts, signals, histVars>>
  BY DEF workflow_main, TypeNotFound, EndsOtherwise
<1>3. RunsType' /\ RunsKept /\ DOMAIN runs' = DOMAIN runs
  BY <1>1, <1>2, RunFields DEF Inv
<1>4. NoNewRequests /\ NoNewAnswers
  BY <1>2 DEF NoNewRequests, NoNewAnswers, AnswersIn, connVars
<1>5. NoNewStarts /\ \A x \in sent' : Known(x.request.of)'
  BY <1>3, <1>4, NoRequests
<1>6. AnswersWell'
  BY <1>2, <1>3, <1>4, <1>5, SameAnswers, AnswersStay DEF Inv
<1>7. Domains'
  BY <1>2 DEF Inv, Domains, callerVars, histVars
<1> QED
  BY <1>2, <1>3, <1>5, <1>6, <1>7, Onward DEF callerVars, histVars, connVars

-----------------------------------------------------------------------------
(* The callers' steps *)

\* What one caller does is no matter of the others.
OnlyCaller(c) ==
  \A d \in Conn \ {c} :
    /\ pc'[d] = pc[d] /\ asked'[d] = asked[d] /\ stub_execution'[d] = stub_execution[d]
    /\ context'[d] = context[d] /\ waits'[d] = waits[d] /\ outcome'[d] = outcome[d]

\* A step of one caller that leaves the runs as they are.
LEMMA Stepping ==
  ASSUME Inv, ConnInv', NEW c \in Conn, OnlyCaller(c), CallerInv(c)', Domains',
         UNCHANGED <<wm, runs, starts>>, NoNewStarts, \A s \in sent' : Known(s.request.of)',
         NoNewAnswers, \A n \in 1..MaxStarts : heard'[n] = heard[n] \/ HeardOf(n)'
  PROVE  Inv'
<1>1. RunsKept /\ RunsType' /\ DOMAIN runs' = DOMAIN runs
  BY RunsUnchanged DEF Inv
<1>2. AnswersWell'
  BY <1>1, SameAnswers, AnswersStay DEF Inv
<1>3. \A d \in Conn :
        \/ CallerInv(d)'
        \/ /\ pc'[d] = pc[d] /\ asked'[d] = asked[d] /\ stub_execution'[d] = stub_execution[d]
           /\ context'[d] = context[d] /\ waits'[d] = waits[d] /\ outcome'[d] = outcome[d]
  BY DEF OnlyCaller
<1> QED
  BY <1>1, <1>2, <1>3, Onward

\* A call that ends tells the service nothing.
LEMMA CallEnds ==
  ASSUME Inv, NEW c \in Conn, Return(c) \/ Raises(c), UNCHANGED <<wm, runs>>
  PROVE  /\ NoNewStarts /\ NoNewAnswers
         /\ \A s \in sent' : Known(s.request.of)'
         /\ asked'[c] = NoRequest
         /\ \A d \in Conn \ {c} : asked'[d] = asked[d]
<1>1. NoNewRequests /\ NoNewAnswers
  BY ConnKeeps DEF Inv
<1>2. asked' = [asked EXCEPT ![c] = NoRequest]
  BY DEF Return, Raises, TimesOut, RefusesToRead, EndOfStream, GivenUp
<1>3. DOMAIN asked = Conn
  BY DEF Inv, ConnInv, ConnTypeOK
<1> QED
  BY <1>1, <1>2, <1>3, RunsUnchanged, NoRequests

\* A call that returns has its own answer, and this is so.
LEMMA ReturnsWell ==
  ASSUME Inv, NEW c \in Conn, Return(c)
  PROVE  /\ Answered(asked[c], NextAnswer(c).answer)
         /\ sent' = sent
         /\ asked[c] \in ClientRequest
<1>1. /\ status[c] \in {"open", "gone"} /\ stream[c] # <<>> /\ ~Idle(c) /\ sent' = sent
  BY DEF Return, Readable
<1>2. Len(stream[c]) = 1 /\ stream[c][1].request = asked[c] /\ stream[c] \in Seq(Arrived)
  BY <1>1 DEF Inv, ConnInv, OneCall, ConnTypeOK
<1>3. 1 \in DOMAIN stream[c] /\ Head(stream[c]) = stream[c][1]
  BY <1>2
<1>4. Answered(stream[c][1].request, stream[c][1].answer)
  BY <1>3 DEF Inv, AnswersWell
<1>5. asked[c] \in Request
  BY <1>1 DEF Inv, ConnInv, ConnTypeOK, Idle
<1> QED
  BY <1>1, <1>2, <1>3, <1>4, <1>5, MessageAssumption DEF NextAnswer

\* What a caller hears is what the service has said.
LEMMA HeardKind == \A kind : /\ Heard(kind) = "run" => kind = "run"
                             /\ Heard(kind) = "event" => kind = "event"
  BY DEF Heard, find_error

\* A request other than a start.
LEMMA Calls ==
  ASSUME Inv, NEW c \in Conn, UNCHANGED <<wm, runs>>,
         NEW call \in {"history", "signal", "query"}, NEW execution \in Execution,
         Known(execution), Call(c, [call |-> call, of |-> execution, start |-> 0], FALSE)
  PROVE  /\ NoNewStarts /\ NoNewAnswers
         /\ \A s \in sent' : Known(s.request.of)'
         /\ asked'[c] = [call |-> call, of |-> execution, start |-> 0]
         /\ asked'[c] # NoRequest
         /\ \A d \in Conn \ {c} : asked'[d] = asked[d]
<1> DEFINE request == [call |-> call, of |-> execution, start |-> 0]
<1> DEFINE new == [conn |-> c, request |-> request, late |-> FALSE]
<1>1. request.call # "start" /\ request.of = execution /\ new.request = request
  OBVIOUS
<1>2. /\ asked' = [asked EXCEPT ![c] = request]
      /\ sent' = sent \cup {new}
      /\ stream' = stream
  BY DEF Call
<1>3. request \in Request
  BY Requests
<1>4. DOMAIN asked = Conn
  BY DEF Inv, ConnInv, ConnTypeOK
<1> HIDE DEF request, new
<1>5. NoNewStarts
  BY <1>1, <1>2 DEF NoNewStarts
<1>6. NoNewAnswers
  BY <1>2 DEF NoNewAnswers, AnswersIn
<1>7. \A s \in sent' : Known(s.request.of)'
  <2>1. \A s \in sent : Known(s.request.of)
    BY DEF Inv, Asked
  <2>2. \A x : Known(x) => Known(x)'
    BY RunsUnchanged, KnownStays
  <2>3. ASSUME NEW s \in sent' PROVE Known(s.request.of)'
    <3>1. Known(s.request.of)
      BY <1>1, <1>2, <2>1
    <3> QED
      BY <2>2, <3>1
  <2> QED
    BY <2>3
<1>8. asked'[c] = request /\ request # NoRequest /\ \A d \in Conn \ {c} : asked'[d] = asked[d]
  BY <1>2, <1>3, <1>4, ConnectionAssumption
<1> QED
  BY <1>5, <1>6, <1>7, <1>8 DEF request

\* Whose variables are functions of the callers.
LEMMA CallerDomains ==
  ASSUME Inv
  PROVE  /\ DOMAIN pc = Conn /\ DOMAIN sync = Conn /\ DOMAIN stub_execution = Conn
         /\ DOMAIN context = Conn /\ DOMAIN waits = Conn /\ DOMAIN outcome = Conn
         /\ DOMAIN heard = 1..MaxStarts
  BY DEF Inv, Domains

\* The execution of which nothing is known is none.
LEMMA NotNone == NoExecution \notin Execution /\ NoExecution.run_id = NoRun
<1>1. NoExecution.workflow_id = -1 /\ NoExecution.run_id = NoRun
  BY DEF NoExecution
<1>2. \A x \in Execution : x.workflow_id \in 0..MaxStarts
  BY DEF Execution
<1>3. -1 \notin 0..MaxStarts
  BY ClientAssumption
<1> QED
  BY <1>1, <1>2, <1>3

\* What a start that returns tells.
LEMMA Started ==
  ASSUME Inv, NEW c \in Conn, Return(c), pc[c] = "starting", HeardBy(c) = "run"
  PROVE  LET r == NextAnswer(c).answer.run
             execution == [workflow_id |-> asked[c].of.workflow_id, run_id |-> r]
         IN  /\ execution \in Execution /\ execution # NoExecution /\ Known(execution)
             /\ asked[c].start \in 1..starts /\ NotSent(asked[c].start)
             /\ r \in DOMAIN runs /\ runs[r].start = asked[c].start
<1> DEFINE r == NextAnswer(c).answer.run
<1>1. asked[c].call = "start"
  BY DEF Inv, CallerInv
<1>2. NextAnswer(c).answer.kind = "run"
  BY HeardKind DEF HeardBy
<1>3. /\ r \in DOMAIN runs /\ runs[r].start = asked[c].start
      /\ runs[r].workflow_id = asked[c].of.workflow_id
      /\ asked[c].start \in 1..starts /\ NotSent(asked[c].start)
  BY <1>1, <1>2, ReturnsWell DEF Answered, IsTrue
<1>4. asked[c].of.workflow_id \in 0..MaxStarts
  BY ReturnsWell DEF ClientRequest, Execution
<1>5. r \in 0..MaxStarts
  BY <1>3, RunIds
<1> HIDE DEF r
<1> DEFINE execution == [workflow_id |-> asked[c].of.workflow_id, run_id |-> r]
<1>6. execution.workflow_id = asked[c].of.workflow_id /\ execution.run_id = r
  OBVIOUS
<1>7. execution \in Execution
  BY <1>4, <1>5 DEF Execution
<1>8. Known(execution)
  <2> HIDE DEF execution
  <2> QED
    BY <1>3, <1>6 DEF Known
<1> QED
  BY <1>3, <1>7, <1>8, NotNone DEF r

\* A start returns.
LEMMA ExecReturnsInv == ASSUME Inv, ConnInv', NEW c \in Conn, ExecReturns(c) PROVE Inv'
<1>1. /\ pc[c] = "starting" /\ Return(c) /\ HeardBy(c) = "run"
      /\ UNCHANGED <<wm, runs, starts, signals, outcome>>
  BY DEF ExecReturns
<1>2. PICK r : r = NextAnswer(c).answer.run
  OBVIOUS
<1>3. PICK execution : execution = [workflow_id |-> asked[c].of.workflow_id, run_id |-> r]
  OBVIOUS
<1>4. /\ stub_execution' = [stub_execution EXCEPT ![c] = execution]
      /\ context' = [context EXCEPT ![c] = execution]
      /\ waits' = IF sync[c] THEN [waits EXCEPT ![c] = execution] ELSE waits
      /\ pc' = [pc EXCEPT ![c] = IF sync[c] THEN "wait" ELSE "idle"]
      /\ sync' = [sync EXCEPT ![c] = FALSE]
      /\ heard' = [heard EXCEPT ![asked[c].start] = r]
  BY <1>2, <1>3 DEF ExecReturns, Goto
<1>5. /\ execution \in Execution /\ execution # NoExecution /\ Known(execution)
      /\ asked[c].start \in 1..starts /\ NotSent(asked[c].start)
      /\ r \in DOMAIN runs /\ runs[r].start = asked[c].start
  BY <1>1, <1>2, <1>3, Started
<1>6. /\ NoNewStarts /\ NoNewAnswers /\ \A s \in sent' : Known(s.request.of)'
      /\ asked'[c] = NoRequest /\ \A d \in Conn \ {c} : asked'[d] = asked[d]
  BY <1>1, CallEnds
<1>7. OnlyCaller(c)
  BY <1>1, <1>4, <1>6, CallerDomains DEF OnlyCaller
<1>8. \A x : Known(x) => Known(x)'
  BY <1>1, RunsUnchanged, KnownStays
<1>9. CallerInv(c)'
  <2>1. /\ stub_execution'[c] = execution /\ context'[c] = execution
        /\ waits'[c] = IF sync[c] THEN execution ELSE waits[c]
        /\ pc'[c] = IF sync[c] THEN "wait" ELSE "idle"
    BY <1>4, CallerDomains
  <2>2. \A r2 \in DOMAIN runs : IsOpen(r2)' = IsOpen(r2)
    BY <1>1, RunsUnchanged
  <2>3. waits[c] \in Execution \cup {NoExecution} /\ Known(waits[c])
    BY DEF Inv, CallerInv
  <2> QED
    BY <1>1, <1>5, <1>6, <1>8, <2>1, <2>2, <2>3 DEF Inv, CallerInv, Idle
<1>10. Domains'
  <2>1. DOMAIN waits' = Conn /\ DOMAIN pc' = Conn /\ DOMAIN stub_execution' = Conn
        /\ DOMAIN context' = Conn /\ DOMAIN sync' = Conn /\ DOMAIN heard' = 1..MaxStarts
    BY <1>4, CallerDomains
  <2> QED
    BY <1>1, <2>1 DEF Inv, Domains
<1>11. ASSUME NEW n \in 1..MaxStarts PROVE heard'[n] = heard[n] \/ HeardOf(n)'
  <2>1. CASE n = asked[c].start
    <3>1. heard'[n] = r
      BY <1>4, <2>1, CallerDomains
    <3>2. NotSent(n)'
      BY <1>5, <1>6, <2>1, NotSentStays
    <3> QED
      BY <1>1, <1>5, <2>1, <3>1, <3>2 DEF HeardOf
  <2>2. CASE n # asked[c].start
    BY <1>4, <2>2, CallerDomains
  <2> QED
    BY <2>1, <2>2
<1> QED
  BY <1>1, <1>6, <1>7, <1>9, <1>10, <1>11, Stepping

\* A start raises, and its caller may not know what has become of it.
LEMMA ExecRaisesInv == ASSUME Inv, ConnInv', NEW c \in Conn, ExecRaises(c) PROVE Inv'
<1>1. /\ pc[c] = "starting" /\ (Return(c) \/ Raises(c))
      /\ pc' = [pc EXCEPT ![c] = "idle"] /\ sync' = [sync EXCEPT ![c] = FALSE]
      /\ UNCHANGED <<wm, runs, stub_execution, context, waits, starts, signals, outcome>>
  BY DEF ExecRaises, Goto
<1>2. PICK told : /\ heard' = [heard EXCEPT ![asked[c].start] = told]
                  /\ told = Raised \/ (told = Refused /\ Return(c) /\ HeardBy(c) = "error")
  BY DEF ExecRaises
<1>3. /\ NoNewStarts /\ NoNewAnswers /\ \A s \in sent' : Known(s.request.of)'
      /\ asked'[c] = NoRequest /\ \A d \in Conn \ {c} : asked'[d] = asked[d]
  BY <1>1, CallEnds
<1>4. OnlyCaller(c)
  BY <1>1, <1>3, CallerDomains DEF OnlyCaller
<1>5. \A x : Known(x) => Known(x)'
  BY <1>1, RunsUnchanged, KnownStays
<1>6. CallerInv(c)'
  <2>1. pc'[c] = "idle"
    BY <1>1, CallerDomains
  <2>2. \A r \in DOMAIN runs : IsOpen(r)' = IsOpen(r)
    BY <1>1, RunsUnchanged
  <2> QED
    BY <1>1, <1>3, <1>5, <2>1, <2>2 DEF Inv, CallerInv, Idle
<1>7. Domains'
  <2>1. DOMAIN pc' = Conn /\ DOMAIN sync' = Conn /\ DOMAIN heard' = 1..MaxStarts
    BY <1>1, <1>2, CallerDomains
  <2> QED
    BY <1>1, <2>1 DEF Inv, Domains
<1>8. ASSUME NEW n \in 1..MaxStarts PROVE heard'[n] = heard[n] \/ HeardOf(n)'
  <2>1. CASE n = asked[c].start
    <3>1. heard'[n] = told
      BY <1>2, <2>1, CallerDomains
    <3>2. CASE told = Raised
      BY <3>1, <3>2 DEF HeardOf
    <3>3. CASE told = Refused /\ Return(c) /\ HeardBy(c) = "error"
      <4>1. asked[c].call = "start"
        BY <1>1 DEF Inv, CallerInv
      <4>2. NoRunOf(n) /\ NotSent(n) /\ n \in 1..starts
        BY <2>1, <3>3, <4>1, ReturnsWell DEF Answered, IsTrue, HeardBy
      <4>3. NotSent(n)' /\ NoRunOf(n)'
        BY <1>1, <1>3, <4>2, NotSentStays DEF NoRunOf
      <4> QED
        BY <1>1, <3>1, <3>3, <4>2, <4>3 DEF HeardOf
    <3> QED
      BY <1>2, <3>2, <3>3
  <2>2. CASE n # asked[c].start
    BY <1>2, <2>2, CallerDomains
  <2> QED
    BY <2>1, <2>2
<1> QED
  BY <1>1, <1>3, <1>4, <1>6, <1>7, <1>8, Stepping

\* Asking for the history, and whatever else is asked but a start.
LEMMA AsksInv ==
  ASSUME Inv, ConnInv', NEW c \in Conn,
         get_workflow_execution_history(c) \/ exec_signal(c) \/ exec_query(c)
  PROVE  Inv'
<1>1. UNCHANGED <<wm, runs, sync, stub_execution, context, waits, starts, heard>>
  BY DEF get_workflow_execution_history, exec_signal, exec_query, histVars
<1>2. PICK call \in {"history", "signal", "query"}, execution \in {waits[c], stub_execution[c]} :
        /\ Call(c, [call |-> call, of |-> execution, start |-> 0], FALSE)
        /\ execution # NoExecution
        /\ \/ /\ call = "history" /\ execution = waits[c] /\ pc[c] = "wait"
              /\ pc' = [pc EXCEPT ![c] = "waiting"] /\ outcome' = outcome
           \/ /\ \E place \in {"signalling", "querying"} : pc' = [pc EXCEPT ![c] = place]
              /\ outcome' = [outcome EXCEPT ![c] = NoOutcome]
  <2>1. CASE get_workflow_execution_history(c)
    <3>1. waits[c] # NoExecution
      BY <2>1 DEF get_workflow_execution_history, Inv, CallerInv
    <3> QED
      BY <2>1, <3>1 DEF get_workflow_execution_history, WaitedFor, Goto, histVars
  <2>2. CASE exec_signal(c)
    BY <2>2 DEF exec_signal, Goto
  <2>3. CASE exec_query(c)
    BY <2>3 DEF exec_query, Goto
  <2> QED
    BY <2>1, <2>2, <2>3
<1>3. execution \in Execution /\ Known(execution)
  BY <1>2 DEF Inv, CallerInv
<1>4. /\ NoNewStarts /\ NoNewAnswers /\ \A s \in sent' : Known(s.request.of)'
      /\ asked'[c] = [call |-> call, of |-> execution, start |-> 0]
      /\ asked'[c] # NoRequest
      /\ \A d \in Conn \ {c} : asked'[d] = asked[d]
  BY <1>1, <1>2, <1>3, Calls
<1>5. OnlyCaller(c)
  BY <1>1, <1>2, <1>4, CallerDomains DEF OnlyCaller
<1>6. \A x : Known(x) => Known(x)'
  BY <1>1, RunsUnchanged, KnownStays
<1>7. CallerInv(c)'
  <2>1. \A r \in DOMAIN runs : IsOpen(r)' = IsOpen(r)
    BY <1>1, RunsUnchanged
  <2>2. asked'[c].call = call /\ asked'[c].of = execution
    BY <1>4
  <2>3. CASE /\ call = "history" /\ execution = waits[c] /\ pc[c] = "wait"
             /\ pc' = [pc EXCEPT ![c] = "waiting"] /\ outcome' = outcome
    <3>1. pc'[c] = "waiting"
      BY <2>3, CallerDomains
    <3> QED
      BY <1>1, <1>2, <1>4, <1>6, <2>1, <2>2, <2>3, <3>1 DEF Inv, CallerInv, Idle
  <2>4. CASE /\ \E place \in {"signalling", "querying"} : pc' = [pc EXCEPT ![c] = place]
             /\ outcome' = [outcome EXCEPT ![c] = NoOutcome]
    <3>1. pc'[c] \in {"signalling", "querying"} /\ outcome'[c] = NoOutcome
      BY <2>4, CallerDomains
    <3> QED
      BY <1>1, <1>4, <1>6, <3>1 DEF Inv, CallerInv, Idle
  <2> QED
    BY <1>2, <2>3, <2>4
<1>8. Domains'
  <2>1. DOMAIN pc' = Conn /\ DOMAIN outcome' = Conn
    BY <1>2, CallerDomains
  <2>2. signals' \in 0..MaxSignals
    <3>1. signals' = signals \/ (signals < MaxSignals /\ signals' = signals + 1)
      BY DEF get_workflow_execution_history, exec_signal, exec_query
    <3>2. signals \in 0..MaxSignals
      BY DEF Inv, Domains
    <3> QED
      BY <3>1, <3>2, ClientAssumption
  <2> QED
    BY <1>1, <2>1, <2>2 DEF Inv, Domains
<1> QED
  BY <1>1, <1>4, <1>5, <1>7, <1>8, Stepping

\* What a wait that ends tells.
LEMMA Waited ==
  ASSUME Inv, NEW c \in Conn, Return(c), pc[c] = "waiting", HeardBy(c) = "event"
  PROVE  LET r == NextAnswer(c).answer.run
         IN  /\ r \in DOMAIN runs /\ ~IsOpen(r)
             /\ r = waits[c].run_id \/ waits[c].run_id = NoRun
             /\ runs[r].workflow_id = waits[c].workflow_id
<1>1. asked[c].call = "history" /\ asked[c].of = waits[c]
  BY DEF Inv, CallerInv
<1>2. NextAnswer(c).answer.kind = "event"
  BY HeardKind DEF HeardBy
<1> QED
  BY <1>1, <1>2, ReturnsWell DEF Answered, IsTrue

\* The ends of calls that are not starts.
LEMMA EndsInv ==
  ASSUME Inv, ConnInv', NEW c \in Conn,
         WaitsOn(c) \/ WaitEnds(c) \/ WaitRaises(c) \/ ExecEnds(c)
  PROVE  Inv'
<1>1. UNCHANGED <<wm, runs, sync, stub_execution, context, starts, signals, heard>>
  BY DEF WaitsOn, WaitEnds, WaitRaises, ExecEnds, histVars
<1>2. Return(c) \/ Raises(c) \/ (pc[c] = "wait" /\ UNCHANGED connVars)
  BY DEF WaitsOn, WaitEnds, WaitRaises, ExecEnds, CallRaises
<1>3. /\ NoNewStarts /\ NoNewAnswers /\ \A s \in sent' : Known(s.request.of)'
      /\ asked'[c] = NoRequest /\ \A d \in Conn \ {c} : asked'[d] = asked[d]
  <2>1. CASE Return(c) \/ Raises(c)
    BY <1>1, <2>1, CallEnds
  <2>2. CASE pc[c] = "wait" /\ UNCHANGED connVars
    <3>1. NoNewRequests /\ NoNewAnswers
      BY <2>2 DEF connVars, NoNewRequests, NoNewAnswers, AnswersIn
    <3>2. Idle(c)
      BY <2>2 DEF Inv, CallerInv
    <3> QED
      BY <1>1, <2>2, <3>1, <3>2, RunsUnchanged, NoRequests DEF connVars, Idle
  <2> QED
    BY <1>2, <2>1, <2>2
<1>4. /\ \/ pc' = [pc EXCEPT ![c] = "idle"]
         \/ pc' = [pc EXCEPT ![c] = "wait"] /\ waits' = waits /\ pc[c] = "waiting"
      /\ waits' \in {waits, [waits EXCEPT ![c] = NoExecution]}
  BY DEF WaitsOn, WaitEnds, WaitRaises, ExecEnds, Goto, Leaves
<1>5. \/ outcome' = outcome
      \/ \E r : /\ r \in DOMAIN runs /\ ~IsOpen(r)
                /\ r = waits[c].run_id \/ waits[c].run_id = NoRun
                /\ runs[r].workflow_id = waits[c].workflow_id
                /\ outcome' = [outcome EXCEPT ![c] = OutcomeOf(waits[c], r)]
  <2>1. CASE WaitEnds(c)
    BY <2>1, Waited DEF WaitEnds
  <2>2. CASE WaitsOn(c) \/ WaitRaises(c) \/ ExecEnds(c)
    BY <2>2 DEF WaitsOn, WaitRaises, ExecEnds, histVars
  <2> QED
    BY <2>1, <2>2
<1>6. OnlyCaller(c)
  BY <1>1, <1>3, <1>4, <1>5, CallerDomains DEF OnlyCaller
<1>7. \A x : Known(x) => Known(x)'
  BY <1>1, RunsUnchanged, KnownStays
<1>8. CallerInv(c)'
  <2>1. \A r \in DOMAIN runs : IsOpen(r)' = IsOpen(r)
    BY <1>1, RunsUnchanged
  <2>2. /\ pc'[c] = "idle" \/ (pc'[c] = "wait" /\ waits'[c] = waits[c] /\ pc[c] = "waiting")
        /\ waits'[c] \in {waits[c], NoExecution}
    BY <1>4, CallerDomains
  <2>3. Known(NoExecution)
    BY NotNone DEF Known
  <2>4. LET out == outcome'[c]
        IN  out # NoOutcome =>
              /\ out.run \in DOMAIN runs
              /\ ~IsOpen(out.run)
              /\ out.run = out.of.run_id \/ out.of.run_id = NoRun
              /\ runs[out.run].workflow_id = out.of.workflow_id
              /\ runs[out.run].event.kind = out.kind
    <3>1. CASE outcome' = outcome
      BY <3>1 DEF Inv, CallerInv
    <3>2. ASSUME NEW r, r \in DOMAIN runs, ~IsOpen(r),
                 r = waits[c].run_id \/ waits[c].run_id = NoRun,
                 runs[r].workflow_id = waits[c].workflow_id,
                 outcome' = [outcome EXCEPT ![c] = OutcomeOf(waits[c], r)]
          PROVE  LET out == outcome'[c]
                 IN  /\ out.run \in DOMAIN runs
                     /\ ~IsOpen(out.run)
                     /\ out.run = out.of.run_id \/ out.of.run_id = NoRun
                     /\ runs[out.run].workflow_id = out.of.workflow_id
                     /\ runs[out.run].event.kind = out.kind
      <4>1. outcome'[c] = OutcomeOf(waits[c], r)
        BY <3>2, CallerDomains
      <4>2. /\ OutcomeOf(waits[c], r).of = waits[c] /\ OutcomeOf(waits[c], r).run = r
            /\ OutcomeOf(waits[c], r).kind = runs[r].event.kind
        BY DEF OutcomeOf
      <4> QED
        BY <3>2, <4>1, <4>2
    <3> QED
      BY <1>5, <3>1, <3>2
  <2> QED
    BY <1>1, <1>3, <1>7, <2>1, <2>2, <2>3, <2>4 DEF Inv, CallerInv, Idle
<1>9. Domains'
  <2>1. DOMAIN pc' = Conn /\ DOMAIN waits' = Conn /\ DOMAIN outcome' = Conn
    BY <1>4, <1>5, CallerDomains
  <2> QED
    BY <1>1, <2>1 DEF Inv, Domains
<1> QED
  BY <1>1, <1>3, <1>6, <1>8, <1>9, Stepping

\* Between calls; and what the peer does.
LEMMA QuietInv ==
  ASSUME Inv, ConnInv', NEW c \in Conn,
         wait_for_close(c) \/ new_workflow_stub_from_workflow_id(c) \/ PeerGoes(c)
  PROVE  Inv'
<1>1. /\ UNCHANGED <<wm, runs, sync, context, starts, signals, heard>>
      /\ asked' = asked
  BY DEF wait_for_close, new_workflow_stub_from_workflow_id, PeerGoes, Breaks, callerVars, histVars,
         connVars
<1>2. NoNewRequests /\ NoNewAnswers
  <2>1. CASE UNCHANGED connVars
    BY <2>1 DEF connVars, NoNewRequests, NoNewAnswers, AnswersIn
  <2>2. CASE PeerGoes(c)
    BY <2>2, ConnKeeps DEF PeerGoes, Inv
  <2> QED
    BY <2>1, <2>2 DEF wait_for_close, new_workflow_stub_from_workflow_id
<1>3. NoNewStarts /\ \A s \in sent' : Known(s.request.of)'
  BY <1>1, <1>2, RunsUnchanged, NoRequests
<1>4. \A x : Known(x) => Known(x)'
  BY <1>1, RunsUnchanged, KnownStays
<1>5. \A r \in DOMAIN runs : IsOpen(r)' = IsOpen(r)
  BY <1>1, RunsUnchanged
<1>6. CASE wait_for_close(c)
  <2>1. PICK execution : /\ execution \in {context[c], [context[c] EXCEPT !.run_id = NoRun]}
                         /\ waits' = [waits EXCEPT ![c] = execution]
    BY <1>6 DEF wait_for_close
  <2>2. /\ pc[c] = "idle" /\ context[c] # NoExecution /\ stub_execution' = stub_execution
        /\ outcome' = [outcome EXCEPT ![c] = NoOutcome] /\ pc' = [pc EXCEPT ![c] = "wait"]
    BY <1>6 DEF wait_for_close, Goto
  <2>3. execution \in Execution /\ Known(execution)
    <3>1. context[c] \in Execution /\ Known(context[c])
      BY <2>2 DEF Inv, CallerInv
    <3>2. /\ [context[c] EXCEPT !.run_id = NoRun].run_id = NoRun
          /\ [context[c] EXCEPT !.run_id = NoRun] \in Execution
      <4>1. NoRun \in 0..MaxStarts
        BY RunIds
      <4> QED
        BY <3>1, <4>1 DEF Execution
    <3> QED
      BY <2>1, <3>1, <3>2 DEF Known
  <2>4. OnlyCaller(c)
    BY <1>1, <2>1, <2>2, CallerDomains DEF OnlyCaller
  <2>5. CallerInv(c)'
    <3>1. waits'[c] = execution /\ outcome'[c] = NoOutcome /\ pc'[c] = "wait"
      BY <2>1, <2>2, CallerDomains
    <3> QED
      BY <1>1, <1>4, <2>2, <2>3, <3>1, NotNone DEF Inv, CallerInv, Idle
  <2>6. Domains'
    <3>1. DOMAIN pc' = Conn /\ DOMAIN waits' = Conn /\ DOMAIN outcome' = Conn
      BY <2>1, <2>2, CallerDomains
    <3> QED
      BY <1>1, <2>2, <3>1 DEF Inv, Domains
  <2> QED
    BY <1>1, <1>2, <1>3, <2>4, <2>5, <2>6, Stepping
<1>7. CASE new_workflow_stub_from_workflow_id(c)
  <2>1. PICK execution : /\ execution = [workflow_id |-> TheId, run_id |-> NoRun]
                         /\ stub_execution' = [stub_execution EXCEPT ![c] = execution]
                         /\ UNCHANGED <<pc, waits, outcome>>
    BY <1>7 DEF new_workflow_stub_from_workflow_id, histVars
  <2>2. execution \in Execution /\ Known(execution)
    <3>1. TheId \in 0..MaxStarts /\ NoRun \in 0..MaxStarts
      BY RunIds DEF TheId, NoRun
    <3> QED
      BY <2>1, <3>1 DEF Execution, Known
  <2>3. OnlyCaller(c)
    BY <1>1, <2>1, CallerDomains DEF OnlyCaller
  <2>4. CallerInv(c)'
    <3>1. stub_execution'[c] = execution
      BY <2>1, CallerDomains
    <3> QED
      BY <1>1, <1>4, <1>5, <2>1, <2>2, <3>1 DEF Inv, CallerInv, Idle
  <2>5. Domains'
    <3>1. DOMAIN stub_execution' = Conn
      BY <2>1, CallerDomains
    <3> QED
      BY <1>1, <2>1, <3>1 DEF Inv, Domains
  <2> QED
    BY <1>1, <1>2, <1>3, <2>3, <2>4, <2>5, Stepping
<1>8. CASE PeerGoes(c)
  <2>1. UNCHANGED <<pc, stub_execution, waits, outcome>>
    BY <1>8 DEF PeerGoes, callerVars, histVars
  <2>2. OnlyCaller(c)
    BY <1>1, <2>1 DEF OnlyCaller
  <2>3. CallerInv(c)'
    BY <1>1, <1>4, <1>5, <2>1 DEF Inv, CallerInv, Idle
  <2>4. Domains'
    BY <1>1, <2>1 DEF Inv, Domains
  <2> QED
    BY <1>1, <1>2, <1>3, <2>2, <2>3, <2>4, Stepping
<1> QED
  BY <1>6, <1>7, <1>8

\* Counting on.
LEMMA Numbers ==
  ASSUME NEW n \in Nat
  PROVE  /\ n + 1 \in 1..(n + 1)
         /\ \A m \in 1..n : m \in 1..(n + 1) /\ m # n + 1
  OBVIOUS

\* A new start has a number that no other has had.
LEMMA StartInv == ASSUME Inv, ConnInv', NEW c \in Conn, exec_workflow(c) PROVE Inv'
<1> DEFINE n == starts + 1
<1> DEFINE of == [workflow_id |-> WorkflowIdFor(n), run_id |-> NoRun]
<1> DEFINE request == [call |-> "start", of |-> of, start |-> n]
<1> DEFINE new == [conn |-> c, request |-> request, late |-> FALSE]
<1>1. /\ starts' = n
      /\ asked' = [asked EXCEPT ![c] = request]
      /\ sent' = sent \cup {new}
      /\ stream' = stream
      /\ pc' = [pc EXCEPT ![c] = "starting"]
      /\ outcome' = [outcome EXCEPT ![c] = NoOutcome]
      /\ UNCHANGED <<wm, runs, stub_execution, context, waits, signals, heard>>
  BY DEF exec_workflow, Call, Goto
<1>2. /\ request.call = "start" /\ request.start = n /\ request.of = of /\ of.run_id = NoRun
      /\ of.workflow_id = WorkflowIdFor(n) /\ new.request = request
  OBVIOUS
<1>3. /\ n \in 1..MaxStarts /\ n \in 1..starts' /\ \A m \in 1..starts : m \in 1..starts' /\ m # n
      /\ starts' \in 0..MaxStarts
  <2>1. starts \in 0..MaxStarts /\ starts < MaxStarts /\ MaxStarts \in Nat
    BY ClientAssumption DEF exec_workflow, Inv, Domains
  <2>2. starts \in Nat /\ starts + 1 \in 1..MaxStarts /\ starts + 1 \in 0..MaxStarts
    BY <2>1
  <2> QED
    BY <1>1, <2>2, Numbers
<1>4. request \in Request /\ request # NoRequest
  BY <1>3, Requests, ConnectionAssumption
<1>5. DOMAIN asked = Conn
  BY DEF Inv, ConnInv, ConnTypeOK
<1> HIDE DEF n, of, request, new
<1>6. RunsKept /\ RunsType' /\ \A r : IsOpen(r)' = IsOpen(r)
  BY <1>1, RunsUnchanged DEF Inv
<1>7. \A m : WorkflowIdFor(m)' = WorkflowIdFor(m)
  BY <1>1 DEF WorkflowIdFor
<1>8. \A m : NoRunOf(m)' = NoRunOf(m)
  BY <1>1 DEF NoRunOf
<1>9. NoRunOf(n)
  BY <1>3 DEF NoRunOf, Inv, RunsOwn
<1>10. RunsOwn'
  BY <1>1, <1>3, <1>7 DEF Inv, RunsOwn
<1>11. \A x : Known(x) => Known(x)'
  BY <1>6, KnownStays
<1>12. ASSUME NEW s \in sent' PROVE Asked(s.request)'
  <2>1. CASE s \in sent
    BY <1>3, <1>7, <1>8, <1>11, <2>1 DEF Inv, Asked
  <2>2. CASE s = new
    <3>1. /\ s.request.start = n /\ s.request.of.run_id = NoRun
          /\ s.request.of.workflow_id = WorkflowIdFor(n)
      BY <1>2, <2>2
    <3>2. Known(s.request.of)'
      BY <3>1 DEF Known
    <3>3. s.request.start \in 1..starts' /\ NoRunOf(s.request.start)
      BY <1>3, <1>9, <3>1
    <3>4. s.request.of.workflow_id = WorkflowIdFor(s.request.start)
      BY <3>1
    <3> QED
      BY <1>7, <1>8, <3>2, <3>3, <3>4 DEF Asked
  <2> QED
    BY <1>1, <2>1, <2>2
<1>13. \A s \in sent : s.request.call = "start" => s.request.start # n
  BY <1>3 DEF Inv, Asked
<1>14. SentOnce'
  BY <1>1, <1>2, <1>13 DEF Inv, SentOnce
<1>15. \A m : NotSent(m) /\ m # n => NotSent(m)'
  BY <1>1, <1>2 DEF NotSent
<1>16. AnswersWell'
  <2>1. ASSUME NEW x, NEW y, Answered(x, y) PROVE Answered(x, y)'
    <3>1. IsTrue(x, y)'
      BY <1>1, <1>6, <1>8, <2>1 DEF Answered, IsTrue
    <3>2. x.call = "start" => x.start \in 1..starts' /\ NotSent(x.start)'
      BY <1>3, <1>15, <2>1 DEF Answered
    <3> QED
      BY <3>1, <3>2 DEF Answered
  <2>2. NoNewAnswers
    BY <1>1 DEF NoNewAnswers, AnswersIn
  <2> QED
    BY <2>1, <2>2, AnswersStay DEF Inv
<1>17. ASSUME NEW m \in 1..MaxStarts PROVE HeardOf(m)'
  <2>1. HeardOf(m) /\ heard'[m] = heard[m]
    BY <1>1 DEF Inv
  <2>2. CASE m = n
    <3>1. heard[m] \in {Unheard, Raised}
      BY <1>3, <1>9, <2>1, <2>2 DEF HeardOf, NoRunOf
    <3> QED
      BY <2>1, <3>1 DEF HeardOf
  <2>3. CASE m # n
    BY <1>3, <1>6, <1>8, <1>15, <2>1, <2>3, HeardStays
  <2> QED
    BY <2>2, <2>3
<1>18. ASSUME NEW d \in Conn PROVE CallerInv(d)'
  <2>1. CASE d = c
    <3>1. pc'[c] = "starting" /\ asked'[c] = request /\ outcome'[c] = NoOutcome
      BY <1>1, <1>5, CallerDomains
    <3> QED
      BY <1>1, <1>2, <1>3, <1>4, <1>11, <2>1, <3>1 DEF Inv, CallerInv, Idle
  <2>2. CASE d # c
    <3>1. pc'[d] = pc[d] /\ asked'[d] = asked[d] /\ outcome'[d] = outcome[d]
      BY <1>1, <1>5, <2>2, CallerDomains
    <3>2. CallerInv(d)
      BY DEF Inv
    <3> QED
      BY <1>1, <1>3, <1>6, <3>1, <3>2, CallerStays
  <2> QED
    BY <2>1, <2>2
<1>19. Domains'
  <2>1. DOMAIN pc' = Conn /\ DOMAIN outcome' = Conn /\ DOMAIN sync' = Conn
    <3>1. \E b \in BOOLEAN : sync' = [sync EXCEPT ![c] = b]
      BY DEF exec_workflow
    <3> QED
      BY <1>1, <3>1, CallerDomains
  <2> QED
    BY <1>1, <1>3, <2>1 DEF Inv, Domains
<1> QED
  BY <1>6, <1>10, <1>12, <1>14, <1>16, <1>17, <1>18, <1>19 DEF Inv

-----------------------------------------------------------------------------
(* Theorems *)

\* All steps together.
LEMMA NextInvariant == Inv /\ [Next]_vars => Inv'
<1> SUFFICES ASSUME Inv, [Next]_vars PROVE Inv'
  OBVIOUS
<1>1. ConnInv'
  BY ConnStep, NextInv DEF Inv
<1>2. ASSUME NEW s \in sent,
             ServeStart(s) \/ ServeHistory(s) \/ ServeSignal(s) \/ ServeQuery(s) \/ Refuse(s)
      PROVE  Inv'
  BY <1>1, <1>2, ServeStartInv, ServesInv, ServeSignalInv
<1>3. ASSUME NEW r \in DOMAIN runs, workflow_main(r) \/ TypeNotFound(r) \/ EndsOtherwise(r)
      PROVE  Inv'
  BY <1>1, <1>3, RunsInv
<1>4. ASSUME NEW c \in Conn, CallerStep(c) PROVE Inv'
  BY <1>1, <1>4, ExecReturnsInv, ExecRaisesInv, AsksInv, EndsInv DEF CallerStep
<1>5. ASSUME NEW c \in Conn,
             \/ exec_workflow(c) \/ wait_for_close(c) \/ new_workflow_stub_from_workflow_id(c)
             \/ exec_signal(c) \/ exec_query(c) \/ PeerGoes(c)
      PROVE  Inv'
  BY <1>1, <1>5, StartInv, AsksInv, QuietInv
<1>6. CASE UNCHANGED vars
  <2>1. RunsKept /\ DOMAIN runs' = DOMAIN runs /\ UNCHANGED <<wm, starts>>
        /\ NoNewRequests /\ NoNewAnswers
    BY <1>6, RunsUnchanged
    DEF vars, connVars, NoNewRequests, NoNewAnswers, AnswersIn
  <2>2. NoNewStarts /\ \A s \in sent' : Known(s.request.of)'
    BY <2>1, NoRequests
  <2>3. RunsType' /\ Domains'
    BY <1>6, RunsUnchanged DEF vars, callerVars, histVars, Inv, Domains
  <2>4. AnswersWell'
    BY <2>1, <2>2, SameAnswers, AnswersStay DEF Inv
  <2> QED
    BY <1>1, <1>6, <2>1, <2>2, <2>3, <2>4, Onward DEF vars, connVars, callerVars, histVars
<1> QED
  BY <1>2, <1>3, <1>4, <1>5, <1>6 DEF Next

\* The invariant holds throughout.
LEMMA Always == Spec => []Inv
  BY InitInvariant, NextInvariant, PTL DEF Spec

\* Every behaviour of callers and service is one of the connections that they share: what
\* ConnectionProofs shows of connections holds of these.
THEOREM Implements == Spec => ConnSpec
<1>1. Init => ConnInit
  BY DEF Init
<1> QED
  BY <1>1, ConnStep, Always, PTL DEF Spec, ConnSpec

\* A caller gets the answer to its own call, whatever it has given up before.
THEOREM CallersOwnAnswer == Spec => []OwnAnswer
  BY Implements, OwnAnswerHolds, PTL

\* Variables have their types; no run has another workflow id than its start asks for.
THEOREM TypeCorrect == Spec => []TypeOK
<1>1. Inv => TypeOK
  <2> SUFFICES ASSUME Inv PROVE TypeOK
    OBVIOUS
  <2>1. ASSUME NEW r \in DOMAIN runs PROVE runs[r].code \in wm.ends \cup {NotEnded}
    <3>1. PICK E, H : runs \in Seq([workflow_id : 0..MaxStarts, start : 1..MaxStarts, event : E,
                                    code : wm.ends \cup {NotEnded}, handled : H])
      BY DEF Inv, RunsType
    <3> DEFINE Q == [workflow_id : 0..MaxStarts, start : 1..MaxStarts, event : E,
                     code : wm.ends \cup {NotEnded}, handled : H]
    <3>2. runs \in Seq(Q)
      BY <3>1
    <3> HIDE DEF Q
    <3>3. runs[r] \in Q
      BY <3>2, InRuns, Zenon
    <3> QED
      BY <3>3 DEF Q
  <2>2. ASSUME NEW r \in DOMAIN runs
        PROVE  /\ runs[r].workflow_id = IF wm.named THEN TheId ELSE runs[r].start
               /\ runs[r].start \in 1..starts
    BY DEF Inv, RunsOwn, WorkflowIdFor
  <2>3. ASSUME NEW c \in Conn
        PROVE  /\ pc[c] \in {"idle", "starting", "wait", "waiting", "signalling", "querying"}
               /\ pc[c] \in {"idle", "wait"} <=> Idle(c)
               /\ {stub_execution[c], context[c], waits[c]} \subseteq Execution \cup {NoExecution}
               /\ context[c].run_id \in {NoRun} \cup DOMAIN runs
    BY NotNone DEF Inv, CallerInv, Known
  <2> QED
    BY <2>1, <2>2, <2>3 DEF Inv, ConnInv, Domains, TypeOK
<1> QED
  BY <1>1, Always, PTL

\* However often starts are asked for, refused, answered by error frames or given up, a caller
\* who gets a run gets its own, and whoever is told of an error has started none.
THEOREM StartsKnown == Spec => []StartsAreKnown
<1>1. Inv => StartsAreKnown
  <2> SUFFICES ASSUME Inv, NEW r \in DOMAIN runs
               PROVE  heard[runs[r].start] \in {Unheard, Raised, r}
    BY DEF StartsAreKnown
  <2>1. runs[r].start \in 1..MaxStarts
    <3>1. runs[r].start \in 1..starts /\ starts \in 0..MaxStarts /\ MaxStarts \in Nat
      BY ClientAssumption DEF Inv, RunsOwn, Domains
    <3> QED
      BY <3>1
  <2>2. HeardOf(runs[r].start)
    BY <2>1 DEF Inv
  <2> QED
    BY <2>2 DEF HeardOf, NoRunOf, Inv, RunsOwn
<1> QED
  BY <1>1, Always, PTL

\* A wait tells of the run that was asked for, in the way in which it has ended.
THEOREM OutcomesOwn == Spec => []OwnOutcome
<1>1. Inv => OwnOutcome
  BY DEF Inv, CallerInv, OwnOutcome
<1> QED
  BY <1>1, Always, PTL

-----------------------------------------------------------------------------
(* Causes *)

\* Exceptions and details have their class and their arguments apart.
LEMMA Written ==
  ASSUME NEW class, NEW args
  PROVE  /\ Exception(class, args).class = class /\ Exception(class, args).args = args
         /\ Details(class, args).source = THIS_SOURCE
         /\ Details(class, args).class = class /\ Details(class, args).args = args
         /\ serialize_exception(Exception(class, args)) = Details(class, args)
  BY DEF Exception, Details, serialize_exception

\* What is made of details is either what they were written from or an ExternalException
\* that holds them; it tells of the same class.
LEMMA MadeAnew ==
  ASSUME NEW class, NEW args, class # "ExternalException"
  PROVE  LET made == deserialize_exception(Details(class, args))
         IN  /\ \/ made = Exception(class, args) /\ Constructs(class, args)
                \/ made = Exception("ExternalException", <<Details(class, args)>>)
             /\ Tells(made) = class
<1>1. Details(class, args).class = class /\ Tells(Exception(class, args)) = class
  BY Written DEF Tells
<1>2. Tells(Exception("ExternalException", <<Details(class, args)>>)) = class
  <2>1. /\ Exception("ExternalException", <<Details(class, args)>>).class = "ExternalException"
        /\ Exception("ExternalException", <<Details(class, args)>>).args
             = <<Details(class, args)>>
    BY Written
  <2> QED
    BY <1>1, <2>1 DEF Tells
<1> QED
  BY <1>1, <1>2, Written DEF deserialize_exception

\* It is written again and made anew again without a further loss.
LEMMA MadeTwice ==
  ASSUME NEW class, NEW args, class # "ExternalException"
  PROVE  LET made == deserialize_exception(Details(class, args))
         IN  deserialize_exception(serialize_exception(made)) = made
<1> DEFINE details == Details(class, args)
<1> DEFINE made == deserialize_exception(details)
<1>1. CASE made = Exception(class, args) /\ Constructs(class, args)
  BY <1>1, Written DEF deserialize_exception
<1>2. CASE made = Exception("ExternalException", <<details>>)
  <2>1. Constructs("ExternalException", <<details>>)
    BY DEF Constructs
  <2>2. serialize_exception(made) = Details("ExternalException", <<details>>)
    BY <1>2, Written
  <2>3. deserialize_exception(Details("ExternalException", <<details>>))
          = Exception("ExternalException", <<details>>)
    BY <2>1, Written DEF deserialize_exception
  <2> QED
    BY <1>2, <2>2, <2>3
<1> QED
  BY <1>1, <1>2, MadeAnew

\* What the caller gets for what the code has raised tells of both classes.
TellsAll(end) ==
  LET exception == deserialize_exception(serialize_exception(end.exception))
  IN  /\ Tells(exception) = end.exception.class
      /\ Tells(IF Cause(exception) = NoException THEN exception ELSE Cause(exception))
           = end.origin.class

\* Where it has an ActivityFailureException, the cause of it is what was made of the activity's
\* own details.
LEMMA WrappedTells ==
  ASSUME NEW class, NEW args, class # "ExternalException", class # NoException.class
  PROVE  LET raised == ActivityFailureException(Details(class, args))
             shown == deserialize_exception(serialize_exception(raised))
         IN  /\ raised.class = "ActivityFailureException"
             /\ shown = raised
             /\ Cause(shown) # NoException
             /\ Tells(Cause(shown)) = class
<1> DEFINE inner == deserialize_exception(Details(class, args))
<1> DEFINE rest == <<Plain, Plain, Plain, serialize_exception(inner)>>
<1> DEFINE raised == ActivityFailureException(Details(class, args))
<1>1. raised = Exception("ActivityFailureException", rest)
  BY DEF ActivityFailureException
<1>2. rest[4] = serialize_exception(inner) /\ Len(rest) = 4
  OBVIOUS
<1>3. /\ Tells(inner) = class /\ deserialize_exception(serialize_exception(inner)) = inner
      /\ \/ inner = Exception(class, args)
         \/ inner = Exception("ExternalException", <<Details(class, args)>>)
  BY MadeAnew, MadeTwice
<1>4. inner # NoException
  <2>1. Exception(class, args).class = class
    BY Written
  <2>2. \A x : Exception("ExternalException", x).class = "ExternalException"
    BY Written
  <2>3. NoException.class # "ExternalException"
    BY Written DEF NoException
  <2> QED
    BY <1>3, <2>1, <2>2, <2>3
<1> HIDE DEF rest, inner
<1>5. raised.class = "ActivityFailureException" /\ raised.args = rest
  BY <1>1, Written
<1>6. deserialize_exception(serialize_exception(raised)) = raised
  <2>1. Constructs("ActivityFailureException", rest)
    BY <1>2 DEF Constructs
  <2>2. serialize_exception(raised) = Details("ActivityFailureException", rest)
    BY <1>1, Written
  <2>3. deserialize_exception(Details("ActivityFailureException", rest)) = raised
    BY <1>1, <2>1, Written DEF deserialize_exception
  <2> QED
    BY <2>2, <2>3
<1>7. Cause(raised) = inner
  BY <1>2, <1>3, <1>5 DEF Cause, CauseOf, set_cause
<1> QED
  BY <1>3, <1>4, <1>5, <1>6, <1>7

\* A timeout is told of like an exception that the activity has raised.
LEMMA TimeoutTells ==
  LET shown == deserialize_exception(serialize_exception(ActivityTimeout))
  IN  /\ ActivityTimeout.class = "ActivityFailureException"
      /\ shown = ActivityTimeout
      /\ Cause(shown) # NoException
      /\ Tells(Cause(shown)) = ActivityTaskTimeoutException.class
<1> DEFINE details == Details("ActivityTaskTimeoutException", <<>>)
<1> DEFINE rest == <<Plain, Plain, Plain, details>>
<1>1. /\ ActivityTaskTimeoutException.class = "ActivityTaskTimeoutException"
      /\ serialize_exception(ActivityTaskTimeoutException) = details
  BY Written DEF ActivityTaskTimeoutException
<1>2. ActivityTimeout = Exception("ActivityFailureException", rest)
  BY <1>1 DEF ActivityTimeout
<1>3. rest[4] = details /\ Len(rest) = 4
  OBVIOUS
<1>4. "ActivityTaskTimeoutException" # "ExternalException"
  OBVIOUS
<1>5. /\ Tells(deserialize_exception(details)) = "ActivityTaskTimeoutException"
      /\ \/ deserialize_exception(details) = Exception("ActivityTaskTimeoutException", <<>>)
         \/ deserialize_exception(details) = Exception("ExternalException", <<details>>)
  BY <1>4, MadeAnew
<1> HIDE DEF details, rest
<1>6. deserialize_exception(details) # NoException
  <2>1. \A class, args : Exception(class, args).class = class
    BY Written
  <2>2. NoException.class = "none"
    BY <2>1 DEF NoException
  <2> QED
    BY <1>5, <2>1, <2>2
<1>7. ActivityTimeout.class = "ActivityFailureException" /\ ActivityTimeout.args = rest
  BY <1>2, Written
<1>8. deserialize_exception(serialize_exception(ActivityTimeout)) = ActivityTimeout
  <2>1. Constructs("ActivityFailureException", rest)
    BY <1>3 DEF Constructs
  <2>2. serialize_exception(ActivityTimeout) = Details("ActivityFailureException", rest)
    BY <1>2, Written
  <2>3. deserialize_exception(Details("ActivityFailureException", rest)) = ActivityTimeout
    BY <1>2, <2>1, Written DEF deserialize_exception
  <2> QED
    BY <2>2, <2>3
<1>9. Cause(ActivityTimeout) = deserialize_exception(details)
  BY <1>3, <1>7 DEF Cause, CauseOf, set_cause
<1> QED
  BY <1>1, <1>5, <1>6, <1>7, <1>8, <1>9

\* However the code ends, if it raises.
LEMMA EndsTell ==
  ASSUME NEW end, MayEnd(end), end.exception # NoException
  PROVE  TellsAll(end)
<1> DEFINE shown == deserialize_exception(serialize_exception(end.exception))
<1>1. CASE /\ end.origin.class # "ExternalException" /\ end.origin.class # NoException.class
           /\ end.exception = end.origin /\ end.origin.class # "ActivityFailureException"
  <2>1. serialize_exception(end.exception) = Details(end.exception.class, end.exception.args)
    BY DEF serialize_exception
  <2>2. /\ Tells(shown) = end.exception.class
        /\ \/ shown = Exception(end.exception.class, end.exception.args)
           \/ shown = Exception("ExternalException", <<serialize_exception(end.exception)>>)
    <3> DEFINE class == end.exception.class
    <3> DEFINE args == end.exception.args
    <3>1. class # "ExternalException"
      BY <1>1
    <3>2. LET made == deserialize_exception(Details(class, args))
          IN  /\ \/ made = Exception(class, args) /\ Constructs(class, args)
                 \/ made = Exception("ExternalException", <<Details(class, args)>>)
              /\ Tells(made) = class
      BY <3>1, MadeAnew
    <3> QED
      BY <2>1, <3>2
  <2>3. shown.class # "ActivityFailureException"
    BY <1>1, <2>2, Written
  <2>4. Cause(shown) = NoException
    BY <2>3 DEF Cause, CauseOf
  <2> QED
    BY <1>1, <2>2, <2>4 DEF TellsAll
<1>2. CASE /\ end.origin.class # "ExternalException" /\ end.origin.class # NoException.class
           /\ end.exception = ActivityFailureException(serialize_exception(end.origin))
  <2> DEFINE class == end.origin.class
  <2> DEFINE args == end.origin.args
  <2>1. serialize_exception(end.origin) = Details(class, args)
    BY DEF serialize_exception
  <2>2. /\ end.exception.class = "ActivityFailureException" /\ shown = end.exception
        /\ Cause(shown) # NoException /\ Tells(Cause(shown)) = class
    BY <1>2, <2>1, WrappedTells
  <2>3. Tells(shown) = end.exception.class
    BY <2>2 DEF Tells
  <2> QED
    BY <2>2, <2>3 DEF TellsAll
<1>3. CASE end.exception = ActivityTimeout /\ end.origin = ActivityTaskTimeoutException
  <2>1. Tells(shown) = end.exception.class
    BY <1>3, TimeoutTells DEF Tells
  <2> QED
    BY <1>3, <2>1, TimeoutTells DEF TellsAll
<1> QED
  BY <1>1, <1>2, <1>3 DEF MayEnd

\* A run that has failed has done so by what its code has raised.
FailsByCode(run) ==
  run.event.kind = "failed" =>
    /\ run.code \in wm.ends /\ run.code.exception # NoException
    /\ run.event.details = serialize_exception(run.code.exception)

\* What a wait has told of a failure is made of the details of the run's last event.
ShownOf(out) ==
  out.kind = "failed" =>
    /\ out.exception = deserialize_exception(runs[out.run].event.details)
    /\ out.cause = Cause(out.exception)

CauseInv ==
  /\ \A r \in DOMAIN runs : FailsByCode(runs[r])
  /\ \A c \in Conn : ShownOf(outcome[c])

\* What a run may change about itself.
Handles(r, handled) == runs' = [runs EXCEPT ![r].handled = handled]
MayHandle(r, handled) ==
  \/ handled = runs[r].handled \cup {SignalMethod}
  \/ handled = {NotFound} /\ TypeName \notin DOMAIN registry.workflow_methods
Closes(r, kind) == runs' = [runs EXCEPT ![r].event = [kind |-> kind, details |-> Plain]]
Returns(r, end) == runs' = [runs EXCEPT ![r].code = end, ![r].event = EventOf(end)]

\* Each run is a record of its fields.
LEMMA RunsWhole == ASSUME Inv PROVE \A r \in DOMAIN runs : Whole(runs[r])
<1>1. PICK E, H : runs \in Seq([workflow_id : 0..MaxStarts, start : 1..MaxStarts, event : E,
                                code : wm.ends \cup {NotEnded}, handled : H])
  BY DEF Inv, RunsType
<1> DEFINE Q == [workflow_id : 0..MaxStarts, start : 1..MaxStarts, event : E,
                 code : wm.ends \cup {NotEnded}, handled : H]
<1>2. \A run \in Q : Whole(run)
  BY DEF Whole
<1>3. runs \in Seq(Q)
  BY <1>1
<1> HIDE DEF Q
<1> QED
  BY <1>2, <1>3, InRuns

\* A run is added, of which nothing has run yet.
Starts ==
  \E run : /\ run.event = NoEvent /\ run.code = NotEnded /\ run.handled = {}
           /\ runs' = Append(runs, run)

\* What becomes of the runs.
LEMMA RunsGo ==
  ASSUME Inv, Next \/ UNCHANGED vars
  PROVE  /\ UNCHANGED wm
         /\ \/ UNCHANGED runs
            \/ Starts
            \/ \E r \in DOMAIN runs :
                 /\ IsOpen(r)
                 /\ \/ \E handled : MayHandle(r, handled) /\ Handles(r, handled)
                    \/ \E kind \in OtherEnds : Closes(r, kind)
                    \/ /\ TypeName \in DOMAIN registry.workflow_methods
                       /\ \E end \in wm.ends : Returns(r, end)
<1>1. ASSUME NEW s \in sent, ServeStart(s)
      PROVE  UNCHANGED wm /\ (UNCHANGED runs \/ Starts)
  <2>1. PICK run : /\ run = [workflow_id |-> s.request.of.workflow_id, start |-> s.request.start,
                             event |-> NoEvent, code |-> NotEnded, handled |-> {}]
    OBVIOUS
  <2>2. run.event = NoEvent /\ run.code = NotEnded /\ run.handled = {}
    BY <2>1
  <2> QED
    BY <1>1, <2>1, <2>2 DEF ServeStart, Starts
<1>2. ASSUME NEW s \in sent, ServeHistory(s) \/ ServeQuery(s) \/ Refuse(s)
      PROVE  UNCHANGED <<wm, runs>>
  <2>1. CASE ServeHistory(s)
    BY <2>1, Zenon DEF ServeHistory
  <2>2. CASE ServeQuery(s)
    BY <2>2, Zenon DEF ServeQuery
  <2>3. CASE Refuse(s)
    BY <2>3, Zenon DEF Refuse
  <2> QED
    BY <1>2, <2>1, <2>2, <2>3
<1>3. ASSUME NEW s \in sent, ServeSignal(s)
      PROVE  /\ UNCHANGED wm
             /\ \E r \in DOMAIN runs :
                  IsOpen(r) /\ \E handled : MayHandle(r, handled) /\ Handles(r, handled)
  <2>1. \E r \in DOMAIN runs : IsOpen(r) /\ Handles(r, runs[r].handled \cup {SignalMethod})
    <3>1. \E r : /\ r = Target(s.request.of) /\ r # NoRun /\ IsOpen(r)
                 /\ Handles(r, runs[r].handled \cup {SignalMethod})
      BY <1>3, Zenon DEF ServeSignal, Handles
    <3>2. Target(s.request.of) # NoRun => Target(s.request.of) \in DOMAIN runs
      BY TargetIsThere DEF Inv, Asked
    <3> QED
      BY <3>1, <3>2
  <2> QED
    BY <1>3, <2>1, Zenon DEF ServeSignal, MayHandle
<1>4. ASSUME NEW r \in DOMAIN runs, workflow_main(r) \/ TypeNotFound(r) \/ EndsOtherwise(r)
      PROVE  /\ UNCHANGED wm
             /\ IsOpen(r)
             /\ \/ \E handled : MayHandle(r, handled) /\ Handles(r, handled)
                \/ \E kind \in OtherEnds : Closes(r, kind)
                \/ /\ TypeName \in DOMAIN registry.workflow_methods
                   /\ \E end \in wm.ends : Returns(r, end)
  <2>1. CASE workflow_main(r)
    BY <2>1, Zenon DEF workflow_main, Returns
  <2>2. CASE TypeNotFound(r)
    BY <2>2, Zenon DEF TypeNotFound, Handles, MayHandle
  <2>3. CASE EndsOtherwise(r)
    BY <2>3, Zenon DEF EndsOtherwise, Closes
  <2> QED
    BY <1>4, <2>1, <2>2, <2>3
<1>5. ASSUME NEW c \in Conn, CallerStep(c) PROVE UNCHANGED <<wm, runs>>
  BY <1>5 DEF CallerStep, ExecReturns, ExecRaises, get_workflow_execution_history, WaitsOn,
              WaitEnds, WaitRaises, ExecEnds
<1>6. ASSUME NEW c \in Conn,
             \/ exec_workflow(c) \/ wait_for_close(c) \/ new_workflow_stub_from_workflow_id(c)
             \/ exec_signal(c) \/ exec_query(c) \/ PeerGoes(c)
      PROVE  UNCHANGED <<wm, runs>>
  BY <1>6 DEF exec_workflow, wait_for_close, new_workflow_stub_from_workflow_id, exec_signal,
              exec_query, PeerGoes
<1>7. CASE UNCHANGED vars
  BY <1>7 DEF vars
<1> QED
  BY <1>1, <1>2, <1>3, <1>4, <1>5, <1>6, <1>7 DEF Next

\* Runs that have ended stay as they are, and fail by their code alone.
LEMMA RunsFail ==
  ASSUME Inv, Next \/ UNCHANGED vars, \A r \in DOMAIN runs : FailsByCode(runs[r])
  PROVE  /\ UNCHANGED wm
         /\ \A r \in DOMAIN runs : ~IsOpen(r) => runs'[r] = runs[r]
         /\ \A r \in DOMAIN runs' : FailsByCode(runs[r])'
<1>1. UNCHANGED wm
  BY RunsGo
<1>2. NoEvent.kind # "failed"
  BY DEF NoEvent
<1>3. \A r \in DOMAIN runs : Whole(runs[r])
  BY RunsWhole
<1>4. CASE runs' = runs
  BY <1>1, <1>4 DEF FailsByCode
<1>5. CASE Starts
  <2>1. PICK run : run.event = NoEvent /\ runs' = Append(runs, run)
    BY <1>5 DEF Starts
  <2>2. PICK Q : runs \in Seq(Q)
    BY DEF Inv, RunsType
  <2>3. \A r \in DOMAIN runs : runs'[r] = runs[r]
    BY <2>1, <2>2
  <2>4. \A r \in DOMAIN runs' : r \in DOMAIN runs \/ runs'[r] = run
    BY <2>1, <2>2
  <2>5. FailsByCode(run)
    BY <1>2, <2>1 DEF FailsByCode
  <2>6. \A r \in DOMAIN runs' : FailsByCode(runs[r])'
    <3>1. \A r \in DOMAIN runs' : \/ FailsByCode(runs[r]) /\ runs'[r] = runs[r]
                                 \/ runs'[r] = run
      BY <2>3, <2>4
    <3> QED
      BY <1>1, <2>5, <3>1 DEF FailsByCode
  <2> QED
    BY <1>1, <2>3, <2>6
<1>6. ASSUME NEW r \in DOMAIN runs, NEW run, runs' = [runs EXCEPT ![r] = run], IsOpen(r),
             FailsByCode(run)
      PROVE  /\ \A q \in DOMAIN runs : ~IsOpen(q) => runs'[q] = runs[q]
             /\ \A q \in DOMAIN runs' : FailsByCode(runs[q])'
  <2>1. \A q \in DOMAIN runs : runs'[q] = IF q = r THEN run ELSE runs[q]
    BY <1>6
  <2>2. DOMAIN runs' = DOMAIN runs
    BY <1>6
  <2> QED
    BY <1>1, <1>6, <2>1, <2>2 DEF FailsByCode
<1>7. ASSUME NEW r \in DOMAIN runs, NEW handled, IsOpen(r), Handles(r, handled)
      PROVE  \E run : runs' = [runs EXCEPT ![r] = run] /\ FailsByCode(run)
  <2>1. PICK run : run = [runs[r] EXCEPT !.handled = handled]
    OBVIOUS
  <2>2. run.event = runs[r].event
    BY <1>3, <2>1 DEF Whole
  <2>3. FailsByCode(run)
    BY <1>2, <1>7, <2>2 DEF FailsByCode, IsOpen
  <2> QED
    BY <1>7, <2>1, <2>3 DEF Handles
<1>8. ASSUME NEW r \in DOMAIN runs, NEW kind \in OtherEnds, IsOpen(r), Closes(r, kind)
      PROVE  \E run : runs' = [runs EXCEPT ![r] = run] /\ FailsByCode(run)
  <2>1. PICK run : run = [runs[r] EXCEPT !.event = [kind |-> kind, details |-> Plain]]
    OBVIOUS
  <2>2. run.event.kind = kind
    BY <1>3, <2>1 DEF Whole
  <2>3. FailsByCode(run)
    BY <2>2, EndsAssumption DEF FailsByCode
  <2> QED
    BY <1>8, <2>1, <2>3 DEF Closes
<1>9. ASSUME NEW r \in DOMAIN runs, NEW end \in wm.ends, IsOpen(r), Returns(r, end)
      PROVE  \E run : runs' = [runs EXCEPT ![r] = run] /\ FailsByCode(run)
  <2>1. PICK run : run = [[runs[r] EXCEPT !.code = end] EXCEPT !.event = EventOf(end)]
    OBVIOUS
  <2>2. run.event = EventOf(end) /\ run.code = end
    BY <1>3, <2>1 DEF Whole
  <2>3. EventOf(end).kind = "failed" =>
          end.exception # NoException /\ EventOf(end).details = serialize_exception(end.exception)
    BY <1>2 DEF EventOf
  <2>4. FailsByCode(run)
    BY <2>2, <2>3 DEF FailsByCode
  <2>5. runs' = [runs EXCEPT ![r] = run]
    BY <1>9, <2>1 DEF Returns
  <2> QED
    BY <2>4, <2>5
<1> QED
  BY <1>1, <1>4, <1>5, <1>6, <1>7, <1>8, <1>9, RunsGo

\* What a wait has come to stays until the caller does something else.
LEMMA OutcomesGo ==
  ASSUME Inv, Next \/ UNCHANGED vars, NEW c \in Conn
  PROVE  \/ outcome'[c] = outcome[c]
         \/ outcome'[c] = NoOutcome
         \/ \E r \in DOMAIN runs : /\ ~IsOpen(r) /\ UNCHANGED runs
                                   /\ outcome'[c] = OutcomeOf(waits[c], r)
<1>1. CASE UNCHANGED outcome
  BY <1>1
<1>2. ASSUME NEW d \in Conn, outcome' = [outcome EXCEPT ![d] = NoOutcome]
      PROVE  outcome'[c] = outcome[c] \/ outcome'[c] = NoOutcome
  BY <1>2, CallerDomains
<1>3. ASSUME NEW d \in Conn, WaitEnds(d)
      PROVE  \/ outcome'[c] = outcome[c]
             \/ \E r \in DOMAIN runs : /\ ~IsOpen(r) /\ UNCHANGED runs
                                       /\ outcome'[c] = OutcomeOf(waits[c], r)
  <2>1. PICK r : /\ r \in DOMAIN runs /\ ~IsOpen(r)
                 /\ outcome' = [outcome EXCEPT ![d] = OutcomeOf(waits[d], r)]
                 /\ UNCHANGED runs
    BY <1>3, Waited DEF WaitEnds
  <2> QED
    BY <2>1, CallerDomains
<1>4. ASSUME NEW d \in Conn, CallerStep(d), ~WaitEnds(d) PROVE UNCHANGED outcome
  BY <1>4 DEF CallerStep, ExecReturns, ExecRaises, get_workflow_execution_history, WaitsOn,
              WaitRaises, ExecEnds, histVars
<1>5. ASSUME NEW d \in Conn,
             exec_workflow(d) \/ wait_for_close(d) \/ exec_signal(d) \/ exec_query(d)
      PROVE  outcome' = [outcome EXCEPT ![d] = NoOutcome]
  BY <1>5 DEF exec_workflow, wait_for_close, exec_signal, exec_query
<1>6. ASSUME NEW d \in Conn, new_workflow_stub_from_workflow_id(d) \/ PeerGoes(d)
      PROVE  UNCHANGED outcome
  BY <1>6 DEF new_workflow_stub_from_workflow_id, PeerGoes, histVars
<1>7. ASSUME NEW s \in sent,
             ServeStart(s) \/ ServeHistory(s) \/ ServeSignal(s) \/ ServeQuery(s) \/ Refuse(s)
      PROVE  UNCHANGED outcome
  <2>1. CASE ServeStart(s)
    BY <2>1, Zenon DEF ServeStart, histVars
  <2>2. CASE ServeHistory(s)
    BY <2>2, Zenon DEF ServeHistory, histVars
  <2>3. CASE ServeSignal(s)
    BY <2>3, Zenon DEF ServeSignal, histVars
  <2>4. CASE ServeQuery(s)
    BY <2>4, Zenon DEF ServeQuery, histVars
  <2>5. CASE Refuse(s)
    BY <2>5, Zenon DEF Refuse, histVars
  <2> QED
    BY <1>7, <2>1, <2>2, <2>3, <2>4, <2>5
<1>8. ASSUME NEW r \in DOMAIN runs, workflow_main(r) \/ TypeNotFound(r) \/ EndsOtherwise(r)
      PROVE  UNCHANGED outcome
  BY <1>8, Zenon DEF workflow_main, TypeNotFound, EndsOtherwise, histVars
<1>9. CASE UNCHANGED vars
  BY <1>9 DEF vars, histVars
<1> QED
  BY <1>1, <1>2, <1>3, <1>4, <1>5, <1>6, <1>7, <1>8, <1>9 DEF Next

\* So it is still told of what the run has failed by.
LEMMA CausesKept == Inv /\ CauseInv /\ [Next]_vars => CauseInv'
<1> SUFFICES ASSUME Inv, CauseInv, Next \/ UNCHANGED vars PROVE CauseInv'
  OBVIOUS
<1>1. /\ UNCHANGED wm
      /\ \A r \in DOMAIN runs : ~IsOpen(r) => runs'[r] = runs[r]
      /\ \A r \in DOMAIN runs' : FailsByCode(runs[r])'
  BY RunsFail DEF CauseInv
<1>2. ASSUME NEW c \in Conn PROVE ShownOf(outcome[c])'
  <2>1. NoOutcome.kind # "failed"
    BY DEF NoOutcome
  <2>2. CASE outcome'[c] = outcome[c]
    <3>1. CASE outcome[c].kind = "failed"
      <4>1. outcome[c].run \in DOMAIN runs /\ ~IsOpen(outcome[c].run)
        BY <2>1, <3>1 DEF Inv, CallerInv
      <4>2. runs'[outcome[c].run] = runs[outcome[c].run]
        BY <1>1, <4>1
      <4> QED
        BY <2>2, <4>2 DEF CauseInv, ShownOf, Cause
    <3> QED
      BY <2>2, <3>1 DEF ShownOf
  <2>3. CASE outcome'[c] = NoOutcome
    BY <2>1, <2>3 DEF ShownOf
  <2>4. ASSUME NEW r \in DOMAIN runs, UNCHANGED runs, outcome'[c] = OutcomeOf(waits[c], r)
        PROVE  ShownOf(outcome[c])'
    <3>1. /\ outcome'[c].run = r /\ outcome'[c].kind = runs[r].event.kind
          /\ outcome'[c].cause = Cause(outcome'[c].exception)
          /\ runs[r].event.kind = "failed" =>
               outcome'[c].exception = deserialize_exception(runs[r].event.details)
      BY <2>4 DEF OutcomeOf
    <3> QED
      BY <2>4, <3>1 DEF ShownOf, Cause
  <2> QED
    BY <2>2, <2>3, <2>4, OutcomesGo
<1> QED
  BY <1>1, <1>2 DEF CauseInv

\* A caller who waits for a workflow that fails gets to see the class of what its code has
\* raised, and of what an activity has raised if that was it, however many of the classes on
\* the way cannot be made again.
THEOREM CausesShown == Spec => []CauseIsShown
<1>1. Init => CauseInv
  BY DEF Init, CauseInv, ShownOf, NoOutcome
<1>2. Inv /\ CauseInv => CauseIsShown
  <2> SUFFICES ASSUME Inv, CauseInv, NEW c \in Conn, outcome[c].kind = "failed"
               PROVE  LET out == outcome[c]
                          code == runs[out.run].code
                      IN  /\ Tells(out.exception) = code.exception.class
                          /\ Tells(IF out.cause = NoException THEN out.exception ELSE out.cause)
                               = code.origin.class
    BY DEF CauseIsShown
  <2> DEFINE r == outcome[c].run
  <2>1. r \in DOMAIN runs /\ runs[r].event.kind = "failed"
    <3>1. NoOutcome.kind # "failed"
      BY DEF NoOutcome
    <3> QED
      BY <3>1 DEF Inv, CallerInv
  <2>2. /\ runs[r].code \in wm.ends /\ runs[r].code.exception # NoException
        /\ runs[r].event.details = serialize_exception(runs[r].code.exception)
    BY <2>1 DEF CauseInv, FailsByCode
  <2>3. TellsAll(runs[r].code)
    <3>1. MayEnd(runs[r].code)
      BY <2>2, EndsAssumption DEF Inv, Domains
    <3> QED
      BY <2>2, <3>1, EndsTell
  <2>4. /\ outcome[c].exception = deserialize_exception(runs[r].event.details)
        /\ outcome[c].cause = Cause(outcome[c].exception)
    BY DEF CauseInv, ShownOf
  <2> QED
    BY <2>2, <2>3, <2>4 DEF TellsAll
<1> QED
  BY <1>1, <1>2, CausesKept, Always, PTL DEF Spec

-----------------------------------------------------------------------------
(* Methods *)

\* The name of the interface's class.
InterfaceName == find_interface_class(Implementation).cls

\* The implementation's methods that a worker runs are in one of the two spellings, and are
\* defined, under no names of the user's, in the class that is registered.
Registered ==
  /\ Implementation \in Seq(Range(Implementation))
  /\ Implementation # <<>>
  /\ \A i \in DOMAIN Implementation :
       /\ Implementation[i].cls # NoClass
       /\ \A name \in DOMAIN Implementation[i].methods : Implementation[i].methods[name].given = <<>>
  /\ \A kind \in {"workflow", "signal"} : \A name \in Decorated(Implementation, kind) :
       SpelledBy(name, Words(name)) /\ name \in DOMAIN Implementation[1].methods

\* A method of a stub's class is declared by a class with the interface's name, and, if it
\* is in one of the two spellings, is one of the implementation's.
IsDeclared(stub, kind, name) ==
  /\ Member(stub, name).cls = InterfaceName
  /\ Member(stub, name).methods[name].given = <<>>
  /\ IsSpelled(name) => \E method \in Decorated(Implementation, kind) : SameMethod(method, name)

\* Each stub's class has such methods.
StubsMatch ==
  \A workflow \in WorkflowMethod : \A kind \in {"workflow", "signal"} :
    /\ Members(workflow.stub, kind) # {}
    /\ \A name \in Members(workflow.stub, kind) : IsDeclared(workflow.stub, kind, name)

\* The least element of a set of numbers is one of its elements.
LEMMA MinIsIn ==
  ASSUME NEW T \in SUBSET Nat, T # {}
  PROVE  Min(T) \in T /\ \A n \in T : Min(T) <= n
<1>1. \E n \in T : \A m \in T : n <= m
  BY LeastNumber
<1> QED
  BY <1>1 DEF Min

\* What find_metadata_field finds.
LEMMA MetadataFound ==
  ASSUME Registered, NEW kind, NEW name \in Decorated(Implementation, kind)
  PROVE  \E cls : cls # NoClass /\ find_metadata_field(Implementation, kind, name) = Key(cls, name)
<1> DEFINE T == Declaring(Implementation, kind, name)
<1>1. T \subseteq DOMAIN Implementation /\ T # {}
  BY DEF Decorated, Declaring
<1>2. T \in SUBSET Nat
  BY <1>1 DEF Registered
<1>3. Min(T) \in T
  BY <1>1, <1>2, MinIsIn
<1>4. Min(T) \in DOMAIN Implementation /\ name \in DOMAIN Implementation[Min(T)].methods
  BY <1>3 DEF Declaring
<1>5. /\ Implementation[Min(T)].cls # NoClass
      /\ Implementation[Min(T)].methods[name].given = <<>>
  BY <1>4 DEF Registered
<1>6. find_metadata_field(Implementation, kind, name) = Key(Implementation[Min(T)].cls, name)
  BY <1>5, Zenon DEF find_metadata_field, DeclaredName
<1> QED
  BY <1>5, <1>6

\* getattr finds what the registered class defines itself.
LEMMA FindsOwn ==
  ASSUME Registered, NEW name \in DOMAIN Implementation[1].methods
  PROVE  getattr(Implementation, name) = [cls |-> Implementation[1].cls, name |-> name]
<1> DEFINE T == {i \in DOMAIN Implementation : name \in DOMAIN Implementation[i].methods}
<1>1. 1 \in DOMAIN Implementation /\ DOMAIN Implementation \subseteq Nat \ {0}
  BY DEF Registered
<1>2. T \in SUBSET Nat /\ 1 \in T /\ 0 \notin T
  BY <1>1
<1>3. Min(T) = 1
  <2> HIDE DEF T
  <2>1. Min(T) \in T /\ Min(T) <= 1
    BY <1>2, MinIsIn
  <2>2. Min(T) \in Nat \ {0}
    BY <1>2, <2>1
  <2> QED
    BY <2>1, <2>2
<1>4. Member(Implementation, name) = Implementation[1]
  BY <1>3, Zenon DEF Member
<1> QED
  BY <1>4 DEF getattr

\* Where a method's entries are.
LEMMA KeysAre ==
  ASSUME NEW cls, NEW own, own # NoClass, NEW name, SpelledBy(name, Words(name))
  PROVE  Keys(cls, Key(own, name)) =
           {Key(own, name), Key(cls, Snake(Words(name))), Key(cls, Camel(Words(name)))}
<1>1. /\ camel_to_snake(name) = Snake(Words(name))
      /\ snake_to_camel(name) = Camel(Words(name))
  BY BothSpelled
<1> QED
  BY <1>1 DEF Keys, Key, BothSpellings

\* All of them are of the method's words.
LEMMA KeysMean ==
  ASSUME NEW cls, NEW own, own # NoClass, NEW name, SpelledBy(name, Words(name)),
         NEW key \in Keys(cls, Key(own, name))
  PROVE  SameMethod(key.name, name)
<1>1. key.name \in {name, Snake(Words(name)), Camel(Words(name))}
  BY KeysAre DEF Key
<1>2. SpelledBy(key.name, Words(name))
  BY <1>1 DEF SpelledBy
<1> QED
  BY <1>2, BothSpelled DEF SameMethod

\* An entry is of the class that is registered, and of the words of its key.
LEMMA EntriesMean ==
  ASSUME Registered, NEW kind \in {"workflow", "signal"},
         NEW key \in DOMAIN Entries(Implementation, kind, InterfaceName)
  PROVE  /\ Entries(Implementation, kind, InterfaceName)[key].cls = Implementation[1].cls
         /\ SameMethod(key.name, Entries(Implementation, kind, InterfaceName)[key].name)
<1> DEFINE names == Decorated(Implementation, kind)
           keys(n) == Keys(InterfaceName, find_metadata_field(Implementation, kind, n))
           name == CHOOSE n \in names : key \in keys(n)
<1>1. Entries(Implementation, kind, InterfaceName) =
        [k \in UNION {keys(n) : n \in names} |-> getattr(Implementation, CHOOSE n \in names : k \in keys(n))]
  BY Zenon DEF Entries
<1> HIDE DEF names, keys
<1>2. key \in UNION {keys(n) : n \in names}
  BY <1>1
<1>3. Entries(Implementation, kind, InterfaceName)[key] = getattr(Implementation, name)
  BY <1>1, <1>2
<1>4. \E n \in names : key \in keys(n)
  BY <1>2
<1>5. name \in names /\ key \in keys(name)
  BY <1>4, Zenon
<1> HIDE DEF name
<1>6. PICK own : own # NoClass /\ find_metadata_field(Implementation, kind, name) = Key(own, name)
  BY <1>5, MetadataFound DEF names
<1>7. SpelledBy(name, Words(name)) /\ name \in DOMAIN Implementation[1].methods
  BY <1>5 DEF names, Registered
<1>8. key \in Keys(InterfaceName, Key(own, name))
  BY <1>5, <1>6 DEF keys
<1>9. SameMethod(key.name, name)
  BY <1>6, <1>7, <1>8, KeysMean
<1>10. getattr(Implementation, name) = [cls |-> Implementation[1].cls, name |-> name]
  BY <1>7, FindsOwn
<1> QED
  BY <1>3, <1>9, <1>10

\* A name in one of the two spellings is found, if the implementation has its method.
LEMMA EntriesFind ==
  ASSUME Registered, NEW kind \in {"workflow", "signal"}, NEW name, IsSpelled(name),
         NEW method \in Decorated(Implementation, kind), SameMethod(method, name)
  PROVE  Key(InterfaceName, name) \in DOMAIN Entries(Implementation, kind, InterfaceName)
<1> DEFINE names == Decorated(Implementation, kind)
           keys(n) == Keys(InterfaceName, find_metadata_field(Implementation, kind, n))
<1>1. DOMAIN Entries(Implementation, kind, InterfaceName) = UNION {keys(n) : n \in names}
  BY DEF Entries
<1>2. PICK own : own # NoClass /\ find_metadata_field(Implementation, kind, method) = Key(own, method)
  BY MetadataFound
<1>3. SpelledBy(method, Words(method))
  BY DEF Registered
<1>4. name \in {Snake(Words(method)), Camel(Words(method))}
  BY DEF IsSpelled, SameMethod
<1>5. Key(InterfaceName, name) \in Keys(InterfaceName, Key(own, method))
  BY <1>2, <1>3, <1>4, KeysAre
<1>6. Key(InterfaceName, name) \in keys(method)
  BY <1>2, <1>5
<1> HIDE DEF keys
<1> QED
  BY <1>1, <1>6

\* Entries are a function.
LEMMA EntriesAre ==
  ASSUME NEW mro, NEW kind, NEW cls
  PROVE  Entries(mro, kind, cls) = [key \in DOMAIN Entries(mro, kind, cls) |-> Entries(mro, kind, cls)[key]]
<1> DEFINE names == Decorated(mro, kind)
           keys(n) == Keys(cls, find_metadata_field(mro, kind, n))
           found(k) == getattr(mro, CHOOSE n \in names : k \in keys(n))
           all == UNION {keys(n) : n \in names}
<1>1. PICK entries : entries = Entries(mro, kind, cls)
  OBVIOUS
<1>2. entries = [k \in all |-> found(k)]
  BY <1>1, Zenon DEF Entries
<1> HIDE DEF found, all
<1>3. entries = [key \in DOMAIN entries |-> entries[key]]
  BY <1>2
<1> QED
  BY <1>1, <1>3, Zenon

\* What is in the tables of a worker with one implementation.
LEMMA Tables ==
  ASSUME Registered
  PROVE  /\ registry.workflow_methods = Entries(Implementation, "workflow", InterfaceName)
         /\ SignalMethods(registry, Implementation) = Entries(Implementation, "signal", InterfaceName)
<1> DEFINE workflows == Entries(Implementation, "workflow", InterfaceName)
           entries == Entries(Implementation, "signal", InterfaceName)
           cls == Implementation[1].cls
<1>1. /\ registry.workflow_methods = Updated(<<>>, workflows)
      /\ registry.signal_methods = Extend(<<>>, Implementation, entries)
  BY DEF registry, register_workflow_implementation_type, NoImplementations, InterfaceName
<1>2. /\ workflows = [key \in DOMAIN workflows |-> workflows[key]]
      /\ entries = [key \in DOMAIN entries |-> entries[key]]
  BY EntriesAre, Zenon
<1> HIDE DEF workflows, entries
<1>3. ASSUME NEW table, table = [key \in DOMAIN table |-> table[key]] PROVE Updated(<<>>, table) = table
  <2>1. DOMAIN <<>> = {}
    OBVIOUS
  <2> QED
    BY <1>3, <2>1 DEF Updated
<1>4. Holder(<<>>, Implementation) = cls
  <2>1. {i \in DOMAIN Implementation : Implementation[i].cls \in DOMAIN <<>>} = {}
    OBVIOUS
  <2> QED
    BY <2>1, Zenon DEF Holder
<1>5. registry.signal_methods = [holder \in {cls} |-> entries]
  <2>1. cls \notin DOMAIN <<>>
    OBVIOUS
  <2>2. registry.signal_methods = Updated(<<>>, [holder \in {cls} |-> Updated(<<>>, entries)])
    BY <1>1, <1>4, <2>1, Zenon DEF Extend
  <2>3. Updated(<<>>, entries) = entries
    BY <1>2, <1>3
  <2> QED
    BY <1>3, <2>2, <2>3
<1>6. Holder(registry.signal_methods, Implementation) = cls
  <2> DEFINE T == {i \in DOMAIN Implementation : Implementation[i].cls \in DOMAIN registry.signal_methods}
  <2>1. DOMAIN registry.signal_methods = {cls}
    BY <1>5
  <2>2. 1 \in DOMAIN Implementation /\ DOMAIN Implementation \subseteq Nat
    BY DEF Registered
  <2>3. T \in SUBSET Nat /\ T # {}
    BY <2>1, <2>2
  <2>4. Min(T) \in T
    BY <2>3, MinIsIn
  <2>5. Implementation[Min(T)].cls = cls
    BY <2>1, <2>4
  <2>6. Holder(registry.signal_methods, Implementation) = Implementation[Min(T)].cls
    BY <2>3, Zenon DEF Holder
  <2> QED
    BY <2>5, <2>6
<1>7. SignalMethods(registry, Implementation) = entries
  BY <1>5, <1>6 DEF SignalMethods
<1> QED
  BY <1>1, <1>2, <1>3, <1>7 DEF workflows, entries

\* What a stub asks for is found among the entries, if it is in one of the two spellings.
LEMMA StubFinds ==
  ASSUME Registered, StubsMatch, wm \in WorkflowMethod, NEW kind \in {"workflow", "signal"}, NEW key,
         key = new_workflow_stub(wm.stub, kind)[CHOOSE name \in DOMAIN new_workflow_stub(wm.stub, kind) : TRUE],
         IsSpelled(key.name)
  PROVE  key \in DOMAIN Entries(Implementation, kind, InterfaceName)
<1> DEFINE names == new_workflow_stub(wm.stub, kind)
           name == CHOOSE n \in DOMAIN names : TRUE
<1>1. names = [n \in Members(wm.stub, kind) |->
                 DeclaredName(Member(wm.stub, n).cls, n, Member(wm.stub, n).methods[n].given)]
  BY Zenon DEF new_workflow_stub
<1> HIDE DEF names
<1>2. name \in Members(wm.stub, kind)
  BY <1>1 DEF StubsMatch
<1> HIDE DEF name
<1>3. IsDeclared(wm.stub, kind, name)
  BY <1>2 DEF StubsMatch
<1>4. key = DeclaredName(Member(wm.stub, name).cls, name, Member(wm.stub, name).methods[name].given)
  BY <1>1, <1>2 DEF names, name
<1>5. key = Key(InterfaceName, name)
  BY <1>3, <1>4, Zenon DEF IsDeclared, DeclaredName
<1>6. IsSpelled(name)
  BY <1>5 DEF Key
<1>7. PICK method \in Decorated(Implementation, kind) : SameMethod(method, name)
  BY <1>3, <1>6 DEF IsDeclared
<1> QED
  BY <1>5, <1>6, <1>7, EntriesFind

\* A method that the stub means, or none.
IsMeant(method) ==
  \/ method = NotFound /\ ~(IsSpelled(TypeName.name) /\ IsSpelled(SignalName.name))
  \/ /\ method.cls = Implementation[1].cls
     /\ \E key \in {TypeName, SignalName} : SameMethod(key.name, method.name)

\* So is whatever a run comes to be worked on by.
LEMMA FoundIsMeant ==
  ASSUME Registered, StubsMatch, wm \in WorkflowMethod
  PROVE  /\ IsMeant(SignalMethod)
         /\ TypeName \in DOMAIN registry.workflow_methods => IsMeant(registry.workflow_methods[TypeName])
         /\ TypeName \notin DOMAIN registry.workflow_methods => IsMeant(NotFound)
<1>1. TypeName = new_workflow_stub(wm.stub, "workflow")
                   [CHOOSE name \in DOMAIN new_workflow_stub(wm.stub, "workflow") : TRUE]
  BY Zenon DEF TypeName
<1>2. SignalName = new_workflow_stub(wm.stub, "signal")
                     [CHOOSE name \in DOMAIN new_workflow_stub(wm.stub, "signal") : TRUE]
  BY Zenon DEF SignalName
<1> DEFINE table == SignalMethods(registry, Implementation)
<1>3. /\ IsSpelled(TypeName.name) => TypeName \in DOMAIN registry.workflow_methods
      /\ IsSpelled(SignalName.name) => SignalName \in DOMAIN table
  BY <1>1, <1>2, StubFinds, Tables
<1>4. TypeName \in DOMAIN registry.workflow_methods =>
        /\ registry.workflow_methods[TypeName].cls = Implementation[1].cls
        /\ SameMethod(TypeName.name, registry.workflow_methods[TypeName].name)
  BY EntriesMean, Tables
<1>5. SignalName \in DOMAIN table =>
        /\ table[SignalName].cls = Implementation[1].cls
        /\ SameMethod(SignalName.name, table[SignalName].name)
  BY EntriesMean, Tables
<1>6. SignalMethod = IF SignalName \in DOMAIN table THEN table[SignalName] ELSE NotFound
  BY Zenon DEF SignalMethod
<1> HIDE DEF table
<1> QED
  BY <1>3, <1>4, <1>5, <1>6, Zenon DEF IsMeant

\* What has been found for a run is meant, and its code has been found if it has run.
MeantOf(run) ==
  /\ \A method \in run.handled : IsMeant(method)
  /\ run.code # NotEnded => TypeName \in DOMAIN registry.workflow_methods

\* What becomes of what is found for the runs.
LEMMA RunsMeant ==
  ASSUME Inv, Next \/ UNCHANGED vars, Registered, StubsMatch, \A r \in DOMAIN runs : MeantOf(runs[r])
  PROVE  \A r \in DOMAIN runs' : MeantOf(runs[r])'
<1>0. wm \in WorkflowMethod
  BY DEF Inv, Domains
<1>1. UNCHANGED wm
  BY RunsGo
<1>2. UNCHANGED <<TypeName, SignalName>>
  BY <1>1, Zenon DEF TypeName, SignalName
<1>3. ASSUME NEW run, MeantOf(run) PROVE MeantOf(run)'
  BY <1>2, <1>3, Zenon DEF MeantOf, IsMeant, registry
<1>4. CASE runs' = runs
  <2>1. \A r \in DOMAIN runs' : \E run : run = runs'[r] /\ MeantOf(run)
    BY <1>4
  <2> QED
    BY <1>3, <2>1 DEF MeantOf
<1>5. CASE Starts
  <2>1. PICK run : run.code = NotEnded /\ run.handled = {} /\ runs' = Append(runs, run)
    BY <1>5 DEF Starts
  <2>2. PICK Q : runs \in Seq(Q)
    BY DEF Inv, RunsType
  <2>3. MeantOf(run)
    BY <2>1 DEF MeantOf
  <2>4. \A r \in DOMAIN runs' : \E new : new = runs'[r] /\ MeantOf(new)
    <3>1. \A r \in DOMAIN runs' : \/ r \in DOMAIN runs /\ runs'[r] = runs[r]
                                 \/ runs'[r] = run
      BY <2>1, <2>2
    <3> QED
      BY <2>3, <3>1
  <2> QED
    BY <1>3, <2>4 DEF MeantOf
<1>6. ASSUME NEW r \in DOMAIN runs, NEW run, runs' = [runs EXCEPT ![r] = run], MeantOf(run)
      PROVE  \A q \in DOMAIN runs' : MeantOf(runs[q])'
  <2>1. \A q \in DOMAIN runs' : \E new : new = runs'[q] /\ MeantOf(new)
    BY <1>6
  <2> QED
    BY <1>3, <2>1 DEF MeantOf
<1>7. ASSUME NEW r \in DOMAIN runs, NEW handled, MayHandle(r, handled), Handles(r, handled)
      PROVE  \E run : runs' = [runs EXCEPT ![r] = run] /\ MeantOf(run)
  <2>1. PICK run : run = [runs[r] EXCEPT !.handled = handled]
    OBVIOUS
  <2>2. run.code = runs[r].code /\ run.handled = handled
    BY <2>1, RunsWhole DEF Whole
  <2>3. \A method \in handled : IsMeant(method)
    BY <1>0, <1>7, FoundIsMeant DEF MayHandle, MeantOf
  <2> QED
    BY <1>7, <2>1, <2>2, <2>3 DEF Handles, MeantOf
<1>8. ASSUME NEW r \in DOMAIN runs, NEW kind \in OtherEnds, Closes(r, kind)
      PROVE  \E run : runs' = [runs EXCEPT ![r] = run] /\ MeantOf(run)
  <2>1. PICK run : run = [runs[r] EXCEPT !.event = [kind |-> kind, details |-> Plain]]
    OBVIOUS
  <2>2. run.code = runs[r].code /\ run.handled = runs[r].handled
    BY <2>1, RunsWhole DEF Whole
  <2> QED
    BY <1>8, <2>1, <2>2 DEF Closes, MeantOf
<1>9. ASSUME NEW r \in DOMAIN runs, NEW end \in wm.ends, Returns(r, end),
             TypeName \in DOMAIN registry.workflow_methods
      PROVE  \E run : runs' = [runs EXCEPT ![r] = run] /\ MeantOf(run)
  <2>1. PICK run : run = [[runs[r] EXCEPT !.code = end] EXCEPT !.event = EventOf(end)]
    OBVIOUS
  <2>2. run.handled = runs[r].handled
    BY <2>1, RunsWhole DEF Whole
  <2>3. runs' = [runs EXCEPT ![r] = run]
    BY <1>9, <2>1 DEF Returns
  <2> QED
    BY <1>9, <2>2, <2>3 DEF MeantOf
<1> QED
  BY <1>4, <1>5, <1>6, <1>7, <1>8, <1>9, RunsGo

\* A run is worked on by the methods of the implementation that the stub means, or by none if
\* the stub spells a name in neither way, if the names are the classes' own and the stub's
\* class has the name of the interface.
THEOREM RunsWhatIsMeant == ASSUME Registered, StubsMatch PROVE Spec => []RunsTheMethods
<1>1. Init => \A r \in DOMAIN runs : MeantOf(runs[r])
  BY DEF Init
<1>2. Inv /\ (\A r \in DOMAIN runs : MeantOf(runs[r])) /\ [Next]_vars
        => (\A r \in DOMAIN runs : MeantOf(runs[r]))'
  BY RunsMeant
<1>3. Inv /\ (\A r \in DOMAIN runs : MeantOf(runs[r])) => RunsTheMethods
  <2> SUFFICES ASSUME Inv, NEW r \in DOMAIN runs, MeantOf(runs[r]), NEW method \in HandledBy(r)
               PROVE  IsMeant(method)
    BY DEF RunsTheMethods, IsMeant
  <2>1. wm \in WorkflowMethod
    BY DEF Inv, Domains
  <2>2. \/ method \in runs[r].handled
        \/ runs[r].code # NotEnded /\ method = registry.workflow_methods[TypeName]
    BY DEF HandledBy
  <2> QED
    BY <2>1, <2>2, FoundIsMeant DEF MeantOf
<1> QED
  BY <1>1, <1>2, <1>3, Always, PTL DEF Spec
=============================================================================
