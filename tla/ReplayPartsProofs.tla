-------------------------- MODULE ReplayPartsProofs -------------------------
(***************************************************************************)
(* Proofs about two parts of a ReplayDecider, each by itself: its          *)
(* HistoryHelper, for histories of any length, with any number of signals, *)
(* of decision tasks that are given up and of batches, and the state       *)
(* machines of its decisions, in the end, for any set of decisions.        *)
(***************************************************************************)
EXTENDS HistoryHelper, DecisionLifecycle, TLAPS, SequenceTheorems, WellFoundedInduction

-----------------------------------------------------------------------------
(* Data *)

\* A set of natural numbers that is not empty has a least element.
LEMMA LeastNumber ==
  ASSUME NEW T \in SUBSET Nat, T # {}
  PROVE  \E n \in T : \A m \in T : n <= m
<1> DEFINE R == OpToRel(<, Nat)
<1>1. IsWellFoundedOn(R, Nat)
  BY NatLessThanWellFounded
<1>2. PICK n \in T : \A m \in T : ~ (<<m, n>> \in R)
  <2> HIDE DEF R
  <2> QED BY <1>1, WFMin
<1>3. R = {pair \in Nat \X Nat : pair[1] < pair[2]}
  BY Zenon DEF OpToRel
<1>4. \A m \in Nat : m < n => <<m, n>> \in {pair \in Nat \X Nat : pair[1] < pair[2]}
  OBVIOUS
<1>5. \A m \in T : ~(m < n)
  <2> HIDE DEF R
  <2> QED BY <1>2, <1>3, <1>4, Zenon
<1>6. QED
  BY <1>5

\* The equation of the recursive function in Without.
KeepsUpTo(events, S, n, kept) ==
  kept = [i \in 0..n |->
    IF i = 0 THEN <<>>
    ELSE IF events[i] \in S THEN kept[i - 1] ELSE Append(kept[i - 1], events[i])]

\* There is such a function, whatever is kept.
LEMMA KeepsExists ==
  ASSUME NEW events, NEW S, NEW n \in Nat
  PROVE  \E kept : KeepsUpTo(events, S, n, kept)
<1> DEFINE None == {m \in Nat : ~ \E kept : KeepsUpTo(events, S, m, kept)}
<1> SUFFICES ASSUME None # {} PROVE FALSE
  OBVIOUS
<1>1. PICK m \in None : \A k \in None : m <= k
  <2> None \in SUBSET Nat
    OBVIOUS
  <2> HIDE DEF None
  <2> QED BY LeastNumber
<1>2. CASE m = 0
  <2> DEFINE g == [i \in 0..0 |-> <<>>]
  <2>1. KeepsUpTo(events, S, 0, g)
    BY DEF KeepsUpTo
  <2> QED BY <2>1, <1>1, <1>2
<1>3. CASE m # 0
  <2>1. m - 1 \in Nat /\ m - 1 \notin None
    BY <1>1, <1>3
  <2>2. PICK kept : KeepsUpTo(events, S, m - 1, kept)
    BY <2>1
  <2> DEFINE g == [i \in 0..m |-> IF i < m THEN kept[i]
                                  ELSE IF events[m] \in S THEN kept[m - 1]
                                  ELSE Append(kept[m - 1], events[m])]
  <2>3. \A i \in 0..(m - 1) : kept[i] = IF i = 0 THEN <<>>
           ELSE IF events[i] \in S THEN kept[i - 1] ELSE Append(kept[i - 1], events[i])
    BY <2>2, <2>1 DEF KeepsUpTo
  <2>4. \A i \in 0..m : g[i] = IF i = 0 THEN <<>>
           ELSE IF events[i] \in S THEN g[i - 1] ELSE Append(g[i - 1], events[i])
    BY <2>3, <2>1, <1>3
  <2>5. KeepsUpTo(events, S, m, g)
    BY <2>4 DEF KeepsUpTo
  <2> QED BY <2>5, <1>1
<1> QED BY <1>2, <1>3

\* What is kept of a sequence has the type of its elements.
LEMMA WithoutType ==
  ASSUME NEW E, NEW events \in Seq(E), NEW S
  PROVE  Without(events, S) \in Seq(E)
<1> DEFINE n == Len(events)
           kept == CHOOSE kept : KeepsUpTo(events, S, n, kept)
<1>1. n \in Nat /\ \A i \in 1..n : events[i] \in E
  OBVIOUS
<1>2. KeepsUpTo(events, S, n, kept)
  <2>1. \E k : KeepsUpTo(events, S, n, k)
    BY <1>1, KeepsExists
  <2> QED BY <2>1, Zenon
<1>3. Without(events, S) = kept[n]
  BY Zenon DEF Without, KeepsUpTo
<1> HIDE DEF kept
<1> DEFINE Bad == {m \in 0..n : kept[m] \notin Seq(E)}
<1> SUFFICES ASSUME Bad # {} PROVE FALSE
  BY <1>1, <1>3
<1>4. PICK m \in Bad : \A k \in Bad : m <= k
  <2> Bad \in SUBSET Nat
    BY <1>1
  <2> HIDE DEF Bad
  <2> QED BY LeastNumber
<1>5. m \in 0..n /\ kept[m] \notin Seq(E)
  BY <1>4
<1>6. kept[m] = IF m = 0 THEN <<>>
                ELSE IF events[m] \in S THEN kept[m - 1] ELSE Append(kept[m - 1], events[m])
  BY <1>2, <1>5 DEF KeepsUpTo
<1>7. m # 0
  <2>1. <<>> \in Seq(E)
    OBVIOUS
  <2> QED BY <1>5, <1>6, <2>1
<1>8. kept[m - 1] \in Seq(E)
  BY <1>4, <1>5, <1>7, <1>1
<1>9. Append(kept[m - 1], events[m]) \in Seq(E)
  BY <1>1, <1>5, <1>7, <1>8
<1> QED BY <1>5, <1>6, <1>7, <1>8, <1>9

\* The empty sequence lists the empty set.
LEMMA ListsEmpty == Lists(<<>>, {})
BY DEF Lists, ToSet

\* An id above all others comes last.
LEMMA ListsAppend ==
  ASSUME NEW ids \in Seq(Nat), NEW S, Lists(ids, S), NEW x \in Nat, \A y \in S : y < x
  PROVE  Lists(Append(ids, x), S \cup {x})
<1> DEFINE n == Len(ids)
           more == Append(ids, x)
<1>1. n \in Nat /\ DOMAIN ids = 1..n /\ DOMAIN more = 1..(n + 1)
  OBVIOUS
<1>2. \A i \in 1..(n + 1) : more[i] = IF i <= n THEN ids[i] ELSE x
  OBVIOUS
<1>3. \A i \in 1..n : ids[i] \in S /\ ids[i] \in Nat
  BY <1>1 DEF Lists, ToSet
<1>4. ToSet(more) = S \cup {x}
  <2>1. ToSet(more) \subseteq S \cup {x}
    BY <1>1, <1>2, <1>3 DEF ToSet
  <2>2. \A y \in S : \E i \in 1..n : y = ids[i]
    BY <1>1 DEF Lists, ToSet
  <2>3. \A y \in S : \E i \in 1..(n + 1) : y = more[i]
    BY <2>2, <1>1, <1>2
  <2>4. x = more[n + 1] /\ n + 1 \in 1..(n + 1)
    BY <1>1, <1>2
  <2> QED BY <2>1, <2>3, <2>4, <1>1 DEF ToSet
<1>5. ASSUME NEW i \in 1..(n + 1), NEW j \in 1..(n + 1), i < j
      PROVE  more[i] < more[j]
  <2>1. i <= n /\ i \in 1..n
    BY <1>1, <1>5
  <2>2. CASE j <= n
    <3>1. j \in 1..n
      BY <1>1, <2>2
    <3> QED BY <1>1, <1>2, <1>5, <2>1, <2>2, <3>1 DEF Lists
  <2>3. CASE ~(j <= n)
    BY <1>1, <1>2, <1>3, <2>1, <2>3
  <2> QED BY <2>2, <2>3
<1>6. Lists(more, S \cup {x})
  <2> HIDE DEF more
  <2> QED BY <1>1, <1>4, <1>5 DEF Lists
<1> QED BY <1>6

\* Two such sequences agree as far as the first one goes.
LEMMA ListsAgree ==
  ASSUME NEW s \in Seq(Nat), NEW t \in Seq(Nat), NEW S, Lists(s, S), Lists(t, S)
  PROVE  \A i \in 1..Len(s) : i <= Len(t) /\ s[i] = t[i]
<1> DEFINE Bad == {i \in 1..Len(s) : ~(i <= Len(t) /\ s[i] = t[i])}
<1> SUFFICES ASSUME Bad # {} PROVE FALSE
  OBVIOUS
<1>1. PICK i \in Bad : \A k \in Bad : i <= k
  <2> Bad \in SUBSET Nat
    OBVIOUS
  <2> HIDE DEF Bad
  <2> QED BY LeastNumber
<1>2. /\ DOMAIN s = 1..Len(s) /\ \A k \in 1..Len(s) : s[k] \in Nat
      /\ DOMAIN t = 1..Len(t) /\ \A k \in 1..Len(t) : t[k] \in Nat
      /\ Len(s) \in Nat /\ Len(t) \in Nat
  BY LenProperties, ElementOfSeq
<1>3. i \in 1..Len(s) /\ \A k \in 1..(i - 1) : k <= Len(t) /\ s[k] = t[k]
  BY <1>1, <1>2
<1>4. /\ \A k, m \in 1..Len(s) : k < m => s[k] < s[m]
      /\ \A k, m \in 1..Len(t) : k < m => t[k] < t[m]
  BY <1>2 DEF Lists
<1>5. PICK m \in 1..Len(t) : s[i] = t[m]
  BY <1>2, <1>3 DEF Lists, ToSet
<1>6. i <= m
  BY <1>2, <1>3, <1>4, <1>5
<1>7. i \in 1..Len(t)
  BY <1>2, <1>3, <1>6
<1>8. PICK p \in 1..Len(s) : t[i] = s[p]
  BY <1>2, <1>7 DEF Lists, ToSet
<1>9. i <= p
  BY <1>2, <1>3, <1>4, <1>7, <1>8
<1>10. (i = p \/ s[i] < s[p]) /\ (i = m \/ t[i] < t[m])
  BY <1>2, <1>3, <1>4, <1>5, <1>6, <1>7, <1>8, <1>9
<1>11. s[i] = t[i]
  BY <1>2, <1>3, <1>5, <1>7, <1>8, <1>10
<1> QED BY <1>1, <1>2, <1>7, <1>11

\* There is only one such sequence.
LEMMA ListsUnique ==
  ASSUME NEW s \in Seq(Nat), NEW t \in Seq(Nat), NEW S, Lists(s, S), Lists(t, S)
  PROVE  s = t
<1>1. \A i \in 1..Len(s) : i <= Len(t) /\ s[i] = t[i]
  BY ListsAgree
<1>2. \A i \in 1..Len(t) : i <= Len(s) /\ t[i] = s[i]
  BY ListsAgree
<1>3. Len(s) \in Nat /\ Len(t) \in Nat
  OBVIOUS
<1>4. Len(s) = Len(t)
  <2>1. CASE Len(s) = 0 \/ Len(t) = 0
    BY <1>1, <1>2, <1>3, <2>1
  <2>2. CASE Len(s) # 0 /\ Len(t) # 0
    <3>1. Len(s) \in 1..Len(s) /\ Len(t) \in 1..Len(t)
      BY <1>3, <2>2
    <3>2. Len(s) <= Len(t) /\ Len(t) <= Len(s)
      BY <1>1, <1>2, <3>1
    <3> QED BY <1>3, <3>2
  <2> QED BY <2>1, <2>2
<1> QED BY <1>1, <1>4, SeqEqual

-----------------------------------------------------------------------------
(* The invariant.  It is stated of a history h and of the batches a that   *)
(* were answered, so that it can be used before and after a step.          *)

EventTypes ==
  DecisionEventTypes \cup
  {"DecisionTaskScheduled", "DecisionTaskStarted", "DecisionTaskCompleted",
   "DecisionTaskTimedOut", "DecisionTaskFailed", "WorkflowExecutionStarted",
   "WorkflowExecutionSignaled", "WorkflowExecutionCancelRequested", "ActivityTaskStarted",
   "ActivityTaskCompleted", "ActivityTaskFailed", "ActivityTaskTimedOut", "TimerFired"}

Names == STRING \cup {""}

EventRecord == [type : EventTypes, ref : Int, name : Names]

\* An event that is neither the answer to a decision nor about a decision task.
IsQuiet(e) ==
  e.type \notin DecisionEventTypes \cup {"DecisionTaskStarted", "DecisionTaskCompleted"}

BatchRecord ==
  [events : Seq(Nat), decision_events : Seq(Nat), from : Nat, replay : BOOLEAN,
   next_decision_event_id : Nat]

\* What comes first after an answered batch, and after the first k of them.
EndOf(b) == b.next_decision_event_id + Len(b.decision_events)

From(a, k) == IF k = 0 THEN 1 ELSE EndOf(a[k])

\* Where the batch after the first k answered ones stops: at the DecisionTaskStarted
\* that was answered, or at the last event of the decision task's history.
StopOf(a, k, last) == IF k < Len(a) THEN a[k + 1].next_decision_event_id - 2 ELSE last

\* Nothing from one event to before another one has been decided.
Undecided(h, from, stop) ==
  \A i \in from..(stop - 1) :
    /\ h[i].type \notin DecisionEventTypes \cup {"DecisionTaskCompleted"}
    /\ h[i].type = "DecisionTaskStarted" => h[i + 1].type \in GivenUpTypes

\* The events that a batch hands out of them.
Handed(h, from, stop) == {i \in from..(stop - 1) : h[i].type # "DecisionTaskStarted"}

\* A batch that started here was answered.
Answered(h, b, from) ==
  LET stop == b.next_decision_event_id - 2
  IN  /\ b.from = from
      /\ from <= stop
      /\ b.replay
      /\ h[stop].type = "DecisionTaskStarted"
      /\ h[stop + 1].type = "DecisionTaskCompleted"
      /\ Undecided(h, from, stop)
      /\ Lists(b.events, Handed(h, from, stop))
      /\ EndOf(b) <= Len(h) + 1
      /\ \A i \in b.next_decision_event_id..(EndOf(b) - 1) : is_decision_event(h[i])
      /\ b.decision_events =
           [i \in 1..Len(b.decision_events) |-> b.next_decision_event_id - 1 + i]
      /\ EndOf(b) <= Len(h) => ~is_decision_event(h[EndOf(b)])

\* The answered batches cover the history one after the other, from its start.
Past(h, a) ==
  /\ \A k \in DOMAIN a : Answered(h, a[k], From(a, k - 1))
  /\ \A j, k \in 0..Len(a) : j < k => From(a, j) + 2 <= From(a, k)
  /\ \A i \in 1..(From(a, Len(a)) - 1) :
       \E k \in DOMAIN a : From(a, k - 1) <= i /\ i < From(a, k)

\* What comes after them waits for the next answer.
Rest(h, from, task) ==
  /\ from <= Len(h) + 1
  /\ Undecided(h, from, Len(h))
  /\ IF task = "started"
     THEN from <= Len(h) /\ h[Len(h)].type = "DecisionTaskStarted"
     ELSE from <= Len(h) => IsQuiet(h[Len(h)])

ServiceInv ==
  /\ history \in Seq(EventRecord) /\ history # <<>>
  /\ buffered \in Seq({e \in EventRecord : IsQuiet(e)})
  /\ decisionTask \in {"none", "scheduled", "started"}
  /\ decisionTask # "started" => buffered = <<>>
  /\ answered \in Seq(BatchRecord)
  /\ Past(history, answered)
  /\ Rest(history, From(answered, Len(answered)), decisionTask)

\* The batch that has to be decided.
IsLast(b) ==
  /\ b.from = From(answered, Len(answered))
  /\ ~b.replay
  /\ b.next_decision_event_id = polled + 2
  /\ Lists(b.events, Handed(history, b.from, polled))
  /\ b.decision_events = <<>>
  /\ pos = polled + 1

\* Inside of next: in the first loop, and in the second one.
Scans(k) ==
  LET from == From(answered, k) IN
  /\ batch.from = from
  /\ pos \in from..StopOf(answered, k, polled)
  /\ Lists(batch.events, Handed(history, from, pos))
  /\ batch.decision_events = <<>>
  /\ batch.replay

TakesDecisions(k) ==
  LET b == answered[k] IN
  /\ batch.from = b.from
  /\ batch.next_decision_event_id = b.next_decision_event_id
  /\ batch.events = b.events
  /\ batch.replay
  /\ pos \in b.next_decision_event_id..From(answered, k)
  /\ batch.decision_events =
       [i \in 1..(pos - b.next_decision_event_id) |-> b.next_decision_event_id - 1 + i]

HelperInv ==
  pc # "idle" =>
    /\ pc # "raised"
    /\ polled \in From(answered, Len(answered))..Len(history)
    /\ history[polled].type = "DecisionTaskStarted"
    /\ pc = "returned" => \/ batch = NoBatch /\ pos = 1
                          \/ \E k \in DOMAIN answered :
                               batch = answered[k] /\ pos = From(answered, k)
                          \/ IsLast(batch)
    /\ pc = "scan" => \E k \in 0..Len(answered) : Scans(k)
    /\ pc = "decisions" => IsLast(batch) \/ \E k \in DOMAIN answered : TakesDecisions(k)

Inv == TypeOK /\ ServiceInv /\ HelperInv

-----------------------------------------------------------------------------
(* The past *)

\* Where a batch starts is a number.
LEMMA FromType ==
  ASSUME NEW a \in Seq(BatchRecord), NEW k \in 0..Len(a)
  PROVE  From(a, k) \in Nat
<1>1. CASE k = 0
  BY <1>1 DEF From
<1>2. CASE k # 0
  <2>1. a[k] \in BatchRecord
    BY <1>2, ElementOfSeq
  <2>2. Len(a[k].decision_events) \in Nat /\ a[k].next_decision_event_id \in Nat
    BY <2>1, LenProperties DEF BatchRecord
  <2> QED BY <2>2, <1>2 DEF From, EndOf
<1> QED BY <1>1, <1>2

\* An answered batch stays what it was when the history grows, if what comes right
\* after it is no decision event.
LEMMA AnsweredStays ==
  ASSUME NEW h \in Seq(EventRecord), NEW more \in Seq(EventRecord), NEW b \in BatchRecord,
         NEW from \in Nat \ {0}, Answered(h, b, from),
         EndOf(b) <= Len(h) \/ more = <<>> \/ ~is_decision_event(more[1])
  PROVE  Answered(h \o more, b, from)
<1> DEFINE g == h \o more
           n == Len(h)
           next == b.next_decision_event_id
           stop == next - 2
           end == EndOf(b)
<1>1. /\ n \in Nat /\ Len(more) \in Nat /\ Len(g) = n + Len(more)
      /\ \A i \in 1..n : g[i] = h[i]
      /\ Len(more) # 0 => g[n + 1] = more[1] /\ more # <<>>
  BY LenProperties, ConcatProperties
<1>2. next \in Nat /\ end \in Nat /\ next <= end
  BY LenProperties DEF BatchRecord, EndOf
<1>3. \A f : Answered(f, b, from) <=>
         /\ b.from = from
         /\ from <= stop
         /\ b.replay
         /\ f[stop].type = "DecisionTaskStarted"
         /\ f[stop + 1].type = "DecisionTaskCompleted"
         /\ Undecided(f, from, stop)
         /\ Lists(b.events, Handed(f, from, stop))
         /\ end <= Len(f) + 1
         /\ \A i \in next..(end - 1) : is_decision_event(f[i])
         /\ b.decision_events = [i \in 1..Len(b.decision_events) |-> next - 1 + i]
         /\ end <= Len(f) => ~is_decision_event(f[end])
  BY Zenon DEF Answered
<1>4. /\ b.from = from /\ from <= stop /\ b.replay
      /\ h[stop].type = "DecisionTaskStarted" /\ h[stop + 1].type = "DecisionTaskCompleted"
      /\ Undecided(h, from, stop) /\ Lists(b.events, Handed(h, from, stop))
      /\ end <= n + 1
      /\ \A i \in next..(end - 1) : is_decision_event(h[i])
      /\ b.decision_events = [i \in 1..Len(b.decision_events) |-> next - 1 + i]
      /\ end <= n => ~is_decision_event(h[end])
  BY <1>3, Zenon
<1>5. stop = next - 2
  OBVIOUS
<1>6. end <= n \/ Len(more) = 0 \/ ~is_decision_event(more[1])
  BY <1>1
<1> HIDE DEF g, n, next, stop, end
<1>7. stop \in Int /\ from <= stop /\ end <= n + 1 /\ stop + 2 = next
  BY <1>2, <1>4, <1>5
<1>8. \A i \in from..(end - 1) : i \in 1..n /\ g[i] = h[i]
  BY <1>1, <1>2, <1>7
<1>9. Undecided(g, from, stop)
  <2> SUFFICES ASSUME NEW i \in from..(stop - 1)
               PROVE  /\ g[i].type \notin DecisionEventTypes \cup {"DecisionTaskCompleted"}
                      /\ g[i].type = "DecisionTaskStarted" => g[i + 1].type \in GivenUpTypes
    BY DEF Undecided
  <2>1. i \in from..(end - 1) /\ i + 1 \in from..(end - 1)
    BY <1>2, <1>7
  <2>2. g[i] = h[i] /\ g[i + 1] = h[i + 1]
    BY <2>1, <1>8
  <2> QED BY <2>2, <1>4 DEF Undecided
<1>10. Handed(g, from, stop) = Handed(h, from, stop)
  BY <1>2, <1>7, <1>8 DEF Handed
<1>11. \A i \in next..(end - 1) : is_decision_event(g[i])
  <2> SUFFICES ASSUME NEW i \in next..(end - 1) PROVE is_decision_event(g[i])
    OBVIOUS
  <2>1. i \in from..(end - 1)
    BY <1>2, <1>7
  <2> QED BY <2>1, <1>4, <1>8
<1>12. end <= Len(g) => ~is_decision_event(g[end])
  <2>1. CASE end <= n
    BY <1>1, <1>2, <1>4, <1>7, <2>1
  <2>2. CASE ~(end <= n) /\ end <= Len(g)
    <3>1. end = n + 1 /\ Len(more) # 0
      BY <1>1, <1>2, <1>7, <2>2
    <3> QED BY <3>1, <1>1, <1>6, <2>2
  <2> QED BY <2>1, <2>2
<1>13. /\ g[stop] = h[stop] /\ g[stop + 1] = h[stop + 1]
       /\ end <= Len(g) + 1
  <2>1. stop \in from..(end - 1) /\ stop + 1 \in from..(end - 1)
    BY <1>2, <1>7
  <2> QED BY <2>1, <1>1, <1>2, <1>7, <1>8
<1>14. Answered(g, b, from)
  BY <1>3, <1>4, <1>9, <1>10, <1>11, <1>12, <1>13
<1> QED BY <1>14 DEF g

\* What holds of the answered batches goes on holding when the history grows, as long
\* as what is new is no decision event of the last answer.
LEMMA PastStays ==
  ASSUME NEW h \in Seq(EventRecord), NEW more \in Seq(EventRecord), NEW a \in Seq(BatchRecord),
         Past(h, a),
         From(a, Len(a)) <= Len(h) \/ more = <<>> \/ ~is_decision_event(more[1])
  PROVE  Past(h \o more, a)
<1> DEFINE n == Len(a)
<1>1. n \in Nat /\ DOMAIN a = 1..n
  BY LenProperties
<1>2. \A k \in 0..n : From(a, k) \in Nat
  BY FromType
<1>3. \A j, k \in 0..n : j < k => From(a, j) + 2 <= From(a, k)
  BY DEF Past
<1>4. \A k \in 0..n : From(a, k) # 0
  <2>1. From(a, 0) = 1 /\ \A k \in 0..n : 0 < k => From(a, 0) + 2 <= From(a, k)
    BY <1>1, <1>3 DEF From
  <2> QED BY <2>1, <1>1, <1>2
<1>5. \A k \in DOMAIN a : Answered(h \o more, a[k], From(a, k - 1))
  <2> SUFFICES ASSUME NEW k \in 1..n PROVE Answered(h \o more, a[k], From(a, k - 1))
    BY <1>1
  <2>1. Answered(h, a[k], From(a, k - 1))
    BY <1>1 DEF Past
  <2>2. a[k] \in BatchRecord /\ From(a, k - 1) \in Nat \ {0}
    BY <1>1, <1>2, <1>4, ElementOfSeq
  <2>3. EndOf(a[k]) = From(a, k)
    BY DEF From
  <2>4. EndOf(a[k]) <= Len(h) \/ more = <<>> \/ ~is_decision_event(more[1])
    <3>1. CASE k = n
      BY <2>3, <3>1
    <3>2. CASE k # n
      <4>1. From(a, k) + 2 <= From(a, n)
        <5> HIDE DEF n
        <5>1. k \in 0..n /\ n \in 0..n /\ k < n
          BY <1>1, <3>2
        <5> QED BY <1>3, <5>1
      <4>2. From(a, n) <= Len(h) + 1
        <5>1. Answered(h, a[n], From(a, n - 1)) /\ From(a, n) = EndOf(a[n])
          <6>1. n \in 1..n /\ n # 0
            <7> HIDE DEF n
            <7> QED BY <1>1
          <6> QED BY <1>1, <6>1 DEF Past, From
        <5> QED BY <5>1 DEF Answered
      <4>3. Len(h) \in Nat
        BY LenProperties
      <4> QED BY <1>1, <1>2, <2>3, <4>1, <4>2, <4>3
    <3> QED BY <3>1, <3>2
  <2> QED BY <2>1, <2>2, <2>4, AnsweredStays
<1> QED BY <1>5 DEF Past

\* A batch that is answered where the last one ended adds to the past.
LEMMA PastGrows ==
  ASSUME NEW h, NEW a \in Seq(BatchRecord), Past(h, a), NEW b \in BatchRecord,
         Answered(h, b, From(a, Len(a)))
  PROVE  Past(h, Append(a, b))
<1> DEFINE n == Len(a)
           c == Append(a, b)
<1>1. /\ n \in Nat /\ DOMAIN a = 1..n /\ DOMAIN c = 1..(n + 1) /\ Len(c) = n + 1
      /\ \A k \in 1..n : c[k] = a[k]
      /\ c[n + 1] = b
  BY LenProperties
<1>2. /\ \A k \in 0..n : From(a, k) \in Nat
      /\ From(c, n + 1) \in Nat
  <2>1. From(c, n + 1) = EndOf(b)
    BY <1>1 DEF From
  <2>2. EndOf(b) \in Nat
    BY LenProperties DEF BatchRecord, EndOf
  <2> QED BY <2>1, <2>2, FromType
<1>3. \A k \in 0..n : From(c, k) = From(a, k)
  BY <1>1 DEF From
<1>4. From(a, n) + 2 <= From(c, n + 1)
  <2>1. From(c, n + 1) = EndOf(b) /\ b.next_decision_event_id \in Nat
    BY <1>1 DEF From, BatchRecord
  <2>2. From(a, n) <= b.next_decision_event_id - 2 /\ b.next_decision_event_id <= EndOf(b)
    BY LenProperties DEF Answered, BatchRecord, EndOf
  <2> QED BY <1>2, <2>1, <2>2
<1>5. Answered(h, b, From(a, n))
  OBVIOUS
<1>6. /\ \A k \in DOMAIN a : Answered(h, a[k], From(a, k - 1))
      /\ \A j, k \in 0..n : j < k => From(a, j) + 2 <= From(a, k)
      /\ \A i \in 1..(From(a, n) - 1) :
           \E k \in DOMAIN a : From(a, k - 1) <= i /\ i < From(a, k)
  BY DEF Past
<1>7. Past(h, c) <=>
      /\ \A k \in DOMAIN c : Answered(h, c[k], From(c, k - 1))
      /\ \A j, k \in 0..Len(c) : j < k => From(c, j) + 2 <= From(c, k)
      /\ \A i \in 1..(From(c, Len(c)) - 1) :
           \E k \in DOMAIN c : From(c, k - 1) <= i /\ i < From(c, k)
  BY DEF Past
<1> HIDE DEF n, c
<1>8. ASSUME NEW k \in DOMAIN c PROVE Answered(h, c[k], From(c, k - 1))
  <2>1. CASE k = n + 1
    BY <2>1, <1>1, <1>3, <1>5
  <2>2. CASE k # n + 1
    <3>1. k \in 1..n /\ k - 1 \in 0..n
      BY <1>1, <2>2
    <3> QED BY <3>1, <1>1, <1>3, <1>6
  <2> QED BY <2>1, <2>2
<1>9. ASSUME NEW j \in 0..(n + 1), NEW k \in 0..(n + 1), j < k
      PROVE  From(c, j) + 2 <= From(c, k)
  <2>1. CASE k = n + 1
    <3>1. j \in 0..n
      BY <1>1, <1>9, <2>1
    <3>2. CASE j = n
      BY <3>2, <2>1, <1>1, <1>3, <1>4
    <3>3. CASE j # n
      <4>1. j < n /\ n \in 0..n
        BY <1>1, <3>1, <3>3
      <4>2. From(a, j) + 2 <= From(a, n)
        BY <1>6, <3>1, <4>1
      <4> QED BY <4>2, <3>1, <4>1, <2>1, <1>2, <1>3, <1>4
    <3> QED BY <3>2, <3>3
  <2>2. CASE k # n + 1
    <3>1. j \in 0..n /\ k \in 0..n
      BY <1>1, <1>9, <2>2
    <3> QED BY <3>1, <1>3, <1>6, <1>9
  <2> QED BY <2>1, <2>2
<1>10. ASSUME NEW i \in 1..(From(c, n + 1) - 1)
       PROVE  \E k \in DOMAIN c : From(c, k - 1) <= i /\ i < From(c, k)
  <2>1. CASE i < From(a, n)
    <3>1. i \in 1..(From(a, n) - 1)
      BY <1>1, <1>2, <2>1
    <3>2. PICK k \in 1..n : From(a, k - 1) <= i /\ i < From(a, k)
      BY <3>1, <1>1, <1>6
    <3>3. k \in DOMAIN c /\ k \in 0..n /\ k - 1 \in 0..n
      BY <1>1
    <3> QED BY <3>2, <3>3, <1>3
  <2>2. CASE ~(i < From(a, n))
    <3>1. n + 1 \in DOMAIN c /\ (n + 1) - 1 = n /\ n \in 0..n
      BY <1>1
    <3>2. From(c, n) <= i /\ i < From(c, n + 1)
      BY <3>1, <1>2, <1>3, <2>2
    <3> QED BY <3>1, <3>2
  <2> QED BY <2>1, <2>2
<1>11. Past(h, c)
  BY <1>1, <1>7, <1>8, <1>9, <1>10
<1> QED BY <1>11 DEF c

-----------------------------------------------------------------------------
(* What waits for the next answer *)

\* Quiet events add to it; those that come while a decision task is started end it.
LEMMA RestStays ==
  ASSUME NEW h \in Seq(EventRecord), h # <<>>, NEW more \in Seq(EventRecord),
         NEW from \in Nat \ {0}, NEW task, NEW task2, task2 # "started",
         Rest(h, from, task),
         \A i \in 1..Len(more) : IsQuiet(more[i]),
         task = "started" => more # <<>> /\ more[1].type \in GivenUpTypes
  PROVE  Rest(h \o more, from, task2)
<1> DEFINE g == h \o more
           n == Len(h)
           m == Len(more)
<1>1. /\ n \in Nat \ {0} /\ m \in Nat /\ Len(g) = n + m
      /\ \A i \in 1..(n + m) : g[i] = IF i <= n THEN h[i] ELSE more[i - n]
      /\ m = 0 <=> more = <<>>
  BY LenProperties, ConcatProperties, EmptySeq
<1>2. /\ from <= n + 1 /\ Undecided(h, from, n)
      /\ IF task = "started"
         THEN from <= n /\ h[n].type = "DecisionTaskStarted"
         ELSE from <= n => IsQuiet(h[n])
  BY DEF Rest
<1>3. \A i \in 1..m : IsQuiet(more[i])
  OBVIOUS
<1>4. Rest(g, from, task2) <=>
        /\ from <= Len(g) + 1 /\ Undecided(g, from, Len(g))
        /\ from <= Len(g) => IsQuiet(g[Len(g)])
  BY DEF Rest
<1> HIDE DEF g, n, m
<1>5. from <= Len(g) + 1
  BY <1>1, <1>2
<1>6. from <= Len(g) => IsQuiet(g[Len(g)])
  <2> HAVE from <= Len(g)
  <2>1. CASE m = 0
    <3>1. Len(g) = n /\ g[n] = h[n] /\ task # "started"
      BY <1>1, <2>1
    <3> QED BY <3>1, <1>2
  <2>2. CASE m # 0
    <3>1. g[Len(g)] = more[m] /\ m \in 1..m
      <4>1. n + m \in 1..(n + m) /\ ~(n + m <= n) /\ (n + m) - n = m
        BY <1>1, <2>2
      <4> QED BY <4>1, <1>1, <2>2
    <3> QED BY <3>1, <1>3
  <2> QED BY <2>1, <2>2
<1>7. Undecided(g, from, Len(g))
  <2> SUFFICES ASSUME NEW i \in from..(Len(g) - 1)
               PROVE  /\ g[i].type \notin DecisionEventTypes \cup {"DecisionTaskCompleted"}
                      /\ g[i].type = "DecisionTaskStarted" => g[i + 1].type \in GivenUpTypes
    BY DEF Undecided
  <2>1. i \in 1..(n + m) /\ i + 1 \in 1..(n + m)
    BY <1>1
  <2>2. CASE i < n
    <3>1. g[i] = h[i] /\ g[i + 1] = h[i + 1] /\ i \in from..(n - 1)
      BY <1>1, <2>1, <2>2
    <3> QED BY <3>1, <1>2 DEF Undecided
  <2>3. CASE i = n
    <3>1. g[i] = h[n] /\ g[i + 1] = more[1] /\ from <= n
      <4>1. i <= n /\ ~(i + 1 <= n) /\ (i + 1) - n = 1
        BY <1>1, <2>3
      <4> QED BY <4>1, <1>1, <2>1, <2>3
    <3>2. CASE task = "started"
      BY <3>1, <3>2, <1>2 DEF DecisionEventTypes
    <3>3. CASE task # "started"
      BY <3>1, <3>3, <1>2 DEF IsQuiet
    <3> QED BY <3>2, <3>3
  <2>4. CASE i > n
    <3>1. g[i] = more[i - n] /\ i - n \in 1..m
      BY <1>1, <2>1, <2>4
    <3> QED BY <3>1, <1>3 DEF IsQuiet
  <2> QED BY <1>1, <2>1, <2>2, <2>3, <2>4
<1>8. Rest(g, from, task2)
  BY <1>4, <1>5, <1>6, <1>7
<1> QED BY <1>8 DEF g

\* So does the start of a decision task.
LEMMA RestStarts ==
  ASSUME NEW h \in Seq(EventRecord), NEW e \in EventRecord, e.type = "DecisionTaskStarted",
         NEW from \in Nat \ {0}, NEW task, task # "started", Rest(h, from, task)
  PROVE  Rest(Append(h, e), from, "started")
<1> DEFINE g == Append(h, e)
           n == Len(h)
<1>1. /\ n \in Nat /\ Len(g) = n + 1 /\ g[n + 1] = e
      /\ \A i \in 1..n : g[i] = h[i]
  BY LenProperties
<1>2. from <= n + 1 /\ Undecided(h, from, n) /\ (from <= n => IsQuiet(h[n]))
  BY DEF Rest
<1>3. Rest(g, from, "started") <=>
        /\ from <= Len(g) + 1 /\ Undecided(g, from, Len(g))
        /\ from <= Len(g) /\ g[Len(g)].type = "DecisionTaskStarted"
  BY DEF Rest
<1> HIDE DEF g, n
<1>4. Undecided(g, from, Len(g))
  <2> SUFFICES ASSUME NEW i \in from..n
               PROVE  /\ g[i].type \notin DecisionEventTypes \cup {"DecisionTaskCompleted"}
                      /\ g[i].type = "DecisionTaskStarted" => g[i + 1].type \in GivenUpTypes
    BY <1>1 DEF Undecided
  <2>1. g[i] = h[i]
    BY <1>1
  <2>2. CASE i = n
    BY <2>1, <2>2, <1>2 DEF IsQuiet
  <2>3. CASE i # n
    <3>1. i \in from..(n - 1) /\ i + 1 \in 1..n
      BY <1>1, <2>3
    <3>2. g[i + 1] = h[i + 1]
      BY <3>1, <1>1
    <3> QED BY <3>1, <3>2, <2>1, <1>2 DEF Undecided
  <2> QED BY <2>2, <2>3
<1>5. Rest(g, from, "started")
  BY <1>1, <1>2, <1>3, <1>4
<1> QED BY <1>5 DEF g

\* After an answer only what came meanwhile waits.
LEMMA RestBegins ==
  ASSUME NEW h \in Seq(EventRecord), NEW more \in Seq(EventRecord), NEW task, task # "started",
         \A i \in 1..Len(more) : IsQuiet(more[i])
  PROVE  Rest(h \o more, Len(h) + 1, task)
<1> DEFINE g == h \o more
           n == Len(h)
           m == Len(more)
<1>1. /\ n \in Nat /\ m \in Nat /\ Len(g) = n + m
      /\ \A i \in 1..(n + m) : g[i] = IF i <= n THEN h[i] ELSE more[i - n]
      /\ \A i \in 1..m : IsQuiet(more[i])
  BY LenProperties, ConcatProperties
<1>2. Rest(g, n + 1, task) <=>
        /\ n + 1 <= Len(g) + 1 /\ Undecided(g, n + 1, Len(g))
        /\ n + 1 <= Len(g) => IsQuiet(g[Len(g)])
  BY DEF Rest
<1> HIDE DEF g, n, m
<1>3. \A i \in (n + 1)..(n + m) : IsQuiet(g[i])
  <2> SUFFICES ASSUME NEW i \in (n + 1)..(n + m) PROVE IsQuiet(g[i])
    OBVIOUS
  <2>1. i \in 1..(n + m) /\ ~(i <= n) /\ i - n \in 1..m
    BY <1>1
  <2> QED BY <2>1, <1>1
<1>4. Undecided(g, n + 1, Len(g))
  BY <1>1, <1>3 DEF Undecided, IsQuiet
<1>5. n + 1 <= Len(g) => IsQuiet(g[Len(g)])
  BY <1>1, <1>3
<1>6. Rest(g, n + 1, task)
  BY <1>1, <1>2, <1>4, <1>5
<1> QED BY <1>6 DEF g, n

-----------------------------------------------------------------------------
(* The service *)

QuietEvent == {e \in EventRecord : IsQuiet(e)}

\* Events that decide nothing are events.
LEMMA QuietSeq ==
  ASSUME NEW s \in Seq(QuietEvent)
  PROVE  s \in Seq(EventRecord) /\ \A i \in 1..Len(s) : IsQuiet(s[i])
<1>1. s \in Seq(EventRecord)
  BY SeqMonotonic DEF QuietEvent
<1>2. \A i \in 1..Len(s) : s[i] \in QuietEvent
  BY ElementOfSeq
<1> QED BY <1>1, <1>2 DEF QuietEvent

\* Two sequences of quiet events make one.
LEMMA QuietConcat ==
  ASSUME NEW s \in Seq(QuietEvent), NEW t \in Seq(QuietEvent)
  PROVE  s \o t \in Seq(QuietEvent)
BY ConcatProperties

\* What the service appends by itself, or for a client or a worker, is quiet.
LEMMA QuietKinds ==
  ASSUME NEW type \in {"DecisionTaskScheduled", "DecisionTaskTimedOut", "DecisionTaskFailed",
                       "WorkflowExecutionStarted", "WorkflowExecutionSignaled",
                       "WorkflowExecutionCancelRequested", "ActivityTaskStarted",
                       "ActivityTaskCompleted", "ActivityTaskFailed", "ActivityTaskTimedOut",
                       "TimerFired"},
         NEW ref \in Int, NEW name \in Names
  PROVE  Event(type, ref, name) \in QuietEvent /\ <<Event(type, ref, name)>> \in Seq(QuietEvent)
<1>1. Event(type, ref, name) \in QuietEvent
  BY DEF Event, QuietEvent, EventRecord, EventTypes, IsQuiet, DecisionEventTypes
<1> QED BY <1>1

\* The name and the number of an event that has none.
LEMMA NoName == "" \in Names /\ 0 \in Int
BY DEF Names

\* A new decision task is about no decision.
LEMMA ScheduledQuiet == <<Scheduled>> \in Seq(QuietEvent)
BY NoName, QuietKinds DEF Scheduled

\* What is appended one by one is appended together.
Together(p, q, r, s) == ((p \o q) \o r) \o s = p \o (q \o (r \o s))

\* Where the elements of four sequences are in their concatenation.
LEMMA ConcatFour ==
  \A p, q, r, s \in Seq(EventRecord) : Together(p, q, r, s)
<1> SUFFICES ASSUME NEW p \in Seq(EventRecord), NEW q \in Seq(EventRecord),
                    NEW r \in Seq(EventRecord), NEW s \in Seq(EventRecord)
             PROVE  ((p \o q) \o r) \o s = p \o (q \o (r \o s))
  BY DEF Together
<1>1. p \o q \in Seq(EventRecord) /\ r \o s \in Seq(EventRecord)
  BY ConcatProperties
<1>2. ((p \o q) \o r) \o s = (p \o q) \o (r \o s)
  <2> DEFINE t == p \o q
  <2> HIDE DEF t
  <2>1. (t \o r) \o s = t \o (r \o s)
    BY <1>1, ConcatAssociative DEF t
  <2> QED BY <2>1 DEF t
<1>3. (p \o q) \o (r \o s) = p \o (q \o (r \o s))
  <2> DEFINE t == r \o s
  <2>1. t \in Seq(EventRecord)
    BY <1>1
  <2> HIDE DEF t
  <2>2. (p \o q) \o t = p \o (q \o t)
    BY <2>1, ConcatAssociative
  <2> QED BY <2>2 DEF t
<1> QED BY <1>2, <1>3

\* Where the unanswered events start.
LEMMA TailType ==
  ASSUME NEW h, NEW a \in Seq(BatchRecord), Past(h, a)
  PROVE  From(a, Len(a)) \in Nat \ {0}
<1>1. Len(a) \in Nat
  BY LenProperties
<1>2. From(a, Len(a)) \in Nat
  BY <1>1, FromType
<1>3. CASE Len(a) = 0
  BY <1>3 DEF From
<1>4. CASE Len(a) # 0
  <2>1. From(a, 0) = 1 /\ From(a, 0) + 2 <= From(a, Len(a))
    BY <1>1, <1>4 DEF Past, From
  <2> QED BY <1>2, <2>1
<1> QED BY <1>3, <1>4

\* No event of the history is lost or changed.
HistoryGrows ==
  /\ Len(history) <= Len(history')
  /\ \A i \in 1..Len(history) : history'[i] = history[i]

\* Appending events makes the history grow, and nothing else.
LEMMA GrowsBy ==
  ASSUME history \in Seq(EventRecord), NEW more \in Seq(EventRecord),
         history' = history \o more
  PROVE  HistoryGrows /\ history' \in Seq(EventRecord)
<1>1. /\ Len(history) \in Nat /\ Len(more) \in Nat
      /\ history' \in Seq(EventRecord) /\ Len(history') = Len(history) + Len(more)
      /\ \A i \in 1..(Len(history) + Len(more)) :
           history'[i] = IF i <= Len(history) THEN history[i] ELSE more[i - Len(history)]
  BY LenProperties, ConcatProperties
<1>2. \A i \in 1..Len(history) :
        i \in 1..(Len(history) + Len(more)) /\ i <= Len(history)
  BY <1>1
<1> QED BY <1>1, <1>2 DEF HistoryGrows

\* The service adds quiet events, and no decision task is started any more.
LEMMA Grows ==
  ASSUME ServiceInv, NEW more \in Seq(QuietEvent),
         decisionTask = "started" => more # <<>> /\ more[1].type \in GivenUpTypes,
         history' = history \o more, buffered' = <<>>, answered' = answered,
         decisionTask' \in {"none", "scheduled"}
  PROVE  ServiceInv' /\ HistoryGrows
<1> DEFINE from == From(answered, Len(answered))
<1>1. more \in Seq(EventRecord) /\ \A i \in 1..Len(more) : IsQuiet(more[i])
  BY QuietSeq
<1>2. history \in Seq(EventRecord) /\ history # <<>> /\ answered \in Seq(BatchRecord)
      /\ Past(history, answered) /\ Rest(history, from, decisionTask)
  BY DEF ServiceInv
<1>3. more = <<>> \/ ~is_decision_event(more[1])
  <2> SUFFICES ASSUME more # <<>> PROVE ~is_decision_event(more[1])
    OBVIOUS
  <2>1. 1 \in 1..Len(more)
    BY <1>1, EmptySeq
  <2> QED BY <2>1, <1>1 DEF IsQuiet, is_decision_event
<1>4. Past(history \o more, answered)
  BY <1>1, <1>2, <1>3, PastStays
<1>5. from \in Nat \ {0}
  BY <1>2, TailType
<1>6. Rest(history \o more, from, decisionTask')
  <2> HIDE DEF from
  <2> QED BY <1>1, <1>2, <1>5, RestStays
<1>7. history \o more \in Seq(EventRecord) /\ history \o more # <<>>
  BY <1>1, <1>2, ConcatProperties, EmptySeq
<1>8. <<>> \in Seq(QuietEvent)
  OBVIOUS
<1>9. HistoryGrows
  BY <1>1, <1>2, GrowsBy
<1>10. ServiceInv'
  BY <1>2, <1>4, <1>6, <1>7, <1>8 DEF ServiceInv, QuietEvent
<1> QED BY <1>9, <1>10

\* A decision task that starts keeps what is known of the service.
LEMMA Starts ==
  ASSUME ServiceInv, StartDecisionTask, answered' = answered
  PROVE  ServiceInv'
<1> DEFINE e == Event("DecisionTaskStarted", 0, "")
           from == From(answered, Len(answered))
<1>1. e \in EventRecord /\ e.type = "DecisionTaskStarted"
  BY DEF Event, EventRecord, EventTypes, Names
<1>2. history \in Seq(EventRecord) /\ history # <<>> /\ answered \in Seq(BatchRecord)
      /\ Past(history, answered) /\ Rest(history, from, decisionTask)
  BY DEF ServiceInv
<1>3. history' = Append(history, e) /\ decisionTask # "started" /\ decisionTask' = "started"
      /\ buffered' = buffered
  BY DEF StartDecisionTask
<1>4. Append(history, e) = history \o <<e>> /\ <<e>> \in Seq(EventRecord)
      /\ ~is_decision_event(<<e>>[1])
  <2>1. ~is_decision_event(e)
    BY <1>1 DEF is_decision_event, DecisionEventTypes
  <2> HIDE DEF e
  <2> QED BY <1>1, <1>2, <2>1
<1>5. Past(history', answered)
  BY <1>2, <1>3, <1>4, PastStays
<1>6. from \in Nat \ {0}
  BY <1>2, TailType
<1>7. Rest(history', from, "started")
  <2> HIDE DEF from, e
  <2> QED BY <1>1, <1>2, <1>3, <1>6, RestStarts
<1>8. history' \in Seq(EventRecord) /\ history' # <<>>
  <2> HIDE DEF e
  <2> QED BY <1>1, <1>2, <1>3
<1> QED BY <1>2, <1>3, <1>5, <1>7, <1>8 DEF ServiceInv

\* Something happens to the execution.
LEMMA Records ==
  ASSUME ServiceInv, NEW events \in Seq(QuietEvent), Record(events), answered' = answered
  PROVE  ServiceInv' /\ HistoryGrows
<1>1. CASE decisionTask = "started"
  <2>1. buffered \in Seq(QuietEvent) /\ buffered' = buffered \o events
        /\ UNCHANGED <<history, decisionTask>>
    BY <1>1 DEF ServiceInv, QuietEvent, Record
  <2>2. buffered' \in Seq(QuietEvent)
    BY <2>1, QuietConcat
  <2>3. HistoryGrows
    BY <2>1, LenProperties DEF HistoryGrows, ServiceInv
  <2>4. ServiceInv'
    BY <2>1, <2>2, <1>1 DEF ServiceInv, QuietEvent
  <2> QED BY <2>3, <2>4
<1>2. CASE decisionTask # "started"
  <2> DEFINE scheduled == IF decisionTask = "none" THEN <<Scheduled>> ELSE <<>>
  <2>1. scheduled \in Seq(QuietEvent)
    <3>1. <<Scheduled>> \in Seq(QuietEvent) /\ <<>> \in Seq(QuietEvent)
      BY ScheduledQuiet
    <3> QED BY <3>1
  <2>2. events \o scheduled \in Seq(QuietEvent)
    BY <2>1, QuietConcat
  <2>3. history' = (history \o events) \o scheduled /\ decisionTask' = "scheduled"
        /\ buffered' = buffered
    BY <1>2 DEF Record
  <2>4. history' = history \o (events \o scheduled)
    <3>1. /\ history \in Seq(EventRecord) /\ events \in Seq(EventRecord)
          /\ scheduled \in Seq(EventRecord)
      BY <2>1, QuietSeq DEF ServiceInv
    <3> HIDE DEF scheduled
    <3> QED BY <2>3, <3>1, ConcatAssociative
  <2>5. buffered' = <<>>
    BY <1>2, <2>3 DEF ServiceInv
  <2> HIDE DEF scheduled
  <2> QED BY <1>2, <2>2, <2>3, <2>4, <2>5, Grows
<1> QED BY <1>1, <1>2

\* What comes first in a sequence that starts with an event.
LEMMA FirstOf ==
  ASSUME NEW S, NEW e \in S, NEW s \in Seq(S)
  PROVE  <<e>> \o s # <<>> /\ (<<e>> \o s)[1] = e
<1> DEFINE p == <<e>>
<1>1. p \in Seq(S) /\ Len(p) = 1 /\ p[1] = e /\ Len(s) \in Nat
  BY LenProperties
<1> HIDE DEF p
<1>2. p \o s \in Seq(S) /\ Len(p \o s) = 1 + Len(s)
  BY <1>1, ConcatProperties
<1>3. (p \o s)[1] = p[1]
  BY <1>1, ConcatProperties
<1>4. p \o s # <<>>
  BY <1>1, <1>2, EmptySeq
<1> QED BY <1>1, <1>3, <1>4 DEF p

\* A decision task is given up.
LEMMA GivesUp ==
  ASSUME ServiceInv, decisionTask = "started", NEW type \in GivenUpTypes,
         EndDecisionTask(<<Event(type, 0, "")>>, buffered, TRUE), answered' = answered
  PROVE  ServiceInv' /\ HistoryGrows
<1> DEFINE e == Event(type, 0, "")
           more == <<e>> \o (buffered \o <<Scheduled>>)
<1>1. e \in QuietEvent /\ <<e>> \in Seq(QuietEvent) /\ e.type = type
  BY NoName, QuietKinds DEF GivenUpTypes, Event
<1>2. /\ buffered \in Seq(QuietEvent)
      /\ <<Scheduled>> \in Seq(QuietEvent)
      /\ history \in Seq(EventRecord)
  BY ScheduledQuiet DEF ServiceInv, QuietEvent
<1>3. /\ history' = ((history \o <<e>>) \o buffered) \o <<Scheduled>>
      /\ decisionTask' = "scheduled" /\ buffered' = <<>>
  BY DEF EndDecisionTask
<1> HIDE DEF e
<1>4. buffered \o <<Scheduled>> \in Seq(QuietEvent)
  BY <1>2, QuietConcat
<1>5. more \in Seq(QuietEvent)
  BY <1>1, <1>4, QuietConcat
<1>6. more # <<>> /\ more[1] = e
  BY <1>1, <1>4, FirstOf
<1>7. history' = history \o more
  <2>1. /\ <<e>> \in Seq(EventRecord) /\ buffered \in Seq(EventRecord)
        /\ <<Scheduled>> \in Seq(EventRecord)
    BY <1>1, <1>2, QuietSeq
  <2>2. ((history \o <<e>>) \o buffered) \o <<Scheduled>> =
          history \o (<<e>> \o (buffered \o <<Scheduled>>))
    <3>1. Together(history, <<e>>, buffered, <<Scheduled>>)
      BY <1>2, <2>1, ConcatFour
    <3> QED BY <3>1 DEF Together
  <2> QED BY <1>3, <2>2
<1> HIDE DEF more
<1> QED BY <1>1, <1>3, <1>5, <1>6, <1>7, Grows

\* Everything that happens to the execution apart from the answers.
LEMMA ServiceActsInv ==
  ASSUME ServiceInv, ServiceActs
  PROVE  ServiceInv' /\ HistoryGrows
<1>1. answered' = answered
  BY DEF ServiceActs
<1>2. CASE Signal
  <2>1. PICK name \in SignalName : Record(<<Event("WorkflowExecutionSignaled", 0, name)>>)
    BY <1>2 DEF Signal
  <2>2. name \in Names
    BY ServiceAssumption DEF Names
  <2>3. <<Event("WorkflowExecutionSignaled", 0, name)>> \in Seq(QuietEvent)
    BY <2>2, QuietKinds
  <2> QED BY <1>1, <2>1, <2>3, Records
<1>3. CASE RequestCancel
  <2>1. "" \in Names /\ 0 \in Int
    BY NoName
  <2>2. <<Event("WorkflowExecutionCancelRequested", 0, "")>> \in Seq(QuietEvent)
    BY <2>1, QuietKinds
  <2>3. Record(<<Event("WorkflowExecutionCancelRequested", 0, "")>>)
    BY <1>3 DEF RequestCancel
  <2> QED BY <1>1, <2>2, <2>3, Records
<1>4. CASE CloseActivity
  <2>1. PICK i \in Open(Recorded, "ActivityTaskScheduled", ActivityClosed),
             type \in ActivityClosed :
          Record(<<Event("ActivityTaskStarted", i, ""), Event(type, i, "")>>)
    BY <1>4 DEF CloseActivity, ActivityClosed
  <2>2. i \in Int
    <3>1. Recorded \in Seq(EventRecord)
      BY QuietSeq, ConcatProperties DEF ServiceInv, QuietEvent, Recorded
    <3>2. DOMAIN Recorded = 1..Len(Recorded) /\ Len(Recorded) \in Nat
      BY <3>1, LenProperties
    <3> QED BY <3>2 DEF Open
  <2>3. "" \in Names
    BY NoName
  <2>4. /\ Event("ActivityTaskStarted", i, "") \in QuietEvent
        /\ Event(type, i, "") \in QuietEvent
    BY <2>2, <2>3, QuietKinds DEF ActivityClosed
  <2>5. <<Event("ActivityTaskStarted", i, ""), Event(type, i, "")>> \in Seq(QuietEvent)
    <3> DEFINE x == Event("ActivityTaskStarted", i, "")
               y == Event(type, i, "")
    <3>1. x \in QuietEvent /\ y \in QuietEvent
      BY <2>4
    <3> HIDE DEF x, y
    <3>2. <<x, y>> \in Seq(QuietEvent)
      BY <3>1
    <3> QED BY <3>2 DEF x, y
  <2> QED BY <1>1, <2>1, <2>5, Records
<1>5. CASE FireTimer
  <2>1. PICK i \in Open(Recorded, "TimerStarted", TimerClosed) :
          Record(<<Event("TimerFired", i, "")>>)
    BY <1>5 DEF FireTimer
  <2>2. i \in Int
    <3>1. Recorded \in Seq(EventRecord)
      BY QuietSeq, ConcatProperties DEF ServiceInv, QuietEvent, Recorded
    <3>2. DOMAIN Recorded = 1..Len(Recorded) /\ Len(Recorded) \in Nat
      BY <3>1, LenProperties
    <3> QED BY <3>2 DEF Open
  <2>3. <<Event("TimerFired", i, "")>> \in Seq(QuietEvent)
    BY <2>2, QuietKinds DEF Names
  <2> QED BY <1>1, <2>1, <2>3, Records
<1>6. CASE TimeoutDecisionTask
  BY <1>1, <1>6, GivesUp DEF TimeoutDecisionTask, GivenUpTypes
<1> QED BY <1>2, <1>3, <1>4, <1>5, <1>6 DEF ServiceActs, ServiceStep

-----------------------------------------------------------------------------
(* The answers *)

\* The event that answers a decision is a decision event.
LEMMA DecisionEventType ==
  ASSUME history \in Seq(EventRecord), NEW d \in Decision
  PROVE  DecisionEvent(d) \in EventRecord /\ is_decision_event(DecisionEvent(d))
<1>1. /\ d.ref \in Int /\ d.name \in Names
      /\ d.type \in {"ScheduleActivityTask", "StartTimer", "CancelTimer", "RecordMarker",
                     "CompleteWorkflowExecution", "FailWorkflowExecution",
                     "CancelWorkflowExecution"}
  BY DEF Decision, Names
<1>2. \A i \in MeantTimers(d) : i \in Int
  <2>1. DOMAIN history = 1..Len(history) /\ Len(history) \in Nat
    BY LenProperties
  <2> QED BY <2>1 DEF MeantTimers, Open
<1> DEFINE timer == CHOOSE i \in MeantTimers(d) : TRUE
<1>3. MeantTimers(d) # {} => timer \in Int
  BY <1>2
<1>4. ASSUME NEW type \in DecisionEventTypes, NEW ref \in Int, NEW name \in Names
      PROVE  Event(type, ref, name) \in EventRecord /\ is_decision_event(Event(type, ref, name))
  BY DEF Event, EventRecord, EventTypes, is_decision_event
<1> HIDE DEF timer
<1>5. CASE d.type = "CancelTimer"
  <2>1. DecisionEvent(d) = IF MeantTimers(d) = {} THEN Event("CancelTimerFailed", 0, "")
                           ELSE Event("TimerCanceled", timer, "")
    BY <1>5 DEF DecisionEvent, timer
  <2> QED BY <2>1, <1>3, <1>4, NoName DEF DecisionEventTypes
<1>6. CASE d.type # "CancelTimer"
  <2>1. DecisionEvent(d) \in {Event("ActivityTaskScheduled", d.ref, d.name),
          Event("TimerStarted", d.ref, d.name), Event("MarkerRecorded", d.ref, d.name),
          Event("WorkflowExecutionCompleted", 0, ""), Event("WorkflowExecutionFailed", 0, ""),
          Event("WorkflowExecutionCanceled", 0, "")}
    BY <1>1, <1>6 DEF DecisionEvent
  <2> QED BY <2>1, <1>1, <1>4, NoName DEF DecisionEventTypes
<1> QED BY <1>5, <1>6

\* Decisions up to the first that closes are decisions.
LEMMA UpToCloseType ==
  ASSUME NEW decisions \in Seq(Decision)
  PROVE  UpToClose(decisions) \in Seq(Decision)
<1> DEFINE n == Len(decisions)
           I == {i \in 1..n : Closes(decisions[i])}
           first == CHOOSE x \in I : \A y \in I : x <= y
<1>1. n \in Nat
  BY LenProperties
<1>2. CASE I = {}
  BY <1>2 DEF UpToClose, SelectInSeq
<1>3. CASE I # {}
  <2>1. \E x \in I : \A y \in I : x <= y
    <3> I \in SUBSET Nat
      BY <1>1
    <3> HIDE DEF I
    <3> QED BY <1>3, LeastNumber
  <2>2. first \in 1..n
    BY <2>1
  <2>3. SelectInSeq(decisions, Closes) = first
    BY <1>3, Zenon DEF SelectInSeq, Min
  <2>4. first # 0
    <3> HIDE DEF first
    <3> QED BY <1>1, <2>2
  <2>5. UpToClose(decisions) = SubSeq(decisions, 1, first)
    BY <2>3, <2>4, Zenon DEF UpToClose
  <2> HIDE DEF first
  <2> QED BY <1>1, <2>2, <2>5, SubSeqProperties
<1> QED BY <1>2, <1>3

\* What a concatenation is made of.
IsJoin(p, q, r) ==
  /\ r \in Seq(EventRecord) /\ Len(r) = Len(p) + Len(q)
  /\ \A i \in 1..(Len(p) + Len(q)) : r[i] = IF i <= Len(p) THEN p[i] ELSE q[i - Len(p)]

\* Where the elements of two sequences are in their concatenation.
LEMMA Joined == \A p, q \in Seq(EventRecord) : IsJoin(p, q, p \o q)
<1> SUFFICES ASSUME NEW p \in Seq(EventRecord), NEW q \in Seq(EventRecord)
             PROVE  IsJoin(p, q, p \o q)
  OBVIOUS
<1>1. p \o q \in Seq(EventRecord) /\ Len(p \o q) = Len(p) + Len(q)
  BY ConcatProperties
<1>2. \A i \in 1..(Len(p) + Len(q)) :
        (p \o q)[i] = IF i <= Len(p) THEN p[i] ELSE q[i - Len(p)]
  BY ConcatProperties
<1> QED BY <1>1, <1>2, Zenon DEF IsJoin

\* The batch that is decided becomes an answered one.
LEMMA AnswerAdds ==
  ASSUME NEW h \in Seq(EventRecord), NEW from \in Nat \ {0}, Rest(h, from, "started"),
         NEW answers \in Seq(EventRecord),
         \A i \in 1..Len(answers) : is_decision_event(answers[i]),
         NEW c \in EventRecord, c.type = "DecisionTaskCompleted",
         NEW b \in BatchRecord, b.from = from, b.replay,
         b.next_decision_event_id = Len(h) + 2,
         Lists(b.events, Handed(h, from, Len(h))),
         b.decision_events = [i \in 1..Len(answers) |-> Len(h) + 1 + i]
  PROVE  LET g == h \o (<<c>> \o answers)
         IN  Answered(g, b, from) /\ EndOf(b) = Len(g) + 1
<1> DEFINE n == Len(h)
           m == Len(answers)
           t == <<c>> \o answers
           g == h \o t
<1>1. n \in Nat /\ m \in Nat
  BY LenProperties
<1>2. /\ t \in Seq(EventRecord) /\ Len(t) = m + 1 /\ t[1] = c
      /\ \A i \in 1..m : t[i + 1] = answers[i]
  <2> DEFINE p == <<c>>
  <2>1. p \in Seq(EventRecord) /\ Len(p) = 1 /\ p[1] = c /\ t = p \o answers
    OBVIOUS
  <2> HIDE DEF p, t
  <2>2. /\ t \in Seq(EventRecord) /\ Len(t) = 1 + m
        /\ \A i \in 1..(1 + m) : t[i] = IF i <= 1 THEN p[i] ELSE answers[i - 1]
    <3>1. IsJoin(p, answers, p \o answers)
      BY <2>1, Joined
    <3> QED BY <2>1, <3>1 DEF IsJoin
  <2>3. t[1] = c
    BY <2>1, <2>2, <1>1
  <2>4. ASSUME NEW i \in 1..m PROVE t[i + 1] = answers[i]
    <3>1. i + 1 \in 1..(1 + m) /\ ~(i + 1 <= 1) /\ (i + 1) - 1 = i
      BY <1>1
    <3> QED BY <3>1, <2>2
  <2> QED BY <2>2, <2>3, <2>4, <1>1
<1> HIDE DEF t
<1>3. /\ Len(g) = n + m + 1
      /\ \A i \in 1..(n + m + 1) : g[i] = IF i <= n THEN h[i] ELSE t[i - n]
  <2>1. /\ Len(g) = n + (m + 1)
        /\ \A i \in 1..(n + (m + 1)) : g[i] = IF i <= n THEN h[i] ELSE t[i - n]
    <3>1. g = h \o t /\ n = Len(h) /\ m + 1 = Len(t)
      BY <1>2
    <3>2. IsJoin(h, t, h \o t)
      BY <1>2, Joined
    <3> HIDE DEF g, n, m
    <3> QED BY <3>1, <3>2 DEF IsJoin
  <2>2. n + (m + 1) = n + m + 1
    BY <1>1
  <2> QED BY <2>1, <2>2
<1>4. \A i \in 1..m : is_decision_event(answers[i])
  OBVIOUS
<1>5. b.decision_events = [i \in 1..m |-> n + 1 + i] /\ Len(b.decision_events) = m
  BY <1>1
<1>6. b.next_decision_event_id = n + 2 /\ EndOf(b) = n + m + 2
  BY <1>1, <1>5 DEF EndOf
<1>7. from <= n /\ h[n].type = "DecisionTaskStarted" /\ Undecided(h, from, n)
  BY DEF Rest
<1> DEFINE next == b.next_decision_event_id
           stop == next - 2
<1>8. Answered(g, b, from) <=>
        /\ b.from = from /\ from <= stop /\ b.replay
        /\ g[stop].type = "DecisionTaskStarted"
        /\ g[stop + 1].type = "DecisionTaskCompleted"
        /\ Undecided(g, from, stop)
        /\ Lists(b.events, Handed(g, from, stop))
        /\ EndOf(b) <= Len(g) + 1
        /\ \A i \in next..(EndOf(b) - 1) : is_decision_event(g[i])
        /\ b.decision_events = [i \in 1..Len(b.decision_events) |-> next - 1 + i]
        /\ EndOf(b) <= Len(g) => ~is_decision_event(g[EndOf(b)])
  <2> HIDE DEF g, n
  <2> QED BY Zenon DEF Answered
<1>9. Lists(b.events, Handed(h, from, n))
  OBVIOUS
<1>10. next = n + 2 /\ stop = n /\ next - 1 = n + 1
  BY <1>1, <1>6
<1> HIDE DEF g, n, m, stop, next
<1>11. \A i \in from..n : g[i] = h[i]
  BY <1>1, <1>3
<1>12. g[n].type = "DecisionTaskStarted"
  BY <1>1, <1>7, <1>11
<1>13. g[n + 1].type = "DecisionTaskCompleted"
  <2>1. n + 1 \in 1..(n + m + 1) /\ ~(n + 1 <= n) /\ (n + 1) - n = 1
    BY <1>1
  <2> QED BY <2>1, <1>2, <1>3
<1>14. Undecided(g, from, n)
  <2> SUFFICES ASSUME NEW i \in from..(n - 1)
               PROVE  /\ g[i].type \notin DecisionEventTypes \cup {"DecisionTaskCompleted"}
                      /\ g[i].type = "DecisionTaskStarted" => g[i + 1].type \in GivenUpTypes
    BY DEF Undecided
  <2>1. i \in from..n /\ i + 1 \in from..n
    BY <1>1
  <2> QED BY <2>1, <1>7, <1>11 DEF Undecided
<1>15. Handed(g, from, n) = Handed(h, from, n)
  BY <1>1, <1>11 DEF Handed
<1>16. ASSUME NEW i \in next..(EndOf(b) - 1) PROVE is_decision_event(g[i])
  <2>1. i \in 1..(n + m + 1) /\ ~(i <= n) /\ i - n - 1 \in 1..m /\ i - n = (i - n - 1) + 1
    BY <1>1, <1>6, <1>10
  <2> QED BY <2>1, <1>2, <1>3, <1>4
<1>17. EndOf(b) = Len(g) + 1 /\ ~(EndOf(b) <= Len(g))
  BY <1>1, <1>3, <1>6
<1>18. Answered(g, b, from)
  BY <1>1, <1>5, <1>7, <1>8, <1>9, <1>10, <1>12, <1>13, <1>14, <1>15, <1>16, <1>17
<1> QED BY <1>17, <1>18 DEF g, t

\* What comes after an answer.
LEMMA AnswerFollows ==
  ASSUME NEW g \in Seq(EventRecord), NEW a \in Seq(BatchRecord), Past(g, a),
         NEW b \in BatchRecord, Answered(g, b, From(a, Len(a))), EndOf(b) = Len(g) + 1,
         NEW more \in Seq(QuietEvent), NEW c, c = Append(a, b)
  PROVE  /\ c \in Seq(BatchRecord)
         /\ Past(g \o more, c)
         /\ \A task : task # "started" => Rest(g \o more, From(c, Len(c)), task)
<1>1. more \in Seq(EventRecord) /\ \A i \in 1..Len(more) : IsQuiet(more[i])
  BY QuietSeq
<1>2. c \in Seq(BatchRecord) /\ Len(c) = Len(a) + 1 /\ c[Len(a) + 1] = b
      /\ Len(a) \in Nat
  BY AppendProperties, LenProperties
<1>3. Past(g, c)
  BY PastGrows
<1>4. From(c, Len(c)) = Len(g) + 1
  BY <1>2 DEF From
<1>5. more = <<>> \/ ~is_decision_event(more[1])
  <2> SUFFICES ASSUME more # <<>> PROVE ~is_decision_event(more[1])
    OBVIOUS
  <2>1. 1 \in 1..Len(more)
    BY <1>1, EmptySeq
  <2> QED BY <2>1, <1>1 DEF IsQuiet, is_decision_event
<1>6. Past(g \o more, c)
  BY <1>1, <1>2, <1>3, <1>5, PastStays
<1>7. \A task : task # "started" => Rest(g \o more, Len(g) + 1, task)
  BY <1>1, RestBegins
<1> QED BY <1>2, <1>4, <1>6, <1>7

\* The events that wait come after an answer, and a decision task if there are any.
LEMMA WaitingFollows ==
  ASSUME NEW g \in Seq(EventRecord), NEW rest \in Seq(QuietEvent), NEW scheduled,
         scheduled = <<Scheduled>> \/ scheduled = <<>>
  PROVE  /\ rest \o scheduled \in Seq(QuietEvent)
         /\ (g \o rest) \o scheduled = g \o (rest \o scheduled)
<1>1. <<>> \in Seq(QuietEvent)
  OBVIOUS
<1>2. scheduled \in Seq(QuietEvent)
  BY <1>1, ScheduledQuiet
<1>3. rest \o scheduled \in Seq(QuietEvent)
  BY <1>2, QuietConcat
<1>4. rest \in Seq(EventRecord) /\ scheduled \in Seq(EventRecord)
  BY <1>2, QuietSeq
<1> DEFINE l == scheduled
<1>5. l = scheduled /\ l \in Seq(EventRecord)
  BY <1>4
<1> HIDE DEF l
<1>6. (g \o rest) \o l = g \o (rest \o l)
  BY <1>4, <1>5, ConcatAssociative
<1> QED BY <1>3, <1>5, <1>6

\* A sequence that has an element has one when it has grown.
LEMMA NotEmpty ==
  ASSUME NEW g \in Seq(EventRecord), NEW more \in Seq(EventRecord), g # <<>>
  PROVE  g \o more \in Seq(EventRecord) /\ g \o more # <<>>
<1>1. IsJoin(g, more, g \o more) /\ Len(g) # 0 /\ Len(g) \in Nat /\ Len(more) \in Nat
  BY Joined, EmptySeq, LenProperties
<1>2. Len(g \o more) # 0 /\ g \o more \in Seq(EventRecord)
  <2> DEFINE r == g \o more
  <2>1. IsJoin(g, more, r)
    BY <1>1
  <2> HIDE DEF r
  <2>2. Len(r) # 0 /\ r \in Seq(EventRecord)
    BY <1>1, <2>1 DEF IsJoin
  <2> QED BY <2>2 DEF r
<1> QED BY <1>2, EmptySeq

\* An answer's events start with the one that completes the decision task.
LEMMA AnswerStarts ==
  ASSUME NEW c \in EventRecord, NEW answers \in Seq(EventRecord)
  PROVE  /\ <<c>> \o answers \in Seq(EventRecord) /\ <<c>> \o answers # <<>>
         /\ (<<c>> \o answers)[1] = c
<1>1. <<c>> \in Seq(EventRecord)
  OBVIOUS
<1>2. <<c>> \o answers \in Seq(EventRecord)
  <2> DEFINE l == <<c>>
  <2>1. l \in Seq(EventRecord)
    BY <1>1
  <2> HIDE DEF l
  <2>2. l \o answers \in Seq(EventRecord)
    BY <2>1, ConcatProperties
  <2> QED BY <2>2 DEF l
<1> QED BY <1>2, FirstOf

\* The empty sequence is a sequence of anything.
LEMMA EmptyType == \A S : <<>> \in Seq(S)
OBVIOUS

\* An answer that is accepted ends the decision task.
LEMMA Accepts ==
  ASSUME ServiceInv, decisionTask = "started",
         NEW answers \in Seq(EventRecord),
         \A i \in 1..Len(answers) : is_decision_event(answers[i]),
         NEW b \in BatchRecord, b.from = From(answered, Len(answered)), b.replay,
         b.next_decision_event_id = Len(history) + 2,
         Lists(b.events, Handed(history, b.from, Len(history))),
         b.decision_events = [i \in 1..Len(answers) |-> Len(history) + 1 + i],
         NEW rest \in Seq(QuietEvent),
         EndDecisionTask(<<Event("DecisionTaskCompleted", 0, "")>> \o answers, rest, FALSE),
         answered' = Append(answered, b)
  PROVE  ServiceInv'
<1> DEFINE from == From(answered, Len(answered))
           c == Event("DecisionTaskCompleted", 0, "")
           t == <<c>> \o answers
           g == history \o t
           scheduled == IF FALSE \/ rest # <<>> THEN <<Scheduled>> ELSE <<>>
           more == rest \o scheduled
<1>1. /\ history \in Seq(EventRecord) /\ history # <<>> /\ answered \in Seq(BatchRecord)
      /\ Past(history, answered) /\ Rest(history, from, "started")
  BY DEF ServiceInv
<1>2. from \in Nat \ {0}
  BY <1>1, TailType
<1>3. c \in EventRecord /\ c.type = "DecisionTaskCompleted" /\ ~is_decision_event(c)
  BY NoName DEF Event, EventRecord, EventTypes, is_decision_event, DecisionEventTypes
<1>4. history' = (g \o rest) \o scheduled /\ decisionTask' \in {"scheduled", "none"}
      /\ buffered' = <<>>
  BY DEF EndDecisionTask
<1> HIDE DEF c, from
<1>5. t \in Seq(EventRecord) /\ t # <<>> /\ ~is_decision_event(t[1])
  <2>1. t \in Seq(EventRecord) /\ t # <<>> /\ t[1] = c
    BY <1>3, AnswerStarts
  <2> HIDE DEF t
  <2> QED BY <2>1, <1>3
<1>6. Answered(g, b, from) /\ EndOf(b) = Len(g) + 1
  BY <1>1, <1>2, <1>3, AnswerAdds DEF from
<1> HIDE DEF t
<1>7. g \in Seq(EventRecord) /\ g # <<>>
  BY <1>1, <1>5, NotEmpty
<1>8. Past(g, answered)
  BY <1>1, <1>5, PastStays
<1> HIDE DEF g
<1>9. scheduled = <<Scheduled>> \/ scheduled = <<>>
  OBVIOUS
<1> HIDE DEF scheduled
<1>10. more \in Seq(QuietEvent) /\ history' = g \o more
  BY <1>4, <1>7, <1>9, WaitingFollows
<1>11. more \in Seq(EventRecord)
  BY <1>10, QuietSeq
<1> HIDE DEF more
<1>12. /\ answered' \in Seq(BatchRecord)
       /\ Past(history', answered')
       /\ Rest(history', From(answered', Len(answered')), decisionTask')
  <2>1. decisionTask' # "started"
    BY <1>4
  <2>2. answered' = Append(answered, b)
    OBVIOUS
  <2> DEFINE a == Append(answered, b)
  <2> HIDE DEF a
  <2>3. a \in Seq(BatchRecord) /\ Past(g \o more, a)
        /\ \A task : task # "started" => Rest(g \o more, From(a, Len(a)), task)
    BY <1>1, <1>6, <1>7, <1>8, <1>10, AnswerFollows DEF from, a
  <2> QED BY <2>1, <2>2, <2>3, <1>10 DEF a
<1>13. history' \in Seq(EventRecord) /\ history' # <<>>
  BY <1>7, <1>10, <1>11, NotEmpty
<1>14. <<>> \in Seq({e \in EventRecord : IsQuiet(e)})
  BY EmptyType
<1> QED BY <1>4, <1>12, <1>13, <1>14 DEF ServiceInv

-----------------------------------------------------------------------------
(* The helper *)

\* Where the answered batches are.
PastFacts(n) ==
  /\ n \in Nat /\ DOMAIN answered = 1..n
  /\ \A k \in 0..n : From(answered, k) \in Nat /\ From(answered, k) # 0
  /\ From(answered, 0) = 1
  /\ \A j, k \in 0..n : j < k => From(answered, j) + 2 <= From(answered, k)
  /\ \A k \in 1..n : /\ answered[k] \in BatchRecord
                     /\ Answered(history, answered[k], From(answered, k - 1))
                     /\ EndOf(answered[k]) = From(answered, k)
                     /\ From(answered, k) <= From(answered, n)

\* What is known of each answered batch, with its numbers in the type the provers need.
LEMMA PastIs ==
  ASSUME ServiceInv
  PROVE  PastFacts(Len(answered))
<1> DEFINE n == Len(answered)
<1>1. answered \in Seq(BatchRecord) /\ Past(history, answered)
  BY DEF ServiceInv
<1>2. n \in Nat /\ DOMAIN answered = 1..n
  BY <1>1, LenProperties
<1>3. \A k \in 0..n : From(answered, k) \in Nat
  BY <1>1, FromType
<1>4. From(answered, 0) = 1
  BY DEF From
<1>5. \A j, k \in 0..n : j < k => From(answered, j) + 2 <= From(answered, k)
  BY <1>1 DEF Past
<1>6. ASSUME NEW k \in 0..n PROVE From(answered, k) # 0
  <2>1. 0 \in 0..n /\ (k = 0 \/ 0 < k)
    BY <1>2
  <2> QED BY <2>1, <1>3, <1>4, <1>5
<1>7. \A k \in 1..n : answered[k] \in BatchRecord
  BY <1>1, ElementOfSeq
<1>8. \A k \in 1..n : Answered(history, answered[k], From(answered, k - 1))
  BY <1>1, <1>2 DEF Past
<1>9. \A k \in 1..n : EndOf(answered[k]) = From(answered, k)
  BY DEF From
<1>10. ASSUME NEW k \in 1..n PROVE From(answered, k) <= From(answered, n)
  <2> HIDE DEF n
  <2>1. k \in 0..n /\ n \in 0..n /\ (k = n \/ k < n)
    BY <1>2
  <2> QED BY <2>1, <1>3, <1>5
<1> HIDE DEF n
<1>11. PastFacts(n)
  BY <1>2, <1>3, <1>4, <1>5, <1>6, <1>7, <1>8, <1>9, <1>10 DEF PastFacts
<1> QED BY <1>11 DEF n

\* The batches stop inside of the decision task's history.
LEMMA StopsBefore ==
  ASSUME ServiceInv, NEW k \in 0..Len(answered),
         polled \in From(answered, Len(answered))..Len(history)
  PROVE  /\ From(answered, k) <= StopOf(answered, k, polled)
         /\ StopOf(answered, k, polled) \in Nat
         /\ k = Len(answered) => StopOf(answered, k, polled) = polled
         /\ k # Len(answered) =>
              /\ StopOf(answered, k, polled) + 2 = answered[k + 1].next_decision_event_id
              /\ StopOf(answered, k, polled) + 2 <= From(answered, k + 1)
              /\ StopOf(answered, k, polled) + 2 <= polled
<1> DEFINE n == Len(answered)
           f(j) == From(answered, j)
<1>1. PastFacts(n)
  BY PastIs
<1>2. n \in Nat /\ \A j \in 0..n : f(j) \in Nat
  BY <1>1 DEF PastFacts
<1>3. Len(history) \in Nat
  BY LenProperties DEF ServiceInv
<1> HIDE DEF n
<1>4. CASE k = n
  BY <1>2, <1>3, <1>4 DEF StopOf, n
<1>5. CASE k # n
  <2>1. k + 1 \in 1..n /\ (k + 1) - 1 = k /\ k < n /\ k + 1 \in 0..n /\ n \in 0..n
    BY <1>2, <1>5 DEF n
  <2>2. /\ answered[k + 1] \in BatchRecord /\ Answered(history, answered[k + 1], f(k))
        /\ EndOf(answered[k + 1]) = f(k + 1) /\ f(k + 1) <= f(n)
    BY <1>1, <2>1 DEF PastFacts
  <2> DEFINE next == answered[k + 1].next_decision_event_id
  <2>3. next \in Nat /\ Len(answered[k + 1].decision_events) \in Nat
    BY <2>2, LenProperties DEF BatchRecord
  <2>4. StopOf(answered, k, polled) = next - 2
    BY <2>1 DEF StopOf, n
  <2>5. f(k) <= next - 2
    BY <2>2 DEF Answered
  <2>6. f(k + 1) = next + Len(answered[k + 1].decision_events)
    BY <2>2 DEF EndOf
  <2>7. f(k) \in Nat /\ f(n) \in Nat /\ polled \in f(n)..Len(history)
    BY <1>2, <2>1 DEF n
  <2> HIDE DEF next, f
  <2>8. /\ f(k) <= next - 2 /\ next - 2 \in Nat /\ next - 2 + 2 = next
        /\ next - 2 + 2 <= f(k + 1) /\ next - 2 + 2 <= polled
    BY <1>3, <2>2, <2>3, <2>5, <2>6, <2>7
  <2> QED BY <1>5, <2>4, <2>8 DEF f, next, n
<1> QED BY <1>4, <1>5

\* What the helper knows of a decision task stays true while the history grows.
LEMMA HandedStays ==
  ASSUME HistoryGrows, NEW from \in Nat \ {0}, NEW stop \in Nat, stop <= Len(history),
         history \in Seq(EventRecord)
  PROVE  Handed(history', from, stop) = Handed(history, from, stop)
<1>1. Len(history) \in Nat
  BY LenProperties
<1>2. \A i \in from..(stop - 1) : history'[i] = history[i]
  BY <1>1 DEF HistoryGrows
<1> QED BY <1>2 DEF Handed

\* The history may grow while the helper is at work: it has its own copy.
LEMMA HelperStays ==
  ASSUME TypeOK, ServiceInv, HelperInv, HistoryGrows, history' \in Seq(EventRecord),
         answered' = answered, UNCHANGED <<polled, pos, pc, batch>>
  PROVE  TypeOK' /\ HelperInv'
<1> DEFINE n == Len(answered)
           f(k) == From(answered, k)
<1>1. /\ history \in Seq(EventRecord) /\ Len(history) \in Nat /\ Len(history') \in Nat
      /\ Len(history) <= Len(history')
  BY LenProperties DEF ServiceInv, HistoryGrows
<1>2. TypeOK'
  BY <1>1 DEF TypeOK
<1>3. PastFacts(n)
  BY PastIs
<1>4. n \in Nat /\ \A k \in 0..n : f(k) \in Nat /\ f(k) # 0
  BY <1>3 DEF PastFacts
<1>5. HelperInv'
  <2> SUFFICES ASSUME pc # "idle" PROVE HelperInv'
    BY DEF HelperInv
  <2>1. /\ pc # "raised"
        /\ polled \in f(n)..Len(history)
        /\ history[polled].type = "DecisionTaskStarted"
        /\ pc = "returned" => \/ batch = NoBatch /\ pos = 1
                              \/ \E k \in DOMAIN answered :
                                   batch = answered[k] /\ pos = f(k)
                              \/ IsLast(batch)
        /\ pc = "scan" => \E k \in 0..n : Scans(k)
        /\ pc = "decisions" => IsLast(batch) \/ \E k \in DOMAIN answered : TakesDecisions(k)
    BY DEF HelperInv
  <2>2. /\ polled \in f(n)..Len(history') /\ polled \in 1..Len(history)
        /\ history'[polled] = history[polled]
    <3>1. n \in 0..n
      BY <1>4
    <3>2. f(n) \in Nat /\ f(n) # 0
      BY <1>4, <3>1
    <3> HIDE DEF n, f
    <3> QED BY <1>1, <2>1, <3>2 DEF HistoryGrows
  <2>3. IsLast(batch) => IsLast(batch)'
    <3> SUFFICES ASSUME IsLast(batch) PROVE IsLast(batch)'
      OBVIOUS
    <3>1. batch.from \in Nat \ {0}
      BY <1>4 DEF IsLast
    <3>2. Handed(history', batch.from, polled) = Handed(history, batch.from, polled)
      BY <1>1, <2>2, <3>1, HandedStays
    <3> QED BY <3>2 DEF IsLast
  <2>4. ASSUME NEW k \in 0..n, Scans(k) PROVE Scans(k)'
    <3>1. /\ f(k) <= StopOf(answered, k, polled) /\ StopOf(answered, k, polled) \in Nat
          /\ k = n => StopOf(answered, k, polled) = polled
          /\ k # n => StopOf(answered, k, polled) + 2 <= polled
      BY <2>1, StopsBefore
    <3>2. pos \in f(k)..StopOf(answered, k, polled)
      BY <2>4 DEF Scans
    <3>3. f(k) \in Nat \ {0}
      BY <1>4
    <3>4. pos \in Nat /\ pos <= Len(history)
      <4> HIDE DEF f, n
      <4> QED BY <1>1, <2>2, <3>1, <3>2, <3>3
    <3>5. Handed(history', f(k), pos) = Handed(history, f(k), pos)
      BY <1>1, <3>3, <3>4, HandedStays
    <3> QED BY <2>4, <3>5 DEF Scans
  <2>5. ASSUME NEW k \in DOMAIN answered, TakesDecisions(k) PROVE TakesDecisions(k)'
    BY <2>5 DEF TakesDecisions
  <2> QED BY <2>1, <2>2, <2>3, <2>4, <2>5 DEF HelperInv
<1> QED BY <1>2, <1>5

\* A poll starts a decision task and a helper.
LEMMA PollInv ==
  ASSUME TypeOK, ServiceInv, Poll
  PROVE  TypeOK' /\ ServiceInv' /\ HelperInv'
<1>1. /\ StartDecisionTask /\ answered' = answered /\ polled' = Len(history')
      /\ pos' = 1 /\ pc' = "returned" /\ batch' = NoBatch
  BY DEF Poll
<1>2. ServiceInv'
  BY <1>1, Starts
<1>3. Rest(history', From(answered', Len(answered')), decisionTask')
      /\ decisionTask' = "started"
  BY <1>2, <1>1 DEF ServiceInv, StartDecisionTask
<1>4. /\ From(answered', Len(answered')) <= Len(history')
      /\ history'[Len(history')].type = "DecisionTaskStarted"
  BY <1>3 DEF Rest
<1>5. Len(history') \in Nat
  BY <1>2, LenProperties DEF ServiceInv
<1>6. From(answered', Len(answered')) \in Nat
  BY <1>2, TailType DEF ServiceInv
<1>7. NoBatch \in [events : Seq(Nat), decision_events : Seq(Nat), from : Nat,
                    replay : BOOLEAN, next_decision_event_id : Nat \cup {-1}]
  BY EmptyType DEF NoBatch
<1>8. TypeOK'
  BY <1>1, <1>5, <1>7 DEF TypeOK
<1>9. polled' \in From(answered', Len(answered'))..Len(history')
  BY <1>1, <1>4, <1>5, <1>6
<1>10. HelperInv'
  BY <1>1, <1>4, <1>9 DEF HelperInv
<1> QED BY <1>2, <1>8, <1>10

\* The loop condition of the caller tells the batches apart.
LEMMA ReturnedIs ==
  ASSUME TypeOK, ServiceInv, HelperInv, pc = "returned"
  PROVE  IF has_next
         THEN \E k \in 0..Len(answered) :
                pos = From(answered, k) /\ (batch = NoBatch \/ (k # 0 /\ batch = answered[k]))
         ELSE IsLast(batch)
<1> DEFINE n == Len(answered)
<1>1. /\ n \in Nat /\ DOMAIN answered = 1..n /\ From(answered, 0) = 1
      /\ \A k \in 0..n : From(answered, k) \in Nat /\ From(answered, k) # 0
      /\ \A k \in 1..n : From(answered, k) <= From(answered, n)
  BY PastIs DEF PastFacts
<1>2. /\ polled \in From(answered, n)..Len(history)
      /\ \/ batch = NoBatch /\ pos = 1
         \/ \E k \in DOMAIN answered : batch = answered[k] /\ pos = From(answered, k)
         \/ IsLast(batch)
  BY DEF HelperInv
<1>3. polled \in Nat /\ pos \in Nat /\ n \in 0..n
  BY <1>1, LenProperties DEF TypeOK, ServiceInv
<1> HIDE DEF n
<1>4. From(answered, n) <= polled /\ 1 <= polled
  BY <1>1, <1>2, <1>3
<1>5. CASE batch = NoBatch /\ pos = 1
  <2>1. 0 \in 0..n /\ has_next
    BY <1>1, <1>4, <1>5 DEF has_next
  <2> QED BY <2>1, <1>1, <1>5 DEF n
<1>6. CASE \E k \in DOMAIN answered : batch = answered[k] /\ pos = From(answered, k)
  <2>1. PICK k \in 1..n : batch = answered[k] /\ pos = From(answered, k)
    BY <1>1, <1>6
  <2>2. k \in 0..n /\ k # 0
    BY <1>1, <2>1
  <2>3. has_next
    BY <1>1, <1>3, <1>4, <2>1, <2>2 DEF has_next
  <2> QED BY <2>1, <2>2, <2>3 DEF n
<1>7. CASE IsLast(batch)
  <2>1. ~has_next
    BY <1>3, <1>7 DEF IsLast, has_next
  <2> QED BY <2>1, <1>7
<1> QED BY <1>2, <1>5, <1>6, <1>7

\* next_decision_events starts a batch.
LEMMA EnterInv ==
  ASSUME TypeOK, ServiceInv, HelperInv, Enter
  PROVE  TypeOK' /\ HelperInv'
<1>1. /\ pc = "returned" /\ has_next /\ pc' = "scan"
      /\ batch' = [NoBatch EXCEPT !.from = pos]
      /\ UNCHANGED <<history, polled, pos, answered>>
  BY DEF Enter, serviceVars
<1>2. PICK k \in 0..Len(answered) : pos = From(answered, k)
  BY <1>1, ReturnedIs
<1>3. /\ batch'.events = <<>> /\ batch'.decision_events = <<>> /\ batch'.replay
      /\ batch'.from = pos /\ batch'.next_decision_event_id = -1
      /\ batch' = [events |-> <<>>, decision_events |-> <<>>, from |-> pos, replay |-> TRUE,
                   next_decision_event_id |-> -1]
  BY <1>1 DEF NoBatch
<1>4. pos \in Nat /\ polled \in 0..Len(history)
  BY LenProperties DEF TypeOK, ServiceInv
<1>5. /\ polled \in From(answered, Len(answered))..Len(history)
      /\ history[polled].type = "DecisionTaskStarted"
  BY <1>1 DEF HelperInv
<1>6. /\ From(answered, k) <= StopOf(answered, k, polled)
      /\ StopOf(answered, k, polled) \in Nat
  BY <1>5, StopsBefore
<1>7. Handed(history, pos, pos) = {}
  BY <1>4 DEF Handed
<1>8. Scans(k)'
  <2>1. Lists(batch'.events, Handed(history', From(answered', k), pos'))
    BY <1>1, <1>2, <1>3, <1>7, ListsEmpty
  <2>2. pos' \in From(answered', k)..StopOf(answered', k, polled')
    BY <1>1, <1>2, <1>4, <1>6
  <2> QED BY <2>1, <2>2, <1>1, <1>2, <1>3 DEF Scans
<1>9. HelperInv'
  BY <1>1, <1>5, <1>8 DEF HelperInv
<1>10. batch' \in [events : Seq(Nat), decision_events : Seq(Nat), from : Nat,
                   replay : BOOLEAN, next_decision_event_id : Nat \cup {-1}]
  BY <1>3, <1>4, EmptyType
<1>11. TypeOK'
  BY <1>1, <1>10 DEF TypeOK
<1> QED BY <1>9, <1>11

\* The batch that is scanned, from its start to the DecisionTaskStarted that ends it.
ScanFacts(k, from, stop) ==
  /\ k \in 0..Len(answered) /\ Len(answered) \in Nat
  /\ Scans(k) /\ from = From(answered, k) /\ stop = StopOf(answered, k, polled)
  /\ from \in Nat /\ from # 0 /\ stop \in Nat /\ pos \in from..stop
  /\ polled \in From(answered, Len(answered))..Len(history)
  /\ polled \in Nat /\ stop <= polled /\ polled <= Len(history) /\ Len(history) \in Nat
  /\ history[polled].type = "DecisionTaskStarted"
  /\ history[stop].type = "DecisionTaskStarted"
  /\ Undecided(history, from, stop)
  /\ k = Len(answered) => stop = polled
  /\ k # Len(answered) =>
       /\ stop + 2 <= polled
       /\ stop + 2 = answered[k + 1].next_decision_event_id
       /\ stop + 2 <= From(answered, k + 1)
       /\ history[stop + 1].type = "DecisionTaskCompleted"

\* While events are taken, the batch is that of one answer, or the one not answered yet.
LEMMA ScanIs ==
  ASSUME TypeOK, ServiceInv, HelperInv, pc = "scan"
  PROVE  \E k \in 0..Len(answered) :
           ScanFacts(k, From(answered, k), StopOf(answered, k, polled))
<1>1. /\ polled \in From(answered, Len(answered))..Len(history)
      /\ history[polled].type = "DecisionTaskStarted"
      /\ \E k \in 0..Len(answered) : Scans(k)
  BY DEF HelperInv
<1>2. PICK k \in 0..Len(answered) : Scans(k)
  BY <1>1
<1> DEFINE n == Len(answered)
           from == From(answered, k)
           stop == StopOf(answered, k, polled)
<1>3. PastFacts(n)
  BY PastIs
<1>4. /\ n \in Nat /\ from \in Nat /\ from # 0
  BY <1>3 DEF PastFacts
<1>5. /\ from <= stop /\ stop \in Nat
      /\ k = n => stop = polled
      /\ k # n => /\ stop + 2 = answered[k + 1].next_decision_event_id
                  /\ stop + 2 <= From(answered, k + 1)
                  /\ stop + 2 <= polled
  BY <1>1, StopsBefore
<1>6. pos \in from..stop
  BY <1>2 DEF Scans
<1>7. Len(history) \in Nat /\ polled \in Nat /\ polled <= Len(history)
  BY LenProperties DEF TypeOK, ServiceInv
<1>8. stop <= polled
  <2> HIDE DEF n, stop
  <2> QED BY <1>5, <1>7
<1>9. CASE k = n
  <2>1. Undecided(history, from, Len(history))
    BY <1>9 DEF ServiceInv, Rest
  <2>2. stop = polled
    BY <1>5, <1>9
  <2> HIDE DEF stop, from
  <2>3. Undecided(history, from, stop)
    BY <2>1, <2>2, <1>4, <1>7 DEF Undecided
  <2>4. history[stop].type = "DecisionTaskStarted"
    BY <2>2, <1>1
  <2> QED BY <1>1, <1>2, <1>4, <1>5, <1>6, <1>7, <1>8, <1>9, <2>3, <2>4 DEF ScanFacts, stop, from
<1>10. CASE k # n
  <2>1. k + 1 \in 1..n /\ (k + 1) - 1 = k
    <3> HIDE DEF n
    <3> QED BY <1>4, <1>10 DEF n
  <2>2. Answered(history, answered[k + 1], from)
    BY <1>3, <2>1 DEF PastFacts
  <2>3. stop = answered[k + 1].next_decision_event_id - 2
    BY <2>1, <1>10, <1>4 DEF StopOf
  <2>4. /\ Undecided(history, from, stop)
        /\ history[stop].type = "DecisionTaskStarted"
        /\ history[stop + 1].type = "DecisionTaskCompleted"
    <3> HIDE DEF stop, from
    <3> QED BY <2>2, <2>3, Zenon DEF Answered
  <2> HIDE DEF stop, from
  <2> QED BY <1>1, <1>2, <1>4, <1>5, <1>6, <1>7, <1>8, <1>10, <2>4 DEF ScanFacts, stop, from
<1> QED BY <1>9, <1>10

\* The type of a batch while it is put together, and what is set in it.
BatchType(Id) ==
  [events : Seq(Nat), decision_events : Seq(Nat), from : Nat, replay : BOOLEAN,
   next_decision_event_id : Id]

\* What appending to a batch does to its type.
LEMMA BatchSet ==
  ASSUME NEW Id, NEW b \in BatchType(Id), NEW x \in Nat, NEW y \in Nat
  PROVE  /\ [b EXCEPT !.events = Append(@, x)] \in BatchType(Id)
         /\ [b EXCEPT !.decision_events = Append(@, x)] \in BatchType(Id)
         /\ [b EXCEPT !.replay = FALSE, !.next_decision_event_id = y] \in BatchType(Nat)
         /\ [b EXCEPT !.next_decision_event_id = y] \in BatchType(Nat)
<1>1. b.events \in Seq(Nat) /\ b.decision_events \in Seq(Nat)
  BY DEF BatchType
<1>2. Append(b.events, x) \in Seq(Nat) /\ Append(b.decision_events, x) \in Seq(Nat)
  BY <1>1
<1>3. [b EXCEPT !.events = Append(@, x)] \in BatchType(Id)
  BY <1>2 DEF BatchType
<1>4. [b EXCEPT !.decision_events = Append(@, x)] \in BatchType(Id)
  BY <1>2 DEF BatchType
<1>5. [b EXCEPT !.replay = FALSE, !.next_decision_event_id = y] \in BatchType(Nat)
  BY DEF BatchType
<1>6. [b EXCEPT !.next_decision_event_id = y] \in BatchType(Nat)
  BY DEF BatchType
<1> QED BY <1>3, <1>4, <1>5, <1>6

\* An event that is no start of a decision task goes into the batch.
LEMMA TakeEventInv ==
  ASSUME TypeOK, ServiceInv, HelperInv, TakeEvent
  PROVE  TypeOK' /\ HelperInv'
<1>1. /\ pc = "scan" /\ pc' = "scan" /\ pos' = pos + 1
      /\ history[pos].type # "DecisionTaskStarted" /\ pos # polled
      /\ batch' = [batch EXCEPT !.events = Append(@, pos)]
      /\ UNCHANGED <<history, polled, answered>>
  BY DEF TakeEvent, serviceVars
<1>2. PICK k \in 0..Len(answered) :
        ScanFacts(k, From(answered, k), StopOf(answered, k, polled))
  BY <1>1, ScanIs
<1> DEFINE from == From(answered, k)
           stop == StopOf(answered, k, polled)
<1>3. batch \in [events : Seq(Nat), decision_events : Seq(Nat), from : Nat,
                 replay : BOOLEAN, next_decision_event_id : Nat \cup {-1}]
  BY <1>1 DEF TypeOK
<1>4. /\ batch.events \in Seq(Nat) /\ batch'.events = Append(batch.events, pos)
      /\ batch'.from = batch.from /\ batch'.decision_events = batch.decision_events
      /\ batch'.replay = batch.replay
      /\ batch'.next_decision_event_id = batch.next_decision_event_id
  BY <1>1, <1>3
<1> HIDE DEF from, stop
<1>5. /\ from \in Nat /\ from # 0 /\ stop \in Nat /\ pos \in from..stop /\ stop <= polled
      /\ polled <= Len(history) /\ polled \in Nat /\ Len(history) \in Nat
      /\ history[stop].type = "DecisionTaskStarted" /\ Scans(k)
      /\ polled \in From(answered, Len(answered))..Len(history)
      /\ history[polled].type = "DecisionTaskStarted"
  BY <1>2 DEF ScanFacts, from, stop
<1>6. pos \in Nat /\ pos # stop /\ pos + 1 \in from..stop
  BY <1>1, <1>5
<1>7. Handed(history, from, pos + 1) = Handed(history, from, pos) \cup {pos}
  BY <1>1, <1>5, <1>6 DEF Handed
<1>8. Lists(batch'.events, Handed(history, from, pos + 1))
  <2>1. Lists(batch.events, Handed(history, from, pos))
    BY <1>5 DEF Scans, from
  <2>2. \A y \in Handed(history, from, pos) : y < pos
    BY <1>5, <1>6 DEF Handed
  <2> QED BY <2>1, <2>2, <1>4, <1>6, <1>7, ListsAppend
<1>9. Scans(k)'
  BY <1>1, <1>4, <1>5, <1>6, <1>8 DEF Scans, from, stop
<1>10. HelperInv'
  BY <1>1, <1>2, <1>5, <1>9 DEF HelperInv
<1>11. batch' \in BatchType(Nat \cup {-1})
  <2>1. batch \in BatchType(Nat \cup {-1})
    BY <1>3 DEF BatchType
  <2> QED BY <1>1, <1>6, <2>1, BatchSet
<1>12. pos' \in 1..(Len(history') + 1)
  BY <1>1, <1>5, <1>6
<1>13. TypeOK'
  BY <1>1, <1>11, <1>12 DEF TypeOK, BatchType
<1> QED BY <1>10, <1>13

\* The last event of the history ends the last batch.
LEMMA TakeLastInv ==
  ASSUME TypeOK, ServiceInv, HelperInv, TakeLast
  PROVE  TypeOK' /\ HelperInv'
<1>1. /\ pc = "scan" /\ pc' = "decisions" /\ pos' = pos + 1 /\ pos = polled
      /\ batch' = [batch EXCEPT !.replay = FALSE, !.next_decision_event_id = pos + 2]
      /\ UNCHANGED <<history, polled, answered>>
  BY DEF TakeLast, serviceVars, NextDecisionEventId
<1>2. PICK k \in 0..Len(answered) :
        ScanFacts(k, From(answered, k), StopOf(answered, k, polled))
  BY <1>1, ScanIs
<1> DEFINE from == From(answered, k)
           stop == StopOf(answered, k, polled)
<1>3. batch \in [events : Seq(Nat), decision_events : Seq(Nat), from : Nat,
                 replay : BOOLEAN, next_decision_event_id : Nat \cup {-1}]
  BY <1>1 DEF TypeOK
<1>4. /\ batch'.events = batch.events
      /\ batch'.from = batch.from /\ batch'.decision_events = batch.decision_events
      /\ ~batch'.replay /\ batch'.next_decision_event_id = pos + 2
  BY <1>1, <1>3
<1> HIDE DEF from, stop
<1>5. /\ from \in Nat /\ from # 0 /\ stop \in Nat /\ pos \in from..stop /\ stop <= polled
      /\ polled <= Len(history) /\ polled \in Nat /\ Len(history) \in Nat
      /\ Scans(k)
      /\ polled \in From(answered, Len(answered))..Len(history)
      /\ history[polled].type = "DecisionTaskStarted"
      /\ k # Len(answered) => stop + 2 <= polled
  BY <1>2 DEF ScanFacts, from, stop
<1>6. k = Len(answered) /\ pos \in Nat
  BY <1>1, <1>5
<1>7. IsLast(batch)'
  <2>1. /\ batch.from = from /\ Lists(batch.events, Handed(history, from, pos))
        /\ batch.decision_events = <<>>
    BY <1>5 DEF Scans, from
  <2> QED BY <2>1, <1>1, <1>4, <1>5, <1>6 DEF IsLast, from
<1>8. HelperInv'
  BY <1>1, <1>5, <1>7 DEF HelperInv
<1>9. batch' \in BatchType(Nat)
  <2>1. batch \in BatchType(Nat \cup {-1}) /\ pos + 2 \in Nat
    BY <1>3, <1>6 DEF BatchType
  <2>2. [batch EXCEPT !.replay = FALSE, !.next_decision_event_id = pos + 2] \in BatchType(Nat)
    BY <2>1, BatchSet
  <2> QED BY <1>1, <2>2
<1>10. pos' \in 1..(Len(history') + 1)
  BY <1>1, <1>5, <1>6
<1>11. TypeOK'
  BY <1>1, <1>9, <1>10 DEF TypeOK, BatchType
<1> QED BY <1>8, <1>11

\* A decision task that has timed out or failed goes on with the batch; one that was
\* answered, or is the last, ends it.
LEMMA TakeDecisionTaskStartedInv ==
  ASSUME TypeOK, ServiceInv, HelperInv, TakeDecisionTaskStarted
  PROVE  TypeOK' /\ HelperInv'
<1>1. /\ pc = "scan" /\ history[pos].type = "DecisionTaskStarted" /\ pos # polled
      /\ UNCHANGED <<history, polled, answered>>
  BY DEF TakeDecisionTaskStarted, serviceVars
<1>2. PICK k \in 0..Len(answered) :
        ScanFacts(k, From(answered, k), StopOf(answered, k, polled))
  BY <1>1, ScanIs
<1> DEFINE from == From(answered, k)
           stop == StopOf(answered, k, polled)
           n == Len(answered)
           peeked == history[pos + 1].type
<1>3. batch \in BatchType(Nat \cup {-1})
  BY <1>1 DEF TypeOK, BatchType
<1> HIDE DEF from, stop, n
<1>4. /\ from \in Nat /\ from # 0 /\ stop \in Nat /\ pos \in from..stop /\ stop <= polled
      /\ polled <= Len(history) /\ polled \in Nat /\ Len(history) \in Nat
      /\ Scans(k) /\ k \in 0..n /\ n \in Nat
      /\ polled \in From(answered, n)..Len(history)
      /\ history[polled].type = "DecisionTaskStarted"
      /\ Undecided(history, from, stop)
      /\ k = n => stop = polled
      /\ k # n => /\ stop + 2 <= polled
                  /\ stop + 2 = answered[k + 1].next_decision_event_id
                  /\ stop + 2 <= From(answered, k + 1)
                  /\ history[stop + 1].type = "DecisionTaskCompleted"
  BY <1>2 DEF ScanFacts, from, stop, n
<1>5. pos \in Nat
  BY <1>4
<1>6. CASE pos # stop
  <2>1. pos \in from..(stop - 1) /\ pos + 1 \in from..stop
    BY <1>4, <1>6
  <2>2. peeked \in GivenUpTypes
    BY <2>1, <1>1, <1>4 DEF Undecided
  <2>3. pos' = pos + 1 /\ UNCHANGED <<batch, pc>>
    <3>1. peeked # "DecisionTaskCompleted"
      BY <2>2 DEF GivenUpTypes
    <3> QED BY <2>2, <3>1, Zenon DEF TakeDecisionTaskStarted, AfterGivenUp
  <2>4. Handed(history, from, pos + 1) = Handed(history, from, pos)
    BY <1>1, <1>4, <1>5 DEF Handed
  <2>5. Scans(k)'
    <3>1. /\ batch.from = from /\ Lists(batch.events, Handed(history, from, pos))
          /\ batch.decision_events = <<>> /\ batch.replay
      BY <1>4 DEF Scans, from
    <3> QED BY <3>1, <1>1, <2>1, <2>3, <2>4 DEF Scans, from, stop
  <2>6. HelperInv'
    BY <1>1, <1>4, <2>3, <2>5 DEF HelperInv, n
  <2>7. pos' \in 1..(Len(history') + 1)
    BY <1>1, <1>4, <1>5, <2>1, <2>3
  <2>8. TypeOK'
    BY <1>1, <1>3, <2>3, <2>7 DEF TypeOK, BatchType
  <2> QED BY <2>6, <2>8
<1>7. CASE pos = stop
  <2>1. k # n /\ k + 1 \in 1..n /\ k + 1 \in 0..n /\ (k + 1) - 1 = k
    <3>1. k # n /\ k \in 0..n /\ n \in Nat
      BY <1>1, <1>4, <1>7
    <3> QED BY <3>1
  <2> DEFINE b == answered[k + 1]
  <2>2. /\ b \in BatchRecord /\ Answered(history, b, from) /\ DOMAIN answered = 1..n
    <3>1. PastFacts(n)
      BY PastIs DEF n
    <3> QED BY <3>1, <2>1 DEF PastFacts, from
  <2>3. peeked = "DecisionTaskCompleted" /\ peeked \notin GivenUpTypes
    BY <1>4, <1>7, <2>1 DEF GivenUpTypes
  <2>4. /\ batch' = [batch EXCEPT !.next_decision_event_id = pos + 1 + 1]
        /\ pos' = pos + 2 /\ pc' = "decisions"
    BY <2>3 DEF TakeDecisionTaskStarted
  <2>5. pos + 1 + 1 = pos + 2 /\ pos + 2 \in Nat
    BY <1>5
  <2>6. /\ batch'.events = batch.events /\ batch'.from = batch.from
        /\ batch'.decision_events = batch.decision_events /\ batch'.replay = batch.replay
        /\ batch'.next_decision_event_id = pos + 2 /\ batch.events \in Seq(Nat)
    BY <1>3, <2>4, <2>5 DEF BatchType
  <2>7. b.next_decision_event_id = pos + 2 /\ pos + 2 <= From(answered, k + 1)
    BY <1>4, <1>7, <2>1
  <2>8. b.events = batch.events
    <3>1. Lists(batch.events, Handed(history, from, pos))
      BY <1>4 DEF Scans, from
    <3>2. b.next_decision_event_id - 2 = pos
      BY <2>7, <1>5
    <3>3. Lists(b.events, Handed(history, from, pos))
      BY <2>2, <3>2 DEF Answered
    <3>4. b.events \in Seq(Nat)
      BY <2>2 DEF BatchRecord
    <3> HIDE DEF b
    <3> QED BY <3>1, <3>3, <3>4, <2>6, ListsUnique
  <2>9. TakesDecisions(k + 1)'
    <3>1. /\ batch.from = from /\ batch.decision_events = <<>> /\ batch.replay
          /\ b.from = from
      BY <1>4, <2>2 DEF Scans, from, Answered
    <3>2. From(answered, k + 1) \in Nat
      <4>1. PastFacts(n)
        BY PastIs DEF n
      <4> QED BY <2>1, <4>1 DEF PastFacts
    <3>3. pos + 2 \in (pos + 2)..From(answered, k + 1) /\ (pos + 2) - (pos + 2) = 0
      BY <1>5, <2>7, <3>2
    <3>4. [i \in 1..0 |-> pos + 2 - 1 + i] = <<>>
      OBVIOUS
    <3> QED BY <1>1, <2>4, <2>6, <2>7, <2>8, <3>1, <3>3, <3>4 DEF TakesDecisions
  <2>10. HelperInv'
    <3>1. k + 1 \in DOMAIN answered'
      BY <1>1, <2>1, <2>2
    <3> QED BY <1>1, <1>4, <2>4, <2>9, <3>1 DEF HelperInv, n
  <2>11. batch' \in BatchType(Nat)
    <3>1. [batch EXCEPT !.next_decision_event_id = pos + 2] \in BatchType(Nat)
      BY <1>3, <2>5, BatchSet
    <3> QED BY <3>1, <2>4, <2>5
  <2>12. pos' \in 1..(Len(history') + 1)
    BY <1>1, <1>4, <1>5, <1>7, <2>1, <2>4
  <2>13. TypeOK'
    BY <1>1, <2>4, <2>11, <2>12 DEF TypeOK, BatchType
  <2> QED BY <2>10, <2>13
<1> QED BY <1>6, <1>7

\* Inside of the second loop: what belongs to the batch is what answered it.
DecisionFacts(k, b, end) ==
  /\ k \in DOMAIN answered /\ k \in 1..Len(answered) /\ Len(answered) \in Nat
  /\ b = answered[k] /\ b \in BatchRecord /\ TakesDecisions(k)
  /\ end = From(answered, k) /\ end = EndOf(b) /\ end \in Nat
  /\ b.next_decision_event_id \in Nat /\ pos \in b.next_decision_event_id..end
  /\ b.from = batch.from /\ b.replay
  /\ polled \in From(answered, Len(answered))..Len(history)
  /\ polled \in Nat /\ end <= polled /\ polled <= Len(history) /\ Len(history) \in Nat
  /\ history[polled].type = "DecisionTaskStarted"
  /\ \A i \in b.next_decision_event_id..(end - 1) : is_decision_event(history[i])
  /\ b.decision_events =
       [i \in 1..Len(b.decision_events) |-> b.next_decision_event_id - 1 + i]
  /\ ~is_decision_event(history[end])

\* While decision events are taken, the batch is the last, or one that was answered.
LEMMA DecisionsIs ==
  ASSUME TypeOK, ServiceInv, HelperInv, pc = "decisions"
  PROVE  \/ IsLast(batch) /\ ~has_next
         \/ \E k \in DOMAIN answered : DecisionFacts(k, answered[k], From(answered, k))
<1>1. /\ polled \in From(answered, Len(answered))..Len(history)
      /\ history[polled].type = "DecisionTaskStarted"
      /\ IsLast(batch) \/ \E k \in DOMAIN answered : TakesDecisions(k)
  BY DEF HelperInv
<1>2. Len(history) \in Nat /\ polled \in Nat /\ pos \in Nat /\ polled <= Len(history)
  BY LenProperties DEF TypeOK, ServiceInv
<1>3. CASE IsLast(batch)
  <2>1. ~has_next
    BY <1>2, <1>3 DEF IsLast, has_next
  <2> QED BY <1>3, <2>1
<1>4. CASE \E k \in DOMAIN answered : TakesDecisions(k)
  <2>1. PICK k \in DOMAIN answered : TakesDecisions(k)
    BY <1>4
  <2> DEFINE n == Len(answered)
             b == answered[k]
             end == From(answered, k)
             next == b.next_decision_event_id
  <2>2. PastFacts(n)
    BY PastIs
  <2>3. k \in 1..n /\ k \in 0..n /\ n \in 0..n /\ n \in Nat
    BY <2>1, <2>2 DEF PastFacts
  <2>4. /\ b \in BatchRecord /\ Answered(history, b, From(answered, k - 1))
        /\ EndOf(b) = end /\ end <= From(answered, n)
        /\ end \in Nat /\ From(answered, n) \in Nat
    BY <2>2, <2>3 DEF PastFacts
  <2>5. next \in Nat
    BY <2>4 DEF BatchRecord
  <2>6. end <= polled /\ end <= Len(history)
    <3> HIDE DEF end, n
    <3> QED BY <1>1, <1>2, <2>4 DEF n
  <2>7. b.from = batch.from /\ pos \in next..end
    BY <2>1 DEF TakesDecisions
  <2>8. /\ b.replay
        /\ \A i \in next..(EndOf(b) - 1) : is_decision_event(history[i])
        /\ b.decision_events = [i \in 1..Len(b.decision_events) |-> next - 1 + i]
        /\ EndOf(b) <= Len(history) => ~is_decision_event(history[EndOf(b)])
    <3> HIDE DEF b
    <3> QED BY <2>4, Zenon DEF Answered
  <2> HIDE DEF end, b, n
  <2>9. DecisionFacts(k, b, end)
    BY <1>1, <1>2, <2>1, <2>3, <2>4, <2>5, <2>6, <2>7, <2>8, Zenon DEF DecisionFacts, b, n, end
  <2> QED BY <2>1, <2>9 DEF b, end
<1> QED BY <1>1, <1>3, <1>4

\* A decision event goes into the batch.
LEMMA TakeDecisionEventInv ==
  ASSUME TypeOK, ServiceInv, HelperInv, TakeDecisionEvent
  PROVE  TypeOK' /\ HelperInv'
<1>1. /\ pc = "decisions" /\ pc' = "decisions" /\ pos' = pos + 1
      /\ has_next /\ is_decision_event(history[pos])
      /\ batch' = [batch EXCEPT !.decision_events = Append(@, pos)]
      /\ UNCHANGED <<history, polled, answered>>
  BY DEF TakeDecisionEvent, serviceVars
<1>2. PICK k \in DOMAIN answered : DecisionFacts(k, answered[k], From(answered, k))
  BY <1>1, DecisionsIs
<1> DEFINE b == answered[k]
           end == From(answered, k)
           next == b.next_decision_event_id
<1>3. batch \in BatchType(Nat)
  BY <1>1 DEF TypeOK, BatchType
<1> HIDE DEF b, end
<1>4. /\ next \in Nat /\ end \in Nat /\ pos \in next..end /\ end <= polled
      /\ polled \in Nat /\ Len(history) \in Nat /\ polled <= Len(history)
      /\ polled \in From(answered, Len(answered))..Len(history)
      /\ history[polled].type = "DecisionTaskStarted"
      /\ ~is_decision_event(history[end])
      /\ TakesDecisions(k)
  BY <1>2, Zenon DEF DecisionFacts, b, end
<1> HIDE DEF next
<1>5. pos # end /\ pos \in Nat /\ pos + 1 \in next..end
  BY <1>1, <1>4
<1>6. /\ batch'.events = batch.events /\ batch'.from = batch.from
      /\ batch'.decision_events = Append(batch.decision_events, pos)
      /\ batch'.replay = batch.replay
      /\ batch'.next_decision_event_id = batch.next_decision_event_id
  BY <1>1, <1>3 DEF BatchType
<1>7. TakesDecisions(k)'
  <2>1. /\ batch.from = b.from /\ batch.next_decision_event_id = next
        /\ batch.events = b.events /\ batch.replay
        /\ batch.decision_events = [i \in 1..(pos - next) |-> next - 1 + i]
    BY <1>4 DEF TakesDecisions, b, next
  <2>2. Append(batch.decision_events, pos) = [i \in 1..(pos + 1 - next) |-> next - 1 + i]
    <3> DEFINE s == [i \in 1..(pos - next) |-> next - 1 + i]
               m == pos - next
               t == [i \in 1..(pos + 1 - next) |-> next - 1 + i]
    <3>1. m \in Nat /\ pos + 1 - next = m + 1 /\ pos = next - 1 + (m + 1)
      BY <1>4, <1>5
    <3>2. s \in Seq(Nat) /\ Len(s) = m /\ \A i \in 1..m : s[i] = next - 1 + i
      BY <1>4, <3>1
    <3>3. t \in Seq(Nat) /\ Len(t) = m + 1 /\ \A i \in 1..(m + 1) : t[i] = next - 1 + i
      BY <1>4, <3>1
    <3> HIDE DEF s, m, t
    <3>4. /\ Append(s, pos) \in Seq(Nat) /\ Len(Append(s, pos)) = m + 1
          /\ \A i \in 1..m : Append(s, pos)[i] = s[i]
          /\ Append(s, pos)[m + 1] = pos
      BY <3>2, <1>5, AppendProperties
    <3>5. \A i \in 1..(m + 1) : Append(s, pos)[i] = t[i]
      <4> SUFFICES ASSUME NEW i \in 1..(m + 1) PROVE Append(s, pos)[i] = t[i]
        OBVIOUS
      <4>1. CASE i = m + 1
        BY <4>1, <3>1, <3>3, <3>4
      <4>2. CASE i # m + 1
        <5>1. i \in 1..m
          BY <4>2, <3>1
        <5> QED BY <5>1, <3>2, <3>3, <3>4
      <4> QED BY <4>1, <4>2
    <3>6. Append(s, pos) = t
      <4> DEFINE u == Append(s, pos)
      <4>1. u \in Seq(Nat) /\ Len(u) = Len(t) /\ \A i \in 1..Len(u) : u[i] = t[i]
        BY <3>3, <3>4, <3>5
      <4> HIDE DEF u
      <4>2. u = t
        BY <4>1, <3>3, SeqEqual
      <4> QED BY <4>2 DEF u
    <3> QED BY <3>6, <2>1 DEF s, t
  <2>3. /\ batch'.from = b.from /\ batch'.next_decision_event_id = next
        /\ batch'.events = b.events /\ batch'.replay
        /\ pos' \in next..end
        /\ batch'.decision_events = [i \in 1..(pos' - next) |-> next - 1 + i]
    <3>1. /\ batch'.from = b.from /\ batch'.next_decision_event_id = next
          /\ batch'.events = b.events /\ batch'.replay
      <4>1. /\ batch'.from = b.from /\ batch'.next_decision_event_id = next
            /\ batch'.events = b.events
        BY <2>1, <1>6
      <4>2. batch'.replay
        BY <2>1, <1>6, Zenon
      <4> QED BY <4>1, <4>2
    <3>2. pos' \in next..end /\ pos' - next = pos + 1 - next
      <4>1. pos' = pos + 1 /\ pos \in Nat /\ next \in Nat /\ pos + 1 \in next..end
        BY <1>1, <1>4, <1>5
      <4> QED BY <4>1
    <3>3. batch'.decision_events = [i \in 1..(pos + 1 - next) |-> next - 1 + i]
      BY <2>2, <1>6, Zenon
    <3> QED BY <3>1, <3>2, <3>3
  <2>4. answered'[k] = b /\ From(answered', k) = end
    BY <1>1 DEF b, end
  <2> QED BY <2>3, <2>4 DEF TakesDecisions, next
<1>8. HelperInv'
  BY <1>1, <1>2, <1>4, <1>7 DEF HelperInv
<1>9. batch' \in BatchType(Nat)
  <2>1. [batch EXCEPT !.decision_events = Append(@, pos)] \in BatchType(Nat)
    BY <1>3, <1>5, BatchSet
  <2> QED BY <2>1, <1>1
<1>10. pos' \in 1..(Len(history') + 1)
  BY <1>1, <1>4, <1>5
<1>11. TypeOK'
  BY <1>1, <1>9, <1>10 DEF TypeOK, BatchType
<1> QED BY <1>8, <1>11

\* Batches with the same fields are the same.
LEMMA BatchEqual ==
  ASSUME NEW x \in BatchRecord, NEW y \in BatchRecord,
         x.events = y.events, x.decision_events = y.decision_events, x.from = y.from,
         x.replay = y.replay, x.next_decision_event_id = y.next_decision_event_id
  PROVE  x = y
BY DEF BatchRecord

\* A batch that is returned is the one that was answered, or the last.
LEMMA ReturnInv ==
  ASSUME TypeOK, ServiceInv, HelperInv, Return
  PROVE  TypeOK' /\ HelperInv'
<1>1. /\ pc = "decisions" /\ pc' = "returned"
      /\ has_next => ~is_decision_event(history[pos])
      /\ UNCHANGED <<history, polled, pos, batch, answered>>
  BY DEF Return, serviceVars
<1>2. /\ polled \in From(answered, Len(answered))..Len(history)
      /\ history[polled].type = "DecisionTaskStarted"
  BY <1>1 DEF HelperInv
<1>3. batch \in BatchType(Nat)
  BY <1>1 DEF TypeOK, BatchType
<1>4. TypeOK'
  <2>1. batch \in BatchType(Nat \cup {-1})
    BY <1>3 DEF BatchType
  <2> QED BY <1>1, <2>1 DEF TypeOK, BatchType
<1>5. CASE IsLast(batch)
  <2>1. IsLast(batch)'
    BY <1>1, <1>5 DEF IsLast
  <2>2. HelperInv'
    BY <1>1, <1>2, <2>1 DEF HelperInv
  <2> QED BY <1>4, <2>2
<1>6. CASE ~IsLast(batch)
  <2>1. PICK k \in DOMAIN answered : DecisionFacts(k, answered[k], From(answered, k))
    BY <1>1, <1>6, DecisionsIs
  <2> DEFINE b == answered[k]
             end == From(answered, k)
             next == b.next_decision_event_id
  <2> HIDE DEF b, end
  <2>2. /\ next \in Nat /\ end \in Nat /\ pos \in next..end /\ end <= polled
        /\ polled \in Nat /\ TakesDecisions(k) /\ b \in BatchRecord /\ b.replay
        /\ end = EndOf(b)
        /\ \A i \in next..(end - 1) : is_decision_event(history[i])
        /\ b.decision_events = [i \in 1..Len(b.decision_events) |-> next - 1 + i]
    BY <2>1, Zenon DEF DecisionFacts, b, end
  <2>3. pos = end
    <3> SUFFICES ASSUME pos # end PROVE FALSE
      OBVIOUS
    <3> HIDE DEF next
    <3>1. pos \in next..(end - 1) /\ has_next
      BY <2>2 DEF has_next
    <3> QED BY <3>1, <2>2, <1>1
  <2>4. /\ batch.from = b.from /\ batch.next_decision_event_id = next
        /\ batch.events = b.events /\ batch.replay
        /\ batch.decision_events = [i \in 1..(pos - next) |-> next - 1 + i]
    BY <2>2 DEF TakesDecisions, b
  <2>5. batch.decision_events = b.decision_events
    <3>1. Len(b.decision_events) \in Nat
      BY <2>2, LenProperties DEF BatchRecord
    <3>2. end = next + Len(b.decision_events)
      BY <2>2 DEF EndOf
    <3> HIDE DEF next
    <3>3. pos - next = Len(b.decision_events)
      BY <2>2, <2>3, <3>1, <3>2
    <3> QED BY <2>2, <2>4, <3>3
  <2>6. batch.replay = b.replay
    BY <2>2, <2>4, <1>3 DEF BatchType, BatchRecord
  <2>7. batch = b
    <3>1. batch \in BatchRecord
      BY <1>3 DEF BatchType, BatchRecord
    <3> QED BY <3>1, <2>2, <2>4, <2>5, <2>6, BatchEqual
  <2>8. HelperInv'
    BY <1>1, <1>2, <2>1, <2>3, <2>7 DEF HelperInv, b, end
  <2> QED BY <1>4, <2>8
<1> QED BY <1>5, <1>6

\* The events that answer decisions.
LEMMA AnswersAre ==
  ASSUME history \in Seq(EventRecord), NEW done \in Seq(Decision), NEW answers,
         answers = [i \in DOMAIN done |-> DecisionEvent(done[i])]
  PROVE  /\ answers \in Seq(EventRecord) /\ Len(answers) = Len(done)
         /\ DOMAIN done = 1..Len(done) /\ Len(done) \in Nat
         /\ \A i \in 1..Len(answers) : is_decision_event(answers[i])
<1>1. DOMAIN done = 1..Len(done) /\ Len(done) \in Nat /\ \A i \in 1..Len(done) : done[i] \in Decision
  BY LenProperties, ElementOfSeq
<1>2. \A i \in 1..Len(done) :
        DecisionEvent(done[i]) \in EventRecord /\ is_decision_event(DecisionEvent(done[i]))
  BY <1>1, DecisionEventType
<1>3. answers = [i \in 1..Len(done) |-> DecisionEvent(done[i])]
  BY <1>1
<1>4. answers \in [1..Len(done) -> EventRecord]
  BY <1>2, <1>3
<1>5. answers \in Seq(EventRecord) /\ Len(answers) = Len(done)
  BY <1>1, <1>4
<1> QED BY <1>1, <1>2, <1>3, <1>5

\* What comes right after the history when a decision task ends.
LEMMA EndsWith ==
  ASSUME history \in Seq(EventRecord), NEW ended \in Seq(EventRecord), ended # <<>>,
         NEW rest \in Seq(EventRecord), NEW retry, EndDecisionTask(ended, rest, retry)
  PROVE  history'[Len(history) + 1] = ended[1] /\ Len(history) <= Len(history')
<1> DEFINE scheduled == IF retry \/ rest # <<>> THEN <<Scheduled>> ELSE <<>>
           p == history \o ended
           q == p \o rest
           n == Len(history)
<1>1. history' = q \o scheduled
  BY DEF EndDecisionTask
<1>2. scheduled \in Seq(EventRecord)
  BY ScheduledQuiet, QuietSeq, EmptyType
<1> HIDE DEF scheduled
<1>3. IsJoin(history, ended, p)
  BY Joined
<1>4. p \in Seq(EventRecord)
  BY <1>3 DEF IsJoin
<1> HIDE DEF p
<1>5. IsJoin(p, rest, q)
  BY <1>4, Joined
<1>6. q \in Seq(EventRecord)
  BY <1>5 DEF IsJoin
<1> HIDE DEF q
<1>7. IsJoin(q, scheduled, history')
  BY <1>1, <1>2, <1>6, Joined
<1>8. /\ n \in Nat /\ Len(ended) \in Nat /\ Len(ended) # 0
      /\ Len(rest) \in Nat /\ Len(scheduled) \in Nat
      /\ Len(p) = n + Len(ended) /\ Len(q) = Len(p) + Len(rest)
      /\ Len(history') = Len(q) + Len(scheduled)
  BY <1>2, <1>3, <1>5, <1>7, LenProperties, EmptySeq DEF IsJoin
<1> HIDE DEF n
<1>9. p[n + 1] = ended[1]
  <2>1. n + 1 \in 1..(n + Len(ended)) /\ ~(n + 1 <= n) /\ (n + 1) - n = 1
    BY <1>8
  <2> QED BY <2>1, <1>3 DEF IsJoin, n
<1>10. q[n + 1] = p[n + 1]
  <2>1. n + 1 \in 1..(Len(p) + Len(rest)) /\ n + 1 <= Len(p)
    BY <1>8
  <2> QED BY <2>1, <1>5 DEF IsJoin
<1>11. history'[n + 1] = q[n + 1]
  <2>1. n + 1 \in 1..(Len(q) + Len(scheduled)) /\ n + 1 <= Len(q)
    BY <1>8
  <2> QED BY <2>1, <1>7 DEF IsJoin
<1>12. n <= Len(history')
  BY <1>8
<1> QED BY <1>9, <1>10, <1>11, <1>12 DEF n

\* An answer becomes the past of the next decision task.
LEMMA RespondInv ==
  ASSUME TypeOK, ServiceInv, HelperInv, Respond
  PROVE  TypeOK' /\ ServiceInv' /\ HelperInv'
<1>1. /\ pc = "returned" /\ ~has_next /\ polled' = 0 /\ pc' = "idle"
      /\ UNCHANGED <<pos, batch>>
  BY DEF Respond
<1>2. PICK decisions \in Answers :
        /\ RespondDecisionTaskCompleted(polled, decisions)
        /\ answered' =
             IF polled = StartedTask /\ history'[polled + 1].type = "DecisionTaskCompleted"
             THEN Append(answered, [batch EXCEPT
                    !.replay = TRUE,
                    !.decision_events = [i \in DOMAIN UpToClose(decisions) |-> polled + 1 + i]])
             ELSE answered
  BY DEF Respond
<1>3. HelperInv'
  BY <1>1 DEF HelperInv
<1>4. IsLast(batch)
  BY <1>1, ReturnedIs
<1>5. ServiceInv' /\ Len(history) <= Len(history')
  <2>1. /\ history \in Seq(EventRecord) /\ Len(history) \in Nat
        /\ buffered \in Seq(QuietEvent)
    BY LenProperties DEF ServiceInv, QuietEvent
  <2>2. CASE polled # StartedTask
    <3>1. UNCHANGED serviceVars /\ answered' = answered
      BY <1>2, <2>2 DEF RespondDecisionTaskCompleted
    <3> QED BY <3>1, <2>1 DEF ServiceInv, serviceVars
  <2>3. CASE polled = StartedTask
    <3>1. polled \in Nat /\ polled # 0
      <4>1. From(answered, Len(answered)) \in Nat \ {0}
        BY TailType DEF ServiceInv
      <4>2. polled \in From(answered, Len(answered))..Len(history)
        BY <1>1 DEF HelperInv
      <4> QED BY <4>1, <4>2, <2>1
    <3>2. decisionTask = "started" /\ polled = Len(history)
      BY <2>3, <3>1 DEF StartedTask
    <3>3. decisions \in Seq(Decision)
      BY HelperAssumption
    <3> DEFINE fails == buffered # <<>> /\ SelectInSeq(decisions, Closes) # 0
    <3>4. CASE fails
      <4> DEFINE e == Event("DecisionTaskFailed", 0, "")
      <4>1. EndDecisionTask(<<e>>, buffered, TRUE)
        BY <1>2, <2>3, <3>4, Zenon DEF RespondDecisionTaskCompleted
      <4>2. <<e>> \in Seq(EventRecord) /\ <<e>> # <<>> /\ <<e>>[1] = e
            /\ e.type = "DecisionTaskFailed"
        BY NoName, QuietKinds, QuietSeq DEF Event
      <4> HIDE DEF e
      <4>3. history'[Len(history) + 1] = e /\ Len(history) <= Len(history')
        <5>1. buffered \in Seq(EventRecord)
          BY <2>1, QuietSeq
        <5> QED BY <2>1, <4>1, <4>2, <5>1, EndsWith
      <4>4. answered' = answered
        BY <1>2, <3>2, <4>2, <4>3
      <4>5. ServiceInv'
        BY <3>2, <4>1, <4>4, GivesUp DEF e, GivenUpTypes
      <4> QED BY <4>3, <4>5
    <3>5. CASE ~fails
      <4> DEFINE done == UpToClose(decisions)
                 answers == [i \in DOMAIN done |-> DecisionEvent(done[i])]
                 canceled == {i \in DOMAIN answers : answers[i].type = "TimerCanceled"}
                 fired == {Event("TimerFired", answers[i].ref, "") : i \in canceled}
                 rest == Without(buffered, fired)
                 c == Event("DecisionTaskCompleted", 0, "")
      <4>1. EndDecisionTask(<<c>> \o answers, rest, FALSE)
        BY <1>2, <2>3, <3>5, Zenon DEF RespondDecisionTaskCompleted
      <4>2. done \in Seq(Decision)
        BY <3>3, UpToCloseType
      <4>3. rest \in Seq(QuietEvent)
        BY <2>1, WithoutType
      <4>4. /\ answers \in Seq(EventRecord) /\ Len(answers) = Len(done)
            /\ DOMAIN done = 1..Len(done) /\ Len(done) \in Nat
            /\ \A i \in 1..Len(answers) : is_decision_event(answers[i])
        BY <2>1, <4>2, AnswersAre
      <4>5. c \in EventRecord /\ c.type = "DecisionTaskCompleted"
        BY NoName DEF Event, EventRecord, EventTypes
      <4> HIDE DEF c, answers, rest, done
      <4>6. /\ <<c>> \o answers \in Seq(EventRecord) /\ <<c>> \o answers # <<>>
            /\ (<<c>> \o answers)[1] = c
        BY <4>4, <4>5, AnswerStarts
      <4>7. rest \in Seq(EventRecord)
        BY <4>3, QuietSeq
      <4>8. history'[Len(history) + 1] = c /\ Len(history) <= Len(history')
        <5> DEFINE ended == <<c>> \o answers
        <5>1. ended \in Seq(EventRecord) /\ ended # <<>> /\ ended[1] = c
              /\ EndDecisionTask(ended, rest, FALSE)
          BY <4>1, <4>6
        <5> HIDE DEF ended
        <5> QED BY <2>1, <4>7, <5>1, EndsWith
      <4> DEFINE ids == [i \in 1..Len(answers) |-> Len(history) + 1 + i]
                 b == [batch EXCEPT !.replay = TRUE, !.decision_events = ids]
      <4>9. answered' = Append(answered, b)
        BY <1>2, <2>3, <3>2, <4>4, <4>5, <4>8 DEF done
      <4>10. /\ batch.from = From(answered, Len(answered))
             /\ batch.next_decision_event_id = Len(history) + 2
             /\ Lists(batch.events, Handed(history, batch.from, Len(history)))
        BY <1>4, <3>2 DEF IsLast
      <4>11. b \in BatchRecord /\ b.from = batch.from /\ b.replay /\ b.events = batch.events
             /\ b.next_decision_event_id = batch.next_decision_event_id
             /\ b.decision_events = ids
        <5>1. ids \in Seq(Nat)
          BY <2>1, <4>4
        <5>2. batch \in BatchType(Nat \cup {-1})
          BY <1>1 DEF TypeOK, BatchType
        <5>3. batch.next_decision_event_id \in Nat
          BY <2>1, <4>10
        <5> HIDE DEF ids
        <5> QED BY <5>1, <5>2, <5>3 DEF BatchType, BatchRecord
      <4>12. ServiceInv'
        <5>1. /\ b.from = From(answered, Len(answered))
              /\ b.next_decision_event_id = Len(history) + 2
              /\ Lists(b.events, Handed(history, b.from, Len(history)))
              /\ b.decision_events = [i \in 1..Len(answers) |-> Len(history) + 1 + i]
              /\ \A i \in 1..Len(answers) : is_decision_event(answers[i])
          BY <4>4, <4>10, <4>11
        <5> HIDE DEF b
        <5> QED BY <3>2, <4>1, <4>3, <4>4, <4>9, <4>11, <5>1, Accepts DEF c
      <4> QED BY <4>8, <4>12
    <3> QED BY <3>4, <3>5
  <2> QED BY <2>2, <2>3
<1>6. TypeOK'
  BY <1>1, <1>5 DEF TypeOK
<1> QED BY <1>3, <1>5, <1>6

-----------------------------------------------------------------------------
(* The invariant is inductive *)

\* An execution that starts has nothing answered.
LEMMA InitInv == Init => Inv
<1> SUFFICES ASSUME Init PROVE Inv
  OBVIOUS
<1> DEFINE started == Event("WorkflowExecutionStarted", 0, "")
<1>1. /\ history = <<started, Scheduled>> /\ buffered = <<>>
      /\ decisionTask = "scheduled" /\ polled = 0 /\ pos = 1 /\ pc = "idle"
      /\ batch = NoBatch /\ answered = <<>>
  BY DEF Init, ServiceInit
<1>2. started \in QuietEvent /\ Scheduled \in QuietEvent
  BY NoName, QuietKinds DEF Scheduled
<1> HIDE DEF started
<1>3. history \in Seq(QuietEvent) /\ Len(history) = 2
  BY <1>1, <1>2
<1>4. history \in Seq(EventRecord) /\ \A i \in 1..2 : IsQuiet(history[i])
  BY <1>3, QuietSeq
<1>5. /\ <<>> \in Seq(BatchRecord) /\ <<>> \in Seq({e \in EventRecord : IsQuiet(e)})
      /\ Len(<<>>) = 0
  BY EmptyType
<1>6. From(answered, Len(answered)) = 1 /\ From(answered, 0) = 1
  BY <1>1, <1>5 DEF From
<1>7. Past(history, answered)
  BY <1>1, <1>6 DEF Past
<1>8. Rest(history, 1, "scheduled")
  <2>1. Undecided(history, 1, 2)
    BY <1>4 DEF Undecided, IsQuiet
  <2> QED BY <1>3, <1>4, <2>1 DEF Rest
<1>9. history # <<>>
  BY <1>3, EmptySeq
<1>10. ServiceInv
  BY <1>1, <1>4, <1>5, <1>6, <1>7, <1>8, <1>9 DEF ServiceInv
<1>11. NoBatch \in [events : Seq(Nat), decision_events : Seq(Nat), from : Nat,
                    replay : BOOLEAN, next_decision_event_id : Nat \cup {-1}]
  BY EmptyType DEF NoBatch
<1>12. TypeOK
  BY <1>1, <1>3, <1>11 DEF TypeOK
<1>13. HelperInv
  BY <1>1 DEF HelperInv
<1> QED BY <1>10, <1>12, <1>13 DEF Inv

\* Every step of the service and of the helper keeps the invariant.
LEMMA NextInv == Inv /\ [Next]_vars => Inv'
<1> SUFFICES ASSUME TypeOK, ServiceInv, HelperInv, [Next]_vars
             PROVE  TypeOK' /\ ServiceInv' /\ HelperInv'
  BY DEF Inv
<1>1. ASSUME UNCHANGED serviceVars, answered' = answered PROVE ServiceInv'
  BY <1>1 DEF ServiceInv, serviceVars
<1>2. CASE Poll
  BY <1>2, PollInv
<1>3. CASE Enter
  BY <1>3, <1>1, EnterInv DEF Enter
<1>4. CASE TakeEvent
  BY <1>4, <1>1, TakeEventInv DEF TakeEvent
<1>5. CASE TakeLast
  BY <1>5, <1>1, TakeLastInv DEF TakeLast
<1>6. CASE TakeDecisionTaskStarted
  BY <1>6, <1>1, TakeDecisionTaskStartedInv DEF TakeDecisionTaskStarted
<1>7. CASE TakeDecisionEvent
  BY <1>7, <1>1, TakeDecisionEventInv DEF TakeDecisionEvent
<1>8. CASE Return
  BY <1>8, <1>1, ReturnInv DEF Return
<1>9. CASE Respond
  BY <1>9, RespondInv
<1>10. CASE Crash
  <2>1. /\ UNCHANGED serviceVars /\ answered' = answered /\ polled' = 0 /\ pc' = "idle"
        /\ UNCHANGED <<pos, batch, history>> /\ pc # "idle"
    BY <1>10 DEF Crash, serviceVars
  <2>2. ServiceInv' /\ HelperInv'
    BY <2>1, <1>1 DEF HelperInv
  <2>3. batch \in BatchType(Nat \cup {-1}) /\ Len(history) \in Nat
    BY LenProperties DEF TypeOK, BatchType, ServiceInv
  <2>4. TypeOK'
    BY <2>1, <2>3 DEF TypeOK, BatchType
  <2> QED BY <2>2, <2>4
<1>11. CASE ServiceActs
  <2>1. /\ UNCHANGED <<polled, pos, pc, batch>> /\ answered' = answered
    BY <1>11 DEF ServiceActs
  <2>2. ServiceInv' /\ HistoryGrows
    BY <1>11, ServiceActsInv
  <2>3. history' \in Seq(EventRecord)
    BY <2>2 DEF ServiceInv
  <2> QED BY <2>1, <2>2, <2>3, HelperStays
<1>12. CASE UNCHANGED vars
  BY <1>12, <1>1 DEF vars, serviceVars, TypeOK, HelperInv, IsLast, Scans, TakesDecisions
<1> QED BY <1>2, <1>3, <1>4, <1>5, <1>6, <1>7, <1>8, <1>9, <1>10, <1>11, <1>12 DEF Next

\* The invariant holds of every history, whatever is signaled and answered, however
\* many decision tasks time out and wherever workers die.
THEOREM Invariant == Spec => []Inv
BY InitInv, NextInv, PTL DEF Spec

\* decision_loop.py:68-140: the helper's variables keep their types.
THEOREM TypeCorrect == Spec => []TypeOK
<1>1. Inv => TypeOK
  BY DEF Inv
<1> QED BY <1>1, Invariant, PTL

\* decision_loop.py:107: "Unexpected event after DecisionTaskStarted" is never raised.
THEOREM Splits == Spec => []NeverRaises
<1>1. Inv => NeverRaises
  BY DEF Inv, HelperInv, NeverRaises
<1> QED BY <1>1, Invariant, PTL

-----------------------------------------------------------------------------
(* What the batches are *)

\* A batch that was returned is an answered one, or the one to decide.
LEMMA BatchIs ==
  ASSUME Inv, HasBatch
  PROVE  \/ \E k \in 1..Len(answered) : batch = answered[k] /\ pos = From(answered, k)
         \/ IsLast(batch) /\ ~has_next
<1>1. TypeOK /\ ServiceInv /\ HelperInv /\ pc = "returned" /\ batch.from # 0
  BY DEF Inv, HasBatch
<1>2. /\ \/ batch = NoBatch /\ pos = 1
         \/ \E k \in DOMAIN answered : batch = answered[k] /\ pos = From(answered, k)
         \/ IsLast(batch)
  BY <1>1 DEF HelperInv
<1>3. batch # NoBatch
  BY <1>1 DEF NoBatch
<1>4. DOMAIN answered = 1..Len(answered)
  BY <1>1, PastIs DEF PastFacts
<1>5. IsLast(batch) => ~has_next
  <2>1. polled \in Nat
    BY <1>1, LenProperties DEF TypeOK, ServiceInv
  <2> QED BY <2>1 DEF IsLast, has_next
<1> QED BY <1>2, <1>3, <1>4, <1>5

\* The first end of a batch is its stop.
LEMMA StopIs ==
  ASSUME NEW h, Len(h) \in Nat, NEW from \in Nat, NEW stop \in Nat, from <= stop,
         stop <= Len(h), Undecided(h, from, stop), EndsBatch(h, stop)
  PROVE  BatchStop(h, from) = stop
<1>1. ASSUME NEW j \in from..(stop - 1) PROVE ~EndsBatch(h, j)
  <2>1. j # Len(h)
    OBVIOUS
  <2>2. h[j].type = "DecisionTaskStarted" => GivenUp(h, j)
    BY DEF Undecided, GivenUp, GivenUpTypes
  <2> QED BY <2>1, <2>2 DEF EndsBatch
<1> DEFINE Stops(i) == EndsBatch(h, i) /\ \A j \in from..(i - 1) : ~EndsBatch(h, j)
<1>2. stop \in from..Len(h) /\ Stops(stop)
  BY <1>1
<1>3. ASSUME NEW i \in from..Len(h), Stops(i) PROVE i = stop
  <2>1. ~(i < stop)
    <3> SUFFICES ASSUME i < stop PROVE FALSE
      OBVIOUS
    <3>1. i \in from..(stop - 1)
      OBVIOUS
    <3> QED BY <3>1, <1>1, <1>3
  <2>2. ~(stop < i)
    <3> SUFFICES ASSUME stop < i PROVE FALSE
      OBVIOUS
    <3>1. stop \in from..(i - 1)
      OBVIOUS
    <3> QED BY <3>1, <1>3
  <2> QED BY <2>1, <2>2
<1>4. BatchStop(h, from) = CHOOSE i \in from..Len(h) : Stops(i)
  BY Zenon DEF BatchStop
<1> HIDE DEF Stops
<1> QED BY <1>2, <1>3, <1>4

\* Nothing but decision events from next to before end.
Decisions(h, next, end) == \A k \in next..(end - 1) : is_decision_event(h[k])

\* The decision events of a batch end at its end.
LEMMA DecisionsEnd ==
  ASSUME NEW h, Len(h) \in Nat, NEW next \in Nat, NEW end \in Nat, next <= end,
         end <= Len(h), Decisions(h, next, end),
         ~is_decision_event(h[end])
  PROVE  DecisionsStop(h, next) = end
<1> DEFINE Ends(j) == /\ \A k \in next..(j - 1) : is_decision_event(h[k])
                      /\ j <= Len(h) => ~is_decision_event(h[j])
<1>1. end \in next..(Len(h) + 1) /\ Ends(end)
  BY DEF Decisions
<1>2. ASSUME NEW j \in next..(Len(h) + 1), Ends(j) PROVE j = end
  <2>1. ~(j < end)
    <3> SUFFICES ASSUME j < end PROVE FALSE
      OBVIOUS
    <3>1. j \in next..(end - 1) /\ j <= Len(h)
      OBVIOUS
    <3> QED BY <3>1, <1>2 DEF Decisions
  <2>2. ~(end < j)
    <3> SUFFICES ASSUME end < j PROVE FALSE
      OBVIOUS
    <3>1. end \in next..(j - 1)
      OBVIOUS
    <3> QED BY <3>1, <1>2
  <2> QED BY <2>1, <2>2
<1>3. DecisionsStop(h, next) = CHOOSE j \in next..(Len(h) + 1) : Ends(j)
  BY Zenon DEF DecisionsStop
<1> HIDE DEF Ends
<1> QED BY <1>1, <1>2, <1>3

\* The history of the decision task is the beginning of the history.
Begins(h, g, n) == Len(h) = n /\ \A i \in 1..n : h[i] = g[i]

\* The helper's copy of the history is how the history begins.
LEMMA TaskHistory ==
  ASSUME NEW h \in Seq(EventRecord), NEW n \in Nat, n <= Len(h)
  PROVE  Begins(SubSeq(h, 1, n), h, n)
<1>1. Len(h) \in Nat /\ \A i \in 1..n : h[i] \in EventRecord
  BY LenProperties, ElementOfSeq
<1>2. /\ Len(SubSeq(h, 1, n)) = IF 1 <= n THEN n - 1 + 1 ELSE 0
      /\ \A i \in 1..(n - 1 + 1) : SubSeq(h, 1, n)[i] = h[1 + i - 1]
  BY <1>1, SubSeqProperties
<1>3. n - 1 + 1 = n /\ \A i \in 1..n : 1 + i - 1 = i
  OBVIOUS
<1>4. /\ Len(SubSeq(h, 1, n)) = n
      /\ \A i \in 1..n : SubSeq(h, 1, n)[i] = h[i]
  BY <1>2, <1>3
<1> QED BY <1>4, Zenon DEF Begins

\* Ids one after the other.
LEMMA ListsRange ==
  ASSUME NEW next \in Nat, NEW m \in Nat
  PROVE  Lists([i \in 1..m |-> next - 1 + i], next..(next + m - 1))
<1> DEFINE s == [i \in 1..m |-> next - 1 + i]
<1>1. DOMAIN s = 1..m /\ \A i \in 1..m : s[i] = next - 1 + i
  OBVIOUS
<1> HIDE DEF s
<1>2. \A x \in next..(next + m - 1) : x - next + 1 \in 1..m /\ x = next - 1 + (x - next + 1)
  OBVIOUS
<1>3. \A i \in 1..m : next - 1 + i \in next..(next + m - 1)
  OBVIOUS
<1>4. ToSet(s) = next..(next + m - 1)
  <2>1. \A x \in next..(next + m - 1) : \E i \in 1..m : x = s[i]
    BY <1>1, <1>2
  <2>2. \A i \in 1..m : s[i] \in next..(next + m - 1)
    BY <1>1, <1>3
  <2> QED BY <2>1, <2>2, <1>1 DEF ToSet
<1>5. \A i, j \in 1..m : i < j => s[i] < s[j]
  BY <1>1
<1> QED BY <1>1, <1>4, <1>5 DEF Lists, s

\* Undecided events stay so in the beginning of a history.
LEMMA UndecidedBegins ==
  ASSUME NEW g, NEW h, NEW n \in Nat, NEW from \in Nat, NEW stop \in Nat, from # 0, stop <= n,
         Begins(h, g, n), Undecided(g, from, stop)
  PROVE  /\ Undecided(h, from, stop)
         /\ {i \in from..(stop - 1) : h[i].type # "DecisionTaskStarted"} = Handed(g, from, stop)
<1>1. Undecided(h, from, stop)
  <2> SUFFICES ASSUME NEW i \in from..(stop - 1)
               PROVE  /\ h[i].type \notin DecisionEventTypes \cup {"DecisionTaskCompleted"}
                      /\ h[i].type = "DecisionTaskStarted" => h[i + 1].type \in GivenUpTypes
    BY DEF Undecided
  <2>1. i \in 1..n /\ i + 1 \in 1..n
    OBVIOUS
  <2>2. h[i] = g[i] /\ h[i + 1] = g[i + 1]
    BY <2>1 DEF Begins
  <2> QED BY <2>2 DEF Undecided
<1>2. \A i \in from..(stop - 1) : h[i] = g[i]
  BY DEF Begins
<1> QED BY <1>1, <1>2 DEF Handed

IsBatch(c, h, from) == c = Batch(h, from)

\* What History says of an answered batch.
LEMMA BatchOfAnswered ==
  ASSUME NEW g \in Seq(EventRecord), NEW n \in Nat, n <= Len(g), NEW b \in BatchRecord,
         NEW from \in Nat, from # 0, Answered(g, b, from), EndOf(b) <= n,
         NEW h, Begins(h, g, n), NEW c, IsBatch(c, h, from)
  PROVE  /\ c.end = EndOf(b) /\ c.replay = TRUE
         /\ c.next_decision_event_id = b.next_decision_event_id
         /\ Lists(b.events, BatchEvents(h, c))
         /\ Lists(b.decision_events, BatchDecisionEvents(c))
<1> DEFINE next == b.next_decision_event_id
           stop == next - 2
           end == EndOf(b)
           m == Len(b.decision_events)
<1>1. Len(h) = n /\ \A i \in 1..n : h[i] = g[i]
  BY DEF Begins
<1>2. next \in Nat /\ m \in Nat /\ end = next + m /\ Len(g) \in Nat
  BY LenProperties DEF BatchRecord, EndOf
<1>3. /\ from <= stop
      /\ g[stop].type = "DecisionTaskStarted" /\ g[stop + 1].type = "DecisionTaskCompleted"
      /\ Undecided(g, from, stop) /\ Lists(b.events, Handed(g, from, stop))
      /\ \A i \in next..(end - 1) : is_decision_event(g[i])
      /\ b.decision_events = [i \in 1..m |-> next - 1 + i]
      /\ end <= Len(g) => ~is_decision_event(g[end])
  BY Zenon DEF Answered
<1>4. stop + 2 = next /\ stop \in Int
  BY <1>2
<1>5. end <= n
  OBVIOUS
<1> HIDE DEF next, end, m, stop
<1>6. /\ stop \in Nat /\ stop \in 1..n /\ stop + 1 \in 1..n /\ end \in 1..n /\ end \in Nat
      /\ stop <= n /\ stop # n /\ next <= end /\ end <= Len(g)
  BY <1>2, <1>3, <1>4, <1>5
<1>7. Undecided(h, from, stop)
      /\ {i \in from..(stop - 1) : h[i].type # "DecisionTaskStarted"} = Handed(g, from, stop)
  BY <1>1, <1>3, <1>6, UndecidedBegins
<1>8. EndsBatch(h, stop)
  BY <1>1, <1>3, <1>6 DEF EndsBatch, GivenUp
<1>9. BatchStop(h, from) = stop
  BY <1>1, <1>3, <1>6, <1>7, <1>8, StopIs
<1>10. Decisions(h, next, end)
  <2> SUFFICES ASSUME NEW i \in next..(end - 1) PROVE is_decision_event(h[i])
    BY DEF Decisions
  <2>1. i \in 1..n
    BY <1>2, <1>4, <1>6
  <2> QED BY <2>1, <1>1, <1>3
<1>11. ~is_decision_event(h[end])
  BY <1>1, <1>3, <1>6
<1>12. DecisionsStop(h, next) = end
  BY <1>1, <1>2, <1>6, <1>10, <1>11, DecisionsEnd
<1>13. c = [from |-> from, stop |-> stop, replay |-> TRUE, next_decision_event_id |-> next,
            end |-> end]
  BY <1>1, <1>4, <1>6, <1>9, <1>12 DEF Batch, IsBatch
<1>14. BatchEvents(h, c) = Handed(g, from, stop)
  BY <1>7, <1>13 DEF BatchEvents
<1>15. BatchDecisionEvents(c) = next..(next + m - 1)
  <2>1. c.next_decision_event_id = next /\ c.end - 1 = next + m - 1
    BY <1>2, <1>13
  <2> QED BY <2>1 DEF BatchDecisionEvents
<1>16. Lists(b.decision_events, BatchDecisionEvents(c))
  <2>1. Lists([i \in 1..m |-> next - 1 + i], next..(next + m - 1))
    BY <1>2, ListsRange
  <2> QED BY <2>1, <1>3, <1>15
<1>17. Lists(b.events, BatchEvents(h, c))
  BY <1>3, <1>14
<1>18. c.end = end /\ c.replay = TRUE /\ c.next_decision_event_id = next
  BY <1>13
<1> QED BY <1>16, <1>17, <1>18 DEF next, end

\* What History says of the batch that ends with the history.
LEMMA BatchOfLast ==
  ASSUME NEW g \in Seq(EventRecord), NEW n \in Nat, n <= Len(g),
         NEW from \in Nat, from # 0, from <= n, Undecided(g, from, n),
         NEW h, Begins(h, g, n), NEW c, IsBatch(c, h, from)
  PROVE  /\ c.end = n + 1 /\ c.replay = FALSE /\ c.next_decision_event_id = n + 2
         /\ BatchEvents(h, c) = Handed(g, from, n) /\ BatchDecisionEvents(c) = {}
<1>1. Len(h) = n /\ \A i \in 1..n : h[i] = g[i]
  BY DEF Begins
<1>2. Undecided(h, from, n)
      /\ {i \in from..(n - 1) : h[i].type # "DecisionTaskStarted"} = Handed(g, from, n)
  <2>1. n <= n /\ Begins(h, g, n) /\ Undecided(g, from, n)
    OBVIOUS
  <2> QED BY <2>1, UndecidedBegins
<1>3. EndsBatch(h, n)
  BY <1>1 DEF EndsBatch
<1>4. BatchStop(h, from) = n
  BY <1>1, <1>2, <1>3, StopIs
<1>5. c = [from |-> from, stop |-> n, replay |-> FALSE, next_decision_event_id |-> n + 2,
           end |-> n + 1]
  BY <1>1, <1>4 DEF Batch, IsBatch
<1>6. BatchEvents(h, c) = Handed(g, from, n)
  BY <1>2, <1>5 DEF BatchEvents
<1>7. BatchDecisionEvents(c) = {}
  <2>1. BatchDecisionEvents(c) = (n + 2)..(n + 1 - 1)
    BY <1>5 DEF BatchDecisionEvents
  <2> QED BY <2>1
<1>8. c.end = n + 1 /\ c.replay = FALSE /\ c.next_decision_event_id = n + 2
  BY <1>5
<1> QED BY <1>6, <1>7, <1>8, Zenon

\* A batch that is returned is as the decider needs it.
LEMMA ReturnedBatch == Inv => ReturnsBatch
<1> DEFINE Returned(h, c) ==
             /\ pos = c.end
             /\ batch.replay = c.replay
             /\ batch.next_decision_event_id = c.next_decision_event_id
             /\ Lists(batch.events, BatchEvents(h, c))
             /\ Lists(batch.decision_events, BatchDecisionEvents(c))
<1> SUFFICES ASSUME Inv, HasBatch,
                    NEW h, Begins(h, history, polled), NEW c, IsBatch(c, h, batch.from)
             PROVE  Returned(h, c)
  <2> SUFFICES ASSUME Inv, HasBatch
               PROVE  Returned(SubSeq(history, 1, polled),
                               Batch(SubSeq(history, 1, polled), batch.from))
    BY Zenon DEF ReturnsBatch
  <2> DEFINE h == SubSeq(history, 1, polled)
             c == Batch(h, batch.from)
  <2>1. Begins(h, history, polled)
    <3>1. history \in Seq(EventRecord) /\ Len(history) \in Nat
      BY LenProperties DEF Inv, ServiceInv
    <3>2. polled \in Nat /\ polled <= Len(history)
      BY <3>1 DEF Inv, TypeOK
    <3> QED BY <3>1, <3>2, TaskHistory
  <2>2. IsBatch(c, h, batch.from)
    BY DEF IsBatch
  <2>3. ASSUME NEW h0, NEW c0, Begins(h0, history, polled), IsBatch(c0, h0, batch.from)
        PROVE  Returned(h0, c0)
    BY <2>3
  <2> HIDE DEF h, c, Returned
  <2>4. Returned(h, c)
    BY <2>1, <2>2, <2>3, Zenon
  <2> QED BY <2>4 DEF h, c
<1> DEFINE n == Len(answered)
<1>1. /\ TypeOK /\ ServiceInv /\ HelperInv /\ pc = "returned"
  BY DEF Inv, HasBatch
<1>2. history \in Seq(EventRecord) /\ Len(history) \in Nat
  BY <1>1, LenProperties DEF ServiceInv
<1>3. PastFacts(n)
  BY <1>1, PastIs
<1>4. polled \in From(answered, n)..Len(history)
  BY <1>1 DEF HelperInv
<1>5. polled \in Nat /\ polled <= Len(history) /\ From(answered, n) <= polled
      /\ From(answered, n) \in Nat /\ From(answered, n) # 0 /\ n \in Nat
  BY <1>2, <1>3, <1>4 DEF PastFacts
<1>6. Begins(h, history, polled)
  OBVIOUS
<1>7. CASE \E k \in 1..n : batch = answered[k] /\ pos = From(answered, k)
  <2>1. PICK k \in 1..n : batch = answered[k] /\ pos = From(answered, k)
    BY <1>7
  <2> DEFINE from == From(answered, k - 1)
  <2>2. k - 1 \in 0..n /\ k \in 0..n
    BY <1>5
  <2>3. /\ batch \in BatchRecord /\ Answered(history, batch, from)
        /\ from \in Nat /\ from # 0 /\ EndOf(batch) = pos /\ pos \in Nat
        /\ pos <= From(answered, n)
    BY <1>3, <2>1, <2>2 DEF PastFacts
  <2> HIDE DEF from, n
  <2>4. batch.from = from /\ batch.replay
    BY <2>3, Zenon DEF Answered
  <2>5. batch.replay = TRUE
    BY <2>3, <2>4 DEF BatchRecord
  <2>6. EndOf(batch) <= polled
    BY <1>5, <2>3
  <2>7. IsBatch(c, h, from)
    BY <2>4
  <2>8. /\ c.end = EndOf(batch) /\ c.replay = TRUE
        /\ c.next_decision_event_id = batch.next_decision_event_id
        /\ Lists(batch.events, BatchEvents(h, c))
        /\ Lists(batch.decision_events, BatchDecisionEvents(c))
    BY <1>2, <1>5, <1>6, <2>3, <2>6, <2>7, BatchOfAnswered
  <2> QED BY <2>3, <2>5, <2>8
<1>8. CASE IsLast(batch) /\ ~has_next
  <2> DEFINE from == From(answered, n)
  <2>1. /\ batch.from = from /\ ~batch.replay /\ batch.next_decision_event_id = polled + 2
        /\ Lists(batch.events, Handed(history, from, polled))
        /\ batch.decision_events = <<>> /\ pos = polled + 1
    BY <1>8 DEF IsLast
  <2>2. batch.replay = FALSE
    BY <2>1, <1>1 DEF TypeOK
  <2>3. Undecided(history, from, polled)
    <3>1. Undecided(history, from, Len(history))
      BY <1>1 DEF ServiceInv, Rest
    <3> HIDE DEF from
    <3> QED BY <3>1, <1>2, <1>5 DEF Undecided
  <2>4. from \in Nat /\ from # 0 /\ from <= polled
    BY <1>5
  <2> HIDE DEF from, n
  <2>5. IsBatch(c, h, from)
    BY <2>1
  <2>6. /\ c.end = polled + 1 /\ c.replay = FALSE /\ c.next_decision_event_id = polled + 2
        /\ BatchEvents(h, c) = Handed(history, from, polled) /\ BatchDecisionEvents(c) = {}
    BY <1>2, <1>5, <1>6, <2>3, <2>4, <2>5, BatchOfLast
  <2> QED BY <2>1, <2>2, <2>6, ListsEmpty
<1> QED BY <1>7, <1>8, BatchIs

\* decision_loop.py:68-140: what next returns, with its peeks and its continue, is the
\* batch that History defines.
THEOREM Returns == Spec => []ReturnsBatch
BY Invariant, ReturnedBatch, PTL

\* A replay has the batches that were answered.
LEMMA AnsweredReplayed == Inv => ReplaysTheAnswered
<1> SUFFICES ASSUME Inv, HasBatch
             PROVE  IF batch.replay
                    THEN \E k \in DOMAIN answered : answered[k] = batch
                    ELSE batch.from = IF answered = <<>> THEN 1
                                      ELSE LET b == Last(answered)
                                           IN  b.next_decision_event_id + Len(b.decision_events)
  BY DEF ReplaysTheAnswered
<1>1. ServiceInv /\ answered \in Seq(BatchRecord)
  BY DEF Inv, ServiceInv
<1>2. PastFacts(Len(answered))
  BY <1>1, PastIs
<1>3. CASE \E k \in 1..Len(answered) : batch = answered[k] /\ pos = From(answered, k)
  <2>1. PICK k \in 1..Len(answered) : batch = answered[k]
    BY <1>3
  <2>2. Answered(history, answered[k], From(answered, k - 1)) /\ k \in DOMAIN answered
    BY <1>2, <2>1 DEF PastFacts
  <2>3. batch.replay
    BY <2>1, <2>2 DEF Answered
  <2> QED BY <2>1, <2>2, <2>3
<1>4. CASE IsLast(batch)
  <2>1. ~batch.replay /\ batch.from = From(answered, Len(answered))
    BY <1>4 DEF IsLast
  <2>2. answered = <<>> <=> Len(answered) = 0
    BY <1>1, EmptySeq
  <2> QED BY <2>1, <2>2 DEF From, EndOf, Last
<1> QED BY <1>3, <1>4, BatchIs

\* decision_loop.py:96: a replayed batch has the events and the ids with which it was
\* decided, and the events that answered it; the batch to decide starts where the last
\* answered one ended.
THEOREM ReplaysPast == Spec => []ReplaysTheAnswered
BY Invariant, AnsweredReplayed, PTL

-----------------------------------------------------------------------------
(* Nothing is lost *)

\* What two lists hold, one after the other.
LEMMA ListsConcat ==
  ASSUME NEW s \in Seq(Nat), NEW t \in Seq(Nat), NEW S, NEW T, Lists(s, S), Lists(t, T),
         \A x \in S, y \in T : x < y, NEW u, u = s \o t
  PROVE  Lists(u, S \cup T) /\ u \in Seq(Nat)
<1> DEFINE n == Len(s)
           m == Len(t)
<1>1. n \in Nat /\ m \in Nat /\ DOMAIN s = 1..n /\ DOMAIN t = 1..m
  BY LenProperties
<1>2. u \in Seq(Nat) /\ Len(u) = n + m /\ DOMAIN u = 1..(n + m)
  BY ConcatProperties, LenProperties
<1>3. \A i \in 1..(n + m) : u[i] = IF i <= n THEN s[i] ELSE t[i - n]
  BY ConcatProperties
<1>4. \A i \in 1..n : s[i] \in S
  BY <1>1 DEF Lists, ToSet
<1>5. \A i \in 1..m : t[i] \in T
  BY <1>1 DEF Lists, ToSet
<1>6. /\ \A i, j \in 1..n : i < j => s[i] < s[j]
      /\ \A i, j \in 1..m : i < j => t[i] < t[j]
      /\ \A x \in S, y \in T : x < y
      /\ \A x \in S : \E i \in 1..n : x = s[i]
      /\ \A x \in T : \E i \in 1..m : x = t[i]
  BY <1>1 DEF Lists, ToSet
<1> HIDE DEF n, m
<1>7. \A i \in 1..n : i \in 1..(n + m) /\ u[i] = s[i]
  BY <1>1, <1>3
<1>8. \A i \in 1..m : i + n \in 1..(n + m) /\ u[i + n] = t[i]
  <2> SUFFICES ASSUME NEW i \in 1..m PROVE i + n \in 1..(n + m) /\ u[i + n] = t[i]
    OBVIOUS
  <2>1. i + n \in 1..(n + m) /\ ~(i + n <= n) /\ (i + n) - n = i
    BY <1>1
  <2> QED BY <2>1, <1>3
<1>9. \A i \in 1..(n + m) : i \notin 1..n => i - n \in 1..m /\ u[i] = t[i - n]
  BY <1>1, <1>3
<1>10. ToSet(u) = S \cup T
  <2>1. \A x \in S \cup T : \E i \in 1..(n + m) : x = u[i]
    BY <1>6, <1>7, <1>8
  <2>2. \A i \in 1..(n + m) : u[i] \in S \cup T
    BY <1>4, <1>5, <1>7, <1>9
  <2> QED BY <2>1, <2>2, <1>2 DEF ToSet
<1>11. ASSUME NEW i \in 1..(n + m), NEW j \in 1..(n + m), i < j PROVE u[i] < u[j]
  <2>1. CASE j \in 1..n
    <3>1. i \in 1..n
      BY <1>1, <1>11, <2>1
    <3> QED BY <3>1, <2>1, <1>6, <1>7, <1>11
  <2>2. CASE j \notin 1..n /\ i \in 1..n
    BY <2>2, <1>4, <1>5, <1>6, <1>7, <1>9
  <2>3. CASE j \notin 1..n /\ i \notin 1..n
    <3>1. i - n \in 1..m /\ j - n \in 1..m /\ i - n < j - n
      BY <2>3, <1>1, <1>9, <1>11
    <3> QED BY <3>1, <2>3, <1>6, <1>9
  <2> QED BY <2>1, <2>2, <2>3
<1> QED BY <1>2, <1>10, <1>11 DEF Lists

\* A sequence that lists a set has every element once.
LEMMA ListsInjective ==
  ASSUME NEW s \in Seq(Nat), NEW S, Lists(s, S)
  PROVE  IsInjective(s)
<1>1. DOMAIN s = 1..Len(s) /\ Len(s) \in Nat /\ \A i \in 1..Len(s) : s[i] \in Nat
  BY LenProperties, ElementOfSeq
<1>2. ASSUME NEW i \in 1..Len(s), NEW j \in 1..Len(s), s[i] = s[j] PROVE i = j
  <2>1. ~(i < j) /\ ~(j < i)
    BY <1>1, <1>2 DEF Lists
  <2> QED BY <2>1
<1> QED BY <1>1, <1>2 DEF IsInjective

\* The events from one to before another that are not about decision tasks.
Own(g, from, end) ==
  {i \in from..(end - 1) : g[i].type \notin {"DecisionTaskStarted", "DecisionTaskCompleted"}}

\* An answered batch gave them all.
LEMMA GivenByAnswered ==
  ASSUME NEW g \in Seq(EventRecord), NEW b \in BatchRecord, NEW from \in Nat, from # 0,
         Answered(g, b, from), NEW u, u = b.events \o b.decision_events
  PROVE  Lists(u, Own(g, from, EndOf(b))) /\ u \in Seq(Nat)
<1> DEFINE next == b.next_decision_event_id
           stop == next - 2
           end == EndOf(b)
           m == Len(b.decision_events)
<1>1. next \in Nat /\ m \in Nat /\ end = next + m
      /\ b.events \in Seq(Nat) /\ b.decision_events \in Seq(Nat)
  BY LenProperties DEF BatchRecord, EndOf
<1>2. /\ from <= stop
      /\ g[stop].type = "DecisionTaskStarted" /\ g[stop + 1].type = "DecisionTaskCompleted"
      /\ Undecided(g, from, stop) /\ Lists(b.events, Handed(g, from, stop))
      /\ \A i \in next..(end - 1) : is_decision_event(g[i])
      /\ b.decision_events = [i \in 1..m |-> next - 1 + i]
  BY Zenon DEF Answered
<1>3. stop + 2 = next /\ stop \in Int
  BY <1>1
<1>4. Lists(b.decision_events, next..(next + m - 1))
  BY <1>1, <1>2, ListsRange
<1>5. \A x \in Handed(g, from, stop), y \in next..(next + m - 1) : x < y
  BY <1>1, <1>3 DEF Handed
<1>6. Lists(u, Handed(g, from, stop) \cup (next..(next + m - 1))) /\ u \in Seq(Nat)
  <2> HIDE DEF next, stop, m
  <2>1. Lists(b.events, Handed(g, from, stop))
    BY <1>2
  <2> QED BY <1>1, <1>4, <1>5, <2>1, ListsConcat
<1> HIDE DEF next, stop, m, end
<1>7. Handed(g, from, stop) \cup (next..(next + m - 1)) = Own(g, from, end)
  <2>1. ASSUME NEW i \in Handed(g, from, stop) PROVE i \in Own(g, from, end)
    <3>1. i \in from..(stop - 1) /\ g[i].type # "DecisionTaskStarted"
      BY DEF Handed
    <3>2. g[i].type # "DecisionTaskCompleted"
      BY <3>1, <1>2 DEF Undecided
    <3>3. i \in from..(end - 1)
      BY <3>1, <1>1, <1>3
    <3> QED BY <3>1, <3>2, <3>3 DEF Own
  <2>2. ASSUME NEW i \in next..(next + m - 1) PROVE i \in Own(g, from, end)
    <3>1. i \in next..(end - 1) /\ i \in from..(end - 1)
      BY <1>1, <1>2, <1>3
    <3>2. is_decision_event(g[i])
      BY <3>1, <1>2
    <3> QED BY <3>1, <3>2 DEF Own, is_decision_event, DecisionEventTypes
  <2>3. ASSUME NEW i \in Own(g, from, end), i \notin next..(next + m - 1)
        PROVE  i \in Handed(g, from, stop)
    <3>1. i \in from..(end - 1)
          /\ g[i].type \notin {"DecisionTaskStarted", "DecisionTaskCompleted"}
      BY DEF Own
    <3>2. i # stop /\ i # stop + 1
      BY <3>1, <1>2
    <3>3. i \in from..(stop - 1)
      BY <3>1, <3>2, <2>3, <1>1, <1>3
    <3> QED BY <3>1, <3>3 DEF Handed
  <2> QED BY <2>1, <2>2, <2>3
<1> QED BY <1>6, <1>7 DEF end

\* The batch to decide gives what is left of the decision task's history.
LEMMA GivenByLast ==
  ASSUME NEW g, NEW from \in Nat, NEW n \in Nat, from <= n,
         g[n].type = "DecisionTaskStarted", Undecided(g, from, n)
  PROVE  Handed(g, from, n) = Own(g, from, n + 1)
<1>1. ASSUME NEW i \in Handed(g, from, n) PROVE i \in Own(g, from, n + 1)
  BY DEF Handed, Own, Undecided
<1>2. ASSUME NEW i \in Own(g, from, n + 1) PROVE i \in Handed(g, from, n)
  <2>1. i \in from..n /\ g[i].type # "DecisionTaskStarted"
    BY DEF Own
  <2>2. i \in from..(n - 1)
    BY <2>1
  <2> QED BY <2>1, <2>2 DEF Handed
<1> QED BY <1>1, <1>2

\* Where the batches of a decision task start, the one to decide included.
StartOf(k) == IF k = Len(answered) + 1 THEN polled + 1 ELSE From(answered, k)

\* The places at which batches start divide the history.
LEMMA StartsAre ==
  ASSUME Inv, HasBatch
  PROVE  LET n == Len(answered) IN
         /\ n \in Nat /\ \A k \in 0..(n + 1) : StartOf(k) \in Nat
         /\ \A k \in 0..(n + 1) : 1 <= StartOf(k) /\ StartOf(k) <= polled + 1
         /\ \A j, k \in 0..(n + 1) : j < k => StartOf(j) <= StartOf(k)
         /\ \A i \in 1..polled : \E k \in 1..(n + 1) : StartOf(k - 1) <= i /\ i < StartOf(k)
<1> DEFINE n == Len(answered)
           f(k) == From(answered, k)
<1>1. /\ TypeOK /\ ServiceInv /\ HelperInv /\ pc = "returned"
  BY DEF Inv, HasBatch
<1>2. /\ n \in Nat /\ DOMAIN answered = 1..n
      /\ \A k \in 0..n : f(k) \in Nat /\ f(k) # 0
      /\ \A j, k \in 0..n : j < k => f(j) + 2 <= f(k)
  BY <1>1, PastIs DEF PastFacts
<1>3. polled \in f(n)..Len(history) /\ Len(history) \in Nat
  BY <1>1, LenProperties DEF HelperInv, ServiceInv
<1>4. \A i \in 1..(f(n) - 1) : \E k \in 1..n : f(k - 1) <= i /\ i < f(k)
  BY <1>1, <1>2 DEF ServiceInv, Past
<1>5. \A k : StartOf(k) = IF k = n + 1 THEN polled + 1 ELSE f(k)
  BY DEF StartOf
<1> HIDE DEF n, f
<1>6. polled \in Nat /\ f(n) \in Nat /\ f(n) <= polled /\ n \in 0..n
  BY <1>2, <1>3
<1>7. \A k \in 0..n : k # n + 1 /\ f(k) <= f(n)
  <2> SUFFICES ASSUME NEW k \in 0..n PROVE k # n + 1 /\ f(k) <= f(n)
    OBVIOUS
  <2>1. k = n \/ k < n
    BY <1>2
  <2> QED BY <2>1, <1>2, <1>6
<1>8. \A k \in 0..(n + 1) : k \in 0..n \/ k = n + 1
  BY <1>2
<1>9. ASSUME NEW k \in 0..(n + 1)
      PROVE  StartOf(k) \in Nat /\ 1 <= StartOf(k) /\ StartOf(k) <= polled + 1
  <2>1. CASE k = n + 1
    BY <2>1, <1>5, <1>6
  <2>2. CASE k # n + 1
    <3>1. k \in 0..n
      BY <2>2, <1>8
    <3>2. StartOf(k) = f(k)
      BY <2>2, <1>5
    <3> QED BY <3>1, <3>2, <1>2, <1>6, <1>7
  <2> QED BY <2>1, <2>2
<1>10. ASSUME NEW j \in 0..(n + 1), NEW k \in 0..(n + 1), j < k
       PROVE  StartOf(j) <= StartOf(k)
  <2>1. CASE k = n + 1
    BY <2>1, <1>5, <1>9
  <2>2. CASE k # n + 1
    <3>1. j \in 0..n /\ k \in 0..n
      BY <1>2, <1>10, <2>2
    <3> QED BY <3>1, <1>2, <1>5, <1>7, <1>10
  <2> QED BY <2>1, <2>2
<1>11. ASSUME NEW i \in 1..polled
       PROVE  \E k \in 1..(n + 1) : StartOf(k - 1) <= i /\ i < StartOf(k)
  <2>1. CASE i < f(n)
    <3>1. i \in 1..(f(n) - 1)
      BY <2>1, <1>6
    <3>2. PICK k \in 1..n : f(k - 1) <= i /\ i < f(k)
      BY <3>1, <1>4
    <3>3. k \in 1..(n + 1) /\ k # n + 1 /\ k - 1 # n + 1
      BY <1>2
    <3> QED BY <3>2, <3>3, <1>5
  <2>2. CASE ~(i < f(n))
    <3>1. n + 1 \in 1..(n + 1) /\ (n + 1) - 1 = n /\ n # n + 1
      BY <1>2
    <3>2. f(n) <= i /\ i < polled + 1
      BY <2>2, <1>6
    <3> QED BY <3>1, <3>2, <1>5
  <2> QED BY <2>1, <2>2
<1> QED BY <1>2, <1>9, <1>10, <1>11 DEF n

\* Every event is in one batch.
LEMMA AllGiven == Inv => NothingLost
<1> DEFINE n == Len(answered)
           batches == Append(answered, batch)
           given == [k \in DOMAIN batches |-> batches[k].events \o batches[k].decision_events]
           events == {i \in 1..polled : history[i].type \notin
                                          {"DecisionTaskStarted", "DecisionTaskCompleted"}}
<1> SUFFICES ASSUME Inv, HasBatch, ~has_next
             PROVE  /\ UNION {ToSet(given[k]) : k \in DOMAIN given} = events
                    /\ \A k \in DOMAIN given : IsInjective(given[k])
                    /\ \A j, k \in DOMAIN given :
                         j # k => ToSet(given[j]) \cap ToSet(given[k]) = {}
  BY DEF NothingLost
<1>1. /\ TypeOK /\ ServiceInv /\ HelperInv /\ pc = "returned"
  BY DEF Inv, HasBatch
<1>2. IsLast(batch)
  BY <1>1, ReturnedIs
<1>3. PastFacts(n)
  BY <1>1, PastIs
<1>4. /\ answered \in Seq(BatchRecord) /\ n \in Nat /\ history \in Seq(EventRecord)
  BY <1>1, LenProperties DEF ServiceInv
<1>5. /\ DOMAIN batches = 1..(n + 1) /\ batches[n + 1] = batch
      /\ \A k \in 1..n : batches[k] = answered[k]
  BY <1>4
<1>6. /\ \A k \in 0..(n + 1) : StartOf(k) \in Nat
      /\ \A k \in 0..(n + 1) : 1 <= StartOf(k) /\ StartOf(k) <= polled + 1
      /\ \A j, k \in 0..(n + 1) : j < k => StartOf(j) <= StartOf(k)
      /\ \A i \in 1..polled : \E k \in 1..(n + 1) : StartOf(k - 1) <= i /\ i < StartOf(k)
  BY StartsAre
<1> HIDE DEF batches
<1>7. ASSUME NEW k \in 1..n
      PROVE  Lists(given[k], Own(history, StartOf(k - 1), StartOf(k))) /\ given[k] \in Seq(Nat)
  <2>1. k \in 1..(n + 1) /\ k # n + 1 /\ k - 1 # n + 1 /\ k - 1 \in 0..n
    BY <1>4
  <2>2. StartOf(k - 1) = From(answered, k - 1) /\ StartOf(k) = From(answered, k)
    BY <2>1 DEF StartOf
  <2>3. given[k] = answered[k].events \o answered[k].decision_events
    BY <2>1, <1>5
  <2>4. /\ answered[k] \in BatchRecord
        /\ Answered(history, answered[k], From(answered, k - 1))
        /\ EndOf(answered[k]) = From(answered, k)
        /\ From(answered, k - 1) \in Nat /\ From(answered, k - 1) # 0
    BY <1>3, <2>1 DEF PastFacts
  <2> HIDE DEF given, n
  <2> QED BY <1>4, <2>2, <2>3, <2>4, GivenByAnswered
<1>8. Lists(given[n + 1], Own(history, StartOf(n), StartOf(n + 1))) /\ given[n + 1] \in Seq(Nat)
  <2> DEFINE from == From(answered, n)
  <2>1. /\ batch.from = from /\ Lists(batch.events, Handed(history, from, polled))
        /\ batch.decision_events = <<>>
    BY <1>2 DEF IsLast
  <2>2. batch.events \in Seq(Nat)
    BY <1>1 DEF TypeOK
  <2>3. given[n + 1] = batch.events
    <3>1. given[n + 1] = batch.events \o batch.decision_events
      <4>1. n + 1 \in DOMAIN batches
        BY <1>4, <1>5
      <4> HIDE DEF n
      <4> QED BY <4>1, <1>5
    <3>2. batch.events \o <<>> = batch.events
      BY <2>2, ConcatEmptySeq
    <3> QED BY <2>1, <3>1, <3>2
  <2>4. StartOf(n) = from /\ StartOf(n + 1) = polled + 1 /\ n \in 0..n
    BY <1>4 DEF StartOf
  <2>5. /\ polled \in from..Len(history) /\ history[polled].type = "DecisionTaskStarted"
        /\ Len(history) \in Nat /\ from \in Nat
    BY <1>1, <1>3, <1>4, <2>4, LenProperties DEF HelperInv, PastFacts
  <2>6. Undecided(history, from, Len(history))
    BY <1>1 DEF ServiceInv, Rest
  <2> HIDE DEF from, given, n
  <2>7. Undecided(history, from, polled) /\ polled \in Nat /\ from <= polled
    BY <2>5, <2>6 DEF Undecided
  <2>8. Handed(history, from, polled) = Own(history, from, polled + 1)
    BY <2>5, <2>7, GivenByLast
  <2> QED BY <2>1, <2>2, <2>3, <2>4, <2>8
<1>9. DOMAIN given = 1..(n + 1)
  BY <1>5
<1> HIDE DEF given
<1>10. ASSUME NEW k \in 1..(n + 1)
       PROVE  Lists(given[k], Own(history, StartOf(k - 1), StartOf(k))) /\ given[k] \in Seq(Nat)
  <2>1. k \in 1..n \/ (k = n + 1 /\ k - 1 = n)
    BY <1>4
  <2> QED BY <2>1, <1>7, <1>8
<1>11. \A k \in 1..(n + 1) : ToSet(given[k]) = Own(history, StartOf(k - 1), StartOf(k))
  BY <1>10 DEF Lists
<1> HIDE DEF n
<1>12. ASSUME NEW k \in 1..(n + 1), NEW i \in ToSet(given[k]) PROVE i \in events
  <2>1. i \in Own(history, StartOf(k - 1), StartOf(k))
    BY <1>11
  <2>2. k \in 0..(n + 1) /\ k - 1 \in 0..(n + 1)
    BY <1>4
  <2>3. i \in 1..polled
    <3>1. polled \in Nat /\ i \in StartOf(k - 1)..(StartOf(k) - 1)
      BY <2>1, <1>1, LenProperties DEF Own, TypeOK, ServiceInv
    <3> QED BY <3>1, <2>2, <1>6
  <2> QED BY <2>1, <2>3 DEF Own
<1>13. ASSUME NEW i \in events PROVE \E k \in 1..(n + 1) : i \in ToSet(given[k])
  <2>1. PICK k \in 1..(n + 1) : StartOf(k - 1) <= i /\ i < StartOf(k)
    BY <1>6
  <2>2. i \in Own(history, StartOf(k - 1), StartOf(k))
    <3>1. k \in 0..(n + 1) /\ k - 1 \in 0..(n + 1)
      BY <1>4
    <3>2. i \in StartOf(k - 1)..(StartOf(k) - 1)
      BY <2>1, <3>1, <1>6
    <3> QED BY <3>2 DEF Own
  <2> QED BY <2>2, <1>11
<1>14. ASSUME NEW j \in 1..(n + 1), NEW k \in 1..(n + 1), j < k
       PROVE  ToSet(given[j]) \cap ToSet(given[k]) = {}
  <2>1. j \in 0..(n + 1) /\ k - 1 \in 0..(n + 1) /\ (j = k - 1 \/ j < k - 1)
    BY <1>4, <1>14
  <2>2. StartOf(j) <= StartOf(k - 1) /\ StartOf(j) \in Nat /\ StartOf(k - 1) \in Nat
    BY <2>1, <1>6
  <2>3. Own(history, StartOf(j - 1), StartOf(j)) \cap Own(history, StartOf(k - 1), StartOf(k)) = {}
    BY <2>2 DEF Own
  <2> QED BY <2>3, <1>11
<1>15. ASSUME NEW j \in 1..(n + 1), NEW k \in 1..(n + 1), j # k
       PROVE  ToSet(given[j]) \cap ToSet(given[k]) = {}
  <2>1. j < k \/ k < j
    BY <1>4, <1>15
  <2> QED BY <2>1, <1>14
<1>16. \A k \in 1..(n + 1) : IsInjective(given[k])
  BY <1>10, ListsInjective
<1>17. UNION {ToSet(given[k]) : k \in 1..(n + 1)} = events
  <2> HIDE DEF events
  <2> QED BY <1>12, <1>13
<1> HIDE DEF events
<1> QED BY <1>9, <1>15, <1>16, <1>17

\* decision_loop.py:68-140: when the history is used up, every event but those of the
\* decision tasks' own start and completion has been handed out, and none of them twice.
THEOREM HandsOutAll == Spec => []NothingLost
BY Invariant, AllGiven, PTL

-----------------------------------------------------------------------------
(* The state machines of decisions *)

\* A handler either accepts the state or makes the machine ILLEGAL: it never
\* leaves the machines' type.
LEMMA HandlerTypes ==
  ASSUME NEW m \in Machine
  PROVE  /\ handle_completion_event(m) \in Machine
         /\ handle_initiated_event(m) \in Machine
         /\ handle_cancellation_event(m) \in Machine
         /\ handle_decision_task_started_event(m) \in Machine
         /\ cancel(m) \in Machine
<1> USE DEF Machine, DecisionState, Handle, fail_state_transition
<1>1. handle_completion_event(m) \in Machine
  BY DEF handle_completion_event, CompletionTable
<1>2. handle_initiated_event(m) \in Machine
  BY DEF handle_initiated_event, InitiatedTable
<1>3. handle_cancellation_event(m) \in Machine
  BY DEF handle_cancellation_event, CancellationTable
<1>4. handle_decision_task_started_event(m) \in Machine
  BY DEF handle_decision_task_started_event
<1>5. cancel(m) \in Machine
  BY DEF cancel, CancelTable
<1>6. QED
  BY <1>1, <1>2, <1>3, <1>4, <1>5

\* What the four handlers do in the states this decider can meet.
LEMMA HandlerSteps ==
  ASSUME NEW m \in Machine
  PROVE  /\ m.state = "INITIATED" =>
              handle_completion_event(m) = [m EXCEPT !.state = "COMPLETED"]
         /\ m.state = "DECISION_SENT" =>
              handle_initiated_event(m) = [m EXCEPT !.state = "INITIATED"]
         /\ m.state = "CANCELLATION_DECISION_SENT" =>
              handle_cancellation_event(m) = [m EXCEPT !.state = "COMPLETED"]
         /\ m.state = "CREATED" /\ m.target = "TIMER" =>
              cancel(m) = [m EXCEPT !.state = "COMPLETED", !.canceled = TRUE]
         /\ m.state = "INITIATED" /\ m.target = "TIMER" =>
              cancel(m) = [m EXCEPT !.state = "CANCELED_AFTER_INITIATED", !.canceled = TRUE]
  BY DEF Machine, Handle, handle_completion_event, CompletionTable,
         handle_initiated_event, InitiatedTable, handle_cancellation_event,
         CancellationTable, cancel, CancelTable

\* The initial states satisfy the inductive invariant.
LEMMA LifecycleInitInv == LifecycleInit => LifecycleInv
  BY DEF LifecycleInit, LifecycleInv, LifecycleTypeOK, DecisionInv, Idle, NewMachine, Machine,
         Targets, DecisionState

\* Every step keeps the type invariant.
LEMMA LifecycleNextTypeOK == LifecycleInv /\ [LifecycleNext]_lifecycleVars => LifecycleTypeOK'
<1> SUFFICES ASSUME LifecycleInv, [LifecycleNext]_lifecycleVars PROVE LifecycleTypeOK'
  OBVIOUS
<1> USE DEF LifecycleInv, LifecycleTypeOK
<1>1. ASSUME NEW d \in DecisionId, handle_closed(d) PROVE LifecycleTypeOK'
  BY <1>1, HandlerTypes DEF handle_closed
<1>2. ASSUME NEW d \in DecisionId, add_decision(d) PROVE LifecycleTypeOK'
  BY <1>2 DEF add_decision, NewMachine, Machine, Targets, DecisionState
<1>3. ASSUME NEW d \in DecisionId, cancel_timer(d) PROVE LifecycleTypeOK'
  BY <1>3, HandlerTypes DEF cancel_timer
<1>4. ASSUME NEW d \in DecisionId, handle_initiated(d) PROVE LifecycleTypeOK'
  BY <1>4, HandlerTypes DEF handle_initiated
<1>5. ASSUME NEW d \in DecisionId, handle_timer_canceled(d) PROVE LifecycleTypeOK'
  BY <1>5, HandlerTypes DEF handle_timer_canceled
<1>6. CASE RunCode \/ NextBatch
  BY <1>6 DEF RunCode, NextBatch
<1>7. CASE notify_decision_sent
  <2>1. \A d \in DecisionId : sent'[d] \in {"none", "schedule", "cancel"}
    BY <1>7 DEF notify_decision_sent, get_decision
  <2>2. machine' \in [DecisionId -> Machine]
    BY <1>7, HandlerTypes DEF notify_decision_sent
  <2>3. QED
    BY <1>7, <2>1, <2>2 DEF notify_decision_sent
<1>8. CASE get_decisions
  BY <1>8 DEF get_decisions, get_decision
<1>9. CASE NewDecider
  BY <1>9 DEF NewDecider, Idle, NewMachine, Machine, Targets, DecisionState
<1>10. CASE UNCHANGED lifecycleVars
  BY <1>10 DEF lifecycleVars
<1>11. QED
  BY <1>1, <1>2, <1>3, <1>4, <1>5, <1>6, <1>7, <1>8, <1>9, <1>10 DEF LifecycleNext

\* Every step keeps what holds of each decision; a step about one decision does
\* not disturb another.
LEMMA NextDecisionInv ==
  LifecycleInv /\ [LifecycleNext]_lifecycleVars => \A e \in DecisionId : DecisionInv(e)'
<1> SUFFICES ASSUME LifecycleInv, [LifecycleNext]_lifecycleVars, NEW e \in DecisionId PROVE DecisionInv(e)'
  OBVIOUS
<1>0. /\ LifecycleTypeOK
      /\ DecisionInv(e)
      /\ machine[e] \in Machine
  BY DEF LifecycleInv, LifecycleTypeOK
<1>1. ASSUME NEW d \in DecisionId, handle_closed(d) PROVE DecisionInv(e)'
  <2>1. CASE d = e
    <3>1. e \in created /\ machine[e].state = "INITIATED" /\ machine[e].target # "MARKER"
          /\ sent[e] = "none"
      BY <1>0, <1>1, <2>1 DEF handle_closed, DecisionInv, StateMatchesStage
    <3>2. machine'[e] = [machine[e] EXCEPT !.state = "COMPLETED"]
      BY <1>0, <1>1, <2>1, <3>1, HandlerSteps DEF handle_closed, LifecycleTypeOK
    <3>3. QED
      BY <1>0, <1>1, <2>1, <3>1, <3>2
         DEF handle_closed, DecisionInv, StateMatchesStage, Machine, LifecycleTypeOK
  <2>2. CASE d # e
    BY <1>0, <1>1, <2>2 DEF handle_closed, DecisionInv, StateMatchesStage, LifecycleTypeOK
  <2>3. QED
    BY <2>1, <2>2
<1>2. ASSUME NEW d \in DecisionId, add_decision(d) PROVE DecisionInv(e)'
  <2>1. CASE d = e
    <3>1. PICK t \in {"ACTIVITY", "TIMER", "MARKER"} : machine'[e] = NewMachine(t)
      BY <1>0, <1>2, <2>1 DEF add_decision, LifecycleTypeOK
    <3>2. service[e] = "none" /\ sent[e] = "none" /\ phase = "code"
      BY <1>0, <1>2, <2>1 DEF add_decision, DecisionInv
    <3>3. QED
      BY <1>0, <1>2, <2>1, <3>1, <3>2 DEF add_decision, DecisionInv, StateMatchesStage, NewMachine
  <2>2. CASE d # e
    BY <1>0, <1>2, <2>2 DEF add_decision, DecisionInv, StateMatchesStage, LifecycleTypeOK
  <2>3. QED
    BY <2>1, <2>2
<1>3. ASSUME NEW d \in DecisionId, cancel_timer(d) PROVE DecisionInv(e)'
  <2>1. CASE d = e
    <3>1. /\ machine[e].target = "TIMER"
          /\ e \in created
          /\ sent[e] = "none"
          /\ \/ machine[e].state = "CREATED" /\ service[e] = "none"
             \/ machine[e].state = "INITIATED" /\ service[e] = "open"
      BY <1>0, <1>3, <2>1 DEF cancel_timer, is_done, DecisionInv, StateMatchesStage, LifecycleTypeOK
    <3>2. QED
      BY <1>0, <1>3, <2>1, <3>1, HandlerSteps
         DEF cancel_timer, DecisionInv, StateMatchesStage, Machine, LifecycleTypeOK
  <2>2. CASE d # e
    BY <1>0, <1>3, <2>2 DEF cancel_timer, DecisionInv, StateMatchesStage, LifecycleTypeOK
  <2>3. QED
    BY <2>1, <2>2
<1>4. ASSUME NEW d \in DecisionId, handle_initiated(d) PROVE DecisionInv(e)'
  <2>1. CASE d = e
    <3>1. e \in created /\ machine[e].state = "DECISION_SENT" /\ ~machine[e].canceled
      BY <1>0, <1>4, <2>1 DEF handle_initiated, DecisionInv, StateMatchesStage, LifecycleTypeOK
    <3>2. CASE machine[e].target = "MARKER"
      BY <1>0, <1>4, <2>1, <3>1, <3>2
         DEF handle_initiated, DecisionInv, StateMatchesStage, LifecycleTypeOK
    <3>3. CASE machine[e].target # "MARKER"
      <4>1. machine'[e] = [machine[e] EXCEPT !.state = "INITIATED"]
        BY <1>0, <1>4, <2>1, <3>1, <3>3, HandlerSteps DEF handle_initiated, LifecycleTypeOK
      <4>2. service'[e] = "open" /\ sent'[e] = "none"
        BY <1>0, <1>4, <2>1, <3>3 DEF handle_initiated, LifecycleTypeOK
      <4>3. QED
        BY <1>0, <1>4, <2>1, <3>1, <3>3, <4>1, <4>2
           DEF handle_initiated, DecisionInv, StateMatchesStage, Machine
    <3>4. QED
      BY <3>2, <3>3
  <2>2. CASE d # e
    BY <1>0, <1>4, <2>2 DEF handle_initiated, DecisionInv, StateMatchesStage, LifecycleTypeOK
  <2>3. QED
    BY <2>1, <2>2
<1>5. ASSUME NEW d \in DecisionId, handle_timer_canceled(d) PROVE DecisionInv(e)'
  <2>1. CASE d = e
    <3>1. /\ e \in created
          /\ machine[e].state = "CANCELLATION_DECISION_SENT"
          /\ machine[e].target # "MARKER"
      BY <1>0, <1>5, <2>1 DEF handle_timer_canceled, DecisionInv, StateMatchesStage, LifecycleTypeOK
    <3>2. QED
      BY <1>0, <1>5, <2>1, <3>1, HandlerSteps
         DEF handle_timer_canceled, DecisionInv, StateMatchesStage, Machine, LifecycleTypeOK
  <2>2. CASE d # e
    BY <1>0, <1>5, <2>2 DEF handle_timer_canceled, DecisionInv, StateMatchesStage, LifecycleTypeOK
  <2>3. QED
    BY <2>1, <2>2
<1>6. CASE RunCode \/ NextBatch
  BY <1>0, <1>6 DEF RunCode, NextBatch, Idle, DecisionInv, StateMatchesStage
<1>7. CASE notify_decision_sent
  <2>1. CASE e \in created
    <3>1. sent'[e] = get_decision(machine[e])
      BY <1>7, <2>1 DEF notify_decision_sent
    <3>2. machine'[e] = IF sent'[e] = "none" THEN machine[e]
                        ELSE handle_decision_task_started_event(machine[e])
      BY <1>7 DEF notify_decision_sent
    <3>3. QED
      BY <1>0, <1>7, <2>1, <3>1, <3>2
         DEF notify_decision_sent, get_decision, handle_decision_task_started_event,
             Cancelable, DecisionInv, StateMatchesStage, Machine, Targets, LifecycleTypeOK
  <2>2. CASE e \notin created
    BY <1>0, <1>7, <2>2 DEF notify_decision_sent, DecisionInv, StateMatchesStage
  <2>3. QED
    BY <2>1, <2>2
<1>8. CASE get_decisions
  BY <1>0, <1>8 DEF get_decisions, get_decision, Cancelable, DecisionInv, StateMatchesStage,
                    Machine, Targets, LifecycleTypeOK
<1>9. CASE NewDecider
  BY <1>9 DEF NewDecider, Idle, NewMachine, DecisionInv, StateMatchesStage
<1>10. CASE UNCHANGED lifecycleVars
  BY <1>0, <1>10 DEF lifecycleVars, DecisionInv, StateMatchesStage
<1>11. QED
  BY <1>1, <1>2, <1>3, <1>4, <1>5, <1>6, <1>7, <1>8, <1>9, <1>10 DEF LifecycleNext

\* The inductive invariant holds in every behavior.
THEOREM Invariance == LifecycleSpec => []LifecycleInv
<1>1. LifecycleInit => LifecycleInv
  BY LifecycleInitInv
<1>2. LifecycleInv /\ [LifecycleNext]_lifecycleVars => LifecycleInv'
  BY LifecycleNextTypeOK, NextDecisionInv DEF LifecycleInv
<1>3. QED
  BY <1>1, <1>2, PTL DEF LifecycleSpec

\* No event and no cancelation ever meets a state that does not accept it.
THEOREM LegalTransitions == LifecycleSpec => []NoIllegalTransition
<1>1. LifecycleInv => NoIllegalTransition
  BY DEF LifecycleInv, LifecycleTypeOK, DecisionInv, StateMatchesStage, NoIllegalTransition, NewMachine
<1>2. QED
  BY <1>1, Invariance, PTL

\* A decision is scheduled at most once and canceled only while it is open.
THEOREM AcceptableDecisions == LifecycleSpec => []SendsAcceptable
<1>1. LifecycleInv => SendsAcceptable
  BY DEF LifecycleInv, LifecycleTypeOK, DecisionInv, StateMatchesStage, SendsAcceptable
<1>2. QED
  BY <1>1, Invariance, PTL

\* Between two batches the machines and the service agree on what is open.
THEOREM Agreement == LifecycleSpec => []AgreesWithService
<1>1. LifecycleInv => AgreesWithService
  BY DEF LifecycleInv, LifecycleTypeOK, DecisionInv, StateMatchesStage, AgreesWithService, is_done
<1>2. QED
  BY <1>1, Invariance, PTL

\* What is done stays done while the decider lives.
THEOREM DoneForGood == LifecycleSpec => DoneIsFinal
<1> DEFINE Final == \A d \in created : d \in created' /\ is_done(machine[d]) => is_done(machine'[d])
<1>1. LifecycleInv /\ [LifecycleNext]_lifecycleVars => [Final]_lifecycleVars
  <2> SUFFICES ASSUME LifecycleInv, LifecycleNext,
                      NEW d \in created, d \in created', is_done(machine[d])
               PROVE  is_done(machine'[d])
    BY DEF Final
  <2> USE DEF LifecycleInv, LifecycleTypeOK, DecisionInv, Machine, StateMatchesStage, is_done
  <2>1. ASSUME NEW e \in DecisionId, handle_closed(e) PROVE is_done(machine'[d])
    BY <2>1, HandlerSteps DEF handle_closed
  <2>2. ASSUME NEW e \in DecisionId, add_decision(e) PROVE is_done(machine'[d])
    BY <2>2 DEF add_decision
  <2>3. ASSUME NEW e \in DecisionId, cancel_timer(e) PROVE is_done(machine'[d])
    BY <2>3 DEF cancel_timer
  <2>4. ASSUME NEW e \in DecisionId, handle_initiated(e) PROVE is_done(machine'[d])
    <3>1. sent[d] # "schedule"
      OBVIOUS
    <3>2. QED
      BY <2>4, <3>1 DEF handle_initiated
  <2>5. ASSUME NEW e \in DecisionId, handle_timer_canceled(e) PROVE is_done(machine'[d])
    <3>1. CASE d = e
      <4>1. machine[d] \in Machine /\ machine[d].state = "CANCELLATION_DECISION_SENT"
        BY <2>5, <3>1 DEF handle_timer_canceled
      <4>2. machine'[d] = [machine[d] EXCEPT !.state = "COMPLETED"]
        BY <2>5, <3>1, <4>1, HandlerSteps DEF handle_timer_canceled
      <4>3. QED
        BY <4>1, <4>2
    <3>2. CASE d # e
      BY <2>5, <3>2 DEF handle_timer_canceled
    <3>3. QED
      BY <3>1, <3>2
  <2>6. CASE notify_decision_sent
    BY <2>6 DEF notify_decision_sent, handle_decision_task_started_event, Cancelable
  <2>7. CASE RunCode \/ NextBatch \/ get_decisions
    BY <2>7 DEF RunCode, NextBatch, get_decisions
  <2>8. CASE NewDecider
    BY <2>8 DEF NewDecider
  <2>9. QED
    BY <2>1, <2>2, <2>3, <2>4, <2>5, <2>6, <2>7, <2>8 DEF LifecycleNext
<1>2. QED
  BY <1>1, Invariance, PTL DEF LifecycleSpec, DoneIsFinal, Final
=============================================================================
