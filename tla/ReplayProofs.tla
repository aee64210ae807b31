---------------------------- MODULE ReplayProofs ----------------------------
(***************************************************************************)
(* Proofs about whole replays, for every program and any history: that a   *)
(* replay is a function of the history and the program, and that, wherever *)
(* workers crash or decision tasks are given up, the next decider of an    *)
(* open execution gets to where the last one was when it answered; that    *)
(* an operation schedules one activity; and that, as long as the decisions *)
(* agree with the history, what an operation returns is what the history   *)
(* holds for it.                                                           *)
(***************************************************************************)
EXTENDS Replay, ReplayDeciderProofs

-----------------------------------------------------------------------------
(* What a batch is *)

\* The end of a batch, and the events that follow it.
StopsAt(h, from, stop) ==
  /\ stop \in from..Len(h)
  /\ EndsBatch(h, stop)
  /\ \A j \in from..(stop - 1) : ~EndsBatch(h, j)

DecidedTo(h, i, end) ==
  /\ end \in i..(Len(h) + 1)
  /\ \A k \in i..(end - 1) : is_decision_event(h[k])
  /\ end <= Len(h) => ~is_decision_event(h[end])

\* There is one such end, and BatchStop is it.
LEMMA StopUnique ==
  ASSUME NEW h, IsSequence(h), NEW from \in 1..Len(h)
  PROVE  /\ StopsAt(h, from, BatchStop(h, from))
         /\ \A stop : StopsAt(h, from, stop) => stop = BatchStop(h, from)
<1> DEFINE n == Len(h)
           T == {i \in from..n : EndsBatch(h, i)}
<1>1. n \in Nat /\ from \in Nat
  BY SequenceIs
<1>2. T \in SUBSET Nat /\ n \in T
  BY <1>1 DEF EndsBatch
<1>3. PICK i \in T : \A j \in T : i <= j
  <2> HIDE DEF T
  <2> QED BY <1>2, LeastNumber
<1>4. \A j \in from..(i - 1) : j \in from..n /\ ~(i <= j)
  BY <1>1
<1>5. \A j \in from..(i - 1) : ~EndsBatch(h, j)
  BY <1>3, <1>4
<1>6. \E k \in from..n : EndsBatch(h, k) /\ \A j \in from..(k - 1) : ~EndsBatch(h, j)
  BY <1>5
<1>7. StopsAt(h, from, BatchStop(h, from))
  BY <1>6, Zenon DEF BatchStop, StopsAt
<1>8. ASSUME NEW stop, NEW other, StopsAt(h, from, stop), StopsAt(h, from, other) PROVE ~(stop < other)
  <2>1. SUFFICES ASSUME stop < other PROVE FALSE
    OBVIOUS
  <2>2. stop \in from..(other - 1)
    BY <1>1, <1>8, <2>1 DEF StopsAt
  <2> QED BY <1>8, <2>2 DEF StopsAt
<1>9. ASSUME NEW stop, StopsAt(h, from, stop) PROVE stop = BatchStop(h, from)
  <2> DEFINE other == BatchStop(h, from)
  <2> HIDE DEF other
  <2>1. ~(stop < other) /\ ~(other < stop)
    BY <1>7, <1>8, <1>9 DEF other
  <2>2. stop \in Nat /\ other \in Nat
    BY <1>1, <1>7, <1>9 DEF StopsAt, other
  <2> QED BY <2>1, <2>2 DEF other
<1> QED BY <1>7, <1>9

\* The same for the decision events.
LEMMA DecidedUnique ==
  ASSUME NEW h, IsSequence(h), NEW m \in 1..(Len(h) + 1)
  PROVE  /\ DecidedTo(h, m, DecisionsStop(h, m))
         /\ \A end : DecidedTo(h, m, end) => end = DecisionsStop(h, m)
<1> DEFINE n == Len(h)
           U == {j \in m..(n + 1) : j <= n => ~is_decision_event(h[j])}
<1>1. n \in Nat /\ m \in Nat
  BY SequenceIs
<1>2. U \in SUBSET Nat /\ n + 1 \in U
  BY <1>1
<1>3. PICK j \in U : \A k \in U : j <= k
  <2> HIDE DEF U
  <2> QED BY <1>2, LeastNumber
<1>4. \A k \in m..(j - 1) : k \in m..(n + 1) /\ k <= n /\ ~(j <= k)
  BY <1>1
<1>5. \A k \in m..(j - 1) : is_decision_event(h[k])
  BY <1>3, <1>4
<1>6. \E i \in m..(n + 1) : /\ \A k \in m..(i - 1) : is_decision_event(h[k])
                            /\ i <= n => ~is_decision_event(h[i])
  BY <1>3, <1>5
<1>7. DecidedTo(h, m, DecisionsStop(h, m))
  BY <1>6, Zenon DEF DecisionsStop, DecidedTo
<1>8. ASSUME NEW end, NEW other, DecidedTo(h, m, end), DecidedTo(h, m, other) PROVE ~(end < other)
  <2>1. SUFFICES ASSUME end < other PROVE FALSE
    OBVIOUS
  <2>2. end \in m..(other - 1) /\ end <= n
    BY <1>1, <1>8, <2>1 DEF DecidedTo
  <2> QED BY <1>8, <2>2 DEF DecidedTo
<1>9. ASSUME NEW end, DecidedTo(h, m, end) PROVE end = DecisionsStop(h, m)
  <2> DEFINE other == DecisionsStop(h, m)
  <2> HIDE DEF other
  <2>1. ~(end < other) /\ ~(other < end)
    BY <1>7, <1>8, <1>9 DEF other
  <2>2. end \in Nat /\ other \in Nat
    BY <1>1, <1>7, <1>9 DEF DecidedTo, other
  <2> QED BY <2>1, <2>2 DEF other
<1> QED BY <1>7, <1>9

\* A batch lies in its history; the decision events follow the DecisionTaskCompleted.
LEMMA BatchLies ==
  ASSUME NEW h, IsSequence(h), NEW from \in 1..Len(h), NEW b, b = Batch(h, from)
  PROVE  /\ b.from = from
         /\ StopsAt(h, from, b.stop)
         /\ b.replay = (b.stop # Len(h))
         /\ b.next_decision_event_id = b.stop + 2
         /\ IF b.replay THEN DecidedTo(h, b.stop + 2, b.end) ELSE b.end = b.stop + 1
<1> DEFINE n == Len(h)
           stop == BatchStop(h, from)
           end == IF stop # n THEN DecisionsStop(h, stop + 2) ELSE stop + 1
<1>1. n \in Nat /\ from \in Nat
  BY SequenceIs
<1>2. StopsAt(h, from, stop)
  BY StopUnique
<1>3. stop # n => DecidedTo(h, stop + 2, DecisionsStop(h, stop + 2))
  <2> HIDE DEF stop
  <2>1. stop # n => stop + 2 \in 1..(n + 1)
    BY <1>1, <1>2 DEF StopsAt
  <2> QED BY <2>1, DecidedUnique
<1> HIDE DEF stop
<1>4. b = [from |-> from, stop |-> stop, replay |-> (stop # n),
           next_decision_event_id |-> stop + 2, end |-> end]
  BY Zenon DEF Batch, stop
<1>5. b.from = from /\ b.stop = stop /\ b.replay = (stop # n) /\ b.next_decision_event_id = stop + 2
      /\ b.end = end
  BY <1>4
<1> QED BY <1>2, <1>3, <1>5, Zenon

-----------------------------------------------------------------------------
(* The state as a value *)

\* Where a decider at work is in its history.
Placed(s, h) ==
  LET b == s.batch IN
  /\ s.phase \in {"next", "events", "loop", "decision_events"}
  /\ \/ s.phase = "next" /\ b = NoBatch
     \/ b.from \in 1..Len(h) /\ b = Batch(h, b.from)
  /\ CASE s.phase = "next" -> s.at = b.end
       [] s.phase = "events" -> s.at \in b.from..b.stop
       [] s.phase = "loop" -> s.at = b.stop
       [] s.phase = "decision_events" ->
            s.at \in (IF b.replay THEN b.next_decision_event_id ELSE b.end)..b.end

\* The parts of a state, of the decider and of the code.
LEMMA StateHas ==
  ASSUME NEW where, NEW id, NEW b, NEW markers, NEW d, NEW c, NEW s,
         s = State(where, id, b, markers, d, c)
  PROVE  /\ s.phase = where /\ s.at = id /\ s.batch = b /\ s.markers = markers
         /\ s.decider = d /\ s.code = c
BY DEF State

\* What the state of the decider is made of.
LEMMA NowHas ==
  /\ Now.phase = phase /\ Now.at = at /\ Now.batch = batch
  /\ Now.markers = mutable_marker_results /\ Now.decider = DeciderNow /\ Now.code = CodeNow
BY DEF Now, State

\* And the state of its code.
LEMMA CodeNowHas ==
  /\ CodeNow.task = TasksNow /\ CodeNow.tasks = tasks /\ CodeNow.ready = ready
  /\ CodeNow.quota = quota /\ CodeNow.running = running /\ CodeNow.flags = flags
  /\ CodeNow.log = log
BY DEF CodeNow, Code

\* And that of its decisions.
LEMMA DeciderNowHas ==
  /\ DeciderNow.next = next_decision_event_id /\ DeciderNow.counter = id_counter
  /\ DeciderNow.decisions = decisions /\ DeciderNow.activities = scheduled_activities
  /\ DeciderNow.timers = scheduled_timers /\ DeciderNow.ids = IdsNow
  /\ DeciderNow.completed = completed
BY DEF DeciderNow, Decider

\* The arms of Succ.
LEMMA SuccIs ==
  ASSUME NEW s, NEW h, NEW w, s.at \in Nat, s.phase # "next" => s.batch.stop \in Nat /\ s.batch.end \in Nat
  PROVE  /\ s.phase = "next" => Succ(s, h, w) = BatchBegins(s, h)
         /\ s.phase = "events" /\ s.at < s.batch.stop => Succ(s, h, w) = AfterEvent(s, w, h)
         /\ s.phase = "events" /\ s.at >= s.batch.stop /\ s.decider.completed =>
              Succ(s, h, w) = Goes(s, s.batch.end)
         /\ s.phase = "events" /\ s.at >= s.batch.stop /\ ~s.decider.completed =>
              Succ(s, h, w) = LoopBegins(s)
         /\ s.phase = "loop" /\ s.code.quota = 0 /\ s.code.running = 0 => Succ(s, h, w) = LoopEnds(s)
         /\ s.phase = "loop" /\ ~(s.code.quota = 0 /\ s.code.running = 0) =>
              Succ(s, h, w) = AfterStep(s, w)
         /\ s.phase = "decision_events" /\ s.at < s.batch.end => Succ(s, h, w) = AfterEvent(s, w, h)
         /\ s.phase = "decision_events" /\ s.at >= s.batch.end => Succ(s, h, w) = Goes(s, s.at)
<1>1. s.phase = "events" => (s.at < s.batch.stop <=> ~(s.at >= s.batch.stop))
  OBVIOUS
<1>2. s.phase = "decision_events" => (s.at < s.batch.end <=> ~(s.at >= s.batch.end))
  OBVIOUS
<1> QED BY <1>1, <1>2, Zenon DEF Succ

\* What has been polled is the beginning of the history.
LEMMA PolledIs ==
  ASSUME ThreadInv
  PROVE  /\ IsSequence(Polled) /\ Len(Polled) = polled
         /\ \A i \in 1..polled : Polled[i] = history[i]
<1>1. IsSequence(Polled) /\ Len(Polled) = polled
  BY SequencePrefix DEF Polled, ThreadInv
<1>2. Len(history) \in Nat
  BY SequenceIs DEF ThreadInv
<1> DEFINE S == ToSet(history)
<1>3. history \in Seq(S) /\ polled \in 0..Len(history) /\ polled \in Nat
  BY <1>2 DEF ThreadInv, IsSequence
<1>4. ASSUME NEW i \in 1..polled PROVE Polled[i] = history[i]
  <2> HIDE DEF S
  <2>1. i \in 1..(polled - 1 + 1)
    BY <1>3
  <2>2. 1 \in Nat
    OBVIOUS
  <2> QED BY <1>3, <2>1 DEF Polled
<1> QED BY <1>1, <1>4

-----------------------------------------------------------------------------
(* Markers *)

IsLast(h, S, c, i) ==
  /\ i \in S
  /\ h[i].name = c
  /\ \A j \in S : h[j].name = c => j <= i

\* Of the markers with one name there is a last one.
LEMMA LastIs ==
  ASSUME NEW h, NEW n \in Nat, NEW S, S \subseteq 1..n, NEW c, NEW k \in S, h[k].name = c
  PROVE  /\ \E i : IsLast(h, S, c, i)
         /\ \A i, j : IsLast(h, S, c, i) /\ IsLast(h, S, c, j) => i = j
<1> DEFINE T == {m \in 0..n : \A i \in S : h[i].name = c => i <= m}
<1>1. T \in SUBSET Nat /\ n \in T
  OBVIOUS
<1>2. PICK i \in T : \A m \in T : i <= m
  <2> HIDE DEF T
  <2> QED BY <1>1, LeastNumber
<1>3. i \in 1..n
  OBVIOUS
<1>4. i - 1 \in 0..n /\ ~(i <= i - 1)
  BY <1>3
<1>5. i - 1 \notin T
  BY <1>2, <1>4
<1>6. PICK j \in S : h[j].name = c /\ ~(j <= i - 1)
  BY <1>4, <1>5
<1>7. j = i
  BY <1>3, <1>6
<1>8. IsLast(h, S, c, i)
  BY <1>6, <1>7 DEF IsLast
<1>9. ASSUME NEW x, NEW y, IsLast(h, S, c, x), IsLast(h, S, c, y) PROVE x = y
  <2>1. x \in 1..n /\ y \in 1..n /\ x <= y /\ y <= x
    BY <1>9 DEF IsLast
  <2> QED BY <2>1
<1> QED BY <1>8, <1>9

\* What Marked makes of the results, whatever they are.
MarkedBy(new, h, results, S) ==
  /\ new = [c \in DOMAIN results \cup {h[i].name : i \in S} |-> new[c]]
  /\ \A c \in DOMAIN results : (\A i \in S : h[i].name # c) => new[c] = results[c]
  /\ \A c, i : IsLast(h, S, c, i) => new[c] = [data |-> h[i].ref, replayed |-> FALSE]

\* The function of Replay looks markers up in this way.
LEMMA MarkedIs ==
  ASSUME NEW h, NEW n \in Nat, NEW S, S \subseteq 1..n, NEW results
  PROVE  MarkedBy(Marked(h, results, S), h, results, S)
<1> DEFINE new == Marked(h, results, S)
           D == DOMAIN results \cup {h[i].name : i \in S}
           last(c) == CHOOSE i \in S : h[i].name = c /\ \A j \in S : h[j].name = c => j <= i
<1>1. new = [c \in D |-> IF \E i \in S : h[i].name = c
                         THEN [data |-> h[last(c)].ref, replayed |-> FALSE] ELSE results[c]]
  BY DEF Marked
<1>2. ASSUME NEW c, NEW i, IsLast(h, S, c, i) PROVE last(c) = i
  <2>1. \E k \in S : h[k].name = c /\ \A j \in S : h[j].name = c => j <= k
    BY <1>2 DEF IsLast
  <2>2. IsLast(h, S, c, last(c))
    BY <2>1, Zenon DEF IsLast
  <2>3. i \in S /\ h[i].name = c
    BY <1>2 DEF IsLast
  <2> HIDE DEF last
  <2> QED BY <1>2, <2>2, <2>3, LastIs
<1> HIDE DEF last
<1>3. new = [c \in D |-> new[c]]
  BY <1>1
<1>4. ASSUME NEW c \in DOMAIN results, \A i \in S : h[i].name # c PROVE new[c] = results[c]
  <2>1. c \in D
    OBVIOUS
  <2> HIDE DEF D
  <2> QED BY <1>1, <1>4, <2>1
<1>5. ASSUME NEW c, NEW i, IsLast(h, S, c, i) PROVE new[c] = [data |-> h[i].ref, replayed |-> FALSE]
  <2>1. i \in S /\ h[i].name = c
    BY <1>5 DEF IsLast
  <2>2. c \in D
    BY <2>1
  <2>3. last(c) = i
    BY <1>2, <1>5
  <2> HIDE DEF D
  <2>4. new[c] = [data |-> h[last(c)].ref, replayed |-> FALSE]
    BY <1>1, <2>1, <2>2
  <2> QED BY <2>3, <2>4
<1> HIDE DEF new
<1> QED BY <1>3, <1>4, <1>5, Zenon DEF MarkedBy, new

\* The same events give the same results.
LEMMA MarkedAlike ==
  ASSUME NEW g, NEW h, NEW n \in Nat, NEW S, S \subseteq 1..n, NEW results, \A i \in S : g[i] = h[i]
  PROVE  Marked(g, results, S) = Marked(h, results, S)
<1> DEFINE a == Marked(g, results, S)
           b == Marked(h, results, S)
           D == DOMAIN results \cup {h[i].name : i \in S}
<1>1. MarkedBy(a, g, results, S) /\ MarkedBy(b, h, results, S)
  BY MarkedIs
<1> HIDE DEF a, b
<1>2. {g[i].name : i \in S} = {h[i].name : i \in S}
  OBVIOUS
<1>3. \A c, i : IsLast(g, S, c, i) <=> IsLast(h, S, c, i)
  BY DEF IsLast
<1>4. a = [c \in D |-> a[c]] /\ b = [c \in D |-> b[c]]
  BY <1>1, <1>2 DEF MarkedBy
<1>5. ASSUME NEW c \in D PROVE a[c] = b[c]
  <2>1. CASE \E i \in S : h[i].name = c
    <3>1. PICK i : IsLast(h, S, c, i)
      BY <2>1, LastIs
    <3>2. i \in S
      BY <3>1 DEF IsLast
    <3>3. IsLast(g, S, c, i) /\ g[i] = h[i]
      BY <1>3, <3>1, <3>2
    <3>4. a[c] = [data |-> g[i].ref, replayed |-> FALSE] /\ b[c] = [data |-> h[i].ref, replayed |-> FALSE]
      BY <1>1, <3>1, <3>3, Zenon DEF MarkedBy
    <3> QED BY <3>3, <3>4
  <2>2. CASE \A i \in S : h[i].name # c
    <3>1. c \in DOMAIN results /\ \A i \in S : g[i].name # c
      BY <2>2
    <3> QED BY <1>1, <2>2, <3>1 DEF MarkedBy
  <2> QED BY <2>1, <2>2
<1> HIDE DEF D
<1> QED BY <1>4, <1>5 DEF a, b

-----------------------------------------------------------------------------
(* The steps of the decision thread are steps of Succ *)

\* What the thread knows while a decider is at work.
Working == Inv /\ AtWork /\ Placed(Now, Polled)

\* The batch of a state lies within the history, and the state within the batch.
LiesIn(s, h, b) ==
  /\ b.from \in 1..Len(h) /\ b = Batch(h, b.from)
  /\ b.stop \in b.from..Len(h)
  /\ b.next_decision_event_id = b.stop + 2
  /\ b.replay \in BOOLEAN /\ b.replay = (b.stop # Len(h))
  /\ b.end \in 1..(Len(h) + 1)
  /\ s.at \in Nat /\ s.at > 0
  /\ s.phase = "events" => s.at <= b.stop
  /\ s.phase = "loop" => s.at = b.stop
  /\ s.phase = "decision_events" => s.at <= b.end

\* Where the batch of such a decider lies.
LEMMA BatchPlaced ==
  ASSUME NEW s, NEW h, IsSequence(h), Placed(s, h), s.phase # "next", NEW b, b = s.batch
  PROVE  LiesIn(s, h, b)
<1>1. b.from \in 1..Len(h) /\ b = Batch(h, b.from)
  BY DEF Placed
<1>2. /\ StopsAt(h, b.from, b.stop)
      /\ b.replay = (b.stop # Len(h))
      /\ b.next_decision_event_id = b.stop + 2
      /\ IF b.replay THEN DecidedTo(h, b.stop + 2, b.end) ELSE b.end = b.stop + 1
  BY <1>1, BatchLies
<1>3. b.stop \in b.from..Len(h) /\ Len(h) \in Nat /\ b.from \in Nat /\ b.from > 0
  BY <1>1, <1>2, SequenceIs DEF StopsAt
<1>4. b.end \in 1..(Len(h) + 1)
  <2>1. CASE b.replay
    <3>1. b.end \in (b.stop + 2)..(Len(h) + 1)
      BY <1>2, <2>1, Zenon DEF DecidedTo
    <3> QED BY <1>3, <3>1
  <2>2. CASE ~b.replay
    BY <1>2, <1>3, <2>2
  <2> QED BY <2>1, <2>2
<1>5. /\ s.phase \in {"events", "loop", "decision_events"}
      /\ s.phase = "events" => s.at \in b.from..b.stop
      /\ s.phase = "loop" => s.at = b.stop
      /\ s.phase = "decision_events" =>
           s.at \in (IF b.replay THEN b.next_decision_event_id ELSE b.end)..b.end
  BY DEF Placed
<1>6. b.stop \in Nat /\ b.stop > 0 /\ b.end \in Nat /\ b.end > 0 /\ b.replay \in BOOLEAN
      /\ b.next_decision_event_id \in Nat /\ b.next_decision_event_id > 0
  BY <1>2, <1>3, <1>4
<1>7. /\ s.at \in Nat /\ s.at > 0
      /\ s.phase = "events" => s.at <= b.stop
      /\ s.phase = "decision_events" => s.at <= b.end
  <2>1. CASE s.phase = "events"
    BY <1>3, <1>5, <1>6, <2>1
  <2>2. CASE s.phase = "loop"
    BY <1>5, <1>6, <2>2
  <2>3. CASE s.phase = "decision_events"
    BY <1>5, <1>6, <2>3
  <2> QED BY <1>5, <2>1, <2>2, <2>3
<1> QED BY <1>1, <1>2, <1>3, <1>4, <1>5, <1>6, <1>7, Zenon DEF LiesIn

\* Between two batches.
LEMMA PlacedNext ==
  ASSUME NEW s, NEW h, Placed(s, h), s.phase = "next"
  PROVE  /\ s.at = s.batch.end
         /\ s.batch = NoBatch \/ (s.batch.from \in 1..Len(h) /\ s.batch = Batch(h, s.batch.from))
<1>1. s.at = s.batch.end
  BY DEF Placed
<1>2. s.batch = NoBatch \/ (s.batch.from \in 1..Len(h) /\ s.batch = Batch(h, s.batch.from))
  BY Zenon DEF Placed
<1> QED BY <1>1, <1>2

\* For the decider at work, and where it stands in its history.
LEMMA WorkingIs ==
  ASSUME Working
  PROVE  /\ ThreadInv /\ IsSequence(Polled) /\ Len(Polled) = polled /\ polled \in Nat
         /\ \A i \in 1..polled : Polled[i] = history[i]
         /\ at \in Nat /\ at > 0
         /\ phase # "next" =>
              /\ batch = Batch(Polled, batch.from) /\ batch.stop \in 1..polled
              /\ batch.replay \in BOOLEAN /\ batch.next_decision_event_id = batch.stop + 2
              /\ batch.end \in 1..(polled + 1)
         /\ phase = "events" => at <= batch.stop
         /\ phase = "loop" => at = batch.stop
         /\ phase = "decision_events" => at <= batch.end
<1>1. ThreadInv
  BY DEF Working, Inv
<1>2. IsSequence(Polled) /\ Len(Polled) = polled /\ \A i \in 1..polled : Polled[i] = history[i]
  BY <1>1, PolledIs
<1>3. polled \in Nat
  BY <1>2, SequenceIs
<1>4. /\ phase \in {"next", "events", "loop", "decision_events"}
      /\ Now.phase = phase /\ Now.at = at /\ Now.batch = batch
  BY NowHas DEF Working, AtWork
<1>5. CASE phase # "next"
  <2>1. PICK s, h, b : s = Now /\ h = Polled /\ b = s.batch
    OBVIOUS
  <2>2. IsSequence(h) /\ Placed(s, h) /\ s.phase # "next" /\ b = s.batch
    BY <1>2, <1>4, <1>5, <2>1 DEF Working
  <2>3. LiesIn(s, h, b)
    BY <2>2, BatchPlaced, Zenon
  <2>4. Len(h) = polled /\ s.phase = phase /\ s.at = at /\ b = batch
    BY <1>2, <1>4, <2>1
  <2>5. b.stop \in 1..polled
    BY <1>3, <2>3, <2>4 DEF LiesIn
  <2> QED BY <1>1, <1>2, <1>3, <2>1, <2>3, <2>4, <2>5 DEF LiesIn
<1>6. CASE phase = "next"
  <2>1. /\ at = batch.end
        /\ batch = NoBatch \/ (batch.from \in 1..polled /\ batch = Batch(Polled, batch.from))
    <3>1. Placed(Now, Polled) /\ Now.phase = "next"
      BY <1>4, <1>6 DEF Working
    <3>2. /\ Now.at = Now.batch.end
          /\ Now.batch = NoBatch \/ (Now.batch.from \in 1..Len(Polled) /\ Now.batch = Batch(Polled, Now.batch.from))
      BY <3>1, PlacedNext, Zenon
    <3> QED BY <1>2, <1>4, <3>2, Zenon
  <2>2. CASE batch = NoBatch
    BY <1>1, <1>2, <1>3, <1>6, <2>1, <2>2 DEF NoBatch
  <2>3. CASE batch.from \in 1..polled /\ batch = Batch(Polled, batch.from)
    <3>1. /\ StopsAt(Polled, batch.from, batch.stop)
          /\ IF batch.replay THEN DecidedTo(Polled, batch.stop + 2, batch.end) ELSE batch.end = batch.stop + 1
      BY <1>2, <2>3, BatchLies
    <3>2. batch.stop \in Nat /\ batch.stop > 0
      BY <1>3, <2>3, <3>1 DEF StopsAt
    <3>3. batch.end \in Nat /\ batch.end > 0
      BY <1>2, <1>3, <3>1, <3>2 DEF DecidedTo
    <3> QED BY <1>1, <1>2, <1>3, <1>6, <2>1, <2>3, <3>3
  <2> QED BY <2>1, <2>2, <2>3
<1> QED BY <1>5, <1>6

\* The next batch begins.
LEMMA BeginsIs ==
  ASSUME Working, BeginBatch
  PROVE  Now' = Succ(Now, Polled, workflow)
<1> DEFINE b == Batch(Polled, at)
<1>1. /\ phase = "next" /\ at <= polled
      /\ batch' = b /\ next_decision_event_id' = b.next_decision_event_id
      /\ mutable_marker_results' = WithMarkers(mutable_marker_results, Markers(b))
      /\ phase' = "events"
      /\ UNCHANGED <<at, id_counter, decisions, scheduled_activities, scheduled_timers, completed, codeVars>>
  BY Zenon DEF BeginBatch, Polled
<1>2. /\ IsSequence(Polled) /\ Len(Polled) = polled /\ polled \in Nat
      /\ \A i \in 1..polled : Polled[i] = history[i]
      /\ at \in 1..Len(Polled)
  BY <1>1, WorkingIs
<1>3. /\ StopsAt(Polled, at, b.stop)
      /\ b.next_decision_event_id = b.stop + 2
      /\ IF b.replay THEN DecidedTo(Polled, b.stop + 2, b.end) ELSE b.end = b.stop + 1
  BY <1>2, BatchLies
<1> HIDE DEF b
<1>4. BatchDecisionEvents(b) \subseteq 1..polled
  BY <1>2, <1>3 DEF BatchDecisionEvents, StopsAt, DecidedTo
<1>5. Markers(b) = MarkersOf(Polled, b) /\ Markers(b) \subseteq 1..polled
  BY <1>2, <1>4 DEF Markers, MarkersOf
<1>6. WithMarkers(mutable_marker_results, Markers(b)) = Marked(history, mutable_marker_results, Markers(b))
  BY Zenon DEF WithMarkers, Marked
<1>7. Marked(history, mutable_marker_results, Markers(b)) = Marked(Polled, mutable_marker_results, Markers(b))
  BY <1>2, <1>5, MarkedAlike
<1>8. mutable_marker_results' = Marked(Polled, mutable_marker_results, MarkersOf(Polled, b))
  BY <1>1, <1>5, <1>6, <1>7
<1>9. CodeNow' = CodeNow /\ IdsNow' = IdsNow
  BY <1>1, Zenon DEF CodeNow, IdsNow, TasksNow, codeVars
<1>10. DeciderNow' = Decider(b.next_decision_event_id, DeciderNow.counter, DeciderNow.decisions,
                             DeciderNow.activities, DeciderNow.timers, DeciderNow.ids, DeciderNow.completed)
  BY <1>1, <1>9, DeciderNowHas, Zenon DEF DeciderNow
<1>11. Now' = BatchBegins(Now, Polled)
  BY <1>1, <1>8, <1>9, <1>10, NowHas, Zenon DEF Now, BatchBegins, b
<1> QED BY <1>1, <1>2, <1>11, NowHas, SuccIs

\* A task without its status and id has the other fields.
LEMMA BareHas ==
  ASSUME NEW r
  PROVE  /\ Bare(r).name = r.name /\ Bare(r).pc = r.pc /\ Bare(r).entered = r.entered
         /\ Bare(r).awaited = r.awaited /\ Bare(r).fired = r.fired /\ Bare(r).result = r.result
BY DEF Bare

\* A field of a task is changed.
LEMMA BareWith ==
  ASSUME NEW r, IsTask(r), NEW v
  PROVE  /\ Bare([r EXCEPT !.awaited = v]) = [Bare(r) EXCEPT !.awaited = v]
         /\ Bare([r EXCEPT !.result = v]) = [Bare(r) EXCEPT !.result = v]
         /\ Bare([r EXCEPT !.fired = v]) = [Bare(r) EXCEPT !.fired = v]
         /\ Bare([r EXCEPT !.entered = v]) = [Bare(r) EXCEPT !.entered = v]
         /\ Bare([r EXCEPT !.status = v]) = Bare(r)
         /\ Bare([r EXCEPT !.id = v]) = Bare(r)
         /\ [r EXCEPT !.awaited = v].id = r.id
         /\ [r EXCEPT !.result = v].id = r.id
         /\ [r EXCEPT !.fired = v].id = r.id
         /\ [r EXCEPT !.status = v].id = r.id
         /\ [r EXCEPT !.id = v].id = v
<1>1. r = [name |-> r.name, status |-> r.status, pc |-> r.pc, entered |-> r.entered,
           awaited |-> r.awaited, id |-> r.id, fired |-> r.fired, result |-> r.result]
  BY DEF IsTask
<1> DEFINE x == [name |-> r.name, status |-> r.status, pc |-> r.pc, entered |-> r.entered,
                 awaited |-> r.awaited, id |-> r.id, fired |-> r.fired, result |-> r.result]
<1>2. /\ Bare([x EXCEPT !.awaited = v]) = [Bare(x) EXCEPT !.awaited = v]
      /\ Bare([x EXCEPT !.result = v]) = [Bare(x) EXCEPT !.result = v]
  BY DEF Bare
<1>3. /\ Bare([x EXCEPT !.fired = v]) = [Bare(x) EXCEPT !.fired = v]
      /\ Bare([x EXCEPT !.entered = v]) = [Bare(x) EXCEPT !.entered = v]
  BY DEF Bare
<1>4. /\ Bare([x EXCEPT !.status = v]) = Bare(x)
      /\ Bare([x EXCEPT !.id = v]) = Bare(x)
  BY DEF Bare
<1>5. /\ [x EXCEPT !.awaited = v].id = r.id
      /\ [x EXCEPT !.result = v].id = r.id
      /\ [x EXCEPT !.fired = v].id = r.id
      /\ [x EXCEPT !.status = v].id = r.id
      /\ [x EXCEPT !.id = v].id = v
  OBVIOUS
<1>6. x = r
  BY <1>1
<1> HIDE DEF x
<1> QED BY <1>2, <1>3, <1>4, <1>5, <1>6

\* The tasks, without their ids, and their ids.
LEMMA TasksAre ==
  ASSUME TasksInv
  PROVE  /\ IsSequence(task) /\ DOMAIN TasksNow = DOMAIN task /\ DOMAIN IdsNow = DOMAIN task
         /\ \A t \in DOMAIN task : /\ IsTask(task[t]) /\ TasksNow[t] = Bare(task[t])
                                   /\ IdsNow[t] = task[t].id
BY DEF TasksInv, TasksNow, IdsNow

\* One task changes.
LEMMA TaskBecomesBare ==
  ASSUME TasksInv, NEW t \in DOMAIN task, NEW r, task' = [task EXCEPT ![t] = r]
  PROVE  /\ TasksNow' = [TasksNow EXCEPT ![t] = Bare(r)]
         /\ IdsNow' = [IdsNow EXCEPT ![t] = r.id]
<1>1. DOMAIN task' = DOMAIN task /\ task'[t] = r /\ \A u \in DOMAIN task : u # t => task'[u] = task[u]
  BY SequenceExcept, Zenon DEF TasksInv, Replaced
<1>2. TasksNow' = [u \in DOMAIN task |-> Bare(task'[u])] /\ TasksNow = [u \in DOMAIN task |-> Bare(task[u])]
  BY <1>1, Zenon DEF TasksNow
<1>3. IdsNow' = [u \in DOMAIN task |-> task'[u].id] /\ IdsNow = [u \in DOMAIN task |-> task[u].id]
  BY <1>1, Zenon DEF IdsNow
<1>4. TasksNow' = [TasksNow EXCEPT ![t] = Bare(r)]
  <2>1. \A u \in DOMAIN task : Bare(task'[u]) = IF u = t THEN Bare(r) ELSE Bare(task[u])
    BY <1>1, Zenon
  <2>2. [TasksNow EXCEPT ![t] = Bare(r)] = [u \in DOMAIN task |-> IF u = t THEN Bare(r) ELSE Bare(task[u])]
    BY <1>2
  <2> QED BY <1>2, <2>1, <2>2, Zenon
<1>5. IdsNow' = [IdsNow EXCEPT ![t] = r.id]
  <2>1. \A u \in DOMAIN task : task'[u].id = IF u = t THEN r.id ELSE task[u].id
    BY <1>1, Zenon
  <2>2. [IdsNow EXCEPT ![t] = r.id] = [u \in DOMAIN task |-> IF u = t THEN r.id ELSE task[u].id]
    BY <1>3
  <2> QED BY <1>3, <2>1, <2>2, Zenon
<1> QED BY <1>4, <1>5

\* The id stays the same.
LEMMA IdStays ==
  ASSUME TasksInv, NEW t \in DOMAIN task
  PROVE  [IdsNow EXCEPT ![t] = task[t].id] = IdsNow
<1>1. IdsNow[t] = task[t].id /\ IdsNow = [u \in DOMAIN task |-> IdsNow[u]] /\ DOMAIN IdsNow = DOMAIN task
  BY DEF IdsNow
<1> HIDE DEF IdsNow
<1> QED BY <1>1

\* The event loop begins.
LEMMA LoopBeginsIs ==
  ASSUME Working, RunEventLoop, phase' = "loop"
  PROVE  Now' = Succ(Now, Polled, workflow)
<1>1. /\ phase = "events" /\ at = batch.stop /\ ~completed
      /\ unblock_all /\ quota' = Len(ready')
      /\ UNCHANGED <<at, batch, deciderVars, tasks, running, flags, log>>
  BY DEF RunEventLoop, Raise, Handles
<1>2. /\ task' = [t \in DOMAIN task |-> IF t \in ToSet(tasks) /\ Blocked(t)
                                        THEN [task[t] EXCEPT !.awaited = "set"] ELSE task[t]]
      /\ ready' = ready \o Without(tasks, {t \in ToSet(tasks) : ~Blocked(t)})
  BY <1>1 DEF unblock_all
<1>3. TasksInv
  BY DEF Working, Inv
<1>4. /\ DOMAIN TasksNow = DOMAIN task
      /\ \A t \in DOMAIN task : TasksNow[t] = Bare(task[t]) /\ TasksNow[t].awaited = task[t].awaited
  BY <1>3, TasksAre, BareHas, Zenon
<1>5. DOMAIN task' = DOMAIN task
  BY <1>2
<1> DEFINE ts == [t \in DOMAIN TasksNow |->
                    IF t \in ToSet(tasks) /\ TasksNow[t].awaited = "pending"
                    THEN [TasksNow[t] EXCEPT !.awaited = "set"] ELSE TasksNow[t]]
<1>6. \A t \in DOMAIN task : Bare(task'[t]) = IF t \in ToSet(tasks) /\ TasksNow[t].awaited = "pending"
                                              THEN [TasksNow[t] EXCEPT !.awaited = "set"] ELSE TasksNow[t]
  <2> TAKE t \in DOMAIN task
  <2>1. task'[t] = IF t \in ToSet(tasks) /\ Blocked(t) THEN [task[t] EXCEPT !.awaited = "set"] ELSE task[t]
    BY <1>2
  <2>2. Blocked(t) <=> TasksNow[t].awaited = "pending"
    BY <1>4 DEF Blocked
  <2>3. Bare([task[t] EXCEPT !.awaited = "set"]) = [TasksNow[t] EXCEPT !.awaited = "set"]
    <3>1. IsTask(task[t]) /\ TasksNow[t] = Bare(task[t])
      BY <1>3, <1>4 DEF TasksInv
    <3>2. Bare([task[t] EXCEPT !.awaited = "set"]) = [Bare(task[t]) EXCEPT !.awaited = "set"]
      BY <3>1, BareWith
    <3> QED BY <3>1, <3>2, Zenon
  <2> QED BY <1>4, <2>1, <2>2, <2>3, Zenon
<1>7. TasksNow' = ts
  <2>1. TasksNow' = [t \in DOMAIN task |-> Bare(task'[t])]
    BY <1>5, Zenon DEF TasksNow
  <2> QED BY <1>4, <1>6, <2>1, Zenon
<1>8. IdsNow' = IdsNow
  <2>1. \A t \in DOMAIN task : task'[t].id = task[t].id
    <3> TAKE t \in DOMAIN task
    <3>1. task'[t] = IF t \in ToSet(tasks) /\ Blocked(t) THEN [task[t] EXCEPT !.awaited = "set"] ELSE task[t]
      BY <1>2
    <3>2. [task[t] EXCEPT !.awaited = "set"].id = task[t].id
      BY <1>3, BareWith, Zenon DEF TasksInv
    <3> QED BY <3>1, <3>2, Zenon
  <2> QED BY <1>5, <2>1, Zenon DEF IdsNow
<1>9. {t \in ToSet(tasks) : ~Blocked(t)} = {t \in ToSet(tasks) : TasksNow[t].awaited # "pending"}
  <2>1. ToSet(tasks) \subseteq DOMAIN task
    BY <1>3 DEF TasksInv
  <2>2. \A t \in ToSet(tasks) : Blocked(t) <=> TasksNow[t].awaited = "pending"
    BY <1>4, <2>1 DEF Blocked
  <2> QED BY <2>2
<1>10. CodeNow' = Unblocking(CodeNow)
  BY <1>1, <1>2, <1>7, <1>9, CodeNowHas, Zenon DEF CodeNow, Unblocking
<1>11. DeciderNow' = DeciderNow
  BY <1>1, <1>8, Zenon DEF DeciderNow, deciderVars
<1>12. Now' = LoopBegins(Now)
  BY <1>1, <1>10, <1>11, NowHas, Zenon DEF Now, LoopBegins, deciderVars
<1> QED BY <1>1, <1>12, NowHas, WorkingIs, DeciderNowHas, SuccIs

\* The batch ends, or its event loop.
LEMMA ThreadIs ==
  ASSUME Working, SkipCompleted \/ EndEventLoop \/ EndBatch
  PROVE  Now' = Succ(Now, Polled, workflow)
<1>1. /\ at \in Nat
      /\ phase # "next" => batch.stop \in Nat /\ batch.end \in Nat
  BY WorkingIs
<1>2. CASE SkipCompleted
  <2>1. /\ phase = "events" /\ at = batch.stop /\ completed /\ at' = batch.end /\ phase' = "next"
        /\ UNCHANGED <<batch, deciderVars, codeVars>>
    BY <1>2 DEF SkipCompleted
  <2>2. DeciderNow' = DeciderNow /\ CodeNow' = CodeNow
    BY <2>1, Zenon DEF DeciderNow, CodeNow, IdsNow, TasksNow, deciderVars, codeVars
  <2>3. Now' = Goes(Now, Now.batch.end)
    BY <2>1, <2>2, NowHas, Zenon DEF Now, Goes, deciderVars
  <2>4. /\ Now.phase = "events" /\ Now.at = batch.stop /\ Now.batch = batch
        /\ Now.decider.completed = completed
    BY <2>1, NowHas, DeciderNowHas
  <2>5. Now.at \in Nat /\ Now.batch.stop \in Nat /\ Now.batch.end \in Nat /\ Now.at >= Now.batch.stop
    BY <1>1, <2>1, <2>4
  <2> QED BY <2>1, <2>3, <2>4, <2>5, SuccIs
<1>3. CASE EndBatch
  <2>1. /\ phase = "decision_events" /\ at = batch.end /\ at' = at /\ phase' = "next"
        /\ UNCHANGED <<batch, deciderVars, codeVars>>
    BY <1>3 DEF EndBatch
  <2>2. DeciderNow' = DeciderNow /\ CodeNow' = CodeNow
    BY <2>1, Zenon DEF DeciderNow, CodeNow, IdsNow, TasksNow, deciderVars, codeVars
  <2>3. Now' = Goes(Now, Now.at)
    BY <2>1, <2>2, NowHas, Zenon DEF Now, Goes, deciderVars
  <2> QED BY <1>1, <2>1, <2>3, NowHas, SuccIs
<1>4. CASE EndEventLoop
  <2>1. /\ phase = "loop" /\ quota = 0 /\ running = 0 /\ phase' = "decision_events"
        /\ IF batch.replay THEN notify_decision_sent ELSE UNCHANGED decisions
        /\ at' = IF batch.replay THEN batch.next_decision_event_id ELSE batch.end
        /\ UNCHANGED <<batch, next_decision_event_id, id_counter, scheduled_activities, scheduled_timers,
                       mutable_marker_results, completed, codeVars>>
    BY <1>4 DEF EndEventLoop
  <2>2. CodeNow' = CodeNow /\ IdsNow' = IdsNow
    BY <2>1, Zenon DEF CodeNow, IdsNow, TasksNow, codeVars
  <2>3. decisions' = IF batch.replay THEN Notified(decisions) ELSE decisions
    BY <2>1, Zenon DEF notify_decision_sent, Notified
  <2>4. Now' = LoopEnds(Now)
    BY <2>1, <2>2, <2>3, NowHas, DeciderNowHas, Zenon DEF Now, DeciderNow, LoopEnds
  <2> QED BY <1>1, <2>1, <2>4, NowHas, CodeNowHas, SuccIs
<1> QED BY <1>2, <1>3, <1>4

-----------------------------------------------------------------------------
(* Events *)

\* The event at hand is one that the decider has.
LEMMA EventAt ==
  ASSUME Working, NEW types, AtEvent(types), Consume
  PROVE  /\ Succ(Now, Polled, workflow) = AfterEvent(Now, workflow, Polled)
         /\ Polled[at] = history[at] /\ history[at].type \in types
         /\ at' = at + 1 /\ phase' = phase /\ batch' = batch
         /\ at \in 1..polled
<1>1. /\ (phase = "events" /\ at < batch.stop) \/ (phase = "decision_events" /\ at < batch.end)
      /\ history[at].type \in types
      /\ at' = at + 1 /\ phase' = phase /\ batch' = batch
  BY DEF AtEvent, Consume
<1>2. /\ polled \in Nat /\ \A i \in 1..polled : Polled[i] = history[i]
      /\ at \in Nat /\ at > 0
      /\ batch.stop \in 1..polled /\ batch.end \in 1..(polled + 1)
  BY <1>1, WorkingIs
<1>3. at \in 1..polled
  BY <1>1, <1>2
<1>4. Succ(Now, Polled, workflow) = AfterEvent(Now, workflow, Polled)
  BY <1>1, <1>2, NowHas, SuccIs
<1> QED BY <1>1, <1>2, <1>3, <1>4

\* What an event makes of the state, part by part.
LEMMA EventIs ==
  ASSUME Working, NEW types, AtEvent(types), Consume,
         mutable_marker_results' = MarkersAfterEvent(mutable_marker_results, history, at),
         DeciderNow' = DeciderAfterEvent(DeciderNow, history[at], at),
         CodeNow' = CodeAfterEvent(CodeNow, DeciderNow, workflow, history[at], at)
  PROVE  Now' = Succ(Now, Polled, workflow)
<1>1. /\ Succ(Now, Polled, workflow) = AfterEvent(Now, workflow, Polled)
      /\ Polled[at] = history[at] /\ at' = at + 1 /\ phase' = phase /\ batch' = batch
      /\ at \in 1..polled
  BY EventAt
<1>2. polled \in Nat
  BY WorkingIs
<1>3. Marked(history, mutable_marker_results, {at}) = Marked(Polled, mutable_marker_results, {at})
  BY <1>1, <1>2, MarkedAlike
<1>4. MarkersAfterEvent(mutable_marker_results, history, at)
        = MarkersAfterEvent(mutable_marker_results, Polled, at)
  BY <1>1, <1>3, Zenon DEF MarkersAfterEvent
<1>5. Now' = AfterEvent(Now, workflow, Polled)
  BY <1>1, <1>4, NowHas, Zenon DEF Now, AfterEvent
<1> QED BY <1>1, <1>5

\* What does not change when no variable of it does.
LEMMA Unchanged ==
  /\ UNCHANGED codeVars => CodeNow' = CodeNow /\ IdsNow' = IdsNow /\ TasksNow' = TasksNow
  /\ UNCHANGED deciderVars /\ IdsNow' = IdsNow =>
       DeciderNow' = DeciderNow /\ mutable_marker_results' = mutable_marker_results
BY Zenon DEF CodeNow, IdsNow, TasksNow, codeVars, DeciderNow, deciderVars

\* The events without a handler that does anything.
LEMMA SkipIs ==
  ASSUME Working, SkipEvent
  PROVE  Now' = Succ(Now, Polled, workflow)
<1>1. /\ AtEvent({"DecisionTaskScheduled", "DecisionTaskStarted", "DecisionTaskTimedOut",
                  "DecisionTaskFailed", "WorkflowExecutionCompleted"})
      /\ Consume /\ UNCHANGED <<deciderVars, codeVars>>
  BY DEF SkipEvent
<1>2. /\ UNCHANGED deciderVars /\ UNCHANGED codeVars
      /\ history[at].type \in {"DecisionTaskScheduled", "DecisionTaskStarted", "DecisionTaskTimedOut",
                               "DecisionTaskFailed", "WorkflowExecutionCompleted"}
  BY <1>1, Zenon DEF AtEvent
<1>3. CodeNow' = CodeNow /\ DeciderNow' = DeciderNow /\ mutable_marker_results' = mutable_marker_results
  BY <1>2, Unchanged
<1> DEFINE type == history[at].type
<1>4. /\ type \notin ActivityClosed
      /\ type \notin {"WorkflowExecutionStarted", "WorkflowExecutionSignaled", "TimerFired",
                      "WorkflowExecutionCancelRequested", "ActivityTaskScheduled", "ActivityTaskStarted",
                      "TimerStarted", "CancelTimerFailed", "TimerCanceled", "MarkerRecorded"}
  BY <1>2 DEF ActivityClosed
<1>5. MarkersAfterEvent(mutable_marker_results, history, at) = mutable_marker_results
  BY <1>4 DEF MarkersAfterEvent
<1>6. CodeAfterEvent(CodeNow, DeciderNow, workflow, history[at], at) = CodeNow
  BY <1>4, Zenon DEF CodeAfterEvent
<1>7. DeciderAfterEvent(DeciderNow, history[at], at) = DeciderNow
  BY <1>4, Zenon DEF DeciderAfterEvent
<1> QED BY <1>1, <1>3, <1>5, <1>6, <1>7, EventIs

\* The workflow and a signal get a task.
LEMMA NewTaskIs ==
  ASSUME Inv, NEW name, NewTask(name), UNCHANGED <<quota, running, flags, log>>
  PROVE  CodeNow' = AfterNew(CodeNow, name) /\ IdsNow' = Append(IdsNow, 0)
<1>1. TasksInv
  BY DEF Inv
<1> DEFINE n == Len(task) + 1
<1>2. /\ IsSequence(task) /\ Len(task) \in Nat /\ DOMAIN task = 1..Len(task)
      /\ task' = Append(task, Created(name))
  BY <1>1, SequenceIs DEF TasksInv, NewTask
<1>3. /\ Len(task') = n /\ DOMAIN task' = 1..n
      /\ \A t \in DOMAIN task : task'[t] = task[t]
      /\ task'[n] = Created(name)
  BY <1>2, SequenceAppend
<1>4. tasks' = Append(tasks, n) /\ ready' = Append(ready, n)
  BY <1>3 DEF NewTask
<1>5. TasksNow = [t \in 1..Len(task) |-> Bare(task[t])] /\ IdsNow = [t \in 1..Len(task) |-> task[t].id]
  BY <1>2 DEF TasksNow, IdsNow
<1>6. TasksNow' = [t \in 1..n |-> Bare(task'[t])] /\ IdsNow' = [t \in 1..n |-> task'[t].id]
  BY <1>3, Zenon DEF TasksNow, IdsNow
<1>7. /\ IsSequence(TasksNow) /\ Len(TasksNow) = Len(task)
      /\ IsSequence(IdsNow) /\ Len(IdsNow) = Len(task)
      /\ \A t \in 1..Len(task) : TasksNow[t] = Bare(task[t]) /\ IdsNow[t] = task[t].id
  <2>1. /\ TasksNow = [t \in 1..Len(task) |-> TasksNow[t]] /\ IdsNow = [t \in 1..Len(task) |-> IdsNow[t]]
        /\ \A t \in 1..Len(task) : TasksNow[t] = Bare(task[t]) /\ IdsNow[t] = task[t].id
    BY <1>5
  <2> QED BY <1>2, <2>1, SequenceMade
<1> DEFINE a == Append(TasksNow, Bare(Created(name)))
           b == Append(IdsNow, 0)
<1>8. /\ IsSequence(a) /\ Len(a) = n /\ a[n] = Bare(Created(name))
      /\ \A t \in 1..Len(task) : a[t] = Bare(task[t])
  <2>1. DOMAIN TasksNow = 1..Len(task)
    BY <1>7, SequenceIs
  <2>2. /\ IsSequence(a) /\ Len(a) = Len(TasksNow) + 1 /\ a[Len(TasksNow) + 1] = Bare(Created(name))
        /\ \A t \in DOMAIN TasksNow : a[t] = TasksNow[t]
    BY <1>7, SequenceAppend
  <2> HIDE DEF a
  <2> QED BY <1>7, <2>1, <2>2
<1>9. /\ IsSequence(b) /\ Len(b) = n /\ b[n] = 0
      /\ \A t \in 1..Len(task) : b[t] = task[t].id
  <2>1. DOMAIN IdsNow = 1..Len(task)
    BY <1>7, SequenceIs
  <2>2. /\ IsSequence(b) /\ Len(b) = Len(IdsNow) + 1 /\ b[Len(IdsNow) + 1] = 0
        /\ \A t \in DOMAIN IdsNow : b[t] = IdsNow[t]
    BY <1>7, SequenceAppend
  <2> HIDE DEF b
  <2> QED BY <1>7, <2>1, <2>2
<1>10. n \in Nat /\ 1..n = (1..Len(task)) \cup {n}
  BY <1>2
<1> HIDE DEF a, b, n
<1>11. Created(name).id = 0
  BY DEF Created
<1>12. TasksNow' = a
  <2>1. a = [t \in 1..n |-> a[t]]
    BY <1>8 DEF IsSequence
  <2>2. \A t \in 1..n : Bare(task'[t]) = a[t]
    BY <1>2, <1>3, <1>8, <1>10, Zenon
  <2> QED BY <1>6, <2>1, <2>2, Zenon
<1>13. IdsNow' = b
  <2>1. b = [t \in 1..n |-> b[t]]
    BY <1>9 DEF IsSequence
  <2>2. \A t \in 1..n : task'[t].id = b[t]
    BY <1>2, <1>3, <1>9, <1>10, <1>11, Zenon
  <2> QED BY <1>6, <2>1, <2>2, Zenon
<1>14. CodeNow' = AfterNew(CodeNow, name)
  BY <1>4, <1>7, <1>12, CodeNowHas, Zenon DEF CodeNow, AfterNew, a, n
<1> QED BY <1>13, <1>14 DEF b

\* An event that makes a task.
LEMMA TaskMadeIs ==
  ASSUME Working, NEW type, AtEvent({type}), Consume, NEW name, NewTask(name),
         UNCHANGED <<deciderVars, quota, running, flags, log>>,
         \/ type = "WorkflowExecutionStarted" /\ name = "main"
         \/ type = "WorkflowExecutionSignaled" /\ name = history[at].name
  PROVE  Now' = Succ(Now, Polled, workflow)
<1>1. history[at].type = type
  BY DEF AtEvent
<1>2. CodeNow' = AfterNew(CodeNow, name) /\ IdsNow' = Append(IdsNow, 0)
  BY NewTaskIs DEF Working
<1>3. /\ mutable_marker_results' = mutable_marker_results
      /\ UNCHANGED <<next_decision_event_id, id_counter, decisions, scheduled_activities,
                     scheduled_timers, completed>>
  BY DEF deciderVars
<1>4. DeciderNow' = Moving(DeciderNow, Append(IdsNow, 0))
  BY <1>2, <1>3, DeciderNowHas, Zenon DEF DeciderNow, Moving
<1>5. MarkersAfterEvent(mutable_marker_results, history, at) = mutable_marker_results
  BY <1>1 DEF MarkersAfterEvent
<1>6. CodeAfterEvent(CodeNow, DeciderNow, workflow, history[at], at) = AfterNew(CodeNow, name)
  BY <1>1 DEF CodeAfterEvent, ActivityClosed
<1>7. DeciderAfterEvent(DeciderNow, history[at], at) = Moving(DeciderNow, Append(IdsNow, 0))
  <2>1. history[at].type \in {"WorkflowExecutionStarted", "WorkflowExecutionSignaled"}
    BY <1>1
  <2>2. DeciderNow.ids = IdsNow
    BY DeciderNowHas
  <2> QED BY <2>1, <2>2 DEF DeciderAfterEvent, ActivityClosed
<1> QED BY <1>2, <1>3, <1>4, <1>5, <1>6, <1>7, EventIs

\* The workflow starts, or is signaled.
LEMMA StartedIs ==
  ASSUME Working, handle_workflow_execution_started \/ handle_workflow_execution_signaled
  PROVE  Now' = Succ(Now, Polled, workflow)
<1>1. CASE handle_workflow_execution_started
  BY <1>1, TaskMadeIs DEF handle_workflow_execution_started
<1>2. CASE handle_workflow_execution_signaled
  BY <1>2, TaskMadeIs DEF handle_workflow_execution_signaled
<1> QED BY <1>1, <1>2

\* A decision is added.
LEMMA AddsIs ==
  ASSUME NEW entry, add_decision(entry)
  PROVE  DeciderNow' = Deciding(DeciderNow, entry, id_counter', scheduled_activities', scheduled_timers',
                                IdsNow', completed')
<1>1. /\ decisions' = WithEntry(decisions, entry)
      /\ next_decision_event_id' = next_decision_event_id + 1
  BY Zenon DEF add_decision, WithDecision, WithEntry
<1>2. DeciderNow.next = next_decision_event_id /\ DeciderNow.decisions = decisions
  BY DeciderNowHas
<1> QED BY <1>1, <1>2, Zenon DEF DeciderNow, Deciding

\* The decision that closes the workflow.
LEMMA ClosesIs ==
  ASSUME NEW type, close_workflow_execution(type),
         UNCHANGED <<id_counter, scheduled_activities, scheduled_timers>>
  PROVE  DeciderNow' = Closing(DeciderNow, type, IdsNow')
<1>1. add_decision(Entry("SELF", 0, 0, type)) /\ completed' = TRUE
  BY DEF close_workflow_execution
<1>2. DeciderNow' = Deciding(DeciderNow, Entry("SELF", 0, 0, type), id_counter', scheduled_activities',
                             scheduled_timers', IdsNow', completed')
  BY <1>1, AddsIs
<1>3. /\ id_counter' = DeciderNow.counter /\ scheduled_activities' = DeciderNow.activities
      /\ scheduled_timers' = DeciderNow.timers
  BY DeciderNowHas
<1> QED BY <1>1, <1>2, <1>3, Zenon DEF Closing

\* Its cancelation is requested.
LEMMA CancelRequestedIs ==
  ASSUME Working, handle_workflow_execution_cancel_requested
  PROVE  Now' = Succ(Now, Polled, workflow)
<1>1. /\ AtEvent({"WorkflowExecutionCancelRequested"}) /\ Consume
      /\ close_workflow_execution("CancelWorkflowExecution")
      /\ UNCHANGED <<id_counter, scheduled_activities, scheduled_timers>>
      /\ mutable_marker_results' = mutable_marker_results /\ UNCHANGED codeVars
  BY Zenon DEF handle_workflow_execution_cancel_requested
<1>2. history[at].type = "WorkflowExecutionCancelRequested"
  BY <1>1 DEF AtEvent
<1>3. CodeNow' = CodeNow /\ IdsNow' = IdsNow
  BY <1>1, Unchanged
<1>4. DeciderNow' = Closing(DeciderNow, "CancelWorkflowExecution", DeciderNow.ids)
  BY <1>1, <1>3, ClosesIs, DeciderNowHas
<1>5. MarkersAfterEvent(mutable_marker_results, history, at) = mutable_marker_results
  BY <1>2 DEF MarkersAfterEvent
<1>6. CodeAfterEvent(CodeNow, DeciderNow, workflow, history[at], at) = CodeNow
  BY <1>2 DEF CodeAfterEvent, ActivityClosed
<1>7. DeciderAfterEvent(DeciderNow, history[at], at)
        = Closing(DeciderNow, "CancelWorkflowExecution", DeciderNow.ids)
  BY <1>2 DEF DeciderAfterEvent, ActivityClosed
<1> QED BY <1>1, <1>3, <1>4, <1>5, <1>6, <1>7, EventIs

\* A marker is recorded.
LEMMA MarkerRecordedIs ==
  ASSUME Working, handle_marker_recorded
  PROVE  Now' = Succ(Now, Polled, workflow)
<1>1. /\ AtEvent({"MarkerRecorded"}) /\ Consume
      /\ mutable_marker_results' = WithMarkers(mutable_marker_results, {at})
      /\ UNCHANGED <<next_decision_event_id, id_counter, decisions, scheduled_activities,
                 scheduled_timers, completed>>
      /\ UNCHANGED codeVars
  BY Zenon DEF handle_marker_recorded
<1>2. history[at].type = "MarkerRecorded"
  BY <1>1 DEF AtEvent
<1>3. CodeNow' = CodeNow /\ IdsNow' = IdsNow
  BY <1>1, Unchanged
<1>4. DeciderNow' = DeciderNow
  BY <1>1, <1>3, Zenon DEF DeciderNow
<1>5. mutable_marker_results' = MarkersAfterEvent(mutable_marker_results, history, at)
  BY <1>1, <1>2, Zenon DEF WithMarkers, MarkersAfterEvent, Marked
<1>6. CodeAfterEvent(CodeNow, DeciderNow, workflow, history[at], at) = CodeNow
  BY <1>2 DEF CodeAfterEvent, ActivityClosed
<1>7. DeciderAfterEvent(DeciderNow, history[at], at) = DeciderNow
  BY <1>2 DEF DeciderAfterEvent, ActivityClosed
<1> QED BY <1>1, <1>3, <1>4, <1>5, <1>6, <1>7, EventIs

\* The operation that a task stands at.
LEMMA OpIs ==
  ASSUME Inv, NEW t \in DOMAIN task
  PROVE  /\ TasksNow[t] = Bare(task[t])
         /\ CodeIn(workflow, TasksNow[t]) = CodeOf(t)
         /\ OpIn(workflow, TasksNow[t]) = Op(t)
<1>1. /\ TasksNow[t] = Bare(task[t])
      /\ TasksNow[t].name = task[t].name /\ TasksNow[t].pc = task[t].pc
  BY TasksAre, BareHas, Zenon DEF Inv
<1>2. CodeIn(workflow, TasksNow[t]) = CodeOf(t)
  BY <1>1, Zenon DEF CodeIn, CodeOf
<1> QED BY <1>1, <1>2, Zenon DEF OpIn, Op

\* An event that a decision's machine handles without raising.
LEMMA ToldIs ==
  ASSUME Working, NEW types, types \subseteq MachineEvents, AtEvent(types), UpdateMachine
  PROVE  LET event == history[at] IN
         /\ Told(decisions, event, at) = decisions'
         /\ Finishes(decisions, event, at) <=> is_done(decisions'[Addressed].machine)
         /\ Addressed \in DOMAIN decisions
         /\ decisions[Addressed].machine.target \in {"ACTIVITY", "TIMER"}
         /\ UNCHANGED <<next_decision_event_id, id_counter, mutable_marker_results, completed>>
<1> DEFINE event == history[at]
<1>1. /\ event.type \in MachineEvents /\ Exception = ""
      /\ decisions' = [decisions EXCEPT ![Addressed].machine = Handled(@)]
      /\ UNCHANGED <<next_decision_event_id, id_counter, mutable_marker_results, completed>>
  BY DEF AtEvent, UpdateMachine
<1>2. Addressed = About(decisions, event, at)
  BY Zenon DEF Addressed, About
<1> DEFINE k == Addressed
<1>3. k \in DOMAIN decisions
  BY <1>1, EventHandled DEF Working, Inv
<1>4. Handled(decisions[k].machine) = HandledBy(decisions[k].machine, event.type)
  BY Zenon DEF Handled, HandledBy
<1>5. Told(decisions, event, at) = [decisions EXCEPT ![k].machine = HandledBy(@, event.type)]
  BY <1>2, Zenon DEF Told
<1> HIDE DEF k
<1>6. decisions' = [decisions EXCEPT ![k].machine = Handled(decisions[k].machine)]
  BY <1>1 DEF k
<1>7. Told(decisions, event, at) = [decisions EXCEPT ![k].machine = HandledBy(decisions[k].machine, event.type)]
  BY <1>5
<1>8. Told(decisions, event, at) = decisions'
  BY <1>4, <1>6, <1>7, Zenon
<1>9. Finishes(decisions, event, at) <=> is_done(decisions'[k].machine)
  BY <1>2, <1>8, Zenon DEF Finishes, k
<1>10. decisions[k].machine.target \in {"ACTIVITY", "TIMER"}
  <2>1. IsSequence(decisions) /\ k = About(decisions, event, at)
    BY <1>2 DEF Working, Inv, IsDecisions, k
  <2>2. \E target \in {"ACTIVITY", "TIMER"} : \E id : k = IndexOf(decisions, target, id)
    BY <1>1, <2>1 DEF About, MachineEvents, ActivityClosed, TimerClosed
  <2>3. PICK target, id : target \in {"ACTIVITY", "TIMER"} /\ k = IndexOf(decisions, target, id)
    BY <2>2
  <2>4. k # 0
    BY <1>3, <2>1, SequenceIs
  <2> QED BY <2>1, <2>3, <2>4, IndexIs
<1> QED BY <1>1, <1>3, <1>8, <1>9, <1>10 DEF k

\* The service has accepted an activity or a timer.
LEMMA InitiatedIs ==
  ASSUME Working, handle_initiated
  PROVE  Now' = Succ(Now, Polled, workflow)
<1> DEFINE types == {"ActivityTaskScheduled", "ActivityTaskStarted", "TimerStarted", "CancelTimerFailed"}
           event == history[at]
<1>1. /\ AtEvent(types) /\ UpdateMachine /\ Consume
      /\ UNCHANGED <<scheduled_activities, scheduled_timers>> /\ UNCHANGED codeVars
      /\ event.type \in types /\ types \subseteq MachineEvents
  BY Zenon DEF handle_initiated, AtEvent, MachineEvents
<1>2. /\ Told(decisions, event, at) = decisions'
      /\ UNCHANGED <<next_decision_event_id, id_counter, mutable_marker_results, completed>>
  BY <1>1, ToldIs
<1>3. CodeNow' = CodeNow /\ IdsNow' = IdsNow
  BY <1>1, Unchanged
<1>4. DeciderNow' = Telling(DeciderNow, event, at, DeciderNow.activities, DeciderNow.timers)
  BY <1>1, <1>2, <1>3, DeciderNowHas, Zenon DEF DeciderNow, Telling
<1>5. MarkersAfterEvent(mutable_marker_results, history, at) = mutable_marker_results
  BY <1>1 DEF MarkersAfterEvent
<1>6. CodeAfterEvent(CodeNow, DeciderNow, workflow, history[at], at) = CodeNow
  BY <1>1 DEF CodeAfterEvent, ActivityClosed
<1>7. DeciderAfterEvent(DeciderNow, history[at], at)
        = Telling(DeciderNow, event, at, DeciderNow.activities, DeciderNow.timers)
  BY <1>1 DEF DeciderAfterEvent, ActivityClosed
<1> QED BY <1>1, <1>2, <1>3, <1>4, <1>5, <1>6, <1>7, EventIs

\* One field of one task changes.
LEMMA FieldChanges ==
  ASSUME TasksInv, NEW t \in DOMAIN task, NEW v
  PROVE  /\ task' = [task EXCEPT ![t].result = v] =>
              TasksNow' = [TasksNow EXCEPT ![t].result = v] /\ IdsNow' = IdsNow
         /\ task' = [task EXCEPT ![t].fired = v] =>
              TasksNow' = [TasksNow EXCEPT ![t].fired = v] /\ IdsNow' = IdsNow
         /\ task' = [task EXCEPT ![t].awaited = v] =>
              TasksNow' = [TasksNow EXCEPT ![t].awaited = v] /\ IdsNow' = IdsNow
         /\ task' = [task EXCEPT ![t].status = v] => TasksNow' = TasksNow /\ IdsNow' = IdsNow
<1>1. /\ IsTask(task[t]) /\ TasksNow[t] = Bare(task[t])
      /\ [IdsNow EXCEPT ![t] = task[t].id] = IdsNow
      /\ TasksNow = [u \in DOMAIN task |-> TasksNow[u]]
  BY IdStays, TasksAre DEF TasksNow
<1>2. [TasksNow EXCEPT ![t] = TasksNow[t]] = TasksNow
  <2> HIDE DEF TasksNow
  <2> QED BY <1>1
<1>3. ASSUME task' = [task EXCEPT ![t].result = v]
      PROVE  TasksNow' = [TasksNow EXCEPT ![t].result = v] /\ IdsNow' = IdsNow
  <2>1. PICK r : r = [task[t] EXCEPT !.result = v]
    OBVIOUS
  <2>2. task' = [task EXCEPT ![t] = r]
    BY <1>3, <2>1
  <2>3. Bare(r) = [TasksNow[t] EXCEPT !.result = v] /\ r.id = task[t].id
    <3>1. /\ Bare([task[t] EXCEPT !.result = v]) = [Bare(task[t]) EXCEPT !.result = v]
          /\ [task[t] EXCEPT !.result = v].id = task[t].id
      BY <1>1, BareWith
    <3> QED BY <1>1, <2>1, <3>1, Zenon
  <2>4. TasksNow' = [TasksNow EXCEPT ![t] = Bare(r)] /\ IdsNow' = [IdsNow EXCEPT ![t] = r.id]
    BY <2>2, TaskBecomesBare
  <2>5. TasksNow' = [TasksNow EXCEPT ![t] = [TasksNow[t] EXCEPT !.result = v]] /\ IdsNow' = IdsNow
    BY <1>1, <2>3, <2>4, Zenon
  <2>6. [TasksNow EXCEPT ![t] = [TasksNow[t] EXCEPT !.result = v]] = [TasksNow EXCEPT ![t].result = v]
    OBVIOUS
  <2> QED BY <2>5, <2>6, Zenon
<1>4. ASSUME task' = [task EXCEPT ![t].fired = v]
      PROVE  TasksNow' = [TasksNow EXCEPT ![t].fired = v] /\ IdsNow' = IdsNow
  <2>1. PICK r : r = [task[t] EXCEPT !.fired = v]
    OBVIOUS
  <2>2. task' = [task EXCEPT ![t] = r]
    BY <1>4, <2>1
  <2>3. Bare(r) = [TasksNow[t] EXCEPT !.fired = v] /\ r.id = task[t].id
    <3>1. /\ Bare([task[t] EXCEPT !.fired = v]) = [Bare(task[t]) EXCEPT !.fired = v]
          /\ [task[t] EXCEPT !.fired = v].id = task[t].id
      BY <1>1, BareWith
    <3> QED BY <1>1, <2>1, <3>1, Zenon
  <2>4. TasksNow' = [TasksNow EXCEPT ![t] = Bare(r)] /\ IdsNow' = [IdsNow EXCEPT ![t] = r.id]
    BY <2>2, TaskBecomesBare
  <2>5. TasksNow' = [TasksNow EXCEPT ![t] = [TasksNow[t] EXCEPT !.fired = v]] /\ IdsNow' = IdsNow
    BY <1>1, <2>3, <2>4, Zenon
  <2>6. [TasksNow EXCEPT ![t] = [TasksNow[t] EXCEPT !.fired = v]] = [TasksNow EXCEPT ![t].fired = v]
    OBVIOUS
  <2> QED BY <2>5, <2>6, Zenon
<1>5. ASSUME task' = [task EXCEPT ![t].awaited = v]
      PROVE  TasksNow' = [TasksNow EXCEPT ![t].awaited = v] /\ IdsNow' = IdsNow
  <2>1. PICK r : r = [task[t] EXCEPT !.awaited = v]
    OBVIOUS
  <2>2. task' = [task EXCEPT ![t] = r]
    BY <1>5, <2>1
  <2>3. Bare(r) = [TasksNow[t] EXCEPT !.awaited = v] /\ r.id = task[t].id
    <3>1. /\ Bare([task[t] EXCEPT !.awaited = v]) = [Bare(task[t]) EXCEPT !.awaited = v]
          /\ [task[t] EXCEPT !.awaited = v].id = task[t].id
      BY <1>1, BareWith
    <3> QED BY <1>1, <2>1, <3>1, Zenon
  <2>4. TasksNow' = [TasksNow EXCEPT ![t] = Bare(r)] /\ IdsNow' = [IdsNow EXCEPT ![t] = r.id]
    BY <2>2, TaskBecomesBare
  <2>5. TasksNow' = [TasksNow EXCEPT ![t] = [TasksNow[t] EXCEPT !.awaited = v]] /\ IdsNow' = IdsNow
    BY <1>1, <2>3, <2>4, Zenon
  <2>6. [TasksNow EXCEPT ![t] = [TasksNow[t] EXCEPT !.awaited = v]] = [TasksNow EXCEPT ![t].awaited = v]
    OBVIOUS
  <2> QED BY <2>5, <2>6, Zenon
<1>6. ASSUME task' = [task EXCEPT ![t].status = v]
      PROVE  TasksNow' = TasksNow /\ IdsNow' = IdsNow
  <2>1. PICK r : r = [task[t] EXCEPT !.status = v]
    OBVIOUS
  <2>2. task' = [task EXCEPT ![t] = r]
    BY <1>6, <2>1
  <2>3. Bare(r) = TasksNow[t] /\ r.id = task[t].id
    <3>1. /\ Bare([task[t] EXCEPT !.status = v]) = Bare(task[t])
          /\ [task[t] EXCEPT !.status = v].id = task[t].id
      BY <1>1, BareWith
    <3> QED BY <1>1, <2>1, <3>1, Zenon
  <2>4. TasksNow' = [TasksNow EXCEPT ![t] = Bare(r)] /\ IdsNow' = [IdsNow EXCEPT ![t] = r.id]
    BY <2>2, TaskBecomesBare
  <2> QED BY <1>1, <1>2, <2>3, <2>4, Zenon
<1> QED BY <1>3, <1>4, <1>5, <1>6, Zenon

\* An activity has ended.
LEMMA ActivityClosedIs ==
  ASSUME Working, handle_activity_closed
  PROVE  Now' = Succ(Now, Polled, workflow)
<1> DEFINE event == history[at]
<1>1. /\ AtEvent(ActivityClosed) /\ UpdateMachine /\ Consume
      /\ event.type \in ActivityClosed /\ ActivityClosed \subseteq MachineEvents
      /\ UNCHANGED <<scheduled_timers, tasks, quota, running, flags, log>>
  BY Zenon DEF handle_activity_closed, AtEvent, MachineEvents
<1>2. /\ Told(decisions, event, at) = decisions'
      /\ Finishes(decisions, event, at) <=> is_done(decisions'[Addressed].machine)
      /\ UNCHANGED <<next_decision_event_id, id_counter, mutable_marker_results, completed>>
  BY <1>1, ToldIs
<1>3. PICK k, m, n : Updates(k, m, n, ActivityClosed)
  BY <1>1, EventUpdates, Zenon DEF Working
<1>4. is_done(decisions'[Addressed].machine) /\ event.ref \in DOMAIN scheduled_activities
  <2>1. /\ event.type \in MachineEvents /\ k = Addressed /\ m = decisions[k].machine /\ n = Handled(m)
        /\ decisions'[k].machine = n
    BY <1>1, <1>3, Zenon DEF Updates
  <2>2. IsDecisions(decisions) /\ Exception = ""
    BY <1>1 DEF UpdateMachine, Working, Inv
  <2>3. is_done(n) /\ event.ref \in DOMAIN scheduled_activities
    BY <2>1, <2>2, <1>1, EventHandled, Zenon
  <2> QED BY <2>1, <2>3, Zenon
<1> DEFINE t == scheduled_activities[event.ref]
           result == ActivityOutcome(event.type)
<1>5. scheduled_activities' = Pop(scheduled_activities, event.ref) /\ Resolve(t, result)
  BY <1>4, Zenon DEF handle_activity_closed, Waiter
<1>6. TasksInv /\ t \in DOMAIN task
  BY <1>4, Zenon DEF Working, Inv, PendingInv, HoldsActivity
<1> HIDE DEF t, result
<1>7. /\ TasksNow' = [TasksNow EXCEPT ![t].result = result] /\ IdsNow' = IdsNow
      /\ ready' = Append(ready, t)
  BY <1>5, <1>6, FieldChanges, Zenon DEF Resolve
<1>8. CodeNow' = Resolved(CodeNow, t, result)
  BY <1>1, <1>7, CodeNowHas, Zenon DEF CodeNow, Resolved, Woken
<1>9. DeciderNow' = Telling(DeciderNow, event, at, Pop(DeciderNow.activities, event.ref), DeciderNow.timers)
  BY <1>1, <1>2, <1>5, <1>7, DeciderNowHas, Zenon DEF DeciderNow, Telling
<1>10. MarkersAfterEvent(mutable_marker_results, history, at) = mutable_marker_results
  BY <1>1 DEF MarkersAfterEvent, ActivityClosed
<1>11. Finishes(DeciderNow.decisions, event, at) /\ DeciderNow.activities = scheduled_activities
  BY <1>2, <1>4, DeciderNowHas
<1>12. /\ event.type \notin {"WorkflowExecutionStarted", "WorkflowExecutionSignaled",
                             "WorkflowExecutionCancelRequested", "ActivityTaskScheduled",
                             "ActivityTaskStarted", "TimerStarted", "CancelTimerFailed",
                             "TimerFired", "TimerCanceled"}
  BY <1>1 DEF ActivityClosed
<1>13. CodeAfterEvent(CodeNow, DeciderNow, workflow, history[at], at) = Resolved(CodeNow, t, result)
  BY <1>1, <1>11, <1>12 DEF CodeAfterEvent, t, result
<1>14. DeciderAfterEvent(DeciderNow, history[at], at)
        = Telling(DeciderNow, event, at, Pop(DeciderNow.activities, event.ref), DeciderNow.timers)
  BY <1>1, <1>11, <1>12 DEF DeciderAfterEvent
<1> QED BY <1>1, <1>2, <1>8, <1>9, <1>10, <1>13, <1>14, EventIs

\* A timer has fired.
LEMMA TimerFiredIs ==
  ASSUME Working, handle_timer_fired
  PROVE  Now' = Succ(Now, Polled, workflow)
<1> DEFINE event == history[at]
<1>1. /\ AtEvent({"TimerFired"}) /\ UpdateMachine /\ Consume
      /\ event.type = "TimerFired" /\ {"TimerFired"} \subseteq MachineEvents
      /\ UNCHANGED <<scheduled_activities, tasks, quota, running, flags, log>>
  BY DEF handle_timer_fired, AtEvent, MachineEvents
<1>2. /\ Told(decisions, event, at) = decisions'
      /\ Finishes(decisions, event, at) <=> is_done(decisions'[Addressed].machine)
      /\ UNCHANGED <<next_decision_event_id, id_counter, mutable_marker_results, completed>>
  BY <1>1, ToldIs
<1> DEFINE t == scheduled_timers[event.ref]
           fires == Finishes(decisions, event, at) /\ event.ref \in DOMAIN scheduled_timers
<1>3. TasksInv /\ (event.ref \in DOMAIN scheduled_timers => t \in DOMAIN task)
  BY Zenon DEF Working, Inv, PendingInv, HoldsTimer
<1>4. MarkersAfterEvent(mutable_marker_results, history, at) = mutable_marker_results
  BY <1>1 DEF MarkersAfterEvent
<1>5. /\ DeciderNow.decisions = decisions /\ DeciderNow.timers = scheduled_timers
      /\ CodeNow.task = TasksNow
  BY DeciderNowHas, CodeNowHas
<1>6. event.type \notin ActivityClosed
  BY <1>1 DEF ActivityClosed
<1>7. CodeAfterEvent(CodeNow, DeciderNow, workflow, history[at], at)
        = IF fires THEN IF OpIn(workflow, TasksNow[t]).op = "sleep" THEN Resolved(CodeNow, t, "ok")
                        ELSE Noted(CodeNow, t)
          ELSE CodeNow
  BY <1>1, <1>5, <1>6 DEF CodeAfterEvent
<1>8. DeciderAfterEvent(DeciderNow, history[at], at)
        = Telling(DeciderNow, event, at, DeciderNow.activities,
                  IF fires THEN Pop(scheduled_timers, event.ref) ELSE scheduled_timers)
  BY <1>1, <1>5, <1>6 DEF DeciderAfterEvent
<1>9. CASE ~fires
  <2>1. UNCHANGED <<scheduled_timers, task, ready>>
    BY <1>2, <1>9, Zenon DEF handle_timer_fired
  <2>2. UNCHANGED codeVars
    BY <1>1, <2>1 DEF codeVars
  <2>3. CodeNow' = CodeNow /\ IdsNow' = IdsNow
    BY <2>2, Unchanged
  <2>4. DeciderNow' = Telling(DeciderNow, event, at, DeciderNow.activities, scheduled_timers)
    BY <1>1, <1>2, <2>1, <2>3, DeciderNowHas, Zenon DEF DeciderNow, Telling
  <2> HIDE DEF fires
  <2>5. /\ CodeNow' = CodeAfterEvent(CodeNow, DeciderNow, workflow, history[at], at)
        /\ DeciderNow' = DeciderAfterEvent(DeciderNow, history[at], at)
    BY <1>7, <1>8, <1>9, <2>3, <2>4, Zenon
  <2> QED BY <1>1, <1>2, <1>4, <2>5, EventIs
<1>10. CASE fires
  <2>1. /\ scheduled_timers' = Pop(scheduled_timers, event.ref)
        /\ IF Op(t).op = "sleep" THEN Resolve(t, "ok")
           ELSE task' = [task EXCEPT ![t].fired = TRUE] /\ ready' = ready
    BY <1>2, <1>10, Zenon DEF handle_timer_fired, Waiter
  <2>2. t \in DOMAIN task /\ TasksInv
    BY <1>3, <1>10
  <2> HIDE DEF t
  <2>3. OpIn(workflow, TasksNow[t]) = Op(t)
    BY <2>2, OpIs DEF Working
  <2>4. /\ CodeNow' = IF Op(t).op = "sleep" THEN Resolved(CodeNow, t, "ok") ELSE Noted(CodeNow, t)
        /\ IdsNow' = IdsNow
    <3>1. CASE Op(t).op = "sleep"
      <4>1. /\ TasksNow' = [TasksNow EXCEPT ![t].result = "ok"] /\ IdsNow' = IdsNow
            /\ ready' = Append(ready, t)
        BY <2>1, <2>2, <3>1, FieldChanges, Zenon DEF Resolve
      <4>2. CodeNow' = Resolved(CodeNow, t, "ok")
        BY <1>1, <4>1, CodeNowHas, Zenon DEF CodeNow, Resolved, Woken
      <4> QED BY <3>1, <4>1, <4>2, Zenon
    <3>2. CASE Op(t).op # "sleep"
      <4>1. /\ TasksNow' = [TasksNow EXCEPT ![t].fired = TRUE] /\ IdsNow' = IdsNow
            /\ ready' = ready
        BY <2>1, <2>2, <3>2, FieldChanges, Zenon
      <4>2. CodeNow' = Noted(CodeNow, t)
        BY <1>1, <4>1, CodeNowHas, Zenon DEF CodeNow, Noted, Woken
      <4> QED BY <3>2, <4>1, <4>2, Zenon
    <3> QED BY <3>1, <3>2
  <2>5. DeciderNow' = Telling(DeciderNow, event, at, DeciderNow.activities, Pop(scheduled_timers, event.ref))
    BY <1>1, <1>2, <2>1, <2>4, DeciderNowHas, Zenon DEF DeciderNow, Telling
  <2> HIDE DEF fires
  <2>6. /\ CodeNow' = CodeAfterEvent(CodeNow, DeciderNow, workflow, history[at], at)
        /\ DeciderNow' = DeciderAfterEvent(DeciderNow, history[at], at)
    BY <1>7, <1>8, <1>10, <2>3, <2>4, <2>5, Zenon
  <2> QED BY <1>1, <1>2, <1>4, <2>6, EventIs
<1> QED BY <1>9, <1>10

\* A timer is canceled.
LEMMA TimerCanceledIs ==
  ASSUME Working, handle_timer_canceled
  PROVE  Now' = Succ(Now, Polled, workflow)
<1> DEFINE event == history[at]
<1>1. /\ AtEvent({"TimerCanceled"}) /\ UpdateMachine /\ Consume
      /\ event.type = "TimerCanceled" /\ {"TimerCanceled"} \subseteq MachineEvents
      /\ scheduled_activities' = scheduled_activities /\ UNCHANGED codeVars
  BY DEF handle_timer_canceled, AtEvent, MachineEvents
<1>2. /\ Told(decisions, event, at) = decisions'
      /\ Finishes(decisions, event, at) <=> is_done(decisions'[Addressed].machine)
      /\ UNCHANGED <<next_decision_event_id, id_counter, mutable_marker_results, completed>>
  BY <1>1, ToldIs
<1>3. scheduled_timers' = IF Finishes(decisions, event, at) THEN Pop(scheduled_timers, event.ref)
                          ELSE scheduled_timers
  BY <1>2, Zenon DEF handle_timer_canceled, timer_cancelled
<1>4. CodeNow' = CodeNow /\ IdsNow' = IdsNow
  BY <1>1, Unchanged
<1>5. DeciderNow.decisions = decisions /\ DeciderNow.timers = scheduled_timers
  BY DeciderNowHas
<1>6. DeciderNow' = Telling(DeciderNow, event, at, DeciderNow.activities, scheduled_timers')
  BY <1>1, <1>2, <1>4, DeciderNowHas, Zenon DEF DeciderNow, Telling
<1>7. MarkersAfterEvent(mutable_marker_results, history, at) = mutable_marker_results
  BY <1>1 DEF MarkersAfterEvent
<1>8. CodeAfterEvent(CodeNow, DeciderNow, workflow, history[at], at) = CodeNow
  BY <1>1 DEF CodeAfterEvent, ActivityClosed
<1>9. DeciderAfterEvent(DeciderNow, history[at], at)
        = Telling(DeciderNow, event, at, DeciderNow.activities, scheduled_timers')
  BY <1>1, <1>3, <1>5 DEF DeciderAfterEvent, ActivityClosed
<1> QED BY <1>1, <1>2, <1>4, <1>6, <1>7, <1>8, <1>9, EventIs

\* Every event that is processed without raising.
LEMMA ProcessIs ==
  ASSUME Working, ProcessEvent, phase' # "dead"
  PROVE  Now' = Succ(Now, Polled, workflow)
<1>1. ~EventRaises /\ ~NoEventHandler
  BY DEF EventRaises, NoEventHandler, Raise
<1> QED BY <1>1, SkipIs, StartedIs, CancelRequestedIs, MarkerRecordedIs, InitiatedIs, ActivityClosedIs,
           TimerFiredIs, TimerCanceledIs, Zenon DEF ProcessEvent

-----------------------------------------------------------------------------
(* The code *)
\* What a step of the running task makes of the state, given its operation.
LEMMA StandsArms ==
  ASSUME NEW c, NEW w, NEW d, NEW markers, NEW replay, Stands(c, w),
         NEW r, r = c.task[c.running], NEW o, o = OpIn(w, r)
  PROVE  /\ r.entered =>
              /\ CodeAfterStep(c, w, markers, replay) = CodeGoesOn(c, o)
              /\ DeciderAfterStep(d, c, w, markers, replay) = DeciderGoesOn(d, c, o)
              /\ MarkersAfterStep(c, w, markers, replay) = markers
         /\ ~r.entered =>
              /\ CodeAfterStep(c, w, markers, replay) = CodeBegins(c, o, markers, replay)
              /\ DeciderAfterStep(d, c, w, markers, replay) = DeciderBegins(d, c, o, markers, replay)
              /\ MarkersAfterStep(c, w, markers, replay) =
                   IF o.op = "get_version" THEN MarkersAsked(markers, o.arg, replay) ELSE markers
<1>1. c.running # 0
  BY DEF Stands
<1>2. Asks(c, w) <=> ~r.entered /\ o.op = "get_version"
  BY Zenon DEF Asks
<1> QED BY <1>1, <1>2, Zenon DEF CodeAfterStep, DeciderAfterStep, MarkersAfterStep

\* The same for the running task of this decider.
LEMMA StandsNow ==
  ASSUME Stands(CodeNow, workflow), CodeNow.running = running, CodeNow.task = TasksNow,
         NEW o, OpIn(workflow, TasksNow[running]) = o, NEW markers, NEW replay
  PROVE  /\ TasksNow[running].entered =>
              /\ CodeAfterStep(CodeNow, workflow, markers, replay) = CodeGoesOn(CodeNow, o)
              /\ DeciderAfterStep(DeciderNow, CodeNow, workflow, markers, replay)
                   = DeciderGoesOn(DeciderNow, CodeNow, o)
              /\ MarkersAfterStep(CodeNow, workflow, markers, replay) = markers
         /\ ~TasksNow[running].entered =>
              /\ CodeAfterStep(CodeNow, workflow, markers, replay) = CodeBegins(CodeNow, o, markers, replay)
              /\ DeciderAfterStep(DeciderNow, CodeNow, workflow, markers, replay)
                   = DeciderBegins(DeciderNow, CodeNow, o, markers, replay)
              /\ o.op = "get_version" =>
                   MarkersAfterStep(CodeNow, workflow, markers, replay) = MarkersAsked(markers, o.arg, replay)
              /\ o.op # "get_version" => MarkersAfterStep(CodeNow, workflow, markers, replay) = markers
<1> DEFINE r == CodeNow.task[CodeNow.running]
<1>1. r = TasksNow[running]
  BY Zenon
<1>2. o = OpIn(workflow, r)
  BY <1>1, Zenon
<1> HIDE DEF r
<1>3. r = CodeNow.task[CodeNow.running]
  BY DEF r
<1>4. /\ r.entered =>
           /\ CodeAfterStep(CodeNow, workflow, markers, replay) = CodeGoesOn(CodeNow, o)
           /\ DeciderAfterStep(DeciderNow, CodeNow, workflow, markers, replay)
                = DeciderGoesOn(DeciderNow, CodeNow, o)
           /\ MarkersAfterStep(CodeNow, workflow, markers, replay) = markers
      /\ ~r.entered =>
           /\ CodeAfterStep(CodeNow, workflow, markers, replay) = CodeBegins(CodeNow, o, markers, replay)
           /\ DeciderAfterStep(DeciderNow, CodeNow, workflow, markers, replay)
                = DeciderBegins(DeciderNow, CodeNow, o, markers, replay)
           /\ MarkersAfterStep(CodeNow, workflow, markers, replay) =
                IF o.op = "get_version" THEN MarkersAsked(markers, o.arg, replay) ELSE markers
  BY <1>2, <1>3, StandsArms
<1> QED BY <1>1, <1>4

\* The steps of the running task, part by part.
LEMMA StepIs ==
  ASSUME Working, running # 0, Quiet,
         mutable_marker_results' = MarkersAfterStep(CodeNow, workflow, mutable_marker_results, batch.replay),
         DeciderNow' = DeciderAfterStep(DeciderNow, CodeNow, workflow, mutable_marker_results, batch.replay),
         CodeNow' = CodeAfterStep(CodeNow, workflow, mutable_marker_results, batch.replay)
  PROVE  Now' = Succ(Now, Polled, workflow)
<1>1. phase = "loop"
  BY DEF Working, AtWork, Inv, TasksInv
<1>2. UNCHANGED <<phase, at, batch>>
  BY DEF Quiet, replayVars
<1>3. Now' = AfterStep(Now, workflow)
  BY <1>1, <1>2, NowHas, Zenon DEF Now, AfterStep
<1> QED BY <1>1, <1>3, NowHas, CodeNowHas, WorkingIs, SuccIs

\* The running task stands at an operation.
LEMMA RunsIs ==
  ASSUME Working, NEW ops, NEW e, Runs(ops, e)
  PROVE  /\ Stands(CodeNow, workflow)
         /\ running # 0 /\ running \in DOMAIN task /\ IsTask(task[running])
         /\ CodeNow.running = running /\ CodeNow.task = TasksNow
         /\ TasksNow[running] = Bare(task[running]) /\ OpIn(workflow, TasksNow[running]) = Op(running)
         /\ Op(running).op \in ops
         /\ TasksNow[running].entered = e
         /\ TasksNow[running].fired = task[running].fired
         /\ TasksNow[running].result = task[running].result
         /\ TasksNow[running].name = task[running].name
         /\ TasksNow[running].pc = task[running].pc
         /\ PlaceIn(CodeNow) = Place
<1>1. /\ running # 0 /\ running \in DOMAIN task
      /\ task[running].name \in DOMAIN workflow.handler \cup {"main"}
      /\ task[running].pc <= Len(CodeOf(running)) /\ Op(running).op \in ops
      /\ task[running].entered = e
  BY RunsAt DEF Working
<1>2. IsTask(task[running])
  BY <1>1 DEF Working, Inv, TasksInv
<1>3. /\ TasksNow[running] = Bare(task[running])
      /\ CodeIn(workflow, TasksNow[running]) = CodeOf(running)
      /\ OpIn(workflow, TasksNow[running]) = Op(running)
  BY <1>1, OpIs DEF Working
<1>4. /\ TasksNow[running].entered = task[running].entered /\ TasksNow[running].fired = task[running].fired
      /\ TasksNow[running].result = task[running].result /\ TasksNow[running].name = task[running].name
      /\ TasksNow[running].pc = task[running].pc
  BY <1>3, BareHas
<1>5. CodeNow.running = running /\ CodeNow.task = TasksNow
  BY CodeNowHas
<1>6. Stands(CodeNow, workflow)
  BY <1>1, <1>3, <1>4, <1>5, Zenon DEF Stands, HasCode
<1>7. PlaceIn(CodeNow) = Place
  BY <1>4, <1>5, Zenon DEF PlaceIn, Place
<1> QED BY <1>1, <1>2, <1>3, <1>4, <1>5, <1>6, <1>7

\* The running task enters its operation.
LEMMA EnterIs ==
  ASSUME Inv, running \in DOMAIN task, NEW id, Enter(id), UNCHANGED <<tasks, ready, quota, flags, log>>
  PROVE  /\ CodeNow' = Entering(CodeNow, running')
         /\ IdsNow' = WithId(DeciderNow, CodeNow, id)
<1>1. TasksInv /\ IsTask(task[running]) /\ TasksNow[running] = Bare(task[running])
  BY TasksAre DEF Inv
<1>2. PICK r : r = [task[running] EXCEPT !.entered = TRUE]
  OBVIOUS
<1>3. PICK q : q = [r EXCEPT !.id = id]
  OBVIOUS
<1>4. IsTask(task[running]) /\ q = [task[running] EXCEPT !.entered = TRUE, !.id = id]
  BY <1>1, <1>2, <1>3
<1>5. task' = [task EXCEPT ![running] = q]
  BY <1>4 DEF Enter
<1>6. Bare(q) = [TasksNow[running] EXCEPT !.entered = TRUE] /\ q.id = id
  <2>1. Bare(r) = [Bare(task[running]) EXCEPT !.entered = TRUE]
    <3>1. Bare([task[running] EXCEPT !.entered = TRUE]) = [Bare(task[running]) EXCEPT !.entered = TRUE]
      BY <1>1, BareWith
    <3> QED BY <1>2, <3>1, Zenon
  <2>2. q = [task[running] EXCEPT !.entered = TRUE, !.id = id]
    BY <1>4
  <2>3. Bare(q) = Bare(r) /\ q.id = id
    BY <1>1, <1>2, <1>3 DEF IsTask, Bare
  <2> QED BY <1>1, <2>1, <2>3, Zenon
<1>7. TasksNow' = [TasksNow EXCEPT ![running] = Bare(q)] /\ IdsNow' = [IdsNow EXCEPT ![running] = q.id]
  BY <1>1, <1>5, TaskBecomesBare
<1>8. TasksNow' = [TasksNow EXCEPT ![running].entered = TRUE]
  <2>1. TasksNow' = [TasksNow EXCEPT ![running] = [TasksNow[running] EXCEPT !.entered = TRUE]]
    BY <1>6, <1>7, Zenon
  <2>2. [TasksNow EXCEPT ![running] = [TasksNow[running] EXCEPT !.entered = TRUE]]
          = [TasksNow EXCEPT ![running].entered = TRUE]
    OBVIOUS
  <2> QED BY <2>1, <2>2, Zenon
<1>9. CodeNow' = Entering(CodeNow, running')
  BY <1>8, CodeNowHas, Zenon DEF CodeNow, Entering
<1>10. IdsNow' = WithId(DeciderNow, CodeNow, id)
  BY <1>6, <1>7, CodeNowHas, DeciderNowHas, Zenon DEF WithId
<1> QED BY <1>9, <1>10

\* It leaves it.
LEMMA LeaveIs ==
  ASSUME Inv, running \in DOMAIN task, PlaceIn(CodeNow) = Place, NEW outcome, Leave(outcome),
         UNCHANGED <<tasks, ready, quota, running>>
  PROVE  /\ CodeNow' = Leaving(CodeNow, outcome, flags')
         /\ IdsNow' = WithId(DeciderNow, CodeNow, 0)
<1>1. TasksInv /\ IsTask(task[running]) /\ TasksNow[running] = Bare(task[running])
  BY TasksAre DEF Inv
<1>2. PICK q : q = [task[running] EXCEPT !.pc = @ + 1, !.entered = FALSE, !.awaited = "none",
                                      !.id = 0, !.fired = FALSE, !.result = "none"]
  OBVIOUS
<1>3. task' = [task EXCEPT ![running] = q]
  BY <1>2, Zenon DEF Leave
<1> DEFINE old == TasksNow[running]
           b == [name |-> old.name, pc |-> old.pc + 1, entered |-> FALSE, awaited |-> "none",
                 fired |-> FALSE, result |-> "none"]
<1>4. old.name = task[running].name /\ old.pc = task[running].pc
  BY <1>1, BareHas
<1>5. Bare(q) = b /\ q.id = 0
  <2> HIDE DEF old
  <2>1. /\ q.name = task[running].name /\ q.pc = task[running].pc + 1 /\ q.entered = FALSE
        /\ q.awaited = "none" /\ q.fired = FALSE /\ q.result = "none" /\ q.id = 0
    BY <1>1, <1>2 DEF IsTask
  <2>2. b = [name |-> q.name, pc |-> q.pc, entered |-> q.entered, awaited |-> q.awaited,
             fired |-> q.fired, result |-> q.result]
    BY <1>4, <2>1, Zenon DEF old
  <2> HIDE DEF b
  <2> QED BY <2>1, <2>2, Zenon DEF Bare
<1>6. TasksNow' = [TasksNow EXCEPT ![running] = Bare(q)] /\ IdsNow' = [IdsNow EXCEPT ![running] = q.id]
  BY <1>1, <1>3, TaskBecomesBare
<1>7. TasksNow' = [TasksNow EXCEPT ![running] =
          [name |-> @.name, pc |-> @.pc + 1, entered |-> FALSE, awaited |-> "none",
           fired |-> FALSE, result |-> "none"]]
  <2>1. TasksNow' = [TasksNow EXCEPT ![running] = b]
    BY <1>5, <1>6, Zenon
  <2> QED BY <2>1
<1>8. log' = Append(log, <<PlaceIn(CodeNow), outcome>>)
  BY DEF Leave
<1>9. CodeNow' = Leaving(CodeNow, outcome, flags')
  BY <1>7, <1>8, CodeNowHas, Zenon DEF CodeNow, Leaving
<1>10. IdsNow' = WithId(DeciderNow, CodeNow, 0)
  BY <1>5, <1>6, CodeNowHas, DeciderNowHas, Zenon DEF WithId
<1> QED BY <1>9, <1>10

\* A task that is done.
LEMMA DoneIs ==
  ASSUME Inv, running \in DOMAIN task
  PROVE  /\ task' = [task EXCEPT ![running].status = "DONE"] => TasksNow' = TasksNow /\ IdsNow' = IdsNow
         /\ task' = [task EXCEPT ![running].status = "DONE", ![running].id = 0] =>
              TasksNow' = TasksNow /\ IdsNow' = WithId(DeciderNow, CodeNow, 0)
<1>1. TasksInv /\ IsTask(task[running]) /\ TasksNow[running] = Bare(task[running])
      /\ TasksNow = [u \in DOMAIN task |-> TasksNow[u]]
  BY TasksAre DEF Inv, TasksNow
<1>2. ASSUME task' = [task EXCEPT ![running].status = "DONE", ![running].id = 0]
      PROVE  TasksNow' = TasksNow /\ IdsNow' = WithId(DeciderNow, CodeNow, 0)
  <2>1. PICK q : q = [task[running] EXCEPT !.status = "DONE", !.id = 0]
    OBVIOUS
  <2>2. task' = [task EXCEPT ![running] = q]
    BY <1>2, <2>1
  <2>3. Bare(q) = TasksNow[running] /\ q.id = 0
    BY <1>1, <2>1 DEF IsTask, Bare
  <2>4. TasksNow' = [TasksNow EXCEPT ![running] = Bare(q)] /\ IdsNow' = [IdsNow EXCEPT ![running] = q.id]
    BY <1>1, <2>2, TaskBecomesBare
  <2>5. [TasksNow EXCEPT ![running] = TasksNow[running]] = TasksNow
    <3> HIDE DEF TasksNow
    <3> QED BY <1>1
  <2>6. TasksNow' = TasksNow
    BY <2>3, <2>4, <2>5, Zenon
  <2>7. IdsNow' = WithId(DeciderNow, CodeNow, 0)
    BY <2>3, <2>4, CodeNowHas, DeciderNowHas, Zenon DEF WithId
  <2> QED BY <2>6, <2>7
<1> QED BY <1>1, <1>2, FieldChanges, Zenon

\* The event loop runs its next handle.
LEMMA StartHandleIs ==
  ASSUME Working, StartHandle
  PROVE  Now' = Succ(Now, Polled, workflow)
<1>1. /\ running = 0 /\ quota > 0 /\ running' = Head(ready) /\ ready' = Tail(ready)
      /\ quota' = quota - 1 /\ task' = [task EXCEPT ![running'].status = "RUNNING"]
      /\ UNCHANGED deciderVars /\ UNCHANGED <<tasks, flags, log>>
      /\ UNCHANGED <<phase, at, batch>> /\ phase = "loop"
  BY DEF StartHandle, Quiet, replayVars, Working, AtWork
<1>2. running' \in DOMAIN task /\ TasksInv
  <2>1. TasksInv /\ Len(ready) \in Nat /\ Len(ready) > 0
    BY <1>1, SequenceIs DEF Working, Inv, TasksInv
  <2>2. Head(ready) = ready[1]
    BY <2>1 DEF TasksInv, IsSequence
  <2>3. 1 \in 1..Len(ready) /\ ToSet(ready) \subseteq DOMAIN task /\ IsSequence(ready)
    BY <2>1 DEF TasksInv
  <2>4. ready[1] \in ToSet(ready)
    BY <2>3, SequenceIs
  <2> QED BY <1>1, <2>1, <2>2, <2>3, <2>4
<1>3. TasksNow' = TasksNow /\ IdsNow' = IdsNow
  <2>1. PICK t : t = running'
    OBVIOUS
  <2>2. task' = [task EXCEPT ![t].status = "RUNNING"]
    BY <1>1, <2>1, Zenon
  <2> QED BY <1>2, <2>1, <2>2, FieldChanges
<1>4. CodeNow.running = 0 /\ CodeNow.quota = quota
  BY <1>1, CodeNowHas
<1>5. CodeNow' = Starting(CodeNow)
  BY <1>1, <1>3, CodeNowHas, Zenon DEF CodeNow, Starting
<1>6. DeciderNow' = DeciderNow /\ mutable_marker_results' = mutable_marker_results
  BY <1>1, <1>3, Unchanged
<1>7. ~Asks(CodeNow, workflow)
  BY <1>4 DEF Asks, Stands
<1>8. Now' = AfterStep(Now, workflow)
  BY <1>1, <1>4, <1>5, <1>6, <1>7, NowHas, Zenon
     DEF Now, AfterStep, CodeAfterStep, DeciderAfterStep, MarkersAfterStep
<1>9. ~(quota = 0)
  BY <1>1
<1> QED BY <1>1, <1>4, <1>8, <1>9, NowHas, WorkingIs, SuccIs

\* The operations that schedule something.
LEMMA SchedulesIs ==
  ASSUME Working, schedule_activity_task \/ schedule_timer \/ (EnterAwait /\ Op(running).op = "await_timeout")
  PROVE  Now' = Succ(Now, Polled, workflow)
<1> DEFINE id == next_decision_event_id
           entry(target) == Entry(target, id, id_counter, Place)
<1>1. PICK target, ops :
        /\ Runs(ops, FALSE)
        /\ \/ target = "ACTIVITY" /\ ops = {"activity"}
           \/ target = "TIMER" /\ ops \in {{"sleep"}, {"await_timeout"}}
        /\ add_decision(entry(target)) /\ id_counter' = id_counter + 1
        /\ scheduled_activities' = IF target = "ACTIVITY" THEN With(scheduled_activities, id, running)
                                   ELSE scheduled_activities
        /\ scheduled_timers' = IF target = "TIMER" THEN With(scheduled_timers, id, running)
                               ELSE scheduled_timers
        /\ Enter(id) /\ running' = (IF ops = {"await_timeout"} THEN running ELSE 0)
        /\ UNCHANGED <<mutable_marker_results, completed, tasks, ready, quota, flags, log>>
        /\ Quiet
  <2>1. CASE schedule_activity_task
    <3>1. {"activity"} # {"await_timeout"}
      OBVIOUS
    <3>2. /\ Runs({"activity"}, FALSE)
          /\ add_decision(entry("ACTIVITY")) /\ id_counter' = id_counter + 1
          /\ scheduled_activities' = With(scheduled_activities, id, running)
          /\ scheduled_timers' = scheduled_timers
          /\ Enter(id) /\ running' = 0
          /\ UNCHANGED <<mutable_marker_results, completed, tasks, ready, quota, flags, log>>
          /\ Quiet
      BY <2>1 DEF schedule_activity_task
    <3>3. "ACTIVITY" # "TIMER"
      OBVIOUS
    <3> QED BY <3>1, <3>2, <3>3, Zenon
  <2>2. CASE schedule_timer
    <3>1. {"sleep"} # {"await_timeout"}
      OBVIOUS
    <3>2. /\ Runs({"sleep"}, FALSE)
          /\ add_decision(entry("TIMER")) /\ id_counter' = id_counter + 1
          /\ scheduled_activities' = scheduled_activities
          /\ scheduled_timers' = With(scheduled_timers, id, running)
          /\ Enter(id) /\ running' = 0
          /\ UNCHANGED <<mutable_marker_results, completed, tasks, ready, quota, flags, log>>
          /\ Quiet
      BY <2>2 DEF schedule_timer, create_timer
    <3>3. "ACTIVITY" # "TIMER" /\ {"sleep"} \in {{"sleep"}, {"await_timeout"}}
      OBVIOUS
    <3> QED BY <3>1, <3>2, <3>3, Zenon
  <2>3. CASE EnterAwait /\ Op(running).op = "await_timeout"
    <3>1. /\ Runs({"await_timeout"}, FALSE)
          /\ add_decision(entry("TIMER")) /\ id_counter' = id_counter + 1
          /\ scheduled_activities' = scheduled_activities
          /\ scheduled_timers' = With(scheduled_timers, id, running)
          /\ Enter(id) /\ running' = running
          /\ UNCHANGED <<mutable_marker_results, completed, tasks, ready, quota, flags, log>>
          /\ Quiet
      BY <2>3 DEF EnterAwait, create_timer, Runs
    <3>2. "ACTIVITY" # "TIMER" /\ {"await_timeout"} \in {{"sleep"}, {"await_timeout"}}
      OBVIOUS
    <3> QED BY <3>1, <3>2, Zenon
  <2> QED BY <2>1, <2>2, <2>3
<1>2. /\ Stands(CodeNow, workflow) /\ running # 0 /\ running \in DOMAIN task
      /\ CodeNow.running = running /\ CodeNow.task = TasksNow
      /\ OpIn(workflow, TasksNow[running]) = Op(running) /\ Op(running).op \in ops
      /\ ~TasksNow[running].entered /\ PlaceIn(CodeNow) = Place
  BY <1>1, RunsIs
<1> DEFINE o == Op(running)
<1>3. /\ CodeAfterStep(CodeNow, workflow, mutable_marker_results, batch.replay)
           = CodeBegins(CodeNow, o, mutable_marker_results, batch.replay)
      /\ DeciderAfterStep(DeciderNow, CodeNow, workflow, mutable_marker_results, batch.replay)
           = DeciderBegins(DeciderNow, CodeNow, o, mutable_marker_results, batch.replay)
      /\ o.op # "get_version" =>
           MarkersAfterStep(CodeNow, workflow, mutable_marker_results, batch.replay) = mutable_marker_results
  BY <1>2, StandsNow, Zenon
<1>4. o.op \in {"activity", "sleep", "await_timeout"} /\ (o.op = "activity" <=> target = "ACTIVITY")
      /\ (o.op = "await_timeout" <=> ops = {"await_timeout"})
  BY <1>1, <1>2
<1>5. /\ CodeNow' = Entering(CodeNow, running')
      /\ IdsNow' = WithId(DeciderNow, CodeNow, id)
  BY <1>1, <1>2, EnterIs DEF Working
<1>6. CodeBegins(CodeNow, o, mutable_marker_results, batch.replay) = Entering(CodeNow, running')
  BY <1>1, <1>2, <1>4 DEF CodeBegins
<1>7. DeciderNow' = Deciding(DeciderNow, entry(target), id_counter', scheduled_activities',
                             scheduled_timers', IdsNow', completed')
  BY <1>1, AddsIs, Zenon
<1>8. DeciderBegins(DeciderNow, CodeNow, o, mutable_marker_results, batch.replay) = DeciderNow'
  <2>1. CASE target = "ACTIVITY"
    <3>1. o.op = "activity" /\ target # "TIMER"
      BY <1>4, <2>1
    <3>2. DeciderNow' = Scheduling(DeciderNow, CodeNow)
      BY <1>1, <1>2, <1>5, <1>7, <2>1, <3>1, DeciderNowHas, Zenon DEF Scheduling
    <3> QED BY <3>1, <3>2 DEF DeciderBegins
  <2>2. CASE target # "ACTIVITY"
    <3>1. target = "TIMER" /\ o.op \in {"sleep", "await_timeout"}
      BY <1>1, <1>4, <2>2
    <3>2. DeciderNow' = Timing(DeciderNow, CodeNow)
      BY <1>1, <1>2, <1>5, <1>7, <2>2, <3>1, DeciderNowHas, Zenon DEF Timing
    <3> QED BY <3>1, <3>2 DEF DeciderBegins
  <2> QED BY <2>1, <2>2
<1>9. o.op # "get_version"
  BY <1>4
<1> QED BY <1>1, <1>2, <1>3, <1>5, <1>6, <1>8, <1>9, StepIs, Zenon

\* An await without a timeout.
LEMMA EnterAwaitIs ==
  ASSUME Working, EnterAwait
  PROVE  Now' = Succ(Now, Polled, workflow)
<1>1. CASE Op(running).op = "await_timeout"
  BY <1>1, SchedulesIs
<1>2. CASE Op(running).op # "await_timeout"
  <2>1. /\ Runs({"await", "await_failing"}, FALSE) /\ Enter(0) /\ UNCHANGED deciderVars
        /\ UNCHANGED <<tasks, ready, quota, running, flags, log>> /\ Quiet
    BY <1>2 DEF EnterAwait, Runs
  <2>2. /\ Stands(CodeNow, workflow) /\ running # 0 /\ running \in DOMAIN task
        /\ CodeNow.running = running /\ CodeNow.task = TasksNow
        /\ OpIn(workflow, TasksNow[running]) = Op(running)
        /\ Op(running).op \in {"await", "await_failing"}
        /\ ~TasksNow[running].entered
    BY <2>1, RunsIs
  <2> DEFINE o == Op(running)
  <2>3. /\ CodeAfterStep(CodeNow, workflow, mutable_marker_results, batch.replay)
             = CodeBegins(CodeNow, o, mutable_marker_results, batch.replay)
        /\ DeciderAfterStep(DeciderNow, CodeNow, workflow, mutable_marker_results, batch.replay)
             = DeciderBegins(DeciderNow, CodeNow, o, mutable_marker_results, batch.replay)
        /\ o.op # "get_version" =>
             MarkersAfterStep(CodeNow, workflow, mutable_marker_results, batch.replay) = mutable_marker_results
    BY <2>2, StandsNow, Zenon
  <2>4. CodeNow' = Entering(CodeNow, running') /\ IdsNow' = WithId(DeciderNow, CodeNow, 0)
    BY <2>1, <2>2, EnterIs DEF Working
  <2>5. CodeBegins(CodeNow, o, mutable_marker_results, batch.replay) = Entering(CodeNow, running')
    BY <2>1, <2>2 DEF CodeBegins
  <2>6. DeciderBegins(DeciderNow, CodeNow, o, mutable_marker_results, batch.replay)
          = Moving(DeciderNow, WithId(DeciderNow, CodeNow, 0))
    BY <2>2 DEF DeciderBegins
  <2>7. DeciderNow' = Moving(DeciderNow, WithId(DeciderNow, CodeNow, 0))
        /\ mutable_marker_results' = mutable_marker_results
    BY <2>1, <2>4, DeciderNowHas, Zenon DEF deciderVars, DeciderNow, Moving
  <2>8. o.op # "get_version"
    BY <2>2
  <2> QED BY <2>1, <2>2, <2>3, <2>4, <2>5, <2>6, <2>7, <2>8, StepIs, Zenon
<1> QED BY <1>1, <1>2

\* The running task goes on to its next operation.
LEMMA FutureDoneIs ==
  ASSUME Working, FutureDone
  PROVE  Now' = Succ(Now, Polled, workflow)
<1>1. /\ Runs({"activity", "sleep"}, TRUE) /\ task[running].result = "ok" /\ Leave("ok")
      /\ UNCHANGED deciderVars /\ UNCHANGED <<tasks, ready, quota, running, flags>> /\ Quiet
  BY Zenon DEF FutureDone
<1>2. /\ Stands(CodeNow, workflow) /\ running # 0 /\ running \in DOMAIN task
      /\ CodeNow.running = running /\ CodeNow.task = TasksNow
      /\ OpIn(workflow, TasksNow[running]) = Op(running)
      /\ Op(running).op \in {"activity", "sleep"}
      /\ TasksNow[running].entered /\ TasksNow[running].result = "ok" /\ PlaceIn(CodeNow) = Place
  BY <1>1, RunsIs
<1> DEFINE o == Op(running)
<1>3. /\ CodeAfterStep(CodeNow, workflow, mutable_marker_results, batch.replay) = CodeGoesOn(CodeNow, o)
      /\ DeciderAfterStep(DeciderNow, CodeNow, workflow, mutable_marker_results, batch.replay)
           = DeciderGoesOn(DeciderNow, CodeNow, o)
      /\ MarkersAfterStep(CodeNow, workflow, mutable_marker_results, batch.replay) = mutable_marker_results
  BY <1>2, StandsNow, Zenon
<1>4. CodeNow' = Leaving(CodeNow, "ok", flags) /\ IdsNow' = WithId(DeciderNow, CodeNow, 0)
  BY <1>1, <1>2, LeaveIs, Zenon DEF Working
<1>5. CodeGoesOn(CodeNow, o) = Leaving(CodeNow, "ok", flags)
  BY <1>2, CodeNowHas DEF CodeGoesOn
<1>6. DeciderGoesOn(DeciderNow, CodeNow, o) = Moving(DeciderNow, WithId(DeciderNow, CodeNow, 0))
  BY <1>2 DEF DeciderGoesOn
<1>7. DeciderNow' = Moving(DeciderNow, WithId(DeciderNow, CodeNow, 0))
      /\ mutable_marker_results' = mutable_marker_results
  BY <1>1, <1>4, DeciderNowHas, Zenon DEF deciderVars, DeciderNow, Moving
<1> QED BY <1>1, <1>2, <1>3, <1>4, <1>5, <1>6, <1>7, StepIs, Zenon

\* The code sets a flag.
LEMMA SetFlagIs ==
  ASSUME Working, SetFlag
  PROVE  Now' = Succ(Now, Polled, workflow)
<1>1. /\ Runs({"set"}, FALSE) /\ flags' = flags \cup {Op(running).arg} /\ Leave("set")
      /\ UNCHANGED deciderVars /\ UNCHANGED <<tasks, ready, quota, running>> /\ Quiet
  BY Zenon DEF SetFlag
<1>2. /\ Stands(CodeNow, workflow) /\ running # 0 /\ running \in DOMAIN task
      /\ CodeNow.running = running /\ CodeNow.task = TasksNow
      /\ OpIn(workflow, TasksNow[running]) = Op(running)
      /\ Op(running).op = "set"
      /\ ~TasksNow[running].entered /\ PlaceIn(CodeNow) = Place
  <2>1. Op(running).op \in {"set"}
    BY <1>1, RunsIs
  <2> QED BY <1>1, <2>1, RunsIs
<1> DEFINE o == Op(running)
<1>3. o.op # "get_version"
  BY <1>2
<1>4. /\ CodeAfterStep(CodeNow, workflow, mutable_marker_results, batch.replay)
           = CodeBegins(CodeNow, o, mutable_marker_results, batch.replay)
      /\ DeciderAfterStep(DeciderNow, CodeNow, workflow, mutable_marker_results, batch.replay)
           = DeciderBegins(DeciderNow, CodeNow, o, mutable_marker_results, batch.replay)
      /\ MarkersAfterStep(CodeNow, workflow, mutable_marker_results, batch.replay) = mutable_marker_results
  BY <1>2, <1>3, StandsNow, Zenon
<1>5. CodeNow' = Leaving(CodeNow, "set", flags') /\ IdsNow' = WithId(DeciderNow, CodeNow, 0)
  BY <1>1, <1>2, LeaveIs DEF Working
<1>6. CodeBegins(CodeNow, o, mutable_marker_results, batch.replay) = Leaving(CodeNow, "set", flags')
  BY <1>1, <1>2, CodeNowHas DEF CodeBegins
<1>7. DeciderBegins(DeciderNow, CodeNow, o, mutable_marker_results, batch.replay)
        = Moving(DeciderNow, WithId(DeciderNow, CodeNow, 0))
  BY <1>2 DEF DeciderBegins
<1>8. DeciderNow' = Moving(DeciderNow, WithId(DeciderNow, CodeNow, 0))
      /\ mutable_marker_results' = mutable_marker_results
  BY <1>1, <1>5, DeciderNowHas, Zenon DEF deciderVars, DeciderNow, Moving
<1> QED BY <1>1, <1>2, <1>4, <1>5, <1>6, <1>7, <1>8, StepIs, Zenon

\* The code asks for a version.
LEMMA GetVersionIs ==
  ASSUME Working, get_version
  PROVE  Now' = Succ(Now, Polled, workflow)
<1> DEFINE o == Op(running)
           change == o.arg
           markers == mutable_marker_results
           replay == batch.replay
           known == change \in DOMAIN markers
<1>1. /\ Runs({"get_version"}, FALSE)
      /\ UNCHANGED <<id_counter, scheduled_activities, scheduled_timers, completed>>
      /\ UNCHANGED <<tasks, ready, quota, running>> /\ flags' = flags /\ Quiet
  BY Zenon DEF get_version
<1>2. Leave(Learns(markers, change, replay))
  BY Zenon DEF get_version, Learns
<1>3. \/ /\ Records(markers, change, replay)
         /\ record_mutable_marker(change, VersionRecorded(markers, change))
      \/ /\ ~Records(markers, change, replay)
         /\ UNCHANGED <<decisions, next_decision_event_id>>
         /\ markers' = MarkersAsked(markers, change, replay)
  <2>1. CASE known
    <3>1. IF RecordsAgain(markers[change])
          THEN record_mutable_marker(change, markers[change].data)
          ELSE UNCHANGED <<decisions, next_decision_event_id, mutable_marker_results>>
      BY <2>1, Zenon DEF get_version
    <3>2. Records(markers, change, replay) <=> RecordsAgain(markers[change])
      BY <2>1, Zenon DEF Records, RecordsAgain
    <3>3. VersionRecorded(markers, change) = markers[change].data
      BY <2>1, Zenon DEF VersionRecorded
    <3>4. ~Records(markers, change, replay) => MarkersAsked(markers, change, replay) = markers
      BY <2>1, Zenon DEF MarkersAsked
    <3> QED BY <3>1, <3>2, <3>3, <3>4, Zenon
  <2>2. CASE ~known /\ replay
    <3>1. /\ markers' = With(markers, change, [data |-> DEFAULT_VERSION, replayed |-> TRUE])
          /\ UNCHANGED <<decisions, next_decision_event_id>>
      BY <2>2, Zenon DEF get_version
    <3>2. ~Records(markers, change, replay)
      BY <2>2, Zenon DEF Records
    <3> QED BY <2>2, <3>1, <3>2, Zenon DEF MarkersAsked
  <2>3. CASE ~known /\ ~replay
    <3>1. record_mutable_marker(change, MAX_SUPPORTED)
      BY <2>3, Zenon DEF get_version
    <3>2. Records(markers, change, replay) /\ VersionRecorded(markers, change) = MAX_SUPPORTED
      BY <2>3, Zenon DEF Records, VersionRecorded
    <3> QED BY <3>1, <3>2, Zenon
  <2> QED BY <2>1, <2>2, <2>3
<1>4. /\ Stands(CodeNow, workflow) /\ running # 0 /\ running \in DOMAIN task
      /\ CodeNow.running = running /\ CodeNow.task = TasksNow
      /\ OpIn(workflow, TasksNow[running]) = o
      /\ o.op = "get_version"
      /\ ~TasksNow[running].entered /\ PlaceIn(CodeNow) = Place
  <2>1. Op(running).op \in {"get_version"}
    BY <1>1, RunsIs
  <2> QED BY <1>1, <2>1, RunsIs
<1>5. /\ CodeAfterStep(CodeNow, workflow, markers, replay) = CodeBegins(CodeNow, o, markers, replay)
      /\ DeciderAfterStep(DeciderNow, CodeNow, workflow, markers, replay)
           = DeciderBegins(DeciderNow, CodeNow, o, markers, replay)
      /\ MarkersAfterStep(CodeNow, workflow, markers, replay) = MarkersAsked(markers, change, replay)
  BY <1>4, StandsNow
<1>6. CodeNow' = Leaving(CodeNow, Learns(markers, change, replay), flags')
      /\ IdsNow' = WithId(DeciderNow, CodeNow, 0)
  BY <1>1, <1>2, <1>4, LeaveIs DEF Working
<1>7. CodeBegins(CodeNow, o, markers, replay) = Leaving(CodeNow, Learns(markers, change, replay), flags')
  <2>1. flags' = CodeNow.flags
    BY <1>1, CodeNowHas
  <2> QED BY <1>4, <2>1 DEF CodeBegins
<1>8. DeciderBegins(DeciderNow, CodeNow, o, markers, replay)
        = IF Records(markers, change, replay) THEN Recording(DeciderNow, CodeNow, markers, change)
          ELSE Moving(DeciderNow, WithId(DeciderNow, CodeNow, 0))
  BY <1>4 DEF DeciderBegins
<1>9. CASE Records(markers, change, replay)
  <2>1. /\ add_decision(Entry("MARKER", next_decision_event_id, VersionRecorded(markers, change), change))
        /\ markers' = With(markers, change, [data |-> VersionRecorded(markers, change), replayed |-> known])
    BY <1>3, <1>9, Zenon DEF record_mutable_marker
  <2>2. DeciderNow' = Recording(DeciderNow, CodeNow, markers, change)
    <3>1. DeciderNow' = Deciding(DeciderNow,
                Entry("MARKER", next_decision_event_id, VersionRecorded(markers, change), change),
                id_counter', scheduled_activities', scheduled_timers', IdsNow', completed')
      BY <2>1, AddsIs, Zenon
    <3> QED BY <1>1, <1>6, <3>1, DeciderNowHas, Zenon DEF Recording
  <2>3. markers' = MarkersAsked(markers, change, replay)
    BY <1>9, <2>1, Zenon DEF MarkersAsked
  <2> QED BY <1>1, <1>4, <1>5, <1>6, <1>7, <1>8, <1>9, <2>2, <2>3, StepIs, Zenon
<1>10. CASE ~Records(markers, change, replay)
  <2>1. UNCHANGED <<decisions, next_decision_event_id>> /\ markers' = MarkersAsked(markers, change, replay)
    BY <1>3, <1>10
  <2>2. DeciderNow' = Moving(DeciderNow, WithId(DeciderNow, CodeNow, 0))
    BY <1>1, <1>6, <2>1, DeciderNowHas, Zenon DEF DeciderNow, Moving
  <2> QED BY <1>1, <1>4, <1>5, <1>6, <1>7, <1>8, <1>10, <2>1, <2>2, StepIs, Zenon
<1> QED BY <1>9, <1>10

\* An exception leaves the code.
LEMMA RaisesIs ==
  ASSUME Working, FutureFailed \/ AwaitRaises
  PROVE  Now' = Succ(Now, Polled, workflow)
<1>1. PICK ops, outcome :
        /\ \/ ops = {"activity", "sleep"} /\ outcome = "failed" /\ task[running].result = "failed"
           \/ ops = {"await_failing"} /\ outcome = "raised" /\ Op(running).arg \in flags
        /\ Runs(ops, TRUE) /\ CodeRaises(outcome)
  BY Zenon DEF FutureFailed, AwaitRaises
<1>2. /\ Stands(CodeNow, workflow) /\ running # 0 /\ running \in DOMAIN task
      /\ CodeNow.running = running /\ CodeNow.task = TasksNow
      /\ OpIn(workflow, TasksNow[running]) = Op(running) /\ Op(running).op \in ops
      /\ TasksNow[running].entered /\ TasksNow[running].result = task[running].result
      /\ TasksNow[running].name = task[running].name /\ PlaceIn(CodeNow) = Place
  BY <1>1, RunsIs
<1> DEFINE o == Op(running)
<1>3. /\ CodeAfterStep(CodeNow, workflow, mutable_marker_results, batch.replay) = CodeGoesOn(CodeNow, o)
      /\ DeciderAfterStep(DeciderNow, CodeNow, workflow, mutable_marker_results, batch.replay)
           = DeciderGoesOn(DeciderNow, CodeNow, o)
      /\ MarkersAfterStep(CodeNow, workflow, mutable_marker_results, batch.replay) = mutable_marker_results
  BY <1>2, StandsNow, Zenon
<1>4. /\ task' = [task EXCEPT ![running].status = "DONE", ![running].id = 0]
      /\ log' = Append(log, <<Place, outcome>>) /\ running' = 0
      /\ UNCHANGED <<id_counter, scheduled_activities, scheduled_timers>>
      /\ UNCHANGED <<mutable_marker_results, tasks, ready, quota, flags>> /\ Quiet
  BY <1>1, Zenon DEF CodeRaises
<1>5. IF task[running].name = "main" THEN close_workflow_execution("FailWorkflowExecution")
      ELSE UNCHANGED <<decisions, next_decision_event_id, completed>>
  BY <1>1, Zenon DEF CodeRaises
<1>6. TasksNow' = TasksNow /\ IdsNow' = WithId(DeciderNow, CodeNow, 0)
  BY <1>2, <1>4, DoneIs DEF Working
<1>7. CodeNow' = Raising(CodeNow, outcome)
  BY <1>2, <1>4, <1>6, CodeNowHas, Zenon DEF CodeNow, Raising
<1>8. DeciderNow' = DeciderRaises(DeciderNow, CodeNow)
  <2>1. CASE task[running].name = "main"
    <3>1. DeciderNow' = Closing(DeciderNow, "FailWorkflowExecution", IdsNow')
      BY <1>4, <1>5, <2>1, ClosesIs, Zenon
    <3> QED BY <1>2, <1>6, <2>1, <3>1, Zenon DEF DeciderRaises
  <2>2. CASE task[running].name # "main"
    <3>1. DeciderNow' = Moving(DeciderNow, IdsNow')
      BY <1>4, <1>5, <2>2, DeciderNowHas, Zenon DEF DeciderNow, Moving
    <3> QED BY <1>2, <1>6, <2>2, <3>1, Zenon DEF DeciderRaises
  <2> QED BY <2>1, <2>2
<1>9. CodeGoesOn(CodeNow, o) = Raising(CodeNow, outcome)
      /\ DeciderGoesOn(DeciderNow, CodeNow, o) = DeciderRaises(DeciderNow, CodeNow)
  <2>1. CASE ops = {"activity", "sleep"} /\ outcome = "failed" /\ task[running].result = "failed"
    BY <1>2, <2>1 DEF CodeGoesOn, DeciderGoesOn
  <2>2. CASE ops = {"await_failing"} /\ outcome = "raised" /\ Op(running).arg \in flags
    BY <1>2, <2>2, CodeNowHas DEF CodeGoesOn, DeciderGoesOn
  <2> QED BY <1>1, <2>1, <2>2
<1> QED BY <1>2, <1>3, <1>4, <1>7, <1>8, <1>9, StepIs, Zenon

\* The condition does not hold yet.
LEMMA BlocksIs ==
  ASSUME Working, AwaitBlocks
  PROVE  Now' = Succ(Now, Polled, workflow)
<1>1. /\ Runs({"await", "await_timeout", "await_failing"}, TRUE)
      /\ Op(running).arg \notin flags /\ ~task[running].fired
      /\ task' = [task EXCEPT ![running].awaited = "pending"] /\ running' = 0
      /\ UNCHANGED deciderVars /\ UNCHANGED <<tasks, ready, quota, flags, log>> /\ Quiet
  BY Zenon DEF AwaitBlocks
<1>2. /\ Stands(CodeNow, workflow) /\ running # 0 /\ running \in DOMAIN task
      /\ CodeNow.running = running /\ CodeNow.task = TasksNow
      /\ OpIn(workflow, TasksNow[running]) = Op(running)
      /\ Op(running).op \in {"await", "await_timeout", "await_failing"}
      /\ TasksNow[running].entered /\ TasksNow[running].fired = task[running].fired
  BY <1>1, RunsIs
<1> DEFINE o == Op(running)
<1>3. /\ CodeAfterStep(CodeNow, workflow, mutable_marker_results, batch.replay) = CodeGoesOn(CodeNow, o)
      /\ DeciderAfterStep(DeciderNow, CodeNow, workflow, mutable_marker_results, batch.replay)
           = DeciderGoesOn(DeciderNow, CodeNow, o)
      /\ MarkersAfterStep(CodeNow, workflow, mutable_marker_results, batch.replay) = mutable_marker_results
  BY <1>2, StandsNow, Zenon
<1>4. TasksNow' = [TasksNow EXCEPT ![running].awaited = "pending"] /\ IdsNow' = IdsNow
  BY <1>1, <1>2, FieldChanges DEF Working, Inv
<1>5. CodeNow' = Blocking(CodeNow)
  BY <1>1, <1>4, CodeNowHas, Zenon DEF CodeNow, Blocking
<1>6. DeciderNow' = DeciderNow /\ mutable_marker_results' = mutable_marker_results
  BY <1>1, <1>4, Unchanged
<1>7. CodeGoesOn(CodeNow, o) = Blocking(CodeNow) /\ DeciderGoesOn(DeciderNow, CodeNow, o) = DeciderNow
  BY <1>1, <1>2, CodeNowHas DEF CodeGoesOn, DeciderGoesOn
<1> QED BY <1>1, <1>2, <1>3, <1>5, <1>6, <1>7, StepIs, Zenon

\* The await returns, and withdraws its timer.
LEMMA AwaitReturnsIs ==
  ASSUME Working, AwaitReturns
  PROVE  Now' = Succ(Now, Polled, workflow)
<1> DEFINE o == Op(running)
           r == TasksNow[running]
           outcome == AwaitOutcome(task[running].fired)
           left == WithId(DeciderNow, CodeNow, 0)
<1>1. /\ Runs({"await", "await_timeout"}, TRUE)
      /\ o.arg \in flags \/ task[running].fired
      /\ IF task[running].fired \/ task[running].id = 0
         THEN UNCHANGED <<decisions, scheduled_timers, next_decision_event_id>>
         ELSE cancel_timer(task[running].id)
      /\ Leave(outcome)
      /\ UNCHANGED <<id_counter, scheduled_activities, completed>>
      /\ mutable_marker_results' = mutable_marker_results
      /\ UNCHANGED <<tasks, ready, quota, running>> /\ flags' = flags /\ Quiet
  BY Zenon DEF AwaitReturns
<1>2. /\ Stands(CodeNow, workflow) /\ running # 0 /\ running \in DOMAIN task
      /\ CodeNow.running = running /\ CodeNow.task = TasksNow
      /\ OpIn(workflow, r) = o
      /\ o.op \in {"await", "await_timeout"}
      /\ r.entered /\ r.fired = task[running].fired /\ PlaceIn(CodeNow) = Place
  BY <1>1, RunsIs
<1>3. /\ CodeAfterStep(CodeNow, workflow, mutable_marker_results, batch.replay) = CodeGoesOn(CodeNow, o)
      /\ DeciderAfterStep(DeciderNow, CodeNow, workflow, mutable_marker_results, batch.replay)
           = DeciderGoesOn(DeciderNow, CodeNow, o)
      /\ MarkersAfterStep(CodeNow, workflow, mutable_marker_results, batch.replay) = mutable_marker_results
  BY <1>2, StandsNow, Zenon
<1>4. CodeNow' = Leaving(CodeNow, outcome, flags) /\ IdsNow' = left
  BY <1>1, <1>2, LeaveIs, Zenon DEF Working
<1>5. CodeNow.flags = flags
  BY CodeNowHas
<1> HIDE DEF left, outcome
<1>6. CodeGoesOn(CodeNow, o) = Leaving(CodeNow, outcome, flags)
  BY <1>1, <1>2, <1>5 DEF CodeGoesOn, outcome
<1>7. DeciderGoesOn(DeciderNow, CodeNow, o)
        = IF task[running].fired THEN Moving(DeciderNow, left) ELSE Canceling(DeciderNow, CodeNow)
  BY <1>1, <1>2, <1>5 DEF DeciderGoesOn, left
<1>8. DeciderNow.ids[CodeNow.running] = task[running].id /\ DeciderNow.decisions = decisions
      /\ DeciderNow.next = next_decision_event_id /\ DeciderNow.timers = scheduled_timers
  <2>1. IdsNow[running] = task[running].id
    BY <1>2, TasksAre DEF Working, Inv
  <2> QED BY <1>2, <2>1, DeciderNowHas
<1> DEFINE id == task[running].id
           k == IndexOf(decisions, "TIMER", id)
           m == decisions[k].machine
<1>9. CASE task[running].fired \/ id = 0 \/ is_done(m)
  <2>1. UNCHANGED <<decisions, scheduled_timers, next_decision_event_id>>
    BY <1>1, <1>9, Zenon DEF cancel_timer
  <2>2. DeciderNow' = Moving(DeciderNow, left)
    BY <1>1, <1>4, <2>1, DeciderNowHas, Zenon DEF DeciderNow, Moving
  <2>3. id = 0 \/ is_done(m) => Canceling(DeciderNow, CodeNow) = Moving(DeciderNow, left)
    BY <1>8, Zenon DEF Canceling, left
  <2>4. DeciderGoesOn(DeciderNow, CodeNow, o) = Moving(DeciderNow, left)
    BY <1>7, <1>9, <2>3, Zenon
  <2> QED BY <1>1, <1>2, <1>3, <1>4, <1>6, <2>2, <2>4, StepIs, Zenon
<1>10. CASE ~task[running].fired /\ id # 0 /\ ~is_done(m)
  <2>1. /\ decisions' = [decisions EXCEPT ![k].machine = cancel(m)]
        /\ scheduled_timers' = Pop(scheduled_timers, id)
        /\ next_decision_event_id' = next_decision_event_id + IdsToCancel(m)
    BY <1>1, <1>10, Zenon DEF cancel_timer, timer_cancelled
  <2>2. Canceling(DeciderNow, CodeNow)
          = Decider(DeciderNow.next + IdsToCancel(m), DeciderNow.counter,
                    [decisions EXCEPT ![k].machine = cancel(m)],
                    DeciderNow.activities, Pop(DeciderNow.timers, id), left, DeciderNow.completed)
    BY <1>8, <1>10, Zenon DEF Canceling, left
  <2>3. DeciderNow' = Canceling(DeciderNow, CodeNow)
    <3> HIDE DEF id, k, m
    <3> QED BY <1>1, <1>4, <1>8, <2>1, <2>2, DeciderNowHas, Zenon DEF DeciderNow
  <2> QED BY <1>1, <1>2, <1>3, <1>4, <1>6, <1>7, <1>10, <2>3, StepIs, Zenon
<1> QED BY <1>9, <1>10

\* A task that returns, or has no code at all.
LEMMA ReturnsIs ==
  ASSUME Working, MainReturns \/ SignalReturns \/ UnknownSignal \/ QueryReturns
  PROVE  Now' = Succ(Now, Polled, workflow) /\ ~Stands(CodeNow, workflow)
<1>1. /\ running # 0 /\ task' = [task EXCEPT ![running].status = "DONE"] /\ running' = 0
      /\ UNCHANGED <<id_counter, scheduled_activities, scheduled_timers>>
      /\ UNCHANGED <<mutable_marker_results, ready, quota, flags, log>> /\ Quiet
  BY DEF MainReturns, SignalReturns, UnknownSignal, QueryReturns, Returns, deciderVars
<1> DEFINE r == TasksNow[running]
<1>2. /\ running \in DOMAIN task
      /\ r = Bare(task[running]) /\ CodeIn(workflow, r) = CodeOf(running)
      /\ CodeNow.running = running /\ CodeNow.task = TasksNow /\ CodeNow.tasks = tasks
  <2>1. running \in DOMAIN task
    BY <1>1, RunningThread DEF Working
  <2> QED BY <2>1, OpIs, CodeNowHas DEF Working
<1>3. r.name = task[running].name /\ r.pc = task[running].pc
  BY <1>2, BareHas
<1>4. TasksNow' = TasksNow /\ IdsNow' = IdsNow
  BY <1>1, <1>2, DoneIs DEF Working
<1>5. workflow \in Workflow /\ IsTask(task[running])
  BY <1>2 DEF Working, Inv, TasksInv
<1>6. HasCode(CodeNow, workflow) <=>
        (task[running].name = "main" \/ task[running].name \in DOMAIN workflow.handler)
  BY <1>2, <1>3, Zenon DEF HasCode
<1>7. ~Stands(CodeNow, workflow)
  <2>1. CASE MainReturns \/ SignalReturns
    <3>1. /\ task[running].pc > Len(CodeOf(running))
          /\ task[running].name = "main" \/ task[running].name \in DOMAIN workflow.handler
      BY <2>1 DEF MainReturns, SignalReturns, Returns
    <3>2. CodeOf(running) \in Seq(Operation)
      BY <1>5, <3>1, DeciderAssumption, Zenon DEF CodeOf
    <3>3. Len(CodeOf(running)) \in Nat /\ task[running].pc \in Nat
      BY <1>5, <3>2, LenProperties DEF IsTask
    <3>4. ~(task[running].pc <= Len(CodeOf(running)))
      BY <3>1, <3>3
    <3> QED BY <1>2, <1>3, <3>4, Zenon DEF Stands
  <2>2. CASE UnknownSignal \/ QueryReturns
    <3>1. task[running].name # "main" /\ task[running].name \notin DOMAIN workflow.handler
      BY <1>5, <2>2, DeciderAssumption DEF UnknownSignal, QueryReturns, OtherTasks
    <3> QED BY <1>6, <3>1, Zenon DEF Stands
  <2> QED BY <2>1, <2>2
<1>8. /\ CodeAfterStep(CodeNow, workflow, mutable_marker_results, batch.replay)
           = Ending(CodeNow, IF task[running].name # "main" /\ HasCode(CodeNow, workflow)
                             THEN Without(tasks, {running}) ELSE tasks)
      /\ DeciderAfterStep(DeciderNow, CodeNow, workflow, mutable_marker_results, batch.replay)
           = IF task[running].name = "main"
             THEN Closing(DeciderNow, "CompleteWorkflowExecution", DeciderNow.ids) ELSE DeciderNow
      /\ MarkersAfterStep(CodeNow, workflow, mutable_marker_results, batch.replay) = mutable_marker_results
  <2>1. ~Asks(CodeNow, workflow)
    BY <1>7, Zenon DEF Asks
  <2> HIDE DEF r
  <2>2. CodeNow.task[CodeNow.running] = r
    BY <1>2, Zenon DEF r
  <2> QED BY <1>1, <1>2, <1>3, <1>7, <2>1, <2>2, Zenon DEF CodeAfterStep, DeciderAfterStep, MarkersAfterStep
<1>9. CodeNow' = Ending(CodeNow, tasks')
  BY <1>1, <1>4, CodeNowHas, Zenon DEF CodeNow, Ending
<1>10. tasks' = IF task[running].name # "main" /\ HasCode(CodeNow, workflow)
                THEN Without(tasks, {running}) ELSE tasks
  <2>1. CASE MainReturns
    BY <2>1 DEF MainReturns
  <2>2. CASE SignalReturns
    BY <1>6, <2>2 DEF SignalReturns, Returns
  <2>3. CASE UnknownSignal \/ QueryReturns
    <3>1. tasks' = tasks
      BY <2>3 DEF UnknownSignal, QueryReturns
    <3>2. task[running].name # "main" /\ task[running].name \notin DOMAIN workflow.handler
      BY <1>5, <2>3, DeciderAssumption DEF UnknownSignal, QueryReturns, OtherTasks
    <3> QED BY <1>6, <3>1, <3>2, Zenon
  <2> QED BY <2>1, <2>2, <2>3
<1>11. DeciderNow' = IF task[running].name = "main"
                     THEN Closing(DeciderNow, "CompleteWorkflowExecution", DeciderNow.ids) ELSE DeciderNow
  <2>1. CASE MainReturns
    <3>1. close_workflow_execution("CompleteWorkflowExecution") /\ task[running].name = "main"
      BY <2>1 DEF MainReturns
    <3>2. DeciderNow' = Closing(DeciderNow, "CompleteWorkflowExecution", IdsNow')
      BY <1>1, <3>1, ClosesIs
    <3> QED BY <1>4, <3>1, <3>2, DeciderNowHas, Zenon
  <2>2. CASE ~MainReturns
    <3>1. UNCHANGED deciderVars /\ task[running].name # "main"
      BY <2>2 DEF SignalReturns, UnknownSignal, QueryReturns
    <3> QED BY <1>4, <3>1, Unchanged
  <2> QED BY <2>1, <2>2
<1>12. CodeNow' = CodeAfterStep(CodeNow, workflow, mutable_marker_results, batch.replay)
  BY <1>8, <1>9, <1>10, Zenon
<1>13. DeciderNow' = DeciderAfterStep(DeciderNow, CodeNow, workflow, mutable_marker_results, batch.replay)
  BY <1>8, <1>11, Zenon
<1>14. mutable_marker_results' = mutable_marker_results
  BY <1>1
<1>15. Now' = Succ(Now, Polled, workflow)
  BY <1>1, <1>8, <1>12, <1>13, <1>14, StepIs, Zenon
<1> QED BY <1>7, <1>15

\* Every step of the code.
LEMMA RunCodeIs ==
  ASSUME Working, RunCode
  PROVE  Now' = Succ(Now, Polled, workflow)
BY StartHandleIs, SchedulesIs, EnterAwaitIs, FutureDoneIs, SetFlagIs, GetVersionIs, RaisesIs, BlocksIs,
   AwaitReturnsIs, ReturnsIs, Zenon DEF RunCode

\* Every step on the way from the first batch to the answer that does not raise.
LEMMA WorkerIs ==
  ASSUME Working, WorkerStep, AtWork'
  PROVE  Now' = Succ(Now, Polled, workflow)
<1>1. phase' \notin {"idle", "dead", "query"}
  BY DEF AtWork
<1>2. ~RespondDecisions /\ ~query /\ ~respond_query /\ ~RespondQueryFailed
  BY <1>1 DEF RespondDecisions, query, respond_query, RespondQueryFailed, DropDecider
<1>3. RunEventLoop => phase' = "loop"
  BY <1>1 DEF RunEventLoop, Raise
<1>4. ProcessEvent => phase' # "dead"
  BY <1>1
<1> QED BY <1>2, <1>3, <1>4, BeginsIs, ProcessIs, LoopBeginsIs, ThreadIs, RunCodeIs, Zenon DEF WorkerStep

-----------------------------------------------------------------------------
(* Where a step leads *)

\* Between two batches.
LEMMA NextAt ==
  ASSUME NEW s, NEW h, IsSequence(h), Placed(s, h), s.phase = "next"
  PROVE  s.at \in 1..(Len(h) + 1)
<1>1. /\ s.at = s.batch.end
      /\ s.batch = NoBatch \/ (s.batch.from \in 1..Len(h) /\ s.batch = Batch(h, s.batch.from))
  BY PlacedNext
<1>2. Len(h) \in Nat
  BY SequenceIs
<1>3. CASE s.batch = NoBatch
  BY <1>1, <1>2, <1>3 DEF NoBatch
<1>4. CASE s.batch.from \in 1..Len(h) /\ s.batch = Batch(h, s.batch.from)
  <2> DEFINE b == s.batch
  <2>1. /\ StopsAt(h, b.from, b.stop)
        /\ IF b.replay THEN DecidedTo(h, b.stop + 2, b.end) ELSE b.end = b.stop + 1
    BY <1>4, BatchLies
  <2>2. b.stop \in b.from..Len(h)
    BY <2>1 DEF StopsAt
  <2>3. CASE b.replay
    <3>1. b.end \in (b.stop + 2)..(Len(h) + 1)
      BY <2>1, <2>3 DEF DecidedTo
    <3> HIDE DEF b
    <3>2. b.end \in 1..(Len(h) + 1)
      BY <1>2, <1>4, <2>2, <3>1 DEF b
    <3> QED BY <1>1, <3>2 DEF b
  <2>4. CASE ~b.replay
    BY <1>1, <1>2, <1>4, <2>1, <2>2, <2>4
  <2> QED BY <2>3, <2>4
<1> QED BY <1>1, <1>3, <1>4

\* What a step makes of the place.
LEMMA SuccPlace ==
  ASSUME NEW s, NEW h, IsSequence(h), NEW w, Placed(s, h), NEW t, t = Succ(s, h, w)
  PROVE  /\ s.phase = "next" => t = BatchBegins(s, h)
         /\ s.phase = "events" =>
              \/ s.at < s.batch.stop /\ t = AfterEvent(s, w, h)
              \/ s.at = s.batch.stop /\ s.decider.completed /\ t = Goes(s, s.batch.end)
              \/ s.at = s.batch.stop /\ ~s.decider.completed /\ t = LoopBegins(s)
         /\ s.phase = "loop" =>
              \/ s.code.quota = 0 /\ s.code.running = 0 /\ t = LoopEnds(s)
              \/ ~(s.code.quota = 0 /\ s.code.running = 0) /\ t = AfterStep(s, w)
         /\ s.phase = "decision_events" =>
              \/ s.at < s.batch.end /\ t = AfterEvent(s, w, h)
              \/ s.at = s.batch.end /\ t = Goes(s, s.at)
<1>1. Len(h) \in Nat
  BY SequenceIs
<1>2. CASE s.phase = "next"
  <2>1. s.at \in Nat
    BY <1>1, <1>2, NextAt
  <2> QED BY <1>2, <2>1, SuccIs
<1>3. CASE s.phase # "next"
  <2>1. /\ s.batch.stop \in Nat /\ s.batch.end \in Nat /\ s.at \in Nat
        /\ s.phase = "events" => s.at <= s.batch.stop
        /\ s.phase = "decision_events" => s.at <= s.batch.end
    <3>1. s.batch.from \in 1..Len(h) /\ s.batch.stop \in s.batch.from..Len(h) /\ s.batch.end \in 1..(Len(h) + 1)
      BY <1>3, BatchPlaced DEF LiesIn
    <3>2. /\ s.at \in Nat
          /\ s.phase = "events" => s.at <= s.batch.stop
          /\ s.phase = "decision_events" => s.at <= s.batch.end
      BY <1>3, BatchPlaced DEF LiesIn
    <3> QED BY <1>1, <3>1, <3>2
  <2>2. (s.at < s.batch.stop \/ s.at >= s.batch.stop) /\ (s.at < s.batch.end \/ s.at >= s.batch.end)
    BY <2>1
  <2>3. /\ s.phase = "events" /\ s.at < s.batch.stop => t = AfterEvent(s, w, h)
        /\ s.phase = "events" /\ s.at >= s.batch.stop /\ s.decider.completed => t = Goes(s, s.batch.end)
        /\ s.phase = "events" /\ s.at >= s.batch.stop /\ ~s.decider.completed => t = LoopBegins(s)
        /\ s.phase = "loop" /\ s.code.quota = 0 /\ s.code.running = 0 => t = LoopEnds(s)
        /\ s.phase = "loop" /\ ~(s.code.quota = 0 /\ s.code.running = 0) => t = AfterStep(s, w)
        /\ s.phase = "decision_events" /\ s.at < s.batch.end => t = AfterEvent(s, w, h)
        /\ s.phase = "decision_events" /\ s.at >= s.batch.end => t = Goes(s, s.at)
    BY <2>1, SuccIs
  <2>4. CASE s.phase = "events"
    <3>1. s.at < s.batch.stop \/ s.at = s.batch.stop
      BY <2>1, <2>4
    <3>2. s.at = s.batch.stop => s.at >= s.batch.stop
      BY <2>1
    <3> QED BY <2>3, <2>4, <3>1, <3>2, Zenon
  <2>5. CASE s.phase = "decision_events"
    <3>1. s.at < s.batch.end \/ s.at = s.batch.end
      BY <2>1, <2>5
    <3>2. s.at = s.batch.end => s.at >= s.batch.end
      BY <2>1
    <3> QED BY <2>3, <2>5, <3>1, <3>2, Zenon
  <2>6. CASE s.phase = "loop"
    BY <2>3, <2>6, Zenon
  <2> QED BY <1>3, <2>4, <2>5, <2>6, Zenon
<1> QED BY <1>2, <1>3

\* The next state has a place too.
LEMMA PlacedSucc ==
  ASSUME NEW s, NEW h, IsSequence(h), NEW w, Placed(s, h), s.phase = "next" => s.at <= Len(h)
  PROVE  Placed(Succ(s, h, w), h)
<1> DEFINE t == Succ(s, h, w)
           b == s.batch
<1>0. Len(h) \in Nat
  BY SequenceIs
<1>1. CASE s.phase = "next"
  <2> DEFINE c == Batch(h, s.at)
  <2>1. s.at \in 1..Len(h)
    BY <1>0, <1>1, NextAt
  <2>2. t = BatchBegins(s, h)
    BY <1>1, SuccPlace
  <2>3. t.phase = "events" /\ t.at = s.at /\ t.batch = c
    BY <2>2, StateHas DEF BatchBegins
  <2>4. c.from = s.at /\ StopsAt(h, s.at, c.stop)
    BY <2>1, BatchLies
  <2> HIDE DEF t, c
  <2>5. s.at \in s.at..c.stop
    BY <1>0, <2>1, <2>4 DEF StopsAt
  <2>6. t.batch.from \in 1..Len(h) /\ t.batch = Batch(h, t.batch.from)
    BY <2>1, <2>3, <2>4 DEF c
  <2>7. t.at \in t.batch.from..t.batch.stop
    BY <2>3, <2>4, <2>5
  <2> QED BY <2>3, <2>6, <2>7 DEF Placed, t
<1>2. CASE s.phase # "next"
  <2>1. /\ b.from \in 1..Len(h) /\ b = Batch(h, b.from)
        /\ b.stop \in b.from..Len(h)
        /\ b.next_decision_event_id = b.stop + 2
        /\ b.replay \in BOOLEAN /\ b.replay = (b.stop # Len(h))
        /\ b.end \in 1..(Len(h) + 1)
        /\ s.at \in Nat /\ s.at > 0
    BY <1>2, BatchPlaced DEF LiesIn
  <2>2. IF b.replay THEN DecidedTo(h, b.stop + 2, b.end) ELSE b.end = b.stop + 1
    BY <2>1, BatchLies
  <2>3. ASSUME NEW u, u.batch = b, u.phase = s.phase, u.at = s.at + 1,
               \/ s.phase = "events" /\ s.at < b.stop
               \/ s.phase = "decision_events" /\ s.at < b.end
        PROVE  Placed(u, h)
    <3>1. CASE s.phase = "events" /\ s.at < b.stop
      <4>1. s.at \in b.from..b.stop
        BY <3>1 DEF Placed
      <4>2. u.at \in b.from..b.stop
        BY <2>1, <2>3, <3>1, <4>1
      <4> QED BY <2>1, <2>3, <3>1, <4>2 DEF Placed
    <3>2. CASE s.phase = "decision_events" /\ s.at < b.end
      <4>0. s.at \in (IF b.replay THEN b.next_decision_event_id ELSE b.end)..b.end
        BY <3>2 DEF Placed
      <4>2. u.at \in (IF b.replay THEN b.next_decision_event_id ELSE b.end)..b.end
        BY <2>1, <2>3, <3>2, <4>0
      <4> HIDE DEF b
      <4> QED BY <2>1, <2>3, <3>2, <4>2 DEF Placed
    <3> QED BY <2>3, <3>1, <3>2
  <2>4. ASSUME NEW u, u.batch = b, u.phase = "next", u.at = b.end
        PROVE  Placed(u, h)
    BY <2>1, <2>4 DEF Placed
  <2>5. CASE s.phase = "events"
    <3>1. CASE s.at < b.stop /\ t = AfterEvent(s, w, h)
      <4>1. t.phase = s.phase /\ t.at = s.at + 1 /\ t.batch = b
        BY <3>1, StateHas DEF AfterEvent
      <4> HIDE DEF t
      <4> QED BY <2>3, <2>5, <3>1, <4>1 DEF t
    <3>2. CASE t = Goes(s, b.end)
      <4>1. t.phase = "next" /\ t.at = b.end /\ t.batch = b
        BY <3>2, StateHas DEF Goes
      <4> HIDE DEF t
      <4> QED BY <2>4, <4>1 DEF t
    <3>3. CASE s.at = b.stop /\ t = LoopBegins(s)
      <4>1. t.phase = "loop" /\ t.at = b.stop /\ t.batch = b
        BY <3>3, StateHas DEF LoopBegins
      <4> HIDE DEF t
      <4> QED BY <2>1, <4>1 DEF t, Placed
    <3> QED BY <2>5, <3>1, <3>2, <3>3, SuccPlace
  <2>6. CASE s.phase = "loop"
    <3>1. CASE t = LoopEnds(s)
      <4>1. t.phase = "decision_events" /\ t.batch = b
            /\ t.at = IF b.replay THEN b.next_decision_event_id ELSE b.end
        BY <3>1, StateHas DEF LoopEnds
      <4> HIDE DEF t
      <4>2. t.at \in (IF b.replay THEN b.next_decision_event_id ELSE b.end)..b.end
        <5>1. CASE b.replay
          BY <1>0, <2>1, <2>2, <4>1, <5>1 DEF DecidedTo
        <5>2. CASE ~b.replay
          BY <1>0, <2>1, <2>2, <4>1, <5>2
        <5> QED BY <5>1, <5>2
      <4> HIDE DEF b
      <4> QED BY <2>1, <4>1, <4>2 DEF t, Placed
    <3>2. CASE t = AfterStep(s, w)
      <4>1. t.phase = "loop" /\ t.batch = b /\ t.at = s.at
        BY <3>2, StateHas DEF AfterStep
      <4>2. s.at = b.stop
        BY <2>6 DEF Placed
      <4> HIDE DEF t
      <4> QED BY <2>1, <4>1, <4>2 DEF t, Placed
    <3> QED BY <2>6, <3>1, <3>2, SuccPlace
  <2>7. CASE s.phase = "decision_events"
    <3>1. CASE s.at < b.end /\ t = AfterEvent(s, w, h)
      <4>1. t.phase = s.phase /\ t.at = s.at + 1 /\ t.batch = b
        BY <3>1, StateHas DEF AfterEvent
      <4> HIDE DEF t
      <4> QED BY <2>3, <2>7, <3>1, <4>1 DEF t
    <3>2. CASE s.at = b.end /\ t = Goes(s, s.at)
      <4>1. t.phase = "next" /\ t.at = b.end /\ t.batch = b
        BY <3>2, StateHas DEF Goes
      <4> HIDE DEF t
      <4> QED BY <2>4, <4>1 DEF t
    <3> QED BY <2>7, <3>1, <3>2, SuccPlace
  <2> QED BY <1>2, <2>5, <2>6, <2>7 DEF Placed
<1> QED BY <1>1, <1>2

\* A replay starts before its first batch.
LEMMA StartPlaced ==
  ASSUME NEW h
  PROVE  Placed(Start, h) /\ Start.phase = "next" /\ Start.at = 1
<1>1. Start.phase = "next" /\ Start.at = 1 /\ Start.batch = NoBatch
  BY StateHas DEF Start
<1>2. NoBatch.end = 1
  BY DEF NoBatch
<1> QED BY <1>1, <1>2 DEF Placed

-----------------------------------------------------------------------------
(* The steps of the execution *)

\* What a history starts with stays when it goes on.
LEMMA PrefixStays ==
  ASSUME NEW g, NEW h, IsSequence(g), IsSequence(h), Continues(g, h), NEW n \in 0..Len(g)
  PROVE  SubSeq(h, 1, n) = SubSeq(g, 1, n)
<1>1. Len(g) \in Nat /\ Len(h) \in Nat /\ Len(g) <= Len(h) /\ \A i \in 1..Len(g) : h[i] = g[i]
  BY SequenceIs DEF Continues
<1>2. g \in Seq(ToSet(g)) /\ h \in Seq(ToSet(h))
  BY DEF IsSequence
<1>3. SubSeq(g, 1, n) = [i \in 1..n |-> g[i]]
  BY <1>1, <1>2
<1>4. SubSeq(h, 1, n) = [i \in 1..n |-> h[i]]
  BY <1>1, <1>2
<1>5. \A i \in 1..n : h[i] = g[i]
  BY <1>1
<1> QED BY <1>3, <1>4, <1>5

\* What the thread knows of its decider, and of the events that wait.
ReplayInv ==
  /\ phase = "idle" => NewDecider /\ at = 1 /\ batch = NoBatch
  /\ AtWork => Placed(Now, Polled)
  /\ NoAnswers(buffered)

\* A new decider is at the start.
LEMMA FreshIs ==
  ASSUME NewDecider, at = 1, batch = NoBatch, phase = "next"
  PROVE  Now = Start
<1>1. task = <<>>
  BY DEF NewDecider
<1>2. TasksNow = <<>> /\ IdsNow = <<>>
  <2>1. DOMAIN task = {} /\ DOMAIN <<>> = {}
    BY <1>1
  <2>2. TasksNow = [t \in {} |-> Bare(task[t])] /\ IdsNow = [t \in {} |-> task[t].id]
    BY <2>1, Zenon DEF TasksNow, IdsNow
  <2> QED BY <2>2
<1> QED BY <1>2 DEF NewDecider, Now, Start, CodeNow, DeciderNow, NewCode, NoDecisions

\* While the service acts, or nothing happens, the decider stands still.
Rests ==
  /\ UNCHANGED <<workflow, replayVars, deciderVars, codeVars, committed>>
  /\ Adding

\* The decider does a step.
Steps ==
  /\ AtWork /\ AtWork'
  /\ WorkerStep
  /\ UNCHANGED <<serviceVars, workflow, querying, polled, committed>>
  /\ Now' = Succ(Now, Polled, workflow)
  /\ phase = "next" => at <= polled

\* A decider starts.
Starts ==
  /\ phase = "idle" /\ phase' = "next"
  /\ Now' = Start
  /\ polled' = Len(history')
  /\ UNCHANGED <<workflow, committed>>
  /\ Adding
  /\ ~querying' => history'[polled'].type = "DecisionTaskStarted"

\* The decider's work ends, or has ended, without an answer.
Stops ==
  /\ ~AtWork'
  /\ UNCHANGED <<serviceVars, workflow, committed>>

\* A step of the decider that goes on leaves the service alone.
LEMMA StepKeeps ==
  ASSUME Inv, WorkerStep, AtWork'
  PROVE  /\ AtWork
         /\ UNCHANGED <<serviceVars, workflow, querying, polled, committed>>
         /\ phase = "next" => at <= polled
<1>1. phase' \notin {"idle", "dead", "query"}
  BY DEF AtWork
<1>2. ~RespondDecisions /\ ~query /\ ~respond_query /\ ~RespondQueryFailed
  BY <1>1 DEF RespondDecisions, query, respond_query, RespondQueryFailed, DropDecider
<1>3. CASE BeginBatch
  BY <1>3, Zenon DEF BeginBatch, AtWork
<1>4. CASE RunEventLoop
  <2>1. phase' = "loop" /\ phase = "events"
    BY <1>1, <1>4 DEF RunEventLoop, Raise
  <2>2. UNCHANGED <<serviceVars, workflow, querying, polled, committed>>
    BY <1>4, Zenon DEF RunEventLoop, Raise
  <2> QED BY <2>1, <2>2 DEF AtWork
<1>5. CASE SkipCompleted \/ EndEventLoop \/ EndBatch
  <2>1. UNCHANGED <<serviceVars, workflow, querying, polled, committed>>
    BY <1>5, Zenon DEF SkipCompleted, EndEventLoop, EndBatch
  <2>2. phase \in {"events", "loop", "decision_events"}
    BY <1>5 DEF SkipCompleted, EndEventLoop, EndBatch
  <2> QED BY <2>1, <2>2 DEF AtWork
<1>6. CASE ProcessEvent
  <2>1. UNCHANGED <<serviceVars, workflow, querying, polled, committed>>
    BY <1>6, Zenon DEF ProcessEvent, SkipEvent, handle_workflow_execution_started,
       handle_workflow_execution_signaled, handle_workflow_execution_cancel_requested,
       handle_marker_recorded, handle_initiated, handle_activity_closed, handle_timer_fired,
       handle_timer_canceled, EventRaises, NoEventHandler, Raise, Consume
  <2>2. \E types : AtEvent(types)
    BY <1>6, Zenon DEF ProcessEvent, SkipEvent, handle_workflow_execution_started,
       handle_workflow_execution_signaled, handle_workflow_execution_cancel_requested,
       handle_marker_recorded, handle_initiated, handle_activity_closed, handle_timer_fired,
       handle_timer_canceled, EventRaises, NoEventHandler
  <2>3. phase \in {"events", "decision_events"}
    BY <2>2 DEF AtEvent
  <2> QED BY <2>1, <2>3 DEF AtWork
<1>7. CASE RunCode
  <2>1. UNCHANGED <<serviceVars, workflow, replayVars, committed>>
    BY <1>7, Zenon DEF RunCode, StartHandle, schedule_activity_task, schedule_timer, FutureDone,
       FutureFailed, CodeRaises, EnterAwait, AwaitBlocks, AwaitRaises, AwaitReturns, get_version,
       SetFlag, MainReturns, SignalReturns, UnknownSignal, QueryReturns, Quiet
  <2>2. UNCHANGED <<phase, querying, polled>>
    BY <2>1, Zenon DEF replayVars
  <2>3. phase \in {"loop", "query"} \/ running # 0
    BY <1>7, Zenon DEF RunCode, StartHandle, schedule_activity_task, schedule_timer, FutureDone,
       FutureFailed, CodeRaises, EnterAwait, AwaitBlocks, AwaitRaises, AwaitReturns, get_version,
       SetFlag, MainReturns, SignalReturns, UnknownSignal, QueryReturns, Runs, Returns
  <2>4. phase # "next"
    BY <2>3 DEF Inv, TasksInv
  <2> QED BY <2>1, <2>2, <2>4, Zenon DEF AtWork
<1> QED BY <1>2, <1>3, <1>4, <1>5, <1>6, <1>7, Zenon DEF WorkerStep

\* A step of any kind.
LEMMA NextIs ==
  ASSUME Inv, ReplayInv, [Next]_vars
  PROVE  Rests \/ Starts \/ Steps \/ Stops \/ RespondDecisions
<1>0. ServiceOK /\ ThreadInv /\ IsSequence(history) /\ Len(history) \in Nat /\ NoAnswers(buffered)
  BY SequenceIs DEF Inv, ThreadInv, ServiceOK, ReplayInv
<1>1. CASE UNCHANGED vars
  <2>1. UNCHANGED <<workflow, replayVars, deciderVars, codeVars, committed>> /\ UNCHANGED <<history, buffered>>
    BY <1>1, Zenon DEF vars, serviceVars
  <2> QED BY <1>0, <2>1, GoesOnStays DEF Rests, Adding
<1>2. CASE ServiceActs
  BY <1>0, <1>2, ServiceAdds, Zenon DEF ServiceActs, Rests
<1>3. CASE Poll
  <2>1. /\ phase = "idle" /\ StartDecisionTask /\ phase' = "next" /\ polled' = Len(history')
        /\ UNCHANGED <<workflow, batch, deciderVars, codeVars, committed>> /\ at' = 1
    BY <1>3, Zenon DEF Poll
  <2>2. Adding /\ Len(history') = Len(history) + 1 /\ history'[Len(history')].type = "DecisionTaskStarted"
    BY <1>0, <2>1, StartAdds, Zenon
  <2>3. NewDecider /\ batch = NoBatch
    BY <2>1 DEF ReplayInv
  <2>4. NewDecider'
    BY <2>1, <2>3, Zenon DEF NewDecider, deciderVars, codeVars
  <2>5. batch' = NoBatch
    BY <2>1, <2>3
  <2>6. (NewDecider /\ at = 1 /\ batch = NoBatch /\ phase = "next" => Now = Start)'
    BY FreshIs, PTL
  <2>7. Now' = Start
    BY <2>1, <2>4, <2>5, <2>6, Zenon
  <2> QED BY <2>1, <2>2, <2>7, Zenon DEF Starts
<1>4. CASE PollQuery
  <2>1. /\ phase = "idle" /\ phase' = "next" /\ querying' = TRUE /\ polled' = Len(history)
        /\ UNCHANGED <<serviceVars, workflow, at, batch, deciderVars, codeVars, committed>>
    BY <1>4, Zenon DEF PollQuery
  <2>2. NewDecider /\ batch = NoBatch /\ at = 1
    BY <2>1 DEF ReplayInv
  <2>4. NewDecider'
    BY <2>1, <2>2, Zenon DEF NewDecider, deciderVars, codeVars
  <2>5. batch' = NoBatch /\ at' = 1
    BY <2>1, <2>2
  <2>6. (NewDecider /\ at = 1 /\ batch = NoBatch /\ phase = "next" => Now = Start)'
    BY FreshIs, PTL
  <2>7. Now' = Start
    BY <2>1, <2>4, <2>5, <2>6, Zenon
  <2>8. history' = history /\ buffered' = buffered
    BY <2>1, Zenon DEF serviceVars
  <2>9. Adding
    BY <1>0, <2>8, GoesOnStays DEF Adding
  <2> QED BY <2>1, <2>7, <2>8, <2>9, Zenon DEF Starts
<1>5. CASE Crash
  <2>1. phase' = "idle" /\ UNCHANGED <<serviceVars, workflow, committed>>
    BY <1>5, Zenon DEF Crash, DropDecider
  <2> QED BY <2>1 DEF Stops, AtWork
<1>6. CASE WorkerStep /\ AtWork'
  <2>1. /\ AtWork
        /\ UNCHANGED <<serviceVars, workflow, querying, polled, committed>>
        /\ phase = "next" => at <= polled
    BY <1>6, StepKeeps, Zenon
  <2>2. Working
    BY <2>1 DEF Working, ReplayInv
  <2>3. Now' = Succ(Now, Polled, workflow)
    BY <1>6, <2>2, WorkerIs, Zenon
  <2> QED BY <1>6, <2>1, <2>3, Zenon DEF Steps
<1>7. CASE WorkerStep /\ ~AtWork'
  <2>1. ASSUME UNCHANGED <<serviceVars, workflow, committed>>
        PROVE  Stops
    BY <1>7, <2>1 DEF Stops
  <2>2. CASE query \/ respond_query \/ RespondQueryFailed \/ BeginBatch \/ RunEventLoop
             \/ SkipCompleted \/ EndEventLoop \/ EndBatch
    <3>1. UNCHANGED <<serviceVars, workflow, committed>>
      BY <2>2, Zenon DEF query, respond_query, RespondQueryFailed, BeginBatch, RunEventLoop, Raise,
         SkipCompleted, EndEventLoop, EndBatch
    <3> QED BY <2>1, <3>1, Zenon
  <2>3. CASE ProcessEvent
    <3>1. UNCHANGED <<serviceVars, workflow, committed>>
      BY <2>3, Zenon DEF ProcessEvent, SkipEvent, handle_workflow_execution_started,
         handle_workflow_execution_signaled, handle_workflow_execution_cancel_requested,
         handle_marker_recorded, handle_initiated, handle_activity_closed, handle_timer_fired,
         handle_timer_canceled, EventRaises, NoEventHandler, Raise, Consume
    <3> QED BY <2>1, <3>1, Zenon
  <2>4. CASE RunCode
    <3>1. UNCHANGED <<serviceVars, workflow, committed>>
      BY <2>4, Zenon DEF RunCode, StartHandle, schedule_activity_task, schedule_timer, FutureDone,
         FutureFailed, CodeRaises, EnterAwait, AwaitBlocks, AwaitRaises, AwaitReturns, get_version,
         SetFlag, MainReturns, SignalReturns, UnknownSignal, QueryReturns, Quiet
    <3> QED BY <2>1, <3>1, Zenon
  <2> QED BY <1>7, <2>2, <2>3, <2>4, Zenon DEF WorkerStep
<1> QED BY <1>1, <1>2, <1>3, <1>4, <1>5, <1>6, <1>7, Zenon DEF Next

\* The events that the decider has stay.
LEMMA PolledStays ==
  ASSUME Inv, Inv', Rests \/ Steps
  PROVE  Polled' = Polled /\ polled' = polled /\ workflow' = workflow
<1>1. /\ IsSequence(history) /\ IsSequence(history') /\ polled \in 0..Len(history)
      /\ Len(history) \in Nat
  BY SequenceIs DEF Inv, ThreadInv
<1>2. polled' = polled /\ workflow' = workflow
  BY Zenon DEF Rests, Steps, replayVars
<1>3. Continues(history, history')
  <2>1. CASE Rests
    BY <2>1 DEF Rests, Adding, GoesOn
  <2>2. CASE Steps
    <3>1. history' = history
      BY <2>2, Zenon DEF Steps, serviceVars
    <3> QED BY <1>1, <3>1 DEF Continues
  <2> QED BY <2>1, <2>2
<1>4. SubSeq(history', 1, polled) = SubSeq(history, 1, polled)
  BY <1>1, <1>3, PrefixStays
<1> QED BY <1>2, <1>4 DEF Polled

\* Nothing is left of a decider that is thrown away.
LEMMA DropsNew ==
  ASSUME DropDecider
  PROVE  NewDecider' /\ at' = 1 /\ batch' = NoBatch
BY Zenon DEF DropDecider, NewDecider

\* Nothing that answers a decision waits in the buffer.
LEMMA RespondBuffers ==
  ASSUME NoAnswers(buffered), NEW token, NEW ds, RespondDecisionTaskCompleted(token, ds)
  PROVE  NoAnswers(buffered')
<1>1. buffered' = buffered \/ buffered' = <<>>
  BY Zenon DEF RespondDecisionTaskCompleted, EndDecisionTask, serviceVars
<1> QED BY <1>1, PlainEvents

\* The steps that end a decider's work.
LEMMA EndsAre ==
  ASSUME Inv, ReplayInv, [Next]_vars, Stops \/ RespondDecisions
  PROVE  /\ ~AtWork'
         /\ NoAnswers(buffered')
         /\ phase' = "idle" => NewDecider' /\ at' = 1 /\ batch' = NoBatch
<1>1. ~AtWork'
  <2>1. RespondDecisions => phase' = "idle"
    BY Zenon DEF RespondDecisions, DropDecider
  <2> QED BY <2>1 DEF Stops, AtWork
<1>2. NoAnswers(buffered')
  <2>1. CASE Stops
    BY <2>1, Zenon DEF Stops, ReplayInv, serviceVars
  <2>2. CASE RespondDecisions
    BY <2>2, RespondBuffers, Zenon DEF RespondDecisions, ReplayInv
  <2> QED BY <2>1, <2>2
<1>3. ASSUME phase' = "idle" PROVE NewDecider' /\ at' = 1 /\ batch' = NoBatch
  <2>1. CASE DropDecider
    BY <2>1, DropsNew
  <2>2. CASE phase = "idle" /\ UNCHANGED <<at, batch, deciderVars, codeVars>>
    <3>1. NewDecider /\ at = 1 /\ batch = NoBatch
      BY <2>2 DEF ReplayInv
    <3>2. NewDecider'
      BY <2>2, <3>1, Zenon DEF NewDecider, deciderVars, codeVars
    <3> QED BY <2>2, <3>1, <3>2
  <2>3. CASE Crash \/ RespondDecisions \/ respond_query \/ RespondQueryFailed
    BY <2>1, <2>3, Zenon DEF Crash, RespondDecisions, respond_query, RespondQueryFailed
  <2>4. CASE ServiceActs \/ UNCHANGED vars
    <3>1. UNCHANGED <<phase, at, batch, deciderVars, codeVars>>
      BY <2>4, Zenon DEF ServiceActs, vars, replayVars
    <3> QED BY <1>3, <2>2, <3>1
  <2>5. CASE Poll \/ PollQuery \/ BeginBatch \/ RunEventLoop \/ SkipCompleted \/ EndEventLoop \/ EndBatch \/ query
    <3>1. phase' # "idle"
      BY <2>5 DEF Poll, PollQuery, BeginBatch, RunEventLoop, Raise, SkipCompleted, EndEventLoop,
         EndBatch, query
    <3> QED BY <1>3, <3>1
  <2>6. CASE ProcessEvent
    <3>1. \E types : AtEvent(types)
      BY <2>6, Zenon DEF ProcessEvent, SkipEvent, handle_workflow_execution_started,
         handle_workflow_execution_signaled, handle_workflow_execution_cancel_requested,
         handle_marker_recorded, handle_initiated, handle_activity_closed, handle_timer_fired,
         handle_timer_canceled, EventRaises, NoEventHandler
    <3>2. phase' = phase \/ phase' = "dead"
      BY <2>6, Zenon DEF ProcessEvent, SkipEvent, handle_workflow_execution_started,
         handle_workflow_execution_signaled, handle_workflow_execution_cancel_requested,
         handle_marker_recorded, handle_initiated, handle_activity_closed, handle_timer_fired,
         handle_timer_canceled, EventRaises, NoEventHandler, Raise, Consume
    <3>3. phase' # "idle"
      BY <3>1, <3>2 DEF AtEvent
    <3> QED BY <1>3, <3>3
  <2>7. CASE RunCode
    <3>1. phase \in {"loop", "query"} \/ running # 0
      BY <2>7, Zenon DEF RunCode, StartHandle, schedule_activity_task, schedule_timer, FutureDone,
         FutureFailed, CodeRaises, EnterAwait, AwaitBlocks, AwaitRaises, AwaitReturns, get_version,
         SetFlag, MainReturns, SignalReturns, UnknownSignal, QueryReturns, Runs, Returns
    <3>2. phase # "idle"
      BY <3>1 DEF Inv, TasksInv
    <3>3. UNCHANGED <<serviceVars, workflow, replayVars, committed>>
      BY <2>7, Zenon DEF RunCode, StartHandle, schedule_activity_task, schedule_timer, FutureDone,
         FutureFailed, CodeRaises, EnterAwait, AwaitBlocks, AwaitRaises, AwaitReturns, get_version,
         SetFlag, MainReturns, SignalReturns, UnknownSignal, QueryReturns, Quiet
    <3>4. phase' = phase
      BY <3>3, Zenon DEF replayVars
    <3> QED BY <1>3, <3>2, <3>4
  <2> QED BY <2>3, <2>4, <2>5, <2>6, <2>7, Zenon DEF Next, WorkerStep
<1> QED BY <1>1, <1>2, <1>3

\* The state of the decider rests with its variables.
LEMMA NowRests ==
  ASSUME UNCHANGED <<replayVars, deciderVars, codeVars>>
  PROVE  Now' = Now /\ (AtWork' <=> AtWork)
<1>1. UNCHANGED <<phase, at, batch>>
  BY Zenon DEF replayVars
<1>2. CodeNow' = CodeNow /\ IdsNow' = IdsNow
  BY Unchanged
<1>3. DeciderNow' = DeciderNow /\ mutable_marker_results' = mutable_marker_results
  BY <1>2, Unchanged
<1> QED BY <1>1, <1>2, <1>3, Zenon DEF Now, AtWork

\* Every step keeps a decider at its place in its batch.
LEMMA NextReplay ==
  ASSUME Inv, ReplayInv, [Next]_vars
  PROVE  ReplayInv'
<1>0. Inv'
  BY NextInv
<1>1. CASE Rests
  <2>1. Now' = Now /\ (AtWork' <=> AtWork) /\ phase' = phase
        /\ UNCHANGED <<at, batch, deciderVars, codeVars>>
    BY <1>1, NowRests, Zenon DEF Rests, replayVars
  <2>2. Polled' = Polled
    BY <1>0, <1>1, PolledStays
  <2>3. AtWork' => Placed(Now, Polled)'
    BY <2>1, <2>2, Zenon DEF ReplayInv
  <2>4. ASSUME phase' = "idle" PROVE NewDecider' /\ at' = 1 /\ batch' = NoBatch
    <3>1. NewDecider /\ at = 1 /\ batch = NoBatch
      BY <2>1, <2>4 DEF ReplayInv
    <3> QED BY <2>1, <3>1, Zenon DEF NewDecider, deciderVars, codeVars
  <2> QED BY <1>1, <2>3, <2>4 DEF ReplayInv, Rests, Adding
<1>2. CASE Starts
  <2>1. Placed(Now, Polled)'
    <3>1. Placed(Start, Polled')
      BY StartPlaced
    <3>2. Placed(Now', Polled')
      BY <1>2, <3>1, Zenon DEF Starts
    <3> QED BY <3>2
  <2> QED BY <1>2, <2>1 DEF Starts, ReplayInv, Adding
<1>3. CASE Steps
  <2>1. /\ AtWork /\ AtWork' /\ Now' = Succ(Now, Polled, workflow) /\ buffered' = buffered
        /\ phase = "next" => at <= polled
    BY <1>3, Zenon DEF Steps, serviceVars
  <2>2. Polled' = Polled
    BY <1>0, <1>3, PolledStays
  <2>3. IsSequence(Polled) /\ Len(Polled) = polled
    BY PolledIs DEF Inv
  <2>4. Placed(Now, Polled) /\ NoAnswers(buffered)
    BY <2>1 DEF ReplayInv
  <2>5. Now.phase = "next" => Now.at <= Len(Polled)
    BY <2>1, <2>3, NowHas
  <2>6. Placed(Succ(Now, Polled, workflow), Polled)
    BY <2>3, <2>4, <2>5, PlacedSucc, Zenon
  <2>7. Placed(Now', Polled')
    BY <2>1, <2>2, <2>6, Zenon
  <2>8. phase' # "idle"
    BY <2>1 DEF AtWork
  <2>9. NoAnswers(buffered')
    BY <2>1, <2>4
  <2> QED BY <2>7, <2>8, <2>9, Zenon DEF ReplayInv
<1>4. CASE Stops \/ RespondDecisions
  BY <1>4, EndsAre, Zenon DEF ReplayInv
<1> QED BY <1>1, <1>2, <1>3, <1>4, NextIs, Zenon

\* There is none at first.
LEMMA InitReplay == Init => ReplayInv
<1> SUFFICES ASSUME Init PROVE ReplayInv
  OBVIOUS
<1>1. phase = "idle" /\ NewDecider /\ at = 1 /\ batch = NoBatch /\ buffered = <<>>
  BY Zenon DEF Init, ServiceInit
<1>2. ~AtWork
  BY <1>1 DEF AtWork
<1>3. NoAnswers(buffered)
  BY <1>1, PlainEvents
<1> QED BY <1>1, <1>2, <1>3 DEF ReplayInv

\* Replay is a function of the history and the program: of two workers that have got
\* the same events, at the same place, each does what the other does.  No step of a
\* decider depends on who makes it, or when, or on what happens meanwhile.
THEOREM ReplayIsDeterministic == Spec => Deterministic
<1>1. ASSUME Inv, ReplayInv, [Next]_vars
      PROVE  [AtWork /\ AtWork' /\ ~Poll /\ ~PollQuery => Now' = Now \/ Now' = Succ(Now, Polled, workflow)]_vars
  <2>1. CASE Rests
    BY <2>1, NowRests, Zenon DEF Rests
  <2>2. CASE Starts
    BY <2>2 DEF Starts, AtWork
  <2>3. CASE Steps
    BY <2>3, Zenon DEF Steps
  <2>4. CASE Stops
    BY <2>4, Zenon DEF Stops
  <2>5. CASE RespondDecisions
    <3>1. phase' = "idle"
      BY <2>5, Zenon DEF RespondDecisions, DropDecider
    <3> QED BY <3>1 DEF AtWork
  <2> QED BY <1>1, <2>1, <2>2, <2>3, <2>4, <2>5, NextIs, Zenon
<1> QED BY <1>1, InitInv, InitReplay, NextInv, NextReplay, PTL DEF Spec, Deterministic

-----------------------------------------------------------------------------
(* The batches of a history that goes on *)

\* The decision task that started with event p has been answered.
AnsweredAt(h, p) ==
  /\ p \in 1..(Len(h) - 1)
  /\ h[p].type = "DecisionTaskStarted"
  /\ h[p + 1].type = "DecisionTaskCompleted"

\* g is the history h as far as that event.
UpTo(g, h, p) == IsSequence(h) /\ AnsweredAt(h, p) /\ g = SubSeq(h, 1, p)

\* The batch b of g, and c of h, from the same place: either the same, or b was the
\* one to decide, and c is its replay.
BatchesAgree(b, c, h, p, from) ==
  /\ b.stop \in from..p
  /\ b.stop < p => c = b /\ b.replay
  /\ b.stop = p => /\ ~b.replay /\ b.end = p + 1 /\ b.next_decision_event_id = p + 2 /\ b.from = from
                   /\ c.replay /\ c.stop = p /\ c.next_decision_event_id = p + 2 /\ c.from = from
                   /\ DecidedTo(h, p + 2, c.end)

\* The batches up to the answered decision task stay the same when the history goes on.
LEMMA SameBatch ==
  ASSUME NEW h, NEW p, NEW g, UpTo(g, h, p), NEW from \in 1..p
  PROVE  BatchesAgree(Batch(g, from), Batch(h, from), h, p, from)
<1> DEFINE b == Batch(g, from)
           c == Batch(h, from)
<1>0. IsSequence(h) /\ AnsweredAt(h, p) /\ g = SubSeq(h, 1, p) /\ b = Batch(g, from) /\ c = Batch(h, from)
  BY DEF UpTo
<1> HIDE DEF b, c
<1> SUFFICES BatchesAgree(b, c, h, p, from)
  BY DEF b, c
<1>1. /\ Len(h) \in Nat /\ p \in Nat /\ p >= 1 /\ p < Len(h)
      /\ h[p].type = "DecisionTaskStarted" /\ h[p + 1].type = "DecisionTaskCompleted"
  BY <1>0, SequenceIs DEF AnsweredAt
<1>2. IsSequence(g) /\ Len(g) = p
  BY <1>0, <1>1, SequencePrefix
<1>3. \A i \in 1..p : g[i] = h[i]
  BY <1>0, <1>1 DEF IsSequence
<1>4. /\ b.from = from /\ StopsAt(g, from, b.stop) /\ b.replay = (b.stop # p)
      /\ b.next_decision_event_id = b.stop + 2
      /\ IF b.replay THEN DecidedTo(g, b.stop + 2, b.end) ELSE b.end = b.stop + 1
  <2>1. from \in 1..Len(g)
    BY <1>2
  <2>2. b.from = from
    BY <1>0 DEF Batch
  <2>3. from \in 1..Len(g) /\ b = Batch(g, from) /\ IsSequence(g)
    BY <1>0, <1>2, <2>1
  <2>4. /\ StopsAt(g, from, b.stop) /\ b.replay = (b.stop # Len(g))
        /\ b.next_decision_event_id = b.stop + 2
        /\ IF b.replay THEN DecidedTo(g, b.stop + 2, b.end) ELSE b.end = b.stop + 1
    BY ONLY <2>3, BatchLies
  <2> QED BY <1>2, <2>2, <2>4, Zenon
<1> DEFINE stop == b.stop
<1>5. stop \in from..p /\ stop \in Nat
  BY <1>1, <1>2, <1>4 DEF StopsAt
<1>6. StopsAt(h, from, stop)
  <2>1. stop \in from..Len(h)
    BY <1>1, <1>5
  <2>2. ASSUME NEW j \in from..(p - 1) PROVE EndsBatch(g, j) <=> EndsBatch(h, j)
    <3>1. j \in 1..p /\ j + 1 \in 1..p /\ j # p /\ j # Len(h)
      BY <1>1
    <3>2. g[j] = h[j] /\ g[j + 1] = h[j + 1]
      BY <1>3, <3>1
    <3> QED BY <1>2, <3>1, <3>2, Zenon DEF EndsBatch, GivenUp
  <2>3. EndsBatch(h, p)
    BY <1>1 DEF EndsBatch, GivenUp
  <2>4. EndsBatch(h, stop)
    <3>1. CASE stop = p
      BY <2>3, <3>1
    <3>2. CASE stop # p
      <4>1. stop \in from..(p - 1)
        BY <1>1, <1>5, <3>2
      <4> QED BY <1>4, <2>2, <4>1 DEF StopsAt
    <3> QED BY <3>1, <3>2
  <2>5. ASSUME NEW j \in from..(stop - 1) PROVE ~EndsBatch(h, j)
    <3>1. j \in from..(p - 1)
      BY <1>1, <1>5
    <3> QED BY <1>4, <2>2, <2>5, <3>1 DEF StopsAt
  <2> QED BY <2>1, <2>4, <2>5 DEF StopsAt
<1>7. BatchStop(h, from) = stop /\ BatchStop(g, from) = stop
  <2>1. from \in 1..Len(h) /\ from \in 1..Len(g)
    BY <1>1, <1>2
  <2> QED BY <1>0, <1>2, <1>4, <1>6, <2>1, StopUnique
<1>8. stop # Len(h)
  BY <1>1, <1>5
<1>9. c = [from |-> from, stop |-> stop, replay |-> TRUE, next_decision_event_id |-> stop + 2,
           end |-> DecisionsStop(h, stop + 2)]
  BY <1>0, <1>7, <1>8 DEF Batch
<1>10. CASE stop < p
  <2>1. b = [from |-> from, stop |-> stop, replay |-> TRUE, next_decision_event_id |-> stop + 2,
             end |-> DecisionsStop(g, stop + 2)]
    <3>1. BatchStop(g, from) # Len(g) /\ BatchStop(g, from) = stop
      <4>1. stop # p
        BY <1>5, <1>10
      <4> QED BY <1>2, <1>7, <4>1, Zenon
    <3> HIDE DEF stop
    <3> QED BY <1>0, <3>1 DEF Batch
  <2>2. b.replay /\ DecidedTo(g, stop + 2, b.end)
    <3>1. b.replay
      <4>1. stop # p
        BY <1>5, <1>10
      <4> QED BY <1>4, <4>1, Zenon
    <3> QED BY <1>4, <3>1
  <2>3. DecidedTo(h, stop + 2, b.end)
    <3>1. /\ b.end \in (stop + 2)..(p + 1)
          /\ \A k \in (stop + 2)..(b.end - 1) : is_decision_event(g[k])
          /\ b.end <= p => ~is_decision_event(g[b.end])
      BY <1>2, <2>2 DEF DecidedTo
    <3>2. b.end \in (stop + 2)..(Len(h) + 1)
      BY <1>1, <1>5, <3>1
    <3>3. ASSUME NEW k \in (stop + 2)..(b.end - 1) PROVE is_decision_event(h[k])
      <4>1. k \in 1..p
        BY <1>1, <1>5, <3>1
      <4> QED BY <1>3, <3>1, <4>1
    <3>4. ~is_decision_event(h[b.end])
      <4>1. CASE b.end = p + 1
        BY <1>1, <4>1 DEF is_decision_event, DecisionEventTypes
      <4>2. CASE b.end # p + 1
        <5>1. b.end \in 1..p /\ b.end <= p
          <6> DEFINE y == b.end
                     x == stop + 2
          <6>1. y \in x..(p + 1) /\ y # p + 1
            BY <3>1, <4>2
          <6>2. x \in Nat /\ x >= 1
            BY <1>5
          <6> HIDE DEF x, y
          <6>3. y \in 1..p /\ y <= p
            BY <1>1, <6>1, <6>2
          <6> QED BY <6>3 DEF y
        <5> QED BY <1>3, <3>1, <5>1
      <4> QED BY <4>1, <4>2
    <3> QED BY <3>2, <3>3, <3>4 DEF DecidedTo
  <2>4. DecisionsStop(h, stop + 2) = b.end
    <3>1. stop + 2 \in 1..(Len(h) + 1)
      BY <1>1, <1>5, <1>10
    <3> QED BY <1>0, <2>3, <3>1, DecidedUnique
  <2>5. DecisionsStop(g, stop + 2) = b.end
    BY <2>1
  <2>6. c = b
    BY <1>9, <2>1, <2>4, <2>5
  <2> QED BY <1>5, <1>10, <2>2, <2>6 DEF BatchesAgree
<1>11. CASE stop = p
  <2>1. ~b.replay /\ b.end = p + 1 /\ b.next_decision_event_id = p + 2
    BY <1>4, <1>11
  <2>2. c.replay /\ c.stop = p /\ c.next_decision_event_id = p + 2 /\ c.from = from
        /\ c.end = DecisionsStop(h, p + 2)
    BY <1>9, <1>11
  <2>3. p + 2 \in 1..(Len(h) + 1)
    BY <1>1
  <2>4. DecidedTo(h, p + 2, c.end)
    BY <1>0, <2>2, <2>3, DecidedUnique
  <2> QED BY <1>1, <1>4, <1>5, <1>11, <2>1, <2>2, <2>4 DEF BatchesAgree
<1> QED BY <1>1, <1>5, <1>10, <1>11

\* Two histories of which one goes on in the other.
LEMMA UpToIs ==
  ASSUME NEW h, NEW p, NEW g, UpTo(g, h, p)
  PROVE  /\ Len(h) \in Nat /\ p \in Nat /\ p >= 1 /\ p < Len(h)
         /\ IsSequence(h) /\ IsSequence(g) /\ Len(g) = p /\ \A i \in 1..p : g[i] = h[i]
<1>0. IsSequence(h) /\ AnsweredAt(h, p) /\ g = SubSeq(h, 1, p)
  BY DEF UpTo
<1>1. Len(h) \in Nat /\ p \in Nat /\ p >= 1 /\ p < Len(h)
  BY <1>0, SequenceIs DEF AnsweredAt
<1>2. IsSequence(g) /\ Len(g) = p
  BY <1>0, <1>1, SequencePrefix
<1>3. \A i \in 1..p : g[i] = h[i]
  BY <1>0, <1>1 DEF IsSequence
<1> QED BY <1>0, <1>1, <1>2, <1>3

-----------------------------------------------------------------------------
(* A replay as a set of states *)

\* What is new is being decided, or has been.
Answering(s) == ~s.batch.replay /\ s.phase \in {"loop", "decision_events", "next"}

\* R has the states of a replay of the history h, up to e.
Trace(R, e, h, w) ==
  /\ Start \in R /\ e \in R
  /\ \A s \in R : Placed(s, h) /\ DOMAIN s.markers \subseteq DOMAIN e.markers
  /\ \A s \in R : s # e => (s.phase = "next" => s.at <= Len(h)) /\ Succ(s, h, w) \in R

\* B are the versions that were known before anything new was decided.
Known(R, B) ==
  \A s \in R : /\ s.phase = "events" => DOMAIN s.markers \subseteq B
               /\ s.phase = "loop" /\ ~s.batch.replay => B \subseteq DOMAIN s.markers

\* A version once known stays known.
LEMMA MarkersGrow ==
  ASSUME NEW s, NEW h, IsSequence(h), NEW w, Placed(s, h), NEW t, t = Succ(s, h, w)
  PROVE  DOMAIN s.markers \subseteq DOMAIN t.markers
<1>1. ASSUME NEW results, NEW S PROVE DOMAIN results \subseteq DOMAIN Marked(h, results, S)
  BY DEF Marked
<1>2. CASE t = AfterEvent(s, w, h)
  <2>1. t.markers = MarkersAfterEvent(s.markers, h, s.at)
    BY <1>2 DEF AfterEvent, State
  <2> QED BY <1>1, <2>1 DEF MarkersAfterEvent
<1>3. CASE t = AfterStep(s, w)
  <2>1. t.markers = MarkersAfterStep(s.code, w, s.markers, s.batch.replay)
    BY <1>3 DEF AfterStep, State
  <2>2. ASSUME NEW change, NEW v PROVE DOMAIN s.markers \subseteq DOMAIN With(s.markers, change, v)
    BY WithIs
  <2>3. ASSUME NEW change, NEW replay PROVE DOMAIN s.markers \subseteq DOMAIN MarkersAsked(s.markers, change, replay)
    BY <2>2 DEF MarkersAsked
  <2> QED BY <2>1, <2>3 DEF MarkersAfterStep
<1>4. CASE t = BatchBegins(s, h)
  <2>1. t.markers = Marked(h, s.markers, MarkersOf(h, Batch(h, s.at)))
    BY <1>4 DEF BatchBegins, State
  <2> QED BY <1>1, <2>1
<1>5. CASE t = Goes(s, s.batch.end) \/ t = Goes(s, s.at) \/ t = LoopBegins(s) \/ t = LoopEnds(s)
  <2>1. t.markers = s.markers
    BY <1>5 DEF Goes, LoopBegins, LoopEnds, State
  <2> QED BY <2>1
<1>6. s.phase \in {"next", "events", "loop", "decision_events"}
  BY DEF Placed
<1> QED BY <1>2, <1>3, <1>4, <1>5, <1>6, SuccPlace

\* One step more.
LEMMA TraceGrows ==
  ASSUME NEW R, NEW e, NEW h, IsSequence(h), NEW w, Trace(R, e, h, w),
         e.phase = "next" => e.at <= Len(h), NEW t, t = Succ(e, h, w)
  PROVE  Trace(R \cup {t}, t, h, w)
<1>1. /\ Start \in R /\ e \in R
      /\ \A s \in R : Placed(s, h) /\ DOMAIN s.markers \subseteq DOMAIN e.markers
      /\ \A s \in R : s # e => (s.phase = "next" => s.at <= Len(h)) /\ Succ(s, h, w) \in R
  BY DEF Trace
<1>2. Placed(e, h)
  BY <1>1
<1>3. Placed(t, h) /\ DOMAIN e.markers \subseteq DOMAIN t.markers
  BY <1>2, PlacedSucc, MarkersGrow
<1>4. \A s \in R \cup {t} : Placed(s, h) /\ DOMAIN s.markers \subseteq DOMAIN t.markers
  BY <1>1, <1>3
<1>5. \A s \in R \cup {t} : s # t => (s.phase = "next" => s.at <= Len(h)) /\ Succ(s, h, w) \in R \cup {t}
  BY <1>1
<1> QED BY <1>1, <1>4, <1>5, Zenon DEF Trace

\* Nothing done yet.
LEMMA TraceStarts ==
  ASSUME NEW h, NEW w
  PROVE  Trace({Start}, Start, h, w) /\ ~Answering(Start)
<1>1. Placed(Start, h)
  BY StartPlaced
<1>2. Start.batch.replay
  BY DEF Start, State, NoBatch
<1> QED BY <1>1, <1>2, Zenon DEF Trace, Answering

-----------------------------------------------------------------------------
(* A replay of a history that goes on *)

\* An event does the same in both.
LEMMA EventAlike ==
  ASSUME NEW s, NEW g, NEW h, NEW w, NEW n \in Nat, s.at \in 1..n, g[s.at] = h[s.at]
  PROVE  AfterEvent(s, w, g) = AfterEvent(s, w, h)
<1>1. MarkersAfterEvent(s.markers, g, s.at) = MarkersAfterEvent(s.markers, h, s.at)
  <2>1. Marked(g, s.markers, {s.at}) = Marked(h, s.markers, {s.at})
    <3>1. {s.at} \subseteq 1..n /\ \A i \in {s.at} : g[i] = h[i]
      OBVIOUS
    <3> QED BY <3>1, MarkedAlike
  <2> QED BY <2>1, Zenon DEF MarkersAfterEvent
<1> QED BY <1>1, Zenon DEF AfterEvent

\* Up to the batch that was decided last, a replay of the whole history is the one of
\* its beginning.
LEMMA SameSucc ==
  ASSUME NEW h, NEW p, NEW g, UpTo(g, h, p), NEW w, NEW s, Placed(s, g),
         s.phase = "next" => s.at \in 1..p /\ Batch(g, s.at).stop < p,
         s.phase # "next" => s.batch.replay,
         NEW t, t = Succ(s, g, w)
  PROVE  Succ(s, h, w) = t /\ (t.phase = "next" \/ t.batch.replay)
<1>1. Len(h) \in Nat /\ p \in Nat /\ p >= 1 /\ p < Len(h)
      /\ IsSequence(h) /\ IsSequence(g) /\ Len(g) = p /\ \A i \in 1..p : g[i] = h[i]
  BY UpToIs
<1>2. IsSequence(g) /\ Len(g) = p
  BY <1>1
<1>3. \A i \in 1..p : g[i] = h[i]
  BY <1>1
<1>4. CASE s.phase = "next"
  <2> DEFINE b == Batch(g, s.at)
  <2>1. s.at \in 1..p /\ b.stop < p
    BY <1>4
  <2>2. Batch(h, s.at) = b /\ b.replay
    BY <2>1, SameBatch DEF BatchesAgree
  <2>3. b.next_decision_event_id = b.stop + 2 /\ DecidedTo(g, b.stop + 2, b.end) /\ b.stop \in Nat
    <3>1. /\ StopsAt(g, s.at, b.stop)
          /\ b.next_decision_event_id = b.stop + 2
          /\ IF b.replay THEN DecidedTo(g, b.stop + 2, b.end) ELSE b.end = b.stop + 1
      BY ONLY <1>2, <2>1, BatchLies
    <3>2. b.stop \in Nat
      BY <2>1, <3>1 DEF StopsAt
    <3> QED BY <2>2, <3>1, <3>2, Zenon
  <2> HIDE DEF b
  <2>4. BatchDecisionEvents(b) \subseteq 1..p
    <3>1. b.end \in (b.stop + 2)..(p + 1)
      BY <1>2, <2>3 DEF DecidedTo
    <3> QED BY <1>1, <2>3, <3>1 DEF BatchDecisionEvents
  <2>5. MarkersOf(g, b) = MarkersOf(h, b) /\ MarkersOf(g, b) \subseteq 1..p
    BY <1>3, <2>4 DEF MarkersOf
  <2>6. Marked(g, s.markers, MarkersOf(g, b)) = Marked(h, s.markers, MarkersOf(h, b))
    <3>1. \A i \in MarkersOf(g, b) : g[i] = h[i]
      BY <1>3, <2>5
    <3>2. Marked(g, s.markers, MarkersOf(g, b)) = Marked(h, s.markers, MarkersOf(g, b))
      BY ONLY <1>1, <2>5, <3>1, MarkedAlike
    <3> QED BY <2>5, <3>2, Zenon
  <2>7. BatchBegins(s, g) = BatchBegins(s, h)
    BY <2>2, <2>6, Zenon DEF BatchBegins, b
  <2>8. Succ(s, g, w) = BatchBegins(s, g) /\ Succ(s, h, w) = BatchBegins(s, h)
    BY <1>4, Zenon DEF Succ
  <2>9. t.batch = b
    <3>1. BatchBegins(s, g).batch = Batch(g, s.at)
      BY DEF BatchBegins, State
    <3> QED BY <2>8, <3>1, Zenon DEF b
  <2> QED BY <2>2, <2>7, <2>8, <2>9, Zenon
<1>5. CASE s.phase # "next"
  <2> DEFINE b == s.batch
  <2>1. /\ b.from \in 1..p /\ b.stop \in b.from..p /\ b.end \in 1..(p + 1)
        /\ s.at \in Nat /\ s.at > 0
        /\ s.phase = "events" => s.at <= b.stop
        /\ s.phase = "loop" => s.at = b.stop
        /\ s.phase = "decision_events" => s.at <= b.end
    BY <1>2, <1>5, BatchPlaced DEF LiesIn
  <2>2. b.stop \in Nat /\ b.end \in Nat /\ b.stop <= p /\ b.end <= p + 1
    BY <1>1, <2>1
  <2>3. b.replay
    BY <1>5
  <2> HIDE DEF b
  <2>4. s.phase \in {"events", "loop", "decision_events"}
    BY <1>5 DEF Placed
  <2>5. ASSUME s.at <= p
        PROVE  /\ AfterEvent(s, w, g) = AfterEvent(s, w, h)
               /\ AfterEvent(s, w, g).batch = b
    <3>1. s.at \in 1..p
      BY <1>1, <2>1, <2>5
    <3>2. AfterEvent(s, w, g).batch = b
      BY DEF AfterEvent, State, b
    <3>3. g[s.at] = h[s.at]
      BY <1>3, <3>1
    <3>4. AfterEvent(s, w, g) = AfterEvent(s, w, h)
      <4>1. p \in Nat
        BY <1>1
      <4> QED BY ONLY <3>1, <3>3, <4>1, EventAlike
    <3> QED BY <3>2, <3>4
  <2>6. CASE s.phase = "events" /\ s.at < b.stop
    <3>1. s.at <= p
      BY <1>1, <2>1, <2>2, <2>6
    <3>2. Succ(s, g, w) = AfterEvent(s, w, g) /\ Succ(s, h, w) = AfterEvent(s, w, h)
      BY <2>1, <2>2, <2>6, SuccIs DEF b
    <3> QED BY <2>3, <2>5, <3>1, <3>2
  <2>7. CASE s.phase = "events" /\ s.at >= b.stop
    <3>1. CASE s.decider.completed
      <4>1. Succ(s, g, w) = Goes(s, b.end) /\ Succ(s, h, w) = Goes(s, b.end)
        BY <2>1, <2>2, <2>7, <3>1, SuccIs DEF b
      <4>2. Goes(s, b.end).phase = "next"
        BY DEF Goes, State
      <4> QED BY <4>1, <4>2, Zenon
    <3>2. CASE ~s.decider.completed
      <4>1. Succ(s, g, w) = LoopBegins(s) /\ Succ(s, h, w) = LoopBegins(s)
        BY <2>1, <2>2, <2>7, <3>2, SuccIs DEF b
      <4>2. LoopBegins(s).batch = b
        BY DEF LoopBegins, State, b
      <4> QED BY <2>3, <4>1, <4>2, Zenon
    <3> QED BY <3>1, <3>2
  <2>8. CASE s.phase = "loop"
    <3>1. CASE s.code.quota = 0 /\ s.code.running = 0
      <4>1. Succ(s, g, w) = LoopEnds(s) /\ Succ(s, h, w) = LoopEnds(s)
        BY <2>1, <2>2, <2>8, <3>1, SuccIs DEF b
      <4>2. LoopEnds(s).batch = b
        BY DEF LoopEnds, State, b
      <4> QED BY <2>3, <4>1, <4>2, Zenon
    <3>2. CASE ~(s.code.quota = 0 /\ s.code.running = 0)
      <4>1. Succ(s, g, w) = AfterStep(s, w) /\ Succ(s, h, w) = AfterStep(s, w)
        BY <2>1, <2>2, <2>8, <3>2, SuccIs DEF b
      <4>2. AfterStep(s, w).batch = b
        BY DEF AfterStep, State, b
      <4> QED BY <2>3, <4>1, <4>2, Zenon
    <3> QED BY <3>1, <3>2
  <2>9. CASE s.phase = "decision_events" /\ s.at < b.end
    <3>1. s.at <= p
      BY <1>1, <2>1, <2>2, <2>9
    <3>2. Succ(s, g, w) = AfterEvent(s, w, g) /\ Succ(s, h, w) = AfterEvent(s, w, h)
      BY <2>1, <2>2, <2>9, SuccIs DEF b
    <3> QED BY <2>3, <2>5, <3>1, <3>2
  <2>10. CASE s.phase = "decision_events" /\ s.at >= b.end
    <3>1. Succ(s, g, w) = Goes(s, s.at) /\ Succ(s, h, w) = Goes(s, s.at)
      BY <2>1, <2>2, <2>10, SuccIs DEF b
    <3>2. Goes(s, s.at).phase = "next"
      BY DEF Goes, State
    <3> QED BY <3>1, <3>2, Zenon
  <2> QED BY <2>1, <2>2, <2>4, <2>6, <2>7, <2>8, <2>9, <2>10
<1> QED BY <1>4, <1>5

-----------------------------------------------------------------------------
(* What was decided, and its replay *)

\* The results ms when the decisions were made, and mt in a replay: the versions of E,
\* which were decided then, are known from the start.
Alike(ms, mt, E) ==
  /\ \A c \in DOMAIN ms : c \in DOMAIN mt /\ mt[c].data = ms[c].data
  /\ \A c \in DOMAIN mt : c \notin DOMAIN ms => mt[c].data = MAX_SUPPORTED
  /\ E \subseteq DOMAIN mt

\* The change that the code asks about.
Asked(c, w) == OpIn(w, c.task[c.running]).arg

\* A replay learns the same version as the code did when it was new.
LEMMA LearnsAlike ==
  ASSUME NEW ms, NEW mt, NEW E, Alike(ms, mt, E), NEW c, c \in DOMAIN ms \/ c \in E
  PROVE  Learns(ms, c, FALSE) = Learns(mt, c, TRUE) /\ c \in DOMAIN mt
<1>1. c \in DOMAIN mt
  BY DEF Alike
<1>2. CASE c \in DOMAIN ms
  <2>1. mt[c].data = ms[c].data
    BY <1>2 DEF Alike
  <2> QED BY <1>1, <1>2, <2>1 DEF Learns
<1>3. CASE c \notin DOMAIN ms
  <2>1. mt[c].data = MAX_SUPPORTED
    BY <1>1, <1>3 DEF Alike
  <2> QED BY <1>1, <1>3, <2>1 DEF Learns
<1> QED BY <1>2, <1>3, <1>1

\* The code does the same.
LEMMA CodeAlike ==
  ASSUME NEW c, NEW w, NEW ms, NEW mt,
         Asks(c, w) => Learns(ms, Asked(c, w), FALSE) = Learns(mt, Asked(c, w), TRUE)
  PROVE  CodeAfterStep(c, w, ms, FALSE) = CodeAfterStep(c, w, mt, TRUE)
<1> DEFINE r == c.task[c.running]
           o == OpIn(w, r)
<1>1. ASSUME Stands(c, w), ~r.entered PROVE CodeBegins(c, o, ms, FALSE) = CodeBegins(c, o, mt, TRUE)
  <2>1. CASE o.op = "get_version"
    <3>1. Asks(c, w)
      BY <1>1, <2>1 DEF Asks
    <3>2. Learns(ms, o.arg, FALSE) = Learns(mt, o.arg, TRUE)
      BY <3>1 DEF Asked
    <3> HIDE DEF o
    <3> QED BY <2>1, <3>2 DEF CodeBegins
  <2>2. CASE o.op # "get_version"
    <3> HIDE DEF o
    <3> QED BY <2>2 DEF CodeBegins
  <2> QED BY <2>1, <2>2
<1> QED BY <1>1, Zenon DEF CodeAfterStep

\* And it knows the same versions afterwards.
LEMMA MarkersAlike ==
  ASSUME NEW c, NEW w, NEW ms, NEW mt, NEW E, Alike(ms, mt, E),
         Asks(c, w) => Asked(c, w) \in DOMAIN ms \/ Asked(c, w) \in E
  PROVE  Alike(MarkersAfterStep(c, w, ms, FALSE), MarkersAfterStep(c, w, mt, TRUE), E)
<1>1. CASE ~Asks(c, w)
  BY <1>1, Zenon DEF MarkersAfterStep
<1>2. CASE Asks(c, w)
  <2> DEFINE x == Asked(c, w)
             ns == MarkersAsked(ms, x, FALSE)
             nt == MarkersAsked(mt, x, TRUE)
  <2>1. MarkersAfterStep(c, w, ms, FALSE) = ns /\ MarkersAfterStep(c, w, mt, TRUE) = nt
    BY <1>2, Zenon DEF MarkersAfterStep, Asked
  <2>2. x \in DOMAIN mt /\ (x \in DOMAIN ms \/ x \in E)
    BY <1>2, LearnsAlike
  <2> HIDE DEF x
  <2>3. /\ DOMAIN nt = DOMAIN mt
        /\ \A y \in DOMAIN mt : nt[y].data = mt[y].data
    <3>1. CASE Records(mt, x, TRUE)
      <4> DEFINE v == [data |-> VersionRecorded(mt, x), replayed |-> x \in DOMAIN mt]
      <4>1. nt = With(mt, x, v)
        BY <3>1 DEF MarkersAsked
      <4>2. v.data = mt[x].data
        BY <2>2 DEF VersionRecorded
      <4> HIDE DEF v, nt
      <4>3. /\ \A i : i \in DOMAIN nt <=> i \in DOMAIN mt \/ i = x
            /\ nt[x] = v
            /\ \A i \in DOMAIN mt : i # x => nt[i] = mt[i]
        BY <4>1, WithIs
      <4> QED BY <2>2, <4>2, <4>3
    <3>2. CASE ~Records(mt, x, TRUE)
      BY <2>2, <3>2 DEF MarkersAsked
    <3> QED BY <3>1, <3>2
  <2>4. /\ \A y : y \in DOMAIN ns <=> y \in DOMAIN ms \/ y = x
        /\ \A y \in DOMAIN ms : ns[y] = ms[y]
        /\ x \notin DOMAIN ms => ns[x].data = MAX_SUPPORTED
    <3>1. CASE x \in DOMAIN ms
      <4>1. ns = ms
        BY <3>1 DEF MarkersAsked, Records
      <4> QED BY <3>1, <4>1
    <3>2. CASE x \notin DOMAIN ms
      <4> DEFINE v == [data |-> VersionRecorded(ms, x), replayed |-> x \in DOMAIN ms]
      <4>1. ns = With(ms, x, v)
        BY <3>2 DEF MarkersAsked, Records
      <4>2. v.data = MAX_SUPPORTED
        BY <3>2 DEF VersionRecorded
      <4> HIDE DEF v, ns
      <4>3. /\ \A i : i \in DOMAIN ns <=> i \in DOMAIN ms \/ i = x
            /\ ns[x] = v
            /\ \A i \in DOMAIN ms : i # x => ns[i] = ms[i]
        BY <4>1, WithIs
      <4> QED BY <3>2, <4>2, <4>3
    <3> QED BY <3>1, <3>2
  <2> HIDE DEF ns, nt
  <2>5. /\ \A y \in DOMAIN ms : y \in DOMAIN mt /\ mt[y].data = ms[y].data
        /\ \A y \in DOMAIN mt : y \notin DOMAIN ms => mt[y].data = MAX_SUPPORTED
        /\ E \subseteq DOMAIN mt
    BY DEF Alike
  <2>6. ASSUME NEW y \in DOMAIN ns PROVE y \in DOMAIN nt /\ nt[y].data = ns[y].data
    BY <2>2, <2>3, <2>4, <2>5, <2>6
  <2>7. ASSUME NEW y \in DOMAIN nt, y \notin DOMAIN ns PROVE nt[y].data = MAX_SUPPORTED
    BY <2>3, <2>4, <2>5, <2>7
  <2>8. E \subseteq DOMAIN nt
    BY <2>3, <2>5
  <2>9. Alike(ns, nt, E)
    BY <2>6, <2>7, <2>8 DEF Alike
  <2> QED BY <2>1, <2>9
<1> QED BY <1>1, <1>2

\* An event that records a marker does so in both.
LEMMA MarkedAreAlike ==
  ASSUME NEW ms, NEW mt, NEW E, Alike(ms, mt, E), NEW h, NEW n \in Nat, NEW S, S \subseteq 1..n
  PROVE  Alike(Marked(h, ms, S), Marked(h, mt, S), E)
<1> DEFINE ns == Marked(h, ms, S)
           nt == Marked(h, mt, S)
           D == {h[i].name : i \in S}
<1>1. MarkedBy(ns, h, ms, S) /\ MarkedBy(nt, h, mt, S)
  BY MarkedIs
<1> HIDE DEF ns, nt
<1>2. DOMAIN ns = DOMAIN ms \cup D /\ DOMAIN nt = DOMAIN mt \cup D
  BY <1>1 DEF MarkedBy
<1>3. ASSUME NEW c \in D PROVE ns[c] = nt[c]
  <2>1. PICK k \in S : h[k].name = c
    OBVIOUS
  <2>2. PICK i : IsLast(h, S, c, i)
    BY <2>1, LastIs
  <2>3. ns[c] = [data |-> h[i].ref, replayed |-> FALSE] /\ nt[c] = [data |-> h[i].ref, replayed |-> FALSE]
    BY <1>1, <2>2, Zenon DEF MarkedBy
  <2> QED BY <2>3
<1>4. ASSUME NEW c, c \notin D
      PROVE  (c \in DOMAIN ms => ns[c] = ms[c]) /\ (c \in DOMAIN mt => nt[c] = mt[c])
  <2>1. \A i \in S : h[i].name # c
    BY <1>4
  <2> QED BY <1>1, <2>1 DEF MarkedBy
<1> HIDE DEF D
<1>5. /\ \A y \in DOMAIN ms : y \in DOMAIN mt /\ mt[y].data = ms[y].data
      /\ \A y \in DOMAIN mt : y \notin DOMAIN ms => mt[y].data = MAX_SUPPORTED
      /\ E \subseteq DOMAIN mt
  BY DEF Alike
<1>6. ASSUME NEW y \in DOMAIN ns PROVE y \in DOMAIN nt /\ nt[y].data = ns[y].data
  BY <1>2, <1>3, <1>4, <1>5, <1>6
<1>7. ASSUME NEW y \in DOMAIN nt, y \notin DOMAIN ns PROVE nt[y].data = MAX_SUPPORTED
  BY <1>2, <1>3, <1>4, <1>5, <1>7
<1>8. E \subseteq DOMAIN nt
  BY <1>2, <1>5
<1>9. Alike(ns, nt, E)
  BY <1>6, <1>7, <1>8 DEF Alike
<1> QED BY <1>9 DEF ns, nt

-----------------------------------------------------------------------------
(* How far the code has come *)

\* The code has come to the operation k of the task t, and begun it.
Begun(c, t, k) ==
  /\ t \in DOMAIN c.task /\ k \in Nat
  /\ k < c.task[t].pc \/ (k = c.task[t].pc /\ c.task[t].entered)

\* The code d has begun all that c had.
Further(c, d) == \A t, k : Begun(c, t, k) => Begun(d, t, k)

\* The activities in the history h are of operations that are begun.
Covers(h, c) ==
  \A i \in DOMAIN h : h[i].type = "ActivityTaskScheduled" => \E t, k : h[i].name = <<t, k>> /\ Begun(c, t, k)

\* The tasks have their fields.
Coded(c) ==
  /\ IsSequence(c.task)
  /\ \A t \in DOMAIN c.task : c.task[t] = Bare(c.task[t]) /\ c.task[t].pc \in Nat

\* A task stays at its operation, or leaves it.
Along(r, q) == (q.pc = r.pc /\ (r.entered => q.entered)) \/ q.pc = r.pc + 1

\* The code goes no way back, and need not go on.
LEMMA FurtherOn ==
  /\ \A c : Further(c, c)
  /\ \A c, d, e : Further(c, d) /\ Further(d, e) => Further(c, e)
  /\ \A h, c, d : Covers(h, c) /\ Further(c, d) => Covers(h, d)
<1>1. \A c : Further(c, c)
  BY Zenon DEF Further
<1>2. \A c, d, e : Further(c, d) /\ Further(d, e) => Further(c, e)
  BY Zenon DEF Further
<1>3. \A h, c, d : Covers(h, c) /\ Further(c, d) => Covers(h, d)
  BY Zenon DEF Covers, Further
<1> QED BY <1>1, <1>2, <1>3

\* What is added to a history without an answer is no activity.
LEMMA CoversStays ==
  ASSUME NEW g, IsSequence(g), NEW h, IsSequence(h), GoesOn(g, h), NEW c, Covers(g, c)
  PROVE  Covers(h, c)
<1>1. /\ Len(g) \in Nat /\ DOMAIN g = 1..Len(g) /\ Len(h) \in Nat /\ DOMAIN h = 1..Len(h)
  BY SequenceIs
<1>2. /\ \A i \in 1..Len(g) : h[i] = g[i]
      /\ \A i \in (Len(g) + 1)..Len(h) : ~is_decision_event(h[i])
  BY Zenon DEF GoesOn, Continues
<1>3. ASSUME NEW i \in DOMAIN h, h[i].type = "ActivityTaskScheduled"
      PROVE  i \in DOMAIN g /\ h[i] = g[i]
  <2>1. i \notin (Len(g) + 1)..Len(h)
    BY <1>2, <1>3 DEF is_decision_event, DecisionEventTypes
  <2>2. i \in 1..Len(g)
    BY <1>1, <2>1
  <2> QED BY <1>1, <1>2, <2>2
<1> QED BY <1>3, Zenon DEF Covers

\* All tasks stay, or go along.
LEMMA AllAlong ==
  ASSUME NEW c, Coded(c), NEW d, DOMAIN c.task \subseteq DOMAIN d.task,
         \A t \in DOMAIN c.task : Along(c.task[t], d.task[t])
  PROVE  Further(c, d)
<1> SUFFICES ASSUME NEW t, NEW k, Begun(c, t, k) PROVE Begun(d, t, k)
  BY DEF Further
<1>1. /\ t \in DOMAIN c.task /\ k \in Nat /\ c.task[t].pc \in Nat
      /\ k < c.task[t].pc \/ (k = c.task[t].pc /\ c.task[t].entered)
  BY DEF Begun, Coded
<1>2. CASE d.task[t].pc = c.task[t].pc /\ (c.task[t].entered => d.task[t].entered)
  BY <1>1, <1>2 DEF Begun
<1>3. CASE d.task[t].pc = c.task[t].pc + 1
  <2>1. k < d.task[t].pc
    BY <1>1, <1>3
  <2> QED BY <1>1, <2>1 DEF Begun
<1> QED BY <1>1, <1>2, <1>3 DEF Along

\* One task goes along.
LEMMA OneAlong ==
  ASSUME NEW c, Coded(c), NEW t, NEW q, t \in DOMAIN c.task => Along(c.task[t], q),
         NEW d, d.task = [c.task EXCEPT ![t] = q]
  PROVE  Further(c, d)
<1>1. DOMAIN d.task = DOMAIN c.task
  BY SequenceIs DEF Coded
<1>2. ASSUME NEW u \in DOMAIN c.task PROVE Along(c.task[u], d.task[u])
  <2>1. CASE u = t
    BY <2>1
  <2>2. CASE u # t
    <3>1. d.task[u] = c.task[u]
      BY <2>2
    <3> QED BY <3>1 DEF Along
  <2> QED BY <2>1, <2>2
<1> QED BY <1>1, <1>2, AllAlong

\* A task whose field changes stays.
LEMMA FieldAlong ==
  ASSUME NEW r, r = Bare(r), NEW v
  PROVE  /\ Along(r, [r EXCEPT !.awaited = v]) /\ Along(r, [r EXCEPT !.result = v])
         /\ Along(r, [r EXCEPT !.fired = v]) /\ Along(r, [r EXCEPT !.entered = TRUE])
         /\ Along(r, r)
<1> DEFINE x == [name |-> r.name, pc |-> r.pc, entered |-> r.entered, awaited |-> r.awaited,
                 fired |-> r.fired, result |-> r.result]
<1>1. r = x
  BY DEF Bare
<1>2. /\ Along(x, [x EXCEPT !.awaited = v]) /\ Along(x, [x EXCEPT !.result = v])
      /\ Along(x, [x EXCEPT !.fired = v]) /\ Along(x, [x EXCEPT !.entered = TRUE])
      /\ Along(x, x)
  BY DEF Along
<1> HIDE DEF x
<1> QED BY <1>1, <1>2

\* What an event does to the code.
LEMMA EventFurther ==
  ASSUME NEW c, Coded(c), NEW d, NEW w, NEW event, NEW id, NEW e, e = CodeAfterEvent(c, d, w, event, id)
  PROVE  Further(c, e)
<1>1. CASE e = c
  BY <1>1, FurtherOn
<1>2. CASE \E name : e = AfterNew(c, name)
  <2>1. PICK name : e = AfterNew(c, name)
    BY <1>2
  <2>2. e.task = Append(c.task, Bare(Created(name)))
    BY <2>1 DEF AfterNew, Code
  <2>3. DOMAIN c.task \subseteq DOMAIN e.task /\ \A t \in DOMAIN c.task : e.task[t] = c.task[t]
    BY <2>2, SequenceAppend DEF Coded
  <2>4. \A t \in DOMAIN c.task : Along(c.task[t], e.task[t])
    BY <2>3 DEF Along
  <2> QED BY <2>3, <2>4, AllAlong
<1>3. CASE \E t, result : e = Resolved(c, t, result)
  <2>1. PICK t, result : e = Resolved(c, t, result)
    BY <1>3
  <2>2. e.task = [c.task EXCEPT ![t].result = result]
    BY <2>1 DEF Resolved, Woken, Code
  <2>3. PICK q : q = [c.task[t] EXCEPT !.result = result]
    OBVIOUS
  <2>4. e.task = [c.task EXCEPT ![t] = q]
    BY <2>2, <2>3
  <2>5. t \in DOMAIN c.task => Along(c.task[t], q)
    BY <2>3, FieldAlong DEF Coded
  <2> QED BY <2>4, <2>5, OneAlong
<1>4. CASE \E t : e = Noted(c, t)
  <2>1. PICK t : e = Noted(c, t)
    BY <1>4
  <2>2. e.task = [c.task EXCEPT ![t].fired = TRUE]
    BY <2>1 DEF Noted, Woken, Code
  <2>3. PICK q : q = [c.task[t] EXCEPT !.fired = TRUE]
    OBVIOUS
  <2>4. e.task = [c.task EXCEPT ![t] = q]
    BY <2>2, <2>3
  <2>5. t \in DOMAIN c.task => Along(c.task[t], q)
    BY <2>3, FieldAlong DEF Coded
  <2> QED BY <2>4, <2>5, OneAlong
<1>5. \/ e = c \/ (\E name : e = AfterNew(c, name))
      \/ (\E t, result : e = Resolved(c, t, result)) \/ (\E t : e = Noted(c, t))
  <2>1. CASE event.type \in {"WorkflowExecutionStarted", "WorkflowExecutionSignaled"}
    BY <2>1 DEF CodeAfterEvent
  <2>2. CASE event.type \in ActivityClosed
    BY <2>2 DEF CodeAfterEvent, ActivityClosed
  <2>3. CASE event.type = "TimerFired"
    BY <2>3 DEF CodeAfterEvent, ActivityClosed
  <2>4. CASE /\ event.type \notin {"WorkflowExecutionStarted", "WorkflowExecutionSignaled"}
             /\ event.type \notin ActivityClosed /\ event.type # "TimerFired"
    BY <2>4 DEF CodeAfterEvent
  <2> QED BY <2>1, <2>2, <2>3, <2>4
<1> QED BY <1>1, <1>2, <1>3, <1>4, <1>5

\* unblock_all wakes tasks where they stand.
LEMMA UnblockingFurther ==
  ASSUME NEW c, Coded(c)
  PROVE  Further(c, Unblocking(c))
<1> DEFINE e == Unblocking(c)
<1>1. e.task = [t \in DOMAIN c.task |->
                  IF t \in ToSet(c.tasks) /\ c.task[t].awaited = "pending"
                  THEN [c.task[t] EXCEPT !.awaited = "set"] ELSE c.task[t]]
  BY DEF Unblocking, Code
<1> HIDE DEF e
<1>2. DOMAIN e.task = DOMAIN c.task
  BY <1>1
<1>3. ASSUME NEW t \in DOMAIN c.task PROVE Along(c.task[t], e.task[t])
  <2>1. e.task[t] = [c.task[t] EXCEPT !.awaited = "set"] \/ e.task[t] = c.task[t]
    BY <1>1
  <2>2. Along(c.task[t], [c.task[t] EXCEPT !.awaited = "set"]) /\ Along(c.task[t], c.task[t])
    BY FieldAlong DEF Coded
  <2> QED BY <2>1, <2>2, Zenon
<1> QED BY <1>2, <1>3, AllAlong DEF e

\* A task that stands at an operation can run it.
Runnable(c, w) ==
  Stands(c, w) =>
    OpIn(w, c.task[c.running]).op \in
      {"activity", "sleep", "await", "await_timeout", "await_failing"}
        \cup IF c.task[c.running].entered THEN {} ELSE {"get_version", "set"}

\* What a step of the event loop does to it.
LEMMA LoopFurther ==
  ASSUME NEW c, Coded(c), NEW w, Runnable(c, w), NEW markers, NEW replay,
         NEW e, e = CodeAfterStep(c, w, markers, replay)
  PROVE  Further(c, e)
<1>1. ASSUME e.task = c.task PROVE Further(c, e)
  BY <1>1, Zenon DEF Further, Begun
<1>2. ASSUME NEW outcome, NEW set, e = Leaving(c, outcome, set) PROVE Further(c, e)
  <2>1. PICK q : q = [name |-> c.task[c.running].name, pc |-> c.task[c.running].pc + 1, entered |-> FALSE,
                      awaited |-> "none", fired |-> FALSE, result |-> "none"]
    OBVIOUS
  <2>2. e.task = [c.task EXCEPT ![c.running] = q]
    BY <1>2, <2>1 DEF Leaving, Code
  <2>3. q.pc = c.task[c.running].pc + 1
    BY <2>1
  <2>4. Along(c.task[c.running], q)
    BY <2>3 DEF Along
  <2> QED BY <2>2, <2>4, OneAlong
<1>3. ASSUME NEW current, e = Entering(c, current) PROVE Further(c, e)
  <2>1. e.task = [c.task EXCEPT ![c.running].entered = TRUE]
    BY <1>3 DEF Entering, Code
  <2>2. PICK q : q = [c.task[c.running] EXCEPT !.entered = TRUE]
    OBVIOUS
  <2>3. e.task = [c.task EXCEPT ![c.running] = q]
    BY <2>1, <2>2
  <2>4. c.running \in DOMAIN c.task => Along(c.task[c.running], q)
    BY <2>2, FieldAlong DEF Coded
  <2> QED BY <2>3, <2>4, OneAlong
<1>4. ASSUME e = Blocking(c) PROVE Further(c, e)
  <2>1. e.task = [c.task EXCEPT ![c.running].awaited = "pending"]
    BY <1>4 DEF Blocking, Code
  <2>2. PICK q : q = [c.task[c.running] EXCEPT !.awaited = "pending"]
    OBVIOUS
  <2>3. e.task = [c.task EXCEPT ![c.running] = q]
    BY <2>1, <2>2
  <2>4. c.running \in DOMAIN c.task => Along(c.task[c.running], q)
    BY <2>2, FieldAlong DEF Coded
  <2> QED BY <2>3, <2>4, OneAlong
<1>5. ASSUME NEW outcome, e = Raising(c, outcome) PROVE Further(c, e)
  <2>1. e.task = c.task
    BY <1>5 DEF Raising, Code
  <2> QED BY <1>1, <2>1
<1>6. CASE c.running = 0
  <2>1. e = Starting(c)
    BY <1>6, Zenon DEF CodeAfterStep
  <2>2. e.task = c.task
    BY <2>1 DEF Starting, Code
  <2> QED BY <1>1, <2>2
<1>7. CASE c.running # 0 /\ ~Stands(c, w)
  <2>1. \E all : e = Ending(c, all)
    BY <1>7, Zenon DEF CodeAfterStep
  <2>2. e.task = c.task
    BY <2>1 DEF Ending, Code
  <2> QED BY <1>1, <2>2
<1>8. CASE c.running # 0 /\ Stands(c, w)
  <2>1. PICK o : o = OpIn(w, c.task[c.running])
    OBVIOUS
  <2>2. e = IF c.task[c.running].entered THEN CodeGoesOn(c, o) ELSE CodeBegins(c, o, markers, replay)
    BY <1>8, <2>1, Zenon DEF CodeAfterStep
  <2>3. CASE c.task[c.running].entered
    <3>1. o.op \in {"activity", "sleep", "await", "await_timeout", "await_failing"}
      BY <1>8, <2>1, <2>3 DEF Runnable
    <3>2. \/ \E outcome, set : e = Leaving(c, outcome, set)
          \/ \E outcome : e = Raising(c, outcome)
          \/ e = Blocking(c)
      BY <2>2, <2>3, <3>1 DEF CodeGoesOn
    <3> QED BY <1>2, <1>4, <1>5, <3>2
  <2>4. CASE ~c.task[c.running].entered
    <3>1. o.op \in {"activity", "sleep", "await", "await_timeout", "await_failing", "get_version", "set"}
      BY <1>8, <2>1, <2>4 DEF Runnable
    <3>2. \/ \E outcome, set : e = Leaving(c, outcome, set)
          \/ \E current : e = Entering(c, current)
      BY <2>2, <2>4, <3>1 DEF CodeBegins
    <3> QED BY <1>2, <1>3, <3>2
  <2> QED BY <2>3, <2>4
<1> QED BY <1>6, <1>7, <1>8

-----------------------------------------------------------------------------
(* A decision task that was answered *)

\* The markers that answer it are those of the versions E, and B have none.
MarkersTell(E, B, h, p) ==
  /\ \A c \in E : \E i \in (p + 2)..Len(h) :
       /\ h[i].type = "MarkerRecorded" /\ h[i].name = c
       /\ \A j \in (p + 2)..i : is_decision_event(h[j])
  /\ \A i \in (p + 2)..Len(h) :
       h[i].type = "MarkerRecorded" => h[i].ref = MAX_SUPPORTED /\ h[i].name \notin B

\* The replay R of g came to an end at e, with this log, and h has its answer; no
\* activity is scheduled in it that the code has not begun.
Decided(R, e, B, g, h, p, w, done) ==
  /\ UpTo(g, h, p)
  /\ Trace(R, e, g, w) /\ Known(R, B)
  /\ e.phase = "next" /\ e.at > p /\ e.code.log = done
  /\ MarkersTell(DOMAIN e.markers \ B, B, h, p)
  /\ Covers(h, e.code)

\* The state t of a replay is where s was when it decided what is new.
Follows(s, t, E) ==
  /\ s.phase \in {"events", "loop"} /\ t.phase = s.phase
  /\ t.at = s.at /\ t.code = s.code
  /\ ~s.batch.replay /\ t.batch.replay
  /\ s.phase = "events" => t.decider = s.decider
  /\ Alike(s.markers, t.markers, E)

\* Where the batch of such an s lies.
LEMMA LastBatch ==
  ASSUME NEW s, NEW h, IsSequence(h), Placed(s, h), s.phase # "next", ~s.batch.replay
  PROVE  s.batch.stop = Len(h) /\ s.batch.end = Len(h) + 1
<1>1. s.batch.from \in 1..Len(h) /\ s.batch = Batch(h, s.batch.from)
  BY DEF Placed
<1>2. /\ s.batch.replay = (s.batch.stop # Len(h))
      /\ IF s.batch.replay THEN DecidedTo(h, s.batch.stop + 2, s.batch.end) ELSE s.batch.end = s.batch.stop + 1
  BY ONLY <1>1, BatchLies, IsSequence(h)
<1> QED BY <1>2

\* It begins.
LEMMA FollowBegins ==
  ASSUME NEW R, NEW e, NEW B, NEW g, NEW h, NEW p, NEW w, NEW done, Decided(R, e, B, g, h, p, w, done),
         NEW s \in R, s # e, s.phase = "next", s.at \in 1..p, Batch(g, s.at).stop = p,
         NEW u, u = Succ(s, h, w)
  PROVE  \E v \in R : Follows(v, u, DOMAIN e.markers \ B)
<1> DEFINE E == DOMAIN e.markers \ B
           b == Batch(g, s.at)
           c == Batch(h, s.at)
           v == BatchBegins(s, g)
           S == MarkersOf(h, c)
<1>1. /\ Len(h) \in Nat /\ p \in Nat /\ p >= 1 /\ p < Len(h)
      /\ IsSequence(h) /\ IsSequence(g) /\ Len(g) = p /\ UpTo(g, h, p)
  BY UpToIs DEF Decided
<1>2. BatchesAgree(b, c, h, p, s.at)
  BY <1>1, SameBatch
<1>3. /\ ~b.replay /\ b.end = p + 1 /\ b.next_decision_event_id = p + 2
      /\ c.replay /\ c.next_decision_event_id = p + 2
      /\ DecidedTo(h, p + 2, c.end)
  BY <1>2 DEF BatchesAgree
<1>4. c.end \in (p + 2)..(Len(h) + 1) /\ (c.end <= Len(h) => ~is_decision_event(h[c.end]))
  BY <1>3 DEF DecidedTo
<1>5. v \in R /\ v = Succ(s, g, w) /\ u = BatchBegins(s, h)
  <2>1. Succ(s, g, w) = v /\ Succ(s, h, w) = BatchBegins(s, h)
    BY Zenon DEF Succ
  <2>2. Succ(s, g, w) \in R
    BY DEF Decided, Trace
  <2> QED BY <2>1, <2>2
<1> HIDE DEF b, c
<1>6. /\ v.phase = "events" /\ v.at = s.at /\ v.batch = b
      /\ v.markers = Marked(g, s.markers, MarkersOf(g, b))
      /\ v.code = s.code
  BY DEF BatchBegins, State, b
<1>7. /\ u.phase = "events" /\ u.at = s.at /\ u.batch = c
      /\ u.markers = Marked(h, s.markers, S)
      /\ u.code = s.code
  BY <1>5 DEF BatchBegins, State, c
<1>8. u.decider = v.decider
  <2> DEFINE d == s.decider
  <2>1. v.decider = Decider(b.next_decision_event_id, d.counter, d.decisions, d.activities, d.timers,
                            d.ids, d.completed)
    BY DEF BatchBegins, State, b
  <2>2. u.decider = Decider(c.next_decision_event_id, d.counter, d.decisions, d.activities, d.timers,
                            d.ids, d.completed)
    BY <1>5 DEF BatchBegins, State, c
  <2> HIDE DEF v
  <2> QED BY <1>3, <2>1, <2>2, Zenon
<1> HIDE DEF v
<1>9. S \subseteq 1..Len(h)
      /\ \A i : i \in S <=> i \in (p + 2)..(c.end - 1) /\ h[i].type = "MarkerRecorded"
  <2>1. S = {i \in (p + 2)..(c.end - 1) : h[i].type = "MarkerRecorded"}
    BY <1>3 DEF MarkersOf, BatchDecisionEvents
  <2> HIDE DEF S
  <2> QED BY <1>1, <1>4, <2>1
<1> HIDE DEF S
<1>10. MarkersOf(g, b) = {}
  BY <1>1, <1>3 DEF MarkersOf, BatchDecisionEvents
<1>11. DOMAIN v.markers = DOMAIN s.markers /\ \A x \in DOMAIN s.markers : v.markers[x] = s.markers[x]
  <2>1. MarkedBy(v.markers, g, s.markers, {})
    <3>1. {} \subseteq 1..p
      OBVIOUS
    <3>2. MarkedBy(Marked(g, s.markers, {}), g, s.markers, {})
      BY <1>1, <3>1, MarkedIs
    <3> QED BY <1>6, <1>10, <3>2
  <2> QED BY <2>1 DEF MarkedBy
<1>12. DOMAIN v.markers \subseteq B
  BY <1>5, <1>6 DEF Decided, Known
<1>13. \A i \in S : h[i].ref = MAX_SUPPORTED /\ h[i].name \notin B
  <2>1. \A i \in (p + 2)..Len(h) :
          h[i].type = "MarkerRecorded" => h[i].ref = MAX_SUPPORTED /\ h[i].name \notin B
    BY Zenon DEF Decided, MarkersTell
  <2>2. \A i \in S : i \in (p + 2)..Len(h) /\ h[i].type = "MarkerRecorded"
    BY <1>1, <1>4, <1>9
  <2> QED BY <2>1, <2>2, Zenon
<1>14. \A x \in E : \E i \in S : h[i].name = x
  <2> SUFFICES ASSUME NEW x \in E PROVE \E i \in S : h[i].name = x
    OBVIOUS
  <2>1. PICK i \in (p + 2)..Len(h) : /\ h[i].type = "MarkerRecorded" /\ h[i].name = x
                                     /\ \A j \in (p + 2)..i : is_decision_event(h[j])
    BY Zenon DEF Decided, MarkersTell
  <2>2. i < c.end
    <3> SUFFICES ASSUME c.end <= i PROVE FALSE
      BY <1>1, <1>4
    <3>1. c.end \in (p + 2)..i /\ c.end <= Len(h)
      BY <1>1, <1>4
    <3> QED BY <1>4, <2>1, <3>1, Zenon
  <2>3. i \in S
    BY <1>1, <1>4, <1>9, <2>1, <2>2
  <2> QED BY <2>1, <2>3
<1> HIDE DEF E
<1>15. MarkedBy(u.markers, h, s.markers, S)
  <2>1. MarkedBy(Marked(h, s.markers, S), h, s.markers, S)
    BY <1>1, <1>9, MarkedIs
  <2> QED BY <1>7, <2>1
<1>16. DOMAIN u.markers = DOMAIN s.markers \cup {h[i].name : i \in S}
  BY <1>15 DEF MarkedBy
<1>17. ASSUME NEW x \in DOMAIN v.markers
       PROVE  x \in DOMAIN u.markers /\ u.markers[x].data = v.markers[x].data
  <2>1. x \in B /\ x \in DOMAIN s.markers /\ v.markers[x] = s.markers[x]
    BY <1>11, <1>12
  <2>2. \A i \in S : h[i].name # x
    BY <1>13, <2>1
  <2>3. u.markers[x] = s.markers[x]
    BY <1>15, <2>1, <2>2, Zenon DEF MarkedBy
  <2> QED BY <1>16, <2>1, <2>3
<1>18. ASSUME NEW x \in DOMAIN u.markers, x \notin DOMAIN v.markers
       PROVE  u.markers[x].data = MAX_SUPPORTED
  <2>1. PICK k \in S : h[k].name = x
    BY <1>11, <1>16, <1>18
  <2>2. PICK i : IsLast(h, S, x, i)
    BY <1>1, <1>9, <2>1, LastIs
  <2>3. u.markers[x] = [data |-> h[i].ref, replayed |-> FALSE]
    BY <1>15, <2>2, Zenon DEF MarkedBy
  <2>4. i \in S
    BY <2>2 DEF IsLast
  <2> QED BY <1>13, <2>3, <2>4
<1>19. E \subseteq DOMAIN u.markers
  BY <1>14, <1>16
<1>20. Alike(v.markers, u.markers, E)
  BY <1>17, <1>18, <1>19 DEF Alike
<1>21. Follows(v, u, E)
  BY <1>3, <1>6, <1>7, <1>8, <1>20 DEF Follows
<1> QED BY <1>5, <1>21 DEF E

\* The replay is over where all is decided.
LEMMA TraceEnds ==
  ASSUME NEW R, NEW e, NEW g, NEW w, Trace(R, e, g, w), NEW u \in R, u.phase = "next", u.at > Len(g),
         u.at \in Nat, Len(g) \in Nat
  PROVE  u = e
<1>1. u # e => u.at <= Len(g)
  BY DEF Trace
<1> QED BY <1>1

\* It goes on, or all is done that was done.
Following(R, e, B, g, h, p, w, done, s, t, u) ==
  /\ Decided(R, e, B, g, h, p, w, done)
  /\ s \in R /\ Follows(s, t, DOMAIN e.markers \ B) /\ Placed(t, h) /\ t.batch.stop = p
  /\ u = Succ(t, h, w)

Followed(R, e, B, t, u) ==
  \/ u.code = e.code
  \/ u.batch = t.batch /\ \E v \in R : Follows(v, u, DOMAIN e.markers \ B)

\* A replay that follows what was new goes on to follow it, up to the end.
LEMMA FollowGoes ==
  ASSUME NEW R, NEW e, NEW B, NEW g, NEW h, NEW p, NEW w, NEW done, NEW s, NEW t, NEW u,
         Following(R, e, B, g, h, p, w, done, s, t, u)
  PROVE  Followed(R, e, B, t, u)
<1> SUFFICES ASSUME Decided(R, e, B, g, h, p, w, done), s \in R, Follows(s, t, DOMAIN e.markers \ B),
                    Placed(t, h), t.batch.stop = p, u = Succ(t, h, w)
             PROVE  \/ u.code = e.code
                    \/ u.batch = t.batch /\ \E v \in R : Follows(v, u, DOMAIN e.markers \ B)
  BY Zenon DEF Following, Followed
<1> DEFINE E == DOMAIN e.markers \ B
<1>1. /\ Len(h) \in Nat /\ p \in Nat /\ p >= 1 /\ p < Len(h)
      /\ IsSequence(h) /\ IsSequence(g) /\ Len(g) = p
  BY UpToIs DEF Decided
<1>2. \A i \in 1..p : g[i] = h[i]
  BY UpToIs DEF Decided
<1>3. Trace(R, e, g, w) /\ Known(R, B) /\ e.phase = "next"
  BY Zenon DEF Decided
<1>4. Placed(s, g) /\ \A v \in R : DOMAIN v.markers \subseteq DOMAIN e.markers
  BY <1>3 DEF Trace
<1>5. /\ s.phase \in {"events", "loop"} /\ t.phase = s.phase
      /\ t.at = s.at /\ t.code = s.code
      /\ ~s.batch.replay /\ t.batch.replay
      /\ s.phase = "events" => t.decider = s.decider
      /\ Alike(s.markers, t.markers, E)
  BY Zenon DEF Follows
<1> HIDE DEF E
<1>6. s.batch.stop = p /\ s.batch.end = p + 1
  BY <1>1, <1>4, <1>5, LastBatch
<1>7. s.at \in Nat /\ s.at > 0 /\ t.batch.stop = p /\ t.batch.stop \in Nat /\ t.batch.end \in Nat
  <2>1. t.batch.end \in 1..(Len(h) + 1)
    BY <1>1, <1>5, BatchPlaced DEF LiesIn
  <2>2. s.at \in Nat /\ s.at > 0
    BY <1>1, <1>4, <1>5, BatchPlaced DEF LiesIn
  <2> QED BY <1>1, <2>1, <2>2
<1>8. s # e /\ Succ(s, g, w) \in R
  BY <1>3, <1>5 DEF Trace
<1>9. CASE s.phase = "events" /\ s.at < p
  <2> DEFINE v == AfterEvent(s, w, g)
             x == AfterEvent(t, w, h)
  <2>1. Succ(s, g, w) = v /\ u = x
    BY <1>1, <1>5, <1>6, <1>7, <1>9, SuccIs
  <2>2. s.at \in 1..p /\ g[s.at] = h[s.at]
    BY <1>1, <1>2, <1>7, <1>9
  <2>3. /\ v.phase = s.phase /\ v.at = s.at + 1 /\ v.batch = s.batch
        /\ v.markers = MarkersAfterEvent(s.markers, g, s.at)
        /\ v.decider = DeciderAfterEvent(s.decider, g[s.at], s.at)
        /\ v.code = CodeAfterEvent(s.code, s.decider, w, g[s.at], s.at)
    BY DEF AfterEvent, State
  <2>4. /\ x.phase = t.phase /\ x.at = t.at + 1 /\ x.batch = t.batch
        /\ x.markers = MarkersAfterEvent(t.markers, h, t.at)
        /\ x.decider = DeciderAfterEvent(t.decider, h[t.at], t.at)
        /\ x.code = CodeAfterEvent(t.code, t.decider, w, h[t.at], t.at)
    BY DEF AfterEvent, State
  <2> HIDE DEF v, x
  <2>5. x.decider = v.decider /\ x.code = v.code /\ x.at = v.at /\ x.phase = v.phase
    <3>1. t.at = s.at /\ t.phase = s.phase /\ t.code = s.code /\ t.decider = s.decider
      BY <1>5, <1>9, Zenon
    <3> QED BY <2>2, <2>3, <2>4, <3>1, Zenon
  <2>6. Alike(v.markers, x.markers, E)
    <3>1. MarkersAfterEvent(s.markers, g, s.at) = MarkersAfterEvent(s.markers, h, s.at)
      <4>1. {s.at} \subseteq 1..p /\ \A i \in {s.at} : g[i] = h[i]
        BY <2>2
      <4>2. Marked(g, s.markers, {s.at}) = Marked(h, s.markers, {s.at})
        BY ONLY <1>1, <4>1, MarkedAlike
      <4> QED BY <2>2, <4>2, Zenon DEF MarkersAfterEvent
    <3>2. CASE h[s.at].type = "MarkerRecorded"
      <4>1. {s.at} \subseteq 1..p
        BY <2>2
      <4>2. Alike(Marked(h, s.markers, {s.at}), Marked(h, t.markers, {s.at}), E)
        BY ONLY <1>1, <1>5, <4>1, MarkedAreAlike
      <4>3. v.markers = Marked(h, s.markers, {s.at}) /\ x.markers = Marked(h, t.markers, {s.at})
        BY <1>5, <2>3, <2>4, <3>1, <3>2, Zenon DEF MarkersAfterEvent
      <4> QED BY <4>2, <4>3, Zenon
    <3>3. CASE h[s.at].type # "MarkerRecorded"
      <4>1. v.markers = s.markers /\ x.markers = t.markers
        BY <1>5, <2>3, <2>4, <3>1, <3>3, Zenon DEF MarkersAfterEvent
      <4> QED BY <1>5, <4>1, Zenon
    <3> QED BY <3>2, <3>3
  <2>7. Follows(v, x, E)
    BY <1>5, <1>9, <2>3, <2>4, <2>5, <2>6, Zenon DEF Follows
  <2> QED BY <1>8, <2>1, <2>4, <2>7, Zenon DEF E
<1>10. CASE s.phase = "events" /\ s.at >= p /\ s.decider.completed
  <2>1. Succ(s, g, w) = Goes(s, s.batch.end) /\ u = Goes(t, t.batch.end)
    BY <1>1, <1>5, <1>6, <1>7, <1>10, SuccIs
  <2>2. /\ Goes(s, s.batch.end).phase = "next" /\ Goes(s, s.batch.end).at = p + 1
        /\ Goes(s, s.batch.end).code = s.code /\ Goes(t, t.batch.end).code = t.code
    BY <1>6 DEF Goes, State
  <2>3. Goes(s, s.batch.end) = e
    <3>1. Goes(s, s.batch.end) \in R
      BY <1>8, <2>1
    <3>2. p + 1 > Len(g) /\ p + 1 \in Nat /\ Len(g) \in Nat
      BY <1>1
    <3> QED BY <1>3, <2>2, <3>1, <3>2, TraceEnds
  <2> QED BY <1>3, <1>5, <2>1, <2>2, <2>3, Zenon
<1>11. CASE s.phase = "events" /\ s.at >= p /\ ~s.decider.completed
  <2> DEFINE v == LoopBegins(s)
             x == LoopBegins(t)
  <2>1. Succ(s, g, w) = v /\ u = x
    BY <1>1, <1>5, <1>6, <1>7, <1>11, SuccIs
  <2>2. /\ v.phase = "loop" /\ v.at = s.at /\ v.batch = s.batch /\ v.markers = s.markers
        /\ v.code = Unblocking(s.code)
        /\ x.phase = "loop" /\ x.at = t.at /\ x.batch = t.batch /\ x.markers = t.markers
        /\ x.code = Unblocking(t.code)
    BY DEF LoopBegins, State
  <2> HIDE DEF v, x
  <2>3. Follows(v, x, E)
    BY <1>5, <2>2 DEF Follows
  <2> QED BY <1>8, <2>1, <2>2, <2>3, Zenon DEF E
<1>12. CASE s.phase = "loop" /\ s.code.quota = 0 /\ s.code.running = 0
  <2> DEFINE v == LoopEnds(s)
             x == LoopEnds(t)
             z == Goes(v, v.at)
  <2>1. Succ(s, g, w) = v /\ u = x
    BY <1>1, <1>5, <1>6, <1>7, <1>12, SuccIs
  <2>2. /\ v.phase = "decision_events" /\ v.at = p + 1 /\ v.batch = s.batch /\ v.code = s.code
        /\ x.code = t.code
    BY <1>5, <1>6 DEF LoopEnds, State
  <2> HIDE DEF v, x
  <2>3. v \in R /\ v # e
    BY <1>3, <1>8, <2>1, <2>2
  <2>4. Succ(v, g, w) = z
    BY <1>1, <1>6, <2>2, SuccIs
  <2>5. z.phase = "next" /\ z.at = p + 1 /\ z.code = s.code
    BY <2>2 DEF Goes, State
  <2> HIDE DEF z
  <2>6. z \in R
    BY <1>3, <2>3, <2>4 DEF Trace
  <2>7. z = e
    <3>1. p + 1 > Len(g) /\ p + 1 \in Nat /\ Len(g) \in Nat
      BY <1>1
    <3> QED BY <1>3, <2>5, <2>6, <3>1, TraceEnds
  <2> QED BY <1>3, <1>5, <2>1, <2>2, <2>5, <2>7, Zenon
<1>13. CASE s.phase = "loop" /\ ~(s.code.quota = 0 /\ s.code.running = 0)
  <2> DEFINE v == AfterStep(s, w)
             x == AfterStep(t, w)
             c == s.code
  <2>1. Succ(s, g, w) = v /\ u = x
    BY <1>1, <1>5, <1>6, <1>7, <1>13, SuccIs
  <2>2. s.batch.replay = FALSE /\ t.batch.replay = TRUE
    <3>1. s.batch.replay \in BOOLEAN
      BY <1>1, <1>4, <1>5, BatchPlaced DEF LiesIn
    <3>2. t.batch.replay \in BOOLEAN
      BY <1>1, <1>5, BatchPlaced DEF LiesIn
    <3> QED BY <1>5, <3>1, <3>2
  <2>3. /\ v.phase = "loop" /\ v.at = s.at /\ v.batch = s.batch
        /\ v.markers = MarkersAfterStep(c, w, s.markers, FALSE)
        /\ v.code = CodeAfterStep(c, w, s.markers, FALSE)
    <3>1. /\ v.phase = "loop" /\ v.at = s.at /\ v.batch = s.batch
          /\ v.markers = MarkersAfterStep(c, w, s.markers, s.batch.replay)
          /\ v.code = CodeAfterStep(c, w, s.markers, s.batch.replay)
      BY DEF AfterStep, State
    <3> HIDE DEF v
    <3> QED BY <2>2, <3>1, Zenon
  <2>4. /\ x.phase = "loop" /\ x.at = t.at /\ x.batch = t.batch
        /\ x.markers = MarkersAfterStep(c, w, t.markers, TRUE)
        /\ x.code = CodeAfterStep(c, w, t.markers, TRUE)
    <3>1. /\ x.phase = "loop" /\ x.at = t.at /\ x.batch = t.batch
          /\ x.markers = MarkersAfterStep(t.code, w, t.markers, t.batch.replay)
          /\ x.code = CodeAfterStep(t.code, w, t.markers, t.batch.replay)
      BY DEF AfterStep, State
    <3> HIDE DEF x
    <3> QED BY <1>5, <2>2, <3>1, Zenon
  <2> HIDE DEF v, x, c
  <2>5. Asks(c, w) => Asked(c, w) \in DOMAIN s.markers \/ Asked(c, w) \in E
    <3> SUFFICES ASSUME Asks(c, w) PROVE Asked(c, w) \in DOMAIN s.markers \/ Asked(c, w) \in E
      OBVIOUS
    <3> DEFINE a == Asked(c, w)
    <3>1. v.markers = MarkersAsked(s.markers, a, FALSE)
      BY <2>3, Zenon DEF MarkersAfterStep, Asked
    <3> HIDE DEF a
    <3>2. a \in DOMAIN v.markers
      <4>1. CASE a \in DOMAIN s.markers
        BY <3>1, <4>1 DEF MarkersAsked, Records
      <4>2. CASE a \notin DOMAIN s.markers
        BY <3>1, <4>2 DEF MarkersAsked, Records, With
      <4> QED BY <4>1, <4>2
    <3>3. a \in DOMAIN e.markers
      BY <1>4, <1>8, <2>1, <3>2
    <3>4. B \subseteq DOMAIN s.markers
      BY <1>3, <1>5, <1>13 DEF Known
    <3> QED BY <3>3, <3>4 DEF E, a
  <2>6. Alike(v.markers, x.markers, E)
    <3>1. Alike(s.markers, t.markers, E)
      BY <1>5
    <3> QED BY <2>3, <2>4, <2>5, <3>1, MarkersAlike, Zenon
  <2>7. v.code = x.code
    <3>1. Alike(s.markers, t.markers, E)
      BY <1>5
    <3>2. Asks(c, w) => Learns(s.markers, Asked(c, w), FALSE) = Learns(t.markers, Asked(c, w), TRUE)
      BY <2>5, <3>1, LearnsAlike, Zenon
    <3>3. CodeAfterStep(c, w, s.markers, FALSE) = CodeAfterStep(c, w, t.markers, TRUE)
      BY <3>2, CodeAlike, Zenon
    <3> QED BY <2>3, <2>4, <3>3, Zenon
  <2>8. Follows(v, x, E)
    BY <1>5, <2>3, <2>4, <2>6, <2>7 DEF Follows
  <2> QED BY <1>8, <2>1, <2>4, <2>8, Zenon DEF E
<1>14. s.phase = "events" \/ s.phase = "loop"
  BY <1>5
<1>15. s.at < p \/ s.at >= p
  BY <1>1, <1>7
<1> QED BY <1>9, <1>10, <1>11, <1>12, <1>13, <1>14, <1>15, Zenon

\* The replay t of h has not come as far as what was decided last, is in the midst of
\* it, or has done what was done.
Match(R, e, B, p, t, done) ==
  \/ t \in R /\ t # e /\ (t.phase = "next" \/ t.batch.replay)
  \/ t.batch.stop = p /\ \E s \in R : Follows(s, t, DOMAIN e.markers \ B)
  \/ Continues(done, t.code.log) /\ Further(e.code, t.code)

\* It starts.
LEMMA MatchStarts ==
  ASSUME NEW R, NEW e, NEW B, NEW g, NEW h, NEW p, NEW w, NEW done, Len(done) \in Nat,
         Decided(R, e, B, g, h, p, w, done)
  PROVE  Match(R, e, B, p, Start, done)
<1>1. Start \in R /\ e.code.log = done
  BY DEF Decided, Trace
<1>2. Start.phase = "next"
  BY DEF Start, State
<1>3. Continues(done, done) /\ Further(e.code, e.code)
  BY FurtherOn DEF Continues
<1> QED BY <1>1, <1>2, <1>3, Zenon DEF Match

\* It goes on.
LEMMA MatchGoes ==
  ASSUME NEW R, NEW e, NEW B, NEW g, NEW h, NEW p, NEW w, NEW done, Len(done) \in Nat,
         Decided(R, e, B, g, h, p, w, done),
         NEW t, Placed(t, h), Match(R, e, B, p, t, done),
         NEW u, u = Succ(t, h, w), Continues(done, t.code.log) => Continues(done, u.code.log),
         Further(t.code, u.code)
  PROVE  Match(R, e, B, p, u, done)
<1>1. /\ Len(h) \in Nat /\ p \in Nat /\ p >= 1 /\ p < Len(h)
      /\ IsSequence(h) /\ IsSequence(g) /\ Len(g) = p /\ UpTo(g, h, p)
  BY UpToIs DEF Decided
<1>2. Trace(R, e, g, w) /\ e.code.log = done
  BY Zenon DEF Decided
<1>3. Continues(done, done) /\ Further(e.code, e.code)
  BY FurtherOn DEF Continues
<1>4. CASE t \in R /\ t # e /\ (t.phase = "next" \/ t.batch.replay)
  <2>1. Placed(t, g) /\ Succ(t, g, w) \in R /\ (t.phase = "next" => t.at <= p)
    BY <1>1, <1>2, <1>4 DEF Trace
  <2>2. t.phase = "next" => t.at \in 1..p
    <3>1. t.phase = "next" => t.at \in 1..(p + 1)
      BY <1>1, <2>1, NextAt
    <3> QED BY <1>1, <2>1, <3>1
  <2>3. CASE t.phase = "next" /\ Batch(g, t.at).stop = p
    <3>1. \E v \in R : Follows(v, u, DOMAIN e.markers \ B)
      BY <1>4, <2>2, <2>3, FollowBegins
    <3>2. u.batch = Batch(h, t.at)
      <4>1. Succ(t, h, w) = BatchBegins(t, h)
        BY <2>3, Zenon DEF Succ
      <4>2. BatchBegins(t, h).batch = Batch(h, t.at)
        BY DEF BatchBegins, State
      <4> QED BY <4>1, <4>2
    <3>3. Batch(h, t.at).stop = p
      <4>1. BatchesAgree(Batch(g, t.at), Batch(h, t.at), h, p, t.at)
        BY <1>1, <2>2, <2>3, SameBatch
      <4> QED BY <2>3, <4>1, Zenon DEF BatchesAgree
    <3> QED BY <3>1, <3>2, <3>3, Zenon DEF Match
  <2>4. CASE ~(t.phase = "next" /\ Batch(g, t.at).stop = p)
    <3>1. t.phase = "next" => t.at \in 1..p /\ Batch(g, t.at).stop < p
      <4> SUFFICES ASSUME t.phase = "next" PROVE Batch(g, t.at).stop < p
        BY <2>2
      <4>1. BatchesAgree(Batch(g, t.at), Batch(h, t.at), h, p, t.at)
        BY <1>1, <2>2, SameBatch
      <4>2. Batch(g, t.at).stop \in t.at..p /\ Batch(g, t.at).stop # p
        BY <2>4, <4>1, Zenon DEF BatchesAgree
      <4> HIDE DEF Match
      <4> QED BY <1>1, <2>2, <4>2
    <3>2. t.phase # "next" => t.batch.replay
      BY <1>4
    <3>3. Succ(t, h, w) = Succ(t, g, w) /\ (Succ(t, g, w).phase = "next" \/ Succ(t, g, w).batch.replay)
      BY ONLY <1>1, <2>1, <3>1, <3>2, SameSucc
    <3>4. u \in R /\ (u.phase = "next" \/ u.batch.replay)
      BY <2>1, <3>3
    <3>5. u = e => Continues(done, u.code.log) /\ Further(e.code, u.code)
      BY <1>2, <1>3, Zenon
    <3> QED BY <3>4, <3>5, Zenon DEF Match
  <2> QED BY <2>3, <2>4
<1>5. CASE t.batch.stop = p /\ \E s \in R : Follows(s, t, DOMAIN e.markers \ B)
  <2>1. PICK s \in R : Follows(s, t, DOMAIN e.markers \ B)
    BY <1>5
  <2>2. \/ u.code = e.code
        \/ u.batch = t.batch /\ \E v \in R : Follows(v, u, DOMAIN e.markers \ B)
    <3>1. Following(R, e, B, g, h, p, w, done, s, t, u)
      BY <1>5, <2>1, Zenon DEF Following
    <3>2. Followed(R, e, B, t, u)
      BY ONLY <3>1, FollowGoes, Zenon
    <3> QED BY <3>2, Zenon DEF Followed
  <2> QED BY <1>2, <1>3, <1>5, <2>2, Zenon DEF Match
<1>6. CASE Continues(done, t.code.log) /\ Further(e.code, t.code)
  <2>1. Further(e.code, u.code)
    BY <1>6, FurtherOn, Zenon
  <2> QED BY <1>6, <2>1, Zenon DEF Match
<1> QED BY <1>4, <1>5, <1>6, Zenon DEF Match

\* At its end, it has done what was done.
LEMMA MatchEnds ==
  ASSUME NEW R, NEW e, NEW B, NEW g, NEW h, NEW p, NEW w, NEW done, Len(done) \in Nat,
         Decided(R, e, B, g, h, p, w, done),
         NEW t, Match(R, e, B, p, t, done), t.phase = "next", t.at > Len(h), t.at \in Nat
  PROVE  Continues(done, t.code.log) /\ Covers(h, t.code)
<1>1. Len(h) \in Nat /\ p \in Nat /\ p < Len(h) /\ Len(g) = p
  BY UpToIs DEF Decided
<1>2. Trace(R, e, g, w)
  BY Zenon DEF Decided
<1>3. ~(t \in R /\ t # e)
  <2> SUFFICES ASSUME t \in R, t # e PROVE FALSE
    OBVIOUS
  <2>1. t.at <= p
    BY <1>1, <1>2 DEF Trace
  <2> QED BY <1>1, <2>1
<1>4. \A s : ~Follows(s, t, DOMAIN e.markers \ B)
  BY DEF Follows
<1>5. Continues(done, t.code.log) /\ Further(e.code, t.code)
  BY <1>3, <1>4, Zenon DEF Match
<1>6. Covers(h, e.code)
  BY Zenon DEF Decided
<1> QED BY <1>5, <1>6, FurtherOn, Zenon

\* It does not matter what more happens.
LEMMA DecidedStays ==
  ASSUME NEW R, NEW e, NEW B, NEW g, NEW h, NEW p, NEW w, NEW done, Decided(R, e, B, g, h, p, w, done),
         NEW k, IsSequence(k), GoesOn(h, k)
  PROVE  Decided(R, e, B, g, k, p, w, done)
<1>1. /\ Len(h) \in Nat /\ p \in Nat /\ p >= 1 /\ p < Len(h)
      /\ IsSequence(h) /\ UpTo(g, h, p)
  BY UpToIs DEF Decided
<1>2. /\ Len(h) <= Len(k) /\ \A i \in 1..Len(h) : k[i] = h[i]
      /\ \A i \in (Len(h) + 1)..Len(k) : k[i].type # "MarkerRecorded"
      /\ Len(k) \in Nat /\ Continues(h, k)
  <2>1. ASSUME NEW i \in (Len(h) + 1)..Len(k) PROVE k[i].type # "MarkerRecorded"
    <3>1. ~is_decision_event(k[i])
      BY <2>1 DEF GoesOn
    <3> QED BY <3>1 DEF is_decision_event, DecisionEventTypes
  <2> QED BY <2>1, SequenceIs DEF GoesOn, Continues
<1>3. UpTo(g, k, p)
  <2>1. g = SubSeq(h, 1, p) /\ h[p].type = "DecisionTaskStarted" /\ h[p + 1].type = "DecisionTaskCompleted"
    BY <1>1 DEF UpTo, AnsweredAt
  <2>2. SubSeq(k, 1, p) = g
    <3>1. p \in 0..Len(h)
      BY <1>1
    <3>2. SubSeq(k, 1, p) = SubSeq(h, 1, p)
      BY ONLY <1>1, <1>2, <3>1, PrefixStays, IsSequence(k)
    <3> QED BY <2>1, <3>2
  <2>3. AnsweredAt(k, p)
    <3>1. p \in 1..Len(h) /\ p + 1 \in 1..Len(h) /\ p \in 1..(Len(k) - 1)
      BY <1>1, <1>2
    <3>2. k[p] = h[p] /\ k[p + 1] = h[p + 1]
      BY <1>2, <3>1
    <3> QED BY <2>1, <3>1, <3>2 DEF AnsweredAt
  <2> QED BY <2>2, <2>3 DEF UpTo
<1>4. MarkersTell(DOMAIN e.markers \ B, B, k, p)
  <2> DEFINE E == DOMAIN e.markers \ B
  <2>1. /\ \A c \in E : \E i \in (p + 2)..Len(h) :
             /\ h[i].type = "MarkerRecorded" /\ h[i].name = c
             /\ \A j \in (p + 2)..i : is_decision_event(h[j])
        /\ \A i \in (p + 2)..Len(h) :
             h[i].type = "MarkerRecorded" => h[i].ref = MAX_SUPPORTED /\ h[i].name \notin B
    BY Zenon DEF Decided, MarkersTell
  <2> HIDE DEF E
  <2>2. ASSUME NEW c \in E
        PROVE  \E i \in (p + 2)..Len(k) : /\ k[i].type = "MarkerRecorded" /\ k[i].name = c
                                          /\ \A j \in (p + 2)..i : is_decision_event(k[j])
    <3>1. PICK i \in (p + 2)..Len(h) : /\ h[i].type = "MarkerRecorded" /\ h[i].name = c
                                       /\ \A j \in (p + 2)..i : is_decision_event(h[j])
      BY <2>1
    <3>2. i \in (p + 2)..Len(k) /\ i \in 1..Len(h) /\ k[i] = h[i]
      BY <1>1, <1>2, <3>1
    <3>3. \A j \in (p + 2)..i : k[j] = h[j]
      BY <1>1, <1>2, <3>1
    <3> QED BY <3>1, <3>2, <3>3
  <2>3. ASSUME NEW i \in (p + 2)..Len(k), k[i].type = "MarkerRecorded"
        PROVE  k[i].ref = MAX_SUPPORTED /\ k[i].name \notin B
    <3>1. i \in (p + 2)..Len(h) /\ i \in 1..Len(h)
      BY <1>1, <1>2, <2>3
    <3>2. k[i] = h[i]
      BY <1>2, <3>1
    <3> QED BY <2>1, <2>3, <3>1, <3>2
  <2>4. MarkersTell(E, B, k, p)
    BY <2>2, <2>3, Zenon DEF MarkersTell
  <2> QED BY <2>4 DEF E
<1>5. Covers(k, e.code)
  <2>1. Covers(h, e.code)
    BY Zenon DEF Decided
  <2> QED BY <1>1, <2>1, CoversStays
<1> QED BY <1>3, <1>4, <1>5, Zenon DEF Decided

-----------------------------------------------------------------------------
(* The markers among the decisions *)

\* An entry whose marker the code has just recorded.
IsNew(x) == x.machine.target = "MARKER" /\ x.machine.state = "CREATED"

HasNew(ds, c, v, id) ==
  \E k \in DOMAIN ds : IsNew(ds[k]) /\ ds[k].name = c /\ ds[k].key = v /\ ds[k].id = id

NothingNew(ds) == \A k \in DOMAIN ds : ~IsNew(ds[k])

ClosingTypes == {"CompleteWorkflowExecution", "FailWorkflowExecution", "CancelWorkflowExecution"}

\* Entries of this target close the execution.
SelfNamed(ds) == \A k \in DOMAIN ds : ds[k].machine.target = "SELF" => ds[k].name \in ClosingTypes

\* The entries es have the markers of ds, and no other closing decision than is proper.
KeepsMarkers(ds, es) ==
  /\ \A k \in DOMAIN ds : ds[k].machine.target = "MARKER" => k \in DOMAIN es /\ es[k] = ds[k]
  /\ \A k \in DOMAIN es : es[k].machine.target = "MARKER" => k \in DOMAIN ds /\ es[k] = ds[k]
  /\ \A k \in DOMAIN es : es[k].machine.target = "SELF" =>
       es[k].name \in ClosingTypes \/ (k \in DOMAIN ds /\ es[k] = ds[k])

\* The same markers are new then.
LEMMA KeepsNews ==
  ASSUME NEW ds, NEW es, KeepsMarkers(ds, es)
  PROVE  /\ \A c, v, id : HasNew(es, c, v, id) <=> HasNew(ds, c, v, id)
         /\ NothingNew(ds) => NothingNew(es)
         /\ SelfNamed(ds) => SelfNamed(es)
<1>1. /\ \A k \in DOMAIN ds : IsNew(ds[k]) => k \in DOMAIN es /\ es[k] = ds[k]
      /\ \A k \in DOMAIN es : IsNew(es[k]) => k \in DOMAIN ds /\ es[k] = ds[k]
  BY Zenon DEF KeepsMarkers, IsNew
<1>2. \A c, v, id : HasNew(es, c, v, id) <=> HasNew(ds, c, v, id)
  <2>1. ASSUME NEW c, NEW v, NEW id, HasNew(es, c, v, id) PROVE HasNew(ds, c, v, id)
    <3>1. PICK k \in DOMAIN es : IsNew(es[k]) /\ es[k].name = c /\ es[k].key = v /\ es[k].id = id
      BY <2>1 DEF HasNew
    <3>2. k \in DOMAIN ds /\ es[k] = ds[k]
      BY <1>1, <3>1
    <3> QED BY <3>1, <3>2 DEF HasNew
  <2>2. ASSUME NEW c, NEW v, NEW id, HasNew(ds, c, v, id) PROVE HasNew(es, c, v, id)
    <3>1. PICK k \in DOMAIN ds : IsNew(ds[k]) /\ ds[k].name = c /\ ds[k].key = v /\ ds[k].id = id
      BY <2>2 DEF HasNew
    <3>2. k \in DOMAIN es /\ es[k] = ds[k]
      BY <1>1, <3>1
    <3> QED BY <3>1, <3>2 DEF HasNew
  <2> QED BY <2>1, <2>2
<1>3. NothingNew(ds) => NothingNew(es)
  BY <1>1, Zenon DEF NothingNew
<1>4. SelfNamed(ds) => SelfNamed(es)
  BY Zenon DEF KeepsMarkers, SelfNamed
<1> QED BY <1>2, <1>3, <1>4

\* Nothing changes.
LEMMA KeepsAll ==
  ASSUME NEW ds
  PROVE  KeepsMarkers(ds, ds)
BY Zenon DEF KeepsMarkers

\* The machine of an activity or a timer changes.
LEMMA WaiterKeeps ==
  ASSUME NEW ds, IsDecisions(ds), NEW k, NEW n,
         k \in DOMAIN ds => ds[k].machine.target \in {"ACTIVITY", "TIMER"} /\ n.target = ds[k].machine.target
  PROVE  KeepsMarkers(ds, [ds EXCEPT ![k].machine = n])
<1> DEFINE e == [ds[k] EXCEPT !.machine = n]
           es == [ds EXCEPT ![k] = e]
<1>1. [ds EXCEPT ![k].machine = n] = es
  OBVIOUS
<1>2. k \in DOMAIN ds => e.machine = n
  BY DEF IsDecisions, IsEntry
<1>3. k \in DOMAIN ds => e.machine.target \in {"ACTIVITY", "TIMER"}
  BY <1>2
<1>4. DOMAIN es = DOMAIN ds /\ (k \in DOMAIN ds => es[k] = e) /\ \A i \in DOMAIN ds : i # k => es[i] = ds[i]
  OBVIOUS
<1> HIDE DEF e, es
<1>5. KeepsMarkers(ds, es)
  <2>1. ASSUME NEW i \in DOMAIN ds
        PROVE  \/ es[i] = ds[i]
               \/ /\ ds[i].machine.target \in {"ACTIVITY", "TIMER"}
                  /\ es[i].machine.target \in {"ACTIVITY", "TIMER"}
    BY <1>3, <1>4
  <2>2. "ACTIVITY" # "MARKER" /\ "TIMER" # "MARKER" /\ "ACTIVITY" # "SELF" /\ "TIMER" # "SELF"
    OBVIOUS
  <2>3. ASSUME NEW i \in DOMAIN ds
        PROVE  \/ es[i] = ds[i]
               \/ /\ ds[i].machine.target # "MARKER" /\ ds[i].machine.target # "SELF"
                  /\ es[i].machine.target # "MARKER" /\ es[i].machine.target # "SELF"
    BY <2>1, <2>2
  <2> QED BY <1>4, <2>3, Zenon DEF KeepsMarkers
<1> QED BY <1>1, <1>5

\* It is no marker.
LEMMA OtherKeeps ==
  ASSUME IsDecisions(decisions), NEW e, add_decision(e), e.machine.target # "MARKER",
         e.machine.target = "SELF" => e.name \in ClosingTypes
  PROVE  KeepsMarkers(decisions, decisions')
<1>1. PICK k : /\ k \in DOMAIN decisions' /\ decisions'[k] = e
               /\ DOMAIN decisions' = DOMAIN decisions \cup {k}
               /\ \A i \in DOMAIN decisions : i # k => decisions'[i] = decisions[i]
               /\ k \in DOMAIN decisions =>
                    decisions[k].machine.target = e.machine.target /\ decisions[k].id = e.id
  BY AddedIs, Zenon
<1>2. \A i \in DOMAIN decisions' : i # k => i \in DOMAIN decisions
  BY <1>1
<1>3. \A i \in DOMAIN decisions : i \in DOMAIN decisions'
  BY <1>1
<1> QED BY <1>1, <1>2, <1>3, Zenon DEF KeepsMarkers

\* What the markers that are new say of those that were known, B, and of those that are now.
AllNew(ds, next, markers, B) ==
  /\ \A c, v, id : HasNew(ds, c, v, id) => v = MAX_SUPPORTED /\ c \notin B /\ id < next
  /\ \A c \in DOMAIN markers \ B : \E v, id : HasNew(ds, c, v, id)

\* There are none.
LEMMA NoneNew ==
  ASSUME NEW ds, NothingNew(ds), NEW next, NEW markers
  PROVE  AllNew(ds, next, markers, DOMAIN markers)
BY Zenon DEF AllNew, NothingNew, HasNew

\* Other decisions are made.
LEMMA StillNew ==
  ASSUME NEW ds, NEW es, KeepsMarkers(ds, es), NEW next \in Nat, NEW later \in Nat, next <= later,
         NEW markers, NEW B, AllNew(ds, next, markers, B), IsDecisions(ds)
  PROVE  AllNew(es, later, markers, B)
<1>1. \A c, v, id : HasNew(es, c, v, id) <=> HasNew(ds, c, v, id)
  BY KeepsNews
<1>2. ASSUME NEW c, NEW v, NEW id, HasNew(es, c, v, id)
      PROVE  v = MAX_SUPPORTED /\ c \notin B /\ id < later
  <2>1. HasNew(ds, c, v, id)
    BY <1>1, <1>2
  <2>2. v = MAX_SUPPORTED /\ c \notin B /\ id < next
    BY <2>1 DEF AllNew
  <2>3. id \in Nat
    <3>1. PICK k \in DOMAIN ds : ds[k].id = id
      BY <2>1 DEF HasNew
    <3> QED BY <3>1 DEF IsDecisions, IsEntry
  <2> QED BY <2>2, <2>3
<1>3. \A c \in DOMAIN markers \ B : \E v, id : HasNew(es, c, v, id)
  BY <1>1, Zenon DEF AllNew
<1> QED BY <1>2, <1>3, Zenon DEF AllNew

\* The entry of a marker.
LEMMA MarkerIs ==
  ASSUME NEW id, NEW key, NEW name, NEW e, e = Entry("MARKER", id, key, name)
  PROVE  e.machine.target = "MARKER" /\ IsNew(e) /\ e.id = id /\ e.key = key /\ e.name = name
BY DEF Entry, NewMachine, IsNew

\* The entry of the end.
LEMMA SelfIs ==
  ASSUME NEW id, NEW key, NEW name, NEW e, e = Entry("SELF", id, key, name)
  PROVE  e.machine.target = "SELF" /\ e.machine.target # "MARKER" /\ e.name = name
BY DEF Entry, NewMachine

\* The entry of an activity or a timer.
LEMMA WaiterIs ==
  ASSUME NEW target \in {"ACTIVITY", "TIMER"}, NEW id, NEW key, NEW name, NEW e,
         e = Entry(target, id, key, name)
  PROVE  e.machine.target # "SELF" /\ e.machine.target # "MARKER"
BY DEF Entry, NewMachine

\* A marker is recorded.
LEMMA RecordedIs ==
  ASSUME IsDecisions(decisions), next_decision_event_id \in Nat,
         NEW change, NEW data, record_mutable_marker(change, data)
  PROVE  /\ SelfNamed(decisions) => SelfNamed(decisions')
         /\ next_decision_event_id' = next_decision_event_id + 1
         /\ DOMAIN mutable_marker_results' = DOMAIN mutable_marker_results \cup {change}
         /\ \A B : /\ AllNew(decisions, next_decision_event_id, mutable_marker_results, B)
                   /\ B \subseteq DOMAIN mutable_marker_results
                   /\ data = MAX_SUPPORTED
                   /\ change \notin DOMAIN mutable_marker_results
                   => AllNew(decisions', next_decision_event_id', mutable_marker_results', B)
<1>1. PICK e : e = Entry("MARKER", next_decision_event_id, data, change)
  OBVIOUS
<1>2. add_decision(e)
  BY <1>1, Zenon DEF record_mutable_marker
<1>3. /\ e.machine.target = "MARKER" /\ IsNew(e) /\ e.id = next_decision_event_id
      /\ e.key = data /\ e.name = change
  BY <1>1, MarkerIs
<1>4. PICK k : /\ k \in DOMAIN decisions' /\ decisions'[k] = e
               /\ DOMAIN decisions' = DOMAIN decisions \cup {k}
               /\ \A i \in DOMAIN decisions : i # k => decisions'[i] = decisions[i]
               /\ k \in DOMAIN decisions =>
                    decisions[k].machine.target = e.machine.target /\ decisions[k].id = e.id
  BY <1>2, AddedIs, Zenon
<1>5. next_decision_event_id' = next_decision_event_id + 1
  BY <1>2 DEF add_decision
<1>6. DOMAIN mutable_marker_results' = DOMAIN mutable_marker_results \cup {change}
  BY DEF record_mutable_marker, With
<1>7. SelfNamed(decisions) => SelfNamed(decisions')
  BY <1>3, <1>4 DEF SelfNamed
<1>8. ASSUME NEW B, AllNew(decisions, next_decision_event_id, mutable_marker_results, B),
             B \subseteq DOMAIN mutable_marker_results, data = MAX_SUPPORTED,
             change \notin DOMAIN mutable_marker_results
      PROVE  AllNew(decisions', next_decision_event_id', mutable_marker_results', B)
  <2>1. HasNew(decisions', change, data, next_decision_event_id)
    BY <1>3, <1>4, Zenon DEF HasNew
  <2>2. ASSUME NEW c, NEW v, NEW id, HasNew(decisions, c, v, id)
        PROVE  HasNew(decisions', c, v, id)
    <3>1. PICK i \in DOMAIN decisions : /\ IsNew(decisions[i]) /\ decisions[i].name = c
                                        /\ decisions[i].key = v /\ decisions[i].id = id
      BY <2>2 DEF HasNew
    <3>2. id < next_decision_event_id
      BY <1>8, <2>2 DEF AllNew
    <3>3. i # k
      BY <1>3, <1>4, <3>1, <3>2
    <3>4. i \in DOMAIN decisions' /\ decisions'[i] = decisions[i]
      BY <1>4, <3>3
    <3> QED BY <3>1, <3>4, Zenon DEF HasNew
  <2>3. ASSUME NEW c, NEW v, NEW id, HasNew(decisions', c, v, id)
        PROVE  \/ c = change /\ v = data /\ id = next_decision_event_id
               \/ HasNew(decisions, c, v, id)
    <3>1. PICK i \in DOMAIN decisions' : /\ IsNew(decisions'[i]) /\ decisions'[i].name = c
                                         /\ decisions'[i].key = v /\ decisions'[i].id = id
      BY <2>3 DEF HasNew
    <3>2. CASE i = k
      BY <1>3, <1>4, <3>1, <3>2
    <3>3. CASE i # k
      <4>1. i \in DOMAIN decisions /\ decisions'[i] = decisions[i]
        BY <1>4, <3>3
      <4> QED BY <3>1, <4>1, Zenon DEF HasNew
    <3> QED BY <3>2, <3>3
  <2>4. ASSUME NEW c, NEW v, NEW id, HasNew(decisions', c, v, id)
        PROVE  v = MAX_SUPPORTED /\ c \notin B /\ id < next_decision_event_id'
    <3>1. CASE c = change /\ v = data /\ id = next_decision_event_id
      BY <1>5, <1>8, <3>1
    <3>2. CASE HasNew(decisions, c, v, id)
      <4>1. v = MAX_SUPPORTED /\ c \notin B /\ id < next_decision_event_id
        BY <1>8, <3>2 DEF AllNew
      <4>2. id \in Nat
        <5>1. PICK i \in DOMAIN decisions : decisions[i].id = id
          BY <3>2 DEF HasNew
        <5> QED BY <5>1 DEF IsDecisions, IsEntry
      <4> QED BY <1>5, <4>1, <4>2
    <3> QED BY <2>3, <2>4, <3>1, <3>2
  <2>5. ASSUME NEW c \in DOMAIN mutable_marker_results' \ B
        PROVE  \E v, id : HasNew(decisions', c, v, id)
    <3>1. CASE c = change
      BY <2>1, <3>1
    <3>2. CASE c # change
      <4>1. c \in DOMAIN mutable_marker_results \ B
        BY <1>6, <3>2
      <4>2. PICK v, id : HasNew(decisions, c, v, id)
        BY <1>8, <4>1 DEF AllNew
      <4> QED BY <2>2, <4>2
    <3> QED BY <3>1, <3>2
  <2> QED BY <2>4, <2>5, Zenon DEF AllNew
<1> QED BY <1>5, <1>6, <1>7, <1>8

\* The handler of an event changes no marker.
LEMMA UpdateTells ==
  ASSUME Working, NEW types, types \subseteq MachineEvents, AtEvent(types), UpdateMachine
  PROVE  KeepsMarkers(decisions, decisions')
<1>1. IsDecisions(decisions) /\ history[at].type \in MachineEvents /\ Exception = ""
  BY DEF Working, Inv, AtEvent, UpdateMachine
<1>2. PICK k, m, n : k = Addressed /\ m = decisions[k].machine /\ n = Handled(m)
  OBVIOUS
<1>3. n.target = m.target
  BY <1>1, <1>2, EventHandled, Zenon
<1>4. decisions' = [decisions EXCEPT ![Addressed].machine = Handled(@)]
  BY DEF UpdateMachine
<1>5. decisions' = [decisions EXCEPT ![k].machine = Handled(@)]
  BY <1>2, <1>4, Zenon
<1>6. decisions' = [decisions EXCEPT ![k].machine = n]
  BY <1>2, <1>5
<1>7. m.target \in {"ACTIVITY", "TIMER"}
  BY <1>2, ToldIs, Zenon
<1>8. KeepsMarkers(decisions, [decisions EXCEPT ![k].machine = n])
  BY <1>1, <1>2, <1>3, <1>7, WaiterKeeps, Zenon
<1> QED BY <1>6, <1>8, Zenon

\* Nor does the cancelation of a timer.
LEMMA CancelTells ==
  ASSUME IsDecisions(decisions), NEW id, cancel_timer(id)
  PROVE  /\ KeepsMarkers(decisions, decisions')
         /\ \/ next_decision_event_id' = next_decision_event_id
            \/ next_decision_event_id' = next_decision_event_id + 1
            \/ next_decision_event_id' = next_decision_event_id + 0
<1>1. PICK k, m : k = IndexOf(decisions, "TIMER", id) /\ m = decisions[k].machine
  OBVIOUS
<1>2. IF is_done(m)
      THEN UNCHANGED <<decisions, scheduled_timers, next_decision_event_id>>
      ELSE /\ decisions' = [decisions EXCEPT ![k].machine = cancel(m)]
           /\ timer_cancelled(id)
           /\ next_decision_event_id' = next_decision_event_id + IdsToCancel(m)
  BY <1>1, Zenon DEF cancel_timer
<1>3. k \in DOMAIN decisions => decisions[k].machine.target = "TIMER" /\ Legal(m)
  <2>1. k \in DOMAIN decisions \/ k = 0
    BY <1>1, IndexIs, Zenon DEF IsDecisions
  <2>2. 0 \notin DOMAIN decisions
    <3>1. DOMAIN decisions = 1..Len(decisions) /\ Len(decisions) \in Nat
      BY SequenceIs DEF IsDecisions
    <3> QED BY <3>1
  <2>3. k \in DOMAIN decisions => decisions[k].machine.target = "TIMER"
    BY <1>1, <2>2, IndexIs DEF IsDecisions
  <2> QED BY <1>1, <2>3 DEF IsDecisions, IsEntry
<1>4. CASE ~is_done(m)
  <2>1. PICK n : n = cancel(m)
    OBVIOUS
  <2>2. k \in DOMAIN decisions =>
          decisions[k].machine.target \in {"ACTIVITY", "TIMER"} /\ n.target = decisions[k].machine.target
    BY <1>1, <1>3, <1>4, <2>1, CancelLegal
  <2>3. decisions' = [decisions EXCEPT ![k].machine = n]
    BY <1>2, <1>4, <2>1
  <2>4. KeepsMarkers(decisions, [decisions EXCEPT ![k].machine = n])
    BY <2>2, WaiterKeeps, Zenon
  <2>5. next_decision_event_id' = next_decision_event_id + IdsToCancel(m)
    BY <1>2, <1>4
  <2> QED BY <2>3, <2>4, <2>5, Zenon DEF IdsToCancel
<1>5. CASE is_done(m)
  BY <1>2, <1>5, KeepsAll, Zenon
<1> QED BY <1>4, <1>5


\* notify_decision_sent leaves no marker new.
LEMMA NotifyTells ==
  ASSUME IsDecisions(decisions), notify_decision_sent
  PROVE  NothingNew(decisions') /\ (SelfNamed(decisions) => SelfNamed(decisions'))
<1>1. DOMAIN decisions' = DOMAIN decisions
  BY DEF notify_decision_sent
<1>2. ASSUME NEW k \in DOMAIN decisions
      PROVE  /\ ~IsNew(decisions'[k])
             /\ decisions'[k].machine.target = decisions[k].machine.target
             /\ decisions'[k].name = decisions[k].name
  <2> DEFINE e == decisions[k]
             n == handle_decision_task_started_event(e.machine)
  <2>1. decisions'[k] = IF Sends(e) THEN [e EXCEPT !.machine = n] ELSE e
    BY DEF notify_decision_sent
  <2>2. IsEntry(e)
    BY DEF IsDecisions
  <2>3. Legal(n) /\ n.target = e.machine.target
    BY <2>2, SentLegal DEF IsEntry
  <2>4. ~(n.target = "MARKER" /\ n.state = "CREATED")
    BY <2>2 DEF IsEntry, Legal, Machine, handle_decision_task_started_event, Cancelable,
       DecisionState, Targets
  <2>5. Sends(e) \/ ~IsNew(e)
    BY DEF Sends, get_decision, IsNew
  <2> HIDE DEF n, e
  <2>6. /\ [e EXCEPT !.machine = n].machine = n /\ [e EXCEPT !.machine = n].name = e.name
    BY <2>2, <2>3, MachineReplaced
  <2>7. CASE Sends(e)
    <3>1. decisions'[k].machine = n /\ decisions'[k].name = e.name
      BY <2>1, <2>6, <2>7
    <3>2. ~IsNew(decisions'[k])
      BY <2>4, <3>1 DEF IsNew
    <3> QED BY <2>3, <3>1, <3>2 DEF e
  <2>8. CASE ~Sends(e)
    BY <2>1, <2>5, <2>8 DEF e
  <2> QED BY <2>7, <2>8
<1> QED BY <1>1, <1>2, Zenon DEF NothingNew, SelfNamed

\* An event changes no marker among the decisions.
LEMMA EventTells ==
  ASSUME Working, ProcessEvent
  PROVE  KeepsMarkers(decisions, decisions')
<1>1. IsDecisions(decisions)
  BY DEF Working, Inv
<1>2. CASE \/ SkipEvent \/ handle_workflow_execution_started \/ handle_workflow_execution_signaled
           \/ handle_marker_recorded \/ EventRaises \/ NoEventHandler
  <2>1. decisions' = decisions
    BY <1>2, Zenon DEF SkipEvent, handle_workflow_execution_started, handle_workflow_execution_signaled,
                       handle_marker_recorded, EventRaises, NoEventHandler, Raise, deciderVars
  <2> QED BY <2>1, KeepsAll, Zenon
<1>3. CASE handle_workflow_execution_cancel_requested
  <2>1. PICK e : e = Entry("SELF", 0, 0, "CancelWorkflowExecution")
    OBVIOUS
  <2>2. add_decision(e)
    BY <1>3, <2>1, Zenon DEF handle_workflow_execution_cancel_requested, close_workflow_execution
  <2>3. e.machine.target # "MARKER" /\ e.name = "CancelWorkflowExecution"
    BY <2>1, SelfIs
  <2>4. e.name \in ClosingTypes
    BY <2>3 DEF ClosingTypes
  <2> QED BY <1>1, <2>2, <2>3, <2>4, OtherKeeps
<1>4. CASE handle_initiated
  <2>1. \E types : types \subseteq MachineEvents /\ AtEvent(types) /\ UpdateMachine
    <3> {"ActivityTaskScheduled", "ActivityTaskStarted", "TimerStarted", "CancelTimerFailed"} \subseteq MachineEvents
      BY DEF MachineEvents
    <3> QED BY <1>4, Zenon DEF handle_initiated
  <2> QED BY <2>1, UpdateTells
<1>5. CASE handle_activity_closed
  <2>1. \E types : types \subseteq MachineEvents /\ AtEvent(types) /\ UpdateMachine
    <3> ActivityClosed \subseteq MachineEvents
      BY DEF MachineEvents
    <3> QED BY <1>5, Zenon DEF handle_activity_closed
  <2> QED BY <2>1, UpdateTells
<1>6. CASE handle_timer_fired
  <2>1. \E types : types \subseteq MachineEvents /\ AtEvent(types) /\ UpdateMachine
    <3> {"TimerFired"} \subseteq MachineEvents
      BY DEF MachineEvents
    <3> QED BY <1>6, Zenon DEF handle_timer_fired
  <2> QED BY <2>1, UpdateTells
<1>7. CASE handle_timer_canceled
  <2>1. \E types : types \subseteq MachineEvents /\ AtEvent(types) /\ UpdateMachine
    <3> {"TimerCanceled"} \subseteq MachineEvents
      BY DEF MachineEvents
    <3> QED BY <1>7, Zenon DEF handle_timer_canceled
  <2> QED BY <2>1, UpdateTells
<1> QED BY <1>2, <1>3, <1>4, <1>5, <1>6, <1>7, Zenon DEF ProcessEvent

\* What the code does to the decisions but for get_version.
Decides ==
  /\ KeepsMarkers(decisions, decisions')
  /\ next_decision_event_id' \in Nat /\ next_decision_event_id <= next_decision_event_id'
  /\ mutable_marker_results' = mutable_marker_results

\* A decision that is no marker.
LEMMA AddDecides ==
  ASSUME Inv, next_decision_event_id \in Nat, NEW e, add_decision(e), e.machine.target # "MARKER",
         e.machine.target = "SELF" => e.name \in ClosingTypes, UNCHANGED mutable_marker_results
  PROVE  Decides
<1>1. KeepsMarkers(decisions, decisions')
  BY OtherKeeps DEF Inv
<1>2. next_decision_event_id' = next_decision_event_id + 1
  BY DEF add_decision
<1> QED BY <1>1, <1>2 DEF Decides

\* No decision.
LEMMA StillDecides ==
  ASSUME next_decision_event_id \in Nat,
         UNCHANGED <<decisions, next_decision_event_id, mutable_marker_results>>
  PROVE  Decides
BY KeepsAll DEF Decides

\* A decision that closes the workflow.
LEMMA CloseDecides ==
  ASSUME Inv, next_decision_event_id \in Nat, NEW type \in ClosingTypes, close_workflow_execution(type),
         UNCHANGED mutable_marker_results
  PROVE  Decides
<1>1. PICK e : e = Entry("SELF", 0, 0, type)
  OBVIOUS
<1>2. add_decision(e)
  BY <1>1, Zenon DEF close_workflow_execution
<1>3. e.machine.target # "MARKER" /\ e.name = type
  BY <1>1, SelfIs
<1> QED BY <1>2, <1>3, AddDecides

\* A decision that starts a timer.
LEMMA CreateDecides ==
  ASSUME Inv, next_decision_event_id \in Nat, create_timer
  PROVE  Decides
<1>1. PICK e : e = Entry("TIMER", next_decision_event_id, id_counter, Place)
  OBVIOUS
<1>2. add_decision(e) /\ UNCHANGED mutable_marker_results
  BY <1>1, Zenon DEF create_timer
<1>3. e.machine.target # "SELF" /\ e.machine.target # "MARKER"
  BY <1>1, WaiterIs
<1> QED BY <1>2, <1>3, AddDecides

\* An exception leaves the code.
LEMMA RaiseDecides ==
  ASSUME Inv, next_decision_event_id \in Nat, NEW outcome, CodeRaises(outcome)
  PROVE  Decides
<1>1. UNCHANGED mutable_marker_results
  BY Zenon DEF CodeRaises
<1>2. CASE task[running].name = "main"
  <2>1. close_workflow_execution("FailWorkflowExecution")
    BY <1>2, Zenon DEF CodeRaises
  <2>2. "FailWorkflowExecution" \in ClosingTypes
    BY DEF ClosingTypes
  <2> QED BY <1>1, <2>1, <2>2, CloseDecides
<1>3. CASE task[running].name # "main"
  <2>1. UNCHANGED <<decisions, next_decision_event_id>>
    BY <1>3, Zenon DEF CodeRaises
  <2> QED BY <1>1, <2>1, StillDecides
<1> QED BY <1>2, <1>3

\* Every step of the code but a question for a version.
LEMMA CodeDecides ==
  ASSUME Inv, RunCode, next_decision_event_id \in Nat
  PROVE  Decides \/ get_version
<1>1. CASE StartHandle \/ FutureDone \/ AwaitBlocks \/ SetFlag \/ SignalReturns \/ UnknownSignal \/ QueryReturns
  <2>1. UNCHANGED <<decisions, next_decision_event_id, mutable_marker_results>>
    BY <1>1, Zenon DEF StartHandle, FutureDone, AwaitBlocks, SetFlag, SignalReturns, UnknownSignal,
                       QueryReturns, deciderVars
  <2> QED BY <2>1, StillDecides
<1>2. CASE schedule_activity_task
  <2>1. PICK e : e = Entry("ACTIVITY", next_decision_event_id, id_counter, Place)
    OBVIOUS
  <2>2. add_decision(e) /\ UNCHANGED mutable_marker_results
    BY <1>2, <2>1, Zenon DEF schedule_activity_task
  <2>3. e.machine.target # "SELF" /\ e.machine.target # "MARKER"
    BY <2>1, WaiterIs
  <2> QED BY <2>2, <2>3, AddDecides
<1>3. CASE schedule_timer
  BY <1>3, CreateDecides DEF schedule_timer
<1>4. CASE EnterAwait
  <2>1. UNCHANGED deciderVars \/ create_timer
    BY <1>4, Zenon DEF EnterAwait
  <2>2. UNCHANGED deciderVars => UNCHANGED <<decisions, next_decision_event_id, mutable_marker_results>>
    BY Zenon DEF deciderVars
  <2> QED BY <2>1, <2>2, StillDecides, CreateDecides
<1>5. CASE FutureFailed \/ AwaitRaises
  BY <1>5, RaiseDecides, Zenon DEF FutureFailed, AwaitRaises
<1>6. CASE AwaitReturns
  <2>1. UNCHANGED mutable_marker_results
    BY <1>6, Zenon DEF AwaitReturns
  <2>2. CASE UNCHANGED <<decisions, scheduled_timers, next_decision_event_id>>
    BY <2>1, <2>2, StillDecides
  <2>3. CASE cancel_timer(task[running].id)
    <3>1. KeepsMarkers(decisions, decisions')
      BY <2>3, CancelTells DEF Inv
    <3>2. \/ next_decision_event_id' = next_decision_event_id
          \/ next_decision_event_id' = next_decision_event_id + 1
          \/ next_decision_event_id' = next_decision_event_id + 0
      BY <2>3, CancelTells DEF Inv
    <3> QED BY <2>1, <3>1, <3>2 DEF Decides
  <2>4. \/ UNCHANGED <<decisions, scheduled_timers, next_decision_event_id>>
        \/ cancel_timer(task[running].id)
    BY <1>6, Zenon DEF AwaitReturns
  <2> QED BY <2>2, <2>3, <2>4
<1>7. CASE MainReturns
  <2>1. close_workflow_execution("CompleteWorkflowExecution") /\ UNCHANGED mutable_marker_results
    BY <1>7, Zenon DEF MainReturns
  <2>2. "CompleteWorkflowExecution" \in ClosingTypes
    BY DEF ClosingTypes
  <2> QED BY <2>1, <2>2, CloseDecides
<1>8. CASE get_version
  BY <1>8
<1> QED BY <1>1, <1>2, <1>3, <1>4, <1>5, <1>6, <1>7, <1>8, Zenon DEF RunCode

\* get_version, where it is not a replay.
LEMMA VersionTells ==
  ASSUME Inv, get_version, next_decision_event_id \in Nat
  PROVE  /\ SelfNamed(decisions) => SelfNamed(decisions')
         /\ ~batch.replay =>
              \/ Decides
              \/ \E change : /\ change \notin DOMAIN mutable_marker_results
                             /\ record_mutable_marker(change, MAX_SUPPORTED)
<1>1. \/ UNCHANGED decisions
      \/ \E change, data : record_mutable_marker(change, data)
  BY Zenon DEF get_version
<1>2. SelfNamed(decisions) => SelfNamed(decisions')
  <2>1. UNCHANGED decisions => (SelfNamed(decisions) => SelfNamed(decisions'))
    BY Zenon
  <2>2. \A change, data : record_mutable_marker(change, data) => (SelfNamed(decisions) => SelfNamed(decisions'))
    BY RecordedIs DEF Inv
  <2> QED BY <1>1, <2>1, <2>2
<1>3. ASSUME ~batch.replay
      PROVE  \/ UNCHANGED <<decisions, next_decision_event_id, mutable_marker_results>>
             \/ \E change : /\ change \notin DOMAIN mutable_marker_results
                            /\ record_mutable_marker(change, MAX_SUPPORTED)
  BY <1>3, Zenon DEF get_version, RecordsAgain
<1> QED BY <1>2, <1>3, StillDecides


-----------------------------------------------------------------------------
(* The activities among the decisions *)

\* An entry whose activity is to be scheduled.
IsFresh(x) == x.machine.target = "ACTIVITY" /\ x.machine.state = "CREATED"

NothingFresh(ds) == \A k \in DOMAIN ds : ~IsFresh(ds[k])

\* The entries es have no activity to schedule that ds have not.
KeepsFresh(ds, es) ==
  \A k \in DOMAIN es : IsFresh(es[k]) => k \in DOMAIN ds /\ IsFresh(ds[k]) /\ es[k].name = ds[k].name

\* The history h does not say of this place that its activity is scheduled.
Unscheduled(h, place) == \A i \in DOMAIN h : h[i].type = "ActivityTaskScheduled" => h[i].name # place

\* The activities to schedule are of operations that are begun, and of none that the
\* history h or another decision schedules.
FreshOk(ds, c, h) ==
  /\ \A n \in DOMAIN ds : IsFresh(ds[n]) =>
       (\E t, k : ds[n].name = <<t, k>> /\ Begun(c, t, k)) /\ Unscheduled(h, ds[n].name)
  /\ \A m, n \in DOMAIN ds : IsFresh(ds[m]) /\ IsFresh(ds[n]) /\ ds[m].name = ds[n].name => m = n

\* No more activities, and no fewer operations.
LEMMA FreshKept ==
  ASSUME NEW ds, NEW es, KeepsFresh(ds, es), NEW c, NEW d, Further(c, d), NEW h
  PROVE  /\ NothingFresh(ds) => NothingFresh(es)
         /\ FreshOk(ds, c, h) => FreshOk(es, d, h)
<1>1. NothingFresh(ds) => NothingFresh(es)
  BY Zenon DEF KeepsFresh, NothingFresh
<1>2. ASSUME FreshOk(ds, c, h) PROVE FreshOk(es, d, h)
  <2>1. ASSUME NEW n \in DOMAIN es, IsFresh(es[n])
        PROVE  (\E t, k : es[n].name = <<t, k>> /\ Begun(d, t, k)) /\ Unscheduled(h, es[n].name)
    <3>1. n \in DOMAIN ds /\ IsFresh(ds[n]) /\ es[n].name = ds[n].name
      BY <2>1 DEF KeepsFresh
    <3>2. Unscheduled(h, ds[n].name) /\ \E t, k : ds[n].name = <<t, k>> /\ Begun(c, t, k)
      BY <1>2, <3>1, Zenon DEF FreshOk
    <3>3. PICK t, k : ds[n].name = <<t, k>> /\ Begun(c, t, k)
      BY <3>2
    <3>4. Begun(d, t, k)
      BY <3>3 DEF Further
    <3> QED BY <3>1, <3>2, <3>3, <3>4
  <2>2. ASSUME NEW m \in DOMAIN es, NEW n \in DOMAIN es, IsFresh(es[m]), IsFresh(es[n]),
               es[m].name = es[n].name
        PROVE  m = n
    BY <1>2, <2>2 DEF KeepsFresh, FreshOk
  <2> QED BY <2>1, <2>2, Zenon DEF FreshOk
<1> QED BY <1>1, <1>2

\* There is nothing to schedule.
LEMMA NoneFresh ==
  ASSUME NEW ds, NothingFresh(ds), NEW c, NEW h
  PROVE  FreshOk(ds, c, h)
BY Zenon DEF FreshOk, NothingFresh

\* A machine changes that is not new then.
LEMMA MachineFresh ==
  ASSUME NEW ds, IsDecisions(ds), NEW k, NEW n,
         k \in DOMAIN ds => /\ Legal(n) /\ n.target = ds[k].machine.target
                            /\ n.state = "CREATED" => n = ds[k].machine \/ n.target # "ACTIVITY"
  PROVE  KeepsFresh(ds, [ds EXCEPT ![k].machine = n])
<1> DEFINE e == [ds[k] EXCEPT !.machine = n]
           es == [ds EXCEPT ![k] = e]
<1>1. [ds EXCEPT ![k].machine = n] = es
  OBVIOUS
<1>2. k \in DOMAIN ds => e.machine = n /\ e.name = ds[k].name
  <2> SUFFICES ASSUME k \in DOMAIN ds PROVE e.machine = n /\ e.name = ds[k].name
    OBVIOUS
  <2>1. IsEntry(ds[k])
    BY DEF IsDecisions
  <2> QED BY <2>1, MachineReplaced
<1>3. DOMAIN es = DOMAIN ds /\ (k \in DOMAIN ds => es[k] = e) /\ \A i \in DOMAIN ds : i # k => es[i] = ds[i]
  OBVIOUS
<1> HIDE DEF e, es
<1>4. KeepsFresh(ds, es)
  BY <1>2, <1>3, Zenon DEF KeepsFresh, IsFresh
<1> QED BY <1>1, <1>4

\* The handler of an event makes no machine new.
LEMMA UpdateFresh ==
  ASSUME Working, NEW types, types \subseteq MachineEvents, AtEvent(types), UpdateMachine
  PROVE  KeepsFresh(decisions, decisions')
<1>1. IsDecisions(decisions) /\ history[at].type \in MachineEvents /\ Exception = ""
  BY DEF Working, Inv, AtEvent, UpdateMachine
<1>2. PICK k, m, n : k = Addressed /\ m = decisions[k].machine /\ n = Handled(m)
  OBVIOUS
<1>3. k \in DOMAIN decisions /\ Legal(n) /\ n.target = m.target
  BY <1>1, <1>2, EventHandled, Zenon
<1>4. decisions' = [decisions EXCEPT ![k].machine = n]
  <2>1. decisions' = [decisions EXCEPT ![Addressed].machine = Handled(@)]
    BY DEF UpdateMachine
  <2>2. decisions' = [decisions EXCEPT ![k].machine = Handled(@)]
    BY <1>2, <2>1, Zenon
  <2> QED BY <1>2, <2>2
<1>5. n.state = "CREATED" => n = m
  <2>1. Legal(m)
    BY <1>1, <1>2, <1>3 DEF IsDecisions, IsEntry
  <2>2. \/ n = handle_initiated_event(m) \/ n = handle_completion_event(m)
        \/ n = handle_cancellation_event(m) \/ n = handle_cancellation_failure_event(m) \/ n = m
    BY <1>1, <1>2 DEF Handled, MachineEvents, ActivityClosed
  <2>3. n.state # "ILLEGAL"
    BY <1>3 DEF Legal
  <2>4. ASSUME NEW table, n = Handle(table, m), m.state \in DOMAIN table => table[m.state] # "CREATED"
        PROVE  n.state # "CREATED"
    BY <2>1, <2>3, <2>4 DEF Handle, fail_state_transition, Legal, Machine
  <2>5. CASE n = handle_initiated_event(m)
    <3>1. m.state \in DOMAIN InitiatedTable => InitiatedTable[m.state] # "CREATED"
      BY DEF InitiatedTable
    <3> QED BY <2>4, <2>5, <3>1 DEF handle_initiated_event
  <2>6. CASE n = handle_completion_event(m)
    <3>1. m.state \in DOMAIN CompletionTable => CompletionTable[m.state] # "CREATED"
      BY DEF CompletionTable
    <3> QED BY <2>4, <2>6, <3>1 DEF handle_completion_event
  <2>7. CASE n = handle_cancellation_event(m)
    <3>1. m.state \in DOMAIN CancellationTable => CancellationTable[m.state] # "CREATED"
      BY DEF CancellationTable
    <3> QED BY <2>4, <2>7, <3>1 DEF handle_cancellation_event
  <2>8. CASE n = handle_cancellation_failure_event(m)
    <3>1. m.state \in DOMAIN CancellationFailureTable(m) => CancellationFailureTable(m)[m.state] # "CREATED"
      BY DEF CancellationFailureTable
    <3> QED BY <2>4, <2>8, <3>1 DEF handle_cancellation_failure_event
  <2> QED BY <2>2, <2>5, <2>6, <2>7, <2>8
<1>6. KeepsFresh(decisions, [decisions EXCEPT ![k].machine = n])
  BY <1>1, <1>2, <1>3, <1>5, MachineFresh, Zenon
<1> QED BY <1>4, <1>6, Zenon

\* Nothing changes.
LEMMA SameFresh ==
  ASSUME NEW ds
  PROVE  KeepsFresh(ds, ds)
BY Zenon DEF KeepsFresh

\* The cancelation of a timer is about no activity.
LEMMA CancelFresh ==
  ASSUME IsDecisions(decisions), NEW id, cancel_timer(id)
  PROVE  KeepsFresh(decisions, decisions')
<1>1. PICK k, m : k = IndexOf(decisions, "TIMER", id) /\ m = decisions[k].machine
  OBVIOUS
<1>2. IF is_done(m) THEN UNCHANGED <<decisions, scheduled_timers, next_decision_event_id>>
      ELSE /\ decisions' = [decisions EXCEPT ![k].machine = cancel(m)]
           /\ timer_cancelled(id)
           /\ next_decision_event_id' = next_decision_event_id + IdsToCancel(m)
  BY <1>1, Zenon DEF cancel_timer
<1>3. CASE ~is_done(m)
  <2>1. PICK n : n = cancel(m)
    OBVIOUS
  <2>2. ASSUME k \in DOMAIN decisions
        PROVE  /\ Legal(n) /\ n.target = m.target /\ n.target # "ACTIVITY"
               /\ n.state = "CREATED" => n = m \/ n.target # "ACTIVITY"
    <3>1. DOMAIN decisions = 1..Len(decisions) /\ Len(decisions) \in Nat
      BY SequenceIs DEF IsDecisions
    <3>2. k # 0
      BY <2>2, <3>1
    <3>3. m.target = "TIMER"
      BY <1>1, <3>2, IndexIs DEF IsDecisions
    <3>4. Legal(m)
      BY <1>1, <2>2 DEF IsDecisions, IsEntry
    <3>5. Legal(n) /\ n.target = "TIMER"
      BY <1>3, <2>1, <3>3, <3>4, CancelLegal
    <3> QED BY <3>3, <3>5
  <2>3. decisions' = [decisions EXCEPT ![k].machine = n]
    BY <1>2, <1>3, <2>1
  <2>4. KeepsFresh(decisions, [decisions EXCEPT ![k].machine = n])
    BY <1>1, <2>2, MachineFresh, Zenon
  <2> QED BY <2>3, <2>4, Zenon
<1>4. CASE is_done(m)
  <2>1. decisions' = decisions
    BY <1>2, <1>4, Zenon
  <2> QED BY <2>1, SameFresh, Zenon
<1> QED BY <1>3, <1>4

\* A decision is added that is no activity.
LEMMA AddFresh ==
  ASSUME IsDecisions(decisions), NEW e, add_decision(e), e.machine.target # "ACTIVITY"
  PROVE  KeepsFresh(decisions, decisions')
<1>1. PICK k : /\ k \in DOMAIN decisions' /\ decisions'[k] = e
               /\ DOMAIN decisions' = DOMAIN decisions \cup {k}
               /\ \A i \in DOMAIN decisions : i # k => decisions'[i] = decisions[i]
  BY AddedIs, Zenon
<1> QED BY <1>1, Zenon DEF KeepsFresh, IsFresh

\* notify_decision_sent leaves nothing to schedule.
LEMMA NotifyFresh ==
  ASSUME IsDecisions(decisions), notify_decision_sent
  PROVE  NothingFresh(decisions')
<1>1. DOMAIN decisions' = DOMAIN decisions
  BY DEF notify_decision_sent
<1>2. ASSUME NEW k \in DOMAIN decisions
      PROVE  ~IsFresh(decisions'[k])
  <2> DEFINE e == decisions[k]
             n == handle_decision_task_started_event(e.machine)
  <2>1. decisions'[k] = IF Sends(e) THEN [e EXCEPT !.machine = n] ELSE e
    BY DEF notify_decision_sent
  <2>2. IsEntry(e)
    BY DEF IsDecisions
  <2>3. Legal(n) /\ n.target = e.machine.target
    BY <2>2, SentLegal DEF IsEntry
  <2>4. ~(n.target = "ACTIVITY" /\ n.state = "CREATED")
    BY <2>2 DEF IsEntry, Legal, Machine, handle_decision_task_started_event, Cancelable,
       DecisionState, Targets
  <2>5. Sends(e) \/ ~IsFresh(e)
    BY DEF Sends, get_decision, IsFresh
  <2> HIDE DEF n, e
  <2>6. [e EXCEPT !.machine = n].machine = n
    BY <2>2, <2>3, MachineReplaced
  <2>7. CASE Sends(e)
    BY <2>1, <2>4, <2>6, <2>7 DEF IsFresh
  <2>8. CASE ~Sends(e)
    BY <2>1, <2>5, <2>8
  <2> QED BY <2>7, <2>8
<1> QED BY <1>1, <1>2, Zenon DEF NothingFresh

\* An event gives nothing to schedule.
LEMMA EventFresh ==
  ASSUME Working, ProcessEvent
  PROVE  KeepsFresh(decisions, decisions')
<1>1. IsDecisions(decisions)
  BY DEF Working, Inv
<1>2. CASE \/ SkipEvent \/ handle_workflow_execution_started \/ handle_workflow_execution_signaled
           \/ handle_marker_recorded \/ EventRaises \/ NoEventHandler
  <2>1. decisions' = decisions
    BY <1>2, Zenon DEF SkipEvent, handle_workflow_execution_started, handle_workflow_execution_signaled,
                       handle_marker_recorded, EventRaises, NoEventHandler, Raise, deciderVars
  <2> QED BY <2>1, SameFresh, Zenon
<1>3. CASE handle_workflow_execution_cancel_requested
  <2>1. PICK e : e = Entry("SELF", 0, 0, "CancelWorkflowExecution")
    OBVIOUS
  <2>2. add_decision(e)
    BY <1>3, <2>1, Zenon DEF handle_workflow_execution_cancel_requested, close_workflow_execution
  <2>3. e.machine.target # "ACTIVITY"
    BY <2>1, TargetIs
  <2> QED BY <1>1, <2>2, <2>3, AddFresh
<1>4. CASE handle_initiated \/ handle_activity_closed \/ handle_timer_fired \/ handle_timer_canceled
  <2>1. /\ {"ActivityTaskScheduled", "ActivityTaskStarted", "TimerStarted", "CancelTimerFailed"} \subseteq MachineEvents
        /\ ActivityClosed \subseteq MachineEvents /\ {"TimerFired"} \subseteq MachineEvents
        /\ {"TimerCanceled"} \subseteq MachineEvents
    BY DEF MachineEvents
  <2>2. \E types : types \subseteq MachineEvents /\ AtEvent(types) /\ UpdateMachine
    BY <1>4, <2>1, Zenon DEF handle_initiated, handle_activity_closed, handle_timer_fired, handle_timer_canceled
  <2> QED BY <2>2, UpdateFresh
<1> QED BY <1>2, <1>3, <1>4, Zenon DEF ProcessEvent

\* Of the steps of the code, schedule_activity_task alone does.
LEMMA CodeFresh ==
  ASSUME Inv, RunCode
  PROVE  KeepsFresh(decisions, decisions') \/ schedule_activity_task
<1>0. IsDecisions(decisions)
  BY DEF Inv
<1>1. UNCHANGED decisions => KeepsFresh(decisions, decisions')
  BY SameFresh, Zenon
<1>2. ASSUME NEW target \in {"TIMER", "SELF", "MARKER"}, NEW id, NEW key, NEW name,
             add_decision(Entry(target, id, key, name))
      PROVE  KeepsFresh(decisions, decisions')
  <2>1. PICK e : e = Entry(target, id, key, name)
    OBVIOUS
  <2>2. add_decision(e) /\ e.machine.target = target
    BY <1>2, <2>1, TargetIs
  <2>3. e.machine.target # "ACTIVITY"
    BY <2>2
  <2> QED BY <1>0, <2>2, <2>3, AddFresh
<1>3. CASE StartHandle \/ FutureDone \/ AwaitBlocks \/ SetFlag \/ SignalReturns \/ UnknownSignal \/ QueryReturns
  <2>1. UNCHANGED decisions
    BY <1>3, Zenon DEF StartHandle, FutureDone, AwaitBlocks, SetFlag, SignalReturns, UnknownSignal,
                       QueryReturns, deciderVars
  <2> QED BY <1>1, <2>1
<1>4. CASE schedule_timer \/ EnterAwait
  <2>1. UNCHANGED decisions \/ create_timer
    BY <1>4, Zenon DEF EnterAwait, schedule_timer, deciderVars
  <2>2. create_timer => add_decision(Entry("TIMER", next_decision_event_id, id_counter, Place))
    BY Zenon DEF create_timer
  <2> QED BY <1>1, <1>2, <2>1, <2>2
<1>5. CASE FutureFailed \/ AwaitRaises \/ MainReturns
  <2>1. UNCHANGED decisions \/ \E type : close_workflow_execution(type)
    BY <1>5, Zenon DEF FutureFailed, AwaitRaises, MainReturns, CodeRaises
  <2>2. \A type : close_workflow_execution(type) => add_decision(Entry("SELF", 0, 0, type))
    BY Zenon DEF close_workflow_execution
  <2> QED BY <1>1, <1>2, <2>1, <2>2
<1>6. CASE AwaitReturns
  <2>1. UNCHANGED decisions \/ cancel_timer(task[running].id)
    BY <1>6, Zenon DEF AwaitReturns
  <2> QED BY <1>0, <1>1, <2>1, CancelFresh
<1>7. CASE get_version
  <2>1. UNCHANGED decisions \/ \E change, data : record_mutable_marker(change, data)
    BY <1>7, Zenon DEF get_version
  <2>2. \A change, data : record_mutable_marker(change, data) =>
          add_decision(Entry("MARKER", next_decision_event_id, data, change))
    BY Zenon DEF record_mutable_marker
  <2> QED BY <1>1, <1>2, <2>1, <2>2
<1> QED BY <1>3, <1>4, <1>5, <1>6, <1>7, Zenon DEF RunCode

\* A new activity is of an operation that was not begun.
LEMMA ScheduleFresh ==
  ASSUME IsDecisions(decisions), NEW e, add_decision(e), NEW t, NEW k, e.name = <<t, k>>,
         NEW c, NEW d, Further(c, d), ~Begun(c, t, k), Begun(d, t, k),
         NEW h, Covers(h, c), FreshOk(decisions, c, h)
  PROVE  FreshOk(decisions', d, h)
<1>1. PICK l : /\ l \in DOMAIN decisions' /\ decisions'[l] = e
               /\ DOMAIN decisions' = DOMAIN decisions \cup {l}
               /\ \A i \in DOMAIN decisions : i # l => decisions'[i] = decisions[i]
  BY AddedIs, Zenon
<1>2. \A i \in DOMAIN decisions' : i # l => i \in DOMAIN decisions /\ decisions'[i] = decisions[i]
  BY <1>1
<1>3. Unscheduled(h, e.name)
  <2> SUFFICES ASSUME NEW i \in DOMAIN h, h[i].type = "ActivityTaskScheduled", h[i].name = e.name
               PROVE  FALSE
    BY DEF Unscheduled
  <2>1. PICK u, j : h[i].name = <<u, j>> /\ Begun(c, u, j)
    BY DEF Covers
  <2>2. u = t /\ j = k
    BY <2>1
  <2> QED BY <2>1, <2>2
<1>4. ASSUME NEW n \in DOMAIN decisions', IsFresh(decisions'[n]), n # l
      PROVE  /\ \E u, j : decisions'[n].name = <<u, j>> /\ Begun(c, u, j)
             /\ Unscheduled(h, decisions'[n].name)
  BY <1>2, <1>4, Zenon DEF FreshOk
<1>5. ASSUME NEW n \in DOMAIN decisions', IsFresh(decisions'[n])
      PROVE  (\E u, j : decisions'[n].name = <<u, j>> /\ Begun(d, u, j)) /\ Unscheduled(h, decisions'[n].name)
  <2>1. CASE n = l
    BY <1>1, <1>3, <2>1
  <2>2. CASE n # l
    <3>1. PICK u, j : decisions'[n].name = <<u, j>> /\ Begun(c, u, j)
      BY <1>4, <1>5, <2>2
    <3>2. Begun(d, u, j)
      BY <3>1 DEF Further
    <3> QED BY <1>4, <1>5, <2>2, <3>1, <3>2
  <2> QED BY <2>1, <2>2
<1>6. ASSUME NEW n \in DOMAIN decisions', IsFresh(decisions'[n]), n # l PROVE decisions'[n].name # e.name
  <2>1. PICK u, j : decisions'[n].name = <<u, j>> /\ Begun(c, u, j)
    BY <1>4, <1>6
  <2>2. ~(u = t /\ j = k)
    BY <2>1
  <2> QED BY <2>1, <2>2
<1>7. ASSUME NEW m \in DOMAIN decisions', NEW n \in DOMAIN decisions', IsFresh(decisions'[m]),
             IsFresh(decisions'[n]), decisions'[m].name = decisions'[n].name
      PROVE  m = n
  <2>1. CASE m = l \/ n = l
    BY <1>1, <1>6, <1>7, <2>1
  <2>2. CASE m # l /\ n # l
    BY <1>2, <1>7, <2>2, Zenon DEF FreshOk
  <2> QED BY <2>1, <2>2
<1> QED BY <1>5, <1>7, Zenon DEF FreshOk

-----------------------------------------------------------------------------
(* The markers among the decisions that are sent *)

\* Without leaves every element that is not in S.
LEMMA WithoutKeeps ==
  ASSUME NEW s, IsSequence(s), NEW S
  PROVE  ToSet(s) \ S \subseteq ToSet(Without(s, S))
<1> DEFINE n == Len(s)
           kept == CHOOSE kept : KeepsUpTo(s, S, n, kept)
<1>1. n \in Nat /\ DOMAIN s = 1..n /\ \A i \in 1..n : s[i] \in ToSet(s)
  BY SequenceIs
<1>2. KeepsUpTo(s, S, n, kept)
  <2>1. \E k : KeepsUpTo(s, S, n, k)
    BY <1>1, KeepsExists
  <2> QED BY <2>1, Zenon
<1>3. Without(s, S) = kept[n]
  BY Zenon DEF Without, KeepsUpTo
<1> HIDE DEF kept
<1> DEFINE Has(m) == IsSequence(kept[m]) /\ \A i \in 1..m : s[i] \notin S => s[i] \in ToSet(kept[m])
           Bad == {m \in 0..n : ~Has(m)}
<1>4. Bad = {}
  <2> SUFFICES ASSUME Bad # {} PROVE FALSE
    OBVIOUS
  <2>1. PICK m \in Bad : \A k \in Bad : m <= k
    <3> Bad \in SUBSET Nat
      BY <1>1
    <3> HIDE DEF Bad
    <3> QED BY LeastNumber
  <2>2. m \in 0..n /\ ~Has(m)
    BY <2>1
  <2>3. kept[m] = IF m = 0 THEN <<>>
                  ELSE IF s[m] \in S THEN kept[m - 1] ELSE Append(kept[m - 1], s[m])
    BY <1>2, <2>2 DEF KeepsUpTo
  <2>4. m # 0
    <3>1. m = 0 => Has(0)
      BY <2>3, EmptySequence
    <3> HIDE DEF Has
    <3> QED BY <3>1, <2>2
  <2>5. /\ m - 1 \in 0..n /\ ~(m <= m - 1) /\ m \in Nat /\ 1..m = 1..(m - 1) \cup {m}
    BY <1>1, <2>2, <2>4
  <2>6. Has(m - 1)
    <3> HIDE DEF Has
    <3> QED BY <2>1, <2>5
  <2>7. CASE s[m] \in S
    <3>1. kept[m] = kept[m - 1]
      BY <2>3, <2>4, <2>7
    <3>2. Has(m)
      BY <2>5, <2>6, <2>7, <3>1
    <3> HIDE DEF Has
    <3> QED BY <2>2, <3>2
  <2>8. CASE s[m] \notin S
    <3>1. kept[m] = Append(kept[m - 1], s[m])
      BY <2>3, <2>4, <2>8
    <3>2. IsSequence(kept[m]) /\ ToSet(kept[m]) = ToSet(kept[m - 1]) \cup {s[m]}
      BY <2>6, <3>1, SequenceAppend
    <3>3. Has(m)
      BY <2>5, <2>6, <3>2
    <3> HIDE DEF Has
    <3> QED BY <2>2, <3>3
  <2> QED BY <2>7, <2>8
<1>5. Has(n)
  BY <1>1, <1>4
<1>6. ASSUME NEW e \in ToSet(s) \ S PROVE e \in ToSet(kept[n])
  <2>1. PICK i \in 1..n : e = s[i]
    BY <1>1 DEF ToSet
  <2> QED BY <1>5, <2>1
<1> QED BY <1>3, <1>6

\* The decision that an entry sends.
LEMMA SentIs ==
  ASSUME NEW x, IsEntry(x), Sends(x), x.machine.target = "SELF" => x.name \in ClosingTypes
  PROVE  /\ Sent(x).type \in DecisionTypes
         /\ Sent(x).type = "RecordMarker" <=> IsNew(x)
         /\ IsNew(x) => Sent(x).ref = x.key /\ Sent(x).name = x.name
<1>1. x.machine.target \in {"ACTIVITY", "TIMER", "MARKER", "SELF"}
  BY DEF IsEntry, Legal, Machine, Targets
<1>2. CASE get_decision(x.machine) = "cancel"
  <2>0. x.machine.target # "SELF"
    BY <1>2 DEF get_decision, Cancelable
  <2>1. Sent(x) = Event("CancelTimer", x.key, "")
    BY <1>2, <2>0, Zenon DEF Sent
  <2>2. Event("CancelTimer", x.key, "").type = "CancelTimer"
    BY DEF Event
  <2>3. x.machine.target # "MARKER"
    BY <1>2 DEF get_decision, Cancelable
  <2>4. "CancelTimer" \in DecisionTypes /\ "CancelTimer" # "RecordMarker"
    BY DEF DecisionTypes
  <2>5. Sent(x).type = "CancelTimer"
    BY <2>1, <2>2
  <2> QED BY <2>3, <2>4, <2>5 DEF IsNew
<1>3. CASE get_decision(x.machine) # "cancel" /\ x.machine.target = "SELF"
  <2>1. Sent(x) = Event(x.name, 0, "")
    BY <1>3, Zenon DEF Sent
  <2>2. Event(x.name, 0, "").type = x.name
    BY DEF Event
  <2>3. x.name \in DecisionTypes /\ x.name # "RecordMarker"
    BY <1>3 DEF ClosingTypes, DecisionTypes
  <2>4. Sent(x).type = x.name
    BY <2>1, <2>2
  <2> QED BY <1>3, <2>3, <2>4 DEF IsNew
<1>4. CASE get_decision(x.machine) # "cancel" /\ x.machine.target # "SELF"
  <2> DEFINE y == ScheduleType(x.machine.target)
  <2>1. Sent(x) = Event(ScheduleType(x.machine.target), x.key, x.name)
    BY <1>4, Zenon DEF Sent
  <2>2. y \in DecisionTypes /\ (y = "RecordMarker" <=> x.machine.target = "MARKER")
    BY <1>1, <1>4 DEF ScheduleType, DecisionTypes
  <2> HIDE DEF y
  <2>3. Event(y, x.key, x.name).type = y /\ Event(y, x.key, x.name).ref = x.key /\ Event(y, x.key, x.name).name = x.name
    BY DEF Event
  <2>4. Sent(x) = Event(y, x.key, x.name)
    BY <2>1 DEF y
  <2>5. x.machine.target = "MARKER" => IsNew(x)
    BY <1>4 DEF Sends, get_decision, Cancelable, IsNew
  <2>6. IsNew(x) => x.machine.target = "MARKER"
    BY DEF IsNew
  <2>7. Sent(x).type = y /\ Sent(x).ref = x.key /\ Sent(x).name = x.name
    BY <2>3, <2>4
  <2> HIDE <2>4
  <2> QED BY ONLY <2>2, <2>5, <2>6, <2>7
<1> QED BY <1>2, <1>3, <1>4

\* The decisions ds say which markers are new among the entries.
Tells(ds, entries) ==
  /\ \A n \in DOMAIN ds : ds[n].type \in DecisionTypes
  /\ \A n \in DOMAIN ds :
       ds[n].type = "RecordMarker" => \E id : HasNew(entries, ds[n].name, ds[n].ref, id)
  /\ \A c, v, id : HasNew(entries, c, v, id) =>
       \E n \in DOMAIN ds : ds[n].type = "RecordMarker" /\ ds[n].name = c /\ ds[n].ref = v

\* What is sent tells of each marker that is new.
LEMMA DecisionsTell ==
  ASSUME IsDecisions(decisions), SelfNamed(decisions)
  PROVE  Tells(get_decisions, decisions)
<1> DEFINE all == [k \in DOMAIN decisions |-> k]
           S == {k \in DOMAIN decisions : ~Sends(decisions[k])}
<1>1. DOMAIN decisions = 1..Len(decisions) /\ Len(decisions) \in Nat
  BY SequenceIs DEF IsDecisions
<1>2. IsSequence(all)
  <2>1. all = [k \in 1..Len(decisions) |-> all[k]]
    BY <1>1
  <2> HIDE DEF all
  <2> QED BY <1>1, <2>1, SequenceMade
<1>3. ToSet(all) = DOMAIN decisions
  BY DEF ToSet
<1>4. Sending = Without(all, S)
  BY DEF Sending
<1> HIDE DEF all
<1>5. IsSequence(Sending) /\ ToSet(Sending) = DOMAIN decisions \ S
  <2> HIDE DEF S
  <2> QED BY <1>2, <1>3, <1>4, WithoutIs, WithoutKeeps
<1>6. DOMAIN Sending = 1..Len(Sending) /\ \A n \in DOMAIN Sending : Sending[n] \in ToSet(Sending)
  BY <1>5, SequenceIs
<1>7. /\ DOMAIN get_decisions = DOMAIN Sending
      /\ \A n \in DOMAIN Sending : get_decisions[n] = Sent(decisions[Sending[n]])
  BY DEF get_decisions
<1>8. ASSUME NEW k \in DOMAIN decisions, Sends(decisions[k])
      PROVE  LET x == decisions[k] IN
             /\ Sent(x).type \in DecisionTypes
             /\ Sent(x).type = "RecordMarker" <=> IsNew(x)
             /\ IsNew(x) => Sent(x).ref = x.key /\ Sent(x).name = x.name
  <2>1. IsEntry(decisions[k])
    BY DEF IsDecisions
  <2>2. decisions[k].machine.target = "SELF" => decisions[k].name \in ClosingTypes
    BY DEF SelfNamed
  <2> QED BY <1>8, <2>1, <2>2, SentIs
<1>9. \A n \in DOMAIN Sending : Sending[n] \in DOMAIN decisions /\ Sends(decisions[Sending[n]])
  BY <1>5, <1>6
<1>10. ASSUME NEW n \in DOMAIN get_decisions
       PROVE  /\ get_decisions[n].type \in DecisionTypes
              /\ get_decisions[n].type = "RecordMarker" =>
                   \E id : HasNew(decisions, get_decisions[n].name, get_decisions[n].ref, id)
  <2>1. PICK k : k = Sending[n] /\ k \in DOMAIN decisions /\ Sends(decisions[k])
                 /\ get_decisions[n] = Sent(decisions[k])
    BY <1>7, <1>9
  <2>2. /\ Sent(decisions[k]).type \in DecisionTypes
        /\ Sent(decisions[k]).type = "RecordMarker" <=> IsNew(decisions[k])
        /\ IsNew(decisions[k]) => /\ Sent(decisions[k]).ref = decisions[k].key
                                  /\ Sent(decisions[k]).name = decisions[k].name
    BY <1>8, <2>1
  <2>3. get_decisions[n].type = "RecordMarker" =>
          HasNew(decisions, get_decisions[n].name, get_decisions[n].ref, decisions[k].id)
    BY <2>1, <2>2 DEF HasNew
  <2> QED BY <2>1, <2>2, <2>3
<1>11. ASSUME NEW c, NEW v, NEW id, HasNew(decisions, c, v, id)
       PROVE  \E n \in DOMAIN get_decisions :
                get_decisions[n].type = "RecordMarker" /\ get_decisions[n].name = c /\ get_decisions[n].ref = v
  <2>1. PICK k \in DOMAIN decisions : /\ IsNew(decisions[k]) /\ decisions[k].name = c
                                      /\ decisions[k].key = v /\ decisions[k].id = id
    BY <1>11 DEF HasNew
  <2>2. Sends(decisions[k])
    BY <2>1 DEF IsNew, Sends, get_decision
  <2>3. k \in ToSet(Sending)
    BY <1>5, <2>2
  <2>4. PICK n \in DOMAIN Sending : Sending[n] = k
    BY <2>3 DEF ToSet
  <2>5. get_decisions[n] = Sent(decisions[k]) /\ n \in DOMAIN get_decisions
    BY <1>7, <2>4
  <2>6. Sent(decisions[k]).type = "RecordMarker" /\ Sent(decisions[k]).ref = v /\ Sent(decisions[k]).name = c
    BY <1>8, <2>1, <2>2
  <2> QED BY <2>5, <2>6
<1> QED BY <1>10, <1>11, Zenon DEF Tells


-----------------------------------------------------------------------------
(* The replay under way *)

\* R holds the states of the decider from its start, and if it is about to answer, what its new markers are.
Path(R) ==
  /\ Trace(R, Now, Polled, workflow)
  /\ SelfNamed(decisions)
  /\ \/ /\ \A s \in R : ~Answering(s)
        /\ phase # "loop" => NothingNew(decisions)
     \/ /\ Answering(Now)
        /\ \E B : /\ Known(R, B)
                  /\ AllNew(decisions, next_decision_event_id, mutable_marker_results, B)

\* What a decider that decides anew is.
LEMMA NowAnswers ==
  Answering(Now) <=> ~batch.replay /\ phase \in {"loop", "decision_events", "next"}
BY NowHas DEF Answering

\* One that does is at the end of the history.
LEMMA AnsweringEnds ==
  ASSUME Working, Answering(Now)
  PROVE  /\ phase = "next" => at > polled
         /\ phase = "decision_events" => at >= batch.end
<1>1. Inv /\ AtWork /\ Placed(Now, Polled)
  BY Zenon DEF Working
<1>2. ~batch.replay /\ phase \in {"loop", "decision_events", "next"}
  BY NowAnswers
<1>3. IsSequence(Polled) /\ Len(Polled) = polled /\ polled \in Nat
  BY WorkingIs
<1>4. CASE phase = "next"
  <2>1. at = batch.end /\ (batch = NoBatch \/ (batch.from \in 1..polled /\ batch = Batch(Polled, batch.from)))
    BY <1>1, <1>3, <1>4, PlacedNext, NowHas
  <2>2. batch # NoBatch
    BY <1>2 DEF NoBatch
  <2>3. /\ batch.replay = (batch.stop # polled)
        /\ IF batch.replay THEN DecidedTo(Polled, batch.stop + 2, batch.end) ELSE batch.end = batch.stop + 1
    BY <1>3, <2>1, <2>2, BatchLies
  <2>4. batch.stop = polled
    BY <1>2, <2>3, Zenon
  <2>5. batch.end = batch.stop + 1
    BY <1>2, <2>3, Zenon
  <2> QED BY <1>3, <1>4, <2>1, <2>4, <2>5
<1>5. CASE phase = "decision_events"
  <2>1. at \in batch.end..batch.end
    <3>1. Now.phase = "decision_events" /\ Now.at = at /\ Now.batch = batch
      BY <1>5, NowHas
    <3>2. Now.at \in (IF Now.batch.replay THEN Now.batch.next_decision_event_id ELSE Now.batch.end)..Now.batch.end
      BY <1>1, <3>1 DEF Placed
    <3> QED BY <1>2, <3>1, <3>2
  <2>2. batch.end \in Nat
    BY <1>1 DEF Inv, ThreadInv
  <2> QED BY <1>5, <2>1, <2>2
<1> QED BY <1>4, <1>5

\* One more state.
LEMMA KnownGrows ==
  ASSUME NEW R, NEW B, Known(R, B), NEW t, t.phase = "events" => DOMAIN t.markers \subseteq B,
         t.phase = "loop" /\ ~t.batch.replay => B \subseteq DOMAIN t.markers
  PROVE  Known(R \cup {t}, B)
BY Zenon DEF Known

\* The decider is not yet to answer.
LEMMA FirstPath ==
  ASSUME Working, Steps, NEW R, Path(R), \A s \in R : ~Answering(s), phase # "loop" => NothingNew(decisions),
         NEW t, t = Now', Trace(R \cup {t}, t, Polled', workflow')
  PROVE  Path(R \cup {t})'
<1>1. Now \in R /\ ~Answering(Now) /\ IsDecisions(decisions) /\ next_decision_event_id \in Nat /\ SelfNamed(decisions)
  BY Zenon DEF Path, Trace, Working, Inv, ThreadInv
<1>2. phase \in {"loop", "decision_events", "next"} => batch.replay
  BY <1>1, NowAnswers
<1>3. Answering(t) <=> ~batch'.replay /\ phase' \in {"loop", "decision_events", "next"}
  <2>1. (Answering(Now) <=> ~batch.replay /\ phase \in {"loop", "decision_events", "next"})'
    BY NowAnswers, PTL
  <2> QED BY <2>1
<1>4. t.phase = phase' /\ t.batch = batch' /\ t.markers = mutable_marker_results'
  <2>1. (Now.phase = phase /\ Now.batch = batch /\ Now.markers = mutable_marker_results)'
    BY NowHas, PTL
  <2> QED BY <2>1
<1> DEFINE Ok == /\ SelfNamed(decisions')
                 /\ \/ ~Answering(t) /\ (phase' # "loop" => NothingNew(decisions'))
                    \/ Answering(t) /\ NothingNew(decisions')
<1>5. ASSUME Ok PROVE Path(R \cup {t})'
  <2>1. CASE ~Answering(t)
    <3>1. \A s \in R \cup {t} : ~Answering(s)
      BY <2>1
    <3>2. phase' # "loop" => NothingNew(decisions')
      BY <1>5, <2>1
    <3>3. SelfNamed(decisions')
      BY <1>5
    <3> HIDE DEF Ok
    <3> QED BY <3>1, <3>2, <3>3, Zenon DEF Path
  <2>2. CASE Answering(t)
    <3>1. PICK B : B = DOMAIN mutable_marker_results'
      OBVIOUS
    <3>2. NothingNew(decisions') /\ SelfNamed(decisions')
      BY <1>5, <2>2
    <3>3. AllNew(decisions', next_decision_event_id', mutable_marker_results', B)
      BY <3>1, <3>2, NoneNew
    <3>4. Known(R, B)
      <4>1. ASSUME NEW s \in R, s.phase = "events" PROVE DOMAIN s.markers \subseteq B
        <5>1. DOMAIN s.markers \subseteq DOMAIN t.markers
          BY DEF Trace
        <5> QED BY <1>4, <3>1, <5>1
      <4>2. ASSUME NEW s \in R, s.phase = "loop", ~s.batch.replay PROVE FALSE
        BY <4>2 DEF Answering
      <4> QED BY <4>1, <4>2, Zenon DEF Known
    <3>5. Known(R \cup {t}, B)
      BY <1>4, <3>1, <3>4, KnownGrows
    <3> HIDE DEF Ok
    <3> QED BY <2>2, <3>2, <3>3, <3>5, Zenon DEF Path
  <2> QED BY <2>1, <2>2
<1>6. CASE BeginBatch
  <2>1. phase = "next" /\ phase' = "events" /\ decisions' = decisions
    BY <1>6, Zenon DEF BeginBatch
  <2>2. phase # "loop" /\ ~Answering(t)
    BY <1>3, <2>1
  <2> QED BY <1>1, <1>5, <2>1, <2>2
<1>7. CASE ProcessEvent
  <2>1. KeepsMarkers(decisions, decisions')
    BY <1>7, EventTells
  <2>2. /\ NothingNew(decisions) => NothingNew(decisions')
        /\ SelfNamed(decisions) => SelfNamed(decisions')
    BY <2>1, KeepsNews
  <2>3. phase \in {"events", "decision_events"} /\ phase' \in {"dead", phase} /\ batch' = batch
    BY <1>7, Zenon DEF ProcessEvent, SkipEvent, handle_workflow_execution_started,
       handle_workflow_execution_signaled, handle_workflow_execution_cancel_requested,
       handle_marker_recorded, handle_initiated, handle_activity_closed, handle_timer_fired,
       handle_timer_canceled, EventRaises, NoEventHandler, Raise, Consume, AtEvent
  <2>4. phase # "loop" /\ ~Answering(t)
    BY <1>2, <1>3, <2>3
  <2> QED BY <1>1, <1>5, <2>2, <2>4
<1>8. CASE RunEventLoop \/ SkipCompleted
  <2>1. phase = "events"
    BY <1>8, Zenon DEF RunEventLoop, SkipCompleted
  <2>2. decisions' = decisions
    BY <1>8, Zenon DEF RunEventLoop, SkipCompleted, Raise, deciderVars
  <2>3. NothingNew(decisions)
    BY <2>1
  <2> QED BY <1>1, <1>5, <2>2, <2>3
<1>9. CASE RunCode
  <2>1. batch' = batch /\ phase' = phase
    BY <1>9, Zenon DEF RunCode, StartHandle, schedule_activity_task, schedule_timer, FutureDone,
       FutureFailed, EnterAwait, AwaitBlocks, AwaitRaises, AwaitReturns, get_version, SetFlag,
       MainReturns, SignalReturns, UnknownSignal, QueryReturns, CodeRaises, Quiet, replayVars
  <2>2. phase = "loop"
    <3>1. AtWork /\ TasksInv
      BY DEF Working, Inv
    <3>2. phase \in {"loop", "query"}
      BY <1>9, <3>1, Zenon DEF TasksInv, RunCode, StartHandle, schedule_activity_task,
         schedule_timer, FutureDone, FutureFailed, EnterAwait, AwaitBlocks, AwaitRaises,
         AwaitReturns, get_version, SetFlag, MainReturns, SignalReturns, UnknownSignal,
         QueryReturns, Returns, Runs
    <3> QED BY <3>1, <3>2 DEF AtWork
  <2>3. SelfNamed(decisions')
    <3>1. Inv
      BY DEF Working
    <3>2. CASE Decides
      BY <1>1, <3>2, KeepsNews DEF Decides
    <3>3. CASE get_version
      BY <1>1, <3>1, <3>3, VersionTells
    <3> QED BY <1>1, <1>9, <3>1, <3>2, <3>3, CodeDecides
  <2>4. ~Answering(t) /\ phase' = "loop"
    BY <1>2, <1>3, <2>1, <2>2
  <2> QED BY <1>5, <2>3, <2>4
<1>10. CASE EndEventLoop
  <2>1. phase = "loop" /\ batch' = batch
    BY <1>10, Zenon DEF EndEventLoop
  <2>2. batch.replay
    BY <1>2, <2>1
  <2>3. notify_decision_sent
    BY <1>10, <2>2, Zenon DEF EndEventLoop
  <2>4. NothingNew(decisions') /\ SelfNamed(decisions')
    BY <1>1, <2>3, NotifyTells
  <2>5. ~Answering(t)
    BY <1>3, <2>1, <2>2
  <2> QED BY <1>5, <2>4, <2>5
<1>11. CASE EndBatch
  <2>1. phase = "decision_events" /\ batch' = batch /\ decisions' = decisions
    BY <1>11, Zenon DEF EndBatch, deciderVars
  <2>2. NothingNew(decisions') /\ SelfNamed(decisions') /\ ~Answering(t)
    BY <1>1, <1>2, <1>3, <2>1
  <2> QED BY <1>5, <2>2
<1>12. CASE RespondDecisions \/ query \/ respond_query \/ RespondQueryFailed
  <2>1. phase' \in {"idle", "query"}
    BY <1>12, Zenon DEF RespondDecisions, query, respond_query, RespondQueryFailed, DropDecider
  <2> QED BY <2>1 DEF Steps, AtWork
<1> HIDE DEF Ok
<1> QED BY <1>6, <1>7, <1>8, <1>9, <1>10, <1>11, <1>12, Zenon DEF Steps, WorkerStep


\* The decider is about to answer.
LEMMA SecondPath ==
  ASSUME Working, Steps, NEW R, Path(R), Answering(Now),
         NEW B, Known(R, B), AllNew(decisions, next_decision_event_id, mutable_marker_results, B),
         NEW t, t = Now', Trace(R \cup {t}, t, Polled', workflow')
  PROVE  Path(R \cup {t})'
<1>1. /\ Now \in R /\ IsDecisions(decisions) /\ next_decision_event_id \in Nat /\ SelfNamed(decisions)
      /\ Inv /\ AtWork /\ Placed(Now, Polled)
  BY Zenon DEF Path, Trace, Working, Inv, ThreadInv
<1>2. ~batch.replay /\ phase \in {"loop", "decision_events", "next"}
  BY NowAnswers
<1>3. Answering(t) <=> ~batch'.replay /\ phase' \in {"loop", "decision_events", "next"}
  <2>1. (Answering(Now) <=> ~batch.replay /\ phase \in {"loop", "decision_events", "next"})'
    BY NowAnswers, PTL
  <2> QED BY <2>1
<1>4. t.phase = phase' /\ t.batch = batch' /\ t.markers = mutable_marker_results'
  <2>1. (Now.phase = phase /\ Now.batch = batch /\ Now.markers = mutable_marker_results)'
    BY NowHas, PTL
  <2> QED BY <2>1
<1>5. ASSUME batch' = batch, phase' \in {"loop", "decision_events", "next"}, SelfNamed(decisions'),
             AllNew(decisions', next_decision_event_id', mutable_marker_results', B),
             phase' = "loop" => B \subseteq DOMAIN mutable_marker_results'
      PROVE  Path(R \cup {t})'
  <2>1. Answering(t)
    BY <1>2, <1>3, <1>5
  <2>2. Known(R \cup {t}, B)
    BY <1>4, <1>5, KnownGrows
  <2> QED BY <1>5, <2>1, <2>2, Zenon DEF Path
<1>6. ASSUME batch' = batch, phase' \in {"decision_events", "next"}, decisions' = decisions,
             next_decision_event_id' = next_decision_event_id, mutable_marker_results' = mutable_marker_results
      PROVE  Path(R \cup {t})'
  BY <1>1, <1>5, <1>6
<1>7. /\ phase = "next" => at > polled
      /\ phase = "decision_events" => at >= batch.end
  BY AnsweringEnds
<1>8. CASE BeginBatch
  <2>1. phase = "next"
    BY <1>8, Zenon DEF BeginBatch
  <2>2. at <= polled
    BY <1>8, Zenon DEF BeginBatch
  <2> QED BY <1>1, <1>7, <2>1, <2>2 DEF Inv, ThreadInv
<1>9. CASE ProcessEvent
  <2>1. \/ phase = "events" /\ at < batch.stop
        \/ phase = "decision_events" /\ at < batch.end
    BY <1>9, Zenon DEF ProcessEvent, SkipEvent, handle_workflow_execution_started,
       handle_workflow_execution_signaled, handle_workflow_execution_cancel_requested,
       handle_marker_recorded, handle_initiated, handle_activity_closed, handle_timer_fired,
       handle_timer_canceled, EventRaises, NoEventHandler, AtEvent
  <2>2. at \in Nat /\ batch.end \in Nat
    BY <1>1 DEF Inv, ThreadInv
  <2> QED BY <1>2, <1>7, <2>1, <2>2
<1>10. CASE RunEventLoop \/ SkipCompleted
  <2>1. phase = "events"
    BY <1>10, Zenon DEF RunEventLoop, SkipCompleted
  <2> QED BY <1>2, <2>1
<1>11. CASE RunCode
  <2>1. batch' = batch /\ phase' = phase
    BY <1>11, Zenon DEF RunCode, StartHandle, schedule_activity_task, schedule_timer, FutureDone,
       FutureFailed, EnterAwait, AwaitBlocks, AwaitRaises, AwaitReturns, get_version, SetFlag,
       MainReturns, SignalReturns, UnknownSignal, QueryReturns, CodeRaises, Quiet, replayVars
  <2>2. phase = "loop"
    <3>1. AtWork /\ TasksInv
      BY <1>1 DEF Inv
    <3>2. phase \in {"loop", "query"}
      BY <1>11, <3>1, Zenon DEF TasksInv, RunCode, StartHandle, schedule_activity_task,
         schedule_timer, FutureDone, FutureFailed, EnterAwait, AwaitBlocks, AwaitRaises,
         AwaitReturns, get_version, SetFlag, MainReturns, SignalReturns, UnknownSignal,
         QueryReturns, Returns, Runs
    <3> QED BY <3>1, <3>2 DEF AtWork
  <2>3. B \subseteq DOMAIN mutable_marker_results
    <3>1. Now.phase = "loop" /\ ~Now.batch.replay /\ Now.markers = mutable_marker_results
      BY <1>2, <2>2, NowHas
    <3> QED BY <1>1, <3>1 DEF Known
  <2>4. CASE Decides
    <3>1. KeepsMarkers(decisions, decisions') /\ mutable_marker_results' = mutable_marker_results
      BY <2>4, Zenon DEF Decides
    <3>2. next_decision_event_id' \in Nat /\ next_decision_event_id <= next_decision_event_id'
      BY <2>4, Zenon DEF Decides
    <3>3. AllNew(decisions', next_decision_event_id', mutable_marker_results, B)
      BY <1>1, <3>1, <3>2, StillNew
    <3>4. SelfNamed(decisions')
      BY <1>1, <3>1, KeepsNews
    <3> QED BY <1>2, <1>5, <2>1, <2>3, <3>1, <3>3, <3>4
  <2>5. CASE \E change : /\ change \notin DOMAIN mutable_marker_results
                         /\ record_mutable_marker(change, MAX_SUPPORTED)
    <3>1. PICK change : /\ change \notin DOMAIN mutable_marker_results
                        /\ record_mutable_marker(change, MAX_SUPPORTED)
      BY <2>5
    <3>2. /\ SelfNamed(decisions) => SelfNamed(decisions')
          /\ DOMAIN mutable_marker_results' = DOMAIN mutable_marker_results \cup {change}
          /\ AllNew(decisions', next_decision_event_id', mutable_marker_results', B)
      BY <1>1, <2>3, <3>1, RecordedIs
    <3> QED BY <1>1, <1>2, <1>5, <2>1, <2>3, <3>2
  <2> QED BY <1>1, <1>2, <1>11, <2>4, <2>5, CodeDecides, VersionTells
<1>12. CASE EndEventLoop
  <2>1. /\ phase' = "decision_events" /\ batch' = batch /\ next_decision_event_id' = next_decision_event_id
        /\ mutable_marker_results' = mutable_marker_results
    BY <1>12, Zenon DEF EndEventLoop
  <2>2. decisions' = decisions
    BY <1>2, <1>12, Zenon DEF EndEventLoop
  <2> QED BY <1>6, <2>1, <2>2
<1>13. CASE EndBatch
  <2>1. /\ phase' = "next" /\ batch' = batch /\ next_decision_event_id' = next_decision_event_id
        /\ mutable_marker_results' = mutable_marker_results /\ decisions' = decisions
    BY <1>13, Zenon DEF EndBatch, deciderVars
  <2> QED BY <1>6, <2>1
<1>14. CASE RespondDecisions \/ query \/ respond_query \/ RespondQueryFailed
  <2>1. phase' \in {"idle", "query"}
    BY <1>14, Zenon DEF RespondDecisions, query, respond_query, RespondQueryFailed, DropDecider
  <2> QED BY <2>1 DEF Steps, AtWork
<1> QED BY <1>8, <1>9, <1>10, <1>11, <1>12, <1>13, <1>14, Zenon DEF Steps, WorkerStep

\* A path goes on with every step.
LEMMA StepPath ==
  ASSUME Working, Steps, NEW R, Path(R)
  PROVE  \E S : Path(S)'
<1>1. PICK t : t = Now'
  OBVIOUS
<1>2. Polled' = Polled /\ workflow' = workflow
  BY Zenon DEF Steps, Polled, serviceVars
<1>3. IsSequence(Polled) /\ Len(Polled) = polled /\ Trace(R, Now, Polled, workflow)
  BY WorkingIs, Zenon DEF Path
<1>4. Now.phase = "next" => Now.at <= Len(Polled)
  BY <1>3, NowHas DEF Steps
<1>5. t = Succ(Now, Polled, workflow)
  BY <1>1 DEF Steps
<1>6. Trace(R \cup {t}, t, Polled, workflow)
  BY <1>3, <1>4, <1>5, TraceGrows
<1>7. Trace(R \cup {t}, t, Polled', workflow')
  BY <1>2, <1>6
<1>8. CASE (\A s \in R : ~Answering(s)) /\ (phase # "loop" => NothingNew(decisions))
  <2>1. Path(R \cup {t})'
    BY <1>1, <1>7, <1>8, FirstPath
  <2> QED BY <2>1
<1>9. CASE /\ Answering(Now)
           /\ \E B : Known(R, B) /\ AllNew(decisions, next_decision_event_id, mutable_marker_results, B)
  <2>1. PICK B : Known(R, B) /\ AllNew(decisions, next_decision_event_id, mutable_marker_results, B)
    BY <1>9
  <2>2. Path(R \cup {t})'
    BY <1>1, <1>7, <1>9, <2>1, SecondPath
  <2> QED BY <2>2
<1> QED BY <1>8, <1>9, Zenon DEF Path

\* It starts with the decider.
LEMMA StartPath ==
  ASSUME Now = Start
  PROVE  Path({Start})
<1>1. Trace({Start}, Now, Polled, workflow) /\ ~Answering(Start)
  BY TraceStarts
<1>2. decisions = <<>>
  <2>1. DeciderNow = NoDecisions
    <3>1. Now.decider = DeciderNow
      BY NowHas
    <3>2. Start.decider = NoDecisions
      BY StateHas DEF Start
    <3> QED BY <3>1, <3>2
  <2>2. NoDecisions.decisions = <<>>
    BY DEF NoDecisions, Decider
  <2> QED BY <2>1, <2>2, DeciderNowHas
<1>3. NothingNew(decisions) /\ SelfNamed(decisions)
  BY <1>2, EmptySequence DEF NothingNew, SelfNamed
<1> QED BY <1>1, <1>3, Zenon DEF Path

\* The path of a decider at the end of the history says what is new.
LEMMA PathEnds ==
  ASSUME NEW R, Path(R), phase = "next"
  PROVE  /\ Trace(R, Now, Polled, workflow)
         /\ SelfNamed(decisions)
         /\ \E B : Known(R, B) /\ AllNew(decisions, next_decision_event_id, mutable_marker_results, B)
<1>1. Trace(R, Now, Polled, workflow) /\ SelfNamed(decisions)
  BY Zenon DEF Path
<1>2. CASE (\A s \in R : ~Answering(s)) /\ (phase # "loop" => NothingNew(decisions))
  <2>1. PICK B : B = DOMAIN mutable_marker_results
    OBVIOUS
  <2>2. AllNew(decisions, next_decision_event_id, mutable_marker_results, B)
    BY <1>2, <2>1, NoneNew
  <2>3. Known(R, B)
    <3>1. ASSUME NEW s \in R, s.phase = "events" PROVE DOMAIN s.markers \subseteq B
      BY <1>1, <2>1, NowHas DEF Trace
    <3>2. ASSUME NEW s \in R, s.phase = "loop", ~s.batch.replay PROVE FALSE
      BY <1>2, <3>2 DEF Answering
    <3> QED BY <3>1, <3>2, Zenon DEF Known
  <2> QED BY <1>1, <2>2, <2>3
<1> QED BY <1>1, <1>2, Zenon DEF Path


-----------------------------------------------------------------------------
(* How far the code of the decider at work has come *)

\* Its tasks have their fields.
LEMMA CodedNow ==
  ASSUME TasksInv
  PROVE  Coded(CodeNow)
<1>1. CodeNow.task = TasksNow
  BY CodeNowHas
<1>2. /\ IsSequence(task) /\ DOMAIN TasksNow = DOMAIN task
      /\ \A t \in DOMAIN task : IsTask(task[t]) /\ TasksNow[t] = Bare(task[t])
  BY TasksAre
<1>3. IsSequence(TasksNow)
  <2>1. DOMAIN task = 1..Len(task) /\ Len(task) \in Nat
    BY <1>2, SequenceIs
  <2>2. TasksNow = [t \in DOMAIN task |-> TasksNow[t]]
    BY DEF TasksNow
  <2> QED BY <2>1, <2>2, SequenceMade
<1>4. ASSUME NEW t \in DOMAIN TasksNow
      PROVE  TasksNow[t] = Bare(TasksNow[t]) /\ TasksNow[t].pc \in Nat
  <2>1. TasksNow[t] = Bare(task[t]) /\ IsTask(task[t])
    BY <1>2, <1>4
  <2>2. Bare(Bare(task[t])) = Bare(task[t])
    BY DEF Bare
  <2>3. Bare(task[t]).pc = task[t].pc
    BY BareHas
  <2> QED BY <2>1, <2>2, <2>3 DEF IsTask
<1> QED BY <1>1, <1>3, <1>4, Zenon DEF Coded

\* The task that runs has an operation to run.
LEMMA RunnableNow ==
  ASSUME Working, RunCode
  PROVE  Runnable(CodeNow, workflow)
<1>1. ASSUME NEW ops, NEW e \in BOOLEAN, Runs(ops, e),
             ops \subseteq {"activity", "sleep", "await", "await_timeout", "await_failing"}
                             \cup IF e THEN {} ELSE {"get_version", "set"}
      PROVE  Runnable(CodeNow, workflow)
  <2>1. /\ CodeNow.running = running /\ CodeNow.task = TasksNow
        /\ OpIn(workflow, TasksNow[running]) = Op(running) /\ Op(running).op \in ops
        /\ TasksNow[running].entered = e
    BY <1>1, RunsIs
  <2>2. OpIn(workflow, CodeNow.task[CodeNow.running]).op \in ops /\ CodeNow.task[CodeNow.running].entered = e
    BY <2>1
  <2> QED BY <1>1, <2>2 DEF Runnable
<1>2. CASE StartHandle
  <2>1. CodeNow.running = 0
    BY <1>2, CodeNowHas DEF StartHandle
  <2> QED BY <2>1 DEF Runnable, Stands
<1>3. CASE MainReturns \/ SignalReturns \/ UnknownSignal \/ QueryReturns
  BY <1>3, ReturnsIs DEF Runnable
<1>4. CASE FutureDone \/ FutureFailed \/ AwaitBlocks \/ AwaitRaises \/ AwaitReturns
  <2>1. \E ops \in {{"activity", "sleep"}, {"await", "await_timeout", "await_failing"}, {"await_failing"},
                    {"await", "await_timeout"}} : Runs(ops, TRUE)
    BY <1>4 DEF FutureDone, FutureFailed, AwaitBlocks, AwaitRaises, AwaitReturns
  <2>2. PICK ops : /\ Runs(ops, TRUE)
                   /\ ops \subseteq {"activity", "sleep", "await", "await_timeout", "await_failing"}
    BY <2>1
  <2> QED BY <1>1, <2>2
<1>5. CASE schedule_activity_task \/ schedule_timer \/ EnterAwait \/ get_version \/ SetFlag
  <2>1. \E ops \in {{"activity"}, {"sleep"}, {"await", "await_failing"}, {"await_timeout"}, {"get_version"},
                    {"set"}} : Runs(ops, FALSE)
    BY <1>5 DEF schedule_activity_task, schedule_timer, EnterAwait, get_version, SetFlag
  <2>2. PICK ops : /\ Runs(ops, FALSE)
                   /\ ops \subseteq {"activity", "sleep", "await", "await_timeout", "await_failing",
                                     "get_version", "set"}
    BY <2>1
  <2> QED BY <1>1, <2>2
<1> QED BY <1>2, <1>3, <1>4, <1>5, Zenon DEF RunCode

\* The only steps in the event loop are those of the code.
LEMMA LoopSteps ==
  ASSUME Inv, Steps, phase = "loop", phase' = "loop"
  PROVE  RunCode
<1>1. ~BeginBatch /\ ~RunEventLoop /\ ~SkipCompleted /\ ~EndBatch
  BY DEF BeginBatch, RunEventLoop, SkipCompleted, EndBatch
<1>2. ~EndEventLoop
  BY DEF EndEventLoop
<1>3. ~ProcessEvent
  <2>1. ProcessEvent => \E types : AtEvent(types)
    BY Zenon DEF ProcessEvent, SkipEvent, handle_workflow_execution_started,
       handle_workflow_execution_signaled, handle_workflow_execution_cancel_requested,
       handle_marker_recorded, handle_initiated, handle_activity_closed, handle_timer_fired,
       handle_timer_canceled, EventRaises, NoEventHandler
  <2> QED BY <2>1 DEF AtEvent
<1>4. ~RespondDecisions /\ ~query /\ ~respond_query /\ ~RespondQueryFailed
  BY DEF RespondDecisions, query, respond_query, RespondQueryFailed, DropDecider
<1> QED BY <1>1, <1>2, <1>3, <1>4 DEF Steps, WorkerStep

\* Every step of the decider leaves begun what was begun.
LEMMA StepFurther ==
  ASSUME Working, Steps
  PROVE  Further(CodeNow, CodeNow')
<1>1. PICK s, t, h : s = Now /\ t = Now' /\ h = Polled
  OBVIOUS
<1>2. /\ IsSequence(h) /\ Placed(s, h) /\ t = Succ(s, h, workflow)
      /\ s.phase \in {"next", "events", "loop", "decision_events"}
  BY <1>1, WorkingIs, NowHas DEF Working, Steps, AtWork
<1>3. s.code = CodeNow /\ t.code = CodeNow' /\ s.phase = phase /\ t.phase = phase'
  <2>1. (Now.code = CodeNow /\ Now.phase = phase)'
    BY NowHas, PTL
  <2> QED BY <1>1, <2>1, NowHas
<1>4. Coded(s.code)
  BY <1>3, CodedNow DEF Working, Inv
<1>5. CASE t = AfterEvent(s, workflow, h)
  <2>1. t.code = CodeAfterEvent(s.code, s.decider, workflow, h[s.at], s.at)
    BY <1>5 DEF AfterEvent, State
  <2> QED BY <1>3, <1>4, <2>1, EventFurther
<1>6. CASE s.phase = "loop" /\ t = AfterStep(s, workflow)
  <2>1. t.code = CodeAfterStep(s.code, workflow, s.markers, s.batch.replay) /\ t.phase = "loop"
    BY <1>6 DEF AfterStep, State
  <2>2. Runnable(s.code, workflow)
    BY <1>3, <1>6, <2>1, LoopSteps, RunnableNow DEF Working
  <2> QED BY <1>3, <1>4, <2>1, <2>2, LoopFurther
<1>7. CASE t = LoopBegins(s)
  <2>1. t.code = Unblocking(s.code)
    BY <1>7 DEF LoopBegins, State
  <2> QED BY <1>3, <1>4, <2>1, UnblockingFurther
<1>8. CASE t = BatchBegins(s, h) \/ t = Goes(s, s.batch.end) \/ t = Goes(s, s.at) \/ t = LoopEnds(s)
  <2>1. t.code = s.code
    BY <1>8 DEF BatchBegins, Goes, LoopEnds, State
  <2> QED BY <1>3, <2>1, FurtherOn
<1>9. CASE s.phase = "next"
  BY <1>2, <1>8, <1>9, SuccPlace
<1>10. CASE s.phase = "events"
  BY <1>2, <1>5, <1>7, <1>8, <1>10, SuccPlace
<1>11. CASE s.phase = "loop"
  BY <1>2, <1>6, <1>8, <1>11, SuccPlace
<1>12. CASE s.phase = "decision_events"
  BY <1>2, <1>5, <1>8, <1>12, SuccPlace
<1> QED BY <1>2, <1>9, <1>10, <1>11, <1>12

-----------------------------------------------------------------------------
(* Each place schedules one activity *)

\* All of a sequence.
LEMMA WholeSequence ==
  ASSUME NEW g, IsSequence(g)
  PROVE  SubSeq(g, 1, Len(g)) = g
<1>1. Len(g) \in Nat /\ DOMAIN g = 1..Len(g)
  BY SequenceIs
<1>2. g = [i \in 1..Len(g) |-> g[i]]
  BY <1>1 DEF IsSequence
<1>3. SubSeq(g, 1, Len(g)) = [i \in 1..Len(g) |-> g[i]]
  BY <1>1 DEF IsSequence
<1> QED BY <1>2, <1>3


\* What is to be scheduled, when the decider decides anew; nothing else is left to be,
\* but in the event loop of a replay.
FreshInv ==
  AtWork =>
    IF Answering(Now) THEN ~Closed => FreshOk(decisions, CodeNow, Polled)
    ELSE phase # "loop" => NothingFresh(decisions)

\* The code schedules an activity.
LEMMA ScheduleBegins ==
  ASSUME Working, schedule_activity_task
  PROVE  \E k, e : /\ add_decision(e) /\ e.name = <<running, k>>
                   /\ ~Begun(CodeNow, running, k) /\ Begun(CodeNow', running, k)
<1>1. Runs({"activity"}, FALSE) /\ Now' = Succ(Now, Polled, workflow) /\ phase = "loop"
      /\ add_decision(Entry("ACTIVITY", next_decision_event_id, id_counter, Place))
  <2>1. schedule_activity_task => RunCode
    BY Zenon DEF RunCode
  <2>2. Runs({"activity"}, FALSE)
    BY Zenon DEF schedule_activity_task
  <2>3. running # 0
    BY <2>2 DEF Runs
  <2>4. phase = "loop"
    BY <2>3 DEF Working, AtWork, Inv, TasksInv
  <2> QED BY <2>1, <2>2, <2>4, RunCodeIs, Zenon DEF schedule_activity_task
<1>2. /\ Stands(CodeNow, workflow) /\ running # 0 /\ running \in DOMAIN task /\ IsTask(task[running])
      /\ CodeNow.running = running /\ CodeNow.task = TasksNow
      /\ OpIn(workflow, TasksNow[running]) = Op(running) /\ Op(running).op = "activity"
      /\ TasksNow[running].entered = FALSE /\ TasksNow[running].pc = task[running].pc
  <2>1. /\ Stands(CodeNow, workflow) /\ running # 0 /\ running \in DOMAIN task /\ IsTask(task[running])
        /\ CodeNow.running = running /\ CodeNow.task = TasksNow /\ TasksNow[running] = Bare(task[running])
        /\ OpIn(workflow, TasksNow[running]) = Op(running) /\ Op(running).op \in {"activity"}
        /\ TasksNow[running].entered = FALSE
    BY <1>1, RunsIs
  <2>2. TasksNow[running].pc = task[running].pc
    BY <2>1, BareHas
  <2> QED BY <2>1, <2>2
<1>3. PICK k, e : k = task[running].pc /\ e = Entry("ACTIVITY", next_decision_event_id, id_counter, Place)
  OBVIOUS
<1>4. add_decision(e) /\ e.name = <<running, k>> /\ k \in Nat
  <2>1. Place = <<running, k>>
    BY <1>3 DEF Place
  <2> QED BY <1>1, <1>2, <1>3, <2>1, TargetIs DEF IsTask
<1>5. ~Begun(CodeNow, running, k)
  BY <1>2, <1>3, <1>4 DEF Begun
<1>6. CodeNow' = Entering(CodeNow, 0)
  <2>1. CodeNow' = CodeAfterStep(CodeNow, workflow, mutable_marker_results, batch.replay)
    <3>1. Now' = AfterStep(Now, workflow)
      BY <1>1, <1>2, NowHas, CodeNowHas, WorkingIs, SuccIs
    <3>2. AfterStep(Now, workflow).code = CodeAfterStep(CodeNow, workflow, mutable_marker_results, batch.replay)
      BY NowHas DEF AfterStep, State
    <3>3. (Now.code = CodeNow)'
      BY NowHas, PTL
    <3> QED BY <3>1, <3>2, <3>3
  <2>2. CodeAfterStep(CodeNow, workflow, mutable_marker_results, batch.replay) = CodeBegins(CodeNow, Op(running),
          mutable_marker_results, batch.replay)
    BY <1>2, StandsNow
  <2>3. CodeBegins(CodeNow, Op(running), mutable_marker_results, batch.replay) = Entering(CodeNow, 0)
    BY <1>2 DEF CodeBegins
  <2> QED BY <2>1, <2>2, <2>3
<1>7. Begun(CodeNow', running, k)
  <2>1. PICK c, d : c = CodeNow /\ d = CodeNow'
    OBVIOUS
  <2>2. d.task = [c.task EXCEPT ![running].entered = TRUE]
    BY <1>2, <1>6, <2>1 DEF Entering, Code
  <2>3. Coded(c) /\ running \in DOMAIN c.task /\ c.task[running].pc = k
    BY <1>2, <1>3, <2>1, CodedNow, TasksAre DEF Working, Inv
  <2>4. c.task[running] = Bare(c.task[running])
    BY <2>3 DEF Coded
  <2>5. d.task[running] = [Bare(c.task[running]) EXCEPT !.entered = TRUE] /\ running \in DOMAIN d.task
    BY <2>2, <2>3, <2>4
  <2>6. d.task[running].pc = k /\ d.task[running].entered
    BY <2>3, <2>5 DEF Bare
  <2>7. Begun(d, running, k)
    BY <1>4, <2>5, <2>6 DEF Begun
  <2> QED BY <2>1, <2>7
<1> QED BY <1>4, <1>5, <1>7

\* A step of the decider.
LEMMA StepFresh ==
  ASSUME Working, Steps, FreshInv,
         Answering(Now) /\ phase = "loop" /\ ~Closed => Covers(Polled, CodeNow)
  PROVE  FreshInv'
<1>1. /\ Inv /\ IsDecisions(decisions) /\ AtWork /\ AtWork'
      /\ Polled' = Polled /\ (Closed' <=> Closed)
  BY DEF Working, Inv, Steps, Polled, Closed, serviceVars
<1>2. Answering(Now) <=> ~batch.replay /\ phase \in {"loop", "decision_events", "next"}
  BY NowAnswers
<1>3. Answering(Now)' <=> ~batch'.replay /\ phase' \in {"loop", "decision_events", "next"}
  <2>1. (Answering(Now) <=> ~batch.replay /\ phase \in {"loop", "decision_events", "next"})'
    BY NowAnswers, PTL
  <2> QED BY <2>1
<1>4. PICK c, d : c = CodeNow /\ d = CodeNow'
  OBVIOUS
<1>5. Further(c, d)
  BY <1>4, StepFurther
<1>6. FreshInv' <=> (IF Answering(Now)' THEN ~Closed' => FreshOk(decisions', d, Polled')
                     ELSE phase' # "loop" => NothingFresh(decisions'))
  BY <1>1, <1>4 DEF FreshInv
<1>7. Answering(Now) => (phase = "next" => at > polled) /\ (phase = "decision_events" => at >= batch.end)
  BY AnsweringEnds
<1>8. ASSUME NothingFresh(decisions') PROVE FreshInv'
  BY <1>6, <1>8, NoneFresh
<1>9. ASSUME ~Answering(Now), phase # "loop", KeepsFresh(decisions, decisions') PROVE FreshInv'
  <2>1. NothingFresh(decisions)
    BY <1>1, <1>9 DEF FreshInv
  <2>2. NothingFresh(decisions')
    BY <1>5, <1>9, <2>1, FreshKept
  <2> QED BY <1>8, <2>2
<1>10. CASE BeginBatch
  <2>1. phase = "next" /\ at <= polled /\ decisions' = decisions
    BY <1>10, Zenon DEF BeginBatch
  <2>2. at \in Nat /\ polled \in Nat
    BY WorkingIs
  <2>3. ~Answering(Now)
    BY <1>7, <2>1, <2>2
  <2> QED BY <1>9, <2>1, <2>3, SameFresh
<1>11. CASE ProcessEvent
  <2>1. \/ phase = "events" /\ at < batch.stop
        \/ phase = "decision_events" /\ at < batch.end
    BY <1>11, Zenon DEF ProcessEvent, SkipEvent, handle_workflow_execution_started,
       handle_workflow_execution_signaled, handle_workflow_execution_cancel_requested,
       handle_marker_recorded, handle_initiated, handle_activity_closed, handle_timer_fired,
       handle_timer_canceled, EventRaises, NoEventHandler, AtEvent
  <2>2. at \in Nat /\ batch.end \in Nat
    BY <1>1 DEF Inv, ThreadInv
  <2>3. ~Answering(Now)
    BY <1>2, <1>7, <2>1, <2>2
  <2>4. phase # "loop"
    BY <2>1
  <2> QED BY <1>9, <1>11, <2>3, <2>4, EventFresh
<1>12. CASE RunEventLoop \/ SkipCompleted
  <2>1. phase = "events"
    BY <1>12, Zenon DEF RunEventLoop, SkipCompleted
  <2>2. decisions' = decisions
    BY <1>1, <1>12, Zenon DEF RunEventLoop, SkipCompleted, Raise, deciderVars
  <2> QED BY <1>2, <1>9, <2>1, <2>2, SameFresh
<1>13. CASE RunCode
  <2>1. phase = "loop" /\ phase' = phase /\ batch' = batch
    <3>1. batch' = batch /\ phase' = phase
      BY <1>13, Zenon DEF RunCode, StartHandle, schedule_activity_task, schedule_timer, FutureDone,
         FutureFailed, EnterAwait, AwaitBlocks, AwaitRaises, AwaitReturns, get_version, SetFlag,
         MainReturns, SignalReturns, UnknownSignal, QueryReturns, CodeRaises, Quiet, replayVars
    <3>2. TasksInv
      BY <1>1 DEF Inv
    <3>3. phase \in {"loop", "query"}
      BY <1>13, <3>2, Zenon DEF TasksInv, RunCode, StartHandle, schedule_activity_task,
         schedule_timer, FutureDone, FutureFailed, EnterAwait, AwaitBlocks, AwaitRaises,
         AwaitReturns, get_version, SetFlag, MainReturns, SignalReturns, UnknownSignal,
         QueryReturns, Returns, Runs
    <3> QED BY <1>1, <3>1, <3>3 DEF AtWork
  <2>2. CASE ~Answering(Now)
    BY <1>2, <1>3, <1>6, <2>1, <2>2
  <2>3. CASE Answering(Now)
    <3>1. SUFFICES ASSUME ~Closed PROVE FreshOk(decisions', d, Polled)
      BY <1>1, <1>2, <1>3, <1>6, <2>1, <2>3
    <3>2. FreshOk(decisions, c, Polled) /\ Covers(Polled, c)
      BY <1>1, <1>4, <2>1, <2>3, <3>1 DEF FreshInv
    <3>3. CASE KeepsFresh(decisions, decisions')
      BY <1>5, <3>2, <3>3, FreshKept
    <3>4. CASE schedule_activity_task
      <4>1. PICK k, e : /\ add_decision(e) /\ e.name = <<running, k>>
                        /\ ~Begun(c, running, k) /\ Begun(d, running, k)
        BY <1>4, <3>4, ScheduleBegins
      <4> QED BY <1>1, <1>5, <3>2, <4>1, ScheduleFresh
    <3> QED BY <1>1, <1>13, <3>3, <3>4, CodeFresh
  <2> QED BY <2>2, <2>3
<1>14. CASE EndEventLoop
  <2>1. CASE batch.replay
    <3>1. notify_decision_sent
      BY <1>14, <2>1, Zenon DEF EndEventLoop
    <3> QED BY <1>1, <1>8, <3>1, NotifyFresh
  <2>2. CASE ~batch.replay
    <3>1. decisions' = decisions /\ phase = "loop" /\ phase' = "decision_events" /\ batch' = batch
      BY <1>14, <2>2, Zenon DEF EndEventLoop
    <3>2. Answering(Now) /\ Answering(Now)'
      BY <1>2, <1>3, <2>2, <3>1
    <3>3. ~Closed => FreshOk(decisions, c, Polled)
      BY <1>1, <1>4, <3>2 DEF FreshInv
    <3>4. ~Closed => FreshOk(decisions', d, Polled')
      BY <1>1, <1>5, <3>1, <3>3, SameFresh, FreshKept
    <3> QED BY <1>1, <1>6, <3>2, <3>4
  <2> QED BY <2>1, <2>2
<1>15. CASE EndBatch
  <2>1. decisions' = decisions /\ phase = "decision_events" /\ phase' = "next" /\ batch' = batch
    BY <1>15, Zenon DEF EndBatch, deciderVars
  <2>2. CASE ~Answering(Now)
    BY <1>9, <2>1, <2>2, SameFresh
  <2>3. CASE Answering(Now)
    <3>1. Answering(Now)'
      BY <1>2, <1>3, <2>1, <2>3
    <3>2. ~Closed => FreshOk(decisions, c, Polled)
      BY <1>1, <1>4, <2>3 DEF FreshInv
    <3>3. ~Closed => FreshOk(decisions', d, Polled')
      BY <1>1, <1>5, <2>1, <3>2, SameFresh, FreshKept
    <3> QED BY <1>1, <1>6, <3>1, <3>3
  <2> QED BY <2>2, <2>3
<1>16. CASE RespondDecisions \/ query \/ respond_query \/ RespondQueryFailed
  <2>1. phase' \in {"idle", "query"}
    BY <1>16, Zenon DEF RespondDecisions, query, respond_query, RespondQueryFailed, DropDecider
  <2> QED BY <2>1 DEF Steps, AtWork
<1> QED BY <1>10, <1>11, <1>12, <1>13, <1>14, <1>15, <1>16, Zenon DEF Steps, WorkerStep

\* The decision to schedule an activity is of an entry that is fresh.
LEMMA SentFresh ==
  ASSUME NEW x, IsEntry(x), Sends(x), x.machine.target = "SELF" => x.name \in ClosingTypes,
         Sent(x).type = "ScheduleActivityTask"
  PROVE  IsFresh(x) /\ Sent(x).name = x.name
<1>1. x.machine.target \in {"ACTIVITY", "TIMER", "MARKER", "SELF"}
  BY DEF IsEntry, Legal, Machine, Targets
<1>2. CASE get_decision(x.machine) = "cancel"
  <2>0. x.machine.target # "SELF"
    BY <1>2 DEF get_decision, Cancelable
  <2>1. Sent(x) = Event("CancelTimer", x.key, "")
    BY <1>2, <2>0, Zenon DEF Sent
  <2>2. Event("CancelTimer", x.key, "").type = "CancelTimer"
    BY DEF Event
  <2> QED BY <2>1, <2>2
<1>3. CASE get_decision(x.machine) # "cancel" /\ x.machine.target = "SELF"
  <2>1. Sent(x) = Event(x.name, 0, "")
    BY <1>3, Zenon DEF Sent
  <2>2. Event(x.name, 0, "").type = x.name
    BY DEF Event
  <2>3. x.name # "ScheduleActivityTask"
    BY <1>3 DEF ClosingTypes
  <2> QED BY <2>1, <2>2, <2>3
<1>4. CASE get_decision(x.machine) # "cancel" /\ x.machine.target # "SELF"
  <2> DEFINE y == ScheduleType(x.machine.target)
  <2>1. Sent(x) = Event(ScheduleType(x.machine.target), x.key, x.name)
    BY <1>4, Zenon DEF Sent
  <2>2. y = "ScheduleActivityTask" => x.machine.target = "ACTIVITY"
    BY <1>1, <1>4 DEF ScheduleType
  <2> HIDE DEF y
  <2>3. Event(y, x.key, x.name).type = y /\ Event(y, x.key, x.name).name = x.name
    BY DEF Event
  <2>4. Sent(x) = Event(y, x.key, x.name)
    BY <2>1 DEF y
  <2>5. y = "ScheduleActivityTask" /\ Sent(x).name = x.name
    BY <2>3, <2>4
  <2>6. x.machine.target = "ACTIVITY"
    BY <2>2, <2>5
  <2>7. x.machine.state = "CREATED"
    BY <1>4, <2>6 DEF Sends, get_decision, Cancelable
  <2> QED BY <2>5, <2>6, <2>7 DEF IsFresh
<1> QED BY <1>2, <1>3, <1>4

\* The decisions ds schedule activities of operations that the code c has begun, each
\* once, and none that the history h has.
Schedules(ds, c, h) ==
  /\ \A n \in DOMAIN ds : ds[n].type = "ScheduleActivityTask" =>
       (\E t, k : ds[n].name = <<t, k>> /\ Begun(c, t, k)) /\ Unscheduled(h, ds[n].name)
  /\ \A m, n \in DOMAIN ds :
       /\ ds[m].type = "ScheduleActivityTask" /\ ds[n].type = "ScheduleActivityTask"
       /\ ds[m].name = ds[n].name
       => m = n

\* What is sent schedules what is fresh.
LEMMA SendsOnce ==
  ASSUME IsDecisions(decisions), SelfNamed(decisions), NEW c, NEW h, FreshOk(decisions, c, h)
  PROVE  Schedules(get_decisions, c, h)
<1> DEFINE all == [k \in DOMAIN decisions |-> k]
           S == {k \in DOMAIN decisions : ~Sends(decisions[k])}
<1>1. DOMAIN decisions = 1..Len(decisions) /\ Len(decisions) \in Nat
  BY SequenceIs DEF IsDecisions
<1>2. IsSequence(all) /\ NoRepeats(all) /\ ToSet(all) = DOMAIN decisions
  <2>1. all = [k \in 1..Len(decisions) |-> all[k]]
    BY <1>1
  <2>2. NoRepeats(all) /\ ToSet(all) = DOMAIN decisions
    BY DEF NoRepeats, ToSet
  <2> HIDE DEF all
  <2> QED BY <1>1, <2>1, <2>2, SequenceMade
<1>3. Sending = Without(all, S)
  BY DEF Sending
<1> HIDE DEF all
<1>4. IsSequence(Sending) /\ ToSet(Sending) \subseteq DOMAIN decisions \ S /\ NoRepeats(Sending)
  <2> HIDE DEF S
  <2> QED BY <1>2, <1>3, WithoutIs
<1>5. \A n \in DOMAIN Sending : Sending[n] \in ToSet(Sending)
  BY <1>4, SequenceIs
<1>6. /\ DOMAIN get_decisions = DOMAIN Sending
      /\ \A n \in DOMAIN Sending : get_decisions[n] = Sent(decisions[Sending[n]])
  BY DEF get_decisions
<1>7. \A n \in DOMAIN Sending : Sending[n] \in DOMAIN decisions /\ Sends(decisions[Sending[n]])
  BY <1>4, <1>5
<1> HIDE DEF S
<1>8. ASSUME NEW n \in DOMAIN get_decisions, get_decisions[n].type = "ScheduleActivityTask"
      PROVE  /\ Sending[n] \in DOMAIN decisions /\ IsFresh(decisions[Sending[n]])
             /\ get_decisions[n].name = decisions[Sending[n]].name
  <2>1. PICK k : k = Sending[n] /\ k \in DOMAIN decisions /\ Sends(decisions[k])
                 /\ get_decisions[n] = Sent(decisions[k])
    BY <1>6, <1>7
  <2>2. IsEntry(decisions[k])
    BY <2>1 DEF IsDecisions
  <2>3. decisions[k].machine.target = "SELF" => decisions[k].name \in ClosingTypes
    BY <2>1 DEF SelfNamed
  <2>4. IsFresh(decisions[k]) /\ Sent(decisions[k]).name = decisions[k].name
    BY <1>8, <2>1, <2>2, <2>3, SentFresh
  <2> QED BY <2>1, <2>4
<1>9. ASSUME NEW n \in DOMAIN get_decisions, get_decisions[n].type = "ScheduleActivityTask"
      PROVE  /\ \E t, k : get_decisions[n].name = <<t, k>> /\ Begun(c, t, k)
             /\ Unscheduled(h, get_decisions[n].name)
  <2>1. PICK k : k = Sending[n] /\ k \in DOMAIN decisions /\ IsFresh(decisions[k])
                 /\ get_decisions[n].name = decisions[k].name
    BY <1>8, <1>9
  <2>2. (\E t, j : decisions[k].name = <<t, j>> /\ Begun(c, t, j)) /\ Unscheduled(h, decisions[k].name)
    BY <2>1, Zenon DEF FreshOk
  <2> QED BY <2>1, <2>2
<1>10. ASSUME NEW m \in DOMAIN get_decisions, NEW n \in DOMAIN get_decisions,
              get_decisions[m].type = "ScheduleActivityTask", get_decisions[n].type = "ScheduleActivityTask",
              get_decisions[m].name = get_decisions[n].name
       PROVE  m = n
  <2>1. PICK k, l : k = Sending[m] /\ l = Sending[n]
    OBVIOUS
  <2>2. k \in DOMAIN decisions /\ IsFresh(decisions[k]) /\ get_decisions[m].name = decisions[k].name
    BY <1>8, <1>10, <2>1
  <2>3. l \in DOMAIN decisions /\ IsFresh(decisions[l]) /\ get_decisions[n].name = decisions[l].name
    BY <1>8, <1>10, <2>1
  <2>4. k = l
    BY <1>10, <2>2, <2>3, Zenon DEF FreshOk
  <2> QED BY <1>4, <1>6, <2>1, <2>4 DEF NoRepeats
<1> QED BY <1>9, <1>10, Zenon DEF Schedules

\* Each place in the history h schedules one activity.
Once(h) ==
  \A i, j \in DOMAIN h :
    h[i].type = "ActivityTaskScheduled" /\ h[j].type = "ActivityTaskScheduled" /\ h[i].name = h[j].name
    => i = j

\* Events that answer nothing schedule nothing.
LEMMA GoesOnOnce ==
  ASSUME NEW g, IsSequence(g), NEW h, IsSequence(h), GoesOn(g, h), Once(g)
  PROVE  Once(h)
<1>1. /\ Len(g) \in Nat /\ DOMAIN g = 1..Len(g) /\ Len(h) \in Nat /\ DOMAIN h = 1..Len(h)
  BY SequenceIs
<1>2. /\ \A i \in 1..Len(g) : h[i] = g[i]
      /\ \A i \in (Len(g) + 1)..Len(h) : ~is_decision_event(h[i])
  BY Zenon DEF GoesOn, Continues
<1>3. ASSUME NEW i \in DOMAIN h, h[i].type = "ActivityTaskScheduled"
      PROVE  i \in DOMAIN g /\ h[i] = g[i]
  <2>1. i \notin (Len(g) + 1)..Len(h)
    BY <1>2, <1>3 DEF is_decision_event, DecisionEventTypes
  <2>2. i \in 1..Len(g)
    BY <1>1, <2>1
  <2> QED BY <1>1, <1>2, <2>2
<1> QED BY <1>3, Zenon DEF Once

\* An answer schedules what its decisions say.
LEMMA AnswerSchedules ==
  ASSUME NEW g, IsSequence(g), NEW h, IsSequence(h), Continues(g, h),
         NEW ds, Answer(ds, Len(g), h), NEW c, Schedules(ds, c, g)
  PROVE  /\ Covers(g, c) => Covers(h, c)
         /\ Once(g) => Once(h)
<1> DEFINE n == Len(g)
<1>1. /\ n \in Nat /\ DOMAIN g = 1..n /\ Len(h) \in Nat /\ DOMAIN h = 1..Len(h) /\ n <= Len(h)
      /\ \A i \in 1..n : h[i] = g[i]
  BY SequenceIs DEF Continues
<1>2. /\ h[n + 1].type = "DecisionTaskCompleted"
      /\ \A i \in (n + 2)..Len(h) : h[i].type = "ActivityTaskScheduled" =>
           /\ i - n - 1 \in DOMAIN ds
           /\ ds[i - n - 1].type = "ScheduleActivityTask" /\ h[i].name = ds[i - n - 1].name
  BY Zenon DEF Answer
<1> HIDE DEF n
<1>3. ASSUME NEW i \in DOMAIN h, h[i].type = "ActivityTaskScheduled"
      PROVE  \/ i \in DOMAIN g /\ h[i] = g[i]
             \/ /\ i - n - 1 \in DOMAIN ds
                /\ ds[i - n - 1].type = "ScheduleActivityTask" /\ h[i].name = ds[i - n - 1].name
  <2>1. i \in 1..n \/ i = n + 1 \/ i \in (n + 2)..Len(h)
    BY <1>1
  <2>2. i # n + 1
    BY <1>2, <1>3
  <2> QED BY <1>1, <1>2, <1>3, <2>1, <2>2
<1>4. /\ \A k \in DOMAIN ds : ds[k].type = "ScheduleActivityTask" =>
           (\E t, j : ds[k].name = <<t, j>> /\ Begun(c, t, j)) /\ Unscheduled(g, ds[k].name)
      /\ \A k, l \in DOMAIN ds :
           /\ ds[k].type = "ScheduleActivityTask" /\ ds[l].type = "ScheduleActivityTask"
           /\ ds[k].name = ds[l].name
           => k = l
  BY Zenon DEF Schedules
<1>5. ASSUME Covers(g, c), NEW i \in DOMAIN h, h[i].type = "ActivityTaskScheduled"
      PROVE  \E t, k : h[i].name = <<t, k>> /\ Begun(c, t, k)
  <2>1. CASE i \in DOMAIN g /\ h[i] = g[i]
    BY <1>5, <2>1 DEF Covers
  <2>2. CASE /\ i - n - 1 \in DOMAIN ds
             /\ ds[i - n - 1].type = "ScheduleActivityTask" /\ h[i].name = ds[i - n - 1].name
    BY <1>4, <2>2
  <2> QED BY <1>3, <1>5, <2>1, <2>2
<1>6. ASSUME Once(g), NEW i \in DOMAIN h, NEW j \in DOMAIN h, h[i].type = "ActivityTaskScheduled",
             h[j].type = "ActivityTaskScheduled", h[i].name = h[j].name
      PROVE  i = j
  <2>1. ASSUME NEW k \in DOMAIN h, NEW l \in DOMAIN h, h[k].type = "ActivityTaskScheduled", h[k].name = h[l].name,
               k \in DOMAIN g, h[k] = g[k], l - n - 1 \in DOMAIN ds,
               ds[l - n - 1].type = "ScheduleActivityTask", h[l].name = ds[l - n - 1].name
        PROVE  FALSE
    <3>1. Unscheduled(g, ds[l - n - 1].name)
      BY <1>4, <2>1
    <3> QED BY <2>1, <3>1 DEF Unscheduled
  <2>2. CASE i \in DOMAIN g /\ h[i] = g[i]
    <3>1. j \in DOMAIN g /\ h[j] = g[j]
      BY <1>3, <1>6, <2>1, <2>2
    <3> QED BY <1>6, <2>2, <3>1 DEF Once
  <2>3. CASE /\ i - n - 1 \in DOMAIN ds
             /\ ds[i - n - 1].type = "ScheduleActivityTask" /\ h[i].name = ds[i - n - 1].name
    <3>1. /\ j - n - 1 \in DOMAIN ds
          /\ ds[j - n - 1].type = "ScheduleActivityTask" /\ h[j].name = ds[j - n - 1].name
      BY <1>3, <1>6, <2>1, <2>3
    <3>2. i - n - 1 = j - n - 1
      BY <1>4, <1>6, <2>3, <3>1
    <3> QED BY <1>1, <3>2
  <2> QED BY <1>3, <1>6, <2>2, <2>3
<1> QED BY <1>5, <1>6, Zenon DEF Covers, Once

\* The answer of a worker.
LEMMA AnswerOnce ==
  ASSUME Inv, Inv', FreshInv, ~Closed, phase = "next", polled = Len(history), SelfNamed(decisions),
         NEW ds, ds = get_decisions, Continues(history, history'), Answer(ds, polled, history')
  PROVE  /\ Polled = history
         /\ Covers(history, CodeNow) => Covers(history', CodeNow)
         /\ Once(history) => Once(history')
<1>1. IsSequence(history) /\ IsSequence(history') /\ IsDecisions(decisions)
  BY DEF Inv, ThreadInv
<1>2. Polled = history
  BY <1>1, WholeSequence DEF Polled
<1>3. FreshOk(decisions, CodeNow, history)
  <2>1. AtWork
    BY DEF AtWork
  <2>2. CASE Answering(Now)
    BY <1>2, <2>1, <2>2, Zenon DEF FreshInv
  <2>3. CASE ~Answering(Now)
    <3>1. phase # "loop"
      OBVIOUS
    <3>2. NothingFresh(decisions)
      BY <2>1, <2>3, <3>1, Zenon DEF FreshInv
    <3> QED BY <3>2, NoneFresh
  <2> QED BY <2>2, <2>3
<1>4. Schedules(ds, CodeNow, history)
  BY <1>1, <1>3, SendsOnce
<1>5. PICK c, h : c = CodeNow /\ h = history'
  OBVIOUS
<1>6. (Covers(history, c) => Covers(h, c)) /\ (Once(history) => Once(h))
  <2>1. Answer(ds, Len(history), h) /\ IsSequence(h) /\ Continues(history, h) /\ Schedules(ds, c, history)
    BY <1>1, <1>4, <1>5
  <2> QED BY <1>1, <2>1, AnswerSchedules
<1> QED BY <1>2, <1>5, <1>6

-----------------------------------------------------------------------------
(* What is done stays done *)

\* The log of a decider only grows.
LEMMA LogGrows ==
  ASSUME Working, OrderInv, Steps
  PROVE  IsSequence(log) /\ Continues(log, log')
<1>1. Inv /\ IsSequence(log) /\ Len(log) \in Nat /\ DOMAIN log = 1..Len(log)
  BY SequenceIs DEF Working, OrderInv
<1>2. CASE log' = log
  BY <1>1, <1>2 DEF Continues
<1>3. CASE \E e : log' = Append(log, e)
  <2>1. PICK e : log' = Append(log, e)
    BY <1>3
  <2>2. Len(Append(log, e)) = Len(log) + 1 /\ \A i \in DOMAIN log : Append(log, e)[i] = log[i]
    BY <1>1, SequenceAppend
  <2> QED BY <1>1, <2>1, <2>2 DEF Continues
<1>4. CASE BeginBatch \/ RunEventLoop \/ SkipCompleted \/ EndEventLoop \/ EndBatch
  <2>1. log' = log
    BY <1>4, Zenon DEF BeginBatch, RunEventLoop, SkipCompleted, EndEventLoop, EndBatch, Raise, codeVars
  <2> QED BY <1>2, <2>1
<1>5. CASE ProcessEvent
  BY <1>1, <1>2, <1>5, EventKeeps DEF CodeKeeps
<1>6. CASE RunCode
  BY <1>1, <1>2, <1>3, <1>6, RunCodeSteps, Zenon DEF CodeKeeps, CodeDoes
<1>7. CASE RespondDecisions \/ query \/ respond_query \/ RespondQueryFailed
  <2>1. phase' \in {"idle", "query"}
    BY <1>7, Zenon DEF RespondDecisions, query, respond_query, RespondQueryFailed, DropDecider
  <2> QED BY <2>1 DEF Steps, AtWork
<1> QED BY <1>4, <1>5, <1>6, <1>7, Zenon DEF Steps, WorkerStep

\* One that continues a sequence continues what that continues.
LEMMA ContinuesOn ==
  ASSUME NEW f, NEW g, NEW h, IsSequence(f), IsSequence(g), IsSequence(h), Continues(f, g), Continues(g, h)
  PROVE  Continues(f, h)
BY SequenceIs, GoesOnTwice

\* What goes on is a prefix of what it goes on in.
LEMMA PrefixIs ==
  ASSUME NEW g, NEW h, IsSequence(g), IsSequence(h), Continues(g, h)
  PROVE  IsPrefix(g, h)
<1>1. Len(g) \in Nat /\ Len(h) \in Nat /\ Len(g) <= Len(h) /\ \A i \in 1..Len(g) : h[i] = g[i]
  BY SequenceIs DEF Continues
<1>2. DOMAIN g = 1..Len(g) /\ Len(g) \in 0..Len(h) /\ DOMAIN h = 1..Len(h)
  BY <1>1, SequenceIs
<1>3. SubSeq(h, 1, Len(g)) = g
  <2>1. SubSeq(h, 1, Len(g)) = SubSeq(g, 1, Len(g))
    BY <1>1, <1>2, PrefixStays
  <2>2. g = [i \in 1..Len(g) |-> g[i]]
    BY <1>2 DEF IsSequence
  <2>3. SubSeq(g, 1, Len(g)) = [i \in 1..Len(g) |-> g[i]]
    BY <1>1 DEF IsSequence
  <2> QED BY <2>1, <2>2, <2>3
<1>4. SubSeq(g, 1, Len(g)) = g
  <2>1. g = [i \in 1..Len(g) |-> g[i]]
    BY <1>2 DEF IsSequence
  <2>2. SubSeq(g, 1, Len(g)) = [i \in 1..Len(g) |-> g[i]]
    BY <1>1 DEF IsSequence
  <2> QED BY <2>1, <2>2
<1> QED BY <1>1, <1>3, <1>4, Zenon DEF IsPrefix

\* The answer that is accepted says what is decided.
LEMMA AnswerTells ==
  ASSUME NEW ds, NEW entries, NEW next, NEW markers, NEW B, NEW n \in Nat, NEW h, IsSequence(h),
         Tells(ds, entries), AllNew(entries, next, markers, B), IsSequence(ds),
         Answer(ds, n, h), Last(h).type \notin ClosingEventTypes
  PROVE  MarkersTell(DOMAIN markers \ B, B, h, n)
<1>1. /\ Len(h) \in Nat /\ Len(ds) \in Nat /\ DOMAIN ds = 1..Len(ds)
  BY SequenceIs
<1>2. /\ \A k \in DOMAIN ds :
           /\ n + 1 + k <= Len(h)
           /\ is_decision_event(h[n + 1 + k])
           /\ ds[k].type = "RecordMarker" =>
                /\ h[n + 1 + k].type = "MarkerRecorded"
                /\ h[n + 1 + k].ref = ds[k].ref /\ h[n + 1 + k].name = ds[k].name
      /\ \A i \in (n + 2)..Len(h) :
           h[i].type = "MarkerRecorded" =>
             \E k \in DOMAIN ds : ds[k].type = "RecordMarker" /\ h[i].ref = ds[k].ref /\ h[i].name = ds[k].name
  BY Zenon DEF Answer
<1>3. ASSUME NEW c \in DOMAIN markers \ B
      PROVE  \E i \in (n + 2)..Len(h) : /\ h[i].type = "MarkerRecorded" /\ h[i].name = c
                                        /\ \A j \in (n + 2)..i : is_decision_event(h[j])
  <2>1. PICK v, id : HasNew(entries, c, v, id)
    BY DEF AllNew
  <2>2. PICK k \in DOMAIN ds : ds[k].type = "RecordMarker" /\ ds[k].name = c /\ ds[k].ref = v
    <3>1. \A c1, v1, id1 : HasNew(entries, c1, v1, id1) =>
            \E k \in DOMAIN ds : ds[k].type = "RecordMarker" /\ ds[k].name = c1 /\ ds[k].ref = v1
      BY Zenon DEF Tells
    <3> QED BY <2>1, <3>1
  <2>3. /\ n + 1 + k \in (n + 2)..Len(h)
        /\ h[n + 1 + k].type = "MarkerRecorded" /\ h[n + 1 + k].name = c
    BY <1>1, <1>2, <2>2
  <2>4. ASSUME NEW j \in (n + 2)..(n + 1 + k) PROVE is_decision_event(h[j])
    <3>1. PICK m : m = j - n - 1
      OBVIOUS
    <3>2. m \in DOMAIN ds /\ j = n + 1 + m
      BY <1>1, <3>1
    <3> QED BY <1>2, <3>2
  <2> QED BY <2>3, <2>4
<1>4. ASSUME NEW i \in (n + 2)..Len(h), h[i].type = "MarkerRecorded"
      PROVE  h[i].ref = MAX_SUPPORTED /\ h[i].name \notin B
  <2>1. PICK k \in DOMAIN ds : ds[k].type = "RecordMarker" /\ h[i].ref = ds[k].ref /\ h[i].name = ds[k].name
    BY <1>2, <1>4
  <2>2. PICK id : HasNew(entries, ds[k].name, ds[k].ref, id)
    BY <2>1, Zenon DEF Tells
  <2>3. ds[k].ref = MAX_SUPPORTED /\ ds[k].name \notin B
    BY <2>2 DEF AllNew
  <2> QED BY <2>1, <2>3
<1> QED BY <1>3, <1>4, Zenon DEF MarkersTell

\* The last answer that was accepted has decided what is committed.
Committed ==
  \/ committed = <<>> /\ Covers(history, NewCode)
  \/ \E R, e, B, g, p : Decided(R, e, B, g, history, p, workflow, committed)

\* The decider at work has done what is committed, or will do it.
Resuming ==
  \/ Continues(committed, log) /\ Covers(Polled, CodeNow)
  \/ \E R, e, B, g, p : /\ Decided(R, e, B, g, Polled, p, workflow, committed)
                        /\ Match(R, e, B, p, Now, committed)

ResumeInv ==
  /\ IsSequence(committed)
  /\ AtWork /\ ~querying => polled \in 1..Len(history) /\ history[polled].type = "DecisionTaskStarted"
  /\ AtWork => \E R : Path(R)
  /\ ~Closed => Committed
  /\ AtWork /\ ~Closed => Resuming


\* The log is that of the code.
LEMMA LogNow == Now.code.log = log
BY NowHas, CodeNowHas

\* What is decided in the history that a new decider gets.
LEMMA StartResumes ==
  ASSUME IsSequence(committed), Committed, Now = Start, Polled = history, IsSequence(history)
  PROVE  Resuming
<1>1. Len(committed) \in Nat
  BY SequenceIs
<1>2. CASE committed = <<>> /\ Covers(history, NewCode)
  <2>1. Len(<<>>) = 0
    BY EmptySequence
  <2>2. Now.code = NewCode /\ Now.code = CodeNow
    <3>1. Now.code = CodeNow
      BY NowHas
    <3>2. Start.code = NewCode
      BY StateHas DEF Start
    <3> QED BY <3>1, <3>2
  <2>3. log = <<>>
    <3>1. CodeNow.log = log
      BY CodeNowHas
    <3>2. NewCode.log = <<>>
      BY DEF NewCode, Code
    <3> QED BY <2>2, <3>1, <3>2
  <2>4. Continues(<<>>, <<>>)
    BY <2>1 DEF Continues
  <2>5. Covers(Polled, CodeNow)
    BY <1>2, <2>2
  <2> QED BY <1>2, <2>3, <2>4, <2>5, Zenon DEF Resuming
<1>3. CASE \E R, e, B, g, p : Decided(R, e, B, g, history, p, workflow, committed)
  <2>1. PICK R, e, B, g, p : Decided(R, e, B, g, history, p, workflow, committed)
    BY <1>3
  <2>2. Match(R, e, B, p, Start, committed)
    BY <1>1, <2>1, MatchStarts
  <2>3. Decided(R, e, B, g, Polled, p, workflow, committed) /\ Match(R, e, B, p, Now, committed)
    BY <2>1, <2>2
  <2> QED BY <2>3, Zenon DEF Resuming
<1> QED BY <1>2, <1>3 DEF Committed

\* What is decided stays decided.
LEMMA CommittedStays ==
  ASSUME Committed, IsSequence(history), GoesOn(history, history'), IsSequence(history'),
         UNCHANGED <<workflow, committed>>
  PROVE  Committed'
<1>1. CASE committed = <<>> /\ Covers(history, NewCode)
  <2>1. Covers(history', NewCode)
    BY <1>1, CoversStays
  <2> QED BY <1>1, <2>1, Zenon DEF Committed
<1>2. CASE \E R, e, B, g, p : Decided(R, e, B, g, history, p, workflow, committed)
  <2>1. PICK R, e, B, g, p : Decided(R, e, B, g, history, p, workflow, committed)
    BY <1>2
  <2>2. Decided(R, e, B, g, history', p, workflow, committed)
    BY <2>1, DecidedStays
  <2>3. Decided(R, e, B, g, history', p, workflow', committed')
    BY <2>2
  <2> QED BY <2>3, Zenon DEF Committed
<1> QED BY <1>1, <1>2, Zenon DEF Committed

\* A step of the decider.
LEMMA StepResumes ==
  ASSUME Working, OrderInv, Steps, IsSequence(committed), IsSequence(log'), Resuming
  PROVE  Resuming'
<1>0. committed' = committed /\ workflow' = workflow /\ Polled' = Polled
  BY Zenon DEF Steps, Polled, serviceVars
<1>1. IsSequence(log) /\ Continues(log, log')
  BY LogGrows
<1>2. Continues(committed, log) => Continues(committed, log')
  BY <1>1, ContinuesOn
<1>3. CASE Continues(committed, log) /\ Covers(Polled, CodeNow)
  <2>1. Continues(committed', log')
    BY <1>0, <1>2, <1>3
  <2>2. Covers(Polled, CodeNow')
    BY <1>3, StepFurther, FurtherOn, Zenon
  <2>3. Covers(Polled', CodeNow')
    BY <1>0, <2>2
  <2> QED BY <2>1, <2>3, Zenon DEF Resuming
<1>4. CASE \E R, e, B, g, p : /\ Decided(R, e, B, g, Polled, p, workflow, committed)
                              /\ Match(R, e, B, p, Now, committed)
  <2>1. PICK R, e, B, g, p : /\ Decided(R, e, B, g, Polled, p, workflow, committed)
                             /\ Match(R, e, B, p, Now, committed)
    BY <1>4
  <2>2. PICK t, u : t = Now /\ u = Now'
    OBVIOUS
  <2>3. Placed(t, Polled) /\ u = Succ(t, Polled, workflow)
    BY <2>2, Zenon DEF Working, Steps
  <2>4. t.code.log = log /\ u.code.log = log'
    <3>1. (Now.code.log = log)'
      BY LogNow, PTL
    <3> QED BY <2>2, <3>1, LogNow
  <2>5. Continues(committed, t.code.log) => Continues(committed, u.code.log)
    BY <1>2, <2>4
  <2>6. Len(committed) \in Nat
    BY SequenceIs
  <2>7. Match(R, e, B, p, t, committed)
    BY <2>1, <2>2
  <2>10. Further(t.code, u.code)
    <3>1. (Now.code = CodeNow)'
      BY NowHas, PTL
    <3> QED BY <2>2, <3>1, StepFurther, NowHas
  <2>8. Match(R, e, B, p, u, committed)
    BY ONLY <2>1, <2>3, <2>5, <2>6, <2>7, <2>10, MatchGoes
  <2>9. Decided(R, e, B, g, Polled', p, workflow', committed') /\ Match(R, e, B, p, Now', committed')
    BY <1>0, <2>1, <2>2, <2>8
  <2> QED BY <2>9, Zenon DEF Resuming
<1> QED BY <1>3, <1>4 DEF Resuming

\* A decider that has replayed its history is where the last accepted answer was, or
\* further.
LEMMA ReplayedContinues ==
  ASSUME Inv, OrderInv, ResumeInv, ~Closed, phase = "next", at > polled
  PROVE  IsPrefix(committed, log) /\ Covers(Polled, CodeNow)
<1>1. /\ AtWork /\ Resuming /\ IsSequence(committed) /\ IsSequence(log)
      /\ Len(committed) \in Nat
  <2>1. AtWork
    BY DEF AtWork
  <2>2. IsSequence(committed) /\ Resuming
    BY <2>1, Zenon DEF ResumeInv
  <2> QED BY <2>1, <2>2, SequenceIs DEF OrderInv
<1>2. Len(Polled) = polled /\ at \in Nat
  BY PolledIs DEF Inv, ThreadInv
<1>3. PICK t : t = Now
  OBVIOUS
<1>4. t.phase = "next" /\ t.at > Len(Polled) /\ t.at \in Nat /\ t.code.log = log /\ t.code = CodeNow
  BY <1>2, <1>3, NowHas, LogNow
<1>5. ASSUME NEW R, NEW e, NEW B, NEW g, NEW p, Decided(R, e, B, g, Polled, p, workflow, committed),
             Match(R, e, B, p, t, committed)
      PROVE  Continues(committed, t.code.log) /\ Covers(Polled, t.code)
  BY ONLY <1>1, <1>4, <1>5, MatchEnds
<1>6. Continues(committed, log) /\ Covers(Polled, CodeNow)
  BY <1>1, <1>3, <1>4, <1>5, Zenon DEF Resuming
<1> QED BY <1>1, <1>6, PrefixIs

\* The worker answers.
LEMMA RespondResumes ==
  ASSUME Inv, Inv', OrderInv, ReplayInv, ResumeInv, FreshInv, RespondDecisions
  PROVE  /\ ~Closed /\ ~Closed' => Committed'
         /\ committed' = committed \/ committed' = log
<1>1. /\ phase = "next" /\ ~querying /\ at > polled
      /\ RespondDecisionTaskCompleted(polled, get_decisions)
      /\ committed' = IF polled = StartedTask /\ history'[polled + 1].type = "DecisionTaskCompleted"
                      THEN log ELSE committed
      /\ workflow' = workflow
  BY Zenon DEF RespondDecisions
<1>2. committed' = committed \/ committed' = log
  BY <1>1, Zenon
<1>3. /\ AtWork /\ polled \in 1..Len(history) /\ history[polled].type = "DecisionTaskStarted"
      /\ \E R : Path(R)
  BY <1>1 DEF ResumeInv, AtWork
<1>4. PICK R : Path(R)
  BY <1>3
<1>5. Trace(R, Now, Polled, workflow) /\ SelfNamed(decisions)
  BY <1>1, <1>4, PathEnds
<1>6. PICK B : Known(R, B) /\ AllNew(decisions, next_decision_event_id, mutable_marker_results, B)
  BY <1>1, <1>4, PathEnds
<1>7. /\ IsDecisions(decisions) /\ ServiceOK /\ NoAnswers(buffered)
      /\ IsSequence(history) /\ IsSequence(history')
  BY DEF Inv, ThreadInv, ServiceOK, ReplayInv
<1>8. IsSequence(get_decisions) /\ Tells(get_decisions, decisions)
  BY <1>5, <1>7, DecisionsAre, DecisionsTell
<1>9. /\ Len(history) \in Nat /\ Len(history') \in Nat /\ polled \in Nat /\ polled > 0
      /\ polled \in 0..Len(history)
  BY <1>3, <1>7, SequenceIs
<1>10. \A k \in DOMAIN get_decisions : get_decisions[k].type \in DecisionTypes
  BY <1>8, Zenon DEF Tells
<1>11. PICK ds : ds = get_decisions
  OBVIOUS
<1>12. /\ Continues(history, history')
       /\ \/ GoesOn(history, history')
             /\ ~(polled = StartedTask /\ history'[polled + 1].type = "DecisionTaskCompleted")
          \/ polled = StartedTask /\ polled = Len(history) /\ Answer(ds, polled, history')
  BY <1>1, <1>7, <1>8, <1>9, <1>10, <1>11, RespondAdds
<1>13. CASE GoesOn(history, history') /\ ~(polled = StartedTask /\ history'[polled + 1].type = "DecisionTaskCompleted")
  <2>1. committed' = committed
    BY <1>1, <1>13, Zenon
  <2>2. ~Closed => Committed
    BY DEF ResumeInv
  <2> QED BY <1>1, <1>2, <1>7, <1>13, <2>1, <2>2, CommittedStays
<1>14. CASE polled = StartedTask /\ polled = Len(history) /\ Answer(ds, polled, history')
  <2>1. /\ polled + 1 <= Len(history') /\ history'[polled + 1].type = "DecisionTaskCompleted"
    BY <1>14, Zenon DEF Answer
  <2>2. committed' = log
    BY <1>1, <1>14, <2>1, Zenon
  <2>3. ASSUME ~Closed, ~Closed' PROVE Committed'
    <3>1. Last(history').type \notin ClosingEventTypes
      BY <2>3 DEF Closed
    <3>2. MarkersTell(DOMAIN mutable_marker_results \ B, B, history', polled)
      BY <1>6, <1>7, <1>8, <1>9, <1>11, <1>14, <3>1, AnswerTells
    <3>3. Polled = SubSeq(history', 1, polled)
      <4>1. SubSeq(history', 1, polled) = SubSeq(history, 1, polled)
        BY <1>7, <1>9, <1>12, PrefixStays
      <4> QED BY <4>1 DEF Polled
    <3>4. AnsweredAt(history', polled)
      <4>1. history'[polled] = history[polled]
        BY <1>3, <1>9, <1>12 DEF Continues
      <4>2. polled \in 1..(Len(history') - 1)
        BY <1>9, <2>1
      <4> QED BY <1>3, <2>1, <4>1, <4>2 DEF AnsweredAt
    <3>5. UpTo(Polled, history', polled)
      BY <1>7, <3>3, <3>4 DEF UpTo
    <3>6. Now.phase = "next" /\ Now.at > polled /\ Now.code.log = log /\ Now.markers = mutable_marker_results
      BY <1>1, NowHas, CodeNowHas
    <3>7. PICK e, g, p : e = Now /\ g = Polled /\ p = polled
      OBVIOUS
    <3>8. Trace(R, e, g, workflow) /\ UpTo(g, history', p) /\ e.phase = "next" /\ e.at > p /\ e.code.log = log
      BY <1>5, <3>5, <3>6, <3>7, Zenon
    <3>9. MarkersTell(DOMAIN e.markers \ B, B, history', p)
      BY <3>2, <3>6, <3>7, Zenon
    <3>12. Covers(history', CodeNow)
      <4>1. Covers(Polled, CodeNow)
        BY <1>1, <2>3, ReplayedContinues
      <4> QED BY <1>1, <1>5, <1>11, <1>12, <1>14, <2>3, <4>1, AnswerOnce
    <3>13. Covers(history', e.code)
      BY <3>7, <3>12, NowHas
    <3>10. Decided(R, e, B, g, history', p, workflow, log)
      BY <1>6, <3>8, <3>9, <3>13, Zenon DEF Decided
    <3>11. Decided(R, e, B, g, history', p, workflow', committed')
      BY <1>1, <2>2, <3>10
    <3> QED BY <3>11, Zenon DEF Committed
  <2> QED BY <1>2, <2>3
<1> QED BY <1>12, <1>13, <1>14

\* What has come to be committed by the answers of the workers.
LEMMA NextResumes ==
  ASSUME Inv, QuietInv, OrderInv, ReplayInv, ResumeInv, FreshInv, [Next]_vars
  PROVE  ResumeInv'
<1>0. /\ Inv' /\ IsSequence(log')
      /\ Closed => Closed'
  <2>1. OrderInv' /\ Inv'
    BY NextOrder, NextInv
  <2>2. Closed => history' = history
    BY NextQuiet
  <2> QED BY <2>1, <2>2 DEF OrderInv, Closed
<1>1. /\ IsSequence(history) /\ IsSequence(history') /\ polled \in 0..Len(history)
      /\ Len(history) \in Nat /\ Len(history') \in Nat
  BY <1>0, SequenceIs DEF Inv, ThreadInv
<1>2. CASE Rests
  <2>1. Now' = Now /\ (AtWork' <=> AtWork) /\ querying' = querying /\ phase' = phase
        /\ committed' = committed /\ decisions' = decisions /\ log' = log
        /\ next_decision_event_id' = next_decision_event_id
        /\ mutable_marker_results' = mutable_marker_results
    BY <1>2, NowRests, Zenon DEF Rests, replayVars, deciderVars, codeVars
  <2>2. Polled' = Polled /\ polled' = polled /\ workflow' = workflow
    BY <1>0, <1>2, PolledStays
  <2>3. GoesOn(history, history')
    BY <1>2 DEF Rests, Adding
  <2>4. AtWork' /\ ~querying' => polled' \in 1..Len(history') /\ history'[polled'].type = "DecisionTaskStarted"
    <3>1. Len(history) <= Len(history') /\ \A i \in 1..Len(history) : history'[i] = history[i]
      BY <2>3 DEF GoesOn, Continues
    <3> QED BY <1>1, <2>1, <2>2, <3>1 DEF ResumeInv
  <2>5. AtWork' => \E R : Path(R)'
    <3>1. SUFFICES ASSUME AtWork PROVE \E R : Path(R)'
      BY <2>1
    <3>2. PICK R : Path(R)
      BY <3>1 DEF ResumeInv
    <3>3. Path(R)'
      BY <2>1, <2>2, <3>2, Zenon DEF Path
    <3> QED BY <3>3
  <2>6. ~Closed' => Committed'
    BY <1>0, <1>1, <2>1, <2>2, <2>3, CommittedStays DEF ResumeInv
  <2>7. AtWork' /\ ~Closed' => Resuming'
    <3>1. SUFFICES ASSUME Resuming PROVE Resuming'
      BY <1>0, <2>1 DEF ResumeInv
    <3>2. CodeNow' = CodeNow
      <4>1. (Now.code = CodeNow)'
        BY NowHas, PTL
      <4> QED BY <2>1, <4>1, NowHas
    <3> QED BY <2>1, <2>2, <3>1, <3>2, Zenon DEF Resuming
  <2> QED BY <2>1, <2>4, <2>5, <2>6, <2>7 DEF ResumeInv
<1>3. CASE Starts
  <2>1. /\ Now' = Start /\ polled' = Len(history') /\ workflow' = workflow /\ committed' = committed
        /\ ~querying' => history'[polled'].type = "DecisionTaskStarted"
        /\ GoesOn(history, history')
    BY <1>3, Zenon DEF Starts, Adding
  <2>2. polled' \in 1..Len(history')
    BY <1>0, <1>1, <2>1 DEF Inv, ThreadInv
  <2>3. \E R : Path(R)'
    <3>1. (Now = Start => Path({Start}))'
      BY StartPath, PTL
    <3>2. Path({Start})'
      BY <2>1, <3>1
    <3> QED BY <3>2
  <2>4. ~Closed' => Committed'
    BY <1>0, <1>1, <2>1, CommittedStays DEF ResumeInv
  <2>5. Polled' = history'
    <3>1. SubSeq(history', 1, Len(history')) = history'
      BY <1>1, WholeSequence
    <3> QED BY <2>1, <3>1 DEF Polled
  <2>6. ~Closed' => Resuming'
    <3>1. (IsSequence(committed) /\ Committed /\ Now = Start /\ Polled = history /\ IsSequence(history) => Resuming)'
      BY StartResumes, PTL
    <3> QED BY <1>1, <2>1, <2>4, <2>5, <3>1 DEF ResumeInv
  <2> QED BY <2>1, <2>2, <2>3, <2>4, <2>6 DEF ResumeInv
<1>4. CASE Steps
  <2>1. /\ AtWork /\ AtWork' /\ history' = history /\ querying' = querying /\ polled' = polled
        /\ committed' = committed /\ workflow' = workflow
    BY <1>4, Zenon DEF Steps, serviceVars
  <2>2. Working
    BY <2>1 DEF Working, ReplayInv
  <2>3. \E R : Path(R)'
    BY <1>4, <2>1, <2>2, StepPath DEF ResumeInv
  <2>4. Closed' <=> Closed
    BY <2>1 DEF Closed
  <2>5. GoesOn(history, history)
    BY <1>1, GoesOnStays
  <2>6. ~Closed' => Committed'
    BY <1>1, <2>1, <2>4, <2>5, CommittedStays DEF ResumeInv
  <2>7. ~Closed' => Resuming'
    BY <1>0, <1>4, <2>1, <2>2, <2>4, StepResumes DEF ResumeInv
  <2> QED BY <2>1, <2>3, <2>6, <2>7 DEF ResumeInv
<1>5. CASE Stops
  <2>1. ~AtWork' /\ history' = history /\ committed' = committed /\ workflow' = workflow
    BY <1>5, Zenon DEF Stops, serviceVars
  <2>2. GoesOn(history, history)
    BY <1>1, GoesOnStays
  <2>3. ~Closed' => Committed'
    BY <1>0, <1>1, <2>1, <2>2, CommittedStays DEF ResumeInv
  <2> QED BY <2>1, <2>3 DEF ResumeInv
<1>6. CASE RespondDecisions
  <2>1. ~AtWork'
    BY <1>6, EndsAre
  <2>2. (~Closed /\ ~Closed' => Committed') /\ (committed' = committed \/ committed' = log)
    BY <1>0, <1>6, RespondResumes
  <2>3. IsSequence(committed')
    BY <2>2 DEF ResumeInv, OrderInv
  <2> QED BY <1>0, <2>1, <2>2, <2>3 DEF ResumeInv
<1> QED BY <1>2, <1>3, <1>4, <1>5, <1>6, NextIs

\* No activity is scheduled at first.
LEMMA NoneScheduled ==
  ASSUME Init
  PROVE  \A i \in DOMAIN history : history[i].type # "ActivityTaskScheduled"
<1>1. PICK e, f : e = Event("WorkflowExecutionStarted", 0, "") /\ f = Scheduled
  OBVIOUS
<1>2. e.type # "ActivityTaskScheduled" /\ f.type # "ActivityTaskScheduled"
  BY <1>1 DEF Event, Scheduled
<1>3. history = <<e, f>>
  BY <1>1, Zenon DEF Init, ServiceInit
<1> QED BY <1>2, <1>3

\* Nothing is committed at first.
LEMMA InitResumes == Init => ResumeInv
<1> SUFFICES ASSUME Init PROVE ResumeInv
  OBVIOUS
<1>1. phase = "idle" /\ committed = <<>>
  BY Zenon DEF Init
<1>2. ~AtWork
  BY <1>1 DEF AtWork
<1>4. Covers(history, NewCode)
  BY NoneScheduled, Zenon DEF Covers
<1>3. IsSequence(committed) /\ Committed
  BY <1>1, <1>4, EmptySequence, Zenon DEF Committed
<1> QED BY <1>1, <1>2, <1>3 DEF ResumeInv

\* What is committed grows as long as the execution is open.
LEMMA CommittedGrows ==
  ASSUME Inv, QuietInv, OrderInv, ReplayInv, ResumeInv, FreshInv, [Next]_vars, ~Closed
  PROVE  IsPrefix(committed, committed')
<1>1. IsSequence(committed)
  BY DEF ResumeInv
<1>2. CASE committed' = committed
  <2>1. Continues(committed, committed)
    BY <1>1, SequenceIs DEF Continues
  <2> QED BY <1>1, <1>2, <2>1, PrefixIs
<1>3. CASE RespondDecisions
  <2>1. committed' = committed \/ committed' = log
    BY <1>3, NextInv, RespondResumes
  <2>2. phase = "next" /\ at > polled
    BY <1>3, Zenon DEF RespondDecisions
  <2>3. IsPrefix(committed, log)
    BY <2>2, ReplayedContinues
  <2> QED BY <1>2, <2>1, <2>3
<1>4. CASE Rests \/ Starts \/ Steps \/ Stops
  BY <1>2, <1>4, Zenon DEF Rests, Starts, Steps, Stops
<1> QED BY <1>3, <1>4, NextIs

\* The activities in the history are of operations that the code has begun, when it
\* decides anew.
LEMMA DecidesAnew ==
  ASSUME ResumeInv, AtWork, ~Closed, Answering(Now), phase = "loop"
  PROVE  Covers(Polled, CodeNow)
<1>1. Resuming /\ ~batch.replay
  BY NowAnswers, Zenon DEF ResumeInv
<1>2. PICK t : t = Now
  OBVIOUS
<1>3. t.phase = "loop" /\ ~t.batch.replay /\ t.code = CodeNow
  BY <1>1, <1>2, NowHas
<1>4. ASSUME NEW R, NEW e, NEW B, NEW g, NEW p, Decided(R, e, B, g, Polled, p, workflow, committed),
             Match(R, e, B, p, t, committed)
      PROVE  Covers(Polled, t.code)
  <2>1. ~(t \in R /\ t # e /\ (t.phase = "next" \/ t.batch.replay))
    BY <1>3
  <2>2. \A s : ~Follows(s, t, DOMAIN e.markers \ B)
    BY <1>3, Zenon DEF Follows
  <2>3. Further(e.code, t.code)
    BY <1>4, <2>1, <2>2, Zenon DEF Match
  <2>4. Covers(Polled, e.code)
    BY <1>4, Zenon DEF Decided
  <2> QED BY <2>3, <2>4, FurtherOn, Zenon
<1> QED BY <1>1, <1>2, <1>3, <1>4, Zenon DEF Resuming

\* A new decider has nothing to schedule.
LEMMA StartFresh ==
  ASSUME Now = Start
  PROVE  ~Answering(Now) /\ NothingFresh(decisions)
<1>1. ~Answering(Start)
  BY TraceStarts
<1>2. DeciderNow = NoDecisions
  <2>1. Now.decider = DeciderNow
    BY NowHas
  <2>2. Start.decider = NoDecisions
    BY StateHas DEF Start
  <2> QED BY <2>1, <2>2
<1>3. decisions = <<>>
  <2>1. NoDecisions.decisions = <<>>
    BY DEF NoDecisions, Decider
  <2> QED BY <1>2, <2>1, DeciderNowHas
<1> QED BY <1>1, <1>3, EmptySequence DEF NothingFresh

\* What is to be scheduled, in any step.
LEMMA NextFresh ==
  ASSUME Inv, QuietInv, ReplayInv, ResumeInv, FreshInv, [Next]_vars
  PROVE  FreshInv'
<1>1. Inv' /\ (Closed => Closed')
  <2>1. Closed => history' = history
    BY NextQuiet
  <2> QED BY <2>1, NextInv DEF Closed
<1>2. CASE Rests
  <2>1. Now' = Now /\ (AtWork' <=> AtWork) /\ phase' = phase /\ decisions' = decisions
    BY <1>2, NowRests, Zenon DEF Rests, replayVars, deciderVars
  <2>2. Polled' = Polled
    BY <1>1, <1>2, PolledStays
  <2>3. CodeNow' = CodeNow
    <3>1. (Now.code = CodeNow)'
      BY NowHas, PTL
    <3> QED BY <2>1, <3>1, NowHas
  <2> QED BY <1>1, <2>1, <2>2, <2>3, Zenon DEF FreshInv
<1>3. CASE Starts
  <2>1. Now' = Start
    BY <1>3, Zenon DEF Starts
  <2>2. (Now = Start => ~Answering(Now) /\ NothingFresh(decisions))'
    BY StartFresh, PTL
  <2>3. ~Answering(Now)' /\ NothingFresh(decisions')
    BY <2>1, <2>2
  <2> QED BY <2>3, Zenon DEF FreshInv
<1>4. CASE Steps
  <2>1. Working
    BY <1>4, Zenon DEF Steps, Working, ReplayInv
  <2>2. AtWork
    BY <1>4, Zenon DEF Steps
  <2> QED BY <1>4, <2>1, <2>2, DecidesAnew, StepFresh
<1>5. CASE Stops \/ RespondDecisions
  <2>1. ~AtWork'
    BY <1>5, EndsAre
  <2> QED BY <2>1, Zenon DEF FreshInv
<1> QED BY <1>2, <1>3, <1>4, <1>5, NextIs

\* There is no decider at first.
LEMMA InitFresh == Init => FreshInv
<1> SUFFICES ASSUME Init PROVE FreshInv
  OBVIOUS
<1>1. phase = "idle"
  BY Zenon DEF Init
<1> QED BY <1>1 DEF AtWork, FreshInv

\* The history schedules one activity for each place, after any step.
LEMMA NextOnce ==
  ASSUME Inv, QuietInv, ReplayInv, ResumeInv, FreshInv, Once(history), [Next]_vars
  PROVE  Once(history')
<1>1. /\ IsSequence(history) /\ IsSequence(history') /\ Inv'
      /\ Closed => history' = history
  BY NextInv, NextQuiet DEF Inv, ThreadInv
<1>2. CASE Rests \/ Starts
  <2>1. GoesOn(history, history')
    BY <1>2, Zenon DEF Rests, Starts, Adding
  <2> QED BY <1>1, <2>1, GoesOnOnce
<1>3. CASE Steps \/ Stops
  <2>1. history' = history
    BY <1>3, Zenon DEF Steps, Stops, serviceVars
  <2> QED BY <2>1
<1>4. CASE RespondDecisions /\ Closed
  BY <1>1, <1>4
<1>5. CASE RespondDecisions /\ ~Closed
  <2>1. /\ phase = "next" /\ ~querying
        /\ RespondDecisionTaskCompleted(polled, get_decisions)
    BY <1>5, Zenon DEF RespondDecisions
  <2>2. /\ AtWork /\ polled \in 1..Len(history) /\ \E R : Path(R)
    BY <2>1 DEF ResumeInv, AtWork
  <2>3. SelfNamed(decisions) /\ polled \in Nat /\ polled > 0
    <3>1. SelfNamed(decisions)
      BY <2>2, Zenon DEF Path
    <3>2. Len(history) \in Nat
      BY <1>1, SequenceIs
    <3> QED BY <2>2, <3>1, <3>2
  <2>4. IsSequence(get_decisions) /\ \A k \in DOMAIN get_decisions : get_decisions[k].type \in DecisionTypes
    <3>1. IsDecisions(decisions)
      BY DEF Inv
    <3>2. IsSequence(get_decisions) /\ Tells(get_decisions, decisions)
      BY <2>3, <3>1, DecisionsAre, DecisionsTell
    <3> QED BY <3>2, Zenon DEF Tells
  <2>5. PICK ds : ds = get_decisions
    OBVIOUS
  <2>6. ServiceOK /\ NoAnswers(buffered)
    BY DEF Inv, ThreadInv, ServiceOK, ReplayInv
  <2>7. /\ Continues(history, history')
        /\ \/ GoesOn(history, history')
           \/ polled = Len(history) /\ Answer(ds, polled, history')
    BY <2>1, <2>3, <2>4, <2>5, <2>6, RespondAdds
  <2>8. CASE GoesOn(history, history')
    BY <1>1, <2>8, GoesOnOnce
  <2>9. CASE polled = Len(history) /\ Answer(ds, polled, history')
    BY <1>1, <1>5, <2>1, <2>3, <2>5, <2>7, <2>9, AnswerOnce
  <2> QED BY <2>7, <2>8, <2>9
<1> QED BY <1>2, <1>3, <1>4, <1>5, NextIs

\* A worker that has replayed the history of an open execution, after any crash and
\* whatever versions, signals, timers and failures there are, for a decision task or a
\* query, is where the last worker was when its decisions were accepted, or further.
THEOREM ReplayResumes == Spec => [](~Closed => Resumes)
<1>1. Inv /\ OrderInv /\ ResumeInv => (~Closed => Resumes)
  BY ReplayedContinues, Zenon DEF Resumes
<1>2. Init => QuietInv
  BY InitQuiet DEF QuietInv
<1>3. Inv /\ QuietInv /\ [Next]_vars => QuietInv'
  BY NextQuiet
<1>4. Inv /\ OrderInv /\ [Next]_vars => OrderInv'
  BY NextOrder
<1>5. Inv /\ ReplayInv /\ [Next]_vars => ReplayInv'
  BY NextReplay
<1>6. Inv /\ QuietInv /\ OrderInv /\ ReplayInv /\ ResumeInv /\ FreshInv /\ [Next]_vars
        => ResumeInv' /\ FreshInv'
  BY NextResumes, NextFresh
<1> QED BY <1>1, <1>2, <1>3, <1>4, <1>5, <1>6, InitOrder, InitReplay, InitResumes, InitFresh, Invariant,
           PTL DEF Spec

\* What the accepted decision tasks have done is one durable execution of the code:
\* whichever workers come and go, what was done is neither undone nor done again, in
\* program order, until the execution is closed for good.
THEOREM IsDurable == Spec => DurableSpec
<1>1. Init => QuietInv
  BY InitQuiet DEF QuietInv
<1>2. Inv /\ QuietInv /\ [Next]_vars => QuietInv' /\ (Closed => UNCHANGED <<history, committed>>)
  BY NextQuiet
<1>3. Inv /\ OrderInv /\ [Next]_vars => OrderInv'
  BY NextOrder
<1>4. Inv /\ ReplayInv /\ [Next]_vars => ReplayInv'
  BY NextReplay
<1>5. Inv /\ QuietInv /\ OrderInv /\ ReplayInv /\ ResumeInv /\ FreshInv /\ [Next]_vars
        => ResumeInv' /\ FreshInv'
  BY NextResumes, NextFresh
<1>6. ASSUME Inv, QuietInv, OrderInv, ReplayInv, ResumeInv, FreshInv, [Next]_vars,
             [IsPrefix(committed, committed') => Durable!Advance]_<<committed, Closed>>
      PROVE  [Durable!Advance]_<<committed, Closed>>
  <2>1. CASE Closed
    <3>1. UNCHANGED <<committed, Closed>>
      BY <1>2, <1>6, <2>1, Zenon DEF Closed
    <3> QED BY <3>1, Zenon
  <2>2. CASE ~Closed
    <3>1. IsPrefix(committed, committed')
      BY <1>6, <2>2, CommittedGrows
    <3> QED BY <1>6, <3>1, Zenon
  <2> QED BY <2>1, <2>2
<1>7. Spec => Durable!Init /\ [][Durable!Advance]_<<committed, Closed>>
  BY <1>1, <1>2, <1>3, <1>4, <1>5, <1>6, InitOrder, InitReplay, InitResumes, InitFresh, Invariant,
     AdvancesTheExecution, PTL DEF Spec
<1> QED BY <1>7, Zenon DEF DurableSpec, Durable!Spec

\* Each place in the code schedules one activity: however often the code is replayed, by
\* whichever workers, and whatever decision tasks time out, fail or are answered too late,
\* no call of an activity becomes two of them.
THEOREM SchedulesOnce == Spec => []ScheduledOnce
<1>1. Init => QuietInv
  BY InitQuiet DEF QuietInv
<1>2. Init => Once(history)
  BY NoneScheduled, Zenon DEF Once
<1>3. Inv /\ QuietInv /\ [Next]_vars => QuietInv'
  BY NextQuiet
<1>4. Inv /\ OrderInv /\ [Next]_vars => OrderInv'
  BY NextOrder
<1>5. Inv /\ ReplayInv /\ [Next]_vars => ReplayInv'
  BY NextReplay
<1>6. Inv /\ QuietInv /\ OrderInv /\ ReplayInv /\ ResumeInv /\ FreshInv /\ [Next]_vars
        => ResumeInv' /\ FreshInv'
  BY NextResumes, NextFresh
<1>7. Inv /\ QuietInv /\ ReplayInv /\ ResumeInv /\ FreshInv /\ Once(history) /\ [Next]_vars => Once(history)'
  BY NextOnce
<1>8. Once(history) => ScheduledOnce
  BY Zenon DEF Once, ScheduledOnce
<1> QED BY <1>1, <1>2, <1>3, <1>4, <1>5, <1>6, <1>7, <1>8, InitOrder, InitReplay, InitResumes, InitFresh,
           Invariant, PTL DEF Spec

-----------------------------------------------------------------------------
(* What an operation returns is what the history holds for its place *)

\* A machine that takes its end has been answered.
LEMMA EndsAnswered ==
  ASSUME history[at].type \in ActivityClosed \cup {"TimerFired"}, NEW m, m.target \in {"ACTIVITY", "TIMER"},
         Legal(m), Handled(m).state # "ILLEGAL"
  PROVE  Answered(m)
<1>1. Handled(m) = handle_completion_event(m)
  BY DEF Handled, ActivityClosed
<1>2. m.state \in DOMAIN CompletionTable
  BY <1>1 DEF handle_completion_event, Handle, fail_state_transition, Legal, Machine
<1>3. m.state \in {"INITIATED", "CANCELED_AFTER_INITIATED", "CANCELLATION_DECISION_SENT"}
  BY <1>2 DEF CompletionTable
<1> QED BY <1>3 DEF Answered

\* The end that is at hand is recorded for what the decision is called.
LEMMA EndRecorded ==
  ASSUME Working, RefersInv, DecisionsMatchHistory, NEW types, types \subseteq MachineEvents, AtEvent(types), Consume,
         UpdateMachine, types \subseteq ActivityClosed \cup {"TimerFired"},
         NEW outcome, outcome = "ok" <=> history[at].type \in {"ActivityTaskCompleted", "TimerFired"},
         NEW id, id = history[at].ref,
         NEW target, target = IF history[at].type = "TimerFired" THEN "TIMER" ELSE "ACTIVITY",
         NEW place, Named(decisions, target, id, place)
  PROVE  IsRecorded(history, place, outcome)
<1>1. /\ at \in 1..polled /\ history[at].type \in types /\ Inv /\ phase \in {"events", "decision_events"}
  BY EventAt DEF Working, AtEvent
<1>2. /\ IsSequence(history) /\ polled \in 0..Len(history) /\ IsDecisions(decisions)
  BY <1>1 DEF Inv, ThreadInv
<1>3. at \in DOMAIN history /\ DOMAIN history = 1..Len(history)
  <2>1. Len(history) \in Nat /\ DOMAIN history = 1..Len(history)
    BY <1>2, SequenceIs
  <2> QED BY <1>1, <1>2, <2>1
<1>4. PICK k, m, n : k = Addressed /\ m = decisions[k].machine /\ n = Handled(m)
  OBVIOUS
<1>5. /\ k \in DOMAIN decisions /\ Legal(n) /\ n.target = m.target
      /\ history[at].type \in ActivityClosed => m.target = "ACTIVITY" /\ decisions[k].id = history[at].ref
      /\ history[at].type = "TimerFired" => m.target = "TIMER" /\ decisions[k].id = history[at].ref
  <2>1. history[at].type \in MachineEvents /\ Exception = ""
    BY <1>1 DEF UpdateMachine
  <2> QED BY <1>2, <1>4, <2>1, EventHandled, Zenon
<1>6. history[at].type \in ActivityClosed \cup {"TimerFired"} /\ (history[at].type = "TimerFired" => history[at].type \notin ActivityClosed)
  BY <1>1 DEF ActivityClosed
<1>7. m.target = target /\ decisions[k].id = id /\ target \in {"ACTIVITY", "TIMER"}
  BY <1>5, <1>6
<1>8. Answered(m)
  <2>1. Legal(m) /\ Handled(m).state # "ILLEGAL"
    BY <1>2, <1>4, <1>5 DEF IsDecisions, IsEntry, Legal
  <2> QED BY <1>6, <1>7, <2>1, EndsAnswered
<1>9. /\ history[id].type \in {"ActivityTaskScheduled", "TimerStarted"}
      /\ history[id].name = decisions[k].name
  BY <1>1, <1>4, <1>5, <1>7, <1>8 DEF DecisionsMatchHistory
<1>10. decisions[k].name = place
  BY <1>4, <1>5, <1>7 DEF Named
<1>11. id \in DOMAIN history
  BY <1>3, <1>6 DEF RefersInv, AllRefer, Refers
<1>12. history[at].type \in IF outcome = "ok" THEN {"ActivityTaskCompleted", "TimerFired"}
                            ELSE {"ActivityTaskFailed", "ActivityTaskTimedOut"}
  BY <1>6 DEF ActivityClosed
<1> QED BY <1>3, <1>9, <1>10, <1>11, <1>12 DEF IsRecorded

\* A task gets a result that is recorded.
LEMMA ResolvedTold ==
  ASSUME TasksInv, ResultsTold, history' = history, NEW t, NEW x, task' = [task EXCEPT ![t].result = x],
         IsRecorded(history, PlaceOf(t), x)
  PROVE  Staying /\ ResultsTold'
<1>1. DOMAIN task' = DOMAIN task
  OBVIOUS
<1>2. ASSUME NEW u \in DOMAIN task
      PROVE  /\ task'[u].pc = task[u].pc
             /\ task'[u].result # "none" => IsRecorded(history, PlaceOf(u), task'[u].result)
  <2>1. IsTask(task[u])
    BY DEF TasksInv
  <2>2. CASE u = t
    <3>1. task'[u] = [task[u] EXCEPT !.result = x]
      BY <2>2
    <3>2. task'[u].pc = task[u].pc /\ task'[u].result = x
      BY <2>1, <3>1 DEF IsTask
    <3> QED BY <2>2, <3>2
  <2>3. CASE u # t
    <3>1. task'[u] = task[u]
      BY <2>3
    <3> QED BY <3>1 DEF ResultsTold
  <2> QED BY <2>2, <2>3
<1>3. Staying
  BY <1>1, <1>2 DEF Staying, WasAt
<1>4. ResultsTold'
  BY <1>1, <1>2, Zenon DEF ResultsTold, PlaceOf
<1> QED BY <1>3, <1>4

\* Results stay when tasks go on.
LEMMA GoingTold ==
  ASSUME TasksInv', ResultsTold, Going, history' = history
  PROVE  Staying /\ ResultsTold'
<1>1. Staying
  BY Zenon DEF Going, Staying
<1>2. ASSUME NEW t \in DOMAIN task', task'[t].result # "none"
      PROVE  IsRecorded(history', <<t, task'[t].pc>>, task'[t].result)
  <2>1. task'[t].entered
    <3>1. IsTask(task'[t])
      BY DEF TasksInv
    <3> QED BY <1>2, <3>1 DEF IsTask
  <2>2. t \in DOMAIN task /\ task'[t].pc = task[t].pc /\ task'[t].result = task[t].result
    BY <2>1 DEF Going, WasAt
  <2> QED BY <1>2, <2>2 DEF ResultsTold, PlaceOf
<1> QED BY <1>1, <1>2, Zenon DEF ResultsTold, PlaceOf

\* The future of an activity gets what is recorded.
LEMMA ActivityTold ==
  ASSUME Working, RefersInv, DecisionsMatchHistory, WaitersNamed, ResultsTold, handle_activity_closed
  PROVE  Staying /\ ResultsTold' /\ Fewer(scheduled_activities, scheduled_activities')
<1>1. /\ ActivityClosed \subseteq MachineEvents /\ AtEvent(ActivityClosed) /\ UpdateMachine /\ Consume
      /\ ActivityClosed \subseteq ActivityClosed \cup {"TimerFired"}
      /\ history' = history
  BY DEF MachineEvents, handle_activity_closed, Consume, serviceVars
<1>2. PICK id, t, x : id = history[at].ref /\ t = scheduled_activities[id] /\ x = ActivityOutcome(history[at].type)
  OBVIOUS
<1>3. history[at].type \in ActivityClosed /\ Inv /\ TasksInv /\ IsDecisions(decisions)
  BY <1>1 DEF AtEvent, Working, Inv
<1>4. IF is_done(decisions'[Addressed].machine)
      THEN scheduled_activities' = Pop(scheduled_activities, id) /\ Resolve(t, x)
      ELSE UNCHANGED <<scheduled_activities, task, ready>>
  BY <1>2, Zenon DEF handle_activity_closed, Waiter
<1>5. CASE ~is_done(decisions'[Addressed].machine)
  <2>1. scheduled_activities' = scheduled_activities /\ task' = task
    BY <1>4, <1>5
  <2>2. Staying
    BY <2>1 DEF Staying, WasAt
  <2>3. ResultsTold'
    BY <1>1, <2>1, Zenon DEF ResultsTold, PlaceOf
  <2> QED BY <2>1, <2>2, <2>3, SameDict
<1>6. CASE is_done(decisions'[Addressed].machine)
  <2>1. id \in DOMAIN scheduled_activities
    <3>1. history[at].type \in MachineEvents /\ Exception = ""
      BY <1>1, <1>3 DEF UpdateMachine
    <3> QED BY <1>2, <1>3, <3>1, EventHandled, Zenon
  <2>2. Named(decisions, "ACTIVITY", id, PlaceOf(t))
    BY <1>2, <2>1, Zenon DEF WaitersNamed
  <2>3. /\ x = "ok" <=> history[at].type \in {"ActivityTaskCompleted", "TimerFired"}
        /\ "ACTIVITY" = IF history[at].type = "TimerFired" THEN "TIMER" ELSE "ACTIVITY"
    BY <1>2, <1>3 DEF ActivityOutcome, ActivityClosed
  <2>4. IsRecorded(history, PlaceOf(t), x)
    BY <1>1, <1>2, <2>2, <2>3, EndRecorded, Zenon
  <2>5. task' = [task EXCEPT ![t].result = x] /\ scheduled_activities' = Pop(scheduled_activities, id)
    BY <1>4, <1>6, Zenon DEF Resolve
  <2>6. Fewer(scheduled_activities, scheduled_activities')
    BY <2>5, FewerWithout, Zenon
  <2> QED BY <1>1, <1>3, <2>4, <2>5, <2>6, ResolvedTold
<1> QED BY <1>5, <1>6

\* So does a sleep.
LEMMA SleepTold ==
  ASSUME Working, RefersInv, DecisionsMatchHistory, WaitersNamed, ResultsTold, handle_timer_fired, TasksInv'
  PROVE  Staying /\ ResultsTold' /\ Fewer(scheduled_timers, scheduled_timers')
<1>1. /\ {"TimerFired"} \subseteq MachineEvents /\ AtEvent({"TimerFired"}) /\ UpdateMachine /\ Consume
      /\ {"TimerFired"} \subseteq ActivityClosed \cup {"TimerFired"}
      /\ history' = history
  BY DEF MachineEvents, handle_timer_fired, Consume, serviceVars
<1>2. PICK id, t : id = history[at].ref /\ t = scheduled_timers[id]
  OBVIOUS
<1>3. history[at].type = "TimerFired" /\ Inv /\ TasksInv /\ IsDecisions(decisions)
  BY <1>1 DEF AtEvent, Working, Inv
<1>4. IF is_done(decisions'[Addressed].machine) /\ id \in DOMAIN scheduled_timers
      THEN /\ scheduled_timers' = Pop(scheduled_timers, id)
           /\ IF Op(t).op = "sleep"
              THEN Resolve(t, "ok")
              ELSE task' = [task EXCEPT ![t].fired = TRUE] /\ UNCHANGED ready
      ELSE UNCHANGED <<scheduled_timers, task, ready>>
  BY <1>2, Zenon DEF handle_timer_fired, Waiter
<1>5. CASE ~(is_done(decisions'[Addressed].machine) /\ id \in DOMAIN scheduled_timers)
  <2>1. scheduled_timers' = scheduled_timers /\ task' = task
    BY <1>4, <1>5
  <2>2. Staying
    BY <2>1 DEF Staying, WasAt
  <2>3. ResultsTold'
    BY <1>1, <2>1, Zenon DEF ResultsTold, PlaceOf
  <2> QED BY <2>1, <2>2, <2>3, SameDict
<1>6. CASE is_done(decisions'[Addressed].machine) /\ id \in DOMAIN scheduled_timers
  <2>1. Named(decisions, "TIMER", id, PlaceOf(t))
    BY <1>2, <1>6, Zenon DEF WaitersNamed
  <2>2. /\ "ok" = "ok" <=> history[at].type \in {"ActivityTaskCompleted", "TimerFired"}
        /\ "TIMER" = IF history[at].type = "TimerFired" THEN "TIMER" ELSE "ACTIVITY"
    BY <1>3
  <2>3. IsRecorded(history, PlaceOf(t), "ok")
    BY <1>1, <1>2, <2>1, <2>2, EndRecorded, Zenon
  <2>4. scheduled_timers' = Pop(scheduled_timers, id)
    BY <1>4, <1>6
  <2>5. Fewer(scheduled_timers, scheduled_timers')
    BY <2>4, FewerWithout, Zenon
  <2>6. \/ task' = [task EXCEPT ![t].result = "ok"]
        \/ task' = [task EXCEPT ![t].fired = TRUE]
    BY <1>4, <1>6, Zenon DEF Resolve
  <2>7. CASE task' = [task EXCEPT ![t].result = "ok"]
    BY <1>1, <1>3, <2>3, <2>5, <2>7, ResolvedTold
  <2>8. CASE task' = [task EXCEPT ![t].fired = TRUE]
    <3>1. Going
      BY <1>3, <2>8, FieldGoes, Zenon
    <3> QED BY <1>1, <2>5, <3>1, GoingTold
  <2> QED BY <2>6, <2>7, <2>8
<1> QED BY <1>5, <1>6

\* An event tells the code what is recorded.
LEMMA EventTold ==
  ASSUME Working, Inv', RefersInv, DecisionsMatchHistory, WaitersNamed, ResultsTold, ProcessEvent
  PROVE  WaitersNamed' /\ ResultsTold'
<1>0. Inv /\ TasksInv /\ TasksInv'
  BY DEF Working, Inv
<1>1. NamesStay(decisions, decisions')
  BY <1>0, EventNames
<1>2. CASE handle_activity_closed
  <2>1. scheduled_timers' = scheduled_timers
    BY <1>2, Zenon DEF handle_activity_closed
  <2> QED BY <1>1, <1>2, <2>1, ActivityTold, SameDict, WaitersStay
<1>3. CASE handle_timer_fired
  <2>1. scheduled_activities' = scheduled_activities
    BY <1>3, Zenon DEF handle_timer_fired
  <2> QED BY <1>0, <1>1, <1>3, <2>1, SleepTold, SameDict, WaitersStay
<1>4. CASE \/ SkipEvent \/ handle_workflow_execution_started \/ handle_workflow_execution_signaled
           \/ handle_workflow_execution_cancel_requested \/ handle_marker_recorded
           \/ handle_initiated \/ handle_timer_canceled \/ EventRaises \/ NoEventHandler
  <2>1. /\ history' = history /\ scheduled_activities' = scheduled_activities
        /\ task' = task \/ \E name : NewTask(name)
        /\ scheduled_timers' = scheduled_timers \/ scheduled_timers' = Pop(scheduled_timers, history[at].ref)
    BY <1>4, Zenon DEF SkipEvent, handle_workflow_execution_started, handle_workflow_execution_signaled,
       handle_workflow_execution_cancel_requested, close_workflow_execution, handle_marker_recorded,
       handle_initiated, handle_timer_canceled, timer_cancelled, EventRaises, NoEventHandler, Raise,
       UpdateMachine, Consume, serviceVars, codeVars, deciderVars
  <2>2. Going
    BY <1>0, <2>1, FieldGoes, NewGoes, Zenon
  <2>3. Fewer(scheduled_timers, scheduled_timers')
    <3>1. PICK id : id = history[at].ref
      OBVIOUS
    <3>2. Fewer(scheduled_timers, Pop(scheduled_timers, id))
      BY FewerWithout, Zenon
    <3> QED BY <2>1, <3>1, <3>2, SameDict
  <2>4. Staying /\ ResultsTold'
    BY <1>0, <2>1, <2>2, GoingTold
  <2> QED BY <1>1, <2>1, <2>3, <2>4, SameDict, WaitersStay
<1> QED BY <1>2, <1>3, <1>4, Zenon DEF ProcessEvent


\* A worker that does not answer leaves the service alone.
LEMMA ServiceAlone ==
  ASSUME WorkerStep, ~RespondDecisions
  PROVE  UNCHANGED <<history, buffered>>
<1>1. CASE ProcessEvent
  BY <1>1, Zenon DEF ProcessEvent, SkipEvent, handle_workflow_execution_started,
     handle_workflow_execution_signaled, handle_workflow_execution_cancel_requested,
     handle_marker_recorded, handle_initiated, handle_activity_closed, handle_timer_fired,
     handle_timer_canceled, EventRaises, NoEventHandler, Raise, Consume, serviceVars
<1>2. CASE RunCode
  BY <1>2, Zenon DEF RunCode, StartHandle, schedule_activity_task, schedule_timer, FutureDone,
     FutureFailed, EnterAwait, AwaitBlocks, AwaitRaises, CodeRaises, AwaitReturns, get_version, SetFlag,
     MainReturns, SignalReturns, UnknownSignal, QueryReturns, Quiet, serviceVars
<1>3. CASE \/ BeginBatch \/ RunEventLoop \/ SkipCompleted \/ EndEventLoop \/ EndBatch \/ query
           \/ respond_query \/ RespondQueryFailed
  BY <1>3, Zenon DEF BeginBatch, RunEventLoop, Raise, SkipCompleted, EndEventLoop, EndBatch, query,
     respond_query, RespondQueryFailed, serviceVars
<1> QED BY <1>1, <1>2, <1>3, Zenon DEF WorkerStep

\* The history grows, and what it records refers to what it has.
LEMMA NextRefers ==
  ASSUME Inv, ReplayInv, ResumeInv, RefersInv, [Next]_vars
  PROVE  RefersInv' /\ Continues(history, history')
<1>0. ServiceOK /\ NoAnswers(buffered) /\ Len(history) \in Nat
  BY SequenceIs DEF Inv, ThreadInv, ServiceOK, ReplayInv
<1>1. CASE UNCHANGED <<history, buffered>>
  <2>1. Continues(history, history)
    BY <1>0, GoesOnStays, Zenon DEF GoesOn
  <2> QED BY <1>1, <2>1, Zenon DEF RefersInv
<1>2. CASE UNCHANGED vars \/ PollQuery \/ Crash \/ (WorkerStep /\ ~RespondDecisions)
  <2>1. UNCHANGED <<history, buffered>>
    BY <1>2, ServiceAlone, Zenon DEF vars, PollQuery, Crash, serviceVars
  <2> QED BY <1>1, <2>1
<1>3. CASE ServiceActs
  <2>1. ServiceStep
    BY <1>3 DEF ServiceActs
  <2> QED BY <1>0, <2>1, ServiceRefers, ServiceAdds, Zenon DEF Adding, GoesOn
<1>4. CASE Poll
  <2>1. StartDecisionTask
    BY <1>4 DEF Poll
  <2> QED BY <1>0, <2>1, StartRefers, StartAdds, Zenon DEF Adding, GoesOn
<1>5. CASE RespondDecisions
  <2>1. /\ phase = "next" /\ ~querying
        /\ RespondDecisionTaskCompleted(polled, get_decisions)
    BY <1>5, Zenon DEF RespondDecisions
  <2>2. /\ AtWork /\ polled \in 1..Len(history) /\ \E R : Path(R)
    BY <2>1 DEF ResumeInv, AtWork
  <2>3. SelfNamed(decisions) /\ polled \in Nat /\ polled > 0
    <3>1. SelfNamed(decisions)
      BY <2>2, Zenon DEF Path
    <3> QED BY <1>0, <2>2, <3>1
  <2>4. IsSequence(get_decisions) /\ \A k \in DOMAIN get_decisions : get_decisions[k].type \in DecisionTypes
    <3>1. IsDecisions(decisions)
      BY DEF Inv
    <3>2. IsSequence(get_decisions) /\ Tells(get_decisions, decisions)
      BY <2>3, <3>1, DecisionsAre, DecisionsTell
    <3> QED BY <3>2, Zenon DEF Tells
  <2>5. PICK ds : ds = get_decisions
    OBVIOUS
  <2> QED BY <1>0, <2>1, <2>3, <2>4, <2>5, RespondRefers, RespondAdds
<1> QED BY <1>2, <1>3, <1>4, <1>5, Zenon DEF Next

\* An operation is completed as the history has it.
LEMMA CompletedIsRecorded ==
  ASSUME LogRecorded, IsSequence(log), history' = history, NEW outcome, log' = Append(log, <<Place, outcome>>),
         outcome \in {"ok", "failed"} => IsRecorded(history, Place, outcome)
  PROVE  LogRecorded'
<1> PICK e : e = <<Place, outcome>>
  OBVIOUS
<1>1. e[1] = Place /\ e[2] = outcome /\ log' = Append(log, e)
  OBVIOUS
<1>2. DOMAIN log' = DOMAIN log \cup {Len(log) + 1} /\ log'[Len(log) + 1] = e
      /\ \A i \in DOMAIN log : log'[i] = log[i]
  BY <1>1, SequenceAppend
<1>3. ASSUME NEW n \in DOMAIN log', log'[n][2] \in {"ok", "failed"}
      PROVE  IsRecorded(history, log'[n][1], log'[n][2])
  <2>1. CASE n \in DOMAIN log
    BY <1>2, <1>3, <2>1, Zenon DEF LogRecorded
  <2>2. CASE n = Len(log) + 1
    BY <1>1, <1>2, <1>3, <2>2
  <2> QED BY <1>2, <2>1, <2>2
<1>4. ASSUME NEW n \in DOMAIN log', log'[n][2] \in {"ok", "failed"}
      PROVE  IsRecorded(history', log'[n][1], log'[n][2])
  BY <1>3, <1>4
<1> QED BY <1>4, Zenon DEF LogRecorded

\* Whatever the code completes.
LEMMA CodeLogs ==
  ASSUME Inv, OrderInv, ResultsTold, LogRecorded, RunCode, history' = history
  PROVE  LogRecorded'
<1>0. IsSequence(log) /\ "ok" # "failed"
  BY DEF OrderInv
<1>1. CASE log' = log
  BY <1>1, Zenon DEF LogRecorded
<1>2. ASSUME NEW outcome, log' = Append(log, <<Place, outcome>>), outcome \notin {"ok", "failed"}
      PROVE  LogRecorded'
  <2>1. outcome \in {"ok", "failed"} => IsRecorded(history, Place, outcome)
    BY <1>2
  <2> QED BY <1>0, <1>2, <2>1, CompletedIsRecorded, Zenon
<1>3. CASE \/ StartHandle \/ schedule_activity_task \/ schedule_timer \/ EnterAwait \/ AwaitBlocks
           \/ MainReturns \/ SignalReturns \/ UnknownSignal \/ QueryReturns
  <2>1. log' = log
    BY <1>3, Zenon DEF StartHandle, schedule_activity_task, schedule_timer, EnterAwait, AwaitBlocks,
                       MainReturns, SignalReturns, UnknownSignal, QueryReturns
  <2> QED BY <1>1, <2>1
<1>4. CASE AwaitRaises
  <2>1. log' = Append(log, <<Place, "raised">>)
    BY <1>4, Zenon DEF AwaitRaises, CodeRaises
  <2> QED BY <1>2, <2>1
<1>5. CASE SetFlag
  <2>1. log' = Append(log, <<Place, "set">>)
    BY <1>5, Zenon DEF SetFlag, Leave
  <2> QED BY <1>2, <2>1
<1>6. CASE AwaitReturns
  <2>1. \E fired : log' = Append(log, <<Place, AwaitOutcome(fired)>>)
    BY <1>6, Zenon DEF AwaitReturns, Leave
  <2>2. \A fired : AwaitOutcome(fired) \notin {"ok", "failed"}
    BY DEF AwaitOutcome
  <2> QED BY <1>2, <2>1, <2>2
<1>7. CASE get_version
  <2>1. \E data : log' = Append(log, <<Place, VersionName(data)>>)
    BY <1>7, Zenon DEF get_version, Leave
  <2>2. \A data : VersionName(data) \notin {"ok", "failed"}
    BY DEF VersionName
  <2> QED BY <1>2, <2>1, <2>2
<1>8. ASSUME NEW ops, Runs(ops, TRUE), NEW outcome \in {"ok", "failed"}, task[running].result = outcome,
             log' = Append(log, <<Place, outcome>>)
      PROVE  LogRecorded'
  <2>1. PICK t : t = running
    OBVIOUS
  <2>2. t \in DOMAIN task /\ task[t].result = outcome /\ outcome # "none"
    BY <1>8, <2>1, RunsAt
  <2>3. IsRecorded(history, PlaceOf(t), outcome)
    BY <2>2 DEF ResultsTold
  <2>4. Place = PlaceOf(t)
    BY <2>1 DEF Place, PlaceOf
  <2>5. IsRecorded(history, Place, outcome)
    BY <2>3, <2>4, Zenon
  <2> QED BY <1>0, <1>8, <2>5, CompletedIsRecorded, Zenon
<1>9. CASE FutureDone
  BY <1>8, <1>9, Zenon DEF FutureDone, Leave
<1>10. CASE FutureFailed
  BY <1>8, <1>10, Zenon DEF FutureFailed, CodeRaises
<1> QED BY <1>3, <1>4, <1>5, <1>6, <1>7, <1>9, <1>10, Zenon DEF RunCode

\* An empty code has no results.
LEMMA DropRecorded ==
  ASSUME DropDecider
  PROVE  WaitersNamed' /\ ResultsTold' /\ LogRecorded'
<1>1. /\ DOMAIN task' = {} /\ DOMAIN log' = {}
      /\ DOMAIN scheduled_activities' = {} /\ DOMAIN scheduled_timers' = {}
  BY EmptySequence, Zenon DEF DropDecider
<1> QED BY <1>1, Zenon DEF WaitersNamed, ResultsTold, LogRecorded

\* The history grows, and the code stands still.
LEMMA StillRecorded ==
  ASSUME RecordedInv, IsSequence(history), IsSequence(history'), Continues(history, history'),
         UNCHANGED <<decisions, scheduled_activities, scheduled_timers, task, log>>
  PROVE  WaitersNamed' /\ ResultsTold' /\ LogRecorded'
<1>1. \A place, outcome : IsRecorded(history, place, outcome) => IsRecorded(history', place, outcome)
  BY RecordedStays
<1>2. WaitersNamed'
  BY Zenon DEF RecordedInv, WaitersNamed, PlaceOf
<1>3. ResultsTold'
  BY <1>1, Zenon DEF RecordedInv, ResultsTold, PlaceOf
<1>4. LogRecorded'
  BY <1>1, Zenon DEF RecordedInv, LogRecorded
<1> QED BY <1>2, <1>3, <1>4

\* The code sees what the history holds, after any step.
LEMMA NextRecorded ==
  ASSUME Inv, OrderInv, ReplayInv, ResumeInv, DecisionsMatchHistory, RecordedInv, [Next]_vars
  PROVE  RecordedInv'
<1>0. /\ Inv' /\ TasksInv /\ TasksInv' /\ IsDecisions(decisions)
      /\ IsSequence(history) /\ IsSequence(history')
  BY NextInv DEF Inv, ThreadInv
<1>1. RefersInv' /\ Continues(history, history')
  BY NextRefers DEF RecordedInv
<1> SUFFICES WaitersNamed' /\ ResultsTold' /\ LogRecorded'
  BY <1>1 DEF RecordedInv
<1>2. WaitersNamed /\ ResultsTold /\ LogRecorded /\ RefersInv
  BY DEF RecordedInv
<1>3. CASE UNCHANGED vars \/ Poll \/ PollQuery \/ BeginBatch \/ SkipCompleted \/ EndBatch \/ ServiceActs
  <2>1. UNCHANGED <<decisions, scheduled_activities, scheduled_timers, task, log>>
    BY <1>3, Zenon DEF vars, Poll, PollQuery, BeginBatch, SkipCompleted, EndBatch, ServiceActs,
       codeVars, deciderVars
  <2> QED BY <1>0, <1>1, <2>1, StillRecorded
<1>4. CASE RespondDecisions \/ Crash \/ RespondQueryFailed \/ respond_query
  <2>1. DropDecider
    BY <1>4, Zenon DEF RespondDecisions, Crash, RespondQueryFailed, respond_query
  <2> QED BY <2>1, DropRecorded
<1>5. CASE RunEventLoop \/ query \/ EndEventLoop
  <2>1. /\ UNCHANGED <<history, log, scheduled_activities, scheduled_timers>>
        /\ decisions' = decisions \/ notify_decision_sent
        /\ task' = task \/ unblock_all \/ NewTask("query")
    BY <1>5, Zenon DEF RunEventLoop, Raise, query, EndEventLoop, deciderVars, codeVars, serviceVars
  <2>2. NamesStay(decisions, decisions')
    BY <1>0, <2>1, SameNames, NotifyNames, Zenon
  <2>3. Going
    BY <1>0, <2>1, FieldGoes, UnblockGoes, NewGoes, Zenon
  <2>4. Staying /\ ResultsTold'
    BY <1>0, <1>2, <2>1, <2>3, GoingTold
  <2>5. WaitersNamed'
    BY <1>0, <1>2, <2>1, <2>2, <2>4, SameDict, WaitersStay
  <2>6. LogRecorded'
    BY <1>2, <2>1, Zenon DEF LogRecorded
  <2> QED BY <2>4, <2>5, <2>6
<1>6. CASE ProcessEvent
  <2>1. Working
    <3>1. AtWork
      BY <1>6, Zenon DEF ProcessEvent, SkipEvent, handle_workflow_execution_started,
         handle_workflow_execution_signaled, handle_workflow_execution_cancel_requested,
         handle_marker_recorded, handle_initiated, handle_activity_closed, handle_timer_fired,
         handle_timer_canceled, EventRaises, NoEventHandler, AtEvent, AtWork
    <3> QED BY <3>1 DEF Working, ReplayInv
  <2>2. WaitersNamed' /\ ResultsTold'
    BY <1>0, <1>2, <1>6, <2>1, EventTold
  <2>3. UNCHANGED <<history, log>>
    BY <1>6, Zenon DEF ProcessEvent, SkipEvent, handle_workflow_execution_started,
       handle_workflow_execution_signaled, handle_workflow_execution_cancel_requested,
       handle_marker_recorded, handle_initiated, handle_activity_closed, handle_timer_fired,
       handle_timer_canceled, EventRaises, NoEventHandler, Raise, Consume, serviceVars, codeVars
  <2>4. LogRecorded'
    BY <1>2, <2>3, Zenon DEF LogRecorded
  <2> QED BY <2>2, <2>4
<1>7. CASE RunCode
  <2>1. history' = history
    BY <1>7, ServiceAlone, Zenon DEF RunCode, StartHandle, schedule_activity_task, schedule_timer, FutureDone,
       FutureFailed, EnterAwait, AwaitBlocks, AwaitRaises, CodeRaises, AwaitReturns, get_version, SetFlag,
       MainReturns, SignalReturns, UnknownSignal, QueryReturns, Quiet, serviceVars
  <2>2. Staying /\ ResultsTold'
    BY <1>0, <1>2, <1>7, <2>1, CodeGoes, GoingTold
  <2>3. WaitersNamed'
    BY <1>0, <1>2, <1>7, <2>2, CodeNames
  <2>4. LogRecorded'
    BY <1>2, <1>7, <2>1, CodeLogs
  <2> QED BY <2>2, <2>3, <2>4
<1> QED BY <1>3, <1>4, <1>5, <1>6, <1>7, Zenon DEF Next, WorkerStep

\* There are no results at first.
LEMMA InitRecorded == Init => RecordedInv
<1> SUFFICES ASSUME Init PROVE RecordedInv
  OBVIOUS
<1>1. /\ DOMAIN task = {} /\ DOMAIN log = {}
      /\ DOMAIN scheduled_activities = {} /\ DOMAIN scheduled_timers = {}
  BY EmptySequence, Zenon DEF Init, NewDecider
<1>2. WaitersNamed /\ ResultsTold /\ LogRecorded
  BY <1>1, Zenon DEF WaitersNamed, ResultsTold, LogRecorded
<1>3. RefersInv
  <2>1. PICK e, f : e = Event("WorkflowExecutionStarted", 0, "") /\ f = Scheduled
    OBVIOUS
  <2>2. \A h : Refers(h, e) /\ Refers(h, f)
    BY <2>1 DEF Event, Scheduled, Refers, ActivityClosed
  <2>3. history = <<e, f>> /\ buffered = <<>>
    BY <2>1, Zenon DEF Init, ServiceInit
  <2>4. Len(history) = 2 /\ history[1] = e /\ history[2] = f
    BY <2>3
  <2>5. \A i \in 1..2 : i = 1 \/ i = 2
    OBVIOUS
  <2>6. AllRefer(history, history)
    BY <2>2, <2>4, <2>5, Zenon DEF AllRefer
  <2> QED BY <2>3, <2>6, NoEnds, Zenon DEF RefersInv
<1> QED BY <1>2, <1>3 DEF RecordedInv

\* Where the ids that the replay gives are those of the history, which is false of some
\* programs, the code never sees a result that the history does not hold for that place.
THEOREM IdsMakeResults == Spec => ([]DecisionsMatchHistory => []ResultsAreRecorded)
<1>1. Init => QuietInv
  BY InitQuiet DEF QuietInv
<1>2. Inv /\ QuietInv /\ [Next]_vars => QuietInv'
  BY NextQuiet
<1>3. Inv /\ OrderInv /\ [Next]_vars => OrderInv'
  BY NextOrder
<1>4. Inv /\ ReplayInv /\ [Next]_vars => ReplayInv'
  BY NextReplay
<1>5. Inv /\ QuietInv /\ OrderInv /\ ReplayInv /\ ResumeInv /\ FreshInv /\ [Next]_vars
        => ResumeInv' /\ FreshInv'
  BY NextResumes, NextFresh
<1>6. Inv /\ OrderInv /\ ReplayInv /\ ResumeInv /\ DecisionsMatchHistory /\ RecordedInv /\ [Next]_vars
        => RecordedInv'
  BY NextRecorded
<1>7. RecordedInv => ResultsAreRecorded
  BY Zenon DEF RecordedInv, LogRecorded, IsRecorded, ResultsAreRecorded
<1> QED BY <1>1, <1>2, <1>3, <1>4, <1>5, <1>6, <1>7, InitOrder, InitReplay, InitResumes, InitFresh,
           InitRecorded, Invariant, PTL DEF Spec
=============================================================================
