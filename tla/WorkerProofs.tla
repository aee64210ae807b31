---------------------------- MODULE WorkerProofs ----------------------------
(***************************************************************************)
(* Proofs about Worker, for any number of starts and any of its parts.     *)
(***************************************************************************)
EXTENDS Worker, TLAPS, FiniteSetTheorems

\* The thread that the latest start has made for a kind.
Latest(kind) == <<kind, starts>>

\* How many threads a start has made, by how far it has come.
Made(c) == CASE c \in {"idle", "start activity"} -> {}
             [] c = "start decision" -> Kinds \cap {"activity"}
             [] OTHER -> Kinds

EndedThreads == {t \in Thread : pc[t] = "ended"}

EndedKinds == {kind \in Kinds : pc[Latest(kind)] = "ended"}

\* A start makes its threads one after the other, and counts them.
StartInv ==
  /\ client # "idle" => starts > 0
  /\ \A t \in Thread : t[2] > starts => pc[t] = "none"
  /\ \A kind \in Kinds \ Made(client) : starts > 0 => pc[Latest(kind)] = "none"
  /\ threads_started = Cardinality(Made(client))

\* An addition may be lost, but no thread is counted before it ends.
CountInv ==
  /\ threads_stopped <= Cardinality(EndedThreads)
  /\ \A t \in Thread : loaded[t] <= Cardinality(EndedThreads)

TypeInv == TypeOK /\ StartInv /\ CountInv

\* A thread gets its connection before it is managed, and closes it before it ends.
ConnInv ==
  /\ \A t \in Thread : pc[t] \in {"none", "create"} => conn[t] = "none"
  /\ \A t \in Thread : pc[t] \in {"load", "store", "ended"} => conn[t] \in {"none", "closed"}
  /\ \A i \in 1..Len(service_instances) : pc[service_instances[i]] \notin {"none", "create"}
  /\ client = "closing" => closing > 0

\* A thread that is over has no connection left.
Over(t) == Ended(t) /\ conn[t] \in {"none", "closed"}

\* Of the threads of earlier starts, and of the latest start's count,
\* which holds as long as no thread of an earlier start is left to add to it.
StopInv ==
  /\ \A t \in Thread : t[2] < starts => Over(t)
  /\ starts > 0 =>
       /\ threads_stopped <= Cardinality(EndedKinds)
       /\ \A kind \in Kinds :
            pc[Latest(kind)] = "store" => loaded[Latest(kind)] <= Cardinality(EndedKinds)
  /\ client = "idle" => starts = 0
  /\ client = "waiting" => mode = "foreground"
  /\ client = "closing" => mode = "background"

Inv == TypeInv /\ ConnInv /\ StopInv /\ StopMeansStopped

Places == {"none", "create", "manage", "check", "poll", "task", "close", "load", "store",
           "ended"}

Conns == {"none", "open", "broken", "closed"}

\* A step of a thread that has something left to do, that counts nothing: where it is
\* then, and what has become of its connection.
Moves(t, place, c) ==
  /\ pc[t] \notin {"none", "ended"}
  /\ place \in Places \ {"none", "create", "store"}
  /\ c \in Conns
  /\ place \in {"load", "ended"} => c \in {"none", "closed"}
  /\ pc' = [pc EXCEPT ![t] = place]
  /\ conn' = [conn EXCEPT ![t] = c]
  /\ service_instances' \in {service_instances, Append(service_instances, t)}
  /\ UNCHANGED <<clientVars, threads_started, threads_stopped, stop_requested, loaded>>

-----------------------------------------------------------------------------
(* Counting *)

\* The assumption on the bound, by itself.
LEMMA Bound == MaxStarts \in Nat
  BY WorkerAssumption

\* Where the number of starts is within its bound.
LEMMA Within ==
  /\ \A s \in 0..MaxStarts : /\ s \in Nat /\ (s < MaxStarts => s + 1 \in 1..MaxStarts)
                             /\ (s > 0 => s \in 1..MaxStarts)
  /\ \A i, s \in 1..MaxStarts : i > s => i # s
  /\ \A n \in Nat : n + 1 > n /\ 0 \in 0..n /\ n \in 0..n /\ (n > 0 => 1 \in 0..n)
  BY Bound

\* There are finitely many kinds and threads.
LEMMA Finite ==
  /\ IsFiniteSet(Kinds) /\ Cardinality(Kinds) \in Nat
  /\ IsFiniteSet(Thread) /\ Cardinality(Thread) \in Nat
<1>1. IsFiniteSet({"activity"} \cup {"decision"})
  BY FS_Singleton, FS_Union
<1>2. IsFiniteSet(Kinds)
  <2>1. Kinds \in SUBSET ({"activity"} \cup {"decision"})
    BY WorkerAssumption
  <2> QED
    BY <1>1, <2>1, FS_Subset
<1>3. IsFiniteSet(1..MaxStarts)
  BY FS_Interval, WorkerAssumption
<1>4. IsFiniteSet(Thread)
  BY <1>2, <1>3, FS_Product DEF Thread
<1> QED
  BY <1>2, <1>4, FS_CardinalityType

\* The threads and the kinds that count are so many at most.
LEMMA Counted ==
  /\ IsFiniteSet(EndedThreads) /\ Cardinality(EndedThreads) \in 0..Cardinality(Thread)
  /\ IsFiniteSet(EndedKinds) /\ Cardinality(EndedKinds) \in 0..Cardinality(Kinds)
  /\ Cardinality(EndedKinds) = Cardinality(Kinds) => EndedKinds = Kinds
<1>1. EndedThreads \in SUBSET Thread /\ EndedKinds \in SUBSET Kinds
  BY DEF EndedThreads, EndedKinds
<1>2. /\ IsFiniteSet(EndedThreads) /\ Cardinality(EndedThreads) <= Cardinality(Thread)
      /\ IsFiniteSet(EndedKinds) /\ Cardinality(EndedKinds) <= Cardinality(Kinds)
      /\ Cardinality(Kinds) = Cardinality(EndedKinds) => Kinds = EndedKinds
  BY <1>1, Finite, FS_Subset
<1>3. Cardinality(EndedThreads) \in Nat /\ Cardinality(EndedKinds) \in Nat
  BY <1>2, FS_CardinalityType
<1> QED
  BY <1>2, <1>3, Finite

\* What is counted stays counted while threads that ended stay where they are.
LEMMA Grow ==
  ASSUME \A t \in Thread : pc[t] = "ended" => pc'[t] = "ended"
  PROVE  /\ Cardinality(EndedThreads') \in 0..Cardinality(Thread)
         /\ Cardinality(EndedThreads) <= Cardinality(EndedThreads')
<1>1. IsFiniteSet(EndedThreads')
  <2>1. EndedThreads' \in SUBSET Thread
    BY DEF EndedThreads
  <2> QED
    BY <2>1, Finite, FS_Subset
<1>2. EndedThreads \in SUBSET (EndedThreads')
  BY DEF EndedThreads
<1>3. Cardinality(EndedThreads) <= Cardinality(EndedThreads')
  BY <1>1, <1>2, FS_Subset
<1>4. EndedThreads' \in SUBSET Thread
  BY DEF EndedThreads
<1>5. Cardinality(EndedThreads') <= Cardinality(Thread)
  BY <1>4, Finite, FS_Subset
<1>6. Cardinality(EndedThreads') \in Nat
  BY <1>1, FS_CardinalityType
<1> QED
  BY <1>3, <1>5, <1>6, Finite

\* The same of the kinds of the latest start.
LEMMA GrowKinds ==
  ASSUME \A kind \in Kinds : pc[Latest(kind)] = "ended" => pc'[Latest(kind)'] = "ended"
  PROVE  /\ Cardinality(EndedKinds') \in 0..Cardinality(Kinds)
         /\ Cardinality(EndedKinds) <= Cardinality(EndedKinds')
<1>1. IsFiniteSet(EndedKinds')
  <2>1. EndedKinds' \in SUBSET Kinds
    BY DEF EndedKinds
  <2> QED
    BY <2>1, Finite, FS_Subset
<1>2. EndedKinds \in SUBSET (EndedKinds')
  BY DEF EndedKinds
<1>3. Cardinality(EndedKinds) <= Cardinality(EndedKinds')
  BY <1>1, <1>2, FS_Subset
<1>4. EndedKinds' \in SUBSET Kinds
  BY DEF EndedKinds
<1>5. Cardinality(EndedKinds') <= Cardinality(Kinds)
  BY <1>4, Finite, FS_Subset
<1>6. Cardinality(EndedKinds') \in Nat
  BY <1>1, FS_CardinalityType
<1> QED
  BY <1>3, <1>5, <1>6, Finite

\* How many threads a start counts in each of its steps.
LEMMA Making ==
  /\ Made("idle") = {} /\ Made("start activity") = {} /\ Cardinality({}) = 0
  /\ Made("start decision") = Kinds \cap {"activity"}
  /\ \A c \in {"started", "closing", "waiting", "stopped"} : Made(c) = Kinds
  /\ Cardinality(Made("start decision")) = IF "activity" \in Kinds THEN 1 ELSE 0
  /\ Cardinality(Kinds) = Cardinality(Made("start decision")) +
                          IF "decision" \in Kinds THEN 1 ELSE 0
  /\ "activity" \in Kinds => 1 \in 0..Cardinality(Kinds)
<1>1. Made("idle") = {} /\ Made("start activity") = {} /\ Cardinality({}) = 0
  BY FS_EmptySet DEF Made
<1>2. Made("start decision") = Kinds \cap {"activity"}
  BY DEF Made
<1>3. \A c \in {"started", "closing", "waiting", "stopped"} : Made(c) = Kinds
  BY DEF Made
<1> DEFINE A == Kinds \cap {"activity"}
<1>4. IsFiniteSet(A) /\ Cardinality(A) = IF "activity" \in Kinds THEN 1 ELSE 0
  <2>1. A = IF "activity" \in Kinds THEN {"activity"} ELSE {}
    OBVIOUS
  <2> QED
    BY <2>1, FS_Singleton, FS_EmptySet
<1>5. Kinds = IF "decision" \in Kinds THEN A \cup {"decision"} ELSE A
  BY WorkerAssumption
<1>6. "decision" \notin A
  OBVIOUS
<1>7. Cardinality(Kinds) = Cardinality(A) + IF "decision" \in Kinds THEN 1 ELSE 0
  <2>1. /\ Cardinality(A \cup {"decision"}) = Cardinality(A) + 1
    BY <1>4, <1>6, FS_AddElement
  <2>2. Cardinality(A) \in Nat
    BY <1>4
  <2> HIDE DEF A
  <2>3. CASE "decision" \in Kinds
    BY <1>5, <2>1, <2>3
  <2>4. CASE "decision" \notin Kinds
    BY <1>5, <2>2, <2>4
  <2> QED
    BY <2>3, <2>4
<1>8. "activity" \in Kinds => 1 \in 0..Cardinality(Kinds)
  <2>1. CASE "decision" \in Kinds
    BY <1>4, <1>7, <2>1
  <2>2. CASE "decision" \notin Kinds
    BY <1>4, <1>7, <2>2
  <2> QED
    BY <2>1, <2>2
<1> QED
  BY <1>1, <1>2, <1>3, <1>4, <1>7, <1>8

-----------------------------------------------------------------------------
(* Types *)

\* The initial states.
LEMMA InitType == Init => TypeInv
<1> SUFFICES ASSUME Init PROVE TypeInv
  OBVIOUS
<1>1. TypeOK
  <2>1. 0 \in 0..MaxStarts /\ 0 \in 0..Cardinality(Kinds) /\ 0 \in 0..Cardinality(Thread)
    BY Finite, WorkerAssumption
  <2>2. service_instances \in Seq(Thread)
    BY DEF Init
  <2>3. pc \in [Thread -> Places] /\ conn \in [Thread -> Conns]
    BY DEF Init, Places, Conns
  <2>4. loaded \in [Thread -> 0..Cardinality(Thread)]
    BY <2>1 DEF Init
  <2>5. /\ starts = 0 /\ client = "idle" /\ mode = "none" /\ closing = 0
        /\ threads_started = 0 /\ threads_stopped = 0 /\ stop_requested = FALSE
    BY DEF Init
  <2> QED
    BY <2>1, <2>2, <2>3, <2>4, <2>5 DEF TypeOK, Places, Conns
<1>2. StartInv
  <2>1. starts = 0 /\ client = "idle" /\ threads_started = 0 /\ \A t \in Thread : pc[t] = "none"
    BY DEF Init
  <2>2. ~(starts > 0)
    BY <2>1
  <2>3. threads_started = Cardinality(Made(client))
    BY <2>1, Making
  <2> QED
    BY <2>1, <2>2, <2>3 DEF StartInv
<1>3. CountInv
  BY Counted DEF Init, CountInv
<1> QED
  BY <1>1, <1>2, <1>3 DEF TypeInv

\* While threads that have not started do not start, a start's count stays right.
LEMMA StartStays ==
  ASSUME TypeInv, UNCHANGED <<starts, client, threads_started>>,
         \A s \in Thread : pc[s] = "none" => pc'[s] = "none"
  PROVE  StartInv'
<1>1. Made(client') = Made(client) /\ threads_started' = threads_started
  OBVIOUS
<1>2. \A kind \in Kinds : starts > 0 => Latest(kind) \in Thread /\ Latest(kind)' = Latest(kind)
  <2>1. starts \in 0..MaxStarts /\ starts' = starts
    BY DEF TypeInv, TypeOK
  <2>2. starts > 0 => starts \in 1..MaxStarts
    BY <2>1, WorkerAssumption
  <2> QED
    BY <2>1, <2>2 DEF Latest, Thread
<1> QED
  BY <1>1, <1>2 DEF TypeInv, StartInv

\* A thread that ends stays where it is, and one that has not started does not start.
LEMMA MovesType ==
  ASSUME TypeInv, NEW t \in Thread, NEW place, NEW c, Moves(t, place, c)
  PROVE  TypeInv'
<1> USE DEF TypeInv, Places, Conns
<1>1. /\ pc' = [pc EXCEPT ![t] = place] /\ pc[t] \notin {"none", "ended"}
      /\ place \in Places \ {"none", "create", "store"}
      /\ conn' = [conn EXCEPT ![t] = c] /\ c \in Conns
      /\ service_instances' \in {service_instances, Append(service_instances, t)}
      /\ UNCHANGED <<starts, client, mode, closing, threads_started, threads_stopped,
                     stop_requested, loaded>>
  BY Zenon DEF Moves, clientVars
<1>2. TypeOK'
  <2>1. service_instances' \in Seq(Thread)
    <3>1. service_instances \in Seq(Thread)
      BY DEF TypeOK
    <3>2. Append(service_instances, t) \in Seq(Thread)
      BY <3>1
    <3> QED
      BY <1>1, <3>1, <3>2
  <2>2. pc' \in [Thread -> Places] /\ conn' \in [Thread -> Conns]
    BY <1>1 DEF TypeOK
  <2> QED
    BY <1>1, <2>1, <2>2 DEF TypeOK
<1>3. \A s \in Thread : pc[s] \in {"none", "ended"} => pc'[s] = pc[s]
  BY <1>1 DEF TypeOK
<1>4. StartInv'
  BY <1>1, <1>3, StartStays
<1>5. CountInv'
  <2>1. /\ Cardinality(EndedThreads') \in 0..Cardinality(Thread)
        /\ Cardinality(EndedThreads) <= Cardinality(EndedThreads')
    BY <1>3, Grow
  <2>2. Cardinality(EndedThreads) \in Nat /\ Cardinality(EndedThreads') \in Nat
    BY <2>1, Counted, Finite
  <2>3. threads_stopped' = threads_stopped /\ loaded' = loaded
    BY <1>1
  <2>4. threads_stopped \in Nat /\ \A s \in Thread : loaded[s] \in Nat
    <3>1. /\ threads_stopped \in 0..Cardinality(Thread)
          /\ loaded \in [Thread -> 0..Cardinality(Thread)]
      BY DEF TypeOK
    <3> QED
      BY <3>1, Finite
  <2>5. threads_stopped' <= Cardinality(EndedThreads')
    BY <2>1, <2>2, <2>3, <2>4 DEF CountInv
  <2>6. \A s \in Thread : loaded'[s] <= Cardinality(EndedThreads')
    BY <2>1, <2>2, <2>3, <2>4 DEF CountInv
  <2> QED
    BY <2>5, <2>6 DEF CountInv
<1> QED
  BY <1>2, <1>4, <1>5

\* Who still has something to do has been made by a start, and is no kind's future thread.
LEMMA Alive ==
  ASSUME TypeInv, NEW t \in Thread, pc[t] # "none"
  PROVE  t[1] \in Kinds /\ t[2] <= starts /\ starts \in Nat /\ t[2] \in Nat /\ t = <<t[1], t[2]>>
<1>1. t[1] \in Kinds /\ t[2] \in 1..MaxStarts /\ t = <<t[1], t[2]>>
  BY DEF Thread
<1>2. starts \in Nat
  <2>1. starts \in 0..MaxStarts
    BY DEF TypeInv, TypeOK
  <2> QED
    BY <2>1, WorkerAssumption
<1>3. ~(t[2] > starts)
  BY DEF TypeInv, StartInv
<1> QED
  BY <1>1, <1>2, <1>3, WorkerAssumption

\* Reading the count, and adding to it.
LEMMA LoadType ==
  ASSUME TypeInv, NEW t \in Thread, LoadStopped(t)
  PROVE  TypeInv'
<1>1. /\ pc[t] = "load" /\ pc' = [pc EXCEPT ![t] = "store"]
      /\ loaded' = [loaded EXCEPT ![t] = threads_stopped]
      /\ UNCHANGED <<starts, client, mode, closing, threads_started, threads_stopped,
                     stop_requested, service_instances, conn>>
  BY DEF LoadStopped, Goto, clientVars, sharedVars
<1>2. TypeOK'
  <2>1. pc' \in [Thread -> Places] /\ loaded' \in [Thread -> 0..Cardinality(Thread)]
    BY <1>1 DEF TypeInv, TypeOK, Places
  <2> QED
    BY <1>1, <2>1 DEF TypeInv, TypeOK, Places
<1>3. \A s \in Thread : pc[s] \in {"none", "ended"} => pc'[s] = pc[s]
  BY <1>1 DEF TypeInv, TypeOK
<1>4. StartInv'
  BY <1>1, <1>3, StartStays
<1>5. EndedThreads' = EndedThreads
  BY <1>1 DEF EndedThreads, TypeInv, TypeOK
<1>6. CountInv'
  <2>1. \A s \in Thread : loaded'[s] \in {loaded[s], threads_stopped}
    BY <1>1 DEF TypeInv, TypeOK
  <2> QED
    BY <1>1, <1>5, <2>1 DEF TypeInv, CountInv
<1> QED
  BY <1>2, <1>4, <1>6 DEF TypeInv

\* The write counts the thread that ends with it.
LEMMA StoreType ==
  ASSUME TypeInv, NEW t \in Thread, StoreStopped(t)
  PROVE  TypeInv'
<1>1. /\ pc[t] = "store" /\ pc' = [pc EXCEPT ![t] = "ended"]
      /\ threads_stopped' = loaded[t] + 1
      /\ UNCHANGED <<starts, client, mode, closing, threads_started, stop_requested,
                     service_instances, conn, loaded>>
  BY DEF StoreStopped, Goto, clientVars
<1>2. \A s \in Thread : pc[s] \in {"none", "ended"} => pc'[s] = pc[s]
  BY <1>1 DEF TypeInv, TypeOK
<1>3. StartInv'
  BY <1>1, <1>2, StartStays
<1>4. Cardinality(EndedThreads') = Cardinality(EndedThreads) + 1
  <2>1. EndedThreads' = EndedThreads \cup {t} /\ t \notin EndedThreads
    BY <1>1 DEF EndedThreads, TypeInv, TypeOK
  <2> QED
    BY <2>1, Counted, FS_AddElement
<1>5. Cardinality(EndedThreads) \in Nat /\ Cardinality(EndedThreads') \in 0..Cardinality(Thread)
  BY <1>2, Grow, Counted, Finite
<1>6. \A s \in Thread : loaded[s] \in Nat
  <2>1. loaded \in [Thread -> 0..Cardinality(Thread)]
    BY DEF TypeInv, TypeOK
  <2> QED
    BY <2>1, Finite
<1>7. \A s \in Thread : loaded[s] <= Cardinality(EndedThreads)
  BY DEF TypeInv, CountInv
<1>8. /\ threads_stopped' <= Cardinality(EndedThreads')
      /\ \A s \in Thread : loaded'[s] <= Cardinality(EndedThreads')
  BY <1>1, <1>4, <1>5, <1>6, <1>7
<1>9. threads_stopped' \in 0..Cardinality(Thread)
  BY <1>1, <1>5, <1>6, <1>8, Finite
<1>10. TypeOK'
  <2>1. pc' \in [Thread -> Places]
    BY <1>1 DEF TypeInv, TypeOK, Places
  <2> QED
    BY <1>1, <1>9, <2>1 DEF TypeInv, TypeOK, Places
<1> QED
  BY <1>3, <1>8, <1>10 DEF TypeInv, CountInv

\* A connection that breaks, or that stop closes.
LEMMA ConnType ==
  ASSUME TypeInv, conn' \in [Thread -> Conns], closing' \in Nat,
         UNCHANGED <<starts, client, mode, sharedVars, pc, loaded>>
  PROVE  TypeInv'
<1>1. UNCHANGED <<starts, client, mode, threads_started, threads_stopped, stop_requested,
                  service_instances, pc, loaded>>
  BY DEF sharedVars
<1>2. TypeOK'
  BY <1>1 DEF TypeInv, TypeOK, Conns
<1>3. StartInv'
  BY <1>1, StartStays
<1>4. EndedThreads' = EndedThreads
  BY <1>1 DEF EndedThreads
<1>5. CountInv'
  BY <1>1, <1>4 DEF TypeInv, CountInv
<1> QED
  BY <1>2, <1>3, <1>5 DEF TypeInv

\* A start resets the counters, whatever threads of earlier starts may still do.
LEMMA StartType ==
  ASSUME TypeInv, start
  PROVE  TypeInv' /\ starts' \in 1..MaxStarts
<1>1. /\ client' = "start activity" /\ starts' = starts + 1 /\ starts < MaxStarts
      /\ threads_started' = 0 /\ threads_stopped' = 0 /\ stop_requested' = FALSE
      /\ UNCHANGED <<mode, closing, service_instances, pc, conn, loaded>>
  BY DEF start, Reset, threadVars
<1>2. starts \in 0..MaxStarts
  BY DEF TypeInv, TypeOK
<1>3. starts' \in 1..MaxStarts /\ starts \in Nat
  BY <1>1, <1>2, Within
<1>4. TypeOK'
  <2>1. starts' \in 0..MaxStarts
    BY <1>3
  <2>2. 0 \in 0..Cardinality(Kinds) /\ 0 \in 0..Cardinality(Thread)
    BY Finite
  <2> QED
    BY <1>1, <2>1, <2>2 DEF TypeInv, TypeOK
<1>5. StartInv'
  <2>1. \A t \in Thread : t[2] > starts => pc[t] = "none"
    BY DEF TypeInv, StartInv
  <2>2. \A t \in Thread : t[2] \in Nat
    BY Bound DEF Thread
  <2>3. \A t \in Thread : t[2] > starts' => pc'[t] = "none"
    <3>1. starts' = starts + 1 /\ pc' = pc
      BY <1>1
    <3>2. \A t \in Thread : t[2] > starts' => t[2] > starts
      BY <1>3, <2>2, <3>1
    <3> QED
      BY <2>1, <3>1, <3>2
  <2>4. \A kind \in Kinds : pc'[Latest(kind)'] = "none"
    <3>1. starts' = starts + 1 /\ pc' = pc /\ starts + 1 > starts
      BY <1>1, <1>3, Within
    <3>2. \A kind \in Kinds : Latest(kind)' = <<kind, starts + 1>> /\ Latest(kind)' \in Thread
      BY <1>3, <3>1 DEF Thread, Latest
    <3>3. \A kind \in Kinds : Latest(kind)'[2] > starts
      BY <3>1, <3>2
    <3> QED
      BY <2>1, <3>1, <3>2, <3>3
  <2>5. threads_started' = Cardinality(Made(client'))
    BY <1>1, Making
  <2> QED
    BY <1>3, <2>3, <2>4, <2>5 DEF StartInv
<1>6. CountInv'
  <2>1. EndedThreads' = EndedThreads
    BY <1>1 DEF EndedThreads
  <2>2. Cardinality(EndedThreads) \in Nat
    BY Counted, Finite
  <2>3. threads_stopped' = 0 /\ loaded' = loaded
    BY <1>1
  <2>4. \A t \in Thread : loaded[t] <= Cardinality(EndedThreads)
    BY DEF TypeInv, CountInv
  <2> QED
    BY <2>1, <2>2, <2>3, <2>4 DEF CountInv
<1> QED
  BY <1>3, <1>4, <1>5, <1>6 DEF TypeInv

\* stop, and its return: the threads are all there, and go on as before.
LEMMA StopType ==
  ASSUME TypeInv, client \in {"started", "closing", "waiting"},
         client' \in {"closing", "waiting", "stopped"},
         mode' \in {"none"} \cup StopModes, closing' \in Nat, stop_requested' \in BOOLEAN,
         UNCHANGED <<starts, threads_started, threads_stopped, service_instances, threadVars>>
  PROVE  TypeInv'
<1>1. UNCHANGED <<starts, threads_started, threads_stopped, service_instances, pc, conn, loaded>>
  BY DEF threadVars
<1>2. TypeOK'
  BY <1>1 DEF TypeInv, TypeOK
<1>3. Made(client) = Kinds /\ Made(client') = Kinds
  BY Making
<1>4. StartInv'
  BY <1>1, <1>3 DEF TypeInv, StartInv
<1>5. EndedThreads' = EndedThreads
  BY <1>1 DEF EndedThreads
<1>6. CountInv'
  BY <1>1, <1>5 DEF TypeInv, CountInv
<1> QED
  BY <1>2, <1>4, <1>6 DEF TypeInv

\* What the client does about one kind of thread.
Makes(kind) ==
  /\ \/ client = "start activity" /\ kind = "activity" /\ client' = "start decision"
     \/ client = "start decision" /\ kind = "decision" /\ client' = "started"
  /\ StartThread(kind)
  /\ UNCHANGED <<starts, mode, closing, threads_stopped, stop_requested, service_instances,
                 conn, loaded>>

\* A thread that is made has not been there before.
LEMMA MakeType ==
  ASSUME TypeInv, starts > 0, NEW kind \in {"activity", "decision"}, Makes(kind)
  PROVE  /\ TypeInv'
         /\ kind \in Kinds => Latest(kind) \in Thread /\ pc[Latest(kind)] = "none"
<1>1. /\ client \in {"start activity", "start decision"}
      /\ client' \in {"start decision", "started"}
      /\ client = "start activity" => kind = "activity" /\ client' = "start decision"
      /\ client = "start decision" => kind = "decision" /\ client' = "started"
      /\ UNCHANGED <<starts, mode, closing, threads_stopped, stop_requested, service_instances,
                     conn, loaded>>
  BY DEF Makes
<1>2. StartThread(kind)
  BY DEF Makes
<1>3. CASE kind \in Kinds
  <2>1. /\ pc' = [pc EXCEPT ![Latest(kind)] = "create"]
        /\ threads_started' = threads_started + 1
    BY <1>3, <1>1, <1>2 DEF StartThread, Latest
  <2>2. starts \in 1..MaxStarts
    <3>1. starts \in 0..MaxStarts
      BY DEF TypeInv, TypeOK
    <3> QED
      BY <3>1, Within
  <2>3. \A k \in Kinds : Latest(k) \in Thread /\ Latest(k)' = Latest(k)
    BY <1>1, <2>2 DEF Latest, Thread
  <2>4. kind \notin Made(client)
    BY <1>1, Making
  <2>5. pc[Latest(kind)] = "none"
    BY <1>3, <2>4 DEF TypeInv, StartInv
  <2>6. /\ threads_started' = Cardinality(Made(client'))
        /\ Cardinality(Made(client')) \in 0..Cardinality(Kinds)
        /\ Made(client) \cup {kind} = Made(client')
    <3>1. threads_started = Cardinality(Made(client))
      BY DEF TypeInv, StartInv
    <3>2. CASE client = "start activity"
      <4>1. Made(client) = {} /\ Made(client') = Kinds \cap {"activity"} /\ kind = "activity"
        BY <1>1, <3>2, Making
      <4>2. Cardinality(Made(client)) = 0 /\ Cardinality(Made(client')) = 1
        BY <1>3, <3>2, <4>1, Making
      <4>3. 1 \in 0..Cardinality(Kinds)
        <5>1. "activity" \in Kinds
          BY <1>3, <4>1, Zenon
        <5> QED
          BY <5>1, Making
      <4>4. threads_started' = 1
        <5>1. threads_started = 0
          BY <3>1, <4>2, Zenon
        <5>2. threads_started' = threads_started + 1
          BY <2>1
        <5> QED
          BY <5>1, <5>2
      <4>5. Made(client) \cup {kind} = Made(client')
        BY <1>3, <4>1
      <4> QED
        BY <4>2, <4>3, <4>4, <4>5
    <3>3. CASE client = "start decision"
      <4>1. /\ Made(client) = Kinds \cap {"activity"} /\ Made(client') = Kinds
            /\ kind = "decision"
        BY <1>1, <3>3, Making
      <4>2. Made(client) \cup {kind} = Made(client')
        BY <1>3, <4>1, WorkerAssumption
      <4>3. Cardinality(Made(client')) = Cardinality(Made(client)) + 1
        BY <1>3, <3>3, <4>1, Making
      <4>4. Cardinality(Kinds) \in 0..Cardinality(Kinds)
        BY Finite, Within
      <4>5. threads_started' = Cardinality(Made(client'))
        BY <2>1, <3>1, <4>3
      <4> QED
        BY <4>1, <4>2, <4>4, <4>5
    <3> QED
      BY <1>1, <3>2, <3>3
  <2>7. TypeOK'
    <3>1. pc' \in [Thread -> Places]
      BY <2>1, <2>3 DEF TypeInv, TypeOK, Places
    <3>2. client' \in {"start decision", "started"}
      BY <1>1
    <3> QED
      BY <1>1, <2>6, <3>1, <3>2 DEF TypeInv, TypeOK, Places
  <2>8. StartInv'
    <3>1. \A t \in Thread : t[2] > starts => pc'[t] = "none"
      <4>1. \A t \in Thread : t[2] > starts => t # Latest(kind) /\ pc[t] = "none"
        <5>1. \A t \in Thread : t[2] > starts => t[2] # starts
          <6>1. \A t \in Thread : t[2] \in 1..MaxStarts
            BY DEF Thread
          <6> QED
            BY <2>2, <6>1, Within
        <5>2. \A t \in Thread : t[2] > starts => pc[t] = "none"
          BY DEF TypeInv, StartInv
        <5>3. Latest(kind)[2] = starts
          BY DEF Latest
        <5> QED
          BY <5>1, <5>2, <5>3, Zenon
      <4>2. pc \in [Thread -> Places]
        BY DEF TypeInv, TypeOK, Places
      <4> QED
        BY <2>1, <4>1, <4>2
    <3>2. \A k \in Kinds \ Made(client') : pc'[Latest(k)] = "none"
      BY <2>1, <2>3, <2>6 DEF TypeInv, TypeOK, StartInv, Latest
    <3> QED
      BY <1>1, <2>3, <2>6, <3>1, <3>2 DEF StartInv
  <2>9. CountInv'
    <3>1. EndedThreads' = EndedThreads
      BY <2>1, <2>3, <2>5 DEF EndedThreads, TypeInv, TypeOK
    <3> QED
      BY <1>1, <3>1 DEF TypeInv, CountInv
  <2> QED
    BY <2>3, <2>5, <2>7, <2>8, <2>9, <1>3 DEF TypeInv
<1>4. CASE kind \notin Kinds
  <2>1. UNCHANGED <<pc, threads_started>>
    BY <1>4, <1>2 DEF StartThread
  <2>2. client' \in {"start decision", "started"}
    BY <1>1
  <2>3. TypeOK'
    BY <1>1, <2>1, <2>2 DEF TypeInv, TypeOK
  <2>4. Made(client') = Made(client)
    <3>1. client = "start activity" => Made(client) = {} /\ Made(client') = Kinds \cap {"activity"}
      BY <1>1, Making
    <3>2. client = "start decision" =>
            Made(client) = Kinds \cap {"activity"} /\ Made(client') = Kinds
      BY <1>1, Making
    <3> QED
      BY <1>4, <1>1, <3>1, <3>2, WorkerAssumption
  <2>5. StartInv'
    BY <1>1, <2>1, <2>4 DEF TypeInv, StartInv, Latest
  <2>6. EndedThreads' = EndedThreads
    BY <2>1 DEF EndedThreads
  <2> QED
    BY <1>1, <2>1, <2>3, <2>5, <2>6, <1>4 DEF TypeInv, CountInv
<1> QED
  BY <1>3, <1>4

\* A thread does nothing else than move, read the count, or add to it.
LEMMA ThreadMoves ==
  ASSUME TypeInv, ConnInv, NEW t \in Thread, ThreadStep(t) \/ PollsTask(t)
  PROVE  \/ \E place, c : Moves(t, place, c)
         \/ LoadStopped(t)
         \/ StoreStopped(t)
<1> DEFINE Goal == \E place, c : Moves(t, place, c)
<1>0. /\ pc \in [Thread -> Places] /\ conn \in [Thread -> Conns]
      /\ conn = [conn EXCEPT ![t] = conn[t]] /\ conn[t] \in Conns
  BY DEF TypeInv, TypeOK, Places, Conns
<1>1. ASSUME Connects(t) PROVE Goal
  <2>1. Moves(t, "manage", "open")
    BY <1>1 DEF Connects, Moves, Goto, sharedVars, Places, Conns
  <2> QED
    BY <2>1
<1>2. ASSUME manage_service(t) PROVE Goal
  <2>1. Moves(t, "check", conn[t])
    BY <1>0, <1>2 DEF manage_service, Moves, Goto, Places
  <2> QED
    BY <2>1
<1>3. ASSUME Close(t) PROVE Goal
  <2>1. Moves(t, "load", IF conn[t] = "none" THEN conn[t] ELSE "closed")
    BY <1>0, <1>3 DEF Close, Moves, Goto, sharedVars, Places, Conns
  <2> QED
    BY <2>1
<1>4. ASSUME IsRefused(t) PROVE Goal
  <2>1. conn[t] = "none"
    BY <1>4 DEF IsRefused, ConnInv
  <2>2. Moves(t, AfterRefusal(t), conn[t])
    BY <1>0, <1>4, <2>1 DEF IsRefused, AfterRefusal, Moves, Goto, sharedVars, Places
  <2> QED
    BY <2>2
<1>5. ASSUME NEW place \in {"check", "poll", "task", "close"},
             pc[t] \in {"check", "poll", "task"}, Goto(t, place),
             UNCHANGED <<clientVars, sharedVars, conn, loaded>>
      PROVE  Goal
  <2>1. Moves(t, place, conn[t])
    BY <1>0, <1>5 DEF Moves, Goto, sharedVars, Places
  <2> QED
    BY <2>1
<1>6. ASSUME Check(t) PROVE Goal
  <2>1. CASE stop_requested
    BY <1>5, <1>6, <2>1 DEF Check
  <2>2. CASE ~stop_requested
    BY <1>5, <1>6, <2>2 DEF Check
  <2> QED
    BY <2>1, <2>2
<1>7. ASSUME PollsNothing(t) \/ PollsTask(t) \/ raise_if_stop_requested(t) PROVE Goal
  BY <1>5, <1>7 DEF PollsNothing, PollsTask, raise_if_stop_requested
<1>8. ASSUME PollFails(t) PROVE Goal
  <2>1. CASE Kind(t) = "activity"
    BY <1>5, <1>8, <2>1 DEF PollFails
  <2>2. CASE Kind(t) # "activity"
    BY <1>5, <1>8, <2>2 DEF PollFails
  <2> QED
    BY <2>1, <2>2
<1>9. ASSUME EndsTask(t) \/ TaskRaises(t) PROVE Goal
  BY <1>5, <1>9 DEF EndsTask, TaskRaises
<1> QED
  BY <1>1, <1>2, <1>3, <1>4, <1>6, <1>7, <1>8, <1>9 DEF ThreadStep

\* A connection is there only between the two.
LEMMA MovesConn ==
  ASSUME TypeInv, ConnInv, NEW t \in Thread, NEW place, NEW c, Moves(t, place, c)
  PROVE  ConnInv'
<1>1. /\ pc' = [pc EXCEPT ![t] = place] /\ pc \in [Thread -> Places]
      /\ place \in {"manage", "check", "poll", "task", "close", "load", "ended"}
      /\ conn' = [conn EXCEPT ![t] = c] /\ conn \in [Thread -> Conns]
      /\ place \in {"load", "ended"} => c \in {"none", "closed"}
      /\ service_instances' \in {service_instances, Append(service_instances, t)}
  BY DEF Moves, TypeInv, TypeOK, Places, Conns
<1>2. /\ \A s \in Thread : pc'[s] \in {"none", "create"} => conn'[s] = "none"
      /\ \A s \in Thread : pc'[s] \in {"load", "store", "ended"} => conn'[s] \in {"none", "closed"}
  BY <1>1 DEF ConnInv
<1>3. service_instances \in Seq(Thread)
  BY DEF TypeInv, TypeOK
<1>4. ASSUME NEW i \in 1..Len(service_instances')
      PROVE  \/ service_instances'[i] = t
             \/ i \in 1..Len(service_instances) /\ service_instances'[i] = service_instances[i]
  BY <1>1, <1>3
<1>5. ASSUME NEW i \in 1..Len(service_instances')
      PROVE  pc'[service_instances'[i]] \notin {"none", "create"}
  <2>1. CASE service_instances'[i] = t
    BY <1>1, <2>1
  <2>2. CASE i \in 1..Len(service_instances) /\ service_instances'[i] = service_instances[i]
    <3>1. /\ service_instances[i] \in Thread
          /\ pc[service_instances[i]] \notin {"none", "create"}
      BY <1>3, <2>2 DEF ConnInv
    <3> QED
      BY <1>1, <2>2, <3>1
  <2> QED
    BY <1>4, <2>1, <2>2
<1>6. client' = "closing" => closing' > 0
  BY DEF ConnInv, Moves, clientVars
<1> QED
  BY <1>2, <1>5, <1>6 DEF ConnInv

\* A managed thread is not one that has yet to connect.
LEMMA Managed ==
  ASSUME TypeInv, ConnInv, UNCHANGED service_instances,
         \A s \in Thread : pc[s] \notin {"none", "create"} => pc'[s] \notin {"none", "create"}
  PROVE  \A i \in 1..Len(service_instances') : pc'[service_instances'[i]] \notin {"none", "create"}
<1>1. \A i \in 1..Len(service_instances) :
        service_instances[i] \in Thread /\ pc[service_instances[i]] \notin {"none", "create"}
  <2>1. service_instances \in Seq(Thread)
    BY DEF TypeInv, TypeOK
  <2> QED
    BY <2>1 DEF ConnInv
<1> QED
  BY <1>1

\* Every step keeps the types and what is known of the connections.
LEMMA NextType == TypeInv /\ ConnInv /\ [Next]_vars => TypeInv' /\ ConnInv'
<1> SUFFICES ASSUME TypeInv, ConnInv, [Next]_vars PROVE TypeInv' /\ ConnInv'
  OBVIOUS
<1>0. pc \in [Thread -> Places] /\ conn \in [Thread -> Conns] /\ closing \in Nat
  BY DEF TypeInv, TypeOK, Places, Conns
<1>1. CASE start
  <2>1. UNCHANGED <<service_instances, pc, conn>> /\ client' # "closing"
    BY <1>1 DEF start, threadVars
  <2>2. ConnInv'
    BY <2>1 DEF ConnInv
  <2> QED
    BY <1>1, <2>2, StartType
<1>2. CASE stop
  <2>1. PICK m \in StopModes : mode' = m /\ stop_requested' = Requests(m)
                               /\ client' = IF m = "background" THEN "closing" ELSE "waiting"
    BY <1>2 DEF stop
  <2>2. /\ client = "started" /\ closing' = 1
        /\ UNCHANGED <<starts, threads_started, threads_stopped, service_instances, threadVars>>
    BY <1>2 DEF stop
  <2>3. client' \in {"closing", "waiting", "stopped"} /\ stop_requested' \in BOOLEAN
    BY <2>1 DEF Requests
  <2>4. TypeInv'
    BY <2>1, <2>2, <2>3, StopType
  <2>5. ConnInv'
    BY <2>2 DEF ConnInv, threadVars
  <2> QED
    BY <2>4, <2>5
<1>3. CASE ClosedServices \/ StopReturns
  <2>1. /\ client \in {"closing", "waiting"} /\ client' = "stopped"
        /\ UNCHANGED <<starts, mode, closing, sharedVars, threadVars>>
    BY <1>3 DEF ClosedServices, StopReturns
  <2>2. mode \in {"none"} \cup StopModes /\ stop_requested \in BOOLEAN
    BY DEF TypeInv, TypeOK
  <2>3. TypeInv'
    BY <1>0, <2>1, <2>2, StopType DEF sharedVars
  <2>4. ConnInv'
    BY <2>1 DEF ConnInv, sharedVars, threadVars
  <2> QED
    BY <2>3, <2>4
<1>4. ASSUME NEW kind \in {"activity", "decision"}, Makes(kind) PROVE TypeInv' /\ ConnInv'
  <2>1. starts > 0
    BY <1>4 DEF Makes, TypeInv, StartInv
  <2>2. TypeInv' /\ (kind \in Kinds => Latest(kind) \in Thread /\ pc[Latest(kind)] = "none")
    BY <1>4, <2>1, MakeType
  <2>3. /\ UNCHANGED <<service_instances, conn>>
        /\ IF kind \in Kinds THEN pc' = [pc EXCEPT ![Latest(kind)] = "create"] ELSE pc' = pc
    BY <1>4 DEF Makes, StartThread, Latest
  <2>0. client' # "closing"
    BY <1>4 DEF Makes
  <2>5. ConnInv'
    <3>1. CASE kind \in Kinds
      <4>1. \A t \in Thread : pc'[t] # pc[t] => pc[t] = "none" /\ pc'[t] = "create"
        BY <1>0, <2>2, <2>3, <3>1
      <4>2. \A i \in 1..Len(service_instances') :
              pc'[service_instances'[i]] \notin {"none", "create"}
        BY <2>3, <4>1, Managed
      <4> QED
        BY <2>0, <2>3, <4>1, <4>2 DEF ConnInv
    <3>2. CASE kind \notin Kinds
      BY <2>0, <2>3, <3>2 DEF ConnInv
    <3> QED
      BY <3>1, <3>2
  <2> QED
    BY <2>2, <2>5
<1>5. CASE StartActivityThread
  BY <1>4, <1>5 DEF StartActivityThread, Makes
<1>6. CASE StartDecisionThread
  BY <1>4, <1>6 DEF StartDecisionThread, Makes
<1>7. CASE CloseService
  <2>1. /\ conn' = [conn EXCEPT ![service_instances[closing]] = "closed"]
        /\ closing <= Len(service_instances) /\ closing' = closing + 1
        /\ UNCHANGED <<starts, client, mode, sharedVars, pc, loaded>>
    BY <1>7 DEF CloseService
  <2>2. conn' \in [Thread -> Conns] /\ closing' \in Nat /\ closing' > 0
    <3>1. conn' \in [Thread -> Conns]
      BY <1>0, <2>1 DEF Conns
    <3>2. closing' = closing + 1
      BY <2>1
    <3> QED
      BY <1>0, <3>1, <3>2
  <2>3. TypeInv'
    BY <2>1, <2>2, ConnType
  <2>4. \A s \in Thread : conn'[s] # conn[s] =>
          conn'[s] = "closed" /\ pc[s] \notin {"none", "create"}
    <3>1. closing > 0 /\ service_instances \in Seq(Thread)
      BY <1>7 DEF CloseService, ConnInv, TypeInv, TypeOK
    <3>2. closing \in 1..Len(service_instances)
      BY <1>0, <2>1, <3>1
    <3>3. pc[service_instances[closing]] \notin {"none", "create"}
      BY <3>2 DEF ConnInv
    <3>4. \A s \in Thread : conn'[s] # conn[s] => s = service_instances[closing] /\ conn'[s] = "closed"
      BY <1>0, <2>1
    <3> QED
      BY <3>3, <3>4
  <2>5. ConnInv'
    <3>1. UNCHANGED <<service_instances, pc>>
      BY <2>1 DEF sharedVars
    <3>2. \A i \in 1..Len(service_instances') :
            pc'[service_instances'[i]] \notin {"none", "create"}
      BY <3>1 DEF ConnInv
    <3>3. /\ \A s \in Thread : pc'[s] \in {"none", "create"} => conn'[s] = "none"
          /\ \A s \in Thread : pc'[s] \in {"load", "store", "ended"} =>
                                 conn'[s] \in {"none", "closed"}
      BY <2>4, <3>1 DEF ConnInv
    <3> QED
      BY <2>2, <3>2, <3>3 DEF ConnInv
  <2> QED
    BY <2>3, <2>5
<1>8. ASSUME NEW t \in Thread, ThreadStep(t) \/ PollsTask(t) PROVE TypeInv' /\ ConnInv'
  <2>1. CASE \E place, c : Moves(t, place, c)
    BY <2>1, MovesType, MovesConn
  <2>2. CASE LoadStopped(t)
    <3>1. /\ pc[t] = "load" /\ pc' = [pc EXCEPT ![t] = "store"]
          /\ UNCHANGED <<service_instances, conn>>
      BY <2>2 DEF LoadStopped, Goto, sharedVars
    <3>2. client' = client /\ closing' = closing
      BY <2>2 DEF LoadStopped, clientVars
    <3>3. \A s \in Thread : pc'[s] # pc[s] => pc[s] = "load" /\ pc'[s] = "store"
      BY <1>0, <3>1
    <3>4. \A i \in 1..Len(service_instances') :
            pc'[service_instances'[i]] \notin {"none", "create"}
      BY <3>1, <3>3, Managed
    <3>5. /\ \A s \in Thread : pc'[s] \in {"none", "create"} => conn'[s] = "none"
          /\ \A s \in Thread : pc'[s] \in {"load", "store", "ended"} =>
                                 conn'[s] \in {"none", "closed"}
      BY <3>1, <3>3 DEF ConnInv
    <3>6. ConnInv'
      BY <3>2, <3>4, <3>5 DEF ConnInv
    <3> QED
      BY <2>2, <3>6, LoadType
  <2>3. CASE StoreStopped(t)
    <3>1. /\ pc[t] = "store" /\ pc' = [pc EXCEPT ![t] = "ended"]
          /\ UNCHANGED <<service_instances, conn>>
      BY <2>3 DEF StoreStopped, Goto
    <3>2. client' = client /\ closing' = closing
      BY <2>3 DEF StoreStopped, clientVars
    <3>3. \A s \in Thread : pc'[s] # pc[s] => pc[s] = "store" /\ pc'[s] = "ended"
      BY <1>0, <3>1
    <3>4. \A i \in 1..Len(service_instances') :
            pc'[service_instances'[i]] \notin {"none", "create"}
      BY <3>1, <3>3, Managed
    <3>5. /\ \A s \in Thread : pc'[s] \in {"none", "create"} => conn'[s] = "none"
          /\ \A s \in Thread : pc'[s] \in {"load", "store", "ended"} =>
                                 conn'[s] \in {"none", "closed"}
      BY <3>1, <3>3 DEF ConnInv
    <3>6. ConnInv'
      BY <3>2, <3>4, <3>5 DEF ConnInv
    <3> QED
      BY <2>3, <3>6, StoreType
  <2> QED
    BY <1>8, <2>1, <2>2, <2>3, ThreadMoves
<1>9. ASSUME NEW t \in Thread, Breaks(t) PROVE TypeInv' /\ ConnInv'
  <2>1. /\ conn[t] = "open" /\ conn' = [conn EXCEPT ![t] = "broken"]
        /\ UNCHANGED <<starts, client, mode, closing, sharedVars, pc, loaded>>
    BY <1>9 DEF Breaks, clientVars
  <2>2. conn' \in [Thread -> Conns]
    BY <1>0, <2>1 DEF Conns
  <2>3. TypeInv'
    BY <1>0, <2>1, <2>2, ConnType
  <2>4. ConnInv'
    BY <1>0, <2>1 DEF ConnInv, sharedVars
  <2> QED
    BY <2>3, <2>4
<1>10. CASE UNCHANGED vars
  <2>1. UNCHANGED <<starts, client, mode, closing, sharedVars, pc, conn, loaded>>
    BY <1>10 DEF vars, clientVars, threadVars
  <2>2. TypeInv'
    BY <1>0, <2>1, ConnType
  <2>3. ConnInv'
    BY <2>1 DEF ConnInv, sharedVars
  <2> QED
    BY <2>2, <2>3
<1> QED
  BY <1>1, <1>2, <1>3, <1>5, <1>6, <1>7, <1>8, <1>9, <1>10 DEF Next, ClientStep

\* Variables have their types: above all, threads_stopped counts no thread that has not
\* ended, however additions interleave and however often the worker is started again
\* (worker.py, notify_thread_stopped).
THEOREM TypeCorrect == Spec => []TypeOK
<1>1. Init => TypeInv /\ ConnInv
  <2> SUFFICES ASSUME Init PROVE ConnInv
    BY InitType
  <2> QED
    BY DEF Init, ConnInv
<1>2. TypeInv => TypeOK
  BY DEF TypeInv
<1> QED
  BY <1>1, <1>2, NextType, PTL DEF Spec

-----------------------------------------------------------------------------
(* stop *)

\* What the counts of the latest start say while threads of it go on.
LatestCount ==
  starts > 0 =>
    /\ threads_stopped <= Cardinality(EndedKinds)
    /\ \A kind \in Kinds :
         pc[Latest(kind)] = "store" => loaded[Latest(kind)] <= Cardinality(EndedKinds)

\* The numbers are numbers.
LEMMA Numbers ==
  ASSUME TypeInv
  PROVE  /\ threads_stopped \in Nat /\ \A t \in Thread : loaded[t] \in Nat
         /\ Cardinality(EndedKinds) \in Nat
         /\ starts > 0 => starts \in 1..MaxStarts /\ \A kind \in Kinds : Latest(kind) \in Thread
<1>1. /\ threads_stopped \in 0..Cardinality(Thread) /\ starts \in 0..MaxStarts
      /\ loaded \in [Thread -> 0..Cardinality(Thread)]
  BY DEF TypeInv, TypeOK
<1>2. threads_stopped \in Nat /\ \A t \in Thread : loaded[t] \in Nat
  BY <1>1, Finite
<1>3. Cardinality(EndedKinds) \in Nat
  BY Counted, Finite
<1>4. starts > 0 => starts \in 1..MaxStarts
  BY <1>1, Within
<1>5. starts > 0 => \A kind \in Kinds : Latest(kind) \in Thread
  BY <1>4 DEF Latest, Thread
<1> QED
  BY <1>2, <1>3, <1>4, <1>5

\* Only threads of the latest start take steps.
LEMMA OfLatest ==
  ASSUME TypeInv, StopInv, NEW t \in Thread, pc[t] \notin {"none", "ended"}
  PROVE  t[1] \in Kinds /\ t = Latest(t[1]) /\ starts > 0
<1>1. t[1] \in Kinds /\ t[2] <= starts /\ starts \in Nat /\ t[2] \in Nat /\ t = <<t[1], t[2]>>
  BY Alive
<1>2. ~(t[2] < starts)
  BY DEF StopInv, Over, Ended
<1>3. t[2] = starts /\ t[2] \in 1..MaxStarts
  BY <1>1, <1>2 DEF Thread
<1>4. starts > 0
  BY <1>3, Bound
<1> QED
  BY <1>1, <1>3, <1>4 DEF Latest

\* A step that neither ends the counting nor begins it.
LEMMA CountStays ==
  ASSUME TypeInv, StopInv, UNCHANGED <<starts, threads_stopped, loaded>>,
         \A t \in Thread : pc[t] = "ended" => pc'[t] = "ended",
         \A t \in Thread : pc'[t] = "store" => pc[t] = "store"
  PROVE  LatestCount'
<1> SUFFICES ASSUME starts > 0 PROVE LatestCount'
  BY DEF LatestCount
<1>1. \A kind \in Kinds : Latest(kind)' = Latest(kind) /\ Latest(kind) \in Thread
  BY Numbers DEF Latest
<1>2. /\ Cardinality(EndedKinds') \in Nat
      /\ Cardinality(EndedKinds) <= Cardinality(EndedKinds')
  BY <1>1, GrowKinds, Finite
<1>3. LatestCount
  BY DEF StopInv, LatestCount
<1>4. threads_stopped' <= Cardinality(EndedKinds')
  <2>1. threads_stopped <= Cardinality(EndedKinds) /\ threads_stopped' = threads_stopped
    BY <1>3 DEF LatestCount
  <2> QED
    BY <2>1, <1>2, Numbers
<1>5. ASSUME NEW kind \in Kinds, pc'[Latest(kind)'] = "store"
      PROVE  loaded'[Latest(kind)'] <= Cardinality(EndedKinds')
  <2>1. pc[Latest(kind)] = "store"
    BY <1>1, <1>5
  <2>2. loaded[Latest(kind)] <= Cardinality(EndedKinds)
    BY <1>3, <2>1 DEF LatestCount
  <2>3. loaded'[Latest(kind)'] = loaded[Latest(kind)] /\ loaded[Latest(kind)] \in Nat
    BY <1>1, Numbers
  <2> QED
    BY <1>2, <2>2, <2>3, Numbers
<1> QED
  BY <1>4, <1>5 DEF LatestCount

\* A thread that reads the count has not ended yet.
LEMMA LoadCount ==
  ASSUME TypeInv, StopInv, NEW t \in Thread, LoadStopped(t)
  PROVE  LatestCount'
<1>1. /\ pc[t] = "load" /\ pc' = [pc EXCEPT ![t] = "store"] /\ pc \in [Thread -> Places]
      /\ loaded' = [loaded EXCEPT ![t] = threads_stopped]
      /\ loaded \in [Thread -> 0..Cardinality(Thread)]
      /\ UNCHANGED <<starts, threads_stopped>>
  BY DEF LoadStopped, Goto, clientVars, sharedVars, TypeInv, TypeOK, Places
<1>2. t[1] \in Kinds /\ t = Latest(t[1]) /\ starts > 0
  BY <1>1, OfLatest
<1>3. LatestCount
  BY DEF StopInv, LatestCount
<1>4. \A kind \in Kinds : Latest(kind)' = Latest(kind) /\ Latest(kind) \in Thread
  BY <1>1, <1>2, Numbers DEF Latest
<1>5. EndedKinds' = EndedKinds
  BY <1>1, <1>4 DEF EndedKinds
<1>6. ASSUME NEW kind \in Kinds, pc'[Latest(kind)] = "store"
      PROVE  loaded'[Latest(kind)] <= Cardinality(EndedKinds)
  <2>1. CASE Latest(kind) = t
    BY <1>1, <1>2, <1>3, <2>1 DEF LatestCount
  <2>2. CASE Latest(kind) # t
    BY <1>1, <1>2, <1>3, <1>4, <1>6, <2>2 DEF LatestCount
  <2> QED
    BY <2>1, <2>2
<1> QED
  BY <1>1, <1>2, <1>3, <1>4, <1>5, <1>6 DEF LatestCount

\* The thread that adds one to what it has read ends with it.
LEMMA StoreCount ==
  ASSUME TypeInv, StopInv, NEW t \in Thread, StoreStopped(t)
  PROVE  LatestCount'
<1>1. /\ pc[t] = "store" /\ pc' = [pc EXCEPT ![t] = "ended"] /\ pc \in [Thread -> Places]
      /\ threads_stopped' = loaded[t] + 1
      /\ UNCHANGED <<starts, loaded>>
  BY DEF StoreStopped, Goto, clientVars, TypeInv, TypeOK, Places
<1>2. t[1] \in Kinds /\ t = Latest(t[1]) /\ starts > 0
  BY <1>1, OfLatest
<1>3. LatestCount
  BY DEF StopInv, LatestCount
<1>4. \A kind \in Kinds : Latest(kind)' = Latest(kind) /\ Latest(kind) \in Thread
  BY <1>1, <1>2, Numbers DEF Latest
<1>5. Cardinality(EndedKinds') = Cardinality(EndedKinds) + 1
  <2>1. \A kind \in Kinds : Latest(kind) = t <=> kind = t[1]
    BY <1>2 DEF Latest
  <2>2. EndedKinds' = EndedKinds \cup {t[1]} /\ t[1] \notin EndedKinds
    BY <1>1, <1>2, <1>4, <2>1 DEF EndedKinds
  <2> QED
    BY <2>2, Counted, FS_AddElement
<1>6. \A kind \in Kinds : pc[Latest(kind)] = "store" =>
        loaded[Latest(kind)] <= Cardinality(EndedKinds) /\ loaded[Latest(kind)] \in Nat
  BY <1>2, <1>3, <1>4, Numbers DEF LatestCount
<1>7. loaded[t] <= Cardinality(EndedKinds) /\ loaded[t] \in Nat
  BY <1>1, <1>2, <1>6
<1>8. threads_stopped' <= Cardinality(EndedKinds')
  BY <1>1, <1>5, <1>7, Numbers
<1>9. ASSUME NEW kind \in Kinds, pc'[Latest(kind)] = "store"
      PROVE  loaded'[Latest(kind)] <= Cardinality(EndedKinds')
  <2>1. pc[Latest(kind)] = "store" /\ loaded' = loaded
    BY <1>1, <1>4, <1>9
  <2>2. loaded[Latest(kind)] <= Cardinality(EndedKinds) /\ loaded[Latest(kind)] \in Nat
    BY <1>6, <2>1
  <2> QED
    BY <1>5, <2>1, <2>2, Numbers
<1> QED
  BY <1>4, <1>8, <1>9 DEF LatestCount

\* A step of a thread of the latest start leaves those of earlier starts alone.
LEMMA ThreadStop ==
  ASSUME TypeInv, StopInv, StopMeansStopped, NEW t \in Thread, pc[t] \notin {"none", "ended"},
         \A s \in Thread : s # t => pc'[s] = pc[s] /\ conn'[s] = conn[s],
         UNCHANGED <<starts, client, mode>>, LatestCount'
  PROVE  StopInv' /\ StopMeansStopped'
<1>1. t = Latest(t[1]) /\ starts > 0
  BY OfLatest
<1>2. starts' = starts /\ client' = client /\ mode' = mode /\ starts \in Nat
  BY <1>1, Numbers, Bound
<1>3. \A s \in Thread : s[2] < starts => s # t
  BY <1>1, <1>2 DEF Latest
<1>4. \A s \in Thread : s[2] < starts => Over(s)'
  BY <1>3 DEF StopInv, Over, Ended
<1>5. StopInv'
  BY <1>2, <1>4 DEF StopInv, LatestCount
<1>6. ~(client = "stopped" /\ mode = "foreground")
  BY DEF StopMeansStopped, Ended
<1>7. StopMeansStopped'
  BY <1>2, <1>6 DEF StopMeansStopped
<1> QED
  BY <1>5, <1>7

\* stop returns when as many threads have ended as were started: all of the latest start.
LEMMA StopReturnsStopped ==
  ASSUME TypeInv, ConnInv, StopInv, StopReturns
  PROVE  StopMeansStopped'
<1>1. /\ client = "waiting" /\ threads_stopped = threads_started
      /\ UNCHANGED <<pc, conn>>
  BY DEF StopReturns, AllStopped, threadVars
<1>2. starts > 0 /\ threads_started = Cardinality(Kinds)
  BY <1>1, Making DEF TypeInv, StartInv
<1>3. Cardinality(Kinds) <= Cardinality(EndedKinds)
  BY <1>1, <1>2 DEF StopInv, LatestCount
<1>4. EndedKinds = Kinds
  <2>1. Cardinality(EndedKinds) = Cardinality(Kinds)
    BY <1>3, Counted, Finite
  <2> QED
    BY <2>1, Counted
<1>5. ASSUME NEW t \in Thread PROVE Over(t)
  <2>1. t[1] \in Kinds /\ t[2] \in 1..MaxStarts /\ t = <<t[1], t[2]>> /\ starts \in 1..MaxStarts
    BY <1>2, Numbers DEF Thread
  <2>2. CASE t[2] < starts
    BY <2>2 DEF StopInv
  <2>3. CASE t[2] > starts
    <3>1. pc[t] = "none"
      BY <2>3 DEF TypeInv, StartInv
    <3> QED
      BY <3>1 DEF Over, Ended, ConnInv
  <2>4. CASE t[2] = starts
    <3>1. pc[t] = "ended"
      BY <1>4, <2>1, <2>4 DEF EndedKinds, Latest
    <3> QED
      BY <3>1 DEF Over, Ended, ConnInv
  <2>5. t[2] < starts \/ t[2] > starts \/ t[2] = starts
    BY <2>1, Bound
  <2> QED
    BY <2>2, <2>3, <2>4, <2>5
<1> QED
  BY <1>1, <1>5 DEF StopMeansStopped, Over, Ended

\* The client's own steps; a start after a stop in the foreground finds all threads over.
LEMMA ClientStop ==
  ASSUME TypeInv, ConnInv, StopInv, StopMeansStopped, "background" \notin RestartsAfter,
         start \/ stop \/ ClientStep
  PROVE  StopInv' /\ StopMeansStopped'
<1>0. pc \in [Thread -> Places] /\ conn \in [Thread -> Conns]
  BY DEF TypeInv, TypeOK, Places, Conns
<1>1. CASE start
  <2>1. /\ client' = "start activity" /\ starts' = starts + 1 /\ threads_stopped' = 0
        /\ UNCHANGED <<pc, conn, loaded>>
    BY <1>1 DEF start, Reset, threadVars
  <2>2. starts' \in 1..MaxStarts /\ TypeInv'
    BY <1>1, StartType
  <2>3. client = "idle" \/ (client = "stopped" /\ mode = "foreground")
    BY <1>1, WorkerAssumption DEF start
  <2>4. ASSUME NEW t \in Thread, t[2] < starts' PROVE Over(t)
    <3>1. CASE client = "idle"
      <4>1. t[2] \in 1..MaxStarts
        BY DEF Thread
      <4>2. starts = 0
        BY <3>1 DEF StopInv
      <4>3. starts' = 1
        <5>1. starts' = 0 + 1
          BY <2>1, <4>2, Zenon
        <5>2. 0 + 1 = 1
          OBVIOUS
        <5> QED
          BY <5>1, <5>2, Zenon
      <4>4. t[2] < 1
        BY <2>4, <4>3
      <4> QED
        BY <4>1, <4>4, Bound
    <3>2. CASE client = "stopped" /\ mode = "foreground"
      BY <3>2 DEF StopMeansStopped, Over
    <3> QED
      BY <2>3, <3>1, <3>2
  <2>5. \A t \in Thread : t[2] < starts' => Over(t)'
    BY <2>1, <2>4 DEF Over, Ended
  <2>6. LatestCount'
    <3>1. \A kind \in Kinds : pc'[Latest(kind)'] = "none"
      BY <2>1, <2>2, Making DEF TypeInv, StartInv
    <3>2. EndedKinds' = {} /\ Cardinality({}) = 0
      BY <3>1, Making DEF EndedKinds
    <3>3. threads_stopped' <= Cardinality(EndedKinds')
      <4>1. threads_stopped' = 0 /\ Cardinality(EndedKinds') = 0
        BY <2>1, <3>2
      <4> QED
        BY <4>1
    <3> QED
      BY <3>1, <3>3 DEF LatestCount
  <2> QED
    BY <2>1, <2>5, <2>6 DEF StopInv, StopMeansStopped, LatestCount
<1>2. ASSUME UNCHANGED <<starts, threads_stopped, pc, loaded>>,
             \A t \in Thread : conn'[t] # conn[t] => conn'[t] = "closed",
             client' \in {"closing", "waiting", "stopped"},
             client' = "waiting" => mode' = "foreground",
             client' = "closing" => mode' = "background"
      PROVE  StopInv'
  <2>1. LatestCount'
    BY <1>2, CountStays
  <2>2. \A t \in Thread : t[2] < starts' => Over(t)'
    BY <1>2 DEF StopInv, Over, Ended
  <2> QED
    BY <1>2, <2>1, <2>2 DEF StopInv, LatestCount
<1>3. CASE stop
  <2>1. PICK m \in StopModes : mode' = m
                               /\ client' = IF m = "background" THEN "closing" ELSE "waiting"
    BY <1>3 DEF stop
  <2>2. /\ client' \in {"closing", "waiting"}
        /\ client' = "waiting" => mode' = "foreground"
        /\ client' = "closing" => mode' = "background"
    BY <2>1, WorkerAssumption
  <2>3. UNCHANGED <<starts, threads_stopped, pc, conn, loaded>>
    BY <1>3 DEF stop, threadVars
  <2>4. StopMeansStopped'
    BY <2>2 DEF StopMeansStopped
  <2> QED
    BY <1>2, <2>2, <2>3, <2>4
<1>4. CASE CloseService
  <2>1. /\ client = "closing" /\ conn' = [conn EXCEPT ![service_instances[closing]] = "closed"]
        /\ UNCHANGED <<starts, client, mode, threads_stopped, pc, loaded>>
    BY <1>4 DEF CloseService, sharedVars
  <2>2. \A t \in Thread : conn'[t] # conn[t] => conn'[t] = "closed"
    BY <1>0, <2>1
  <2>3. StopMeansStopped'
    BY <2>1 DEF StopMeansStopped
  <2> QED
    BY <1>2, <2>1, <2>2, <2>3 DEF StopInv
<1>5. CASE ClosedServices
  <2>1. /\ client = "closing" /\ client' = "stopped"
        /\ UNCHANGED <<starts, mode, threads_stopped, pc, conn, loaded>>
    BY <1>5 DEF ClosedServices, sharedVars, threadVars
  <2>2. StopMeansStopped'
    BY <2>1 DEF StopInv, StopMeansStopped
  <2> QED
    BY <1>2, <2>1, <2>2
<1>6. CASE StopReturns
  <2>1. client' = "stopped" /\ UNCHANGED <<starts, mode, threads_stopped, pc, conn, loaded>>
    BY <1>6 DEF StopReturns, sharedVars, threadVars
  <2> QED
    BY <1>2, <1>6, <2>1, StopReturnsStopped
<1>7. ASSUME NEW kind \in {"activity", "decision"}, Makes(kind) PROVE StopInv' /\ StopMeansStopped'
  <2>1. starts > 0
    BY <1>7 DEF Makes, TypeInv, StartInv
  <2>2. kind \in Kinds => Latest(kind) \in Thread /\ pc[Latest(kind)] = "none"
    BY <1>7, <2>1, MakeType
  <2>3. /\ UNCHANGED <<starts, threads_stopped, conn, loaded>>
        /\ client' \in {"start decision", "started"}
        /\ IF kind \in Kinds THEN pc' = [pc EXCEPT ![Latest(kind)] = "create"] ELSE pc' = pc
    BY <1>7 DEF Makes, StartThread, Latest
  <2>4. \A t \in Thread : pc'[t] = pc[t] \/ (pc[t] = "none" /\ pc'[t] = "create" /\ t[2] = starts)
    <3>1. Latest(kind)[2] = starts
      BY DEF Latest
    <3>2. CASE kind \in Kinds
      BY <1>0, <2>2, <2>3, <3>1, <3>2
    <3>3. CASE kind \notin Kinds
      BY <2>3, <3>3
    <3> QED
      BY <3>2, <3>3
  <2>5. LatestCount'
    BY <2>3, <2>4, CountStays
  <2>6. starts \in 1..MaxStarts
    BY <2>1, Numbers
  <2>7. \A t \in Thread : t[2] < starts => t[2] # starts
    BY <2>6, Bound DEF Thread
  <2>8. \A t \in Thread : t[2] < starts' => Over(t)'
    BY <2>3, <2>4, <2>7 DEF StopInv, Over, Ended
  <2> QED
    BY <2>3, <2>5, <2>8 DEF StopInv, StopMeansStopped, LatestCount
<1>8. CASE StartActivityThread
  BY <1>7, <1>8 DEF StartActivityThread, Makes
<1>9. CASE StartDecisionThread
  BY <1>7, <1>9 DEF StartDecisionThread, Makes
<1> QED
  BY <1>1, <1>3, <1>4, <1>5, <1>6, <1>8, <1>9 DEF ClientStep

\* Every step keeps what is known of the threads that are over.
LEMMA NextStop ==
  ASSUME "background" \notin RestartsAfter
  PROVE  TypeInv /\ ConnInv /\ StopInv /\ StopMeansStopped /\ [Next]_vars =>
           StopInv' /\ StopMeansStopped'
<1> SUFFICES ASSUME TypeInv, ConnInv, StopInv, StopMeansStopped, [Next]_vars
             PROVE  StopInv' /\ StopMeansStopped'
  OBVIOUS
<1>0. pc \in [Thread -> Places] /\ conn \in [Thread -> Conns]
  BY DEF TypeInv, TypeOK, Places, Conns
<1>1. CASE start \/ stop \/ ClientStep
  BY <1>1, ClientStop
<1>2. ASSUME NEW t \in Thread, ThreadStep(t) \/ PollsTask(t) PROVE StopInv' /\ StopMeansStopped'
  <2>1. CASE \E place, c : Moves(t, place, c)
    <3>1. PICK place, c : Moves(t, place, c)
      BY <2>1
    <3>2. /\ pc[t] \notin {"none", "ended"} /\ place # "store"
          /\ pc' = [pc EXCEPT ![t] = place] /\ conn' = [conn EXCEPT ![t] = c]
          /\ UNCHANGED <<starts, client, mode, threads_stopped, loaded>>
      BY <3>1, Zenon DEF Moves, clientVars
    <3>3. \A s \in Thread : s # t => pc'[s] = pc[s] /\ conn'[s] = conn[s]
      BY <1>0, <3>2
    <3>4. LatestCount'
      <4>1. \A s \in Thread : pc[s] = "ended" => pc'[s] = "ended"
        BY <1>0, <3>2
      <4>2. \A s \in Thread : pc'[s] = "store" => pc[s] = "store"
        BY <1>0, <3>2
      <4> QED
        BY <3>2, <4>1, <4>2, CountStays
    <3> QED
      BY <3>2, <3>3, <3>4, ThreadStop
  <2>2. CASE LoadStopped(t)
    <3>1. /\ pc[t] = "load" /\ pc' = [pc EXCEPT ![t] = "store"]
          /\ UNCHANGED <<starts, client, mode, conn>>
      BY <2>2 DEF LoadStopped, Goto, clientVars
    <3>2. \A s \in Thread : s # t => pc'[s] = pc[s] /\ conn'[s] = conn[s]
      BY <1>0, <3>1
    <3> QED
      BY <2>2, <3>1, <3>2, LoadCount, ThreadStop
  <2>3. CASE StoreStopped(t)
    <3>1. /\ pc[t] = "store" /\ pc' = [pc EXCEPT ![t] = "ended"]
          /\ UNCHANGED <<starts, client, mode, conn>>
      BY <2>3 DEF StoreStopped, Goto, clientVars
    <3>2. \A s \in Thread : s # t => pc'[s] = pc[s] /\ conn'[s] = conn[s]
      BY <1>0, <3>1
    <3> QED
      BY <2>3, <3>1, <3>2, StoreCount, ThreadStop
  <2> QED
    BY <1>2, <2>1, <2>2, <2>3, ThreadMoves
<1>3. ASSUME NEW t \in Thread, Breaks(t) PROVE StopInv' /\ StopMeansStopped'
  <2>1. /\ conn[t] = "open" /\ conn' = [conn EXCEPT ![t] = "broken"]
        /\ UNCHANGED <<starts, client, mode, threads_stopped, pc, loaded>>
    BY <1>3 DEF Breaks, clientVars, sharedVars
  <2>2. pc[t] \notin {"none", "ended"}
    BY <2>1 DEF ConnInv
  <2>3. \A s \in Thread : s # t => pc'[s] = pc[s] /\ conn'[s] = conn[s]
    BY <1>0, <2>1
  <2>4. LatestCount'
    BY <2>1, CountStays
  <2> QED
    BY <2>1, <2>2, <2>3, <2>4, ThreadStop
<1>4. CASE UNCHANGED vars
  <2>1. UNCHANGED <<starts, client, mode, threads_stopped, pc, conn, loaded>>
    BY <1>4 DEF vars, clientVars, sharedVars, threadVars
  <2>2. LatestCount'
    BY <2>1, CountStays
  <2> QED
    BY <2>1, <2>2 DEF StopInv, StopMeansStopped, LatestCount, Over, Ended
<1> QED
  BY <1>1, <1>2, <1>3, <1>4 DEF Next

\* When a stop in the foreground returns, no thread runs any more and no connection is open,
\* also when additions to threads_stopped get lost; provided that the client starts the
\* worker again only after such a stop (worker.py, start and stop).
THEOREM StopsWhenItReturns ==
  ASSUME "background" \notin RestartsAfter
  PROVE  Spec => []StopMeansStopped
<1>1. Init => TypeInv /\ ConnInv /\ StopInv /\ StopMeansStopped
  <2> SUFFICES ASSUME Init PROVE ConnInv /\ StopInv /\ StopMeansStopped
    BY InitType
  <2>1. starts = 0 /\ client = "idle"
    BY DEF Init
  <2>2. ConnInv
    BY DEF Init, ConnInv
  <2>3. \A t \in Thread : ~(t[2] < 0)
    BY Bound DEF Thread
  <2> QED
    BY <2>1, <2>2, <2>3 DEF StopInv, StopMeansStopped
<1> QED
  BY <1>1, NextType, NextStop, PTL DEF Spec
=============================================================================
