------------------------ MODULE ReplayDeciderProofs -------------------------
(***************************************************************************)
(* Proofs about ReplayDecider, for every program, any number of tasks,     *)
(* decisions, signals, timeouts, crashes and queries.                      *)
(***************************************************************************)
EXTENDS ReplayDecider, TLAPS, SequenceTheorems, FiniteSetTheorems, WellFoundedInduction

-----------------------------------------------------------------------------
(* Sequences *)

\* A sequence of whatever it holds.
IsSequence(s) == s \in Seq(ToSet(s))

NoRepeats(s) == \A i, j \in DOMAIN s : s[i] = s[j] => i = j

\* What being a sequence means.
LEMMA SequenceIs ==
  ASSUME NEW s, IsSequence(s)
  PROVE  /\ Len(s) \in Nat
         /\ DOMAIN s = 1..Len(s)
         /\ \A i \in 1..Len(s) : s[i] \in ToSet(s)
<1>1. Len(s) \in Nat /\ DOMAIN s = 1..Len(s)
  BY LenProperties DEF IsSequence
<1> QED BY <1>1 DEF ToSet

\* A sequence over any set is one.
LEMMA SequenceOver ==
  ASSUME NEW S, NEW s \in Seq(S)
  PROVE  IsSequence(s)
<1>1. Len(s) \in Nat /\ s \in [1..Len(s) -> S]
  BY LenProperties
<1>2. s \in [1..Len(s) -> ToSet(s)]
  BY <1>1 DEF ToSet
<1>3. s \in Seq(ToSet(s))
  BY <1>1, <1>2, SeqDef
<1> QED BY <1>3 DEF IsSequence

\* A sequence is one over every set that holds its elements.
LEMMA SequenceType ==
  ASSUME NEW S, NEW s, IsSequence(s), \A i \in DOMAIN s : s[i] \in S
  PROVE  s \in Seq(S)
<1>1. Len(s) \in Nat /\ s \in [1..Len(s) -> ToSet(s)]
  BY LenProperties DEF IsSequence
<1>2. s \in [1..Len(s) -> S]
  BY <1>1
<1> QED BY <1>1, <1>2, SeqDef

\* A function on 1..n is a sequence.
LEMMA SequenceMade ==
  ASSUME NEW n \in Nat, NEW s, s = [i \in 1..n |-> s[i]]
  PROVE  IsSequence(s) /\ Len(s) = n /\ DOMAIN s = 1..n
<1>1. s \in [1..n -> ToSet(s)]
  BY DEF ToSet
<1>2. s \in Seq(ToSet(s))
  BY <1>1, SeqDef
<1>3. Len(s) = n
  BY <1>1, <1>2, LenProperties
<1> QED BY <1>1, <1>2, <1>3 DEF IsSequence

\* The empty sequence is a sequence without places.
LEMMA EmptySequence == IsSequence(<<>>) /\ Len(<<>>) = 0 /\ DOMAIN <<>> = {}
<1>1. <<>> \in Seq({})
  OBVIOUS
<1>2. IsSequence(<<>>)
  BY <1>1, SequenceOver
<1>3. Len(<<>>) = 0 /\ DOMAIN <<>> = {}
  OBVIOUS
<1> QED BY <1>2, <1>3

\* What Append makes of a sequence.
LEMMA SequenceAppend ==
  ASSUME NEW s, IsSequence(s), NEW e
  PROVE  /\ IsSequence(Append(s, e))
         /\ Len(Append(s, e)) = Len(s) + 1
         /\ DOMAIN Append(s, e) = DOMAIN s \cup {Len(s) + 1}
         /\ \A i \in DOMAIN s : Append(s, e)[i] = s[i]
         /\ Append(s, e)[Len(s) + 1] = e
         /\ ToSet(Append(s, e)) = ToSet(s) \cup {e}
<1> DEFINE S == ToSet(s) \cup {e}
           a == Append(s, e)
<1>1. s \in Seq(S) /\ e \in S
  <2>1. \A i \in DOMAIN s : s[i] \in S
    BY DEF ToSet
  <2> HIDE DEF S
  <2>2. s \in Seq(S)
    BY <2>1, SequenceType
  <2> QED BY <2>2 DEF S
<1>2. Len(s) \in Nat /\ DOMAIN s = 1..Len(s)
  BY SequenceIs
<1>3. /\ a \in Seq(S) /\ Len(a) = Len(s) + 1
      /\ \A i \in 1..Len(s) : a[i] = s[i]
      /\ a[Len(s) + 1] = e
  <2> HIDE DEF S
  <2> QED BY <1>1, AppendProperties
<1>4. IsSequence(a) /\ DOMAIN a = 1..(Len(s) + 1)
  <2> HIDE DEF S
  <2>1. IsSequence(a)
    BY <1>3, SequenceOver
  <2> QED BY <2>1, <1>3, SequenceIs
<1>5. 1..(Len(s) + 1) = 1..Len(s) \cup {Len(s) + 1}
  BY <1>2
<1>6. ToSet(a) = ToSet(s) \cup {e}
  <2> HIDE DEF a
  <2> QED BY <1>2, <1>3, <1>4, <1>5 DEF ToSet
<1> QED BY <1>2, <1>3, <1>4, <1>5, <1>6

\* What a concatenation makes of two sequences.
LEMMA SequenceConcat ==
  ASSUME NEW s, NEW t, IsSequence(s), IsSequence(t)
  PROVE  /\ IsSequence(s \o t)
         /\ Len(s \o t) = Len(s) + Len(t)
         /\ \A i \in 1..Len(s) : (s \o t)[i] = s[i]
         /\ \A i \in 1..Len(t) : (s \o t)[Len(s) + i] = t[i]
         /\ ToSet(s \o t) = ToSet(s) \cup ToSet(t)
<1> DEFINE S == ToSet(s) \cup ToSet(t)
           c == s \o t
<1>1. s \in Seq(S) /\ t \in Seq(S)
  <2>1. (\A i \in DOMAIN s : s[i] \in S) /\ (\A i \in DOMAIN t : t[i] \in S)
    BY DEF ToSet
  <2> HIDE DEF S
  <2> QED BY <2>1, SequenceType
<1>2. Len(s) \in Nat /\ DOMAIN s = 1..Len(s) /\ Len(t) \in Nat /\ DOMAIN t = 1..Len(t)
  BY SequenceIs
<1>3. /\ c \in Seq(S) /\ Len(c) = Len(s) + Len(t)
      /\ \A i \in 1..(Len(s) + Len(t)) : c[i] = IF i <= Len(s) THEN s[i] ELSE t[i - Len(s)]
  <2> HIDE DEF S
  <2>1. c \in Seq(S) /\ Len(c) = Len(s) + Len(t)
    BY <1>1, ConcatProperties
  <2>2. \A i \in 1..(Len(s) + Len(t)) : c[i] = IF i <= Len(s) THEN s[i] ELSE t[i - Len(s)]
    BY <1>1, ConcatProperties
  <2> QED BY <2>1, <2>2
<1>4. IsSequence(c) /\ DOMAIN c = 1..(Len(s) + Len(t))
  <2> HIDE DEF S
  <2>1. IsSequence(c)
    BY <1>3, SequenceOver
  <2> HIDE DEF c
  <2> QED BY <2>1, <1>3, SequenceIs
<1> HIDE DEF c, S
<1>5. \A i \in 1..Len(s) : c[i] = s[i]
  BY <1>2, <1>3
<1>6. \A i \in 1..Len(t) : c[Len(s) + i] = t[i]
  BY <1>2, <1>3
<1>7. ToSet(c) \subseteq ToSet(s) \cup ToSet(t)
  <2> SUFFICES ASSUME NEW i \in 1..(Len(s) + Len(t)) PROVE c[i] \in ToSet(s) \cup ToSet(t)
    BY <1>4 DEF ToSet
  <2>1. CASE i <= Len(s)
    BY <2>1, <1>2, <1>3 DEF ToSet
  <2>2. CASE ~(i <= Len(s))
    <3>1. i - Len(s) \in 1..Len(t)
      BY <2>2, <1>2
    <3> QED BY <3>1, <2>2, <1>2, <1>3 DEF ToSet
  <2> QED BY <2>1, <2>2
<1>8. ToSet(s) \cup ToSet(t) \subseteq ToSet(c)
  <2>1. ASSUME NEW i \in 1..Len(s) PROVE s[i] \in ToSet(c)
    BY <1>2, <1>4, <1>5 DEF ToSet
  <2>2. ASSUME NEW i \in 1..Len(t) PROVE t[i] \in ToSet(c)
    <3>1. Len(s) + i \in 1..(Len(s) + Len(t))
      BY <1>2
    <3> QED BY <3>1, <1>4, <1>6 DEF ToSet
  <2> QED BY <2>1, <2>2, <1>2 DEF ToSet
<1> QED BY <1>3, <1>4, <1>5, <1>6, <1>7, <1>8 DEF c

\* g is the sequence f but for its element at k.
Replaced(f, g, k, e) ==
  /\ IsSequence(g)
  /\ DOMAIN g = DOMAIN f
  /\ g[k] = e
  /\ \A i \in DOMAIN f : i # k => g[i] = f[i]

\* What EXCEPT makes of a sequence.
LEMMA SequenceExcept ==
  ASSUME NEW f, IsSequence(f), NEW k \in DOMAIN f, NEW e
  PROVE  Replaced(f, [f EXCEPT ![k] = e], k, e)
<1> DEFINE g == [f EXCEPT ![k] = e]
<1>1. Len(f) \in Nat /\ DOMAIN f = 1..Len(f)
  BY SequenceIs
<1>2. DOMAIN g = DOMAIN f /\ g[k] = e /\ \A i \in DOMAIN f : i # k => g[i] = f[i]
  OBVIOUS
<1>3. g = [i \in 1..Len(f) |-> g[i]]
  BY <1>1
<1> HIDE DEF g
<1>4. IsSequence(g)
  BY <1>1, <1>3, SequenceMade
<1>5. Replaced(f, g, k, e)
  BY <1>2, <1>4, Zenon DEF Replaced
<1> QED BY <1>5 DEF g

\* One more element that is new repeats none.
LEMMA AppendRepeats ==
  ASSUME NEW s, IsSequence(s), NoRepeats(s), NEW e, e \notin ToSet(s)
  PROVE  NoRepeats(Append(s, e))
<1> DEFINE a == Append(s, e)
<1>1. Len(s) \in Nat /\ DOMAIN s = 1..Len(s) /\ \A i \in 1..Len(s) : s[i] \in ToSet(s)
  BY SequenceIs
<1>2. /\ DOMAIN a = DOMAIN s \cup {Len(s) + 1}
      /\ \A i \in DOMAIN s : a[i] = s[i]
      /\ a[Len(s) + 1] = e
  BY SequenceAppend
<1> HIDE DEF a
<1>3. NoRepeats(a)
  BY <1>1, <1>2 DEF NoRepeats
<1> QED BY <1>3 DEF a

\* Sequences that have nothing in common repeat nothing together.
LEMMA ConcatRepeats ==
  ASSUME NEW s, NEW t, IsSequence(s), IsSequence(t), NoRepeats(s), NoRepeats(t),
         ToSet(s) \cap ToSet(t) = {}
  PROVE  NoRepeats(s \o t)
<1> DEFINE c == s \o t
<1>1. /\ Len(s) \in Nat /\ DOMAIN s = 1..Len(s) /\ \A i \in 1..Len(s) : s[i] \in ToSet(s)
      /\ Len(t) \in Nat /\ DOMAIN t = 1..Len(t) /\ \A i \in 1..Len(t) : t[i] \in ToSet(t)
  BY SequenceIs
<1>2. /\ Len(c) = Len(s) + Len(t)
      /\ \A i \in 1..Len(s) : c[i] = s[i]
      /\ \A i \in 1..Len(t) : c[Len(s) + i] = t[i]
      /\ IsSequence(c)
  BY SequenceConcat
<1> HIDE DEF c
<1>3. DOMAIN c = 1..(Len(s) + Len(t))
  BY <1>2, SequenceIs
<1>4. \A i \in 1..(Len(s) + Len(t)) :
        \/ i \in 1..Len(s) /\ c[i] = s[i]
        \/ i - Len(s) \in 1..Len(t) /\ c[i] = t[i - Len(s)]
  <2> SUFFICES ASSUME NEW i \in 1..(Len(s) + Len(t)), ~(i <= Len(s))
               PROVE  i - Len(s) \in 1..Len(t) /\ c[i] = t[i - Len(s)]
    BY <1>1, <1>2
  <2>1. i - Len(s) \in 1..Len(t) /\ Len(s) + (i - Len(s)) = i
    BY <1>1
  <2> QED BY <2>1, <1>2
<1>5. ASSUME NEW i \in DOMAIN c, NEW j \in DOMAIN c, c[i] = c[j]
      PROVE  i = j
  <2>1. CASE i \in 1..Len(s) /\ c[i] = s[i] /\ j \in 1..Len(s) /\ c[j] = s[j]
    BY <2>1, <1>1, <1>5 DEF NoRepeats
  <2>2. CASE /\ i - Len(s) \in 1..Len(t) /\ c[i] = t[i - Len(s)]
             /\ j - Len(s) \in 1..Len(t) /\ c[j] = t[j - Len(s)]
    <3>1. i - Len(s) = j - Len(s)
      BY <2>2, <1>1, <1>5 DEF NoRepeats
    <3> QED BY <3>1, <1>1, <1>3
  <2>3. CASE i \in 1..Len(s) /\ c[i] = s[i] /\ j - Len(s) \in 1..Len(t) /\ c[j] = t[j - Len(s)]
    BY <2>3, <1>1, <1>5
  <2>4. CASE j \in 1..Len(s) /\ c[j] = s[j] /\ i - Len(s) \in 1..Len(t) /\ c[i] = t[i - Len(s)]
    BY <2>4, <1>1, <1>5
  <2> QED BY <2>1, <2>2, <2>3, <2>4, <1>3, <1>4
<1>6. NoRepeats(c)
  BY <1>5 DEF NoRepeats
<1> QED BY <1>6 DEF c

\* The first element of a sequence, and the others.
LEMMA SequenceTail ==
  ASSUME NEW s, IsSequence(s), Len(s) > 0
  PROVE  /\ Head(s) \in ToSet(s)
         /\ IsSequence(Tail(s))
         /\ Len(Tail(s)) = Len(s) - 1
         /\ ToSet(Tail(s)) \subseteq ToSet(s)
         /\ NoRepeats(s) => NoRepeats(Tail(s)) /\ Head(s) \notin ToSet(Tail(s))
<1> DEFINE t == Tail(s)
<1>1. Len(s) \in Nat /\ DOMAIN s = 1..Len(s) /\ \A i \in 1..Len(s) : s[i] \in ToSet(s)
  BY SequenceIs
<1>2. s \in Seq(ToSet(s)) /\ s # <<>>
  BY <1>1, EmptySequence DEF IsSequence
<1>3. /\ Head(s) = s[1] /\ t \in Seq(ToSet(s)) /\ Len(t) = Len(s) - 1
      /\ \A i \in 1..Len(t) : t[i] = s[i + 1]
  BY <1>2, HeadTailProperties
<1> HIDE DEF t
<1>4. IsSequence(t) /\ DOMAIN t = 1..(Len(s) - 1)
  <2>1. IsSequence(t)
    BY <1>3, SequenceOver
  <2> QED BY <2>1, <1>3, SequenceIs
<1>5. \A i \in 1..(Len(s) - 1) : i + 1 \in 1..Len(s) /\ i + 1 # 1 /\ t[i] = s[i + 1]
  BY <1>1, <1>3
<1>6. ToSet(t) \subseteq ToSet(s)
  BY <1>1, <1>4, <1>5 DEF ToSet
<1>7. 1 \in 1..Len(s)
  BY <1>1
<1>8. ASSUME NoRepeats(s) PROVE NoRepeats(t) /\ Head(s) \notin ToSet(t)
  <2>1. NoRepeats(t)
    BY <1>1, <1>4, <1>5, <1>8 DEF NoRepeats
  <2>2. Head(s) \notin ToSet(t)
    <3> SUFFICES ASSUME NEW i \in 1..(Len(s) - 1), t[i] = s[1] PROVE FALSE
      BY <1>3, <1>4 DEF ToSet
    <3> QED BY <1>1, <1>5, <1>7, <1>8 DEF NoRepeats
  <2> QED BY <2>1, <2>2
<1> QED BY <1>1, <1>3, <1>4, <1>6, <1>7, <1>8 DEF t

\* A set of natural numbers that is not empty has a least element.
LEMMA LeastNumber ==
  ASSUME NEW T \in SUBSET Nat, T # {}
  PROVE  \E n \in T : \A m \in T : n <= m
<1> DEFINE R == OpToRel(<, Nat)
<1>1. PICK n \in T : \A m \in T : ~ (<<m, n>> \in R)
  <2>1. IsWellFoundedOn(R, Nat)
    BY NatLessThanWellFounded
  <2> HIDE DEF R
  <2> QED BY <2>1, WFMin
<1>2. R = {pair \in Nat \X Nat : pair[1] < pair[2]}
  BY Zenon DEF OpToRel
<1>3. \A m \in Nat : m < n => <<m, n>> \in {pair \in Nat \X Nat : pair[1] < pair[2]}
  OBVIOUS
<1>4. \A m \in T : ~(m < n)
  <2> HIDE DEF R
  <2> QED BY <1>1, <1>2, <1>3, Zenon
<1> QED BY <1>4

\* The equation of the recursive function in Without.
KeepsUpTo(s, S, n, kept) ==
  kept = [i \in 0..n |->
    IF i = 0 THEN <<>>
    ELSE IF s[i] \in S THEN kept[i - 1] ELSE Append(kept[i - 1], s[i])]

\* The equation holds of some function.
LEMMA KeepsExists ==
  ASSUME NEW s, NEW S, NEW n \in Nat
  PROVE  \E kept : KeepsUpTo(s, S, n, kept)
<1> DEFINE None == {m \in Nat : ~ \E kept : KeepsUpTo(s, S, m, kept)}
<1> SUFFICES ASSUME None # {} PROVE FALSE
  OBVIOUS
<1>1. PICK m \in None : \A k \in None : m <= k
  <2> None \in SUBSET Nat
    OBVIOUS
  <2> HIDE DEF None
  <2> QED BY LeastNumber
<1>2. CASE m = 0
  <2>1. KeepsUpTo(s, S, 0, [i \in 0..0 |-> <<>>])
    BY DEF KeepsUpTo
  <2> QED BY <2>1, <1>1, <1>2
<1>3. CASE m # 0
  <2>1. m - 1 \in Nat /\ m - 1 \notin None
    BY <1>1, <1>3
  <2>2. PICK kept : KeepsUpTo(s, S, m - 1, kept)
    BY <2>1
  <2> DEFINE g == [i \in 0..m |-> IF i < m THEN kept[i]
                                  ELSE IF s[m] \in S THEN kept[m - 1]
                                  ELSE Append(kept[m - 1], s[m])]
  <2>3. \A i \in 0..(m - 1) : kept[i] = IF i = 0 THEN <<>>
           ELSE IF s[i] \in S THEN kept[i - 1] ELSE Append(kept[i - 1], s[i])
    BY <2>2, <2>1 DEF KeepsUpTo
  <2>4. \A i \in 0..m : g[i] = IF i = 0 THEN <<>>
           ELSE IF s[i] \in S THEN g[i - 1] ELSE Append(g[i - 1], s[i])
    BY <2>3, <2>1, <1>3
  <2>5. KeepsUpTo(s, S, m, g)
    BY <2>4 DEF KeepsUpTo
  <2> QED BY <2>5, <1>1
<1> QED BY <1>2, <1>3

\* What is kept of the first n elements.
Kept(s, S, n, k) ==
  /\ IsSequence(k)
  /\ \A e \in ToSet(k) : e \notin S /\ \E i \in 1..n : e = s[i]
  /\ NoRepeats(s) => NoRepeats(k)

\* One more element of s is looked at.
LEMMA KeepsNext ==
  ASSUME NEW s, NEW S, NEW n \in Nat, n + 1 \in DOMAIN s, 1..n \subseteq DOMAIN s,
         NEW k, Kept(s, S, n, k)
  PROVE  Kept(s, S, n + 1, IF s[n + 1] \in S THEN k ELSE Append(k, s[n + 1]))
<1>0. n + 1 \in 1..(n + 1) /\ \A i \in 1..n : i \in 1..(n + 1) /\ i # n + 1
  OBVIOUS
<1>1. CASE s[n + 1] \in S
  <2>1. Kept(s, S, n + 1, k)
    BY <1>0 DEF Kept
  <2> QED BY <2>1, <1>1
<1>2. CASE s[n + 1] \notin S
  <2> DEFINE a == Append(k, s[n + 1])
  <2>1. IsSequence(a) /\ ToSet(a) = ToSet(k) \cup {s[n + 1]}
    BY SequenceAppend DEF Kept
  <2>2. \A e \in ToSet(a) : e \notin S /\ \E i \in 1..(n + 1) : e = s[i]
    BY <2>1, <1>0, <1>2 DEF Kept
  <2>3. ASSUME NoRepeats(s) PROVE NoRepeats(a)
    <3>1. s[n + 1] \notin ToSet(k)
      BY <2>3, <1>0 DEF Kept, NoRepeats
    <3> QED BY <3>1, <2>3, AppendRepeats DEF Kept
  <2> HIDE DEF a
  <2>4. Kept(s, S, n + 1, a)
    BY <2>1, <2>2, <2>3 DEF Kept
  <2> QED BY <2>4, <1>2 DEF a
<1> QED BY <1>1, <1>2

\* Without leaves a sequence of elements that are not in S, and repeats none.
LEMMA WithoutIs ==
  ASSUME NEW s, IsSequence(s), NEW S
  PROVE  /\ IsSequence(Without(s, S))
         /\ ToSet(Without(s, S)) \subseteq ToSet(s) \ S
         /\ NoRepeats(s) => NoRepeats(Without(s, S))
<1> DEFINE n == Len(s)
           kept == CHOOSE kept : KeepsUpTo(s, S, n, kept)
<1>1. n \in Nat /\ DOMAIN s = 1..n /\ \A i \in 1..n : s[i] \in ToSet(s)
  BY SequenceIs
<1>2. KeepsUpTo(s, S, n, kept)
  <2>1. \E k : KeepsUpTo(s, S, n, k)
    BY <1>1, KeepsExists
  <2> QED BY <2>1, Zenon
<1>3. Without(s, S) = kept[n]
  BY Zenon DEF Without, KeepsUpTo
<1> HIDE DEF kept
<1> DEFINE Bad == {m \in 0..n : ~Kept(s, S, m, kept[m])}
<1>4. Bad = {}
  <2> SUFFICES ASSUME Bad # {} PROVE FALSE
    OBVIOUS
  <2>1. PICK m \in Bad : \A k \in Bad : m <= k
    <3> Bad \in SUBSET Nat
      BY <1>1
    <3> HIDE DEF Bad
    <3> QED BY LeastNumber
  <2>2. m \in 0..n /\ ~Kept(s, S, m, kept[m])
    BY <2>1
  <2>3. kept[m] = IF m = 0 THEN <<>>
                  ELSE IF s[m] \in S THEN kept[m - 1] ELSE Append(kept[m - 1], s[m])
    BY <1>2, <2>2 DEF KeepsUpTo
  <2>4. m # 0
    <3>1. Kept(s, S, 0, <<>>)
      BY EmptySequence DEF Kept, ToSet, NoRepeats
    <3> QED BY <3>1, <2>2, <2>3
  <2>5. /\ m - 1 \in Nat /\ (m - 1) + 1 = m /\ m \in DOMAIN s /\ 1..(m - 1) \subseteq DOMAIN s
        /\ m - 1 \in 0..n /\ ~(m <= m - 1)
    BY <1>1, <2>2, <2>4
  <2>6. Kept(s, S, m - 1, kept[m - 1])
    BY <2>1, <2>5
  <2>7. Kept(s, S, (m - 1) + 1,
             IF s[(m - 1) + 1] \in S THEN kept[m - 1] ELSE Append(kept[m - 1], s[(m - 1) + 1]))
    <3> HIDE DEF n, Bad
    <3> QED BY <2>5, <2>6, KeepsNext
  <2> QED BY <2>2, <2>3, <2>4, <2>5, <2>7
<1>5. Kept(s, S, n, kept[n])
  BY <1>1, <1>4
<1> QED BY <1>1, <1>3, <1>5 DEF Kept

\* A part of a sequence that starts with it.
LEMMA SequencePrefix ==
  ASSUME NEW s, IsSequence(s), NEW n \in 0..Len(s)
  PROVE  /\ IsSequence(SubSeq(s, 1, n))
         /\ Len(SubSeq(s, 1, n)) = n
         /\ ToSet(SubSeq(s, 1, n)) \subseteq ToSet(s)
<1>1. Len(s) \in Nat /\ s \in Seq(ToSet(s)) /\ DOMAIN s = 1..Len(s)
  BY SequenceIs DEF IsSequence
<1>2. SubSeq(s, 1, n) = [i \in 1..n |-> s[i]]
  BY <1>1
<1> DEFINE p == [i \in 1..n |-> s[i]]
<1>3. IsSequence(p) /\ Len(p) = n /\ DOMAIN p = 1..n
  <2>1. p = [i \in 1..n |-> p[i]] /\ n \in Nat
    BY <1>1
  <2> HIDE DEF p
  <2> QED BY <2>1, SequenceMade
<1>4. ToSet(p) \subseteq ToSet(s)
  BY <1>1, <1>3 DEF ToSet
<1> QED BY <1>2, <1>3, <1>4

-----------------------------------------------------------------------------
(* The machines *)

\* The machines that a decider can hold: no activity is canceled, a timer is
\* canceled or what the history makes of it, and markers are never answered.
Legal(m) ==
  /\ m \in Machine
  /\ m.state # "ILLEGAL"
  /\ m.target # "TIMER" => ~m.canceled
  /\ m.target \in {"ACTIVITY", "TIMER"} /\ ~m.canceled =>
       m.state \in {"CREATED", "DECISION_SENT", "INITIATED", "COMPLETED"}

Waits(m) == m.target \in {"ACTIVITY", "TIMER"}

\* A new machine is legal, and not done if anything waits for it.
LEMMA NewLegal ==
  ASSUME NEW target \in Targets
  PROVE  /\ Legal(NewMachine(target))
         /\ NewMachine(target).target = target
         /\ Waits(NewMachine(target)) => ~is_done(NewMachine(target))
BY DEF Legal, NewMachine, Machine, Targets, DecisionState, Waits, is_done

\* What the handlers make of a legal machine that accepts the event: the start event
\* and a failed cancelation end no wait, the closing event does, and a cancelation is
\* only confirmed of what has been canceled.
LEMMA InitiatedLegal ==
  ASSUME NEW m, Legal(m), Waits(m), NEW n, n = handle_initiated_event(m), n.state # "ILLEGAL"
  PROVE  Legal(n) /\ n.target = m.target /\ (is_done(n) <=> is_done(m))
BY DEF Legal, Waits, Machine, DecisionState, Handle, fail_state_transition, is_done,
       handle_initiated_event, InitiatedTable

\* A machine that waits and takes a completion is then done, for the same target.
LEMMA CompletionLegal ==
  ASSUME NEW m, Legal(m), Waits(m), NEW n, n = handle_completion_event(m), n.state # "ILLEGAL"
  PROVE  Legal(n) /\ n.target = m.target /\ is_done(n)
BY DEF Legal, Waits, Machine, DecisionState, Handle, fail_state_transition, is_done,
       handle_completion_event, CompletionTable

\* A machine that takes a cancelation that has happened was done already.
LEMMA CancellationLegal ==
  ASSUME NEW m, Legal(m), Waits(m), NEW n, n = handle_cancellation_event(m), n.state # "ILLEGAL"
  PROVE  Legal(n) /\ n.target = m.target /\ is_done(n) /\ is_done(m)
BY DEF Legal, Waits, Machine, DecisionState, Handle, fail_state_transition, is_done,
       handle_cancellation_event, CancellationTable

\* A cancelation that fails leaves a machine done or not done, as it was.
LEMMA FailureLegal ==
  ASSUME NEW m, Legal(m), Waits(m), NEW n, n = handle_cancellation_failure_event(m),
         n.state # "ILLEGAL"
  PROVE  Legal(n) /\ n.target = m.target /\ (is_done(n) <=> is_done(m))
BY DEF Legal, Waits, Machine, DecisionState, Handle, fail_state_transition, is_done,
       handle_cancellation_failure_event, CancellationFailureTable, Cancelable

\* Sending a decision ends no wait.
LEMMA SentLegal ==
  ASSUME NEW m, Legal(m)
  PROVE  LET n == handle_decision_task_started_event(m) IN
         Legal(n) /\ n.target = m.target /\ is_done(n) = is_done(m)
BY DEF Legal, Machine, DecisionState, Targets, is_done, handle_decision_task_started_event,
       Cancelable

\* A timer that is not done can be canceled, whatever the history has made of it.
LEMMA CancelLegal ==
  ASSUME NEW m, Legal(m), m.target = "TIMER", ~is_done(m)
  PROVE  Legal(cancel(m)) /\ cancel(m).target = "TIMER" /\ is_done(cancel(m))
BY DEF Legal, Machine, DecisionState, Targets, is_done, cancel, CancelTable, Handle,
       fail_state_transition

-----------------------------------------------------------------------------
(* The decisions *)

IsEntry(e) ==
  /\ e \in [machine : Machine, id : Nat, key : {e.key}, name : {e.name}]
  /\ Legal(e.machine)
  /\ Waits(e.machine) => e.id # 0

\* A dict of decisions: each key is there once.
IsDecisions(ds) ==
  /\ IsSequence(ds)
  /\ \A k \in DOMAIN ds : IsEntry(ds[k])
  /\ \A k, l \in DOMAIN ds :
       ds[k].machine.target = ds[l].machine.target /\ ds[k].id = ds[l].id => k = l

\* This entry's decision, of this kind and id, is not done.
IsOpen(e, target, id) == e.machine.target = target /\ ~is_done(e.machine) /\ e.id = id

OpenIn(ds, target, id) == \E k \in DOMAIN ds : IsOpen(ds[k], target, id)

\* Where a decision is.
LEMMA IndexIs ==
  ASSUME NEW ds, IsSequence(ds), NEW target, NEW id
  PROVE  LET k == IndexOf(ds, target, id) IN
         \/ /\ k \in DOMAIN ds
            /\ ds[k].machine.target = target
            /\ ds[k].id = id
         \/ /\ k = 0
            /\ \A l \in DOMAIN ds : ~(ds[l].machine.target = target /\ ds[l].id = id)
<1> DEFINE I == {i \in 1..Len(ds) : ds[i].machine.target = target /\ ds[i].id = id}
           first == CHOOSE x \in I : \A y \in I : x <= y
<1>1. Len(ds) \in Nat /\ DOMAIN ds = 1..Len(ds)
  BY SequenceIs
<1>2. IndexOf(ds, target, id) = IF I # {} THEN first ELSE 0
  BY Zenon DEF IndexOf, SelectInSeq, Min
<1>3. CASE I = {}
  BY <1>1, <1>2, <1>3
<1>4. CASE I # {}
  <2>1. I \in SUBSET Nat
    BY <1>1
  <2>2. \E x \in I : \A y \in I : x <= y
    <3> HIDE DEF I
    <3> QED BY <1>4, <2>1, LeastNumber
  <2>3. first \in I
    <3> HIDE DEF I
    <3> QED BY <2>2
  <2>4. IndexOf(ds, target, id) \in I
    <3> HIDE DEF I, first
    <3> QED BY <1>2, <1>4, <2>3
  <2> HIDE DEF first
  <2> QED BY <1>1, <2>4
<1> QED BY <1>3, <1>4

\* One element of the dict is replaced by an entry with the same key.
LEMMA EntryReplaced ==
  ASSUME NEW ds, IsDecisions(ds), NEW k \in DOMAIN ds, NEW e, IsEntry(e),
         e.machine.target = ds[k].machine.target, e.id = ds[k].id,
         NEW es, es = [ds EXCEPT ![k] = e]
  PROVE  /\ IsDecisions(es)
         /\ Replaced(ds, es, k, e)
         /\ \A target, id : ~(target = e.machine.target /\ id = e.id) =>
              (OpenIn(es, target, id) <=> OpenIn(ds, target, id))
         /\ OpenIn(es, e.machine.target, e.id) <=> ~is_done(e.machine)
         /\ OpenIn(ds, e.machine.target, e.id) <=> ~is_done(ds[k].machine)
<1>1. Replaced(ds, es, k, e)
  BY SequenceExcept DEF IsDecisions
<1>2. /\ IsSequence(es) /\ DOMAIN es = DOMAIN ds /\ es[k] = e
      /\ \A i \in DOMAIN ds : i # k => es[i] = ds[i]
  BY <1>1 DEF Replaced
<1>3. \A i \in DOMAIN ds : es[i].machine.target = ds[i].machine.target /\ es[i].id = ds[i].id
  BY <1>2
<1>4. \A i \in DOMAIN es : IsEntry(es[i])
  BY <1>2, Zenon DEF IsDecisions
<1>5. \A i, j \in DOMAIN es :
        es[i].machine.target = es[j].machine.target /\ es[i].id = es[j].id => i = j
  <2> SUFFICES ASSUME NEW i \in DOMAIN ds, NEW j \in DOMAIN ds,
                      ds[i].machine.target = ds[j].machine.target, ds[i].id = ds[j].id
               PROVE  i = j
    BY <1>2, <1>3
  <2> QED BY Zenon DEF IsDecisions
<1>6. IsDecisions(es)
  BY <1>2, <1>4, <1>5, Zenon DEF IsDecisions
<1>7. ASSUME NEW target, NEW id, ~(target = e.machine.target /\ id = e.id)
      PROVE  OpenIn(es, target, id) <=> OpenIn(ds, target, id)
  <2>1. ~IsOpen(es[k], target, id) /\ ~IsOpen(ds[k], target, id)
    BY <1>2, <1>7 DEF IsOpen
  <2> QED BY <2>1, <1>2, Zenon DEF OpenIn
<1>8. \A i \in DOMAIN ds : i # k => ~IsOpen(ds[i], e.machine.target, e.id)
  BY Zenon DEF IsDecisions, IsOpen
<1>9. OpenIn(es, e.machine.target, e.id) <=> ~is_done(e.machine)
  <2>1. IsOpen(es[k], e.machine.target, e.id) <=> ~is_done(e.machine)
    BY <1>2, Zenon DEF IsOpen
  <2> QED BY <2>1, <1>2, <1>8, Zenon DEF OpenIn
<1>10. OpenIn(ds, e.machine.target, e.id) <=> ~is_done(ds[k].machine)
  <2>1. IsOpen(ds[k], e.machine.target, e.id) <=> ~is_done(ds[k].machine)
    BY Zenon DEF IsOpen
  <2> QED BY <2>1, <1>8, Zenon DEF OpenIn
<1> QED BY <1>1, <1>6, <1>7, <1>9, <1>10, Zenon

\* es is the dict ds with the entry e for its key.
Adds(ds, es, e) ==
  /\ IsDecisions(es)
  /\ \A target, id : ~(target = e.machine.target /\ id = e.id) =>
       (OpenIn(es, target, id) <=> OpenIn(ds, target, id))
  /\ OpenIn(es, e.machine.target, e.id) <=> ~is_done(e.machine)

\* An entry with a new key is added at the end.
LEMMA EntryAppended ==
  ASSUME NEW ds, IsDecisions(ds), NEW e, IsEntry(e),
         \A l \in DOMAIN ds : ~(ds[l].machine.target = e.machine.target /\ ds[l].id = e.id)
  PROVE  Adds(ds, Append(ds, e), e)
<1> DEFINE es == Append(ds, e)
           n == Len(ds) + 1
<1>1. /\ IsSequence(es) /\ DOMAIN es = DOMAIN ds \cup {n} /\ es[n] = e
      /\ \A i \in DOMAIN ds : es[i] = ds[i]
  BY SequenceAppend DEF IsDecisions
<1> HIDE DEF es, n
<1>2. \A i \in DOMAIN es : IsEntry(es[i])
  BY <1>1, Zenon DEF IsDecisions
<1>3. \A i, j \in DOMAIN es :
        es[i].machine.target = es[j].machine.target /\ es[i].id = es[j].id => i = j
  BY <1>1, Zenon DEF IsDecisions
<1>4. IsDecisions(es)
  BY <1>1, <1>2, <1>3, Zenon DEF IsDecisions
<1>5. ASSUME NEW target, NEW id, ~(target = e.machine.target /\ id = e.id)
      PROVE  OpenIn(es, target, id) <=> OpenIn(ds, target, id)
  <2>1. ~IsOpen(es[n], target, id)
    BY <1>1, <1>5 DEF IsOpen
  <2> QED BY <2>1, <1>1, Zenon DEF OpenIn
<1>6. \A i \in DOMAIN ds : ~IsOpen(ds[i], e.machine.target, e.id)
  BY Zenon DEF IsOpen
<1>7. OpenIn(es, e.machine.target, e.id) <=> ~is_done(e.machine)
  <2>1. IsOpen(es[n], e.machine.target, e.id) <=> ~is_done(e.machine)
    BY <1>1, Zenon DEF IsOpen
  <2> QED BY <2>1, <1>1, <1>6, Zenon DEF OpenIn
<1> QED BY <1>4, <1>5, <1>7, Zenon DEF es, Adds

\* What add_decision makes of the dict.
LEMMA DecisionAdded ==
  ASSUME NEW e, IsEntry(e), IsDecisions(decisions)
  PROVE  Adds(decisions, WithDecision(e), e)
<1> DEFINE k == IndexOf(decisions, e.machine.target, e.id)
<1>1. WithDecision(e) = IF k = 0 THEN Append(decisions, e) ELSE [decisions EXCEPT ![k] = e]
  BY Zenon DEF WithDecision
<1>2. \/ /\ k \in DOMAIN decisions
         /\ decisions[k].machine.target = e.machine.target
         /\ decisions[k].id = e.id
      \/ /\ k = 0
         /\ \A l \in DOMAIN decisions :
              ~(decisions[l].machine.target = e.machine.target /\ decisions[l].id = e.id)
  <2>1. PICK target, id : target = e.machine.target /\ id = e.id
    OBVIOUS
  <2>2. IsSequence(decisions) /\ k = IndexOf(decisions, target, id)
    BY <2>1, Zenon DEF IsDecisions
  <2> HIDE DEF k
  <2>3. \/ k \in DOMAIN decisions /\ decisions[k].machine.target = target /\ decisions[k].id = id
        \/ k = 0 /\ \A l \in DOMAIN decisions : ~(decisions[l].machine.target = target /\ decisions[l].id = id)
    BY <2>2, IndexIs
  <2> QED BY <2>1, <2>3
<1>3. DOMAIN decisions = 1..Len(decisions) /\ Len(decisions) \in Nat
  BY SequenceIs DEF IsDecisions
<1> HIDE DEF k
<1>4. CASE k = 0
  <2>1. k \notin DOMAIN decisions
    BY <1>3, <1>4
  <2>2. \A l \in DOMAIN decisions :
          ~(decisions[l].machine.target = e.machine.target /\ decisions[l].id = e.id)
    BY <2>1, <1>2
  <2>3. Adds(decisions, Append(decisions, e), e)
    BY <2>2, EntryAppended, Zenon
  <2> QED BY <2>3, <1>1, <1>4
<1>5. CASE k # 0
  <2>1. /\ k \in DOMAIN decisions /\ decisions[k].machine.target = e.machine.target
        /\ decisions[k].id = e.id
    BY <1>2, <1>5
  <2>2. Adds(decisions, [decisions EXCEPT ![k] = e], e)
    BY <2>1, EntryReplaced, Zenon DEF Adds
  <2> QED BY <2>2, <1>1, <1>5
<1> QED BY <1>4, <1>5

\* An entry gets another machine of its kind.
LEMMA MachineReplaced ==
  ASSUME NEW e, IsEntry(e), NEW m, Legal(m), m.target = e.machine.target
  PROVE  LET n == [e EXCEPT !.machine = m] IN
         /\ IsEntry(n)
         /\ n.machine = m
         /\ n.id = e.id /\ n.key = e.key /\ n.name = e.name
<1> DEFINE n == [e EXCEPT !.machine = m]
<1>1. e \in [machine : Machine, id : Nat, key : {e.key}, name : {e.name}]
  BY DEF IsEntry
<1>2. n.machine = m /\ n.id = e.id /\ n.key = e.key /\ n.name = e.name
  BY <1>1
<1>3. n \in [machine : Machine, id : Nat, key : {e.key}, name : {e.name}]
  BY <1>1 DEF Legal
<1> HIDE DEF n
<1>4. Waits(m) => e.id # 0
  BY DEF IsEntry, Waits
<1>5. IsEntry(n)
  BY <1>2, <1>3, <1>4, Zenon DEF IsEntry
<1> QED BY <1>2, <1>5 DEF n

\* A new decision has the type of an entry.
LEMMA EntryIs ==
  ASSUME NEW target \in Targets, NEW id \in Nat, NEW key, NEW name,
         target \in {"ACTIVITY", "TIMER"} => id # 0
  PROVE  /\ IsEntry(Entry(target, id, key, name))
         /\ Entry(target, id, key, name).machine.target = target
         /\ Entry(target, id, key, name).id = id
         /\ is_done(Entry(target, id, key, name).machine) => ~(target \in {"ACTIVITY", "TIMER"})
<1> DEFINE e == Entry(target, id, key, name)
<1>1. /\ e = [machine |-> NewMachine(target), id |-> id, key |-> key, name |-> name]
      /\ NewMachine(target) \in Machine
  BY NewLegal DEF Entry, Legal
<1>2. e.machine = NewMachine(target) /\ e.id = id /\ e.key = key /\ e.name = name
  BY <1>1
<1>3. e \in [machine : Machine, id : Nat, key : {e.key}, name : {e.name}]
  BY <1>1, <1>2
<1> HIDE DEF e
<1>4. Legal(e.machine) /\ e.machine.target = target
  BY <1>2, NewLegal
<1>5. is_done(e.machine) => ~(target \in {"ACTIVITY", "TIMER"})
  BY <1>2, NewLegal DEF Waits
<1>6. IsEntry(e)
  BY <1>2, <1>3, <1>4 DEF IsEntry, Waits
<1> QED BY <1>2, <1>4, <1>5, <1>6 DEF e

-----------------------------------------------------------------------------
(* The inductive invariant *)

\* A task waits for nothing and has no result unless it has entered an operation.
IsTask(r) ==
  /\ r \in [name : {r.name}, status : {"CREATED", "RUNNING", "DONE"}, pc : Nat,
            entered : BOOLEAN, awaited : {"none", "pending", "set"}, id : Nat,
            fired : BOOLEAN, result : {"none", "ok", "failed"}]
  /\ ~r.entered => r.awaited = "none" /\ ~r.fired /\ r.result = "none"

\* The histories and the phases of the decision thread.
ThreadInv ==
  /\ IsSequence(history)
  /\ IsSequence(buffered)
  /\ Len(history) > 0
  /\ decisionTask \in {"none", "scheduled", "started"}
  /\ phase \in {"idle", "next", "events", "loop", "decision_events", "query", "dead"}
  /\ querying \in BOOLEAN
  /\ polled \in 0..Len(history)
  /\ at \in Nat
  /\ batch \in [from : Nat, stop : Nat, replay : BOOLEAN, next_decision_event_id : Nat, end : Nat]
  /\ next_decision_event_id \in Nat
  /\ id_counter \in Nat
  /\ completed \in BOOLEAN
  /\ phase # "idle" => polled > 0
  /\ phase = "idle" => at = 1
  /\ next_decision_event_id > 0 \/ phase \in {"idle", "dead"} \/ (phase = "next" /\ at = 1)

\* A task that runs or has a handle in the event loop is not done and waits for
\* nothing; each has one handle.
TasksInv ==
  /\ IsSequence(task)
  /\ \A t \in DOMAIN task : IsTask(task[t])
  /\ IsSequence(tasks) /\ ToSet(tasks) \subseteq DOMAIN task /\ NoRepeats(tasks)
  /\ IsSequence(ready) /\ ToSet(ready) \subseteq DOMAIN task /\ NoRepeats(ready)
  /\ quota \in 0..Len(ready)
  /\ running \in {0} \cup DOMAIN task
  /\ phase \notin {"loop", "query"} => quota = 0 /\ running = 0
  /\ \A t \in DOMAIN task :
       /\ t \in ToSet(ready) => t # running /\ task[t].status # "DONE" /\ task[t].awaited # "pending"
       /\ t = running => task[t].status = "RUNNING" /\ task[t].awaited # "pending"
       /\ task[t].awaited = "pending" => task[t].status = "RUNNING"

\* The task has no handle and awaits no unblock_all.
Asleep(t) == t \notin ToSet(ready) /\ t # running /\ task[t].awaited = "none"

\* The future or callback with this id is that of a task that waits for it; one that
\* awaits a future can only be woken by it.
HoldsActivity(id) ==
  LET t == scheduled_activities[id] IN
  t \in DOMAIN task /\ WaitsFor(t, {"activity"}, id) /\ Asleep(t)

HoldsTimer(id) ==
  LET t == scheduled_timers[id] IN
  /\ t \in DOMAIN task
  /\ WaitsFor(t, {"sleep", "await_timeout"}, id)
  /\ Op(t).op = "sleep" => Asleep(t)

\* PendingIsAwaited, and more.
PendingInv ==
  /\ \A id : id \in DOMAIN scheduled_activities <=> OpenIn(decisions, "ACTIVITY", id)
  /\ \A id : id \in DOMAIN scheduled_timers <=> OpenIn(decisions, "TIMER", id)
  /\ \A id \in DOMAIN scheduled_activities : HoldsActivity(id)
  /\ \A id \in DOMAIN scheduled_timers : HoldsTimer(id)

Inv ==
  /\ workflow \in Workflow
  /\ ThreadInv
  /\ IsDecisions(decisions)
  /\ TasksInv
  /\ PendingInv

-----------------------------------------------------------------------------
(* The tasks that wait *)

\* The fields that tell what a task waits for are the same.
SameWait(r, s) ==
  /\ s.status = r.status /\ s.name = r.name /\ s.pc = r.pc /\ s.entered = r.entered
  /\ s.id = r.id /\ s.result = r.result /\ s.fired = r.fired

\* It is the same operation that the task waits at.
LEMMA WaitsStays ==
  ASSUME NEW t, SameWait(task[t], task'[t]), workflow' = workflow
  PROVE  /\ \A ops, id : WaitsFor(t, ops, id) => WaitsFor(t, ops, id)'
         /\ Op(t)' = Op(t)
<1>1. /\ task'[t].status = task[t].status /\ task'[t].name = task[t].name
      /\ task'[t].pc = task[t].pc /\ task'[t].entered = task[t].entered
      /\ task'[t].id = task[t].id /\ task'[t].result = task[t].result
      /\ task'[t].fired = task[t].fired
  BY Zenon DEF SameWait
<1>2. CodeOf(t)' = CodeOf(t)
  BY <1>1, Zenon DEF CodeOf
<1>3. Op(t)' = Op(t)
  BY <1>1, <1>2, Zenon DEF Op
<1> QED BY <1>1, <1>2, <1>3, Zenon DEF WaitsFor

\* The step does not disturb what the task waits for, and does not wake it.
Undisturbed(t) ==
  /\ t \in DOMAIN task'
  /\ SameWait(task[t], task'[t])
  /\ Asleep(t) => task'[t].awaited = "none" /\ t \notin ToSet(ready') /\ t # running'

\* The dicts gain entries that hold or lose some, and no task that still waits is
\* disturbed.
LEMMA PendingStays ==
  ASSUME PendingInv, workflow' = workflow,
         \A id : id \in DOMAIN scheduled_activities' <=> OpenIn(decisions', "ACTIVITY", id),
         \A id : id \in DOMAIN scheduled_timers' <=> OpenIn(decisions', "TIMER", id),
         \A id \in DOMAIN scheduled_activities' :
           \/ HoldsActivity(id)'
           \/ /\ id \in DOMAIN scheduled_activities
              /\ scheduled_activities'[id] = scheduled_activities[id]
              /\ Undisturbed(scheduled_activities[id]),
         \A id \in DOMAIN scheduled_timers' :
           \/ HoldsTimer(id)'
           \/ /\ id \in DOMAIN scheduled_timers
              /\ scheduled_timers'[id] = scheduled_timers[id]
              /\ Undisturbed(scheduled_timers[id])
  PROVE  PendingInv'
<1>1. ASSUME NEW id \in DOMAIN scheduled_activities', ~HoldsActivity(id)'
      PROVE  HoldsActivity(id)'
  <2>1. PICK t : t = scheduled_activities[id]
    OBVIOUS
  <2>2. id \in DOMAIN scheduled_activities /\ scheduled_activities'[id] = t /\ Undisturbed(t)
    BY <2>1, <1>1
  <2>3. WaitsFor(t, {"activity"}, id) /\ Asleep(t)
    BY <2>1, <2>2, Zenon DEF PendingInv, HoldsActivity
  <2>4. WaitsFor(t, {"activity"}, id)'
    BY <2>2, <2>3, WaitsStays, Zenon DEF Undisturbed
  <2>5. Asleep(t)' /\ t \in DOMAIN task'
    BY <2>2, <2>3, Zenon DEF Undisturbed, Asleep
  <2> QED BY <2>2, <2>4, <2>5, Zenon DEF HoldsActivity
<1>2. ASSUME NEW id \in DOMAIN scheduled_timers', ~HoldsTimer(id)'
      PROVE  HoldsTimer(id)'
  <2>1. PICK t : t = scheduled_timers[id]
    OBVIOUS
  <2>2. id \in DOMAIN scheduled_timers /\ scheduled_timers'[id] = t /\ Undisturbed(t)
    BY <2>1, <1>2
  <2>3. /\ WaitsFor(t, {"sleep", "await_timeout"}, id)
        /\ Op(t).op = "sleep" => Asleep(t)
    BY <2>1, <2>2, Zenon DEF PendingInv, HoldsTimer
  <2>4. WaitsFor(t, {"sleep", "await_timeout"}, id)' /\ Op(t)' = Op(t)
    BY <2>2, <2>3, WaitsStays, Zenon DEF Undisturbed
  <2>5. Asleep(t) => Asleep(t)'
    BY <2>2, <2>3, Zenon DEF Undisturbed, Asleep
  <2> QED BY <2>2, <2>3, <2>4, <2>5, Zenon DEF Undisturbed, HoldsTimer
<1> QED BY <1>1, <1>2, Zenon DEF PendingInv

-----------------------------------------------------------------------------
(* The service *)

\* The history is there, and so are the events that wait.
ServiceOK ==
  /\ IsSequence(history)
  /\ IsSequence(buffered)
  /\ Len(history) > 0
  /\ decisionTask \in {"none", "scheduled", "started"}

Grows == ServiceOK' /\ Len(history') >= Len(history)

\* The sequence of one event.
LEMMA OneEvent ==
  ASSUME NEW e
  PROVE  IsSequence(<<e>>) /\ Len(<<e>>) = 1
<1>1. <<e>> \in Seq({e}) /\ Len(<<e>>) = 1
  OBVIOUS
<1> QED BY <1>1, SequenceOver

\* More events make a longer history.
LEMMA HistoryGrows ==
  ASSUME NEW h, IsSequence(h), Len(h) > 0, NEW p, IsSequence(p), NEW q, IsSequence(q),
         NEW r, IsSequence(r)
  PROVE  /\ IsSequence(h \o p \o q \o r)
         /\ Len(h \o p \o q \o r) >= Len(h)
         /\ Len(h \o p \o q \o r) > 0
<1> DEFINE a == h \o p
           b == a \o q
           c == b \o r
<1>1. Len(h) \in Nat /\ Len(p) \in Nat /\ Len(q) \in Nat /\ Len(r) \in Nat
  BY SequenceIs
<1>2. IsSequence(a) /\ Len(a) = Len(h) + Len(p)
  BY SequenceConcat
<1>3. IsSequence(b) /\ Len(b) = Len(a) + Len(q)
  <2> HIDE DEF a
  <2> QED BY <1>2, SequenceConcat
<1>4. IsSequence(c) /\ Len(c) = Len(b) + Len(r)
  <2> HIDE DEF b
  <2> QED BY <1>3, SequenceConcat
<1>5. Len(c) >= Len(h) /\ Len(c) > 0
  <2> HIDE DEF a, b, c
  <2> QED BY <1>1, <1>2, <1>3, <1>4
<1> QED BY <1>4, <1>5

\* There may be a new decision task.
LEMMA AgainIs ==
  ASSUME NEW again \in BOOLEAN
  PROVE  IsSequence(IF again THEN <<Scheduled>> ELSE <<>>)
BY OneEvent, EmptySequence

\* Events that the service records are put after the history or into the buffer.
LEMMA RecordGrows ==
  ASSUME ServiceOK, NEW events, IsSequence(events), Record(events)
  PROVE  Grows
<1>1. CASE decisionTask = "started"
  <2>1. buffered' = buffered \o events /\ UNCHANGED <<history, decisionTask>>
    BY <1>1 DEF Record
  <2>2. IsSequence(buffered')
    BY <2>1, SequenceConcat DEF ServiceOK
  <2>3. Len(history) \in Nat
    BY SequenceIs DEF ServiceOK
  <2> QED BY <2>1, <2>2, <2>3 DEF Grows, ServiceOK
<1>2. CASE decisionTask # "started"
  <2> DEFINE more == IF decisionTask = "none" THEN <<Scheduled>> ELSE <<>>
  <2>1. /\ history' = history \o events \o more
        /\ decisionTask' = "scheduled" /\ UNCHANGED buffered
    BY <1>2 DEF Record
  <2>2. IsSequence(more)
    BY AgainIs
  <2> HIDE DEF more
  <2>3. IsSequence(history \o events) /\ Len(history \o events) = Len(history) + Len(events)
    BY SequenceConcat DEF ServiceOK
  <2>4. IsSequence(history') /\ Len(history') = Len(history \o events) + Len(more)
    BY <2>1, <2>2, <2>3, SequenceConcat
  <2>5. Len(history) \in Nat /\ Len(events) \in Nat /\ Len(more) \in Nat
    BY <2>2, SequenceIs DEF ServiceOK
  <2> QED BY <2>1, <2>3, <2>4, <2>5 DEF Grows, ServiceOK
<1> QED BY <1>1, <1>2

\* The end of a decision task adds its events to the history, and at most a new task's.
LEMMA EndGrows ==
  ASSUME ServiceOK, NEW ended, IsSequence(ended), NEW rest, IsSequence(rest),
         NEW retry \in BOOLEAN, EndDecisionTask(ended, rest, retry)
  PROVE  Grows
<1> DEFINE again == retry \/ rest # <<>>
           more == IF again THEN <<Scheduled>> ELSE <<>>
<1>1. history' = history \o ended \o rest \o more /\ buffered' = <<>>
  BY DEF EndDecisionTask
<1>2. decisionTask' \in {"none", "scheduled", "started"}
  BY DEF EndDecisionTask
<1>3. IsSequence(more)
  BY AgainIs
<1> HIDE DEF more
<1>4. IsSequence(history') /\ Len(history') >= Len(history) /\ Len(history') > 0
  BY <1>1, <1>3, HistoryGrows, Zenon DEF ServiceOK
<1> QED BY <1>1, <1>2, <1>4, EmptySequence, Zenon DEF Grows, ServiceOK

\* What the service does of itself only adds to the history.
LEMMA ServiceGrows ==
  ASSUME ServiceOK, ServiceStep
  PROVE  Grows
<1>1. ASSUME NEW e, Record(<<e>>) PROVE Grows
  BY <1>1, OneEvent, RecordGrows, Zenon
<1>2. ASSUME NEW e, NEW f, Record(<<e, f>>) PROVE Grows
  <2>1. <<e, f>> \in Seq({e, f})
    OBVIOUS
  <2>2. IsSequence(<<e, f>>)
    BY <2>1, SequenceOver
  <2> QED BY <1>2, <2>2, RecordGrows, Zenon
<1>3. CASE Signal
  BY <1>1, <1>3, Zenon DEF Signal
<1>4. CASE RequestCancel
  BY <1>1, <1>4, Zenon DEF RequestCancel
<1>5. CASE CloseActivity
  BY <1>2, <1>5, Zenon DEF CloseActivity
<1>6. CASE FireTimer
  BY <1>1, <1>6, Zenon DEF FireTimer
<1>7. CASE TimeoutDecisionTask
  <2>1. EndDecisionTask(<<Event("DecisionTaskTimedOut", 0, "")>>, buffered, TRUE)
    BY <1>7, Zenon DEF TimeoutDecisionTask
  <2>2. IsSequence(<<Event("DecisionTaskTimedOut", 0, "")>>) /\ IsSequence(buffered) /\ TRUE \in BOOLEAN
    BY OneEvent DEF ServiceOK
  <2> QED BY <2>1, <2>2, EndGrows, Zenon
<1> QED BY <1>3, <1>4, <1>5, <1>6, <1>7 DEF ServiceStep

\* The start of a decision task adds its event to the history.
LEMMA StartGrows ==
  ASSUME ServiceOK, StartDecisionTask
  PROVE  Grows
<1>1. /\ history' = Append(history, Event("DecisionTaskStarted", 0, ""))
      /\ decisionTask' = "started" /\ UNCHANGED buffered
  BY DEF StartDecisionTask
<1>2. IsSequence(history') /\ Len(history') = Len(history) + 1 /\ Len(history) \in Nat
  BY <1>1, SequenceAppend, SequenceIs DEF ServiceOK
<1>3. Len(history') >= Len(history) /\ Len(history') > 0
  BY <1>2 DEF ServiceOK
<1> QED BY <1>1, <1>2, <1>3 DEF Grows, ServiceOK

\* The decisions up to one that closes are a sequence too.
LEMMA UpToCloseIs ==
  ASSUME NEW ds, IsSequence(ds)
  PROVE  IsSequence(UpToClose(ds))
<1> DEFINE n == Len(ds)
           I == {i \in 1..n : Closes(ds[i])}
           first == CHOOSE x \in I : \A y \in I : x <= y
<1>1. n \in Nat
  BY SequenceIs
<1>2. CASE I = {}
  <2>1. SelectInSeq(ds, Closes) = 0
    BY <1>2 DEF SelectInSeq
  <2> QED BY <2>1 DEF UpToClose
<1>3. CASE I # {}
  <2>1. \E x \in I : \A y \in I : x <= y
    <3> I \in SUBSET Nat
      BY <1>1
    <3> HIDE DEF I
    <3> QED BY <1>3, LeastNumber
  <2>2. first \in 1..n
    BY <2>1
  <2>3. SelectInSeq(ds, Closes) = first
    BY <1>3, Zenon DEF SelectInSeq, Min
  <2>4. first # 0 /\ first \in 0..n
    <3> HIDE DEF first
    <3> QED BY <1>1, <2>2
  <2>5. UpToClose(ds) = SubSeq(ds, 1, first)
    BY <2>3, <2>4, Zenon DEF UpToClose
  <2> HIDE DEF first
  <2> QED BY <2>4, <2>5, SequencePrefix
<1> QED BY <1>2, <1>3

\* So does the answer of a worker.
LEMMA RespondGrows ==
  ASSUME ServiceOK, NEW token, NEW ds, IsSequence(ds), RespondDecisionTaskCompleted(token, ds)
  PROVE  Grows
<1>1. CASE token # StartedTask
  <2>1. UNCHANGED serviceVars
    BY <1>1 DEF RespondDecisionTaskCompleted
  <2>2. Len(history) \in Nat
    BY SequenceIs DEF ServiceOK
  <2> QED BY <2>1, <2>2 DEF Grows, ServiceOK, serviceVars
<1>2. CASE token = StartedTask
  <2> DEFINE fails == buffered # <<>> /\ SelectInSeq(ds, Closes) # 0
             done == UpToClose(ds)
             answers == [i \in DOMAIN done |-> DecisionEvent(done[i])]
             canceled == {i \in DOMAIN answers : answers[i].type = "TimerCanceled"}
             fired == {Event("TimerFired", answers[i].ref, "") : i \in canceled}
             ended == <<Event("DecisionTaskCompleted", 0, "")>> \o answers
             rest == Without(buffered, fired)
  <2>1. CASE fails
    <3>1. EndDecisionTask(<<Event("DecisionTaskFailed", 0, "")>>, buffered, TRUE)
      BY <1>2, <2>1, Zenon DEF RespondDecisionTaskCompleted
    <3>2. IsSequence(<<Event("DecisionTaskFailed", 0, "")>>) /\ IsSequence(buffered) /\ TRUE \in BOOLEAN
      BY OneEvent DEF ServiceOK
    <3> QED BY <3>1, <3>2, EndGrows, Zenon
  <2>2. CASE ~fails
    <3>1. EndDecisionTask(ended, rest, FALSE)
      BY <1>2, <2>2, Zenon DEF RespondDecisionTaskCompleted
    <3>2. Len(done) \in Nat /\ DOMAIN done = 1..Len(done)
      BY UpToCloseIs, SequenceIs
    <3>3. IsSequence(answers)
      <4> HIDE DEF done
      <4>1. answers = [i \in 1..Len(done) |-> answers[i]]
        BY <3>2
      <4> HIDE DEF answers
      <4> QED BY <3>2, <4>1, SequenceMade
    <3>4. IsSequence(ended)
      <4> HIDE DEF answers
      <4> QED BY <3>3, OneEvent, SequenceConcat
    <3>5. IsSequence(rest)
      <4> HIDE DEF fired
      <4> QED BY WithoutIs DEF ServiceOK
    <3> HIDE DEF ended, rest
    <3>6. FALSE \in BOOLEAN
      OBVIOUS
    <3> QED BY <3>1, <3>4, <3>5, <3>6, EndGrows, Zenon
  <2> QED BY <2>1, <2>2
<1> QED BY <1>1, <1>2

-----------------------------------------------------------------------------
(* The batches *)

\* Wherever HistoryHelper stands in a history, there is a batch.
LEMMA BatchIs ==
  ASSUME NEW h, IsSequence(h), NEW from \in 0..Len(h)
  PROVE  /\ Batch(h, from) \in [from : Nat, stop : Nat, replay : BOOLEAN,
                                next_decision_event_id : Nat, end : Nat]
         /\ Batch(h, from).next_decision_event_id > 0
<1> DEFINE n == Len(h)
           T == {i \in from..n : EndsBatch(h, i)}
           stop == BatchStop(h, from)
<1>1. n \in Nat /\ from \in Nat
  BY SequenceIs
<1>2. stop \in from..n
  <2>1. T \in SUBSET Nat /\ n \in T
    BY <1>1 DEF EndsBatch
  <2>2. PICK i \in T : \A j \in T : i <= j
    <3> HIDE DEF T
    <3> QED BY <2>1, LeastNumber
  <2>3. \A j \in from..(i - 1) : j \in from..n /\ ~(i <= j)
    BY <1>1
  <2>4. \A j \in from..(i - 1) : ~EndsBatch(h, j)
    BY <2>2, <2>3
  <2>5. \E k \in from..n : EndsBatch(h, k) /\ \A j \in from..(k - 1) : ~EndsBatch(h, j)
    BY <2>4
  <2> QED BY <2>5, Zenon DEF BatchStop
<1> HIDE DEF stop, T
<1>3. stop \in Nat /\ stop + 2 \in Nat /\ stop + 1 \in Nat /\ stop + 2 > 0
  BY <1>1, <1>2
<1>4. ASSUME stop # n PROVE DecisionsStop(h, stop + 2) \in Nat
  <2> DEFINE m == stop + 2
             U == {j \in m..(n + 1) : j <= n => ~is_decision_event(h[j])}
  <2>1. m \in Nat /\ m <= n + 1
    BY <1>1, <1>2, <1>3, <1>4
  <2> HIDE DEF m
  <2>2. U \in SUBSET Nat /\ n + 1 \in U
    BY <1>1, <2>1
  <2>3. PICK j \in U : \A k \in U : j <= k
    <3> HIDE DEF U
    <3> QED BY <2>2, LeastNumber
  <2>4. \A k \in m..(j - 1) : k \in m..(n + 1) /\ k <= n /\ ~(j <= k)
    BY <1>1, <2>1
  <2>5. \A k \in m..(j - 1) : is_decision_event(h[k])
    BY <2>3, <2>4
  <2>6. \E i \in m..(n + 1) : /\ \A k \in m..(i - 1) : is_decision_event(h[k])
                              /\ i <= n => ~is_decision_event(h[i])
    BY <2>3, <2>5
  <2>7. DecisionsStop(h, m) \in m..(n + 1)
    BY <2>6, Zenon DEF DecisionsStop
  <2> QED BY <1>1, <2>1, <2>7 DEF m
<1> DEFINE end == IF stop # n THEN DecisionsStop(h, stop + 2) ELSE stop + 1
<1>5. end \in Nat
  BY <1>3, <1>4
<1> HIDE DEF end
<1>6. Batch(h, from) = [from |-> from, stop |-> stop, replay |-> (stop # n),
                        next_decision_event_id |-> stop + 2, end |-> end]
  BY Zenon DEF Batch, stop, end
<1> QED BY <1>1, <1>3, <1>5, <1>6

-----------------------------------------------------------------------------
(* Steps that leave the code and its decisions alone *)

\* The thread goes on with its batch.
LEMMA ThreadKept ==
  ASSUME ThreadInv, UNCHANGED <<serviceVars, querying, polled, batch>>,
         phase # "idle", phase' \in {"next", "events", "loop", "decision_events", "query"},
         at' \in Nat, next_decision_event_id' \in Nat, next_decision_event_id' > 0,
         id_counter' \in Nat, completed' \in BOOLEAN
  PROVE  ThreadInv'
BY DEF ThreadInv, serviceVars

\* While the thread has a batch, it knows the id of the next decision.
LEMMA ThreadHasId ==
  ASSUME ThreadInv, phase \in {"events", "loop", "decision_events", "query"}
  PROVE  next_decision_event_id > 0 /\ next_decision_event_id \in Nat /\ phase # "idle"
BY DEF ThreadInv

codeAlone == UNCHANGED <<workflow, decisions, scheduled_activities, scheduled_timers,
                         task, tasks, ready, quota, running>>

\* The rest of the invariant is about the code alone.
LEMMA CodeStays ==
  ASSUME Inv, codeAlone, ThreadInv', phase' \notin {"loop", "query"} => quota = 0 /\ running = 0
  PROVE  Inv'
<1>1. /\ workflow' = workflow /\ decisions' = decisions
      /\ scheduled_activities' = scheduled_activities /\ scheduled_timers' = scheduled_timers
      /\ task' = task /\ tasks' = tasks /\ ready' = ready /\ quota' = quota /\ running' = running
  BY Zenon DEF codeAlone
<1>2. IsDecisions(decisions')
  BY <1>1 DEF Inv
<1>3. TasksInv'
  BY <1>1, Zenon DEF Inv, TasksInv
<1>4. \A t : /\ \A ops, id : WaitsFor(t, ops, id)' <=> WaitsFor(t, ops, id)
             /\ Asleep(t)' <=> Asleep(t)
             /\ Op(t)' = Op(t)
  BY <1>1, Zenon DEF WaitsFor, Asleep, Op, CodeOf
<1>5. PendingInv'
  BY <1>1, <1>4, Zenon DEF Inv, PendingInv, HoldsActivity, HoldsTimer
<1> QED BY <1>1, <1>2, <1>3, <1>5, Zenon DEF Inv

\* What the service does of itself leaves the decider alone: it only adds to the history.
LEMMA ServiceActsInv ==
  ASSUME Inv, ServiceActs
  PROVE  Inv'
<1>1. Grows
  BY ServiceGrows, Zenon DEF Inv, ThreadInv, ServiceOK, ServiceActs
<1>2. UNCHANGED <<workflow, replayVars, deciderVars, codeVars>>
  BY DEF ServiceActs
<1>3. polled \in 0..Len(history')
  <2>1. Len(history) \in Nat /\ Len(history') \in Nat
    BY <1>1, SequenceIs DEF Grows, ServiceOK, Inv, ThreadInv
  <2> QED BY <1>1, <2>1 DEF Grows, Inv, ThreadInv
<1>4. ThreadInv'
  BY <1>1, <1>2, <1>3, Zenon DEF Inv, ThreadInv, Grows, ServiceOK, replayVars, deciderVars
<1>5. codeAlone /\ phase' = phase
  BY <1>2, Zenon DEF codeAlone, replayVars, deciderVars, codeVars
<1> QED BY <1>4, <1>5, CodeStays, Zenon DEF Inv, TasksInv

\* A poll makes a decider that has nothing yet: no decisions, no tasks, no futures.
LEMMA PollInv ==
  ASSUME Inv, Poll \/ PollQuery
  PROVE  Inv'
<1>1. codeAlone /\ phase' = "next" /\ phase = "idle"
  BY Zenon DEF Poll, PollQuery, codeAlone, deciderVars, codeVars
<1>2. Grows /\ polled' = Len(history') /\ at' = 1 /\ querying' \in BOOLEAN
      /\ UNCHANGED <<batch, next_decision_event_id, id_counter, completed>>
  <2>1. CASE Poll
    BY <2>1, StartGrows, Zenon DEF Poll, Inv, ThreadInv, ServiceOK, deciderVars
  <2>2. CASE PollQuery
    <3>1. Len(history) >= Len(history)
      <4> Len(history) \in Nat
        BY SequenceIs DEF Inv, ThreadInv
      <4> QED OBVIOUS
    <3>2. at' = 1
      BY <2>2, <1>1 DEF PollQuery, Inv, ThreadInv
    <3> QED BY <2>2, <3>1, <3>2, Zenon
            DEF PollQuery, Inv, ThreadInv, ServiceOK, Grows, serviceVars, deciderVars
  <2> QED BY <2>1, <2>2
<1>3. Len(history') \in Nat /\ Len(history') > 0
  BY <1>2, SequenceIs DEF Grows, ServiceOK
<1>4. polled' \in 0..Len(history') /\ polled' > 0 /\ at' \in Nat
  BY <1>2, <1>3
<1>5. ThreadInv'
  BY <1>1, <1>2, <1>4 DEF Inv, ThreadInv, Grows, ServiceOK
<1> QED BY <1>1, <1>5, CodeStays, Zenon DEF Inv, TasksInv

\* The helper's next batch ends within the history that was polled.
LEMMA BeginBatchInv ==
  ASSUME Inv, BeginBatch
  PROVE  Inv'
<1> DEFINE h == SubSeq(history, 1, polled)
<1>1. IsSequence(h) /\ at \in 0..Len(h)
  <2>1. polled \in 0..Len(history) /\ IsSequence(history) /\ at \in Nat
    BY DEF Inv, ThreadInv
  <2>2. IsSequence(h) /\ Len(h) = polled
    BY <2>1, SequencePrefix
  <2> HIDE DEF h
  <2>3. Len(history) \in Nat /\ at <= polled
    BY <2>1, SequenceIs DEF BeginBatch
  <2> QED BY <2>1, <2>2, <2>3
<1>2. batch' = Batch(h, at) /\ next_decision_event_id' = batch'.next_decision_event_id
  BY DEF BeginBatch
<1> HIDE DEF h
<1>3. /\ batch' \in [from : Nat, stop : Nat, replay : BOOLEAN, next_decision_event_id : Nat, end : Nat]
      /\ next_decision_event_id' > 0
  BY <1>1, <1>2, BatchIs
<1>4. next_decision_event_id' \in Nat
  BY <1>2, <1>3
<1>5. codeAlone /\ phase = "next" /\ phase' = "events"
      /\ UNCHANGED <<serviceVars, querying, polled, at, id_counter, completed>>
  BY Zenon DEF BeginBatch, codeAlone, codeVars
<1>6. ThreadInv'
  BY <1>3, <1>4, <1>5 DEF Inv, ThreadInv, serviceVars
<1> QED BY <1>5, <1>6, CodeStays, Zenon DEF Inv, TasksInv

\* The thread ends.
LEMMA RaiseInv ==
  ASSUME Inv, NEW exception, Raise(exception), phase \in {"events", "decision_events"}
  PROVE  Inv'
<1>1. codeAlone /\ phase' = "dead"
      /\ UNCHANGED <<serviceVars, querying, polled, at, batch, next_decision_event_id, id_counter,
                     completed>>
  BY Zenon DEF Raise, codeAlone, codeVars, deciderVars
<1>2. ThreadInv'
  BY <1>1 DEF Inv, ThreadInv, serviceVars
<1> QED BY <1>1, <1>2, CodeStays DEF Inv, TasksInv

\* Steps from one phase of a batch to the next, and the events that the decider only
\* takes note of.
LEMMA PhaseInv ==
  ASSUME Inv, SkipCompleted \/ EndBatch \/ SkipEvent \/ handle_marker_recorded
  PROVE  Inv'
<1>1. /\ codeAlone /\ phase \in {"events", "decision_events"}
      /\ phase' \in {"next", "events", "decision_events"}
      /\ UNCHANGED <<serviceVars, querying, polled, batch, next_decision_event_id, id_counter,
                     completed>>
  <2>1. CASE SkipCompleted
    BY <2>1, Zenon DEF SkipCompleted, codeAlone, codeVars, deciderVars
  <2>2. CASE EndBatch
    BY <2>2, Zenon DEF EndBatch, codeAlone, codeVars, deciderVars
  <2>3. CASE SkipEvent
    BY <2>3, Zenon DEF SkipEvent, AtEvent, Consume, codeAlone, codeVars, deciderVars
  <2>4. CASE handle_marker_recorded
    BY <2>4, Zenon DEF handle_marker_recorded, AtEvent, Consume, codeAlone, codeVars
  <2> QED BY <2>1, <2>2, <2>3, <2>4
<1>2. at' \in Nat
  <2>1. at' = batch.end \/ at' = at \/ at' = at + 1
    BY DEF SkipCompleted, EndBatch, SkipEvent, handle_marker_recorded, Consume
  <2>2. at \in Nat /\ batch.end \in Nat
    BY DEF Inv, ThreadInv
  <2> QED BY <2>1, <2>2
<1>3. /\ next_decision_event_id > 0 /\ next_decision_event_id \in Nat /\ phase # "idle"
      /\ id_counter \in Nat /\ completed \in BOOLEAN
  BY <1>1, ThreadHasId DEF Inv, ThreadInv
<1>4. ThreadInv'
  BY <1>1, <1>2, <1>3, ThreadKept DEF Inv
<1> QED BY <1>1, <1>4, CodeStays DEF Inv, TasksInv

-----------------------------------------------------------------------------
(* Steps that throw the decider away *)

Empty ==
  /\ decisions = <<>> /\ scheduled_activities = <<>> /\ scheduled_timers = <<>>
  /\ task = <<>> /\ tasks = <<>> /\ ready = <<>> /\ quota = 0 /\ running = 0

CodeInv == IsDecisions(decisions) /\ TasksInv /\ PendingInv

\* A decider that has been made, or is gone, holds nothing that could be inconsistent.
LEMMA EmptyInv == Empty => CodeInv
<1> SUFFICES ASSUME Empty PROVE CodeInv
  OBVIOUS
<1> USE DEF Empty
<1>1. IsSequence(<<>>) /\ DOMAIN <<>> = {} /\ Len(<<>>) = 0
  BY EmptySequence
<1>2. ToSet(<<>>) = {} /\ NoRepeats(<<>>)
  BY <1>1 DEF ToSet, NoRepeats
<1>3. IsDecisions(decisions)
  BY <1>1 DEF IsDecisions
<1>4. TasksInv
  BY <1>1, <1>2 DEF TasksInv
<1>5. PendingInv
  BY <1>1 DEF PendingInv, OpenIn
<1> QED BY <1>3, <1>4, <1>5 DEF CodeInv

\* The decider is dropped, whatever it holds, and the next task starts with a new one.
LEMMA DropInv ==
  ASSUME Inv, DropDecider, Grows, workflow' = workflow
  PROVE  Inv'
<1>1. Empty'
  BY Zenon DEF DropDecider, Empty
<1>2. CodeInv'
  BY <1>1, EmptyInv, PTL
<1>3. /\ phase' = "idle" /\ querying' = FALSE /\ polled' = 0 /\ at' = 1 /\ batch' = NoBatch
      /\ next_decision_event_id' = 0 /\ id_counter' = 0 /\ completed' = FALSE
  BY Zenon DEF DropDecider
<1>4. Len(history') \in Nat
  BY SequenceIs DEF Grows, ServiceOK
<1>5. ThreadInv'
  <2>1. NoBatch \in [from : Nat, stop : Nat, replay : BOOLEAN, next_decision_event_id : Nat, end : Nat]
    BY DEF NoBatch
  <2>2. polled' \in 0..Len(history') /\ at' \in Nat /\ next_decision_event_id' \in Nat
        /\ id_counter' \in Nat
    BY <1>3, <1>4
  <2> QED BY <1>3, <2>1, <2>2, Zenon DEF ThreadInv, Grows, ServiceOK
<1> QED BY <1>2, <1>5 DEF Inv, CodeInv

-----------------------------------------------------------------------------
(* What a step makes of a task *)

\* The task awaits the next unblock_all, or has been unblocked.
LEMMA TaskAwaits ==
  ASSUME NEW r, IsTask(r), r.entered, NEW a \in {"none", "pending", "set"},
         NEW s, s = [r EXCEPT !.awaited = a]
  PROVE  IsTask(s) /\ SameWait(r, s) /\ s.awaited = a
<1>1. /\ s.name = r.name /\ s.status = r.status /\ s.pc = r.pc /\ s.entered = r.entered
      /\ s.awaited = a /\ s.id = r.id /\ s.fired = r.fired /\ s.result = r.result
  BY DEF IsTask
<1>2. IsTask(s)
  BY DEF IsTask
<1> QED BY <1>1, <1>2, Zenon DEF SameWait

\* The task has its result.
LEMMA TaskResult ==
  ASSUME NEW r, IsTask(r), r.entered, NEW x \in {"ok", "failed"}, NEW s, s = [r EXCEPT !.result = x]
  PROVE  IsTask(s) /\ s.status = r.status /\ s.awaited = r.awaited
BY DEF IsTask

\* The task's timer has fired.
LEMMA TaskFired ==
  ASSUME NEW r, IsTask(r), r.entered, NEW s, s = [r EXCEPT !.fired = TRUE]
  PROVE  IsTask(s) /\ s.status = r.status /\ s.awaited = r.awaited
BY DEF IsTask

\* The task starts, goes on or is done.
LEMMA TaskStatus ==
  ASSUME NEW r, IsTask(r), NEW x \in {"RUNNING", "DONE"}, NEW s, s = [r EXCEPT !.status = x]
  PROVE  /\ IsTask(s) /\ s.status = x /\ s.awaited = r.awaited
         /\ s.name = r.name /\ s.pc = r.pc /\ s.entered = r.entered
         /\ s.id = r.id /\ s.result = r.result /\ s.fired = r.fired
BY DEF IsTask

\* The task r is s once it has entered an operation that waits for id.
Entered(r, id, s) ==
  /\ IsTask(s) /\ s.status = r.status /\ s.awaited = r.awaited
  /\ s.name = r.name /\ s.pc = r.pc /\ s.entered
  /\ s.id = id /\ s.result = r.result /\ s.fired = r.fired

\* The task enters an operation.
LEMMA TaskEnters ==
  ASSUME NEW r, IsTask(r), NEW id \in Nat, NEW s, s = [r EXCEPT !.entered = TRUE, !.id = id]
  PROVE  Entered(r, id, s)
BY DEF IsTask, Entered

\* The task leaves its operation.
LEMMA TaskLeaves ==
  ASSUME NEW r, IsTask(r), NEW s,
         s = [r EXCEPT !.pc = @ + 1, !.entered = FALSE, !.awaited = "none", !.id = 0,
                       !.fired = FALSE, !.result = "none"]
  PROVE  /\ IsTask(s) /\ s.status = r.status /\ s.awaited = "none"
         /\ s.name = r.name /\ s.pc = r.pc + 1 /\ s.fired = FALSE /\ s.result = "none"
<1>1. r = [name |-> r.name, status |-> r.status, pc |-> r.pc, entered |-> r.entered,
           awaited |-> r.awaited, id |-> r.id, fired |-> r.fired, result |-> r.result]
  BY DEF IsTask
<1>2. r.status \in {"CREATED", "RUNNING", "DONE"} /\ r.pc + 1 \in Nat
  BY DEF IsTask
<1>3. s = [name |-> r.name, status |-> r.status, pc |-> r.pc + 1, entered |-> FALSE,
           awaited |-> "none", id |-> 0, fired |-> FALSE, result |-> "none"]
  BY <1>1
<1>4. /\ s.name = r.name /\ s.status = r.status /\ s.pc = r.pc + 1 /\ s.awaited = "none"
      /\ s.fired = FALSE /\ s.result = "none"
  BY <1>3
<1>5. IsTask(s)
  <2>1. \A name, status, pc :
          status \in {"CREATED", "RUNNING", "DONE"} /\ pc \in Nat =>
            IsTask([name |-> name, status |-> status, pc |-> pc, entered |-> FALSE,
                    awaited |-> "none", id |-> 0, fired |-> FALSE, result |-> "none"])
    BY DEF IsTask
  <2>2. IsTask([name |-> r.name, status |-> r.status, pc |-> r.pc + 1, entered |-> FALSE,
                awaited |-> "none", id |-> 0, fired |-> FALSE, result |-> "none"])
    <3> HIDE DEF IsTask
    <3> QED BY <2>1, <1>2
  <2> QED BY <2>2, <1>3
<1> QED BY <1>4, <1>5

\* An exception leaves the task's code.
LEMMA TaskRaises ==
  ASSUME NEW r, IsTask(r), NEW s, s = [r EXCEPT !.status = "DONE", !.id = 0]
  PROVE  IsTask(s) /\ s.status = "DONE" /\ s.awaited = r.awaited
BY DEF IsTask

\* A new task.
LEMMA TaskCreated ==
  ASSUME NEW name
  PROVE  /\ IsTask(Created(name)) /\ Created(name).status = "CREATED"
         /\ Created(name).awaited = "none" /\ Created(name).pc = 1
BY DEF IsTask, Created

\* Tasks that a step leaves as they are.
LEMMA UndisturbedTask ==
  ASSUME NEW t, t \in DOMAIN task', task'[t] = task[t],
         t \in ToSet(ready') => t \in ToSet(ready), t = running' => t = running
  PROVE  Undisturbed(t)
BY Zenon DEF Undisturbed, SameWait, Asleep

-----------------------------------------------------------------------------
(* The machines of the decisions *)

\* What a new machine for an entry makes of the decisions.
LEMMA MachineUpdate ==
  ASSUME IsDecisions(decisions), NEW k \in DOMAIN decisions, NEW n, Legal(n),
         n.target = decisions[k].machine.target,
         decisions' = [decisions EXCEPT ![k].machine = n]
  PROVE  /\ IsDecisions(decisions')
         /\ decisions'[k].machine = n
         /\ \A target, id : ~(target = n.target /\ id = decisions[k].id) =>
              (OpenIn(decisions', target, id) <=> OpenIn(decisions, target, id))
         /\ OpenIn(decisions', n.target, decisions[k].id) <=> ~is_done(n)
         /\ OpenIn(decisions, n.target, decisions[k].id) <=> ~is_done(decisions[k].machine)
<1> DEFINE e == [decisions[k] EXCEPT !.machine = n]
<1>1. /\ IsEntry(e) /\ e.machine = n /\ e.id = decisions[k].id
  BY MachineReplaced DEF IsDecisions
<1>2. decisions' = [decisions EXCEPT ![k] = e]
  OBVIOUS
<1> HIDE DEF e
<1>3. e.machine.target = decisions[k].machine.target
  BY <1>1
<1>4. /\ IsDecisions(decisions')
      /\ Replaced(decisions, decisions', k, e)
      /\ \A target, id : ~(target = e.machine.target /\ id = e.id) =>
           (OpenIn(decisions', target, id) <=> OpenIn(decisions, target, id))
      /\ OpenIn(decisions', e.machine.target, e.id) <=> ~is_done(e.machine)
      /\ OpenIn(decisions, e.machine.target, e.id) <=> ~is_done(decisions[k].machine)
  BY <1>1, <1>2, <1>3, EntryReplaced, Zenon
<1> QED BY <1>1, <1>4, Zenon DEF Replaced

\* What an event that raises nothing makes of the machine it is for.
LEMMA EventHandled ==
  ASSUME IsDecisions(decisions), history[at].type \in MachineEvents, Exception = "",
         NEW k, k = Addressed, NEW m, m = decisions[k].machine, NEW n, n = Handled(m)
  PROVE  /\ k \in DOMAIN decisions
         /\ Legal(n) /\ n.target = m.target
         /\ history[at].type \in ActivityClosed =>
              /\ m.target = "ACTIVITY" /\ decisions[k].id = history[at].ref /\ is_done(n)
              /\ history[at].ref \in DOMAIN scheduled_activities
         /\ history[at].type = "TimerFired" =>
              m.target = "TIMER" /\ decisions[k].id = history[at].ref /\ is_done(n)
         /\ history[at].type = "TimerCanceled" =>
              /\ m.target = "TIMER" /\ decisions[k].id = history[at].ref
              /\ is_done(n) /\ is_done(m)
         /\ history[at].type \notin ActivityClosed \cup {"TimerFired"} =>
              (is_done(n) <=> is_done(m))
<1> DEFINE type == history[at].type
<1>1. k # 0 /\ n.state # "ILLEGAL" /\ ~NoFuture(n)
  BY Zenon DEF Exception
<1>2. /\ k \in DOMAIN decisions
      /\ type \in ActivityClosed => m.target = "ACTIVITY" /\ decisions[k].id = history[at].ref
      /\ type \in {"TimerFired", "TimerCanceled"} =>
           m.target = "TIMER" /\ decisions[k].id = history[at].ref
      /\ m.target \in {"ACTIVITY", "TIMER"}
  <2> DEFINE A(id) == IndexOf(decisions, "ACTIVITY", id)
             T(id) == IndexOf(decisions, "TIMER", id)
  <2>1. \A id : A(id) # 0 => A(id) \in DOMAIN decisions /\ decisions[A(id)].id = id
                             /\ decisions[A(id)].machine.target = "ACTIVITY"
    BY IndexIs, Zenon DEF IsDecisions
  <2>2. \A id : T(id) # 0 => T(id) \in DOMAIN decisions /\ decisions[T(id)].id = id
                             /\ decisions[T(id)].machine.target = "TIMER"
    BY IndexIs, Zenon DEF IsDecisions
  <2>3. k = CASE type = "ActivityTaskScheduled" -> A(at)
              [] type \in {"TimerStarted", "CancelTimerFailed"} -> T(at)
              [] type \in ActivityClosed \cup {"ActivityTaskStarted"} -> A(history[at].ref)
              [] type \in TimerClosed -> T(history[at].ref)
    BY Zenon DEF Addressed
  <2> HIDE DEF A, T
  <2>4. CASE type = "ActivityTaskScheduled"
    <3>1. k = A(at)
      BY <2>3, <2>4 DEF ActivityClosed, TimerClosed
    <3> QED BY <3>1, <1>1, <2>1, <2>4 DEF ActivityClosed
  <2>5. CASE type \in {"TimerStarted", "CancelTimerFailed"}
    <3>1. k = T(at)
      BY <2>3, <2>5 DEF ActivityClosed, TimerClosed
    <3> QED BY <3>1, <1>1, <2>2, <2>5 DEF ActivityClosed
  <2>6. CASE type \in ActivityClosed \cup {"ActivityTaskStarted"}
    <3>1. k = A(history[at].ref)
      BY <2>3, <2>6 DEF ActivityClosed, TimerClosed
    <3> QED BY <3>1, <1>1, <2>1, <2>6 DEF ActivityClosed
  <2>7. CASE type \in TimerClosed
    <3>1. k = T(history[at].ref)
      BY <2>3, <2>7 DEF ActivityClosed, TimerClosed
    <3> QED BY <3>1, <1>1, <2>2, <2>7 DEF ActivityClosed, TimerClosed
  <2> QED BY <2>4, <2>5, <2>6, <2>7 DEF MachineEvents, TimerClosed, ActivityClosed
<1>3. Legal(m) /\ Waits(m)
  BY <1>2 DEF IsDecisions, IsEntry, Waits
<1>4. /\ type \in {"ActivityTaskScheduled", "TimerStarted"} => n = handle_initiated_event(m)
      /\ type \in ActivityClosed \cup {"TimerFired"} => n = handle_completion_event(m)
      /\ type = "TimerCanceled" => n = handle_cancellation_event(m)
      /\ type = "CancelTimerFailed" => n = handle_cancellation_failure_event(m)
      /\ type = "ActivityTaskStarted" => n = m
  BY DEF Handled, ActivityClosed
<1>5. /\ Legal(n) /\ n.target = m.target
      /\ type \in ActivityClosed \cup {"TimerFired"} => is_done(n)
      /\ type = "TimerCanceled" => is_done(n) /\ is_done(m)
      /\ type \notin ActivityClosed \cup {"TimerFired"} => (is_done(n) <=> is_done(m))
  <2>1. CASE type \in {"ActivityTaskScheduled", "TimerStarted"}
    <3>1. Legal(n) /\ n.target = m.target /\ (is_done(n) <=> is_done(m))
      BY <2>1, <1>1, <1>3, <1>4, InitiatedLegal, Zenon
    <3> QED BY <3>1, <2>1 DEF ActivityClosed
  <2>2. CASE type \in ActivityClosed \cup {"TimerFired"}
    <3>1. Legal(n) /\ n.target = m.target /\ is_done(n)
      BY <2>2, <1>1, <1>3, <1>4, CompletionLegal, Zenon
    <3> QED BY <3>1, <2>2 DEF ActivityClosed
  <2>3. CASE type = "TimerCanceled"
    <3>1. Legal(n) /\ n.target = m.target /\ is_done(n) /\ is_done(m)
      BY <2>3, <1>1, <1>3, <1>4, CancellationLegal, Zenon
    <3> QED BY <3>1, <2>3 DEF ActivityClosed
  <2>4. CASE type = "CancelTimerFailed"
    <3>1. Legal(n) /\ n.target = m.target /\ (is_done(n) <=> is_done(m))
      BY <2>4, <1>1, <1>3, <1>4, FailureLegal, Zenon
    <3> QED BY <3>1, <2>4 DEF ActivityClosed
  <2>5. CASE type = "ActivityTaskStarted"
    BY <2>5, <1>1, <1>3, <1>4 DEF ActivityClosed
  <2> QED BY <2>1, <2>2, <2>3, <2>4, <2>5 DEF MachineEvents
<1>6. type \in ActivityClosed => history[at].ref \in DOMAIN scheduled_activities
  BY <1>1, <1>5, Zenon DEF NoFuture
<1> QED BY <1>2, <1>5, <1>6

-----------------------------------------------------------------------------
(* Steps that change one task *)

\* The task t becomes r, in or out of the event loop.
TaskBecomes(t, r) ==
  /\ IsTask(r)
  /\ task' = [task EXCEPT ![t] = r]
  /\ tasks' = tasks \/ tasks' = Without(tasks, {t})
  /\ IsSequence(ready') /\ NoRepeats(ready') /\ ToSet(ready') \subseteq ToSet(ready) \cup {t}
  /\ quota' \in 0..Len(ready')
  /\ running' \in {0, running, t}
  /\ phase' \notin {"loop", "query"} => quota' = 0 /\ running' = 0
  /\ t \in ToSet(ready') => t # running' /\ r.status # "DONE" /\ r.awaited # "pending"
  /\ t = running' => r.status = "RUNNING" /\ r.awaited # "pending"
  /\ r.awaited = "pending" => r.status = "RUNNING"

\* The other tasks are not disturbed.
LEMMA TaskChanges ==
  ASSUME TasksInv, NEW t \in DOMAIN task, NEW r, TaskBecomes(t, r)
  PROVE  /\ TasksInv'
         /\ DOMAIN task' = DOMAIN task /\ task'[t] = r
         /\ \A u \in DOMAIN task : u # t => Undisturbed(u)
<1>1. /\ IsSequence(task') /\ DOMAIN task' = DOMAIN task /\ task'[t] = r
      /\ \A u \in DOMAIN task : u # t => task'[u] = task[u]
  BY SequenceExcept DEF TasksInv, TaskBecomes, Replaced
<1>2. \A u \in DOMAIN task' : IsTask(task'[u])
  BY <1>1, Zenon DEF TasksInv, TaskBecomes
<1>3. IsSequence(tasks') /\ ToSet(tasks') \subseteq DOMAIN task' /\ NoRepeats(tasks')
  <2>1. CASE tasks' = tasks
    BY <1>1, <2>1 DEF TasksInv
  <2>2. CASE tasks' = Without(tasks, {t})
    BY <1>1, <2>2, WithoutIs DEF TasksInv
  <2> QED BY <2>1, <2>2 DEF TaskBecomes
<1>4. ToSet(ready') \subseteq DOMAIN task' /\ running' \in {0} \cup DOMAIN task'
  BY <1>1 DEF TasksInv, TaskBecomes
<1>5. 0 \notin DOMAIN task
  BY SequenceIs DEF TasksInv
<1>6. \A u \in DOMAIN task : u # t => /\ u \in ToSet(ready') => u \in ToSet(ready)
                                      /\ u = running' => u = running
  BY <1>5 DEF TaskBecomes
<1>7. ASSUME NEW u \in DOMAIN task'
      PROVE  /\ u \in ToSet(ready') =>
                  u # running' /\ task'[u].status # "DONE" /\ task'[u].awaited # "pending"
             /\ u = running' => task'[u].status = "RUNNING" /\ task'[u].awaited # "pending"
             /\ task'[u].awaited = "pending" => task'[u].status = "RUNNING"
  <2>1. CASE u = t
    BY <2>1, <1>1, Zenon DEF TaskBecomes
  <2>2. CASE u # t
    <3>1. /\ u \in DOMAIN task /\ task'[u] = task[u]
          /\ u \in ToSet(ready') => u \in ToSet(ready)
          /\ u = running' => u = running
      BY <2>2, <1>1, <1>6
    <3> QED BY <3>1, Zenon DEF TasksInv
  <2> QED BY <2>1, <2>2
<1>8. TasksInv'
  BY <1>1, <1>2, <1>3, <1>4, <1>7, Zenon DEF TasksInv, TaskBecomes
<1>9. \A u \in DOMAIN task : u # t => Undisturbed(u)
  BY <1>1, <1>6, UndisturbedTask, Zenon
<1> QED BY <1>1, <1>8, <1>9

\* A task that waits for something and is asleep gets its result, or the note that
\* its timer has fired.
LEMMA ResolvedTask ==
  ASSUME TasksInv, NEW t \in DOMAIN task, task[t].status = "RUNNING", task[t].entered,
         phase' = phase, UNCHANGED <<tasks, quota, running>>,
         \/ \E x \in {"ok", "failed"} : Resolve(t, x) /\ Asleep(t)
         \/ task' = [task EXCEPT ![t].fired = TRUE] /\ ready' = ready
  PROVE  \E r : TaskBecomes(t, r)
<1>1. IsTask(task[t]) /\ IsSequence(ready) /\ NoRepeats(ready) /\ quota \in 0..Len(ready)
  BY DEF TasksInv
<1>2. /\ phase' \notin {"loop", "query"} => quota' = 0 /\ running' = 0
      /\ t = running => task[t].awaited # "pending"
      /\ t \in ToSet(ready) => t # running /\ task[t].awaited # "pending"
  BY Zenon DEF TasksInv
<1>3. ASSUME NEW x \in {"ok", "failed"}, Resolve(t, x), Asleep(t)
      PROVE  \E r : TaskBecomes(t, r)
  <2> DEFINE r == [task[t] EXCEPT !.result = x]
  <2>1. IsTask(r) /\ r.status = "RUNNING" /\ r.awaited = "none"
    BY <1>1, <1>3, TaskResult DEF Asleep
  <2>2. task' = [task EXCEPT ![t] = r] /\ ready' = Append(ready, t)
    BY <1>3 DEF Resolve
  <2> HIDE DEF r
  <2>3. /\ IsSequence(ready') /\ NoRepeats(ready') /\ ToSet(ready') = ToSet(ready) \cup {t}
        /\ Len(ready') = Len(ready) + 1
    BY <1>1, <1>3, <2>2, SequenceAppend, AppendRepeats DEF Asleep
  <2>4. quota' \in 0..Len(ready')
    <3> Len(ready) \in Nat
      BY <1>1, SequenceIs
    <3> QED BY <1>1, <2>3
  <2>5. t # running'
    BY <1>3 DEF Asleep
  <2>6. TaskBecomes(t, r)
    BY <2>1, <2>2, <2>3, <2>4, <2>5, <1>2, Zenon DEF TaskBecomes
  <2> QED BY <2>6
<1>4. CASE task' = [task EXCEPT ![t].fired = TRUE] /\ ready' = ready
  <2> DEFINE r == [task[t] EXCEPT !.fired = TRUE]
  <2>1. IsTask(r) /\ r.status = "RUNNING" /\ r.awaited = task[t].awaited
    BY <1>1, TaskFired
  <2>2. task' = [task EXCEPT ![t] = r]
    BY <1>4
  <2> HIDE DEF r
  <2>3. TaskBecomes(t, r)
    BY <2>1, <2>2, <1>1, <1>2, <1>4 DEF TaskBecomes
  <2> QED BY <2>3
<1> QED BY <1>3, <1>4

-----------------------------------------------------------------------------
(* process_event *)

\* pop takes one id out of a dictionary and leaves the others.
LEMMA PopIs ==
  ASSUME NEW dict, NEW id
  PROVE  /\ DOMAIN Pop(dict, id) = DOMAIN dict \ {id}
         /\ \A i \in DOMAIN dict \ {id} : Pop(dict, id)[i] = dict[i]
BY DEF Pop

\* The thread goes on after an event.
LEMMA EventThread ==
  ASSUME Inv, NEW types, AtEvent(types), Consume, next_decision_event_id' \in Nat,
         next_decision_event_id' > 0, id_counter' \in Nat, completed' \in BOOLEAN
  PROVE  ThreadInv' /\ workflow' = workflow /\ phase' = phase /\ phase \in {"events", "decision_events"}
<1>1. /\ at' = at + 1 /\ UNCHANGED <<serviceVars, workflow, querying, phase, polled, batch>>
      /\ phase \in {"events", "decision_events"}
  BY DEF Consume, AtEvent
<1>2. at' \in Nat
  <2> at \in Nat
    BY DEF Inv, ThreadInv
  <2> QED BY <1>1
<1>3. ThreadInv'
  BY <1>1, <1>2, ThreadKept DEF Inv
<1> QED BY <1>1, <1>3

\* An event for the decision at k makes n of its machine m.
Updates(k, m, n, types) ==
  /\ k = Addressed /\ m = decisions[k].machine /\ n = Handled(m)
  /\ ThreadInv' /\ workflow' = workflow /\ phase' = phase
  /\ phase \in {"events", "decision_events"}
  /\ history[at].type \in types
  /\ IsDecisions(decisions')
  /\ decisions'[k].machine = n
  /\ \A target, id : ~(target = m.target /\ id = decisions[k].id) =>
       (OpenIn(decisions', target, id) <=> OpenIn(decisions, target, id))
  /\ OpenIn(decisions', m.target, decisions[k].id) <=> ~is_done(n)
  /\ OpenIn(decisions, m.target, decisions[k].id) <=> ~is_done(m)

\* What an event for a machine makes of the decisions, and of the thread.
LEMMA EventUpdates ==
  ASSUME Inv, NEW types, types \subseteq MachineEvents, AtEvent(types), UpdateMachine, Consume
  PROVE  \E k, m, n : Updates(k, m, n, types)
<1> PICK k, m, n : k = Addressed /\ m = decisions[k].machine /\ n = Handled(m)
  OBVIOUS
<1>1. history[at].type \in types /\ phase \in {"events", "decision_events"} /\ Exception = ""
      /\ UNCHANGED <<next_decision_event_id, id_counter, completed>>
  BY DEF AtEvent, UpdateMachine
<1>2. next_decision_event_id > 0 /\ next_decision_event_id \in Nat
      /\ id_counter \in Nat /\ completed \in BOOLEAN
  BY <1>1, ThreadHasId DEF Inv, ThreadInv
<1>3. ThreadInv' /\ workflow' = workflow /\ phase' = phase
  BY <1>1, <1>2, EventThread
<1>4. k \in DOMAIN decisions /\ Legal(n) /\ n.target = m.target
  BY <1>1, EventHandled, Zenon DEF Inv
<1>5. decisions' = [decisions EXCEPT ![k].machine = n]
  BY <1>4 DEF UpdateMachine
<1>6. /\ IsDecisions(decisions') /\ decisions'[k].machine = n
      /\ \A target, id : ~(target = n.target /\ id = decisions[k].id) =>
           (OpenIn(decisions', target, id) <=> OpenIn(decisions, target, id))
      /\ OpenIn(decisions', n.target, decisions[k].id) <=> ~is_done(n)
      /\ OpenIn(decisions, n.target, decisions[k].id) <=> ~is_done(decisions[k].machine)
  BY <1>4, <1>5, MachineUpdate, Zenon DEF Inv
<1>7. Updates(k, m, n, types)
  BY <1>1, <1>3, <1>4, <1>6 DEF Updates
<1> QED BY <1>7

\* An event that ends no wait.
LEMMA InitiatedInv ==
  ASSUME Inv, handle_initiated
  PROVE  Inv'
<1> DEFINE types == {"ActivityTaskScheduled", "ActivityTaskStarted", "TimerStarted", "CancelTimerFailed"}
<1>2. types \subseteq MachineEvents /\ types \cap (ActivityClosed \cup {"TimerFired"}) = {}
  BY DEF MachineEvents, ActivityClosed
<1>3. AtEvent(types) /\ UpdateMachine /\ Consume
  BY DEF handle_initiated
<1> HIDE DEF types
<1>1. PICK k, m, n : Updates(k, m, n, types)
  BY <1>2, <1>3, EventUpdates, Zenon
<1>4. /\ ThreadInv' /\ workflow' = workflow /\ phase' = phase
      /\ phase \in {"events", "decision_events"}
      /\ IsDecisions(decisions') /\ history[at].type \in types
      /\ \A target, id : ~(target = m.target /\ id = decisions[k].id) =>
              (OpenIn(decisions', target, id) <=> OpenIn(decisions, target, id))
      /\ OpenIn(decisions', m.target, decisions[k].id) <=> ~is_done(n)
      /\ OpenIn(decisions, m.target, decisions[k].id) <=> ~is_done(m)
  BY <1>1, Zenon DEF Updates
<1>5. is_done(n) <=> is_done(m)
  <2>1. history[at].type \in MachineEvents
        /\ history[at].type \notin ActivityClosed \cup {"TimerFired"}
    BY <1>2, <1>4
  <2>2. IsDecisions(decisions) /\ Exception = ""
    BY <1>3 DEF UpdateMachine, Inv
  <2>3. k = Addressed /\ m = decisions[k].machine /\ n = Handled(m)
    BY <1>1 DEF Updates
  <2>4. history[at].type \notin ActivityClosed \cup {"TimerFired"} => (is_done(n) <=> is_done(m))
    BY <2>1, <2>2, <2>3, EventHandled, Zenon
  <2> QED BY <2>1, <2>4
<1>6. \A target, id : OpenIn(decisions', target, id) <=> OpenIn(decisions, target, id)
  BY <1>4, <1>5, Zenon
<1>7. UNCHANGED <<scheduled_activities, scheduled_timers, task, tasks, ready, quota, running>>
  BY DEF handle_initiated, codeVars
<1>8. TasksInv'
  BY <1>4, <1>7, Zenon DEF Inv, TasksInv
<1>9. \A t \in DOMAIN task : Undisturbed(t)
  BY <1>7, UndisturbedTask, Zenon
<1>10. PendingInv'
  BY <1>4, <1>6, <1>7, <1>9, PendingStays, Zenon DEF Inv, PendingInv, HoldsActivity, HoldsTimer
<1> QED BY <1>4, <1>8, <1>10, Zenon DEF Inv

\* The dict of activities loses the entry of the one that has ended.
LEMMA ActivityClosedInv ==
  ASSUME Inv, handle_activity_closed
  PROVE  Inv'
<1>2. PICK id, t : id = history[at].ref /\ t = scheduled_activities[id]
  OBVIOUS
<1>3. ActivityClosed \subseteq MachineEvents /\ AtEvent(ActivityClosed) /\ UpdateMachine /\ Consume
  BY DEF MachineEvents, handle_activity_closed
<1>1. PICK k, m, n : Updates(k, m, n, ActivityClosed)
  BY <1>3, EventUpdates, Zenon
<1>4. /\ ThreadInv' /\ workflow' = workflow /\ phase' = phase
      /\ phase \in {"events", "decision_events"}
      /\ IsDecisions(decisions') /\ history[at].type \in ActivityClosed
      /\ decisions'[k].machine = n
      /\ \A target, i : ~(target = m.target /\ i = decisions[k].id) =>
              (OpenIn(decisions', target, i) <=> OpenIn(decisions, target, i))
      /\ OpenIn(decisions', m.target, decisions[k].id) <=> ~is_done(n)
  BY <1>1, Zenon DEF Updates
<1>5. m.target = "ACTIVITY" /\ decisions[k].id = id /\ is_done(n) /\ id \in DOMAIN scheduled_activities
  <2>1. history[at].type \in MachineEvents
    BY <1>3, <1>4
  <2> QED BY <2>1, <1>1, <1>2, <1>3, <1>4, EventHandled, Zenon DEF UpdateMachine, Inv, Updates
<1>6. /\ scheduled_activities' = Pop(scheduled_activities, id)
      /\ \E x \in {"ok", "failed"} : Resolve(t, x)
      /\ UNCHANGED <<scheduled_timers, tasks, quota, running>>
  <2>1. is_done(decisions'[Addressed].machine)
    BY <1>1, <1>4, <1>5, Zenon DEF Updates
  <2>2. /\ scheduled_activities' = Pop(scheduled_activities, id)
        /\ Resolve(t, ActivityOutcome(history[at].type))
        /\ UNCHANGED <<scheduled_timers, tasks, quota, running>>
    BY <2>1, <1>2, Zenon DEF handle_activity_closed, Waiter
  <2>3. ActivityOutcome(history[at].type) \in {"ok", "failed"}
    BY DEF ActivityOutcome
  <2> QED BY <2>2, <2>3, Zenon
<1>7. t \in DOMAIN task /\ WaitsFor(t, {"activity"}, id) /\ Asleep(t)
  BY <1>2, <1>5, Zenon DEF Inv, PendingInv, HoldsActivity
<1>8. PICK r : TaskBecomes(t, r)
  BY <1>4, <1>6, <1>7, ResolvedTask, Zenon DEF WaitsFor, Inv
<1>9. TasksInv' /\ \A u \in DOMAIN task : u # t => Undisturbed(u)
  BY <1>7, <1>8, TaskChanges, Zenon DEF Inv
<1>10. /\ \A i : i \in DOMAIN scheduled_activities' <=> i \in DOMAIN scheduled_activities /\ i # id
       /\ \A i \in DOMAIN scheduled_activities' : scheduled_activities'[i] = scheduled_activities[i]
  <2>1. scheduled_activities' = Pop(scheduled_activities, id)
    BY <1>6
  <2> QED BY <2>1, PopIs, Zenon
<1>11. /\ \A i : i \in DOMAIN scheduled_activities' <=> OpenIn(decisions', "ACTIVITY", i)
       /\ \A i : i \in DOMAIN scheduled_timers' <=> OpenIn(decisions', "TIMER", i)
  <2>1. \A i : OpenIn(decisions', "TIMER", i) <=> OpenIn(decisions, "TIMER", i)
    <3> "TIMER" # "ACTIVITY"
      OBVIOUS
    <3> QED BY <1>4, <1>5, Zenon
  <2> QED BY <2>1, <1>4, <1>5, <1>6, <1>10, Zenon DEF Inv, PendingInv
<1>12. ASSUME NEW i \in DOMAIN scheduled_activities'
       PROVE  Undisturbed(scheduled_activities[i])
  <2>1. i \in DOMAIN scheduled_activities /\ i # id
    BY <1>10
  <2>2. scheduled_activities[i] \in DOMAIN task /\ task[scheduled_activities[i]].id = i
    BY <2>1, Zenon DEF Inv, PendingInv, HoldsActivity, WaitsFor
  <2>3. task[t].id = id
    BY <1>7 DEF WaitsFor
  <2> QED BY <2>1, <2>2, <2>3, <1>9
<1>13. ASSUME NEW i \in DOMAIN scheduled_timers'
       PROVE  Undisturbed(scheduled_timers[i])
  <2>1. /\ scheduled_timers[i] \in DOMAIN task
        /\ Op(scheduled_timers[i]).op \in {"sleep", "await_timeout"}
    BY <1>6, Zenon DEF Inv, PendingInv, HoldsTimer, WaitsFor
  <2>2. Op(t).op = "activity"
    BY <1>7 DEF WaitsFor
  <2> QED BY <2>1, <2>2, <1>9
<1>14. PendingInv'
  BY <1>4, <1>6, <1>10, <1>11, <1>12, <1>13, PendingStays, Zenon DEF Inv
<1> QED BY <1>4, <1>9, <1>14, Zenon DEF Inv

\* The dict of timers loses the entry of the one that has fired.
LEMMA TimerFiredInv ==
  ASSUME Inv, handle_timer_fired
  PROVE  Inv'
<1>2. PICK id, t : id = history[at].ref /\ t = scheduled_timers[id]
  OBVIOUS
<1>3. {"TimerFired"} \subseteq MachineEvents /\ AtEvent({"TimerFired"}) /\ UpdateMachine /\ Consume
  BY DEF MachineEvents, handle_timer_fired
<1>1. PICK k, m, n : Updates(k, m, n, {"TimerFired"})
  BY <1>3, EventUpdates, Zenon
<1>4. /\ ThreadInv' /\ workflow' = workflow /\ phase' = phase
      /\ phase \in {"events", "decision_events"}
      /\ IsDecisions(decisions') /\ history[at].type \in {"TimerFired"}
      /\ decisions'[k].machine = n
      /\ \A target, i : ~(target = m.target /\ i = decisions[k].id) =>
              (OpenIn(decisions', target, i) <=> OpenIn(decisions, target, i))
      /\ OpenIn(decisions', m.target, decisions[k].id) <=> ~is_done(n)
  BY <1>1, Zenon DEF Updates
<1>5. m.target = "TIMER" /\ decisions[k].id = id /\ is_done(n)
  <2>1. history[at].type = "TimerFired" /\ history[at].type \in MachineEvents
    BY <1>3, <1>4
  <2> QED BY <2>1, <1>1, <1>2, <1>3, <1>4, EventHandled, Zenon DEF UpdateMachine, Inv, Updates
<1>6. is_done(decisions'[Addressed].machine)
  BY <1>1, <1>4, <1>5, Zenon DEF Updates
<1>7. UNCHANGED <<scheduled_activities, tasks, quota, running>>
  BY DEF handle_timer_fired
<1>8. \A i : OpenIn(decisions', "ACTIVITY", i) <=> OpenIn(decisions, "ACTIVITY", i)
  <2> "TIMER" # "ACTIVITY"
    OBVIOUS
  <2> QED BY <1>4, <1>5, Zenon
<1>9. CASE id \notin DOMAIN scheduled_timers
  <2>1. UNCHANGED <<scheduled_timers, task, ready>>
    BY <1>2, <1>9, Zenon DEF handle_timer_fired
  <2>2. TasksInv'
    BY <2>1, <1>4, <1>7, Zenon DEF Inv, TasksInv
  <2>3. \A u \in DOMAIN task : Undisturbed(u)
    BY <2>1, <1>7, UndisturbedTask, Zenon
  <2>4. \A i : i \in DOMAIN scheduled_timers' <=> OpenIn(decisions', "TIMER", i)
    BY <2>1, <1>4, <1>5, <1>9, Zenon DEF Inv, PendingInv
  <2>5. PendingInv'
    BY <2>1, <2>3, <2>4, <1>4, <1>7, <1>8, PendingStays, Zenon
       DEF Inv, PendingInv, HoldsActivity, HoldsTimer
  <2> QED BY <2>2, <2>5, <1>4, Zenon DEF Inv
<1>10. CASE id \in DOMAIN scheduled_timers
  <2>1. /\ scheduled_timers' = Pop(scheduled_timers, id)
        /\ IF Op(t).op = "sleep" THEN Resolve(t, "ok")
           ELSE task' = [task EXCEPT ![t].fired = TRUE] /\ ready' = ready
    BY <1>2, <1>6, <1>10, Zenon DEF handle_timer_fired, Waiter
  <2>2. /\ t \in DOMAIN task /\ WaitsFor(t, {"sleep", "await_timeout"}, id)
        /\ Op(t).op = "sleep" => Asleep(t)
    BY <1>2, <1>10, Zenon DEF Inv, PendingInv, HoldsTimer
  <2>3. \/ \E x \in {"ok", "failed"} : Resolve(t, x) /\ Asleep(t)
        \/ task' = [task EXCEPT ![t].fired = TRUE] /\ ready' = ready
    BY <2>1, <2>2
  <2>4. PICK r : TaskBecomes(t, r)
    BY <1>4, <1>7, <2>2, <2>3, ResolvedTask, Zenon DEF WaitsFor, Inv
  <2>5. TasksInv' /\ \A u \in DOMAIN task : u # t => Undisturbed(u)
    BY <2>2, <2>4, TaskChanges, Zenon DEF Inv
  <2>6. /\ \A i : i \in DOMAIN scheduled_timers' <=> i \in DOMAIN scheduled_timers /\ i # id
        /\ \A i \in DOMAIN scheduled_timers' : scheduled_timers'[i] = scheduled_timers[i]
    <3> scheduled_timers' = Pop(scheduled_timers, id)
      BY <2>1
    <3> QED BY PopIs
  <2>7. \A i : i \in DOMAIN scheduled_timers' <=> OpenIn(decisions', "TIMER", i)
    BY <2>6, <1>4, <1>5, Zenon DEF Inv, PendingInv
  <2>8. ASSUME NEW i \in DOMAIN scheduled_timers'
        PROVE  Undisturbed(scheduled_timers[i])
    <3>1. i \in DOMAIN scheduled_timers /\ i # id
      BY <2>6
    <3>2. scheduled_timers[i] \in DOMAIN task /\ task[scheduled_timers[i]].id = i
      BY <3>1, Zenon DEF Inv, PendingInv, HoldsTimer, WaitsFor
    <3>3. task[t].id = id
      BY <2>2 DEF WaitsFor
    <3> QED BY <3>1, <3>2, <3>3, <2>5
  <2>9. ASSUME NEW i \in DOMAIN scheduled_activities'
        PROVE  Undisturbed(scheduled_activities[i])
    <3>1. /\ scheduled_activities[i] \in DOMAIN task
          /\ Op(scheduled_activities[i]).op = "activity"
      BY <1>7 DEF Inv, PendingInv, HoldsActivity, WaitsFor
    <3>2. Op(t).op \in {"sleep", "await_timeout"}
      BY <2>2 DEF WaitsFor
    <3> QED BY <3>1, <3>2, <2>5
  <2>10. PendingInv'
    BY <1>4, <1>7, <1>8, <2>6, <2>7, <2>8, <2>9, PendingStays, Zenon DEF Inv, PendingInv
  <2> QED BY <1>4, <2>5, <2>10, Zenon DEF Inv
<1> QED BY <1>9, <1>10

\* A confirmed cancelation finds the timer done with: its callback is gone already.
LEMMA TimerCanceledInv ==
  ASSUME Inv, handle_timer_canceled
  PROVE  Inv'
<1>2. PICK id : id = history[at].ref
  OBVIOUS
<1>3. {"TimerCanceled"} \subseteq MachineEvents /\ AtEvent({"TimerCanceled"}) /\ UpdateMachine /\ Consume
  BY DEF MachineEvents, handle_timer_canceled
<1>1. PICK k, m, n : Updates(k, m, n, {"TimerCanceled"})
  BY <1>3, EventUpdates, Zenon
<1>4. /\ ThreadInv' /\ workflow' = workflow /\ phase' = phase
      /\ phase \in {"events", "decision_events"}
      /\ IsDecisions(decisions') /\ history[at].type \in {"TimerCanceled"}
      /\ \A target, i : ~(target = m.target /\ i = decisions[k].id) =>
              (OpenIn(decisions', target, i) <=> OpenIn(decisions, target, i))
      /\ OpenIn(decisions', m.target, decisions[k].id) <=> ~is_done(n)
      /\ OpenIn(decisions, m.target, decisions[k].id) <=> ~is_done(m)
      /\ decisions'[k].machine = n
  BY <1>1, Zenon DEF Updates
<1>5. m.target = "TIMER" /\ decisions[k].id = id /\ is_done(n) /\ is_done(m)
  <2>1. history[at].type = "TimerCanceled" /\ history[at].type \in MachineEvents
    BY <1>3, <1>4
  <2> QED BY <2>1, <1>1, <1>2, <1>3, <1>4, EventHandled, Zenon DEF UpdateMachine, Inv, Updates
<1>6. \A target, i : OpenIn(decisions', target, i) <=> OpenIn(decisions, target, i)
  BY <1>4, <1>5, Zenon
<1>7. /\ scheduled_timers' = Pop(scheduled_timers, id)
      /\ UNCHANGED <<scheduled_activities, task, tasks, ready, quota, running>>
  <2>1. is_done(decisions'[Addressed].machine)
    BY <1>1, <1>4, <1>5, Zenon DEF Updates
  <2> QED BY <2>1, <1>2, Zenon DEF handle_timer_canceled, timer_cancelled, codeVars
<1>8. id \notin DOMAIN scheduled_timers
  BY <1>4, <1>5, Zenon DEF Inv, PendingInv
<1>9. /\ \A i : i \in DOMAIN scheduled_timers' <=> i \in DOMAIN scheduled_timers
      /\ \A i \in DOMAIN scheduled_timers' : scheduled_timers'[i] = scheduled_timers[i]
  <2>1. scheduled_timers' = Pop(scheduled_timers, id)
    BY <1>7
  <2>2. DOMAIN scheduled_timers \ {id} = DOMAIN scheduled_timers
    BY <1>8
  <2>3. /\ DOMAIN scheduled_timers' = DOMAIN scheduled_timers
        /\ \A i \in DOMAIN scheduled_timers : scheduled_timers'[i] = scheduled_timers[i]
    BY <2>1, <2>2, PopIs
  <2> QED BY <2>3, Zenon
<1>10. TasksInv'
  BY <1>4, <1>7, Zenon DEF Inv, TasksInv
<1>11. \A t \in DOMAIN task : Undisturbed(t)
  BY <1>7, UndisturbedTask, Zenon
<1>12. PendingInv'
  BY <1>4, <1>6, <1>7, <1>9, <1>11, PendingStays, Zenon DEF Inv, PendingInv, HoldsActivity, HoldsTimer
<1> QED BY <1>4, <1>10, <1>12, Zenon DEF Inv

\* A new task, which has a handle in the event loop.
LEMMA NewTaskKeeps ==
  ASSUME TasksInv, NEW name, NewTask(name), running' = running, quota' \in 0..Len(ready'),
         phase' \notin {"loop", "query"} => quota' = 0 /\ running' = 0
  PROVE  TasksInv' /\ \A t \in DOMAIN task : Undisturbed(t)
<1> DEFINE n == Len(task) + 1
<1>1. /\ IsSequence(task') /\ DOMAIN task' = DOMAIN task \cup {n}
      /\ Len(task') = n
      /\ \A t \in DOMAIN task : task'[t] = task[t]
      /\ task'[n] = Created(name)
  BY SequenceAppend DEF NewTask, TasksInv
<1>2. n \notin DOMAIN task /\ n # 0
  BY SequenceIs DEF TasksInv
<1> HIDE DEF n
<1>3. tasks' = Append(tasks, n) /\ ready' = Append(ready, n)
  BY <1>1 DEF NewTask
<1>4. n \notin ToSet(tasks) /\ n \notin ToSet(ready) /\ n # running
  BY <1>2 DEF TasksInv
<1>5. \A t \in DOMAIN task' : IsTask(task'[t])
  BY <1>1, TaskCreated, Zenon DEF TasksInv
<1>6. IsSequence(tasks') /\ ToSet(tasks') = ToSet(tasks) \cup {n} /\ NoRepeats(tasks')
  BY <1>3, <1>4, SequenceAppend, AppendRepeats DEF TasksInv
<1>7. IsSequence(ready') /\ ToSet(ready') = ToSet(ready) \cup {n} /\ NoRepeats(ready')
  BY <1>3, <1>4, SequenceAppend, AppendRepeats DEF TasksInv
<1>8. /\ ToSet(tasks') \subseteq DOMAIN task' /\ ToSet(ready') \subseteq DOMAIN task'
      /\ running' \in {0} \cup DOMAIN task'
  BY <1>1, <1>6, <1>7 DEF TasksInv
<1>9. ASSUME NEW t \in DOMAIN task'
      PROVE  /\ t \in ToSet(ready') =>
                  t # running' /\ task'[t].status # "DONE" /\ task'[t].awaited # "pending"
             /\ t = running' => task'[t].status = "RUNNING" /\ task'[t].awaited # "pending"
             /\ task'[t].awaited = "pending" => task'[t].status = "RUNNING"
  <2>1. CASE t = n
    <3>1. task'[t].status = "CREATED" /\ task'[t].awaited = "none"
      BY <2>1, <1>1, TaskCreated
    <3> QED BY <3>1, <2>1, <1>4
  <2>2. CASE t # n
    <3>1. /\ t \in DOMAIN task /\ task'[t] = task[t]
          /\ t \in ToSet(ready') => t \in ToSet(ready)
      BY <2>2, <1>1, <1>7
    <3> QED BY <3>1, Zenon DEF TasksInv
  <2> QED BY <2>1, <2>2
<1>10. TasksInv'
  BY <1>1, <1>5, <1>6, <1>7, <1>8, <1>9, Zenon DEF TasksInv
<1>11. ASSUME NEW t \in DOMAIN task PROVE Undisturbed(t)
  <2>1. t \in ToSet(ready') => t \in ToSet(ready)
    BY <1>2, <1>7
  <2> QED BY <2>1, <1>1, UndisturbedTask, Zenon
<1> QED BY <1>10, <1>11

\* Steps that leave the decisions and the dicts, and disturb no task.
LEMMA TablesStay ==
  ASSUME Inv, workflow' = workflow, ThreadInv', TasksInv', \A t \in DOMAIN task : Undisturbed(t),
         IsDecisions(decisions'),
         \A id : OpenIn(decisions', "ACTIVITY", id) <=> OpenIn(decisions, "ACTIVITY", id),
         \A id : OpenIn(decisions', "TIMER", id) <=> OpenIn(decisions, "TIMER", id),
         UNCHANGED <<scheduled_activities, scheduled_timers>>
  PROVE  Inv'
<1>1. PendingInv'
  BY PendingStays, Zenon DEF Inv, PendingInv, HoldsActivity, HoldsTimer
<1> QED BY <1>1, Zenon DEF Inv

\* The workflow and its signal methods get their tasks.
LEMMA StartedInv ==
  ASSUME Inv, handle_workflow_execution_started \/ handle_workflow_execution_signaled
  PROVE  Inv'
<1>1. /\ \E types : AtEvent(types)
      /\ \E name : NewTask(name)
      /\ Consume /\ UNCHANGED <<deciderVars, quota, running>>
  BY Zenon DEF handle_workflow_execution_started, handle_workflow_execution_signaled
<1>2. phase \in {"events", "decision_events"} /\ UNCHANGED <<next_decision_event_id, id_counter,
        completed, decisions, scheduled_activities, scheduled_timers>>
  BY <1>1 DEF AtEvent, deciderVars
<1>3. /\ next_decision_event_id > 0 /\ next_decision_event_id \in Nat
      /\ id_counter \in Nat /\ completed \in BOOLEAN
  BY <1>2, ThreadHasId DEF Inv, ThreadInv
<1>4. ThreadInv' /\ workflow' = workflow /\ phase' = phase
  BY <1>1, <1>2, <1>3, EventThread
<1>5. quota' = 0 /\ running' = running /\ running = 0
  BY <1>1, <1>2 DEF Inv, TasksInv
<1>6. quota' \in 0..Len(ready')
  <2>1. IsSequence(ready')
    BY <1>1, SequenceAppend DEF NewTask, Inv, TasksInv
  <2>2. Len(ready') \in Nat
    BY <2>1, SequenceIs
  <2> QED BY <2>2, <1>5
<1>7. TasksInv' /\ \A t \in DOMAIN task : Undisturbed(t)
  BY <1>1, <1>5, <1>6, NewTaskKeeps, Zenon DEF Inv
<1> QED BY <1>2, <1>4, <1>7, TablesStay, Zenon DEF Inv

\* A decision that nothing waits for has nothing to do with the others.
LEMMA OtherAdded ==
  ASSUME IsDecisions(decisions), next_decision_event_id \in Nat,
         NEW target \in {"SELF", "MARKER"}, NEW i \in Nat, NEW key, NEW name,
         add_decision(Entry(target, i, key, name))
  PROVE  /\ IsDecisions(decisions')
         /\ \A id : OpenIn(decisions', "ACTIVITY", id) <=> OpenIn(decisions, "ACTIVITY", id)
         /\ \A id : OpenIn(decisions', "TIMER", id) <=> OpenIn(decisions, "TIMER", id)
         /\ next_decision_event_id' \in Nat /\ next_decision_event_id' > 0
<1> DEFINE e == Entry(target, i, key, name)
<1>1. /\ decisions' = WithDecision(e)
      /\ next_decision_event_id' = next_decision_event_id + 1
  BY DEF add_decision
<1>2. IsEntry(e) /\ e.machine.target = target
  BY EntryIs DEF Targets
<1> HIDE DEF e
<1>3. Adds(decisions, decisions', e)
  BY <1>1, <1>2, DecisionAdded
<1>4. target # "ACTIVITY" /\ target # "TIMER"
  OBVIOUS
<1>5. /\ \A id : OpenIn(decisions', "ACTIVITY", id) <=> OpenIn(decisions, "ACTIVITY", id)
      /\ \A id : OpenIn(decisions', "TIMER", id) <=> OpenIn(decisions, "TIMER", id)
  BY <1>2, <1>3, <1>4, Zenon DEF Adds
<1> QED BY <1>1, <1>3, <1>5 DEF Adds

\* Neither has the one that closes the execution.
LEMMA ClosingIs ==
  ASSUME IsDecisions(decisions), NEW type, close_workflow_execution(type),
         next_decision_event_id \in Nat
  PROVE  /\ IsDecisions(decisions')
         /\ \A id : OpenIn(decisions', "ACTIVITY", id) <=> OpenIn(decisions, "ACTIVITY", id)
         /\ \A id : OpenIn(decisions', "TIMER", id) <=> OpenIn(decisions, "TIMER", id)
         /\ next_decision_event_id' \in Nat /\ next_decision_event_id' > 0
         /\ completed' = TRUE
<1>1. add_decision(Entry("SELF", 0, 0, type)) /\ completed' = TRUE
  BY DEF close_workflow_execution
<1> QED BY <1>1, OtherAdded

\* The request to cancel closes the workflow by a decision and touches no task.
LEMMA CancelRequestedInv ==
  ASSUME Inv, handle_workflow_execution_cancel_requested
  PROVE  Inv'
<1>1. /\ AtEvent({"WorkflowExecutionCancelRequested"}) /\ Consume
      /\ close_workflow_execution("CancelWorkflowExecution")
      /\ UNCHANGED <<id_counter, scheduled_activities, scheduled_timers, task, tasks, ready, quota,
                     running>>
  BY DEF handle_workflow_execution_cancel_requested, codeVars
<1>2. next_decision_event_id \in Nat /\ id_counter \in Nat /\ IsDecisions(decisions)
  BY DEF Inv, ThreadInv
<1>3. /\ IsDecisions(decisions')
      /\ \A id : OpenIn(decisions', "ACTIVITY", id) <=> OpenIn(decisions, "ACTIVITY", id)
      /\ \A id : OpenIn(decisions', "TIMER", id) <=> OpenIn(decisions, "TIMER", id)
      /\ next_decision_event_id' \in Nat /\ next_decision_event_id' > 0
      /\ completed' = TRUE
  BY <1>1, <1>2, ClosingIs, Zenon
<1>4. ThreadInv' /\ workflow' = workflow /\ phase' = phase
  BY <1>1, <1>2, <1>3, EventThread
<1>5. TasksInv'
  BY <1>1, <1>4, Zenon DEF Inv, TasksInv
<1>6. \A t \in DOMAIN task : Undisturbed(t)
  BY <1>1, UndisturbedTask, Zenon
<1> QED BY <1>1, <1>3, <1>4, <1>5, <1>6, TablesStay, Zenon

\* Every event of the history keeps the invariant.
LEMMA ProcessEventInv ==
  ASSUME Inv, ProcessEvent
  PROVE  Inv'
<1>1. CASE EventRaises \/ NoEventHandler
  <2>1. \E exception : Raise(exception)
    BY <1>1, Zenon DEF EventRaises, NoEventHandler
  <2>2. phase \in {"events", "decision_events"}
    BY <1>1 DEF EventRaises, NoEventHandler, AtEvent
  <2> QED BY <2>1, <2>2, RaiseInv
<1> QED BY <1>1, PhaseInv, StartedInv, CancelRequestedInv, InitiatedInv, ActivityClosedInv,
           TimerFiredInv, TimerCanceledInv, Zenon DEF ProcessEvent

-----------------------------------------------------------------------------
(* The event loop *)

\* The tasks that unblock_all wakes had no handle, and now have one.
LEMMA UnblockedTasks ==
  ASSUME TasksInv, unblock_all, quota' = Handles(ready'), phase' = "loop",
         UNCHANGED <<tasks, running>>
  PROVE  TasksInv' /\ \A t \in DOMAIN task : Undisturbed(t)
<1> DEFINE W == Without(tasks, {t \in ToSet(tasks) : ~Blocked(t)})
<1>1. IsSequence(W) /\ NoRepeats(W) /\ ToSet(W) \subseteq DOMAIN task /\ \A t \in ToSet(W) : Blocked(t)
  BY WithoutIs DEF TasksInv
<1>2. ready' = ready \o W
  BY DEF unblock_all
<1> HIDE DEF W
<1>3. ToSet(ready) \cap ToSet(W) = {}
  BY <1>1 DEF TasksInv, Blocked
<1>4. IsSequence(ready') /\ NoRepeats(ready') /\ ToSet(ready') = ToSet(ready) \cup ToSet(W)
  BY <1>1, <1>2, <1>3, SequenceConcat, ConcatRepeats DEF TasksInv
<1>5. quota' \in 0..Len(ready')
  <2> Len(ready') \in Nat
    BY <1>4, SequenceIs
  <2> QED BY DEF Handles
<1>6. /\ IsSequence(task') /\ DOMAIN task' = DOMAIN task
  <2> DEFINE f == [t \in DOMAIN task |->
                     IF t \in ToSet(tasks) /\ Blocked(t)
                     THEN [task[t] EXCEPT !.awaited = "set"] ELSE task[t]]
  <2>1. task' = f
    BY DEF unblock_all
  <2>2. DOMAIN task = 1..Len(task) /\ Len(task) \in Nat
    BY SequenceIs DEF TasksInv
  <2>3. f = [t \in 1..Len(task) |-> f[t]]
    BY <2>2
  <2> HIDE DEF f
  <2>4. IsSequence(f) /\ DOMAIN f = 1..Len(task)
    BY <2>2, <2>3, SequenceMade
  <2> QED BY <2>1, <2>2, <2>4
<1>7. ASSUME NEW t \in DOMAIN task
      PROVE  \/ /\ t \in ToSet(tasks) /\ Blocked(t)
                /\ IsTask(task'[t]) /\ SameWait(task[t], task'[t]) /\ task'[t].awaited = "set"
             \/ task'[t] = task[t] /\ ~(t \in ToSet(tasks) /\ Blocked(t))
  <2>1. task'[t] = IF t \in ToSet(tasks) /\ Blocked(t)
                   THEN [task[t] EXCEPT !.awaited = "set"] ELSE task[t]
    BY DEF unblock_all
  <2>2. IsTask(task[t])
    BY DEF TasksInv
  <2>3. Blocked(t) => task[t].entered
    BY <2>2 DEF Blocked, IsTask
  <2> QED BY <2>1, <2>2, <2>3, TaskAwaits
<1>8. ASSUME NEW t \in DOMAIN task PROVE Undisturbed(t)
  <2>1. t \in DOMAIN task' /\ SameWait(task[t], task'[t])
    BY <1>6, <1>7, Zenon DEF SameWait
  <2>2. ASSUME Asleep(t) PROVE task'[t].awaited = "none" /\ t \notin ToSet(ready') /\ t # running'
    <3>1. ~Blocked(t)
      BY <2>2 DEF Asleep, Blocked
    <3>2. t \notin ToSet(W)
      BY <3>1, <1>1
    <3> QED BY <2>2, <3>1, <3>2, <1>4, <1>7 DEF Asleep
  <2> QED BY <2>1, <2>2 DEF Undisturbed
<1>9. ASSUME NEW t \in DOMAIN task'
      PROVE  /\ IsTask(task'[t])
             /\ t \in ToSet(ready') =>
                  t # running' /\ task'[t].status # "DONE" /\ task'[t].awaited # "pending"
             /\ t = running' => task'[t].status = "RUNNING" /\ task'[t].awaited # "pending"
             /\ task'[t].awaited = "pending" => task'[t].status = "RUNNING"
  <2>1. /\ t \in DOMAIN task /\ IsTask(task[t])
        /\ t \in ToSet(ready) => t # running /\ task[t].status # "DONE" /\ task[t].awaited # "pending"
        /\ t = running => task[t].status = "RUNNING" /\ task[t].awaited # "pending"
        /\ task[t].awaited = "pending" => task[t].status = "RUNNING"
    BY <1>6, Zenon DEF TasksInv
  <2>2. CASE /\ t \in ToSet(tasks) /\ Blocked(t)
             /\ IsTask(task'[t]) /\ SameWait(task[t], task'[t]) /\ task'[t].awaited = "set"
    <3>1. task'[t].status = "RUNNING" /\ t # running
      BY <2>1, <2>2 DEF Blocked, SameWait
    <3> QED BY <2>2, <3>1
  <2>3. CASE task'[t] = task[t] /\ ~(t \in ToSet(tasks) /\ Blocked(t))
    <3>1. t \in ToSet(W) => t \in ToSet(tasks) /\ Blocked(t)
      <4>1. ToSet(W) \subseteq ToSet(tasks)
        BY WithoutIs DEF TasksInv, W
      <4> QED BY <4>1, <1>1
    <3> QED BY <2>1, <2>3, <3>1, <1>4
  <2> QED BY <2>1, <2>2, <2>3, <1>7
<1>10. ToSet(ready') \subseteq DOMAIN task' /\ running' \in {0} \cup DOMAIN task'
  BY <1>1, <1>4, <1>6 DEF TasksInv
<1>11. IsSequence(tasks') /\ ToSet(tasks') \subseteq DOMAIN task' /\ NoRepeats(tasks')
  BY <1>6 DEF TasksInv
<1>12. TasksInv'
  <2>1. phase' \in {"loop", "query"}
    OBVIOUS
  <2> QED BY <2>1, <1>4, <1>5, <1>6, <1>9, <1>10, <1>11, Zenon DEF TasksInv
<1> QED BY <1>8, <1>12

\* EventLoop.run_event_loop lets tasks run whose futures are done, and sets its quota.
LEMMA RunEventLoopInv ==
  ASSUME Inv, RunEventLoop
  PROVE  Inv'
<1>1. phase = "events"
  BY DEF RunEventLoop
<1>2. CASE \E t \in ToSet(tasks) : Unblocked(t)
  <2>1. Raise("InvalidStateError")
    BY <1>2, Zenon DEF RunEventLoop
  <2> QED BY <2>1, <1>1, RaiseInv, Zenon
<1>3. CASE ~ \E t \in ToSet(tasks) : Unblocked(t)
  <2>1. /\ unblock_all /\ quota' = Handles(ready') /\ phase' = "loop"
        /\ UNCHANGED <<serviceVars, workflow, querying, polled, at, batch, deciderVars, tasks, running>>
    BY <1>3, Zenon DEF RunEventLoop
  <2>2. UNCHANGED <<next_decision_event_id, id_counter, completed, decisions,
                    scheduled_activities, scheduled_timers>>
    BY <2>1 DEF deciderVars
  <2>3. /\ next_decision_event_id > 0 /\ next_decision_event_id \in Nat
        /\ id_counter \in Nat /\ completed \in BOOLEAN /\ at \in Nat
    BY <1>1, ThreadHasId DEF Inv, ThreadInv
  <2>4. ThreadInv'
    BY <1>1, <2>1, <2>2, <2>3, ThreadKept DEF Inv
  <2>5. TasksInv' /\ \A t \in DOMAIN task : Undisturbed(t)
    BY <2>1, UnblockedTasks, Zenon DEF Inv
  <2> QED BY <2>1, <2>2, <2>4, <2>5, TablesStay, Zenon DEF Inv
<1> QED BY <1>2, <1>3

\* Every decision is noted as sent, and is open as before.
LEMMA NotifiedDecisions ==
  ASSUME IsDecisions(decisions), notify_decision_sent
  PROVE  /\ IsDecisions(decisions')
         /\ \A target, id : OpenIn(decisions', target, id) <=> OpenIn(decisions, target, id)
<1> DEFINE f == [k \in DOMAIN decisions |->
                   IF Sends(decisions[k])
                   THEN [decisions[k] EXCEPT !.machine = handle_decision_task_started_event(@)]
                   ELSE decisions[k]]
<1>1. decisions' = f
  BY DEF notify_decision_sent
<1>2. DOMAIN decisions = 1..Len(decisions) /\ Len(decisions) \in Nat
  BY SequenceIs DEF IsDecisions
<1>3. ASSUME NEW k \in DOMAIN decisions
      PROVE  /\ IsEntry(f[k]) /\ f[k].id = decisions[k].id
             /\ f[k].machine.target = decisions[k].machine.target
             /\ is_done(f[k].machine) <=> is_done(decisions[k].machine)
  <2>1. IsEntry(decisions[k])
    BY DEF IsDecisions
  <2>2. CASE Sends(decisions[k])
    <3> DEFINE e == decisions[k]
               n == handle_decision_task_started_event(e.machine)
               g == [e EXCEPT !.machine = n]
    <3>1. f[k] = g
      BY <2>2
    <3>2. Legal(n) /\ n.target = e.machine.target /\ is_done(n) = is_done(e.machine)
      BY <2>1, SentLegal DEF IsEntry
    <3> HIDE DEF n, e, f
    <3>3. IsEntry(g) /\ g.machine = n /\ g.id = e.id
      BY <2>1, <3>2, MachineReplaced DEF e
    <3> HIDE DEF g
    <3> QED BY <3>1, <3>2, <3>3 DEF e
  <2>3. CASE ~Sends(decisions[k])
    <3>1. f[k] = decisions[k]
      BY <2>3
    <3> QED BY <2>1, <3>1
  <2> QED BY <2>2, <2>3
<1>4. IsSequence(f) /\ DOMAIN f = DOMAIN decisions
  <2>1. f = [k \in 1..Len(decisions) |-> f[k]]
    BY <1>2
  <2> HIDE DEF f
  <2> QED BY <1>2, <2>1, SequenceMade
<1> HIDE DEF f
<1>5. \A k, l \in DOMAIN f :
        f[k].machine.target = f[l].machine.target /\ f[k].id = f[l].id => k = l
  BY <1>3, <1>4, Zenon DEF IsDecisions
<1>6. IsDecisions(f)
  BY <1>3, <1>4, <1>5, Zenon DEF IsDecisions
<1>7. ASSUME NEW target, NEW id PROVE OpenIn(f, target, id) <=> OpenIn(decisions, target, id)
  <2>1. \A k \in DOMAIN decisions : IsOpen(f[k], target, id) <=> IsOpen(decisions[k], target, id)
    BY <1>3, Zenon DEF IsOpen
  <2> QED BY <2>1, <1>4, Zenon DEF OpenIn
<1> QED BY <1>1, <1>6, <1>7

\* The event loop stops when no task is left that may run.
LEMMA EndEventLoopInv ==
  ASSUME Inv, EndEventLoop
  PROVE  Inv'
<1>1. /\ phase = "loop" /\ phase' = "decision_events" /\ quota = 0 /\ running = 0
      /\ UNCHANGED <<serviceVars, workflow, querying, polled, batch, next_decision_event_id,
                     id_counter, completed, scheduled_activities, scheduled_timers,
                     task, tasks, ready, quota, running>>
  BY DEF EndEventLoop, codeVars
<1>2. at' \in Nat
  <2>1. at' \in {batch.next_decision_event_id, batch.end}
    BY DEF EndEventLoop
  <2>2. batch.next_decision_event_id \in Nat /\ batch.end \in Nat
    BY DEF Inv, ThreadInv
  <2> QED BY <2>1, <2>2
<1>3. /\ next_decision_event_id > 0 /\ next_decision_event_id \in Nat
      /\ id_counter \in Nat /\ completed \in BOOLEAN
  BY <1>1, ThreadHasId DEF Inv, ThreadInv
<1>4. ThreadInv'
  BY <1>1, <1>2, <1>3, ThreadKept DEF Inv
<1>5. /\ IsDecisions(decisions')
      /\ \A target, id : OpenIn(decisions', target, id) <=> OpenIn(decisions, target, id)
  <2>1. notify_decision_sent \/ decisions' = decisions
    BY DEF EndEventLoop
  <2> QED BY <2>1, NotifiedDecisions, Zenon DEF Inv
<1>6. TasksInv'
  BY <1>1 DEF Inv, TasksInv
<1>7. \A t \in DOMAIN task : Undisturbed(t)
  BY <1>1, UndisturbedTask, Zenon
<1> QED BY <1>1, <1>4, <1>5, <1>6, <1>7, TablesStay, Zenon

\* A query method gets its task.
LEMMA QueryInv ==
  ASSUME Inv, query
  PROVE  Inv'
<1>1. /\ phase = "next" /\ phase' = "query" /\ at > polled /\ NewTask("query")
      /\ quota' = Handles(ready')
      /\ UNCHANGED <<serviceVars, workflow, querying, polled, at, batch, deciderVars, running>>
  BY Zenon DEF query
<1>2. UNCHANGED <<next_decision_event_id, id_counter, completed, decisions,
                  scheduled_activities, scheduled_timers>>
  BY <1>1 DEF deciderVars
<1>3. /\ next_decision_event_id > 0 /\ next_decision_event_id \in Nat
      /\ id_counter \in Nat /\ completed \in BOOLEAN /\ at \in Nat
  <2>1. polled > 0 /\ polled \in Nat /\ at \in Nat
    BY <1>1 DEF Inv, ThreadInv
  <2>2. at # 1
    BY <2>1, <1>1
  <2> QED BY <2>2, <1>1 DEF Inv, ThreadInv
<1>4. ThreadInv'
  BY <1>1, <1>2, <1>3, ThreadKept DEF Inv
<1>5. quota' \in 0..Len(ready')
  <2>1. IsSequence(ready')
    BY <1>1, SequenceAppend DEF NewTask, Inv, TasksInv
  <2>2. Len(ready') \in Nat
    BY <2>1, SequenceIs
  <2> QED BY <2>2, <1>1 DEF Handles
<1>6. TasksInv' /\ \A t \in DOMAIN task : Undisturbed(t)
  <2> phase' \in {"loop", "query"} /\ running' = running
    BY <1>1
  <2> QED BY <1>1, <1>5, NewTaskKeeps, Zenon DEF Inv
<1> QED BY <1>1, <1>2, <1>4, <1>6, TablesStay, Zenon DEF Inv

-----------------------------------------------------------------------------
(* The workflow code *)

\* Steps of the running task, which becomes r.  The dicts may gain entries that hold;
\* those that stay are not for the running task, or it still waits for them.
RunsTo(r) ==
  /\ IsTask(r)
  /\ task' = [task EXCEPT ![running] = r]
  /\ tasks' = tasks \/ tasks' = Without(tasks, {running})
  /\ UNCHANGED <<ready, quota>>
  /\ running' \in {0, running}
  /\ running' = running => r.awaited # "pending"
  /\ running' = running \/ r.awaited = "pending" => r.status = "RUNNING"

\* What the running task does keeps Inv if it moves on as RunsTo says, and makes or withdraws
\* decisions and futures together.
LEMMA RunStep ==
  ASSUME Inv, running # 0, NEW r, RunsTo(r), Quiet,
         next_decision_event_id' \in Nat, next_decision_event_id' > 0, id_counter' \in Nat,
         completed' \in BOOLEAN, IsDecisions(decisions'),
         \A id : id \in DOMAIN scheduled_activities' <=> OpenIn(decisions', "ACTIVITY", id),
         \A id : id \in DOMAIN scheduled_timers' <=> OpenIn(decisions', "TIMER", id),
         \A id \in DOMAIN scheduled_activities' :
           \/ HoldsActivity(id)'
           \/ /\ id \in DOMAIN scheduled_activities
              /\ scheduled_activities'[id] = scheduled_activities[id],
         \A id \in DOMAIN scheduled_timers' :
           \/ HoldsTimer(id)'
           \/ /\ id \in DOMAIN scheduled_timers
              /\ scheduled_timers'[id] = scheduled_timers[id]
              /\ scheduled_timers[id] = running => SameWait(task[running], r)
  PROVE  Inv'
<1>1. running \in DOMAIN task
  BY DEF Inv, TasksInv
<1>2. phase \in {"loop", "query"} /\ phase' = phase /\ workflow' = workflow
      /\ UNCHANGED <<serviceVars, querying, polled, at, batch>>
  BY DEF Inv, TasksInv, Quiet, replayVars
<1>3. ThreadInv'
  <2>1. at \in Nat
    BY DEF Inv, ThreadInv
  <2> QED BY <1>2, <2>1, ThreadKept DEF Inv
<1>4. /\ TaskBecomes(running, r)
      /\ running \notin ToSet(ready)
  <2>1. /\ IsSequence(ready) /\ NoRepeats(ready) /\ quota \in 0..Len(ready)
        /\ running \notin ToSet(ready)
    BY <1>1, Zenon DEF Inv, TasksInv
  <2> QED BY <1>2, <2>1 DEF RunsTo, TaskBecomes
<1>5. /\ TasksInv' /\ DOMAIN task' = DOMAIN task /\ task'[running] = r
      /\ \A u \in DOMAIN task : u # running => Undisturbed(u)
  BY <1>1, <1>4, TaskChanges, Zenon DEF Inv
<1>6. SameWait(task[running], r) => Undisturbed(running)
  BY <1>1, <1>5, Zenon DEF Undisturbed, Asleep
<1>7. ASSUME NEW id \in DOMAIN scheduled_activities', ~HoldsActivity(id)'
      PROVE  /\ id \in DOMAIN scheduled_activities
             /\ scheduled_activities'[id] = scheduled_activities[id]
             /\ Undisturbed(scheduled_activities[id])
  <2>1. id \in DOMAIN scheduled_activities /\ scheduled_activities'[id] = scheduled_activities[id]
    BY <1>7
  <2>2. scheduled_activities[id] \in DOMAIN task /\ scheduled_activities[id] # running
    BY <2>1, Zenon DEF Inv, PendingInv, HoldsActivity, Asleep
  <2> QED BY <2>1, <2>2, <1>5
<1>8. ASSUME NEW id \in DOMAIN scheduled_timers', ~HoldsTimer(id)'
      PROVE  /\ id \in DOMAIN scheduled_timers
             /\ scheduled_timers'[id] = scheduled_timers[id]
             /\ Undisturbed(scheduled_timers[id])
  <2>1. /\ id \in DOMAIN scheduled_timers /\ scheduled_timers'[id] = scheduled_timers[id]
        /\ scheduled_timers[id] = running => SameWait(task[running], r)
    BY <1>8
  <2>2. scheduled_timers[id] \in DOMAIN task
    BY <2>1, Zenon DEF Inv, PendingInv, HoldsTimer
  <2> QED BY <2>1, <2>2, <1>5, <1>6
<1>9. PendingInv'
  BY <1>2, <1>7, <1>8, PendingStays, Zenon DEF Inv
<1> QED BY <1>2, <1>3, <1>5, <1>9, Zenon DEF Inv

\* While the code runs the thread knows the id of the next decision.
LEMMA RunningThread ==
  ASSUME Inv, running # 0
  PROVE  /\ running \in DOMAIN task /\ IsTask(task[running]) /\ task[running].status = "RUNNING"
         /\ task[running].awaited # "pending"
         /\ next_decision_event_id \in Nat /\ next_decision_event_id > 0
         /\ id_counter \in Nat /\ completed \in BOOLEAN /\ IsDecisions(decisions)
<1>1. phase \in {"loop", "query"} /\ running \in DOMAIN task
  BY DEF Inv, TasksInv
<1>2. /\ IsTask(task[running]) /\ task[running].status = "RUNNING"
      /\ task[running].awaited # "pending"
  BY <1>1, Zenon DEF Inv, TasksInv
<1>3. next_decision_event_id > 0 /\ next_decision_event_id \in Nat
  BY <1>1, ThreadHasId DEF Inv
<1> QED BY <1>1, <1>2, <1>3 DEF Inv, ThreadInv

\* No callback is there for the running task.
Free == \A id \in DOMAIN scheduled_timers : scheduled_timers[id] # running

\* Steps that leave the dicts, and what is open.
LEMMA FreeStep ==
  ASSUME Inv, running # 0, NEW r, RunsTo(r), Quiet, Free \/ SameWait(task[running], r),
         next_decision_event_id' \in Nat, next_decision_event_id' > 0, id_counter' \in Nat,
         completed' \in BOOLEAN, IsDecisions(decisions'),
         \A id : OpenIn(decisions', "ACTIVITY", id) <=> OpenIn(decisions, "ACTIVITY", id),
         \A id : OpenIn(decisions', "TIMER", id) <=> OpenIn(decisions, "TIMER", id),
         UNCHANGED <<scheduled_activities, scheduled_timers>>
  PROVE  Inv'
<1>1. \A id \in DOMAIN scheduled_timers :
        scheduled_timers[id] = running => SameWait(task[running], r)
  BY Zenon DEF Free
<1>2. /\ \A id : id \in DOMAIN scheduled_activities' <=> OpenIn(decisions', "ACTIVITY", id)
      /\ \A id : id \in DOMAIN scheduled_timers' <=> OpenIn(decisions', "TIMER", id)
  BY Zenon DEF Inv, PendingInv
<1> QED BY <1>1, <1>2, RunStep, Zenon

\* A handle of the event loop runs.
LEMMA StartHandleInv ==
  ASSUME Inv, StartHandle
  PROVE  Inv'
<1> DEFINE t == Head(ready)
           r == [task[t] EXCEPT !.status = "RUNNING"]
<1>1. /\ phase \in {"loop", "query"} /\ running = 0 /\ quota > 0
      /\ running' = t /\ ready' = Tail(ready) /\ quota' = quota - 1
      /\ task' = [task EXCEPT ![t] = r]
      /\ UNCHANGED <<deciderVars, tasks>> /\ Quiet
  BY DEF StartHandle
<1>2. IsSequence(ready) /\ NoRepeats(ready) /\ quota \in 0..Len(ready) /\ ToSet(ready) \subseteq DOMAIN task
  BY DEF Inv, TasksInv
<1>3. Len(ready) \in Nat /\ Len(ready) > 0
  BY <1>1, <1>2, SequenceIs
<1>4. /\ t \in ToSet(ready) /\ t \notin ToSet(ready')
      /\ IsSequence(ready') /\ NoRepeats(ready') /\ ToSet(ready') \subseteq ToSet(ready)
      /\ Len(ready') = Len(ready) - 1
  BY <1>1, <1>2, <1>3, SequenceTail
<1>5. t \in DOMAIN task /\ IsTask(task[t]) /\ task[t].awaited # "pending"
  <2>1. t \in DOMAIN task
    BY <1>2, <1>4
  <2> HIDE DEF t
  <2> QED BY <1>4, <2>1, Zenon DEF Inv, TasksInv
<1>6. /\ IsTask(r) /\ r.status = "RUNNING" /\ r.awaited = task[t].awaited
      /\ r.name = task[t].name /\ r.pc = task[t].pc /\ r.entered = task[t].entered
      /\ r.id = task[t].id /\ r.result = task[t].result /\ r.fired = task[t].fired
  BY <1>5, TaskStatus
<1> HIDE DEF r, t
<1>7. quota' \in 0..Len(ready')
  BY <1>1, <1>2, <1>3, <1>4
<1>8. phase' = phase /\ workflow' = workflow /\ UNCHANGED <<serviceVars, querying, polled, at, batch>>
      /\ UNCHANGED <<next_decision_event_id, id_counter, completed, decisions,
                     scheduled_activities, scheduled_timers>>
  BY <1>1 DEF Quiet, replayVars, deciderVars
<1>9. TaskBecomes(t, r)
  BY <1>1, <1>4, <1>5, <1>6, <1>7, <1>8 DEF TaskBecomes
<1>10. /\ TasksInv' /\ DOMAIN task' = DOMAIN task /\ task'[t] = r
       /\ \A u \in DOMAIN task : u # t => Undisturbed(u)
  BY <1>5, <1>9, TaskChanges, Zenon DEF Inv
<1>11. ThreadInv'
  BY <1>8 DEF Inv, ThreadInv, serviceVars
<1>12. ~Asleep(t)
  BY <1>4 DEF Asleep
<1>13. task[t].status = "RUNNING" => Undisturbed(t)
  BY <1>5, <1>6, <1>10, <1>12 DEF Undisturbed, SameWait
<1>14. ASSUME NEW id \in DOMAIN scheduled_activities'
       PROVE  Undisturbed(scheduled_activities[id])
  <2>1. scheduled_activities[id] \in DOMAIN task /\ Asleep(scheduled_activities[id])
    BY <1>8, Zenon DEF Inv, PendingInv, HoldsActivity
  <2> QED BY <2>1, <1>10, <1>12
<1>15. ASSUME NEW id \in DOMAIN scheduled_timers'
       PROVE  Undisturbed(scheduled_timers[id])
  <2>1. scheduled_timers[id] \in DOMAIN task /\ task[scheduled_timers[id]].status = "RUNNING"
    BY <1>8, Zenon DEF Inv, PendingInv, HoldsTimer, WaitsFor
  <2> QED BY <2>1, <1>10, <1>13
<1>16. PendingInv'
  BY <1>8, <1>14, <1>15, PendingStays, Zenon DEF Inv, PendingInv
<1> QED BY <1>8, <1>10, <1>11, <1>16, Zenon DEF Inv

\* A dictionary to which an entry is added, or whose entry is replaced.
LEMMA WithIs ==
  ASSUME NEW dict, NEW id, NEW value, NEW new, new = With(dict, id, value)
  PROVE  /\ \A i : i \in DOMAIN new <=> i \in DOMAIN dict \/ i = id
         /\ new[id] = value
         /\ \A i \in DOMAIN dict : i # id => new[i] = dict[i]
BY DEF With

\* The running task stands at an operation of its program.
LEMMA RunsAt ==
  ASSUME Inv, NEW ops, NEW entered, Runs(ops, entered)
  PROVE  /\ running # 0 /\ running \in DOMAIN task
         /\ task[running].name \in DOMAIN workflow.handler \cup {"main"}
         /\ task[running].pc <= Len(CodeOf(running)) /\ Op(running).op \in ops
         /\ task[running].entered = entered
BY RunningThread DEF Runs

\* No callback is there for it when it has not entered its operation, has the result
\* of it, or the operation is another.
LEMMA RunsFree ==
  ASSUME Inv, NEW ops, NEW entered, Runs(ops, entered),
         \/ entered = FALSE
         \/ task[running].result # "none"
         \/ ops \cap {"sleep", "await_timeout"} = {}
  PROVE  Free
<1>1. \A id : ~WaitsFor(running, {"sleep", "await_timeout"}, id)
  BY RunsAt DEF WaitsFor
<1> QED BY <1>1, Zenon DEF Free, Inv, PendingInv, HoldsTimer

\* The running task leaves its operation.
LEMMA LeavesTo ==
  ASSUME Inv, running # 0, NEW outcome, Leave(outcome), UNCHANGED <<tasks, ready, quota, running>>
  PROVE  \E r : RunsTo(r)
<1> PICK r : r = [task[running] EXCEPT !.pc = @ + 1, !.entered = FALSE, !.awaited = "none",
                                       !.id = 0, !.fired = FALSE, !.result = "none"]
  OBVIOUS
<1>1. IsTask(task[running]) /\ task[running].status = "RUNNING"
  BY RunningThread
<1>2. IsTask(r) /\ r.status = "RUNNING" /\ r.awaited = "none"
  BY <1>1, TaskLeaves
<1>3. task' = [task EXCEPT ![running] = r]
  BY Zenon DEF Leave
<1>4. RunsTo(r)
  BY <1>2, <1>3 DEF RunsTo
<1> QED BY <1>4

\* The running task enters its operation, and waits for this id from then on.
LEMMA EntersTo ==
  ASSUME Inv, NEW ops, Runs(ops, FALSE), NEW id \in Nat, Enter(id), workflow' = workflow,
         UNCHANGED <<tasks, ready, quota>>, running' \in {0, running}, NEW t, t = running
  PROVE  /\ \E r : RunsTo(r)
         /\ t \in DOMAIN task' /\ WaitsFor(t, ops, id)' /\ Op(t)' = Op(t)
         /\ running' = 0 => Asleep(t)'
<1> PICK r : r = [task[t] EXCEPT !.entered = TRUE, !.id = id]
  OBVIOUS
<1>1. /\ t \in DOMAIN task /\ IsTask(task[t]) /\ task[t].status = "RUNNING" /\ t # 0
      /\ task[t].name \in DOMAIN workflow.handler \cup {"main"}
      /\ task[t].pc <= Len(CodeOf(t)) /\ Op(t).op \in ops
      /\ task[t].awaited = "none" /\ ~task[t].fired /\ task[t].result = "none"
  BY RunsAt, RunningThread DEF IsTask
<1>2. /\ IsTask(r) /\ r.status = task[t].status /\ r.awaited = task[t].awaited
      /\ r.name = task[t].name /\ r.pc = task[t].pc /\ r.entered
      /\ r.id = id /\ r.result = task[t].result /\ r.fired = task[t].fired
  <2>1. IsTask(task[t])
    BY <1>1
  <2>2. r = [task[t] EXCEPT !.entered = TRUE, !.id = id]
    OBVIOUS
  <2>3. Entered(task[t], id, r)
    BY <2>1, <2>2, TaskEnters, Zenon
  <2> QED BY <2>3 DEF Entered
<1>3. task' = [task EXCEPT ![t] = r]
  BY DEF Enter
<1>4. task'[t] = r /\ t \in DOMAIN task'
  BY <1>1, <1>3
<1>5. RunsTo(r)
  BY <1>1, <1>2, <1>3 DEF RunsTo
<1>6. CodeOf(t)' = CodeOf(t)
  BY <1>2, <1>4 DEF CodeOf
<1>7. Op(t)' = Op(t)
  BY <1>2, <1>4, <1>6 DEF Op
<1>8. WaitsFor(t, ops, id)'
  BY <1>1, <1>2, <1>4, <1>6, <1>7 DEF WaitsFor
<1>9. ASSUME running' = 0 PROVE Asleep(t)'
  <2>1. t \notin ToSet(ready)
    BY <1>1, Zenon DEF Inv, TasksInv
  <2> QED BY <1>1, <1>2, <1>4, <1>9, <2>1 DEF Asleep
<1> QED BY <1>4, <1>5, <1>7, <1>8, <1>9

\* schedule_activity_task makes the decision, its id and the entry for its future at once.
LEMMA ScheduleActivityInv ==
  ASSUME Inv, schedule_activity_task
  PROVE  Inv'
<1>0. PICK t, id, e : t = running /\ id = next_decision_event_id
                      /\ e = Entry("ACTIVITY", id, id_counter, Place)
  OBVIOUS
<1>1. /\ Runs({"activity"}, FALSE) /\ decisions' = WithDecision(e)
      /\ next_decision_event_id' = id + 1 /\ id_counter' = id_counter + 1
      /\ scheduled_activities' = With(scheduled_activities, id, t)
      /\ Enter(id) /\ running' = 0
      /\ UNCHANGED <<scheduled_timers, completed, tasks, ready, quota>> /\ Quiet
  BY <1>0 DEF schedule_activity_task, add_decision
<1>2. id \in Nat /\ id > 0 /\ running # 0 /\ id_counter \in Nat /\ completed \in BOOLEAN
      /\ IsDecisions(decisions)
  BY <1>0, <1>1, RunningThread DEF Runs
<1>3. /\ \E r : RunsTo(r)
      /\ t \in DOMAIN task' /\ WaitsFor(t, {"activity"}, id)' /\ Asleep(t)'
  BY <1>0, <1>1, <1>2, EntersTo, Zenon DEF Quiet
<1>4. IsEntry(e) /\ e.machine.target = "ACTIVITY" /\ e.id = id /\ ~is_done(e.machine)
  BY <1>0, <1>2, EntryIs DEF Targets
<1>5. Adds(decisions, decisions', e)
  BY <1>1, <1>2, <1>4, DecisionAdded, Zenon
<1>6. /\ IsDecisions(decisions')
      /\ OpenIn(decisions', "ACTIVITY", id)
      /\ \A i : i # id => (OpenIn(decisions', "ACTIVITY", i) <=> OpenIn(decisions, "ACTIVITY", i))
      /\ \A i : OpenIn(decisions', "TIMER", i) <=> OpenIn(decisions, "TIMER", i)
  <2> "TIMER" # "ACTIVITY"
    OBVIOUS
  <2> QED BY <1>4, <1>5, Zenon DEF Adds
<1>7. /\ \A i : i \in DOMAIN scheduled_activities' <=> i \in DOMAIN scheduled_activities \/ i = id
      /\ scheduled_activities'[id] = t
      /\ \A i \in DOMAIN scheduled_activities : i # id => scheduled_activities'[i] = scheduled_activities[i]
  <2>1. scheduled_activities' = With(scheduled_activities, id, t)
    BY <1>1
  <2>2. \A i : i \in DOMAIN scheduled_activities' <=> i \in DOMAIN scheduled_activities \/ i = id
    BY <2>1, WithIs
  <2>3. scheduled_activities'[id] = t
    BY <2>1, WithIs
  <2>4. \A i \in DOMAIN scheduled_activities : i # id => scheduled_activities'[i] = scheduled_activities[i]
    BY <2>1, WithIs
  <2> QED BY <2>2, <2>3, <2>4
<1>8. HoldsActivity(id)'
  BY <1>3, <1>7, Zenon DEF HoldsActivity
<1>9. \A i \in DOMAIN scheduled_activities' :
        \/ HoldsActivity(i)'
        \/ i \in DOMAIN scheduled_activities /\ scheduled_activities'[i] = scheduled_activities[i]
  BY <1>7, <1>8, Zenon
<1>10. \A i \in DOMAIN scheduled_timers : scheduled_timers[i] # running
  BY <1>1, RunsFree DEF Free
<1>11. /\ \A i : i \in DOMAIN scheduled_activities' <=> OpenIn(decisions', "ACTIVITY", i)
       /\ \A i : i \in DOMAIN scheduled_timers' <=> OpenIn(decisions', "TIMER", i)
  BY <1>1, <1>6, <1>7, Zenon DEF Inv, PendingInv
<1>12. /\ next_decision_event_id' \in Nat /\ next_decision_event_id' > 0 /\ id_counter' \in Nat
       /\ completed' \in BOOLEAN
  BY <1>1, <1>2
<1> QED BY <1>1, <1>2, <1>3, <1>6, <1>9, <1>10, <1>11, <1>12, RunStep, Zenon

\* A timer that is made holds.
LEMMA CreateTimerInv ==
  ASSUME Inv, NEW ops, ops \subseteq {"sleep", "await_timeout"}, Runs(ops, FALSE), create_timer,
         running' \in {0, running}, running' = 0 \/ "sleep" \notin ops,
         UNCHANGED <<tasks, ready, quota>>, Quiet
  PROVE  Inv'
<1>0. PICK t, id, e : t = running /\ id = next_decision_event_id
                      /\ e = Entry("TIMER", id, id_counter, Place)
  OBVIOUS
<1>1. /\ decisions' = WithDecision(e)
      /\ next_decision_event_id' = id + 1 /\ id_counter' = id_counter + 1
      /\ scheduled_timers' = With(scheduled_timers, id, t)
      /\ Enter(id) /\ UNCHANGED <<scheduled_activities, completed>>
  BY <1>0 DEF create_timer, add_decision
<1>2. id \in Nat /\ id > 0 /\ running # 0 /\ id_counter \in Nat /\ completed \in BOOLEAN
      /\ IsDecisions(decisions)
  BY <1>0, RunningThread DEF Runs
<1>3. /\ \E r : RunsTo(r)
      /\ t \in DOMAIN task' /\ WaitsFor(t, ops, id)' /\ Op(t)' = Op(t)
      /\ running' = 0 => Asleep(t)'
  BY <1>0, <1>1, <1>2, EntersTo, Zenon DEF Quiet
<1>4. IsEntry(e) /\ e.machine.target = "TIMER" /\ e.id = id /\ ~is_done(e.machine)
  BY <1>0, <1>2, EntryIs DEF Targets
<1>5. Adds(decisions, decisions', e)
  BY <1>1, <1>2, <1>4, DecisionAdded, Zenon
<1>6. /\ IsDecisions(decisions')
      /\ OpenIn(decisions', "TIMER", id)
      /\ \A i : i # id => (OpenIn(decisions', "TIMER", i) <=> OpenIn(decisions, "TIMER", i))
      /\ \A i : OpenIn(decisions', "ACTIVITY", i) <=> OpenIn(decisions, "ACTIVITY", i)
  <2> "TIMER" # "ACTIVITY"
    OBVIOUS
  <2> QED BY <1>4, <1>5, Zenon DEF Adds
<1>7. /\ \A i : i \in DOMAIN scheduled_timers' <=> i \in DOMAIN scheduled_timers \/ i = id
      /\ scheduled_timers'[id] = t
      /\ \A i \in DOMAIN scheduled_timers : i # id => scheduled_timers'[i] = scheduled_timers[i]
  <2>1. scheduled_timers' = With(scheduled_timers, id, t)
    BY <1>1
  <2>2. \A i : i \in DOMAIN scheduled_timers' <=> i \in DOMAIN scheduled_timers \/ i = id
    BY <2>1, WithIs
  <2>3. scheduled_timers'[id] = t
    BY <2>1, WithIs
  <2>4. \A i \in DOMAIN scheduled_timers : i # id => scheduled_timers'[i] = scheduled_timers[i]
    BY <2>1, WithIs
  <2> QED BY <2>2, <2>3, <2>4
<1>8. HoldsTimer(id)'
  <2>1. WaitsFor(t, {"sleep", "await_timeout"}, id)'
    BY <1>3 DEF WaitsFor
  <2>2. Op(t)'.op = "sleep" => Asleep(t)'
    BY <1>3 DEF WaitsFor
  <2> QED BY <1>3, <1>7, <2>1, <2>2, Zenon DEF HoldsTimer
<1>9. \A i \in DOMAIN scheduled_timers' :
        \/ HoldsTimer(i)'
        \/ i \in DOMAIN scheduled_timers /\ scheduled_timers'[i] = scheduled_timers[i]
  BY <1>7, <1>8, Zenon
<1>10. \A i \in DOMAIN scheduled_timers : scheduled_timers[i] # running
  BY RunsFree DEF Free
<1>11. /\ \A i : i \in DOMAIN scheduled_activities' <=> OpenIn(decisions', "ACTIVITY", i)
       /\ \A i : i \in DOMAIN scheduled_timers' <=> OpenIn(decisions', "TIMER", i)
  BY <1>1, <1>6, <1>7, Zenon DEF Inv, PendingInv
<1>12. /\ next_decision_event_id' \in Nat /\ next_decision_event_id' > 0 /\ id_counter' \in Nat
       /\ completed' \in BOOLEAN
  BY <1>1, <1>2
<1>13. \A i \in DOMAIN scheduled_activities' :
         i \in DOMAIN scheduled_activities /\ scheduled_activities'[i] = scheduled_activities[i]
  BY <1>1
<1> QED BY <1>2, <1>3, <1>6, <1>9, <1>10, <1>11, <1>12, <1>13, RunStep, Zenon

\* A task that starts to wait, for a timer, a condition or another task, does so at its place.
LEMMA EnterAwaitInv ==
  ASSUME Inv, schedule_timer \/ EnterAwait
  PROVE  Inv'
<1>1. CASE schedule_timer
  <2>1. /\ Runs({"sleep"}, FALSE) /\ create_timer /\ running' = 0
        /\ UNCHANGED <<tasks, ready, quota>> /\ Quiet
    BY <1>1 DEF schedule_timer
  <2>2. {"sleep"} \subseteq {"sleep", "await_timeout"} /\ running' \in {0, running}
    BY <2>1
  <2> QED BY <2>1, <2>2, CreateTimerInv, Zenon
<1>2. CASE EnterAwait /\ Runs({"await_timeout"}, FALSE) /\ create_timer
  <2>1. UNCHANGED <<tasks, ready, quota, running>> /\ Quiet
    BY <1>2 DEF EnterAwait
  <2>2. /\ {"await_timeout"} \subseteq {"sleep", "await_timeout"} /\ "sleep" \notin {"await_timeout"}
        /\ running' \in {0, running}
    BY <2>1
  <2> QED BY <1>2, <2>1, <2>2, CreateTimerInv, Zenon
<1>3. CASE EnterAwait /\ Runs({"await", "await_failing"}, FALSE) /\ Enter(0) /\ UNCHANGED deciderVars
  <2>1. /\ UNCHANGED <<tasks, ready, quota, running>> /\ Quiet /\ running' \in {0, running}
        /\ UNCHANGED <<next_decision_event_id, id_counter, decisions, scheduled_activities,
                       scheduled_timers, completed>>
    BY <1>3 DEF EnterAwait, deciderVars
  <2>2. Free
    BY <1>3, RunsFree
  <2>3. PICK r : RunsTo(r)
    <3> 0 \in Nat /\ workflow' = workflow
      BY <2>1 DEF Quiet
    <3> PICK t : t = running
      OBVIOUS
    <3> QED BY <1>3, <2>1, EntersTo, Zenon
  <2>4. running # 0
    BY <1>3 DEF Runs
  <2>5. /\ next_decision_event_id \in Nat /\ next_decision_event_id > 0
        /\ id_counter \in Nat /\ completed \in BOOLEAN /\ IsDecisions(decisions)
    BY <2>4, RunningThread
  <2> QED BY <2>1, <2>2, <2>3, <2>4, <2>5, FreeStep, Zenon
<1> QED BY <1>1, <1>2, <1>3 DEF EnterAwait

\* The running task leaves an operation for which no callback is there.
LEMMA LeaveInv ==
  ASSUME Inv, running # 0, Free, Quiet, NEW outcome, Leave(outcome),
         UNCHANGED <<tasks, ready, quota, running, id_counter, scheduled_activities,
                     scheduled_timers, completed>>,
         \/ UNCHANGED <<decisions, next_decision_event_id>>
         \/ \E change, data : record_mutable_marker(change, data)
  PROVE  Inv'
<1>1. PICK r : RunsTo(r)
  BY LeavesTo
<1>2. /\ next_decision_event_id \in Nat /\ next_decision_event_id > 0
      /\ id_counter \in Nat /\ completed \in BOOLEAN /\ IsDecisions(decisions)
  BY RunningThread
<1>3. /\ IsDecisions(decisions')
      /\ \A id : OpenIn(decisions', "ACTIVITY", id) <=> OpenIn(decisions, "ACTIVITY", id)
      /\ \A id : OpenIn(decisions', "TIMER", id) <=> OpenIn(decisions, "TIMER", id)
      /\ next_decision_event_id' \in Nat /\ next_decision_event_id' > 0
  <2>1. CASE UNCHANGED <<decisions, next_decision_event_id>>
    BY <1>2, <2>1
  <2>2. CASE \E change, data : record_mutable_marker(change, data)
    <3>1. PICK change, data : record_mutable_marker(change, data)
      BY <2>2
    <3>2. add_decision(Entry("MARKER", next_decision_event_id, data, change))
      BY <3>1 DEF record_mutable_marker
    <3> QED BY <3>2, <1>2, OtherAdded
  <2> QED BY <2>1, <2>2
<1> QED BY <1>1, <1>2, <1>3, FreeStep, Zenon

\* A task that has what it waited for goes on to its next operation.
LEMMA LeavingInv ==
  ASSUME Inv, FutureDone \/ SetFlag \/ get_version
  PROVE  Inv'
<1>1. CASE FutureDone
  <2>1. /\ Runs({"activity", "sleep"}, TRUE) /\ task[running].result = "ok" /\ Leave("ok")
        /\ UNCHANGED <<deciderVars, tasks, ready, quota, running>> /\ Quiet
    BY <1>1 DEF FutureDone
  <2>2. Free /\ running # 0
    BY <2>1, RunsFree DEF Runs
  <2> QED BY <2>1, <2>2, LeaveInv, Zenon DEF deciderVars
<1>2. CASE SetFlag
  <2>1. /\ Runs({"set"}, FALSE) /\ Leave("set")
        /\ UNCHANGED <<deciderVars, tasks, ready, quota, running>> /\ Quiet
    BY <1>2 DEF SetFlag
  <2>2. Free /\ running # 0
    BY <2>1, RunsFree DEF Runs
  <2> QED BY <2>1, <2>2, LeaveInv, Zenon DEF deciderVars
<1>3. CASE get_version
  <2>1. /\ Runs({"get_version"}, FALSE) /\ \E outcome : Leave(outcome)
        /\ UNCHANGED <<tasks, ready, quota, running, id_counter, scheduled_activities,
                       scheduled_timers, completed>> /\ Quiet
        /\ \/ UNCHANGED <<decisions, next_decision_event_id>>
           \/ \E change, data : record_mutable_marker(change, data)
    BY <1>3, Zenon DEF get_version
  <2>2. Free /\ running # 0
    BY <2>1, RunsFree DEF Runs
  <2> QED BY <2>1, <2>2, LeaveInv, Zenon
<1> QED BY <1>1, <1>2, <1>3

\* The running task is done, and the workflow's task may have closed the execution.
LEMMA DoneInv ==
  ASSUME Inv, running # 0, Free, Quiet, NEW r, RunsTo(r),
         UNCHANGED <<id_counter, scheduled_activities, scheduled_timers>>,
         \/ UNCHANGED <<decisions, next_decision_event_id, completed>>
         \/ \E type : close_workflow_execution(type)
  PROVE  Inv'
<1>1. /\ next_decision_event_id \in Nat /\ next_decision_event_id > 0
      /\ id_counter \in Nat /\ completed \in BOOLEAN /\ IsDecisions(decisions)
  BY RunningThread
<1>2. /\ IsDecisions(decisions')
      /\ \A id : OpenIn(decisions', "ACTIVITY", id) <=> OpenIn(decisions, "ACTIVITY", id)
      /\ \A id : OpenIn(decisions', "TIMER", id) <=> OpenIn(decisions, "TIMER", id)
      /\ next_decision_event_id' \in Nat /\ next_decision_event_id' > 0
      /\ completed' \in BOOLEAN
  <2>1. CASE UNCHANGED <<decisions, next_decision_event_id, completed>>
    BY <1>1, <2>1
  <2>2. CASE \E type : close_workflow_execution(type)
    BY <1>1, <2>2, ClosingIs
  <2> QED BY <2>1, <2>2
<1> QED BY <1>1, <1>2, FreeStep, Zenon

\* An exception leaves the running task's code.
LEMMA RaisingInv ==
  ASSUME Inv, FutureFailed \/ AwaitRaises
  PROVE  Inv'
<1>1. /\ Free /\ running # 0
      /\ \E outcome : CodeRaises(outcome)
  <2>1. CASE FutureFailed
    BY <2>1, RunsFree DEF FutureFailed, Runs
  <2>2. CASE AwaitRaises
    BY <2>2, RunsFree DEF AwaitRaises, Runs
  <2> QED BY <2>1, <2>2
<1>2. /\ task' = [task EXCEPT ![running].status = "DONE", ![running].id = 0] /\ running' = 0
      /\ UNCHANGED <<id_counter, scheduled_activities, scheduled_timers, tasks, ready, quota>>
      /\ Quiet
      /\ \/ UNCHANGED <<decisions, next_decision_event_id, completed>>
         \/ \E type : close_workflow_execution(type)
  BY <1>1, Zenon DEF CodeRaises
<1>3. PICK r : RunsTo(r)
  <2>1. running \in DOMAIN task /\ IsTask(task[running]) /\ task[running].awaited # "pending"
    BY <1>1, RunningThread
  <2>2. PICK r : r = [task[running] EXCEPT !.status = "DONE", !.id = 0]
    OBVIOUS
  <2>3. IsTask(r) /\ r.awaited = task[running].awaited
    BY <2>1, <2>2, TaskRaises
  <2>4. task' = [task EXCEPT ![running] = r]
    BY <1>2, <2>1, <2>2
  <2>5. RunsTo(r)
    BY <1>1, <1>2, <2>1, <2>3, <2>4 DEF RunsTo
  <2> QED BY <2>5
<1> QED BY <1>1, <1>2, <1>3, DoneInv, Zenon

\* The running task returns.
LEMMA ReturningInv ==
  ASSUME Inv, MainReturns \/ SignalReturns \/ UnknownSignal \/ QueryReturns
  PROVE  Inv'
<1>1. /\ running # 0 /\ running' = 0 /\ task' = [task EXCEPT ![running].status = "DONE"]
      /\ UNCHANGED <<id_counter, scheduled_activities, scheduled_timers, ready, quota>> /\ Quiet
      /\ tasks' = tasks \/ tasks' = Without(tasks, {running})
      /\ \/ UNCHANGED <<decisions, next_decision_event_id, completed>>
         \/ \E type : close_workflow_execution(type)
  BY Zenon DEF MainReturns, SignalReturns, UnknownSignal, QueryReturns, Returns, deciderVars
<1>2. running \in DOMAIN task /\ IsTask(task[running]) /\ task[running].awaited # "pending"
  BY <1>1, RunningThread
<1>3. \/ task[running].name \notin DOMAIN workflow.handler \cup {"main"}
      \/ ~(task[running].pc <= Len(CodeOf(running)))
  <2>1. CASE MainReturns \/ SignalReturns
    <3>1. /\ task[running].name = "main" \/ task[running].name \in DOMAIN workflow.handler
          /\ task[running].pc > Len(CodeOf(running))
      BY <2>1, Zenon DEF MainReturns, SignalReturns, Returns
    <3>2. CodeOf(running) \in Seq(Operation)
      BY <3>1, DeciderAssumption DEF CodeOf, Inv
    <3>3. Len(CodeOf(running)) \in Nat /\ task[running].pc \in Nat
      BY <1>2, <3>2, LenProperties DEF IsTask
    <3> QED BY <3>1, <3>3
  <2>2. CASE UnknownSignal
    BY <2>2 DEF UnknownSignal
  <2>3. CASE QueryReturns
    <3>1. "query" \notin DOMAIN workflow.handler
      BY DeciderAssumption DEF Inv, OtherTasks
    <3> QED BY <2>3, <3>1 DEF QueryReturns
  <2> QED BY <2>1, <2>2, <2>3
<1>4. Free
  <2>1. \A id : ~WaitsFor(running, {"sleep", "await_timeout"}, id)
    BY <1>3, Zenon DEF WaitsFor
  <2> QED BY <2>1, Zenon DEF Free, Inv, PendingInv, HoldsTimer
<1>5. PICK r : RunsTo(r)
  <2>1. PICK r : r = [task[running] EXCEPT !.status = "DONE"]
    OBVIOUS
  <2>2. IsTask(r) /\ r.awaited = task[running].awaited
    BY <1>2, <2>1, TaskStatus
  <2>3. task' = [task EXCEPT ![running] = r]
    BY <1>1, <1>2, <2>1
  <2>4. RunsTo(r)
    BY <1>1, <1>2, <2>2, <2>3 DEF RunsTo
  <2> QED BY <2>4
<1> QED BY <1>1, <1>4, <1>5, DoneInv, Zenon

\* await_till's condition does not hold yet.
LEMMA AwaitBlocksInv ==
  ASSUME Inv, AwaitBlocks
  PROVE  Inv'
<1>1. /\ Runs({"await", "await_timeout", "await_failing"}, TRUE)
      /\ task' = [task EXCEPT ![running].awaited = "pending"]
      /\ running' = 0
      /\ UNCHANGED <<next_decision_event_id, id_counter, decisions, scheduled_activities,
                     scheduled_timers, completed, tasks, ready, quota>>
      /\ Quiet
  BY DEF AwaitBlocks, deciderVars
<1>2. /\ running # 0 /\ running \in DOMAIN task /\ IsTask(task[running])
      /\ task[running].status = "RUNNING" /\ task[running].entered
  BY <1>1, RunningThread DEF Runs
<1>3. PICK r : r = [task[running] EXCEPT !.awaited = "pending"]
  OBVIOUS
<1>4. IsTask(r) /\ SameWait(task[running], r) /\ r.awaited = "pending"
  BY <1>2, <1>3, TaskAwaits
<1>5. RunsTo(r)
  <2>1. task' = [task EXCEPT ![running] = r]
    BY <1>1, <1>2, <1>3
  <2>2. r.status = "RUNNING"
    BY <1>2, <1>4 DEF SameWait
  <2> QED BY <1>1, <1>2, <1>4, <2>1, <2>2 DEF RunsTo
<1>6. /\ next_decision_event_id \in Nat /\ next_decision_event_id > 0
      /\ id_counter \in Nat /\ completed \in BOOLEAN /\ IsDecisions(decisions)
  BY <1>2, RunningThread
<1> QED BY <1>1, <1>2, <1>4, <1>5, <1>6, FreeStep, Zenon

\* Whether a decision is open is the state of its machine.
LEMMA OpenAt ==
  ASSUME NEW ds, IsDecisions(ds), NEW k \in DOMAIN ds, NEW target, NEW id,
         ds[k].machine.target = target, ds[k].id = id
  PROVE  OpenIn(ds, target, id) <=> ~is_done(ds[k].machine)
<1>1. \A i \in DOMAIN ds : i # k => ~IsOpen(ds[i], target, id)
  BY Zenon DEF IsDecisions, IsOpen
<1>2. IsOpen(ds[k], target, id) <=> ~is_done(ds[k].machine)
  BY Zenon DEF IsOpen
<1> QED BY <1>1, <1>2, Zenon DEF OpenIn

\* What cancel_timer makes of the decisions and the callbacks.
LEMMA CancelIs ==
  ASSUME Inv, NEW id, cancel_timer(id), next_decision_event_id \in Nat, next_decision_event_id > 0
  PROVE  /\ IsDecisions(decisions')
         /\ \A i : OpenIn(decisions', "ACTIVITY", i) <=> OpenIn(decisions, "ACTIVITY", i)
         /\ \A i : i \in DOMAIN scheduled_timers' <=> OpenIn(decisions', "TIMER", i)
         /\ \A i \in DOMAIN scheduled_timers' :
              /\ i \in DOMAIN scheduled_timers /\ i # id
              /\ scheduled_timers'[i] = scheduled_timers[i]
         /\ next_decision_event_id' \in Nat /\ next_decision_event_id' > 0
<1>1. PICK k, m : k = IndexOf(decisions, "TIMER", id) /\ m = decisions[k].machine
  OBVIOUS
<1>2. IF is_done(m)
      THEN UNCHANGED <<decisions, scheduled_timers, next_decision_event_id>>
      ELSE /\ decisions' = [decisions EXCEPT ![k].machine = cancel(m)]
           /\ scheduled_timers' = Pop(scheduled_timers, id)
           /\ next_decision_event_id' = next_decision_event_id + IdsToCancel(m)
  BY <1>1, Zenon DEF cancel_timer, timer_cancelled
<1>3. /\ IsDecisions(decisions)
      /\ \A i : i \in DOMAIN scheduled_timers <=> OpenIn(decisions, "TIMER", i)
  BY DEF Inv, PendingInv
<1>4. \/ k \in DOMAIN decisions /\ decisions[k].machine.target = "TIMER" /\ decisions[k].id = id
      \/ /\ k = 0
         /\ \A l \in DOMAIN decisions :
              ~(decisions[l].machine.target = "TIMER" /\ decisions[l].id = id)
  BY <1>1, <1>3, IndexIs, Zenon DEF IsDecisions
<1>5. next_decision_event_id' \in Nat /\ next_decision_event_id' > 0
  <2>1. IdsToCancel(m) \in {0, 1}
    BY DEF IdsToCancel
  <2> QED BY <1>2, <2>1
<1>6. ASSUME scheduled_timers' = Pop(scheduled_timers, id)
      PROVE  /\ \A i : i \in DOMAIN scheduled_timers' <=> i \in DOMAIN scheduled_timers /\ i # id
             /\ \A i \in DOMAIN scheduled_timers' : scheduled_timers'[i] = scheduled_timers[i]
  BY <1>6, PopIs
<1>7. CASE k = 0 /\ \A l \in DOMAIN decisions :
                ~(decisions[l].machine.target = "TIMER" /\ decisions[l].id = id)
  <2>1. id \notin DOMAIN scheduled_timers
    BY <1>3, <1>7, Zenon DEF OpenIn, IsOpen
  <2>2. decisions' = decisions
    <3>1. DOMAIN decisions = 1..Len(decisions) /\ Len(decisions) \in Nat
      BY <1>3, SequenceIs DEF IsDecisions
    <3>2. 0 \notin DOMAIN decisions
      BY <3>1
    <3>3. [decisions EXCEPT ![0].machine = cancel(m)] = [i \in DOMAIN decisions |-> decisions[i]]
      BY <3>2
    <3>4. [i \in DOMAIN decisions |-> decisions[i]] = decisions
      BY <1>3 DEF IsDecisions, IsSequence
    <3> QED BY <1>2, <1>7, <3>3, <3>4
  <2>3. /\ \A i : i \in DOMAIN scheduled_timers' <=> i \in DOMAIN scheduled_timers
        /\ \A i \in DOMAIN scheduled_timers' : scheduled_timers'[i] = scheduled_timers[i]
    BY <1>2, <1>6, <2>1, Zenon
  <2> QED BY <1>3, <1>5, <2>1, <2>2, <2>3, Zenon
<1>8. CASE k \in DOMAIN decisions /\ decisions[k].machine.target = "TIMER" /\ decisions[k].id = id
  <2>1. OpenIn(decisions, "TIMER", id) <=> ~is_done(m)
    BY <1>1, <1>3, <1>8, OpenAt, Zenon
  <2>2. CASE is_done(m)
    <3>1. id \notin DOMAIN scheduled_timers /\ UNCHANGED <<decisions, scheduled_timers>>
      BY <1>2, <1>3, <2>1, <2>2, Zenon
    <3> QED BY <1>3, <1>5, <3>1, Zenon
  <2>3. CASE ~is_done(m)
    <3>1. Legal(m) /\ m.target = "TIMER"
      BY <1>1, <1>3, <1>8, Zenon DEF IsDecisions, IsEntry
    <3>2. PICK n : n = cancel(m)
      OBVIOUS
    <3>3. Legal(n) /\ n.target = "TIMER" /\ is_done(n)
      BY <2>3, <3>1, <3>2, CancelLegal
    <3>4. decisions' = [decisions EXCEPT ![k].machine = n]
      BY <1>2, <2>3, <3>2
    <3>5. n.target = decisions[k].machine.target
      BY <1>8, <3>3
    <3>6. /\ IsDecisions(decisions')
          /\ \A target, i : ~(target = n.target /\ i = decisions[k].id) =>
               (OpenIn(decisions', target, i) <=> OpenIn(decisions, target, i))
          /\ OpenIn(decisions', n.target, decisions[k].id) <=> ~is_done(n)
      BY <1>3, <1>8, <3>3, <3>4, <3>5, MachineUpdate, Zenon
    <3>7. /\ \A i : OpenIn(decisions', "ACTIVITY", i) <=> OpenIn(decisions, "ACTIVITY", i)
          /\ \A i : i # id => (OpenIn(decisions', "TIMER", i) <=> OpenIn(decisions, "TIMER", i))
          /\ ~OpenIn(decisions', "TIMER", id)
      <4> "TIMER" # "ACTIVITY"
        OBVIOUS
      <4> QED BY <1>8, <3>3, <3>6, Zenon
    <3>8. /\ \A i : i \in DOMAIN scheduled_timers' <=> i \in DOMAIN scheduled_timers /\ i # id
          /\ \A i \in DOMAIN scheduled_timers' : scheduled_timers'[i] = scheduled_timers[i]
      BY <1>2, <1>6, <2>3
    <3> QED BY <1>3, <1>5, <3>6, <3>7, <3>8, Zenon
  <2> QED BY <2>2, <2>3
<1> QED BY <1>4, <1>7, <1>8

\* await_till is over: its timer, if it has one that has not fired, is canceled.
LEMMA AwaitReturnsInv ==
  ASSUME Inv, AwaitReturns
  PROVE  Inv'
<1>1. /\ Runs({"await", "await_timeout"}, TRUE)
      /\ \E outcome : Leave(outcome)
      /\ UNCHANGED <<id_counter, scheduled_activities, completed, tasks, ready, quota, running>>
      /\ Quiet
  BY Zenon DEF AwaitReturns
<1>2. running # 0
  BY <1>1 DEF Runs
<1>3. /\ next_decision_event_id \in Nat /\ next_decision_event_id > 0
      /\ id_counter \in Nat /\ completed \in BOOLEAN
  BY <1>2, RunningThread
<1>4. \A i \in DOMAIN scheduled_timers :
        scheduled_timers[i] = running => ~task[running].fired /\ task[running].id = i /\ i # 0
  <2>1. ASSUME NEW i \in DOMAIN scheduled_timers PROVE i # 0
    <3>1. PICK k \in DOMAIN decisions : IsOpen(decisions[k], "TIMER", i)
      BY Zenon DEF Inv, PendingInv, OpenIn
    <3>2. IsEntry(decisions[k]) /\ Waits(decisions[k].machine) /\ decisions[k].id = i
      BY <3>1 DEF Inv, IsDecisions, IsOpen, Waits
    <3> QED BY <3>2 DEF IsEntry
  <2>2. \A i \in DOMAIN scheduled_timers :
          scheduled_timers[i] = running => ~task[running].fired /\ task[running].id = i
    <3>1. \A i \in DOMAIN scheduled_timers : HoldsTimer(i)
      BY DEF Inv, PendingInv
    <3> QED BY <3>1 DEF HoldsTimer, WaitsFor
  <2> QED BY <2>1, <2>2, Zenon
<1>5. CASE task[running].fired \/ task[running].id = 0
  <2>1. UNCHANGED <<decisions, scheduled_timers, next_decision_event_id>>
    BY <1>5, Zenon DEF AwaitReturns
  <2>2. Free
    BY <1>4, <1>5 DEF Free
  <2> QED BY <1>1, <1>2, <2>1, <2>2, LeaveInv, Zenon
<1>6. CASE ~(task[running].fired \/ task[running].id = 0)
  <2>1. cancel_timer(task[running].id)
    BY <1>6, Zenon DEF AwaitReturns
  <2>2. PICK id : id = task[running].id
    OBVIOUS
  <2>3. /\ IsDecisions(decisions')
        /\ \A i : OpenIn(decisions', "ACTIVITY", i) <=> OpenIn(decisions, "ACTIVITY", i)
        /\ \A i : i \in DOMAIN scheduled_timers' <=> OpenIn(decisions', "TIMER", i)
        /\ \A i \in DOMAIN scheduled_timers' :
             /\ i \in DOMAIN scheduled_timers /\ i # id
             /\ scheduled_timers'[i] = scheduled_timers[i]
        /\ next_decision_event_id' \in Nat /\ next_decision_event_id' > 0
    BY <1>3, <2>1, <2>2, CancelIs, Zenon
  <2>4. PICK r : RunsTo(r)
    BY <1>1, <1>2, LeavesTo
  <2>5. \A i \in DOMAIN scheduled_timers' :
          /\ i \in DOMAIN scheduled_timers /\ scheduled_timers'[i] = scheduled_timers[i]
          /\ scheduled_timers[i] # running
    BY <1>4, <2>2, <2>3
  <2>6. \A i : i \in DOMAIN scheduled_activities' <=> OpenIn(decisions', "ACTIVITY", i)
    BY <1>1, <2>3, Zenon DEF Inv, PendingInv
  <2>7. \A i \in DOMAIN scheduled_activities' :
          i \in DOMAIN scheduled_activities /\ scheduled_activities'[i] = scheduled_activities[i]
    BY <1>1
  <2> QED BY <1>1, <1>2, <1>3, <2>3, <2>4, <2>5, <2>6, <2>7, RunStep, Zenon
<1> QED BY <1>5, <1>6

\* Whatever the workflow code does keeps the invariant.
LEMMA RunCodeInv ==
  ASSUME Inv, RunCode
  PROVE  Inv'
BY StartHandleInv, ScheduleActivityInv, EnterAwaitInv, LeavingInv, RaisingInv, ReturningInv,
   AwaitBlocksInv, AwaitReturnsInv, Zenon DEF RunCode

-----------------------------------------------------------------------------
(* The whole *)

\* The decisions that a worker sends are a sequence.
LEMMA DecisionsAre ==
  ASSUME IsDecisions(decisions)
  PROVE  IsSequence(get_decisions)
<1> DEFINE all == [k \in DOMAIN decisions |-> k]
<1>1. DOMAIN decisions = 1..Len(decisions) /\ Len(decisions) \in Nat
  BY SequenceIs DEF IsDecisions
<1>2. IsSequence(all)
  <2>1. all = [k \in 1..Len(decisions) |-> all[k]]
    BY <1>1
  <2> HIDE DEF all
  <2> QED BY <1>1, <2>1, SequenceMade
<1>3. IsSequence(Sending)
  <2> HIDE DEF all
  <2>1. IsSequence(Without(all, {k \in DOMAIN decisions : ~Sends(decisions[k])}))
    BY <1>2, WithoutIs
  <2> QED BY <2>1 DEF Sending, all
<1>4. DOMAIN Sending = 1..Len(Sending) /\ Len(Sending) \in Nat
  BY <1>3, SequenceIs
<1> DEFINE f == [n \in DOMAIN Sending |-> Sent(decisions[Sending[n]])]
<1>5. f = [n \in 1..Len(Sending) |-> f[n]]
  BY <1>4
<1> HIDE DEF f
<1>6. IsSequence(f)
  BY <1>4, <1>5, SequenceMade
<1> QED BY <1>6 DEF f, get_decisions

\* The thread is done with its task, one way or another.
LEMMA EndsInv ==
  ASSUME Inv, RespondDecisions \/ Crash \/ RespondQueryFailed \/ respond_query
  PROVE  Inv'
<1>1. ServiceOK /\ IsDecisions(decisions)
  BY DEF Inv, ThreadInv, ServiceOK
<1>2. DropDecider /\ workflow' = workflow
  BY Zenon DEF RespondDecisions, Crash, RespondQueryFailed, respond_query
<1>3. Grows
  <2>1. CASE RespondDecisions
    <3>1. RespondDecisionTaskCompleted(polled, get_decisions)
      BY <2>1 DEF RespondDecisions
    <3>2. IsSequence(get_decisions)
      BY <1>1, DecisionsAre
    <3> QED BY <1>1, <3>1, <3>2, RespondGrows, Zenon
  <2>2. CASE Crash \/ RespondQueryFailed \/ respond_query
    <3>1. UNCHANGED serviceVars
      BY <2>2, Zenon DEF Crash, RespondQueryFailed, respond_query
    <3>2. Len(history) \in Nat
      BY <1>1, SequenceIs DEF ServiceOK
    <3> QED BY <1>1, <3>1, <3>2 DEF Grows, ServiceOK, serviceVars
  <2> QED BY <2>1, <2>2
<1> QED BY <1>2, <1>3, DropInv

\* The inductive invariant holds at the start.
LEMMA InitInv == Init => Inv
<1> SUFFICES ASSUME Init PROVE Inv
  OBVIOUS
<1>1. Empty
  BY Zenon DEF Init, NewDecider, Empty
<1>2. CodeInv
  BY <1>1, EmptyInv
<1>3. IsSequence(history) /\ Len(history) > 0 /\ IsSequence(buffered)
      /\ decisionTask \in {"none", "scheduled", "started"}
  <2>1. buffered = <<>> /\ decisionTask = "scheduled"
    BY DEF Init, ServiceInit
  <2>2. history = <<Event("WorkflowExecutionStarted", 0, ""), Scheduled>>
    BY DEF Init, ServiceInit
  <2> DEFINE e == Event("WorkflowExecutionStarted", 0, "")
  <2> HIDE DEF e
  <2>3. <<e, Scheduled>> \in Seq({e, Scheduled}) /\ Len(<<e, Scheduled>>) = 2
    OBVIOUS
  <2>4. IsSequence(<<e, Scheduled>>)
    BY <2>3, SequenceOver
  <2>5. history = <<e, Scheduled>>
    BY <2>2, Zenon DEF e
  <2>6. IsSequence(history) /\ Len(history) = 2
    BY <2>3, <2>4, <2>5, Zenon
  <2>7. IsSequence(buffered)
    BY <2>1, EmptySequence, Zenon
  <2> QED BY <2>1, <2>6, <2>7
<1>4. /\ workflow \in Workflow /\ phase = "idle" /\ querying = FALSE /\ polled = 0 /\ at = 1
      /\ batch = NoBatch /\ next_decision_event_id = 0 /\ id_counter = 0 /\ completed = FALSE
  BY DEF Init, NewDecider
<1>5. NoBatch \in [from : Nat, stop : Nat, replay : BOOLEAN, next_decision_event_id : Nat, end : Nat]
  BY DEF NoBatch
<1>6. Len(history) \in Nat
  BY <1>3, SequenceIs
<1>7. polled \in 0..Len(history) /\ at \in Nat /\ next_decision_event_id \in Nat /\ id_counter \in Nat
  BY <1>4, <1>6
<1>8. ThreadInv
  BY <1>3, <1>4, <1>5, <1>7, Zenon DEF ThreadInv
<1> QED BY <1>2, <1>4, <1>8 DEF Inv, CodeInv

\* Each step keeps the inductive invariant.
LEMMA NextInv == Inv /\ [Next]_vars => Inv'
<1> SUFFICES ASSUME Inv, [Next]_vars PROVE Inv'
  OBVIOUS
<1>1. CASE UNCHANGED vars
  <2>1. UNCHANGED <<serviceVars, workflow, replayVars, deciderVars, codeVars>>
    BY <1>1 DEF vars
  <2>2. codeAlone /\ phase' = phase
    BY <2>1, Zenon DEF codeAlone, replayVars, deciderVars, codeVars
  <2>3. ThreadInv'
    BY <2>1, Zenon DEF Inv, ThreadInv, serviceVars, replayVars, deciderVars
  <2> QED BY <2>2, <2>3, CodeStays, Zenon DEF Inv, TasksInv
<1>2. CASE WorkerStep
  BY <1>2, BeginBatchInv, ProcessEventInv, RunEventLoopInv, PhaseInv, RunCodeInv, EndEventLoopInv,
     EndsInv, QueryInv, Zenon DEF WorkerStep
<1>3. CASE Poll \/ PollQuery \/ Crash \/ ServiceActs
  BY <1>3, PollInv, EndsInv, ServiceActsInv, Zenon
<1> QED BY <1>1, <1>2, <1>3, Zenon DEF Next

\* The inductive invariant: whatever the program, the service and the workers do.
THEOREM Invariant == Spec => []Inv
BY InitInv, NextInv, PTL DEF Spec

\* Every variable of the decider has its type, and so do the machines: none of them
\* ever becomes illegal in the dict.
THEOREM TypeCorrect == Spec => []TypeOK
<1>1. Inv => TypeOK
  <2> SUFFICES ASSUME Inv PROVE TypeOK
    OBVIOUS
  <2>1. /\ decisionTask \in {"none", "scheduled", "started"}
        /\ phase \in {"idle", "next", "events", "loop", "decision_events", "query", "dead"}
        /\ querying \in BOOLEAN /\ polled \in 0..Len(history) /\ at \in Nat
        /\ next_decision_event_id \in Nat /\ id_counter \in Nat /\ completed \in BOOLEAN
    BY DEF Inv, ThreadInv
  <2>2. \A k \in DOMAIN decisions : decisions[k].machine \in Machine
    BY DEF Inv, IsDecisions, IsEntry, Legal
  <2>3. tasks \in Seq(DOMAIN task) /\ ready \in Seq(DOMAIN task)
    <3>1. IsSequence(tasks) /\ \A i \in DOMAIN tasks : tasks[i] \in DOMAIN task
      BY DEF Inv, TasksInv, ToSet
    <3>2. IsSequence(ready) /\ \A i \in DOMAIN ready : ready[i] \in DOMAIN task
      BY DEF Inv, TasksInv, ToSet
    <3> QED BY <3>1, <3>2, SequenceType
  <2>4. quota \in 0..Len(ready) /\ running \in {0} \cup DOMAIN task
    BY DEF Inv, TasksInv
  <2>5. ASSUME NEW id, NEW target, OpenIn(decisions, target, id) PROVE id \in Nat
    <3>1. PICK k \in DOMAIN decisions : IsOpen(decisions[k], target, id)
      BY <2>5 DEF OpenIn
    <3>2. IsEntry(decisions[k]) /\ decisions[k].id = id
      BY <3>1 DEF IsOpen, Inv, IsDecisions
    <3> QED BY <3>2 DEF IsEntry
  <2>6. /\ \A id \in DOMAIN scheduled_activities : id \in Nat /\ scheduled_activities[id] \in DOMAIN task
        /\ \A id \in DOMAIN scheduled_timers : id \in Nat /\ scheduled_timers[id] \in DOMAIN task
    BY <2>5, Zenon DEF Inv, PendingInv, HoldsActivity, HoldsTimer
  <2>7. \A dict \in {scheduled_activities, scheduled_timers} :
          \A id \in DOMAIN dict : id \in Nat /\ dict[id] \in DOMAIN task
    BY <2>6, Zenon
  <2> QED BY <2>1, <2>2, <2>3, <2>4, <2>7, Zenon DEF TypeOK
<1> QED BY <1>1, Invariant, PTL

\* The decisions, the dicts and the coroutines agree on who waits for what: a result
\* reaches the task that asked for it and has none yet, or nobody.
THEOREM PendingAreAwaited == Spec => []PendingIsAwaited
<1>1. Inv => PendingIsAwaited
  <2> SUFFICES ASSUME Inv PROVE PendingIsAwaited
    OBVIOUS
  <2>1. \A target, id : id \in OpenIds(target) <=> OpenIn(decisions, target, id)
    BY DEF OpenIds, OpenIn, IsOpen
  <2>2. DOMAIN scheduled_activities = OpenIds("ACTIVITY") /\ DOMAIN scheduled_timers = OpenIds("TIMER")
    <3>1. \A id : /\ id \in DOMAIN scheduled_activities <=> id \in OpenIds("ACTIVITY")
                  /\ id \in DOMAIN scheduled_timers <=> id \in OpenIds("TIMER")
      BY <2>1, Zenon DEF Inv, PendingInv
    <3> QED BY <3>1
  <2> QED BY <2>2, Zenon DEF Inv, PendingInv, HoldsActivity, HoldsTimer, PendingIsAwaited
<1> QED BY <1>1, Invariant, PTL
-----------------------------------------------------------------------------
(* Program order *)

\* The operations of this log that are the task's.
DoneBy(operations, t) == {j \in DOMAIN operations : operations[j][1][1] = t}

\* Each task is as far in its code as the log says, and so far in order; one that has
\* raised does no more.
OrderInv ==
  /\ IsSequence(log)
  /\ \A i \in DOMAIN log : log[i][1][1] \in DOMAIN task
  /\ \A t \in DOMAIN task :
       task[t].status # "DONE" => task[t].pc = Cardinality(DoneBy(log, t)) + 1
  /\ Durable!InProgramOrder(log)
  /\ Durable!InProgramOrder(committed)

\* Steps in which the code completes no operation.
CodeKeeps ==
  /\ log' = log /\ committed' = committed
  /\ DOMAIN task \subseteq DOMAIN task'
  /\ \A t \in DOMAIN task : task'[t].status # "DONE" =>
                              task[t].status # "DONE" /\ task'[t].pc = task[t].pc
  /\ \A t \in DOMAIN task' \ DOMAIN task : task'[t].pc = 1

\* Steps in which the running task completes an operation, or raises.
CodeDoes(outcome) ==
  /\ running \in DOMAIN task /\ task[running].status # "DONE"
  /\ log' = Append(log, <<Place, outcome>>) /\ committed' = committed
  /\ DOMAIN task' = DOMAIN task
  /\ \A t \in DOMAIN task : t # running => task'[t] = task[t]
  /\ task'[running].status = "DONE" \/ task'[running].pc = task[running].pc + 1

\* Steps after which there is no decider, and its log may have been accepted.
CodeDrops == log' = <<>> /\ task' = <<>> /\ committed' \in {committed, log}

\* Numbers of elements are the same there and here.
LEMMA CardinalityIs == \A S : Durable!Cardinality(S) = Cardinality(S)
BY Zenon DEF Durable!Cardinality, Cardinality

\* Steps in which nothing is done keep the order.
LEMMA KeepsOrder ==
  ASSUME OrderInv, CodeKeeps
  PROVE  OrderInv'
<1>1. log' = log /\ committed' = committed
  BY DEF CodeKeeps
<1>2. \A t : DoneBy(log, t)' = DoneBy(log, t)
  BY <1>1 DEF DoneBy
<1>3. ASSUME NEW t \in DOMAIN task', task'[t].status # "DONE"
      PROVE  task'[t].pc = Cardinality(DoneBy(log, t)) + 1
  <2>1. CASE t \in DOMAIN task
    BY <2>1, <1>3, Zenon DEF CodeKeeps, OrderInv
  <2>2. CASE t \notin DOMAIN task
    <3>1. DoneBy(log, t) = {}
      BY <2>2 DEF OrderInv, DoneBy
    <3>2. Cardinality(DoneBy(log, t)) = 0
      BY <3>1, FS_EmptySet
    <3>3. task'[t].pc = 1
      BY <2>2, <1>3 DEF CodeKeeps
    <3> QED BY <3>2, <3>3
  <2> QED BY <2>1, <2>2
<1>4. \A i \in DOMAIN log : log[i][1][1] \in DOMAIN task'
  BY Zenon DEF CodeKeeps, OrderInv
<1>5. Durable!InProgramOrder(log)' /\ Durable!InProgramOrder(committed)'
  BY <1>1 DEF OrderInv, Durable!InProgramOrder
<1> QED BY <1>1, <1>2, <1>3, <1>4, <1>5, Zenon DEF OrderInv

\* A decider that is dropped leaves what was accepted of its log.
LEMMA DropsOrder ==
  ASSUME OrderInv, CodeDrops
  PROVE  OrderInv'
<1>1. log' = <<>> /\ task' = <<>> /\ IsSequence(<<>>) /\ DOMAIN <<>> = {}
  BY EmptySequence, Zenon DEF CodeDrops
<1>2. Durable!InProgramOrder(log')
  BY <1>1 DEF Durable!InProgramOrder
<1>3. Durable!InProgramOrder(committed')
  <2>1. committed' = committed \/ committed' = log
    BY DEF CodeDrops
  <2> QED BY <2>1, Zenon DEF OrderInv
<1>4. IsSequence(log')
  BY <1>1
<1>5. DOMAIN log' = {} /\ DOMAIN task' = {}
  BY <1>1
<1> QED BY <1>2, <1>3, <1>4, <1>5, Zenon DEF OrderInv

\* The operation that is done is the task's next one.
LEMMA DoesOrder ==
  ASSUME OrderInv, NEW outcome, CodeDoes(outcome)
  PROVE  OrderInv'
<1> DEFINE n == Len(log) + 1
           e == <<Place, outcome>>
<1>1. /\ IsSequence(log') /\ DOMAIN log' = DOMAIN log \cup {n} /\ n \notin DOMAIN log
      /\ \A i \in DOMAIN log : log'[i] = log[i]
      /\ log'[n] = e
      /\ DOMAIN log = 1..Len(log) /\ Len(log) \in Nat
  <2> HIDE DEF e
  <2>1. log' = Append(log, e) /\ IsSequence(log)
    BY DEF CodeDoes, OrderInv, e
  <2>2. Len(log) \in Nat /\ DOMAIN log = 1..Len(log)
    BY <2>1, SequenceIs
  <2>3. /\ IsSequence(Append(log, e)) /\ Append(log, e)[n] = e
        /\ DOMAIN Append(log, e) = DOMAIN log \cup {n}
        /\ \A i \in DOMAIN log : Append(log, e)[i] = log[i]
    BY <2>1, SequenceAppend
  <2>4. n \notin DOMAIN log
    BY <2>2
  <2> QED BY <2>1, <2>2, <2>3, <2>4
<1>2. e[1][1] = running /\ e[1][2] = task[running].pc
  BY DEF Place
<1> HIDE DEF e
<1>3. \A t : t # running => DoneBy(log', t) = DoneBy(log, t)
  BY <1>1, <1>2 DEF DoneBy
<1>4. DoneBy(log', running) = DoneBy(log, running) \cup {n}
  BY <1>1, <1>2 DEF DoneBy
<1>5. IsFiniteSet(DoneBy(log, running)) /\ n \notin DoneBy(log, running)
      /\ Cardinality(DoneBy(log, running)) \in Nat
  <2>1. IsFiniteSet(1..Len(log))
    BY <1>1, FS_Interval
  <2>2. DoneBy(log, running) \in SUBSET (1..Len(log))
    BY <1>1 DEF DoneBy
  <2>3. n \notin DoneBy(log, running)
    BY <1>1 DEF DoneBy
  <2>4. IsFiniteSet(DoneBy(log, running))
    BY <2>1, <2>2, FS_Subset
  <2> QED BY <2>3, <2>4, FS_CardinalityType
<1>6. Cardinality(DoneBy(log', running)) = Cardinality(DoneBy(log, running)) + 1
  BY <1>4, <1>5, FS_AddElement
<1>7. task[running].pc = Cardinality(DoneBy(log, running)) + 1
  BY DEF OrderInv, CodeDoes
<1>8. \A i \in DOMAIN log' : log'[i][1][1] \in DOMAIN task'
  BY <1>1, <1>2, Zenon DEF OrderInv, CodeDoes
<1>9. ASSUME NEW t \in DOMAIN task', task'[t].status # "DONE"
      PROVE  task'[t].pc = Cardinality(DoneBy(log', t)) + 1
  <2>1. CASE t = running
    <3>1. task'[t].pc = task[running].pc + 1
      BY <2>1, <1>9 DEF CodeDoes
    <3> QED BY <3>1, <2>1, <1>6, <1>7
  <2>2. CASE t # running
    BY <2>2, <1>3, <1>9, Zenon DEF CodeDoes, OrderInv
  <2> QED BY <2>1, <2>2
<1>10. Durable!InProgramOrder(log')
  <2> SUFFICES ASSUME NEW i \in DOMAIN log'
               PROVE  log'[i][1][2] = Cardinality({j \in 1..(i - 1) : log'[j][1][1] = log'[i][1][1]}) + 1
    BY CardinalityIs, Zenon DEF Durable!InProgramOrder
  <2>1. CASE i = n
    <3>1. {j \in 1..(i - 1) : log'[j][1][1] = log'[i][1][1]} = DoneBy(log, running)
      BY <2>1, <1>1, <1>2 DEF DoneBy
    <3> QED BY <3>1, <2>1, <1>1, <1>2, <1>7
  <2>2. CASE i # n
    <3>1. i \in DOMAIN log /\ log'[i] = log[i] /\ 1..(i - 1) \subseteq DOMAIN log
      BY <2>2, <1>1
    <3>2. {j \in 1..(i - 1) : log'[j][1][1] = log'[i][1][1]}
            = {j \in 1..(i - 1) : log[j][1][1] = log[i][1][1]}
      BY <3>1, <1>1
    <3>3. log[i][1][2] = Cardinality({j \in 1..(i - 1) : log[j][1][1] = log[i][1][1]}) + 1
      BY <3>1, CardinalityIs DEF OrderInv, Durable!InProgramOrder
    <3> QED BY <3>1, <3>2, <3>3
  <2> QED BY <2>1, <2>2
<1>11. Durable!InProgramOrder(committed')
  BY Zenon DEF OrderInv, CodeDoes
<1>12. IsSequence(log')
  BY <1>1
<1> QED BY <1>8, <1>9, <1>10, <1>11, <1>12, Zenon DEF OrderInv

\* A step that changes one of these fields of one task.
LEMMA FieldKeeps ==
  ASSUME TasksInv, NEW t, UNCHANGED <<log, committed>>,
         \/ \E x : task' = [task EXCEPT ![t].result = x]
         \/ task' = [task EXCEPT ![t].fired = TRUE]
         \/ \E x : task' = [task EXCEPT ![t].awaited = x]
         \/ \E id : task' = [task EXCEPT ![t].entered = TRUE, ![t].id = id]
         \/ task' = [task EXCEPT ![t].status = "DONE"]
         \/ task' = [task EXCEPT ![t].status = "RUNNING"] /\ task[t].status # "DONE"
  PROVE  CodeKeeps
<1>1. DOMAIN task' = DOMAIN task
  OBVIOUS
<1>2. ASSUME NEW u \in DOMAIN task
      PROVE  /\ task'[u].pc = task[u].pc
             /\ task'[u].status # "DONE" => task[u].status # "DONE"
  <2>1. IsTask(task[u])
    BY DEF TasksInv
  <2>2. CASE u # t
    BY <2>2
  <2>3. CASE u = t
    <3>1. CASE \E x : task' = [task EXCEPT ![t].result = x]
      <4>1. PICK x : task' = [task EXCEPT ![t].result = x]
        BY <3>1
      <4>2. task' = [task EXCEPT ![u].result = x]
        BY <2>3, <4>1, Zenon
      <4>3. task'[u] = [task[u] EXCEPT !.result = x]
        BY <4>2
      <4> QED BY <2>1, <4>3 DEF IsTask
    <3>2. CASE task' = [task EXCEPT ![t].fired = TRUE]
      BY <2>1, <2>3, <3>2 DEF IsTask
    <3>3. CASE \E x : task' = [task EXCEPT ![t].awaited = x]
      <4>1. PICK x : task' = [task EXCEPT ![t].awaited = x]
        BY <3>3
      <4>2. task' = [task EXCEPT ![u].awaited = x]
        BY <2>3, <4>1, Zenon
      <4>3. task'[u] = [task[u] EXCEPT !.awaited = x]
        BY <4>2
      <4> QED BY <2>1, <4>3 DEF IsTask
    <3>4. CASE \E id : task' = [task EXCEPT ![t].entered = TRUE, ![t].id = id]
      <4>1. PICK id : task' = [task EXCEPT ![t].entered = TRUE, ![t].id = id]
        BY <3>4
      <4>2. task' = [task EXCEPT ![u].entered = TRUE, ![u].id = id]
        BY <2>3, <4>1, Zenon
      <4>3. task'[u] = [task[u] EXCEPT !.entered = TRUE, !.id = id]
        BY <4>2
      <4> QED BY <2>1, <4>3 DEF IsTask
    <3>5. CASE task' = [task EXCEPT ![t].status = "DONE"]
      BY <2>1, <2>3, <3>5 DEF IsTask
    <3>6. CASE task' = [task EXCEPT ![t].status = "RUNNING"] /\ task[t].status # "DONE"
      <4>1. task' = [task EXCEPT ![u].status = "RUNNING"] /\ task[u].status # "DONE"
        BY <2>3, <3>6, Zenon
      <4>2. task'[u] = [task[u] EXCEPT !.status = "RUNNING"]
        BY <4>1
      <4> QED BY <2>1, <4>1, <4>2 DEF IsTask
    <3> QED BY <3>1, <3>2, <3>3, <3>4, <3>5, <3>6
  <2> QED BY <2>2, <2>3
<1> QED BY <1>1, <1>2 DEF CodeKeeps

\* unblock_all leaves the tasks where they are.
LEMMA UnblockKeeps ==
  ASSUME TasksInv, unblock_all, UNCHANGED <<log, committed>>
  PROVE  CodeKeeps
<1>1. DOMAIN task' = DOMAIN task
  BY DEF unblock_all
<1>2. ASSUME NEW u \in DOMAIN task
      PROVE  task'[u].pc = task[u].pc /\ task'[u].status = task[u].status
  <2>1. IsTask(task[u])
    BY DEF TasksInv
  <2>2. task'[u] = task[u] \/ task'[u] = [task[u] EXCEPT !.awaited = "set"]
    BY DEF unblock_all
  <2> QED BY <2>1, <2>2 DEF IsTask
<1> QED BY <1>1, <1>2 DEF CodeKeeps

\* A new task is at the start of its code.
LEMMA NewKeeps ==
  ASSUME TasksInv, NEW name, NewTask(name), UNCHANGED <<log, committed>>
  PROVE  CodeKeeps
<1>1. /\ DOMAIN task' = DOMAIN task \cup {Len(task) + 1}
      /\ \A t \in DOMAIN task : task'[t] = task[t]
      /\ task'[Len(task) + 1] = Created(name)
  BY SequenceAppend DEF NewTask, TasksInv
<1>2. Created(name).pc = 1
  BY TaskCreated
<1> QED BY <1>1, <1>2 DEF CodeKeeps

\* The running task completes its operation.
LEMMA LeaveDoes ==
  ASSUME Inv, running # 0, NEW outcome, Leave(outcome), committed' = committed
  PROVE  CodeDoes(outcome)
<1>1. running \in DOMAIN task /\ IsTask(task[running]) /\ task[running].status = "RUNNING"
  BY RunningThread
<1> PICK r : r = [task[running] EXCEPT !.pc = @ + 1, !.entered = FALSE, !.awaited = "none",
                                       !.id = 0, !.fired = FALSE, !.result = "none"]
  OBVIOUS
<1>2. r.pc = task[running].pc + 1
  BY <1>1, TaskLeaves, Zenon
<1>3. task' = [task EXCEPT ![running] = r] /\ log' = Append(log, <<Place, outcome>>)
  BY Zenon DEF Leave
<1>4. /\ DOMAIN task' = DOMAIN task /\ task'[running] = r
      /\ \A t \in DOMAIN task : t # running => task'[t] = task[t]
  BY <1>1, <1>3
<1> QED BY <1>1, <1>2, <1>3, <1>4 DEF CodeDoes

\* The running task raises, and is done.
LEMMA RaiseDoes ==
  ASSUME Inv, running # 0, NEW outcome, CodeRaises(outcome)
  PROVE  CodeDoes(outcome)
<1>1. running \in DOMAIN task /\ IsTask(task[running]) /\ task[running].status = "RUNNING"
  BY RunningThread
<1>2. /\ task' = [task EXCEPT ![running].status = "DONE", ![running].id = 0]
      /\ log' = Append(log, <<Place, outcome>>)
      /\ committed' = committed
  BY DEF CodeRaises, Quiet
<1>3. /\ DOMAIN task' = DOMAIN task /\ task'[running].status = "DONE"
      /\ \A t \in DOMAIN task : t # running => task'[t] = task[t]
  <2>1. task'[running] = [task[running] EXCEPT !.status = "DONE", !.id = 0]
    BY <1>1, <1>2
  <2>2. task'[running].status = "DONE"
    BY <1>1, <2>1 DEF IsTask
  <2> QED BY <1>2, <2>2
<1> QED BY <1>1, <1>2, <1>3 DEF CodeDoes

\* Steps that touch neither the tasks nor the logs.
LEMMA StillKeeps ==
  ASSUME UNCHANGED <<task, log, committed>>
  PROVE  CodeKeeps
BY DEF CodeKeeps

\* No event of the history completes an operation: that is left to the coroutine.
LEMMA EventKeeps ==
  ASSUME Inv, ProcessEvent
  PROVE  CodeKeeps
<1>0. TasksInv
  BY DEF Inv
<1>1. CASE SkipEvent \/ handle_workflow_execution_cancel_requested \/ handle_marker_recorded
           \/ handle_initiated \/ handle_timer_canceled \/ EventRaises \/ NoEventHandler
  <2>1. UNCHANGED <<task, log, committed>>
    BY <1>1, Zenon DEF SkipEvent, handle_workflow_execution_cancel_requested,
       handle_marker_recorded, handle_initiated, handle_timer_canceled, EventRaises,
       NoEventHandler, Raise, Consume, codeVars
  <2> QED BY <2>1, StillKeeps, Zenon
<1>2. CASE handle_workflow_execution_started \/ handle_workflow_execution_signaled
  <2>1. UNCHANGED <<log, committed>> /\ \E name : NewTask(name)
    BY <1>2, Zenon DEF handle_workflow_execution_started, handle_workflow_execution_signaled, Consume
  <2> QED BY <2>1, <1>0, NewKeeps, Zenon
<1>3. CASE handle_activity_closed
  <2>1. UNCHANGED <<log, committed>>
    BY <1>3, Zenon DEF handle_activity_closed, Consume
  <2>2. task' = task \/ \E t, x : Resolve(t, x)
    BY <1>3, Zenon DEF handle_activity_closed
  <2>3. task' = task \/ \E t, x : task' = [task EXCEPT ![t].result = x]
    BY <2>2, Zenon DEF Resolve
  <2> QED BY <1>0, <2>1, <2>3, FieldKeeps, StillKeeps, Zenon
<1>4. CASE handle_timer_fired
  <2>1. UNCHANGED <<log, committed>>
    BY <1>4, Zenon DEF handle_timer_fired, Consume
  <2>2. \/ task' = task
        \/ \E t, x : Resolve(t, x)
        \/ \E t : task' = [task EXCEPT ![t].fired = TRUE]
    BY <1>4, Zenon DEF handle_timer_fired
  <2>3. \/ task' = task
        \/ \E t, x : task' = [task EXCEPT ![t].result = x]
        \/ \E t : task' = [task EXCEPT ![t].fired = TRUE]
    BY <2>2, Zenon DEF Resolve
  <2> QED BY <1>0, <2>1, <2>3, FieldKeeps, StillKeeps, Zenon
<1> QED BY <1>1, <1>2, <1>3, <1>4, Zenon DEF ProcessEvent

\* The running task enters its operation, waits, or goes on to the next one.
LEMMA RunCodeSteps ==
  ASSUME Inv, RunCode
  PROVE  CodeKeeps \/ \E outcome : CodeDoes(outcome)
<1>0. TasksInv
  BY DEF Inv
<1>1. committed' = committed
  BY Zenon DEF RunCode, StartHandle, schedule_activity_task, schedule_timer, FutureDone, FutureFailed,
     CodeRaises, EnterAwait, AwaitBlocks, AwaitRaises, AwaitReturns, get_version, SetFlag,
     MainReturns, SignalReturns, UnknownSignal, QueryReturns, Quiet
<1>2. CASE StartHandle
  <2>1. ready # <<>> /\ IsSequence(ready)
    BY <1>0, <1>2, EmptySequence DEF StartHandle, TasksInv
  <2>2. Head(ready) \in ToSet(ready)
    BY <2>1, SequenceTail
  <2>3. task[running'].status # "DONE"
    BY <1>0, <1>2, <2>2 DEF StartHandle, TasksInv
  <2>4. task' = [task EXCEPT ![running'].status = "RUNNING"] /\ log' = log
    BY <1>2 DEF StartHandle
  <2> QED BY <1>0, <1>1, <2>3, <2>4, FieldKeeps, Zenon
<1>3. CASE schedule_activity_task \/ schedule_timer \/ EnterAwait
  <2>1. log' = log /\ \E id : Enter(id)
    BY <1>3, Zenon DEF schedule_activity_task, schedule_timer, create_timer, EnterAwait
  <2>2. \E id : task' = [task EXCEPT ![running].entered = TRUE, ![running].id = id]
    BY <2>1, Zenon DEF Enter
  <2> QED BY <1>0, <1>1, <2>1, <2>2, FieldKeeps, Zenon
<1>4. CASE AwaitBlocks
  <2>1. log' = log /\ task' = [task EXCEPT ![running].awaited = "pending"]
    BY <1>4, Zenon DEF AwaitBlocks
  <2> QED BY <1>0, <1>1, <2>1, FieldKeeps, Zenon
<1>5. CASE MainReturns \/ SignalReturns \/ UnknownSignal \/ QueryReturns
  <2>1. log' = log /\ task' = [task EXCEPT ![running].status = "DONE"]
    BY <1>5, Zenon DEF MainReturns, SignalReturns, UnknownSignal, QueryReturns, Returns
  <2> QED BY <1>0, <1>1, <2>1, FieldKeeps, Zenon
<1>6. CASE FutureDone \/ AwaitReturns \/ get_version \/ SetFlag
  <2>1. running # 0 /\ \E outcome : Leave(outcome)
    BY <1>6, Zenon DEF FutureDone, AwaitReturns, get_version, SetFlag, Runs
  <2> QED BY <1>1, <2>1, LeaveDoes, Zenon
<1>7. CASE FutureFailed \/ AwaitRaises
  <2>1. running # 0 /\ \E outcome : CodeRaises(outcome)
    BY <1>7, Zenon DEF FutureFailed, AwaitRaises, Runs
  <2> QED BY <2>1, RaiseDoes, Zenon
<1> QED BY <1>2, <1>3, <1>4, <1>5, <1>6, <1>7, Zenon DEF RunCode

\* Each step keeps the order of operations.
LEMMA NextOrder ==
  ASSUME Inv, OrderInv, [Next]_vars
  PROVE  OrderInv'
<1>0. TasksInv
  BY DEF Inv
<1>1. CASE UNCHANGED vars
  <2>1. UNCHANGED <<task, log, committed>>
    BY <1>1, Zenon DEF vars, codeVars
  <2> QED BY <2>1, StillKeeps, KeepsOrder, Zenon
<1>2. CASE Poll \/ PollQuery \/ BeginBatch \/ SkipCompleted \/ EndEventLoop \/ EndBatch \/ ServiceActs
  <2>1. UNCHANGED <<task, log, committed>>
    BY <1>2, Zenon DEF Poll, PollQuery, BeginBatch, SkipCompleted, EndEventLoop, EndBatch,
       ServiceActs, codeVars
  <2> QED BY <2>1, StillKeeps, KeepsOrder, Zenon
<1>3. CASE RunEventLoop
  <2>1. UNCHANGED <<log, committed>> /\ (task' = task \/ unblock_all)
    BY <1>3, Zenon DEF RunEventLoop, Raise, codeVars
  <2> QED BY <1>0, <2>1, StillKeeps, UnblockKeeps, KeepsOrder, Zenon
<1>4. CASE query
  <2>1. UNCHANGED <<log, committed>> /\ NewTask("query")
    BY <1>4, Zenon DEF query
  <2> QED BY <1>0, <2>1, NewKeeps, KeepsOrder, Zenon
<1>5. CASE RespondDecisions \/ Crash \/ RespondQueryFailed \/ respond_query
  <2>1. DropDecider /\ (committed' = committed \/ committed' = log)
    BY <1>5, Zenon DEF RespondDecisions, Crash, RespondQueryFailed, respond_query
  <2>2. CodeDrops
    BY <2>1, Zenon DEF CodeDrops, DropDecider
  <2> QED BY <2>2, DropsOrder, Zenon
<1>6. CASE ProcessEvent
  BY <1>6, EventKeeps, KeepsOrder, Zenon
<1>7. CASE RunCode
  BY <1>7, RunCodeSteps, KeepsOrder, DoesOrder, Zenon
<1> QED BY <1>1, <1>2, <1>3, <1>4, <1>5, <1>6, <1>7, Zenon DEF Next, WorkerStep

\* Nothing is done at the start.
LEMMA InitOrder == Init => OrderInv
<1> SUFFICES ASSUME Init PROVE OrderInv
  OBVIOUS
<1>1. log = <<>> /\ task = <<>> /\ committed = <<>>
  BY Zenon DEF Init, NewDecider
<1>2. IsSequence(log) /\ DOMAIN log = {} /\ DOMAIN task = {} /\ DOMAIN committed = {}
  BY <1>1, EmptySequence, Zenon
<1>3. Durable!InProgramOrder(log) /\ Durable!InProgramOrder(committed)
  BY <1>2 DEF Durable!InProgramOrder
<1> QED BY <1>2, <1>3 DEF OrderInv

\* In every replay, and in what is accepted of it, the workflow method and each signal
\* method do their operations in program order, each once.
THEOREM DoneInProgramOrder ==
  Spec => [](Durable!InProgramOrder(log) /\ Durable!InProgramOrder(committed))
<1>1. OrderInv => Durable!InProgramOrder(log) /\ Durable!InProgramOrder(committed)
  BY DEF OrderInv
<1> QED BY <1>1, InitOrder, NextOrder, Invariant, PTL DEF Spec

-----------------------------------------------------------------------------
(* A closed execution *)

\* No decision task follows the event that closes the execution.
QuietInv == Closed => decisionTask = "none"

\* The last element of a concatenation.
LEMMA LastConcat ==
  ASSUME NEW s, IsSequence(s), NEW t, IsSequence(t)
  PROVE  /\ Len(t) > 0 => Last(s \o t) = Last(t)
         /\ Len(t) = 0 /\ Len(s) > 0 => Last(s \o t) = Last(s)
<1>1. Len(s) \in Nat /\ Len(t) \in Nat
  BY SequenceIs
<1>2. /\ Len(s \o t) = Len(s) + Len(t)
      /\ \A i \in 1..Len(s) : (s \o t)[i] = s[i]
      /\ \A i \in 1..Len(t) : (s \o t)[Len(s) + i] = t[i]
  BY SequenceConcat
<1>3. ASSUME Len(t) > 0 PROVE Last(s \o t) = Last(t)
  <2>1. Len(t) \in 1..Len(t)
    BY <1>1, <1>3
  <2> QED BY <1>2, <2>1 DEF Last
<1>4. ASSUME Len(t) = 0, Len(s) > 0 PROVE Last(s \o t) = Last(s)
  <2>1. Len(s) \in 1..Len(s) /\ Len(s) + Len(t) = Len(s)
    BY <1>1, <1>4
  <2> QED BY <1>2, <2>1 DEF Last
<1> QED BY <1>3, <1>4

\* A history that ends in the start of a decision task, or in its being scheduled, is
\* not that of a closed execution.
LEMMA OpenEnds ==
  ASSUME NEW s, IsSequence(s), NEW e, e.type \notin ClosingEventTypes
  PROVE  Last(s \o <<e>>).type \notin ClosingEventTypes
<1>1. IsSequence(<<e>>) /\ Len(<<e>>) = 1
  BY OneEvent
<1>2. Last(s \o <<e>>) = Last(<<e>>)
  BY <1>1, LastConcat
<1>3. Last(<<e>>) = e
  BY <1>1 DEF Last
<1> QED BY <1>2, <1>3

\* The events of the decision tasks close nothing.
LEMMA TaskEventsOpen ==
  ASSUME NEW type \in {"DecisionTaskScheduled", "DecisionTaskStarted", "WorkflowExecutionSignaled",
                       "WorkflowExecutionCancelRequested", "ActivityTaskCompleted",
                       "ActivityTaskFailed", "ActivityTaskTimedOut", "TimerFired"},
         NEW ref, NEW name
  PROVE  Event(type, ref, name).type \notin ClosingEventTypes
BY DEF Event, ClosingEventTypes

\* Nor does the next decision task.
LEMMA ScheduledOpen == Scheduled.type \notin ClosingEventTypes
BY DEF Scheduled, Event, ClosingEventTypes

\* What is recorded while the execution is open leaves it open.
LEMMA RecordQuiet ==
  ASSUME ServiceOK, QuietInv, NEW events, IsSequence(events), Len(events) > 0, Record(events),
         Last(events).type \notin ClosingEventTypes
  PROVE  QuietInv' /\ ~Closed
<1>1. ~Closed
  BY DEF Record
<1>2. CASE decisionTask = "started"
  <2>1. UNCHANGED <<history, decisionTask>>
    BY <1>2, Zenon DEF Record
  <2> QED BY <1>1, <2>1, Zenon DEF QuietInv, Closed
<1>3. CASE decisionTask # "started"
  <2> DEFINE more == IF decisionTask = "none" THEN <<Scheduled>> ELSE <<>>
             a == history \o events
  <2>1. history' = a \o more
    BY <1>3 DEF Record
  <2>2. IsSequence(a) /\ Len(a) = Len(history) + Len(events)
        /\ Len(history) \in Nat /\ Len(events) \in Nat
    BY SequenceConcat, SequenceIs DEF ServiceOK
  <2>3. Len(a) > 0 /\ Last(a) = Last(events)
    BY <2>2, LastConcat DEF ServiceOK
  <2> HIDE DEF a
  <2>4. Last(history').type \notin ClosingEventTypes
    <3>1. CASE decisionTask = "none"
      <4>1. history' = a \o <<Scheduled>>
        BY <3>1, <2>1
      <4> QED BY <4>1, <2>2, ScheduledOpen, OpenEnds, Zenon
    <3>2. CASE decisionTask # "none"
      <4>1. more = <<>>
        BY <3>2
      <4>2. Last(a \o <<>>) = Last(a)
        BY <2>2, <2>3, LastConcat, EmptySequence
      <4> QED BY <2>1, <2>3, <4>1, <4>2
    <3> QED BY <3>1, <3>2
  <2> QED BY <1>1, <2>4 DEF QuietInv, Closed
<1> QED BY <1>2, <1>3

\* The end of a decision task closes the execution only if no other task follows.
LEMMA EndQuiet ==
  ASSUME ServiceOK, NEW ended, IsSequence(ended), NEW rest, IsSequence(rest),
         NEW retry \in BOOLEAN, EndDecisionTask(ended, rest, retry)
  PROVE  QuietInv'
<1>1. CASE retry \/ rest # <<>>
  <2>1. history' = history \o ended \o rest \o <<Scheduled>>
    BY <1>1 DEF EndDecisionTask
  <2>2. IsSequence(history \o ended \o rest)
    BY SequenceConcat DEF ServiceOK
  <2>3. Last(history').type \notin ClosingEventTypes
    BY <2>1, <2>2, ScheduledOpen, OpenEnds, Zenon
  <2> QED BY <2>3 DEF QuietInv, Closed
<1>2. CASE ~(retry \/ rest # <<>>)
  <2>1. decisionTask' = "none"
    BY <1>2, Zenon DEF EndDecisionTask
  <2> QED BY <2>1 DEF QuietInv
<1> QED BY <1>1, <1>2

\* Whatever the service does of itself happens to an open execution.
LEMMA ServiceQuiet ==
  ASSUME ServiceOK, QuietInv, ServiceStep
  PROVE  QuietInv' /\ ~Closed
<1>1. ASSUME NEW e, e.type \notin ClosingEventTypes, Record(<<e>>) PROVE QuietInv' /\ ~Closed
  <2>1. IsSequence(<<e>>) /\ Len(<<e>>) = 1
    BY OneEvent
  <2>2. Last(<<e>>) = e /\ Len(<<e>>) > 0
    BY <2>1 DEF Last
  <2> QED BY <1>1, <2>1, <2>2, RecordQuiet, Zenon
<1>2. ASSUME NEW e, NEW f, f.type \notin ClosingEventTypes, Record(<<e, f>>)
      PROVE  QuietInv' /\ ~Closed
  <2>1. <<e, f>> \in Seq({e, f}) /\ Len(<<e, f>>) = 2
    OBVIOUS
  <2>2. IsSequence(<<e, f>>)
    BY <2>1, SequenceOver
  <2>3. Last(<<e, f>>) = f /\ Len(<<e, f>>) > 0
    BY <2>1 DEF Last
  <2> QED BY <1>2, <2>2, <2>3, RecordQuiet, Zenon
<1>3. CASE Signal
  BY <1>1, <1>3, TaskEventsOpen, Zenon DEF Signal
<1>4. CASE RequestCancel
  BY <1>1, <1>4, TaskEventsOpen, Zenon DEF RequestCancel
<1>5. CASE CloseActivity
  <2>1. PICK i \in Open(Recorded, "ActivityTaskScheduled", ActivityClosed),
             type \in IF MayFail THEN ActivityClosed ELSE {"ActivityTaskCompleted"} :
               Record(<<Event("ActivityTaskStarted", i, ""), Event(type, i, "")>>)
    BY <1>5, Zenon DEF CloseActivity
  <2>2. type \in {"ActivityTaskCompleted", "ActivityTaskFailed", "ActivityTaskTimedOut"}
    BY DEF ActivityClosed
  <2>3. Event(type, i, "").type \notin ClosingEventTypes
    BY <2>2, TaskEventsOpen
  <2> QED BY <1>2, <2>1, <2>3, Zenon
<1>6. CASE FireTimer
  BY <1>1, <1>6, TaskEventsOpen, Zenon DEF FireTimer
<1>7. CASE TimeoutDecisionTask
  <2>1. decisionTask = "started" /\ EndDecisionTask(<<Event("DecisionTaskTimedOut", 0, "")>>, buffered, TRUE)
    BY <1>7, Zenon DEF TimeoutDecisionTask
  <2>2. IsSequence(<<Event("DecisionTaskTimedOut", 0, "")>>) /\ IsSequence(buffered) /\ TRUE \in BOOLEAN
    BY OneEvent DEF ServiceOK
  <2>3. QuietInv'
    BY <2>1, <2>2, EndQuiet, Zenon
  <2> QED BY <2>1, <2>3 DEF QuietInv
<1> QED BY <1>3, <1>4, <1>5, <1>6, <1>7 DEF ServiceStep

\* So does the start of a decision task.
LEMMA StartQuiet ==
  ASSUME ServiceOK, StartDecisionTask
  PROVE  QuietInv' /\ ~Closed
<1> DEFINE e == Event("DecisionTaskStarted", 0, "")
<1>1. history' = Append(history, e) /\ ~Closed
  BY DEF StartDecisionTask
<1>2. e.type \notin ClosingEventTypes
  BY TaskEventsOpen
<1> HIDE DEF e
<1>3. /\ IsSequence(history') /\ Len(history') = Len(history) + 1
      /\ history'[Len(history) + 1] = e
  BY <1>1, SequenceAppend DEF ServiceOK
<1>4. Last(history').type \notin ClosingEventTypes
  BY <1>2, <1>3 DEF Last
<1> QED BY <1>1, <1>4 DEF QuietInv, Closed

\* The answer to a decision task that is over is refused; any other closes the
\* execution at most once.
LEMMA RespondQuiet ==
  ASSUME ServiceOK, QuietInv, NEW token \in Nat, token > 0, NEW ds, IsSequence(ds),
         RespondDecisionTaskCompleted(token, ds)
  PROVE  QuietInv' /\ (Closed => token # StartedTask /\ history' = history)
<1>1. CASE token # StartedTask
  <2>1. UNCHANGED <<history, buffered, decisionTask>>
    BY <1>1, Zenon DEF RespondDecisionTaskCompleted, serviceVars
  <2> QED BY <1>1, <2>1, Zenon DEF QuietInv, Closed
<1>2. CASE token = StartedTask
  <2>1. ~Closed
    BY <1>2 DEF StartedTask, QuietInv
  <2> DEFINE fails == buffered # <<>> /\ SelectInSeq(ds, Closes) # 0
             done == UpToClose(ds)
             answers == [i \in DOMAIN done |-> DecisionEvent(done[i])]
             canceled == {i \in DOMAIN answers : answers[i].type = "TimerCanceled"}
             fired == {Event("TimerFired", answers[i].ref, "") : i \in canceled}
             ended == <<Event("DecisionTaskCompleted", 0, "")>> \o answers
             rest == Without(buffered, fired)
  <2>2. CASE fails
    <3>1. EndDecisionTask(<<Event("DecisionTaskFailed", 0, "")>>, buffered, TRUE)
      BY <1>2, <2>2, Zenon DEF RespondDecisionTaskCompleted
    <3>2. IsSequence(<<Event("DecisionTaskFailed", 0, "")>>) /\ IsSequence(buffered) /\ TRUE \in BOOLEAN
      BY OneEvent DEF ServiceOK
    <3> QED BY <2>1, <3>1, <3>2, EndQuiet, Zenon
  <2>3. CASE ~fails
    <3>1. EndDecisionTask(ended, rest, FALSE)
      BY <1>2, <2>3, Zenon DEF RespondDecisionTaskCompleted
    <3>2. Len(done) \in Nat /\ DOMAIN done = 1..Len(done)
      BY UpToCloseIs, SequenceIs
    <3>3. IsSequence(answers)
      <4> HIDE DEF done
      <4>1. answers = [i \in 1..Len(done) |-> answers[i]]
        BY <3>2
      <4> HIDE DEF answers
      <4> QED BY <3>2, <4>1, SequenceMade
    <3>4. IsSequence(ended)
      <4> HIDE DEF answers
      <4> QED BY <3>3, OneEvent, SequenceConcat
    <3>5. IsSequence(rest)
      <4> HIDE DEF fired
      <4> QED BY WithoutIs DEF ServiceOK
    <3> HIDE DEF ended, rest
    <3>6. FALSE \in BOOLEAN
      OBVIOUS
    <3> QED BY <2>1, <3>1, <3>4, <3>5, <3>6, EndQuiet, Zenon
  <2> QED BY <2>2, <2>3
<1> QED BY <1>1, <1>2

\* Each step leaves a closed execution as it is.
LEMMA NextQuiet ==
  ASSUME Inv, QuietInv, [Next]_vars
  PROVE  QuietInv' /\ (Closed => UNCHANGED <<history, committed>>)
<1>0. ServiceOK /\ ThreadInv
  BY DEF Inv, ThreadInv, ServiceOK
<1>1. ASSUME UNCHANGED <<serviceVars, committed>>
      PROVE  QuietInv' /\ (Closed => UNCHANGED <<history, committed>>)
  <2>1. UNCHANGED <<history, decisionTask, committed>>
    BY <1>1, Zenon DEF serviceVars
  <2> QED BY <2>1, Zenon DEF QuietInv, Closed
<1>2. CASE UNCHANGED vars
  BY <1>1, <1>2, Zenon DEF vars
<1>3. CASE Poll
  BY <1>0, <1>3, StartQuiet, Zenon DEF Poll
<1>4. CASE ServiceActs
  BY <1>0, <1>4, ServiceQuiet, Zenon DEF ServiceActs
<1>5. CASE RespondDecisions
  <2>1. phase = "next" /\ RespondDecisionTaskCompleted(polled, get_decisions)
    BY <1>5, Zenon DEF RespondDecisions
  <2>2. polled \in Nat /\ polled > 0
    <3>1. Len(history) \in Nat
      BY <1>0, SequenceIs DEF ServiceOK
    <3> QED BY <1>0, <2>1, <3>1 DEF ThreadInv
  <2>3. IsSequence(get_decisions)
    BY DecisionsAre DEF Inv
  <2>4. QuietInv' /\ (Closed => polled # StartedTask /\ history' = history)
    BY <1>0, <2>1, <2>2, <2>3, RespondQuiet, Zenon
  <2>5. polled # StartedTask => committed' = committed
    BY <1>5, Zenon DEF RespondDecisions
  <2> QED BY <2>4, <2>5
<1>6. CASE PollQuery \/ Crash \/ BeginBatch \/ RunEventLoop \/ SkipCompleted \/ EndEventLoop
           \/ EndBatch \/ query \/ respond_query \/ RespondQueryFailed
  <2>1. UNCHANGED <<serviceVars, committed>>
    BY <1>6, Zenon DEF PollQuery, Crash, BeginBatch, RunEventLoop, Raise, SkipCompleted,
       EndEventLoop, EndBatch, query, respond_query, RespondQueryFailed
  <2> QED BY <1>1, <2>1, Zenon
<1>7. CASE ProcessEvent
  <2>1. UNCHANGED <<serviceVars, committed>>
    BY <1>7, Zenon DEF ProcessEvent, SkipEvent, handle_workflow_execution_started,
       handle_workflow_execution_signaled, handle_workflow_execution_cancel_requested,
       handle_marker_recorded, handle_initiated, handle_activity_closed, handle_timer_fired,
       handle_timer_canceled, EventRaises, NoEventHandler, Raise, Consume
  <2> QED BY <1>1, <2>1, Zenon
<1>8. CASE RunCode
  <2>1. UNCHANGED <<serviceVars, committed>>
    BY <1>8, Zenon DEF RunCode, StartHandle, schedule_activity_task, schedule_timer, FutureDone,
       FutureFailed, CodeRaises, EnterAwait, AwaitBlocks, AwaitRaises, AwaitReturns, get_version,
       SetFlag, MainReturns, SignalReturns, UnknownSignal, QueryReturns, Quiet
  <2> QED BY <1>1, <2>1, Zenon
<1> QED BY <1>2, <1>3, <1>4, <1>5, <1>6, <1>7, <1>8, Zenon DEF Next, WorkerStep

\* An execution starts open.
LEMMA InitQuiet == Init => ~Closed
<1> SUFFICES ASSUME Init PROVE ~Closed
  OBVIOUS
<1> DEFINE e == Event("WorkflowExecutionStarted", 0, "")
<1>1. history = <<e, Scheduled>>
  BY DEF Init, ServiceInit
<1> HIDE DEF e
<1>2. Last(history) = Scheduled
  BY <1>1 DEF Last
<1> QED BY <1>2, ScheduledOpen DEF Closed

\* A closed execution stays as it is: no event follows the one that closes it, and no
\* worker that is still busy with it has its decisions accepted.
THEOREM ClosedForGood == Spec => [][Closed => UNCHANGED <<history, committed>>]_vars
<1>1. Init => QuietInv
  BY InitQuiet DEF QuietInv
<1>2. Inv /\ QuietInv /\ [Next]_vars => QuietInv'
  BY NextQuiet
<1>3. Inv /\ QuietInv /\ [Next]_vars => (Closed => UNCHANGED <<history, committed>>)
  BY NextQuiet
<1> QED BY <1>1, <1>2, <1>3, Invariant, PTL DEF Spec

\* What is accepted is one durable execution of the code, as far as its parts tell: it
\* starts with nothing done, and each step that changes what is done or closes the
\* execution advances an open execution in program order, if what was done stays done
\* (of which Resumes and DurableSpec speak).
THEOREM AdvancesTheExecution ==
  Spec => /\ Durable!Init
          /\ [][IsPrefix(committed, committed') => Durable!Advance]_<<committed, Closed>>
<1>1. Init => Durable!Init
  <2> SUFFICES ASSUME Init PROVE Durable!Init
    OBVIOUS
  <2>1. ~Closed /\ committed = <<>>
    BY InitQuiet, Zenon DEF Init
  <2>2. Closed \in BOOLEAN
    BY DEF Closed
  <2> QED BY <2>1, <2>2 DEF Durable!Init
<1>2. Init => QuietInv
  BY InitQuiet DEF QuietInv
<1>3. Inv /\ QuietInv /\ [Next]_vars => QuietInv'
  BY NextQuiet
<1>4. ASSUME Inv, QuietInv, OrderInv, [Next]_vars
      PROVE  [IsPrefix(committed, committed') => Durable!Advance]_<<committed, Closed>>
  <2>1. Durable!InProgramOrder(committed')
    BY <1>4, NextOrder DEF OrderInv
  <2>2. Closed' \in BOOLEAN
    BY DEF Closed
  <2>3. Closed => UNCHANGED <<history, committed>>
    BY <1>4, NextQuiet
  <2>4. CASE Closed
    <3>1. UNCHANGED <<committed, Closed>>
      BY <2>3, <2>4, Zenon DEF Closed
    <3> QED BY <3>1, Zenon
  <2>5. CASE ~Closed
    BY <2>1, <2>2, <2>5, Zenon DEF Durable!Advance, Durable!IsPrefix, IsPrefix
  <2> QED BY <2>4, <2>5
<1> QED BY <1>1, <1>2, <1>3, <1>4, InitOrder, NextOrder, Invariant, PTL DEF Spec

-----------------------------------------------------------------------------
(* The timers of await_till *)

HasEntry(ds, target, id) == \E k \in DOMAIN ds : ds[k].machine.target = target /\ ds[k].id = id

\* What ds has an entry for, es has one for too.
KeptIn(ds, es) == \A target, id : HasEntry(ds, target, id) => HasEntry(es, target, id)

\* The task is in await_till, and has made a timer for it.
AtAwait(t) ==
  /\ task[t].status # "DONE"
  /\ task[t].entered
  /\ task[t].id # 0
  /\ Op(t).op \in {"await", "await_timeout"}

\* The decisions have an entry for its timer, open or done.
TimersKept == \A t \in DOMAIN task : AtAwait(t) => HasEntry(decisions, "TIMER", task[t].id)

\* The task is where it was.
StaysAt(t) ==
  /\ t \in DOMAIN task
  /\ task'[t].name = task[t].name /\ task'[t].pc = task[t].pc
  /\ task'[t].entered = task[t].entered /\ task'[t].id = task[t].id
  /\ task'[t].status # "DONE" => task[t].status # "DONE"

\* No task gets to an operation that has a decision.
TasksStay == \A t \in DOMAIN task' : ~task'[t].entered \/ task'[t].id = 0 \/ StaysAt(t)

\* The operation of a task that is where it was is the same.
LEMMA OpStays ==
  ASSUME NEW t, task'[t].name = task[t].name, task'[t].pc = task[t].pc, workflow' = workflow
  PROVE  Op(t)' = Op(t)
<1>1. CodeOf(t)' = CodeOf(t)
  BY Zenon DEF CodeOf
<1> QED BY <1>1, Zenon DEF Op

\* Such steps keep the timers.
LEMMA StayKeeps ==
  ASSUME TimersKept, workflow' = workflow, KeptIn(decisions, decisions'), TasksStay
  PROVE  TimersKept'
<1> SUFFICES ASSUME NEW t \in DOMAIN task', AtAwait(t)'
             PROVE  HasEntry(decisions, "TIMER", task[t].id)'
  BY Zenon DEF TimersKept
<1>1. task'[t].entered /\ task'[t].id # 0 /\ task'[t].status # "DONE"
      /\ Op(t)'.op \in {"await", "await_timeout"}
  BY Zenon DEF AtAwait
<1>2. StaysAt(t)
  BY <1>1, Zenon DEF TasksStay
<1>3. Op(t)' = Op(t)
  BY <1>2, OpStays, Zenon DEF StaysAt
<1>4. AtAwait(t) /\ t \in DOMAIN task
  BY <1>1, <1>2, <1>3, Zenon DEF AtAwait, StaysAt
<1>5. HasEntry(decisions', "TIMER", task[t].id)
  BY <1>4, Zenon DEF TimersKept, KeptIn
<1>6. task'[t].id = task[t].id
  BY <1>2, Zenon DEF StaysAt
<1> QED BY <1>5, <1>6, Zenon DEF HasEntry

\* A step that leaves the tasks alone, or changes another field of one of them.
LEMMA FieldStays ==
  ASSUME TasksInv, NEW t,
         \/ task' = task
         \/ \E x : task' = [task EXCEPT ![t].result = x]
         \/ task' = [task EXCEPT ![t].fired = TRUE]
         \/ \E x : task' = [task EXCEPT ![t].awaited = x]
         \/ task' = [task EXCEPT ![t].entered = TRUE, ![t].id = 0]
         \/ task' = [task EXCEPT ![t].status = "DONE"]
         \/ task' = [task EXCEPT ![t].status = "DONE", ![t].id = 0]
         \/ task' = [task EXCEPT ![t].status = "RUNNING"] /\ task[t].status # "DONE"
  PROVE  TasksStay
<1>1. DOMAIN task' = DOMAIN task
  OBVIOUS
<1>2. ASSUME NEW u \in DOMAIN task PROVE task'[u].id = 0 \/ StaysAt(u)
  <2>1. IsTask(task[u])
    BY DEF TasksInv
  <2>2. CASE u # t \/ task' = task
    <3>1. task'[u] = task[u]
      BY <2>2
    <3> QED BY <3>1 DEF StaysAt
  <2>3. CASE u = t
    <3>1. CASE \E x : task' = [task EXCEPT ![t].result = x]
      <4>1. PICK x : task' = [task EXCEPT ![u].result = x]
        BY <2>3, <3>1, Zenon
      <4>2. task'[u] = [task[u] EXCEPT !.result = x]
        BY <4>1
      <4> QED BY <2>1, <4>2 DEF IsTask, StaysAt
    <3>2. CASE task' = [task EXCEPT ![t].fired = TRUE]
      <4>1. task'[u] = [task[u] EXCEPT !.fired = TRUE]
        BY <2>3, <3>2
      <4> QED BY <2>1, <4>1 DEF IsTask, StaysAt
    <3>3. CASE \E x : task' = [task EXCEPT ![t].awaited = x]
      <4>1. PICK x : task' = [task EXCEPT ![u].awaited = x]
        BY <2>3, <3>3, Zenon
      <4>2. task'[u] = [task[u] EXCEPT !.awaited = x]
        BY <4>1
      <4> QED BY <2>1, <4>2 DEF IsTask, StaysAt
    <3>4. CASE task' = [task EXCEPT ![t].entered = TRUE, ![t].id = 0]
      <4>1. task'[u] = [task[u] EXCEPT !.entered = TRUE, !.id = 0]
        BY <2>3, <3>4
      <4> QED BY <2>1, <4>1 DEF IsTask
    <3>5. CASE task' = [task EXCEPT ![t].status = "DONE"]
      <4>1. task'[u] = [task[u] EXCEPT !.status = "DONE"]
        BY <2>3, <3>5
      <4> QED BY <2>1, <4>1 DEF IsTask, StaysAt
    <3>6. CASE task' = [task EXCEPT ![t].status = "DONE", ![t].id = 0]
      <4>1. task'[u] = [task[u] EXCEPT !.status = "DONE", !.id = 0]
        BY <2>3, <3>6
      <4> QED BY <2>1, <4>1 DEF IsTask
    <3>7. CASE task' = [task EXCEPT ![t].status = "RUNNING"] /\ task[t].status # "DONE"
      <4>1. task' = [task EXCEPT ![u].status = "RUNNING"] /\ task[u].status # "DONE"
        BY <2>3, <3>7, Zenon
      <4>2. task'[u] = [task[u] EXCEPT !.status = "RUNNING"]
        BY <4>1
      <4> QED BY <2>1, <4>1, <4>2 DEF IsTask, StaysAt
    <3> QED BY <2>2, <3>1, <3>2, <3>3, <3>4, <3>5, <3>6, <3>7
  <2> QED BY <2>2, <2>3
<1> QED BY <1>1, <1>2, Zenon DEF TasksStay

\* unblock_all leaves the tasks where they are.
LEMMA UnblockStays ==
  ASSUME TasksInv, unblock_all
  PROVE  TasksStay
<1>1. DOMAIN task' = DOMAIN task
  BY DEF unblock_all
<1>2. ASSUME NEW u \in DOMAIN task PROVE StaysAt(u)
  <2>1. IsTask(task[u])
    BY DEF TasksInv
  <2>2. task'[u] = task[u] \/ task'[u] = [task[u] EXCEPT !.awaited = "set"]
    BY DEF unblock_all
  <2> QED BY <2>1, <2>2 DEF IsTask, StaysAt
<1> QED BY <1>1, <1>2, Zenon DEF TasksStay

\* A new task has entered no operation.
LEMMA NewStays ==
  ASSUME TasksInv, NEW name, NewTask(name)
  PROVE  TasksStay
<1>1. /\ DOMAIN task' = DOMAIN task \cup {Len(task) + 1}
      /\ \A t \in DOMAIN task : task'[t] = task[t]
      /\ task'[Len(task) + 1] = Created(name)
  BY SequenceAppend DEF NewTask, TasksInv
<1>2. Created(name).id = 0
  BY DEF Created
<1> QED BY <1>1, <1>2 DEF TasksStay, StaysAt

\* The running task leaves its operation.
LEMMA LeaveStays ==
  ASSUME Inv, running # 0, NEW outcome, Leave(outcome)
  PROVE  TasksStay
<1>1. running \in DOMAIN task /\ IsTask(task[running])
  BY RunningThread
<1> PICK r : r = [task[running] EXCEPT !.pc = @ + 1, !.entered = FALSE, !.awaited = "none",
                                       !.id = 0, !.fired = FALSE, !.result = "none"]
  OBVIOUS
<1>2. r.id = 0
  BY <1>1 DEF IsTask
<1>3. task' = [task EXCEPT ![running] = r]
  BY Zenon DEF Leave
<1>4. /\ DOMAIN task' = DOMAIN task /\ task'[running] = r
      /\ \A t \in DOMAIN task : t # running => task'[t] = task[t]
  BY <1>1, <1>3
<1> QED BY <1>2, <1>4 DEF TasksStay, StaysAt

\* The running task enters an operation that is not await_till, or one that has a timer.
LEMMA EnterKeeps ==
  ASSUME Inv, TimersKept, workflow' = workflow, KeptIn(decisions, decisions'), running # 0,
         NEW id \in Nat, Enter(id),
         Op(running).op \notin {"await", "await_timeout"} \/ HasEntry(decisions', "TIMER", id)
  PROVE  TimersKept'
<1>1. running \in DOMAIN task /\ IsTask(task[running])
  BY RunningThread
<1> DEFINE r == [task[running] EXCEPT !.entered = TRUE, !.id = id]
<1>2. Entered(task[running], id, r)
  BY <1>1, TaskEnters
<1>3. /\ DOMAIN task' = DOMAIN task /\ task'[running] = r
      /\ \A t \in DOMAIN task : t # running => task'[t] = task[t]
  BY <1>1 DEF Enter
<1> HIDE DEF r
<1> SUFFICES ASSUME NEW t \in DOMAIN task', AtAwait(t)'
             PROVE  HasEntry(decisions', "TIMER", task'[t].id)
  BY Zenon DEF TimersKept, HasEntry
<1>4. CASE t = running
  <2>1. Op(t)' = Op(t) /\ task'[t].id = id
    BY <1>2, <1>3, <1>4, OpStays, Zenon DEF Entered
  <2>2. Op(t)'.op \in {"await", "await_timeout"}
    BY Zenon DEF AtAwait
  <2> QED BY <1>4, <2>1, <2>2, Zenon
<1>5. CASE t # running
  <2>1. t \in DOMAIN task /\ task'[t] = task[t]
    BY <1>3, <1>5
  <2>2. Op(t)' = Op(t)
    BY <2>1, OpStays, Zenon
  <2>3. AtAwait(t)
    BY <2>1, <2>2, Zenon DEF AtAwait
  <2> QED BY <2>1, <2>3, Zenon DEF TimersKept, KeptIn
<1> QED BY <1>4, <1>5

\* An entry that is replaced by one with its key.
LEMMA ReplacedKeeps ==
  ASSUME NEW ds, NEW k, NEW e,
         k \in DOMAIN ds => e.machine.target = ds[k].machine.target /\ e.id = ds[k].id
  PROVE  KeptIn(ds, [ds EXCEPT ![k] = e])
<1> DEFINE es == [ds EXCEPT ![k] = e]
<1>1. DOMAIN es = DOMAIN ds
  OBVIOUS
<1>2. \A i \in DOMAIN ds : es[i] = IF i = k THEN e ELSE ds[i]
  OBVIOUS
<1> HIDE DEF es
<1>3. \A i \in DOMAIN ds : es[i].machine.target = ds[i].machine.target /\ es[i].id = ds[i].id
  BY <1>2
<1>4. KeptIn(ds, es)
  BY <1>1, <1>3, Zenon DEF KeptIn, HasEntry
<1> QED BY <1>4 DEF es

\* Another machine of its kind in an entry leaves the keys.
LEMMA MachineKeeps ==
  ASSUME NEW ds, IsDecisions(ds), NEW k, NEW n, k \in DOMAIN ds => n.target = ds[k].machine.target
  PROVE  KeptIn(ds, [ds EXCEPT ![k].machine = n])
<1> DEFINE e == [ds[k] EXCEPT !.machine = n]
<1>1. [ds EXCEPT ![k].machine = n] = [ds EXCEPT ![k] = e]
  OBVIOUS
<1>2. k \in DOMAIN ds => e.machine = n /\ e.id = ds[k].id
  BY DEF IsDecisions, IsEntry
<1> HIDE DEF e
<1>3. k \in DOMAIN ds => e.machine.target = ds[k].machine.target /\ e.id = ds[k].id
  BY <1>2
<1>4. KeptIn(ds, [ds EXCEPT ![k] = e])
  BY <1>3, ReplacedKeeps, Zenon
<1> QED BY <1>1, <1>4, Zenon

\* A decision that is added takes the place of one with its key at most.
LEMMA AddKeeps ==
  ASSUME IsDecisions(decisions), NEW e, add_decision(e)
  PROVE  /\ KeptIn(decisions, decisions')
         /\ HasEntry(decisions', e.machine.target, e.id)
<1>1. PICK k : k = IndexOf(decisions, e.machine.target, e.id)
  OBVIOUS
<1>2. decisions' = IF k = 0 THEN Append(decisions, e) ELSE [decisions EXCEPT ![k] = e]
  BY <1>1, Zenon DEF add_decision, WithDecision
<1>3. \/ k \in DOMAIN decisions /\ decisions[k].machine.target = e.machine.target
         /\ decisions[k].id = e.id
      \/ k = 0
  BY <1>1, IndexIs, Zenon DEF IsDecisions
<1>4. CASE k = 0
  <2>1. /\ DOMAIN decisions' = DOMAIN decisions \cup {Len(decisions) + 1}
        /\ decisions'[Len(decisions) + 1] = e
        /\ \A i \in DOMAIN decisions : decisions'[i] = decisions[i]
    BY <1>2, <1>4, SequenceAppend DEF IsDecisions
  <2> QED BY <2>1, Zenon DEF KeptIn, HasEntry
<1>5. CASE k # 0
  <2>1. decisions' = [decisions EXCEPT ![k] = e] /\ k \in DOMAIN decisions
    BY <1>2, <1>3, <1>5
  <2>2. KeptIn(decisions, decisions')
    BY <1>3, <1>5, <2>1, ReplacedKeeps, Zenon
  <2>3. k \in DOMAIN decisions' /\ decisions'[k] = e
    BY <2>1
  <2> QED BY <2>2, <2>3, Zenon DEF HasEntry
<1> QED BY <1>4, <1>5

\* So it is when no decision is added.
LEMMA SameKeeps ==
  ASSUME decisions' = decisions
  PROVE  KeptIn(decisions, decisions')
BY Zenon DEF KeptIn

\* What is sent is kept.
LEMMA NotifyKeeps ==
  ASSUME IsDecisions(decisions), notify_decision_sent
  PROVE  KeptIn(decisions, decisions')
<1>1. DOMAIN decisions' = DOMAIN decisions
  BY DEF notify_decision_sent
<1>2. ASSUME NEW k \in DOMAIN decisions
      PROVE  /\ decisions'[k].machine.target = decisions[k].machine.target
             /\ decisions'[k].id = decisions[k].id
  <2> DEFINE e == decisions[k]
             n == handle_decision_task_started_event(e.machine)
  <2>1. decisions'[k] = IF Sends(e) THEN [e EXCEPT !.machine = n] ELSE e
    BY DEF notify_decision_sent
  <2>2. IsEntry(e)
    BY DEF IsDecisions
  <2>3. Legal(n) /\ n.target = e.machine.target
    BY <2>2, SentLegal DEF IsEntry
  <2> HIDE DEF n, e
  <2>4. [e EXCEPT !.machine = n].machine = n /\ [e EXCEPT !.machine = n].id = e.id
    BY <2>2, <2>3, MachineReplaced
  <2> QED BY <2>1, <2>3, <2>4 DEF e
<1> QED BY <1>1, <1>2, Zenon DEF KeptIn, HasEntry

\* So does the handler of an event.
LEMMA UpdateKeeps ==
  ASSUME Inv, AtEvent(MachineEvents), UpdateMachine
  PROVE  KeptIn(decisions, decisions')
<1>1. IsDecisions(decisions) /\ history[at].type \in MachineEvents /\ Exception = ""
  BY DEF Inv, AtEvent, UpdateMachine
<1>2. PICK k, m, n : k = Addressed /\ m = decisions[k].machine /\ n = Handled(m)
  OBVIOUS
<1>3. n.target = m.target
  BY <1>1, <1>2, EventHandled, Zenon
<1>4. decisions' = [decisions EXCEPT ![Addressed].machine = Handled(@)]
  BY DEF UpdateMachine
<1>5. decisions' = [decisions EXCEPT ![k].machine = Handled(@)]
  BY <1>2, <1>4, Zenon
<1>6. decisions' = [decisions EXCEPT ![k].machine = n]
  BY <1>2, <1>5
<1> QED BY <1>1, <1>2, <1>3, <1>6, MachineKeeps

\* A timer that is canceled stays among the decisions.
LEMMA CancelKeeps ==
  ASSUME IsDecisions(decisions), NEW id, cancel_timer(id)
  PROVE  KeptIn(decisions, decisions')
<1>1. PICK k, m : k = IndexOf(decisions, "TIMER", id) /\ m = decisions[k].machine
  OBVIOUS
<1>2. IF is_done(m)
      THEN UNCHANGED <<decisions, scheduled_timers, next_decision_event_id>>
      ELSE /\ decisions' = [decisions EXCEPT ![k].machine = cancel(m)]
           /\ timer_cancelled(id)
           /\ next_decision_event_id' = next_decision_event_id + IdsToCancel(m)
  BY <1>1, Zenon DEF cancel_timer
<1>3. k \in DOMAIN decisions => decisions[k].machine.target = "TIMER" /\ Legal(m)
  <2>1. k \in DOMAIN decisions \/ k = 0
    BY <1>1, IndexIs, Zenon DEF IsDecisions
  <2>2. 0 \notin DOMAIN decisions
    <3>1. DOMAIN decisions = 1..Len(decisions) /\ Len(decisions) \in Nat
      BY SequenceIs DEF IsDecisions
    <3> QED BY <3>1
  <2>3. k \in DOMAIN decisions => decisions[k].machine.target = "TIMER"
    BY <1>1, <2>2, IndexIs DEF IsDecisions
  <2> QED BY <1>1, <2>3 DEF IsDecisions, IsEntry
<1>4. CASE ~is_done(m) /\ decisions' = [decisions EXCEPT ![k].machine = cancel(m)]
  <2>1. PICK n : n = cancel(m)
    OBVIOUS
  <2>2. k \in DOMAIN decisions => n.target = decisions[k].machine.target
    BY <1>1, <1>3, <1>4, <2>1, CancelLegal
  <2>3. decisions' = [decisions EXCEPT ![k].machine = n]
    BY <1>4, <2>1
  <2> QED BY <2>2, <2>3, MachineKeeps
<1> QED BY <1>2, <1>4, SameKeeps

\* An event of the history leaves every task at its operation.
LEMMA EventStays ==
  ASSUME Inv, ProcessEvent
  PROVE  TasksStay /\ KeptIn(decisions, decisions') /\ workflow' = workflow
<1>0. TasksInv /\ IsDecisions(decisions)
  BY DEF Inv
<1>1. workflow' = workflow
  BY Zenon DEF ProcessEvent, SkipEvent, handle_workflow_execution_started,
     handle_workflow_execution_signaled, handle_workflow_execution_cancel_requested,
     handle_marker_recorded, handle_initiated, handle_activity_closed, handle_timer_fired,
     handle_timer_canceled, EventRaises, NoEventHandler, Raise, Consume
<1>2. CASE SkipEvent \/ handle_marker_recorded \/ EventRaises \/ NoEventHandler
  <2>1. UNCHANGED <<task, decisions>>
    BY <1>2, Zenon DEF SkipEvent, handle_marker_recorded, EventRaises, NoEventHandler, Raise,
       codeVars, deciderVars
  <2> QED BY <1>0, <1>1, <2>1, FieldStays, SameKeeps, Zenon
<1>3. CASE handle_workflow_execution_cancel_requested
  <2>1. /\ task' = task
        /\ add_decision(Entry("SELF", 0, 0, "CancelWorkflowExecution"))
    BY <1>3, Zenon DEF handle_workflow_execution_cancel_requested, close_workflow_execution, codeVars
  <2> QED BY <1>0, <1>1, <2>1, FieldStays, AddKeeps, Zenon
<1>4. CASE handle_workflow_execution_started \/ handle_workflow_execution_signaled
  <2>1. decisions' = decisions /\ \E name : NewTask(name)
    BY <1>4, Zenon DEF handle_workflow_execution_started, handle_workflow_execution_signaled,
       deciderVars
  <2> QED BY <1>0, <1>1, <2>1, NewStays, SameKeeps, Zenon
<1>5. CASE handle_initiated \/ handle_timer_canceled \/ handle_activity_closed \/ handle_timer_fired
  <2>1. /\ UpdateMachine
        /\ \/ AtEvent({"ActivityTaskScheduled", "ActivityTaskStarted", "TimerStarted",
                       "CancelTimerFailed"})
           \/ AtEvent({"TimerCanceled"})
           \/ AtEvent(ActivityClosed)
           \/ AtEvent({"TimerFired"})
    BY <1>5, Zenon DEF handle_initiated, handle_timer_canceled, handle_activity_closed,
       handle_timer_fired
  <2>2. AtEvent(MachineEvents)
    BY <2>1 DEF AtEvent, MachineEvents
  <2>3. \/ task' = task
        \/ \E t, x : Resolve(t, x)
        \/ \E t : task' = [task EXCEPT ![t].fired = TRUE]
    BY <1>5, Zenon DEF handle_initiated, handle_timer_canceled, handle_activity_closed,
       handle_timer_fired, codeVars
  <2>4. \/ task' = task
        \/ \E t, x : task' = [task EXCEPT ![t].result = x]
        \/ \E t : task' = [task EXCEPT ![t].fired = TRUE]
    BY <2>3, Zenon DEF Resolve
  <2>5. TasksStay
    BY <1>0, <2>4, FieldStays, Zenon
  <2> QED BY <1>1, <2>1, <2>2, <2>5, UpdateKeeps, Zenon
<1> QED BY <1>2, <1>3, <1>4, <1>5, Zenon DEF ProcessEvent

\* What a coroutine does: only await_till with a timeout gets to a place where a timer
\* is needed, and it makes one.
LEMMA CodeKeepsTimers ==
  ASSUME Inv, TimersKept, RunCode
  PROVE  TimersKept'
<1>0. TasksInv /\ IsDecisions(decisions)
  BY DEF Inv
<1>1. workflow' = workflow
  BY Zenon DEF RunCode, StartHandle, schedule_activity_task, schedule_timer, FutureDone,
     FutureFailed, CodeRaises, EnterAwait, AwaitBlocks, AwaitRaises, AwaitReturns, get_version,
     SetFlag, MainReturns, SignalReturns, UnknownSignal, QueryReturns, Quiet
<1>2. running # 0 => next_decision_event_id \in Nat
  BY DEF Inv, ThreadInv
<1>3. \A target, id, key, name : /\ Entry(target, id, key, name).machine.target = target
                                 /\ Entry(target, id, key, name).id = id
  BY DEF Entry, NewMachine
<1>4. CASE schedule_activity_task
  <2>1. /\ running # 0 /\ Op(running).op \in {"activity"}
        /\ add_decision(Entry("ACTIVITY", next_decision_event_id, id_counter, Place))
        /\ Enter(next_decision_event_id)
    BY <1>4, Zenon DEF schedule_activity_task, Runs
  <2>2. KeptIn(decisions, decisions')
    BY <1>0, <2>1, AddKeeps, Zenon
  <2>3. Op(running).op \notin {"await", "await_timeout"}
    BY <2>1
  <2> QED BY <1>1, <1>2, <2>1, <2>2, <2>3, EnterKeeps, Zenon
<1>5. ASSUME running # 0, create_timer PROVE TimersKept'
  <2>1. /\ add_decision(Entry("TIMER", next_decision_event_id, id_counter, Place))
        /\ Enter(next_decision_event_id)
    BY <1>5, Zenon DEF create_timer
  <2>2. /\ KeptIn(decisions, decisions')
        /\ HasEntry(decisions', "TIMER", next_decision_event_id)
    <3>1. PICK e : e = Entry("TIMER", next_decision_event_id, id_counter, Place)
      OBVIOUS
    <3>2. e.machine.target = "TIMER" /\ e.id = next_decision_event_id
      BY <1>3, <3>1
    <3>3. KeptIn(decisions, decisions') /\ HasEntry(decisions', e.machine.target, e.id)
      BY <1>0, <2>1, <3>1, AddKeeps, Zenon
    <3> QED BY <3>2, <3>3, Zenon
  <2> QED BY <1>1, <1>2, <1>5, <2>1, <2>2, EnterKeeps, Zenon
<1>6. CASE schedule_timer
  BY <1>5, <1>6, Zenon DEF schedule_timer, Runs
<1>7. CASE EnterAwait
  <2>1. \/ running # 0 /\ create_timer
        \/ Enter(0) /\ UNCHANGED deciderVars
    BY <1>7, Zenon DEF EnterAwait, Runs
  <2>2. CASE Enter(0) /\ UNCHANGED deciderVars
    <3>1. decisions' = decisions /\ task' = [task EXCEPT ![running].entered = TRUE, ![running].id = 0]
      BY <2>2, Zenon DEF Enter, deciderVars
    <3>2. TasksStay
      BY <1>0, <3>1, FieldStays, Zenon
    <3> QED BY <1>1, <3>1, <3>2, SameKeeps, StayKeeps, Zenon
  <2> QED BY <1>5, <2>1, <2>2, Zenon
<1>8. CASE StartHandle
  <2>1. ready # <<>> /\ IsSequence(ready)
    BY <1>0, <1>8, EmptySequence DEF StartHandle, TasksInv
  <2>2. Head(ready) \in ToSet(ready)
    BY <2>1, SequenceTail
  <2>3. task[running'].status # "DONE"
    BY <1>0, <1>8, <2>2 DEF StartHandle, TasksInv
  <2>4. task' = [task EXCEPT ![running'].status = "RUNNING"] /\ decisions' = decisions
    BY <1>8 DEF StartHandle, deciderVars
  <2>5. TasksStay
    BY <1>0, <2>3, <2>4, FieldStays, Zenon
  <2> QED BY <1>1, <2>4, <2>5, SameKeeps, StayKeeps, Zenon
<1>9. CASE AwaitBlocks \/ SignalReturns \/ UnknownSignal \/ QueryReturns
  <2>1. /\ decisions' = decisions
        /\ \/ task' = [task EXCEPT ![running].awaited = "pending"]
           \/ task' = [task EXCEPT ![running].status = "DONE"]
    BY <1>9, Zenon DEF AwaitBlocks, SignalReturns, UnknownSignal, QueryReturns, Returns, deciderVars
  <2>2. TasksStay
    BY <1>0, <2>1, FieldStays, Zenon
  <2> QED BY <1>1, <2>1, <2>2, SameKeeps, StayKeeps, Zenon
<1>10. CASE MainReturns
  <2>1. /\ add_decision(Entry("SELF", 0, 0, "CompleteWorkflowExecution"))
        /\ task' = [task EXCEPT ![running].status = "DONE"]
    BY <1>10, Zenon DEF MainReturns, Returns, close_workflow_execution
  <2>2. TasksStay
    BY <1>0, <2>1, FieldStays, Zenon
  <2> QED BY <1>0, <1>1, <2>1, <2>2, AddKeeps, StayKeeps, Zenon
<1>11. CASE FutureFailed \/ AwaitRaises
  <2>1. \E outcome : CodeRaises(outcome)
    BY <1>11, Zenon DEF FutureFailed, AwaitRaises
  <2>2. /\ \/ decisions' = decisions
           \/ add_decision(Entry("SELF", 0, 0, "FailWorkflowExecution"))
        /\ task' = [task EXCEPT ![running].status = "DONE", ![running].id = 0]
    BY <2>1, Zenon DEF CodeRaises, close_workflow_execution
  <2>3. TasksStay
    BY <1>0, <2>2, FieldStays, Zenon
  <2> QED BY <1>0, <1>1, <2>2, <2>3, AddKeeps, SameKeeps, StayKeeps, Zenon
<1>12. CASE FutureDone \/ AwaitReturns \/ get_version \/ SetFlag
  <2>1. running # 0 /\ \E outcome : Leave(outcome)
    BY <1>12, Zenon DEF FutureDone, AwaitReturns, get_version, SetFlag, Runs
  <2>2. \/ decisions' = decisions
        \/ \E id : cancel_timer(id)
        \/ \E change, data : record_mutable_marker(change, data)
    BY <1>12, Zenon DEF FutureDone, AwaitReturns, get_version, SetFlag, deciderVars
  <2>3. \/ decisions' = decisions
        \/ \E id : cancel_timer(id)
        \/ \E e : add_decision(e)
    BY <2>2, Zenon DEF record_mutable_marker
  <2>4. KeptIn(decisions, decisions')
    BY <1>0, <2>3, SameKeeps, CancelKeeps, AddKeeps, Zenon
  <2> QED BY <1>1, <2>1, <2>4, LeaveStays, StayKeeps, Zenon
<1> QED BY <1>4, <1>6, <1>7, <1>8, <1>9, <1>10, <1>11, <1>12, Zenon DEF RunCode

\* Each step keeps the timers.
LEMMA NextTimers ==
  ASSUME Inv, TimersKept, [Next]_vars
  PROVE  TimersKept'
<1>0. TasksInv /\ IsDecisions(decisions)
  BY DEF Inv
<1>1. ASSUME UNCHANGED <<task, decisions, workflow>> PROVE TimersKept'
  BY <1>0, <1>1, FieldStays, SameKeeps, StayKeeps, Zenon
<1>2. CASE UNCHANGED vars \/ Poll \/ PollQuery \/ BeginBatch \/ SkipCompleted \/ EndBatch \/ ServiceActs
  <2>1. UNCHANGED <<task, decisions, workflow>>
    BY <1>2, Zenon DEF vars, Poll, PollQuery, BeginBatch, SkipCompleted, EndBatch, ServiceActs,
       codeVars, deciderVars
  <2> QED BY <1>1, <2>1
<1>3. CASE RunEventLoop
  <2>1. UNCHANGED <<decisions, workflow>> /\ (task' = task \/ unblock_all)
    BY <1>3, Zenon DEF RunEventLoop, Raise, codeVars, deciderVars
  <2> QED BY <1>0, <2>1, FieldStays, UnblockStays, SameKeeps, StayKeeps, Zenon
<1>4. CASE query
  <2>1. UNCHANGED <<decisions, workflow>> /\ NewTask("query")
    BY <1>4, Zenon DEF query, deciderVars
  <2> QED BY <1>0, <2>1, NewStays, SameKeeps, StayKeeps, Zenon
<1>5. CASE EndEventLoop
  <2>1. UNCHANGED <<task, workflow>> /\ (notify_decision_sent \/ decisions' = decisions)
    BY <1>5, Zenon DEF EndEventLoop, codeVars
  <2> QED BY <1>0, <2>1, FieldStays, NotifyKeeps, SameKeeps, StayKeeps, Zenon
<1>6. CASE RespondDecisions \/ Crash \/ RespondQueryFailed \/ respond_query
  <2>1. task' = <<>>
    BY <1>6, Zenon DEF RespondDecisions, Crash, RespondQueryFailed, respond_query, DropDecider
  <2>2. DOMAIN task' = {}
    BY <2>1, EmptySequence, Zenon
  <2> QED BY <2>2, Zenon DEF TimersKept
<1>7. CASE ProcessEvent
  BY <1>7, EventStays, StayKeeps, Zenon
<1>8. CASE RunCode
  BY <1>8, CodeKeepsTimers, Zenon
<1> QED BY <1>2, <1>3, <1>4, <1>5, <1>6, <1>7, <1>8, Zenon DEF Next, WorkerStep

\* When await_till cancels its timer, the decider has the decision that it cancels: the
\* lookup in cancel_timer never comes up empty, whatever has been replayed meanwhile.
THEOREM CancelFindsItsTimer ==
  Spec => [][AwaitReturns /\ ~task[running].fired /\ task[running].id # 0
               => IndexOf(decisions, "TIMER", task[running].id) # 0]_vars
<1>1. Init => TimersKept
  <2> SUFFICES ASSUME Init PROVE TimersKept
    OBVIOUS
  <2>1. task = <<>>
    BY Zenon DEF Init, NewDecider
  <2>2. DOMAIN task = {}
    BY <2>1, EmptySequence, Zenon
  <2> QED BY <2>2, Zenon DEF TimersKept
<1>2. Inv /\ TimersKept /\ [Next]_vars => TimersKept'
  BY NextTimers
<1>3. ASSUME Inv, TimersKept, AwaitReturns, ~task[running].fired, task[running].id # 0
      PROVE  IndexOf(decisions, "TIMER", task[running].id) # 0
  <2>1. running # 0 /\ Op(running).op \in {"await", "await_timeout"} /\ task[running].entered = TRUE
    BY <1>3, Zenon DEF AwaitReturns, Runs
  <2>2. running \in DOMAIN task /\ task[running].status = "RUNNING"
    BY <1>3, <2>1, RunningThread
  <2>3. "RUNNING" # "DONE"
    OBVIOUS
  <2>4. AtAwait(running)
    BY <1>3, <2>1, <2>2, <2>3, Zenon DEF AtAwait
  <2>5. HasEntry(decisions, "TIMER", task[running].id) /\ IsSequence(decisions)
    BY <1>3, <2>2, <2>4, Zenon DEF TimersKept, Inv, IsDecisions
  <2>6. 0 \notin DOMAIN decisions
    <3>1. DOMAIN decisions = 1..Len(decisions) /\ Len(decisions) \in Nat
      BY <2>5, SequenceIs
    <3> QED BY <3>1
  <2>7. PICK id : id = task[running].id
    OBVIOUS
  <2>8. IndexOf(decisions, "TIMER", id) # 0
    BY <2>5, <2>6, <2>7, IndexIs DEF HasEntry
  <2> QED BY <2>7, <2>8, Zenon
<1> QED BY <1>1, <1>2, <1>3, Invariant, PTL DEF Spec


-----------------------------------------------------------------------------
(* What the service adds to a history *)

\* No event of the sequence answers a decision.
NoAnswers(s) == \A i \in 1..Len(s) : ~is_decision_event(s[i])

\* The history g goes on in h.
Continues(g, h) ==
  /\ Len(g) <= Len(h)
  /\ \A i \in 1..Len(g) : h[i] = g[i]

\* And no decision is answered.
GoesOn(g, h) ==
  /\ Continues(g, h)
  /\ \A i \in (Len(g) + 1)..Len(h) : ~is_decision_event(h[i])

\* More events after a history.
LEMMA MoreGoesOn ==
  ASSUME NEW g, IsSequence(g), NEW s, IsSequence(s)
  PROVE  /\ IsSequence(g \o s)
         /\ Continues(g, g \o s)
         /\ NoAnswers(s) => GoesOn(g, g \o s)
         /\ NoAnswers(g) /\ NoAnswers(s) => NoAnswers(g \o s)
<1>1. Len(g) \in Nat /\ Len(s) \in Nat
  BY SequenceIs
<1>2. /\ IsSequence(g \o s)
      /\ Len(g \o s) = Len(g) + Len(s)
      /\ \A i \in 1..Len(g) : (g \o s)[i] = g[i]
      /\ \A i \in 1..Len(s) : (g \o s)[Len(g) + i] = s[i]
  BY SequenceConcat
<1> DEFINE h == g \o s
<1>3. \A i \in (Len(g) + 1)..Len(h) : i - Len(g) \in 1..Len(s) /\ h[i] = s[i - Len(g)]
  <2> SUFFICES ASSUME NEW i \in (Len(g) + 1)..Len(h) PROVE i - Len(g) \in 1..Len(s) /\ h[i] = s[i - Len(g)]
    OBVIOUS
  <2> HIDE DEF h
  <2>0. Len(h) = Len(g) + Len(s) /\ \A j \in 1..Len(s) : h[Len(g) + j] = s[j]
    BY <1>2 DEF h
  <2>1. i - Len(g) \in 1..Len(s) /\ Len(g) + (i - Len(g)) = i
    BY <1>1, <2>0
  <2> QED BY <2>0, <2>1
<1>4. \A i \in 1..Len(h) : i \in 1..Len(g) \/ i \in (Len(g) + 1)..Len(h)
  <2> HIDE DEF h
  <2> QED BY <1>1, <1>2
<1>5. Len(g) <= Len(h)
  BY <1>1, <1>2
<1> HIDE DEF h
<1>6. Continues(g, h)
  BY <1>2, <1>5 DEF Continues, h
<1>7. NoAnswers(s) => GoesOn(g, h)
  BY <1>3, <1>6 DEF GoesOn, NoAnswers
<1>8. ASSUME NoAnswers(g), NoAnswers(s) PROVE NoAnswers(h)
  BY <1>2, <1>3, <1>4, <1>8 DEF NoAnswers, h
<1> QED BY <1>2, <1>6, <1>7, <1>8 DEF h

\* A history that goes on, and goes on.
LEMMA GoesOnTwice ==
  ASSUME NEW f, NEW g, NEW h, Len(f) \in Nat, Len(g) \in Nat, Len(h) \in Nat
  PROVE  /\ Continues(f, g) /\ Continues(g, h) => Continues(f, h)
         /\ GoesOn(f, g) /\ GoesOn(g, h) => GoesOn(f, h)
<1>1. ASSUME Continues(f, g), Continues(g, h) PROVE Continues(f, h)
  BY <1>1 DEF Continues
<1>2. ASSUME GoesOn(f, g), GoesOn(g, h) PROVE \A i \in (Len(f) + 1)..Len(h) : ~is_decision_event(h[i])
  <2> SUFFICES ASSUME NEW i \in (Len(f) + 1)..Len(h) PROVE ~is_decision_event(h[i])
    OBVIOUS
  <2>1. CASE i \in 1..Len(g)
    <3>1. i \in (Len(f) + 1)..Len(g) /\ h[i] = g[i]
      BY <1>2, <2>1 DEF GoesOn, Continues
    <3> QED BY <1>2, <3>1 DEF GoesOn
  <2>2. CASE i \notin 1..Len(g)
    <3>1. i \in (Len(g) + 1)..Len(h)
      BY <2>2
    <3> QED BY <1>2, <3>1 DEF GoesOn
  <2> QED BY <2>1, <2>2
<1> QED BY <1>1, <1>2 DEF GoesOn

\* A history goes on in itself.
LEMMA GoesOnStays ==
  ASSUME NEW g, Len(g) \in Nat
  PROVE  GoesOn(g, g)
BY DEF GoesOn, Continues

\* Events that answer no decision, one, two or a decision task's.
LEMMA PlainEvents ==
  /\ \A e : ~is_decision_event(e) => NoAnswers(<<e>>)
  /\ \A e, f : ~is_decision_event(e) /\ ~is_decision_event(f) => NoAnswers(<<e, f>>)
  /\ NoAnswers(<<>>)
  /\ \A again \in BOOLEAN : NoAnswers(IF again THEN <<Scheduled>> ELSE <<>>)
<1>1. ASSUME NEW e, ~is_decision_event(e) PROVE NoAnswers(<<e>>)
  BY <1>1 DEF NoAnswers
<1>2. ASSUME NEW e, NEW f, ~is_decision_event(e), ~is_decision_event(f) PROVE NoAnswers(<<e, f>>)
  <2>1. Len(<<e, f>>) = 2 /\ <<e, f>>[1] = e /\ <<e, f>>[2] = f
    OBVIOUS
  <2>2. \A i \in 1..2 : i = 1 \/ i = 2
    OBVIOUS
  <2> QED BY <1>2, <2>1, <2>2 DEF NoAnswers
<1>3. NoAnswers(<<>>)
  BY DEF NoAnswers
<1>4. ~is_decision_event(Scheduled)
  BY DEF Scheduled, Event, is_decision_event, DecisionEventTypes
<1> QED BY <1>1, <1>2, <1>3, <1>4

\* What a step of the service adds.
Adding == GoesOn(history, history') /\ NoAnswers(buffered')

\* What happens to the execution answers no decision.
LEMMA RecordAdds ==
  ASSUME ServiceOK, NoAnswers(buffered), NEW events, IsSequence(events), NoAnswers(events), Record(events)
  PROVE  Adding
<1>1. CASE decisionTask = "started"
  <2>1. buffered' = buffered \o events /\ history' = history
    BY <1>1 DEF Record
  <2> QED BY <2>1, MoreGoesOn, GoesOnStays, SequenceIs DEF Adding, ServiceOK
<1>2. CASE decisionTask # "started"
  <2> DEFINE again == decisionTask = "none"
             more == IF again THEN <<Scheduled>> ELSE <<>>
  <2>1. history' = history \o events \o more /\ buffered' = buffered
    BY <1>2 DEF Record
  <2>2. NoAnswers(more) /\ IsSequence(more)
    <3>1. again \in BOOLEAN
      OBVIOUS
    <3> HIDE DEF again
    <3> QED BY <3>1, PlainEvents, AgainIs
  <2> HIDE DEF more
  <2>3. IsSequence(history \o events) /\ GoesOn(history, history \o events)
    BY MoreGoesOn DEF ServiceOK
  <2>4. IsSequence(history') /\ GoesOn(history \o events, history')
    BY <2>1, <2>2, <2>3, MoreGoesOn
  <2>5. Len(history) \in Nat /\ Len(history \o events) \in Nat /\ Len(history') \in Nat
    BY <2>3, <2>4, SequenceIs DEF ServiceOK
  <2> QED BY <2>1, <2>3, <2>4, <2>5, GoesOnTwice DEF Adding
<1> QED BY <1>1, <1>2

\* The end of a decision task.
LEMMA EndAdds ==
  ASSUME ServiceOK, NEW ended, IsSequence(ended), NEW rest, IsSequence(rest), NoAnswers(rest),
         NEW retry \in BOOLEAN, EndDecisionTask(ended, rest, retry)
  PROVE  /\ NoAnswers(buffered')
         /\ IsSequence(history \o ended) /\ IsSequence(history')
         /\ Continues(history, history \o ended)
         /\ NoAnswers(ended) => GoesOn(history, history \o ended)
         /\ GoesOn(history \o ended, history')
         /\ Continues(history, history')
         /\ NoAnswers(ended) => Adding
<1> DEFINE again == retry \/ rest # <<>>
           more == IF again THEN <<Scheduled>> ELSE <<>>
           e == history \o ended
           r == e \o rest
<1>1. history' = r \o more /\ buffered' = <<>>
  BY DEF EndDecisionTask
<1>2. IsSequence(more) /\ NoAnswers(more)
  <2>1. again \in BOOLEAN
    OBVIOUS
  <2> HIDE DEF again
  <2> QED BY <2>1, PlainEvents, AgainIs
<1> HIDE DEF more
<1>3. /\ IsSequence(e) /\ Continues(history, e)
      /\ NoAnswers(ended) => GoesOn(history, e)
  BY MoreGoesOn DEF ServiceOK
<1> HIDE DEF e
<1>4. IsSequence(r) /\ GoesOn(e, r)
  BY <1>3, MoreGoesOn
<1> HIDE DEF r
<1>5. IsSequence(history') /\ GoesOn(r, history')
  BY <1>1, <1>2, <1>4, MoreGoesOn
<1>6. Len(history) \in Nat /\ Len(e) \in Nat /\ Len(r) \in Nat /\ Len(history') \in Nat
  BY <1>3, <1>4, <1>5, SequenceIs DEF ServiceOK
<1>7. GoesOn(e, history')
  BY <1>4, <1>5, <1>6, GoesOnTwice
<1>8. Continues(history, history')
  BY <1>3, <1>6, <1>7, GoesOnTwice DEF GoesOn
<1>9. NoAnswers(buffered')
  BY <1>1, PlainEvents
<1>10. NoAnswers(ended) => GoesOn(history, history')
  BY <1>3, <1>6, <1>7, GoesOnTwice
<1> QED BY <1>3, <1>5, <1>7, <1>8, <1>9, <1>10 DEF Adding, e

\* What the service does of itself answers no decision.
LEMMA ServiceAdds ==
  ASSUME ServiceOK, NoAnswers(buffered), ServiceStep
  PROVE  Adding
<1>1. ASSUME NEW e, ~is_decision_event(e), Record(<<e>>) PROVE Adding
  BY <1>1, OneEvent, PlainEvents, RecordAdds, Zenon
<1>2. ASSUME NEW e, NEW f, ~is_decision_event(e), ~is_decision_event(f), Record(<<e, f>>) PROVE Adding
  <2>1. <<e, f>> \in Seq({e, f})
    OBVIOUS
  <2>2. IsSequence(<<e, f>>)
    BY <2>1, SequenceOver
  <2> QED BY <1>2, <2>2, PlainEvents, RecordAdds, Zenon
<1>3. CASE Signal
  <2>1. PICK name \in SignalName : Record(<<Event("WorkflowExecutionSignaled", 0, name)>>)
    BY <1>3, Zenon DEF Signal
  <2>2. ~is_decision_event(Event("WorkflowExecutionSignaled", 0, name))
    BY DEF Event, is_decision_event, DecisionEventTypes
  <2> QED BY <1>1, <2>1, <2>2, Zenon
<1>4. CASE RequestCancel
  <2>1. Record(<<Event("WorkflowExecutionCancelRequested", 0, "")>>)
    BY <1>4, Zenon DEF RequestCancel
  <2>2. ~is_decision_event(Event("WorkflowExecutionCancelRequested", 0, ""))
    BY DEF Event, is_decision_event, DecisionEventTypes
  <2> QED BY <1>1, <2>1, <2>2, Zenon
<1>5. CASE CloseActivity
  <2>1. \E i, type : /\ type \in ActivityClosed \cup {"ActivityTaskCompleted"}
                     /\ Record(<<Event("ActivityTaskStarted", i, ""), Event(type, i, "")>>)
    BY <1>5, Zenon DEF CloseActivity
  <2>2. PICK i, type : /\ type \in ActivityClosed \cup {"ActivityTaskCompleted"}
                       /\ Record(<<Event("ActivityTaskStarted", i, ""), Event(type, i, "")>>)
    BY <2>1, Zenon
  <2>3. ~is_decision_event(Event("ActivityTaskStarted", i, "")) /\ ~is_decision_event(Event(type, i, ""))
    BY <2>2 DEF Event, ActivityClosed, is_decision_event, DecisionEventTypes
  <2> QED BY <1>2, <2>2, <2>3, Zenon
<1>6. CASE FireTimer
  <2>1. PICK i : Record(<<Event("TimerFired", i, "")>>)
    BY <1>6, Zenon DEF FireTimer
  <2>2. ~is_decision_event(Event("TimerFired", i, ""))
    BY DEF Event, is_decision_event, DecisionEventTypes
  <2> QED BY <1>1, <2>1, <2>2, Zenon
<1>7. CASE TimeoutDecisionTask
  <2> DEFINE e == Event("DecisionTaskTimedOut", 0, "")
  <2>1. EndDecisionTask(<<e>>, buffered, TRUE)
    BY <1>7, Zenon DEF TimeoutDecisionTask
  <2>2. ~is_decision_event(e)
    BY DEF Event, is_decision_event, DecisionEventTypes
  <2> HIDE DEF e
  <2>3. IsSequence(<<e>>) /\ IsSequence(buffered) /\ TRUE \in BOOLEAN /\ NoAnswers(<<e>>)
    BY <2>2, OneEvent, PlainEvents, Zenon DEF ServiceOK
  <2> QED BY <2>1, <2>3, EndAdds, Zenon
<1> QED BY <1>3, <1>4, <1>5, <1>6, <1>7 DEF ServiceStep

\* Nor does the start of a decision task.
LEMMA StartAdds ==
  ASSUME ServiceOK, NoAnswers(buffered), StartDecisionTask
  PROVE  /\ Adding
         /\ Len(history') = Len(history) + 1
         /\ history'[Len(history')].type = "DecisionTaskStarted"
<1> DEFINE e == Event("DecisionTaskStarted", 0, "")
<1>1. history' = Append(history, e) /\ buffered' = buffered
  BY DEF StartDecisionTask
<1>2. e.type = "DecisionTaskStarted"
  BY DEF Event
<1> HIDE DEF e
<1>3. /\ Len(history) \in Nat
      /\ Len(history') = Len(history) + 1
      /\ DOMAIN history = 1..Len(history)
      /\ \A i \in 1..Len(history) : history'[i] = history[i]
      /\ history'[Len(history) + 1] = e
  BY <1>1, SequenceAppend, SequenceIs DEF ServiceOK
<1>4. GoesOn(history, history')
  <2>1. \A i \in (Len(history) + 1)..Len(history') : i = Len(history) + 1
    BY <1>3
  <2>2. ~is_decision_event(e)
    BY <1>2 DEF is_decision_event, DecisionEventTypes
  <2> QED BY <1>3, <2>1, <2>2 DEF GoesOn, Continues
<1> QED BY <1>1, <1>2, <1>3, <1>4 DEF Adding

-----------------------------------------------------------------------------
(* What the service makes of an answer *)

DecisionTypes ==
  {"ScheduleActivityTask", "StartTimer", "CancelTimer", "RecordMarker",
   "CompleteWorkflowExecution", "FailWorkflowExecution", "CancelWorkflowExecution"}

\* The history h has these decisions as the answer to the decision task n: its
\* markers and its activities after n are theirs, and unless they have closed the
\* execution all the events that answer them follow the DecisionTaskCompleted.
Answer(ds, n, h) ==
  /\ n + 1 <= Len(h) /\ h[n + 1].type = "DecisionTaskCompleted"
  /\ \A i \in (n + 2)..Len(h) :
       h[i].type = "MarkerRecorded" =>
         \E k \in DOMAIN ds : ds[k].type = "RecordMarker" /\ h[i].ref = ds[k].ref /\ h[i].name = ds[k].name
  /\ \A i \in (n + 2)..Len(h) :
       h[i].type = "ActivityTaskScheduled" =>
         /\ i - n - 1 \in DOMAIN ds
         /\ ds[i - n - 1].type = "ScheduleActivityTask" /\ h[i].name = ds[i - n - 1].name
  /\ Last(h).type \notin ClosingEventTypes =>
       \A k \in DOMAIN ds :
         /\ n + 1 + k <= Len(h)
         /\ is_decision_event(h[n + 1 + k])
         /\ ds[k].type = "RecordMarker" =>
              /\ h[n + 1 + k].type = "MarkerRecorded"
              /\ h[n + 1 + k].ref = ds[k].ref /\ h[n + 1 + k].name = ds[k].name

\* The event that answers a decision.
LEMMA DecisionEventIs ==
  ASSUME NEW d, d.type \in DecisionTypes
  PROVE  /\ is_decision_event(DecisionEvent(d))
         /\ DecisionEvent(d).type = "MarkerRecorded" <=> d.type = "RecordMarker"
         /\ d.type = "RecordMarker" => DecisionEvent(d).ref = d.ref /\ DecisionEvent(d).name = d.name
         /\ DecisionEvent(d).type = "ActivityTaskScheduled" =>
              d.type = "ScheduleActivityTask" /\ DecisionEvent(d).name = d.name
         /\ Closes(d) => DecisionEvent(d).type \in ClosingEventTypes
<1>1. CASE d.type = "CancelTimer"
  <2>1. DecisionEvent(d) = IF MeantTimers(d) = {} THEN Event("CancelTimerFailed", 0, "")
                           ELSE Event("TimerCanceled", CHOOSE i \in MeantTimers(d) : TRUE, "")
    BY <1>1, SMT DEF DecisionEvent
  <2>2. CASE MeantTimers(d) = {}
    <3>1. DecisionEvent(d).type = "CancelTimerFailed"
      <4>1. DecisionEvent(d) = Event("CancelTimerFailed", 0, "")
        BY <2>1, <2>2
      <4>2. Event("CancelTimerFailed", 0, "").type = "CancelTimerFailed"
        BY DEF Event
      <4> QED BY <4>1, <4>2, Zenon
    <3> QED BY <1>1, <3>1 DEF is_decision_event, DecisionEventTypes, Closes
  <2>3. CASE MeantTimers(d) # {}
    <3>1. DecisionEvent(d).type = "TimerCanceled"
      <4> DEFINE i == CHOOSE i \in MeantTimers(d) : TRUE
      <4>1. DecisionEvent(d) = Event("TimerCanceled", i, "")
        BY <2>1, <2>3
      <4> HIDE DEF i
      <4>2. Event("TimerCanceled", i, "").type = "TimerCanceled"
        BY DEF Event
      <4> QED BY <4>1, <4>2, Zenon
    <3> QED BY <1>1, <3>1 DEF is_decision_event, DecisionEventTypes, Closes
  <2> QED BY <2>2, <2>3
<1>2. CASE d.type # "CancelTimer"
  BY <1>2 DEF DecisionTypes, DecisionEvent, Event, is_decision_event, DecisionEventTypes, Closes,
              ClosingEventTypes
<1> QED BY <1>1, <1>2

\* Where the decisions up to the first that closes end.
LEMMA UpToCloseEnds ==
  ASSUME NEW ds, IsSequence(ds)
  PROVE  /\ Len(UpToClose(ds)) <= Len(ds)
         /\ \A k \in 1..Len(UpToClose(ds)) : UpToClose(ds)[k] = ds[k]
         /\ \/ SelectInSeq(ds, Closes) = 0 /\ UpToClose(ds) = ds
            \/ /\ SelectInSeq(ds, Closes) # 0 /\ Len(UpToClose(ds)) > 0
               /\ Closes(UpToClose(ds)[Len(UpToClose(ds))])
<1> DEFINE n == Len(ds)
           I == {i \in 1..n : Closes(ds[i])}
           first == CHOOSE x \in I : \A y \in I : x <= y
<1>1. n \in Nat
  BY SequenceIs
<1>2. CASE I = {}
  <2>1. SelectInSeq(ds, Closes) = 0
    BY <1>2 DEF SelectInSeq
  <2>2. UpToClose(ds) = ds
    BY <2>1 DEF UpToClose
  <2> QED BY <1>1, <2>1, <2>2
<1>3. CASE I # {}
  <2>1. \E x \in I : \A y \in I : x <= y
    <3> I \in SUBSET Nat
      BY <1>1
    <3> HIDE DEF I
    <3> QED BY <1>3, LeastNumber
  <2>2. first \in 1..n /\ Closes(ds[first])
    BY <2>1
  <2>3. SelectInSeq(ds, Closes) = first
    BY <1>3, Zenon DEF SelectInSeq, Min
  <2>4. first # 0 /\ first \in 0..n /\ first > 0
    <3> HIDE DEF first
    <3> QED BY <1>1, <2>2
  <2>5. UpToClose(ds) = SubSeq(ds, 1, first)
    BY <2>3, <2>4, Zenon DEF UpToClose
  <2> HIDE DEF first
  <2>6. Len(SubSeq(ds, 1, first)) = first
    BY <2>4, SequencePrefix
  <2>7. \A k \in 1..first : SubSeq(ds, 1, first)[k] = ds[k]
    <3>1. ds \in Seq(ToSet(ds))
      BY DEF IsSequence
    <3> QED BY <1>1, <2>4, <3>1
  <2>8. Len(UpToClose(ds)) = first /\ first <= n /\ first \in 1..first
    BY <1>1, <2>4, <2>5, <2>6
  <2> QED BY <2>2, <2>3, <2>4, <2>5, <2>7, <2>8
<1> QED BY <1>2, <1>3

\* An answer that is accepted.
LEMMA AcceptedIs ==
  ASSUME ServiceOK, NoAnswers(buffered), NEW ds, IsSequence(ds),
         \A k \in DOMAIN ds : ds[k].type \in DecisionTypes,
         NEW done, done = UpToClose(ds), NEW answers, answers = [i \in DOMAIN done |-> DecisionEvent(done[i])],
         NEW rest, IsSequence(rest), NoAnswers(rest), NEW e, e.type = "DecisionTaskCompleted",
         EndDecisionTask(<<e>> \o answers, rest, FALSE),
         SelectInSeq(ds, Closes) # 0 => rest = <<>>
  PROVE  /\ NoAnswers(buffered')
         /\ Continues(history, history')
         /\ Answer(ds, Len(history), history')
<1> DEFINE n == Len(history)
           m == Len(done)
           ended == <<e>> \o answers
           a == history \o ended
<1>1. n \in Nat /\ IsSequence(history) /\ DOMAIN ds = 1..Len(ds) /\ Len(ds) \in Nat
  BY SequenceIs DEF ServiceOK
<1>2. /\ m \in Nat /\ m <= Len(ds)
      /\ \A k \in 1..m : done[k] = ds[k]
      /\ \/ SelectInSeq(ds, Closes) = 0 /\ done = ds
         \/ SelectInSeq(ds, Closes) # 0 /\ m > 0 /\ Closes(done[m])
      /\ DOMAIN done = 1..m
  BY UpToCloseEnds, UpToCloseIs, SequenceIs
<1>3. IsSequence(answers) /\ Len(answers) = m /\ \A k \in 1..m : answers[k] = DecisionEvent(ds[k])
  <2>1. answers = [i \in 1..m |-> answers[i]]
    BY <1>2
  <2>2. \A k \in 1..m : answers[k] = DecisionEvent(ds[k])
    BY <1>2
  <2> QED BY <1>2, <2>1, <2>2, SequenceMade
<1>4. /\ IsSequence(ended) /\ Len(ended) = m + 1
      /\ ended[1] = e
      /\ \A k \in 1..m : ended[1 + k] = DecisionEvent(ds[k])
  <2>1. IsSequence(<<e>>) /\ Len(<<e>>) = 1 /\ <<e>>[1] = e
    BY OneEvent
  <2>2. /\ IsSequence(ended) /\ Len(ended) = 1 + m
        /\ \A i \in 1..1 : ended[i] = <<e>>[i]
        /\ \A k \in 1..m : ended[1 + k] = answers[k]
    BY <1>3, <2>1, SequenceConcat
  <2> HIDE DEF ended
  <2> QED BY <1>2, <1>3, <2>1, <2>2
<1>5. /\ NoAnswers(buffered')
      /\ IsSequence(a) /\ IsSequence(history')
      /\ GoesOn(a, history')
      /\ Continues(history, history')
  <2>1. FALSE \in BOOLEAN
    OBVIOUS
  <2> HIDE DEF ended
  <2> QED BY <1>4, <2>1, EndAdds, Zenon DEF ended
<1> HIDE DEF ended
<1>6. /\ Len(a) = n + m + 1
      /\ a[n + 1] = e
      /\ \A k \in 1..m : a[n + 1 + k] = DecisionEvent(ds[k])
  <2>1. Len(a) = n + (m + 1) /\ \A i \in 1..(m + 1) : a[n + i] = ended[i]
    BY <1>1, <1>4, SequenceConcat
  <2> HIDE DEF a
  <2>2. ASSUME NEW k \in 1..m PROVE a[n + 1 + k] = DecisionEvent(ds[k])
    <3>1. 1 + k \in 1..(m + 1) /\ n + (1 + k) = n + 1 + k
      BY <1>1, <1>2
    <3> QED BY <1>4, <2>1, <3>1
  <2> QED BY <1>1, <1>2, <1>4, <2>1, <2>2
<1> HIDE DEF a
<1>7. /\ Len(a) <= Len(history') /\ \A i \in 1..Len(a) : history'[i] = a[i]
      /\ \A i \in (Len(a) + 1)..Len(history') : ~is_decision_event(history'[i])
      /\ Len(history') \in Nat
  BY <1>5, SequenceIs DEF GoesOn, Continues
<1>8. \A k \in 1..m : n + 1 + k <= Len(history') /\ history'[n + 1 + k] = DecisionEvent(ds[k])
  <2> SUFFICES ASSUME NEW k \in 1..m PROVE n + 1 + k <= Len(history') /\ history'[n + 1 + k] = DecisionEvent(ds[k])
    OBVIOUS
  <2>1. n + 1 + k \in 1..Len(a) /\ n + 1 + k <= Len(history')
    BY <1>1, <1>2, <1>6, <1>7
  <2> QED BY <1>6, <1>7, <2>1
<1>9. \A k \in 1..Len(ds) : ds[k].type \in DecisionTypes
  BY <1>1
<1>10. ASSUME NEW i \in (n + 2)..Len(history'), is_decision_event(history'[i])
       PROVE  /\ i - n - 1 \in DOMAIN ds
              /\ history'[i] = DecisionEvent(ds[i - n - 1]) /\ ds[i - n - 1].type \in DecisionTypes
  <2>1. i \in 1..Len(a)
    BY <1>1, <1>2, <1>6, <1>7, <1>10
  <2>2. i - n - 1 \in 1..m /\ n + 1 + (i - n - 1) = i /\ i - n - 1 \in DOMAIN ds
    BY <1>1, <1>2, <1>6, <2>1
  <2> QED BY <1>1, <1>8, <1>9, <2>2
<1>14. ASSUME NEW i \in (n + 2)..Len(history'), history'[i].type = "MarkerRecorded"
       PROVE  \E k \in DOMAIN ds : ds[k].type = "RecordMarker" /\ history'[i].ref = ds[k].ref /\ history'[i].name = ds[k].name
  <2>1. is_decision_event(history'[i])
    BY <1>14 DEF is_decision_event, DecisionEventTypes
  <2>2. /\ i - n - 1 \in DOMAIN ds
        /\ history'[i] = DecisionEvent(ds[i - n - 1]) /\ ds[i - n - 1].type \in DecisionTypes
    BY <1>10, <2>1
  <2>3. DecisionEvent(ds[i - n - 1]).type = "MarkerRecorded"
    BY <1>14, <2>2
  <2> QED BY <2>2, <2>3, DecisionEventIs, Zenon
<1>15. ASSUME NEW i \in (n + 2)..Len(history'), history'[i].type = "ActivityTaskScheduled"
       PROVE  /\ i - n - 1 \in DOMAIN ds
              /\ ds[i - n - 1].type = "ScheduleActivityTask" /\ history'[i].name = ds[i - n - 1].name
  <2>1. is_decision_event(history'[i])
    BY <1>15 DEF is_decision_event, DecisionEventTypes
  <2>2. /\ i - n - 1 \in DOMAIN ds
        /\ history'[i] = DecisionEvent(ds[i - n - 1]) /\ ds[i - n - 1].type \in DecisionTypes
    BY <1>10, <2>1
  <2>3. DecisionEvent(ds[i - n - 1]).type = "ActivityTaskScheduled"
    BY <1>15, <2>2
  <2> QED BY <2>2, <2>3, DecisionEventIs, Zenon
<1>11. ASSUME Last(history').type \notin ClosingEventTypes
       PROVE  m = Len(ds)
  <2>1. CASE SelectInSeq(ds, Closes) = 0
    BY <1>2, <2>1
  <2>2. CASE SelectInSeq(ds, Closes) # 0
    <3>0. rest = <<>> /\ m > 0 /\ Closes(done[m])
      BY <1>2, <2>2
    <3>1. /\ rest = <<>> /\ m > 0 /\ Closes(done[m])
          /\ done[m] = ds[m] /\ m \in 1..m /\ m \in 1..Len(ds)
      <4> HIDE DEF m
      <4>1. m \in 1..m /\ m \in 1..Len(ds)
        BY <1>1, <1>2, <3>0
      <4> QED BY <1>2, <3>0, <4>1
    <3>2. history' = (a \o <<>>) \o <<>>
      BY <3>1 DEF EndDecisionTask, a, ended
    <3>3. history' = a
      <4>1. a \in Seq(ToSet(a))
        BY <1>5 DEF IsSequence
      <4> QED BY <3>2, <4>1
    <3>4. Last(history') = DecisionEvent(ds[m])
      <4>1. Last(history') = a[n + m + 1] /\ n + m + 1 = n + 1 + m
        BY <1>1, <1>2, <1>6, <3>3 DEF Last
      <4> QED BY <1>6, <3>1, <4>1
    <3>5. DecisionEvent(ds[m]).type \in ClosingEventTypes
      BY <1>9, <3>1, DecisionEventIs
    <3> QED BY <1>11, <3>4, <3>5
  <2> QED BY <2>1, <2>2
<1>12. ASSUME Last(history').type \notin ClosingEventTypes, NEW k \in DOMAIN ds
       PROVE  /\ n + 1 + k <= Len(history')
              /\ is_decision_event(history'[n + 1 + k])
              /\ ds[k].type = "RecordMarker" =>
                   /\ history'[n + 1 + k].type = "MarkerRecorded"
                   /\ history'[n + 1 + k].ref = ds[k].ref /\ history'[n + 1 + k].name = ds[k].name
  <2>1. k \in 1..m
    BY <1>1, <1>11, <1>12
  <2>2. n + 1 + k <= Len(history') /\ history'[n + 1 + k] = DecisionEvent(ds[k]) /\ ds[k].type \in DecisionTypes
    BY <1>8, <2>1
  <2> QED BY <2>2, DecisionEventIs, Zenon
<1>13. n + 1 <= Len(history') /\ history'[n + 1].type = "DecisionTaskCompleted"
  <2>1. n + 1 \in 1..Len(a) /\ n + 1 <= Len(history')
    BY <1>1, <1>2, <1>6, <1>7
  <2> QED BY <1>6, <1>7, <2>1
<1> QED BY <1>5, <1>12, <1>13, <1>14, <1>15, Zenon DEF Answer

\* What becomes of the answer to the decision task with this token.
LEMMA RespondAdds ==
  ASSUME ServiceOK, NoAnswers(buffered), NEW token \in Nat, token > 0, NEW ds, IsSequence(ds),
         \A k \in DOMAIN ds : ds[k].type \in DecisionTypes,
         RespondDecisionTaskCompleted(token, ds)
  PROVE  /\ NoAnswers(buffered')
         /\ Continues(history, history')
         /\ \/ GoesOn(history, history') /\ ~(token = StartedTask /\ history'[token + 1].type = "DecisionTaskCompleted")
            \/ token = StartedTask /\ token = Len(history) /\ Answer(ds, token, history')
<1>0. Len(history) \in Nat /\ IsSequence(history)
  BY SequenceIs DEF ServiceOK
<1>1. CASE token # StartedTask
  <2>1. UNCHANGED <<history, buffered>>
    BY <1>1, Zenon DEF RespondDecisionTaskCompleted, serviceVars
  <2> QED BY <1>0, <1>1, <2>1, GoesOnStays DEF GoesOn
<1>2. CASE token = StartedTask
  <2> DEFINE fails == buffered # <<>> /\ SelectInSeq(ds, Closes) # 0
             done == UpToClose(ds)
             answers == [i \in DOMAIN done |-> DecisionEvent(done[i])]
             canceled == {i \in DOMAIN answers : answers[i].type = "TimerCanceled"}
             fired == {Event("TimerFired", answers[i].ref, "") : i \in canceled}
             e == Event("DecisionTaskCompleted", 0, "")
             rest == Without(buffered, fired)
  <2>0. token = Len(history)
    BY <1>2 DEF StartedTask
  <2>1. CASE fails
    <3> DEFINE x == Event("DecisionTaskFailed", 0, "")
    <3>1. EndDecisionTask(<<x>>, buffered, TRUE)
      BY <1>2, <2>1, Zenon DEF RespondDecisionTaskCompleted
    <3>2. x.type = "DecisionTaskFailed"
      BY DEF Event
    <3> HIDE DEF x
    <3>3. IsSequence(<<x>>) /\ IsSequence(buffered) /\ TRUE \in BOOLEAN /\ NoAnswers(<<x>>)
      <4>1. ~is_decision_event(x)
        BY <3>2 DEF is_decision_event, DecisionEventTypes
      <4> QED BY <4>1, OneEvent, PlainEvents DEF ServiceOK
    <3>4. Adding /\ GoesOn(history \o <<x>>, history') /\ Continues(history, history')
      BY <3>1, <3>3, EndAdds, Zenon
    <3>5. history'[token + 1] = x
      <4>1. Len(<<x>>) = 1 /\ <<x>>[1] = x
        OBVIOUS
      <4>2. Len(history \o <<x>>) = Len(history) + 1 /\ (history \o <<x>>)[Len(history) + 1] = x
        BY <1>0, <3>3, <4>1, SequenceConcat
      <4> QED BY <1>0, <2>0, <3>4, <4>2 DEF GoesOn, Continues
    <3> QED BY <3>2, <3>4, <3>5 DEF Adding
  <2>2. CASE ~fails
    <3>1. EndDecisionTask(<<e>> \o answers, rest, FALSE)
      BY <1>2, <2>2, Zenon DEF RespondDecisionTaskCompleted
    <3>2. IsSequence(rest) /\ ToSet(rest) \subseteq ToSet(buffered)
      <4> HIDE DEF fired
      <4> QED BY WithoutIs DEF ServiceOK
    <3>3. NoAnswers(rest)
      <4>1. \A x \in ToSet(buffered) : ~is_decision_event(x)
        <5>1. DOMAIN buffered = 1..Len(buffered)
          BY SequenceIs DEF ServiceOK
        <5> QED BY <5>1 DEF ToSet, NoAnswers
      <4> HIDE DEF rest
      <4>2. \A i \in 1..Len(rest) : rest[i] \in ToSet(rest)
        BY <3>2, SequenceIs
      <4> QED BY <3>2, <4>1, <4>2 DEF NoAnswers
    <3>4. SelectInSeq(ds, Closes) # 0 => rest = <<>>
      <4> HIDE DEF fired
      <4> SUFFICES ASSUME buffered = <<>> PROVE rest = <<>>
        BY <2>2
      <4>1. ToSet(rest) = {}
        BY <3>2 DEF ToSet
      <4> HIDE DEF rest
      <4>2. Len(rest) \in Nat /\ \A i \in 1..Len(rest) : rest[i] \in ToSet(rest)
        BY <3>2, SequenceIs
      <4>3. Len(rest) = 0
        BY <4>1, <4>2
      <4>4. rest \in Seq(ToSet(rest))
        BY <3>2 DEF IsSequence
      <4> QED BY <4>3, <4>4
    <3>5. e.type = "DecisionTaskCompleted"
      BY DEF Event
    <3> HIDE DEF e, rest
    <3>6. /\ NoAnswers(buffered')
          /\ Continues(history, history')
          /\ Answer(ds, Len(history), history')
      <4> HIDE DEF answers, done
      <4>1. done = UpToClose(ds) /\ answers = [i \in DOMAIN done |-> DecisionEvent(done[i])]
        BY Zenon DEF done, answers
      <4> QED BY <3>1, <3>2, <3>3, <3>4, <3>5, <4>1, AcceptedIs, Zenon
    <3> QED BY <1>2, <2>0, <3>6
  <2> QED BY <2>1, <2>2
<1> QED BY <1>1, <1>2

-----------------------------------------------------------------------------
(* What the history says of an operation *)

\* The history holds this outcome for this place.
IsRecorded(h, place, outcome) ==
  \E i, j \in DOMAIN h :
    /\ h[i].type \in {"ActivityTaskScheduled", "TimerStarted"}
    /\ h[i].name = place
    /\ h[j].ref = i
    /\ h[j].type \in IF outcome = "ok" THEN {"ActivityTaskCompleted", "TimerFired"}
                     ELSE {"ActivityTaskFailed", "ActivityTaskTimedOut"}

\* What is recorded stays so.
LEMMA RecordedStays ==
  ASSUME NEW g, IsSequence(g), NEW h, IsSequence(h), Continues(g, h), NEW place, NEW outcome,
         IsRecorded(g, place, outcome)
  PROVE  IsRecorded(h, place, outcome)
<1>1. PICK i, j \in DOMAIN g :
        /\ g[i].type \in {"ActivityTaskScheduled", "TimerStarted"}
        /\ g[i].name = place
        /\ g[j].ref = i
        /\ g[j].type \in IF outcome = "ok" THEN {"ActivityTaskCompleted", "TimerFired"}
                         ELSE {"ActivityTaskFailed", "ActivityTaskTimedOut"}
  BY DEF IsRecorded
<1>2. /\ Len(g) \in Nat /\ DOMAIN g = 1..Len(g) /\ Len(h) \in Nat /\ DOMAIN h = 1..Len(h)
  BY SequenceIs
<1>3. /\ i \in DOMAIN h /\ j \in DOMAIN h /\ h[i] = g[i] /\ h[j] = g[j]
  BY <1>2 DEF Continues
<1> QED BY <1>1, <1>3 DEF IsRecorded

\* The event is no end, or the end of what this history has begun.
Refers(h, e) ==
  /\ e.type \in ActivityClosed => e.ref \in DOMAIN h
  /\ e.type = "TimerFired" => e.ref \in DOMAIN h

AllRefer(h, s) == \A i \in 1..Len(s) : Refers(h, s[i])

\* The ends of a longer history.
LEMMA ReferLater ==
  ASSUME NEW g, IsSequence(g), NEW h, IsSequence(h), Continues(g, h), NEW s, AllRefer(g, s)
  PROVE  AllRefer(h, s)
<1>1. Len(g) \in Nat /\ DOMAIN g = 1..Len(g) /\ Len(h) \in Nat /\ DOMAIN h = 1..Len(h)
  BY SequenceIs
<1>2. DOMAIN g \subseteq DOMAIN h
  BY <1>1 DEF Continues
<1> QED BY <1>2 DEF AllRefer, Refers

\* The ends of two histories, one after the other.
LEMMA ReferOn ==
  ASSUME NEW h, NEW s, IsSequence(s), NEW u, IsSequence(u), AllRefer(h, s), AllRefer(h, u)
  PROVE  IsSequence(s \o u) /\ AllRefer(h, s \o u)
<1>1. /\ IsSequence(s \o u)
      /\ Len(s \o u) = Len(s) + Len(u)
      /\ \A i \in 1..Len(s) : (s \o u)[i] = s[i]
      /\ \A i \in 1..Len(u) : (s \o u)[Len(s) + i] = u[i]
      /\ Len(s) \in Nat /\ Len(u) \in Nat
  BY SequenceConcat, SequenceIs
<1>2. ASSUME NEW i \in 1..Len(s \o u) PROVE Refers(h, (s \o u)[i])
  <2>1. CASE i <= Len(s)
    BY <1>1, <2>1 DEF AllRefer
  <2>2. CASE i > Len(s)
    <3>1. i - Len(s) \in 1..Len(u) /\ i = Len(s) + (i - Len(s))
      BY <1>1, <2>2
    <3> QED BY <1>1, <3>1 DEF AllRefer
  <2> QED BY <1>1, <2>1, <2>2
<1> QED BY <1>1, <1>2 DEF AllRefer

\* Other events are no ends.
LEMMA NoEnds ==
  ASSUME NEW h
  PROVE  /\ \A e : e.type \notin ActivityClosed \cup {"TimerFired"} => AllRefer(h, <<e>>)
         /\ AllRefer(h, <<>>)
         /\ \A again \in BOOLEAN : AllRefer(h, IF again THEN <<Scheduled>> ELSE <<>>)
<1>1. \A e : e.type \notin ActivityClosed \cup {"TimerFired"} => AllRefer(h, <<e>>)
  BY DEF AllRefer, Refers
<1>2. AllRefer(h, <<>>)
  BY DEF AllRefer
<1>3. Scheduled.type \notin ActivityClosed \cup {"TimerFired"}
  BY DEF Scheduled, Event, ActivityClosed
<1> QED BY <1>1, <1>2, <1>3

RefersInv == AllRefer(history, history) /\ AllRefer(history, buffered)

\* What the service records refers to what it has.
LEMMA RecordRefers ==
  ASSUME ServiceOK, RefersInv, NEW events, IsSequence(events), AllRefer(history, events), Record(events)
  PROVE  RefersInv'
<1>0. IsSequence(history) /\ IsSequence(buffered)
  BY DEF ServiceOK
<1>1. CASE decisionTask = "started"
  <2>1. history' = history /\ buffered' = buffered \o events
    BY <1>1 DEF Record
  <2> QED BY <1>0, <2>1, ReferOn, Zenon DEF RefersInv
<1>2. CASE decisionTask # "started"
  <2> DEFINE again == IF decisionTask = "none" THEN <<Scheduled>> ELSE <<>>
  <2>1. history' = history \o events \o again /\ buffered' = buffered
    BY <1>2 DEF Record
  <2>2. IsSequence(again) /\ AllRefer(history, again)
    <3>1. (decisionTask = "none") \in BOOLEAN
      OBVIOUS
    <3> QED BY <3>1, AgainIs, NoEnds, Zenon
  <2> HIDE DEF again
  <2>3. IsSequence(history \o events) /\ AllRefer(history, history \o events)
    BY <1>0, ReferOn, Zenon DEF RefersInv
  <2>4. IsSequence(history') /\ AllRefer(history, history')
    BY <2>1, <2>2, <2>3, ReferOn, Zenon
  <2>5. Continues(history, history')
    <3>1. Continues(history, history \o events) /\ Continues(history \o events, history')
      BY <1>0, <2>1, <2>2, <2>3, MoreGoesOn, Zenon
    <3>2. Len(history) \in Nat /\ Len(history \o events) \in Nat /\ Len(history') \in Nat
      BY <1>0, <2>3, <2>4, SequenceIs
    <3> QED BY <3>1, <3>2, GoesOnTwice, Zenon
  <2> QED BY <1>0, <2>1, <2>4, <2>5, ReferLater, Zenon DEF RefersInv
<1> QED BY <1>1, <1>2

\* So does what ends a decision task.
LEMMA EndRefers ==
  ASSUME ServiceOK, RefersInv, NEW ended, IsSequence(ended), AllRefer(history, ended),
         NEW rest, IsSequence(rest), AllRefer(history, rest),
         NEW retry \in BOOLEAN, EndDecisionTask(ended, rest, retry)
  PROVE  RefersInv'
<1>0. IsSequence(history)
  BY DEF ServiceOK
<1> DEFINE more == retry \/ rest # <<>>
           again == IF more THEN <<Scheduled>> ELSE <<>>
<1>1. history' = history \o ended \o rest \o again /\ buffered' = <<>>
  BY DEF EndDecisionTask
<1>2. IsSequence(again) /\ AllRefer(history, again)
  <2>1. more \in BOOLEAN
    OBVIOUS
  <2> HIDE DEF more
  <2> QED BY <2>1, AgainIs, NoEnds, Zenon
<1> HIDE DEF again
<1>3. IsSequence(history \o ended) /\ AllRefer(history, history \o ended)
  BY <1>0, ReferOn, Zenon DEF RefersInv
<1>4. IsSequence(history \o ended \o rest) /\ AllRefer(history, history \o ended \o rest)
  BY <1>3, ReferOn, Zenon
<1>5. IsSequence(history') /\ AllRefer(history, history')
  BY <1>1, <1>2, <1>4, ReferOn, Zenon
<1>6. Continues(history, history')
  <2>1. Continues(history, history \o ended) /\ Continues(history \o ended, history \o ended \o rest)
        /\ Continues(history \o ended \o rest, history')
    BY <1>0, <1>1, <1>2, <1>3, <1>4, MoreGoesOn, Zenon
  <2>2. Len(history) \in Nat /\ Len(history \o ended) \in Nat /\ Len(history \o ended \o rest) \in Nat
        /\ Len(history') \in Nat
    BY <1>0, <1>3, <1>4, <1>5, SequenceIs
  <2> QED BY <2>1, <2>2, GoesOnTwice, Zenon
<1>7. AllRefer(history', buffered')
  BY <1>1, NoEnds, Zenon
<1> QED BY <1>0, <1>5, <1>6, <1>7, ReferLater, Zenon DEF RefersInv

\* What is open was begun in the history, since what waits begins nothing.
LEMMA OpenBegun ==
  ASSUME ServiceOK, NoAnswers(buffered), NEW type \in {"ActivityTaskScheduled", "TimerStarted"},
         NEW closing, NEW i \in Open(Recorded, type, closing)
  PROVE  i \in DOMAIN history
<1>1. /\ IsSequence(Recorded) /\ Len(Recorded) = Len(history) + Len(buffered)
      /\ \A j \in 1..Len(buffered) : Recorded[Len(history) + j] = buffered[j]
      /\ Len(history) \in Nat /\ Len(buffered) \in Nat /\ DOMAIN history = 1..Len(history)
  BY SequenceConcat, SequenceIs DEF ServiceOK, Recorded
<1>2. i \in 1..Len(Recorded) /\ Recorded[i].type = type
  BY <1>1, SequenceIs DEF Open
<1>3. ASSUME i > Len(history) PROVE FALSE
  <2>1. i - Len(history) \in 1..Len(buffered) /\ i = Len(history) + (i - Len(history))
    BY <1>1, <1>2, <1>3
  <2>2. ~is_decision_event(Recorded[i])
    BY <1>1, <2>1 DEF NoAnswers
  <2> QED BY <1>2, <2>2 DEF is_decision_event, DecisionEventTypes
<1> QED BY <1>1, <1>2, <1>3

\* What the service does of itself.
LEMMA ServiceRefers ==
  ASSUME ServiceOK, RefersInv, NoAnswers(buffered), ServiceStep
  PROVE  RefersInv'
<1>1. CASE Signal
  <2>1. PICK name \in SignalName : Record(<<Event("WorkflowExecutionSignaled", 0, name)>>)
    BY <1>1 DEF Signal
  <2> DEFINE e == Event("WorkflowExecutionSignaled", 0, name)
  <2>2. e.type \notin ActivityClosed \cup {"TimerFired"}
    BY DEF Event, ActivityClosed
  <2> HIDE DEF e
  <2> QED BY <2>1, <2>2, NoEnds, OneEvent, RecordRefers, Zenon DEF e
<1>2. CASE RequestCancel
  <2> DEFINE e == Event("WorkflowExecutionCancelRequested", 0, "")
  <2>1. Record(<<e>>)
    BY <1>2 DEF RequestCancel
  <2>2. e.type \notin ActivityClosed \cup {"TimerFired"}
    BY DEF Event, ActivityClosed
  <2> HIDE DEF e
  <2> QED BY <2>1, <2>2, NoEnds, OneEvent, RecordRefers, Zenon
<1>3. CASE CloseActivity
  <2>1. PICK i \in Open(Recorded, "ActivityTaskScheduled", ActivityClosed), type \in ActivityClosed :
          Record(<<Event("ActivityTaskStarted", i, ""), Event(type, i, "")>>)
    BY <1>3 DEF CloseActivity, ActivityClosed
  <2>2. i \in DOMAIN history
    BY <2>1, OpenBegun
  <2> DEFINE events == <<Event("ActivityTaskStarted", i, ""), Event(type, i, "")>>
  <2>3. IsSequence(events) /\ AllRefer(history, events)
    <3>1. Len(events) = 2 /\ events[1] = Event("ActivityTaskStarted", i, "") /\ events[2] = Event(type, i, "")
      OBVIOUS
    <3>2. IsSequence(events)
      <4>1. events = [n \in 1..2 |-> events[n]]
        BY <3>1
      <4> HIDE DEF events
      <4> QED BY <4>1, SequenceMade
    <3>3. Refers(history, events[1]) /\ Refers(history, events[2])
      BY <2>2, <3>1 DEF Refers, Event, ActivityClosed
    <3> HIDE DEF events
    <3>4. Len(events) = 2
      BY <3>1, Zenon
    <3>5. \A k \in 1..Len(events) : k = 1 \/ k = 2
      BY ONLY <3>4
    <3> QED BY ONLY <3>2, <3>3, <3>5 DEF AllRefer
  <2> HIDE DEF events
  <2> QED BY <2>1, <2>3, RecordRefers DEF events
<1>4. CASE FireTimer
  <2>1. PICK i \in Open(Recorded, "TimerStarted", TimerClosed) : Record(<<Event("TimerFired", i, "")>>)
    BY <1>4 DEF FireTimer
  <2>2. i \in DOMAIN history
    BY <2>1, OpenBegun
  <2> DEFINE e == Event("TimerFired", i, "")
  <2>3. Refers(history, e)
    BY <2>2 DEF Refers, Event, ActivityClosed
  <2> HIDE DEF e
  <2>4. IsSequence(<<e>>) /\ AllRefer(history, <<e>>)
    BY <2>3, OneEvent DEF AllRefer
  <2> QED BY <2>1, <2>4, RecordRefers DEF e
<1>5. CASE TimeoutDecisionTask
  <2> DEFINE e == Event("DecisionTaskTimedOut", 0, "")
  <2>1. EndDecisionTask(<<e>>, buffered, TRUE)
    BY <1>5 DEF TimeoutDecisionTask
  <2>2. e.type \notin ActivityClosed \cup {"TimerFired"}
    BY DEF Event, ActivityClosed
  <2> HIDE DEF e
  <2>3. IsSequence(buffered) /\ TRUE \in BOOLEAN
    BY DEF ServiceOK
  <2> QED BY <2>1, <2>2, <2>3, NoEnds, OneEvent, EndRefers, Zenon DEF RefersInv
<1> QED BY <1>1, <1>2, <1>3, <1>4, <1>5 DEF ServiceStep

\* A decision task starts.
LEMMA StartRefers ==
  ASSUME ServiceOK, RefersInv, StartDecisionTask
  PROVE  RefersInv'
<1> DEFINE e == Event("DecisionTaskStarted", 0, "")
<1>1. history' = Append(history, e) /\ buffered' = buffered
  BY DEF StartDecisionTask
<1>2. e.type \notin ActivityClosed \cup {"TimerFired"}
  BY DEF Event, ActivityClosed
<1> HIDE DEF e
<1>3. IsSequence(history) /\ IsSequence(<<e>>) /\ AllRefer(history, <<e>>)
  BY <1>2, NoEnds, OneEvent, Zenon DEF ServiceOK
<1>4. history' = history \o <<e>>
  BY <1>1, <1>3 DEF IsSequence
<1>5. IsSequence(history') /\ AllRefer(history, history') /\ Continues(history, history')
  BY <1>3, <1>4, ReferOn, MoreGoesOn, Zenon DEF RefersInv
<1> QED BY <1>1, <1>3, <1>5, ReferLater, Zenon DEF RefersInv

\* An answer.
LEMMA RespondRefers ==
  ASSUME ServiceOK, RefersInv, NEW token, NEW ds, IsSequence(ds),
         \A k \in DOMAIN ds : ds[k].type \in DecisionTypes,
         RespondDecisionTaskCompleted(token, ds)
  PROVE  RefersInv'
<1>1. CASE token # StartedTask
  <2>1. UNCHANGED <<history, buffered>>
    BY <1>1, Zenon DEF RespondDecisionTaskCompleted, serviceVars
  <2> QED BY <2>1, Zenon DEF RefersInv
<1>2. CASE token = StartedTask
  <2> DEFINE fails == buffered # <<>> /\ SelectInSeq(ds, Closes) # 0
             done == UpToClose(ds)
             answers == [i \in DOMAIN done |-> DecisionEvent(done[i])]
             canceled == {i \in DOMAIN answers : answers[i].type = "TimerCanceled"}
             fired == {Event("TimerFired", answers[i].ref, "") : i \in canceled}
             e == Event("DecisionTaskCompleted", 0, "")
             rest == Without(buffered, fired)
  <2>1. CASE fails
    <3> DEFINE x == Event("DecisionTaskFailed", 0, "")
    <3>1. EndDecisionTask(<<x>>, buffered, TRUE)
      BY <1>2, <2>1, Zenon DEF RespondDecisionTaskCompleted
    <3>2. x.type \notin ActivityClosed \cup {"TimerFired"}
      BY DEF Event, ActivityClosed
    <3> HIDE DEF x
    <3>3. IsSequence(buffered) /\ TRUE \in BOOLEAN
      BY DEF ServiceOK
    <3> QED BY <3>1, <3>2, <3>3, NoEnds, OneEvent, EndRefers, Zenon DEF RefersInv
  <2>2. CASE ~fails
    <3>1. EndDecisionTask(<<e>> \o answers, rest, FALSE)
      BY <1>2, <2>2, Zenon DEF RespondDecisionTaskCompleted
    <3>2. IsSequence(rest) /\ AllRefer(history, rest)
      <4>0. IsSequence(buffered) /\ AllRefer(history, buffered)
        BY DEF ServiceOK, RefersInv
      <4>1. IsSequence(rest) /\ ToSet(rest) \subseteq ToSet(buffered)
        <5> HIDE DEF fired
        <5> QED BY <4>0, WithoutIs
      <4> HIDE DEF rest
      <4>2. \A i \in 1..Len(rest) : rest[i] \in ToSet(buffered)
        BY <4>1, SequenceIs
      <4>3. \A x \in ToSet(buffered) : Refers(history, x)
        BY <4>0, SequenceIs DEF AllRefer, ToSet
      <4> QED BY <4>1, <4>2, <4>3 DEF AllRefer
    <3>3. e.type \notin ActivityClosed \cup {"TimerFired"}
      BY DEF Event, ActivityClosed
    <3>4. IsSequence(answers) /\ AllRefer(history, answers)
      <4>1. IsSequence(done) /\ \A k \in 1..Len(done) : done[k] = ds[k]
        BY UpToCloseIs, UpToCloseEnds
      <4>2. Len(done) <= Len(ds) /\ Len(done) \in Nat /\ DOMAIN done = 1..Len(done)
            /\ Len(ds) \in Nat /\ DOMAIN ds = 1..Len(ds)
        BY <4>1, UpToCloseEnds, SequenceIs
      <4> HIDE DEF done
      <4>3. \A i \in 1..Len(done) : is_decision_event(answers[i])
        <5> SUFFICES ASSUME NEW i \in 1..Len(done) PROVE is_decision_event(DecisionEvent(done[i]))
          BY <4>2
        <5>1. done[i].type \in DecisionTypes
          BY <4>1, <4>2
        <5> QED BY <5>1, DecisionEventIs
      <4>4. answers = [n \in 1..Len(done) |-> answers[n]]
        BY <4>2
      <4>5. IsSequence(answers) /\ Len(answers) = Len(done)
        <5> HIDE DEF answers
        <5> QED BY <4>2, <4>4, SequenceMade
      <4>6. \A x : is_decision_event(x) => Refers(history, x)
        BY DEF is_decision_event, DecisionEventTypes, Refers, ActivityClosed
      <4> HIDE DEF answers
      <4> QED BY <4>3, <4>5, <4>6 DEF AllRefer
    <3> HIDE DEF e, answers, rest
    <3>5. IsSequence(<<e>> \o answers) /\ AllRefer(history, <<e>> \o answers)
      BY <3>3, <3>4, NoEnds, OneEvent, ReferOn, Zenon
    <3>6. FALSE \in BOOLEAN
      OBVIOUS
    <3> QED BY <3>1, <3>2, <3>5, <3>6, EndRefers, Zenon
  <2> QED BY <2>1, <2>2
<1> QED BY <1>1, <1>2

-----------------------------------------------------------------------------
(* Who waits, and for what *)

\* A decision is added.
LEMMA AddedIs ==
  ASSUME IsDecisions(decisions), NEW e, add_decision(e)
  PROVE  \E k : /\ k \in DOMAIN decisions' /\ decisions'[k] = e
                /\ DOMAIN decisions' = DOMAIN decisions \cup {k}
                /\ \A i \in DOMAIN decisions : i # k => decisions'[i] = decisions[i]
                /\ k \in DOMAIN decisions =>
                     decisions[k].machine.target = e.machine.target /\ decisions[k].id = e.id
<1>1. PICK k : k = IndexOf(decisions, e.machine.target, e.id)
  OBVIOUS
<1>2. decisions' = IF k = 0 THEN Append(decisions, e) ELSE [decisions EXCEPT ![k] = e]
  BY <1>1, Zenon DEF add_decision, WithDecision
<1>3. \/ k \in DOMAIN decisions /\ decisions[k].machine.target = e.machine.target
         /\ decisions[k].id = e.id
      \/ k = 0
  BY <1>1, IndexIs, Zenon DEF IsDecisions
<1>4. CASE k = 0
  <2>1. /\ DOMAIN decisions' = DOMAIN decisions \cup {Len(decisions) + 1}
        /\ decisions'[Len(decisions) + 1] = e
        /\ \A i \in DOMAIN decisions : decisions'[i] = decisions[i]
    BY <1>2, <1>4, SequenceAppend DEF IsDecisions
  <2>2. Len(decisions) + 1 \notin DOMAIN decisions
    <3>1. DOMAIN decisions = 1..Len(decisions) /\ Len(decisions) \in Nat
      BY SequenceIs DEF IsDecisions
    <3> QED BY <3>1
  <2> QED BY <2>1, <2>2
<1>5. CASE k # 0
  <2>1. decisions' = [decisions EXCEPT ![k] = e] /\ k \in DOMAIN decisions
    BY <1>2, <1>3, <1>5
  <2>2. /\ k \in DOMAIN decisions' /\ decisions'[k] = e /\ DOMAIN decisions' = DOMAIN decisions
        /\ \A i \in DOMAIN decisions : i # k => decisions'[i] = decisions[i]
    BY <2>1
  <2>3. DOMAIN decisions' = DOMAIN decisions \cup {k}
    BY <2>1, <2>2
  <2> QED BY <1>3, <1>5, <2>2, <2>3
<1> QED BY <1>4, <1>5

\* The targets of what is added.
LEMMA TargetIs ==
  ASSUME NEW target, NEW id, NEW key, NEW name, NEW e, e = Entry(target, id, key, name)
  PROVE  e.machine.target = target /\ e.name = name
BY DEF Entry, NewMachine

\* All entries for this id are of this place.
Named(ds, target, id, place) ==
  \A k \in DOMAIN ds : ds[k].machine.target = target /\ ds[k].id = id => ds[k].name = place

\* Where a task is.
PlaceOf(t) == <<t, task[t].pc>>

\* Who waits for an activity or a timer waits where it was asked for.
WaitersNamed ==
  /\ \A id \in DOMAIN scheduled_activities :
       Named(decisions, "ACTIVITY", id, PlaceOf(scheduled_activities[id]))
  /\ \A id \in DOMAIN scheduled_timers :
       Named(decisions, "TIMER", id, PlaceOf(scheduled_timers[id]))

\* A task that has a result has it from the history.
ResultsTold ==
  \A t \in DOMAIN task : task[t].result # "none" => IsRecorded(history, PlaceOf(t), task[t].result)

\* So has the log.
LogRecorded ==
  \A n \in DOMAIN log : log[n][2] \in {"ok", "failed"} => IsRecorded(history, log[n][1], log[n][2])

RecordedInv == RefersInv /\ WaitersNamed /\ ResultsTold /\ LogRecorded

\* A task that is in an operation was in it before.
WasAt(t) == t \in DOMAIN task /\ task'[t].pc = task[t].pc

\* A task that is in an operation was in it before, with the same result.
Going == \A t \in DOMAIN task' : task'[t].entered => WasAt(t) /\ task'[t].result = task[t].result

\* One task changes.
LEMMA GoingOn ==
  ASSUME NEW x, NEW r, task' = [task EXCEPT ![x] = r],
         x \in DOMAIN task /\ r.entered => r.pc = task[x].pc /\ r.result = task[x].result
  PROVE  Going
<1>1. /\ DOMAIN task' = DOMAIN task
      /\ \A t \in DOMAIN task : t # x => task'[t] = task[t]
      /\ x \in DOMAIN task => task'[x] = r
  OBVIOUS
<1>2. ASSUME NEW t \in DOMAIN task', task'[t].entered
      PROVE  WasAt(t) /\ task'[t].result = task[t].result
  <2>1. CASE t = x
    BY <1>1, <1>2, <2>1 DEF WasAt
  <2>2. CASE t # x
    BY <1>1, <1>2, <2>2 DEF WasAt
  <2> QED BY <2>1, <2>2
<1> QED BY <1>2 DEF Going

\* The fields that may change while a task goes on.
LEMMA FieldGoes ==
  ASSUME TasksInv, NEW t,
         \/ task' = task
         \/ task' = [task EXCEPT ![t].fired = TRUE]
         \/ \E x : task' = [task EXCEPT ![t].awaited = x]
         \/ \E x : task' = [task EXCEPT ![t].entered = TRUE, ![t].id = x]
         \/ task' = [task EXCEPT ![t].status = "DONE"]
         \/ task' = [task EXCEPT ![t].status = "DONE", ![t].id = 0]
         \/ task' = [task EXCEPT ![t].status = "RUNNING"]
  PROVE  Going
<1>1. CASE task' = task
  BY <1>1 DEF Going, WasAt
<1>2. CASE t \notin DOMAIN task
  <2>1. task' = task
    <3>1. task \in [DOMAIN task -> ToSet(task)]
      BY DEF TasksInv, IsSequence
    <3> QED BY <1>2, <3>1
  <2> QED BY <1>1, <2>1
<1>3. CASE t \in DOMAIN task
  <2>1. IsTask(task[t])
    BY <1>3 DEF TasksInv
  <2>2. CASE task' = [task EXCEPT ![t].fired = TRUE]
    <3> DEFINE r == [task[t] EXCEPT !.fired = TRUE]
    <3>1. task' = [task EXCEPT ![t] = r] /\ r.pc = task[t].pc /\ r.result = task[t].result
      BY <2>1, <2>2 DEF IsTask
    <3> QED BY <3>1, GoingOn, Zenon
  <2>3. CASE \E x : task' = [task EXCEPT ![t].awaited = x]
    <3>1. PICK x : task' = [task EXCEPT ![t].awaited = x]
      BY <2>3
    <3> DEFINE r == [task[t] EXCEPT !.awaited = x]
    <3>2. task' = [task EXCEPT ![t] = r] /\ r.pc = task[t].pc /\ r.result = task[t].result
      BY <2>1, <3>1 DEF IsTask
    <3> QED BY <3>2, GoingOn, Zenon
  <2>4. CASE \E x : task' = [task EXCEPT ![t].entered = TRUE, ![t].id = x]
    <3>1. PICK x : task' = [task EXCEPT ![t].entered = TRUE, ![t].id = x]
      BY <2>4
    <3> DEFINE r == [task[t] EXCEPT !.entered = TRUE, !.id = x]
    <3>2. task' = [task EXCEPT ![t] = r] /\ r.pc = task[t].pc /\ r.result = task[t].result
      BY <2>1, <3>1 DEF IsTask
    <3> QED BY <3>2, GoingOn, Zenon
  <2>5. CASE task' = [task EXCEPT ![t].status = "DONE"]
    <3> DEFINE r == [task[t] EXCEPT !.status = "DONE"]
    <3>1. task' = [task EXCEPT ![t] = r] /\ r.pc = task[t].pc /\ r.result = task[t].result
      BY <2>1, <2>5 DEF IsTask
    <3> QED BY <3>1, GoingOn, Zenon
  <2>6. CASE task' = [task EXCEPT ![t].status = "DONE", ![t].id = 0]
    <3> DEFINE r == [task[t] EXCEPT !.status = "DONE", !.id = 0]
    <3>1. task' = [task EXCEPT ![t] = r] /\ r.pc = task[t].pc /\ r.result = task[t].result
      BY <2>1, <2>6 DEF IsTask
    <3> QED BY <3>1, GoingOn, Zenon
  <2>7. CASE task' = [task EXCEPT ![t].status = "RUNNING"]
    <3> DEFINE r == [task[t] EXCEPT !.status = "RUNNING"]
    <3>1. task' = [task EXCEPT ![t] = r] /\ r.pc = task[t].pc /\ r.result = task[t].result
      BY <2>1, <2>7 DEF IsTask
    <3> QED BY <3>1, GoingOn, Zenon
  <2> QED BY <1>1, <2>2, <2>3, <2>4, <2>5, <2>6, <2>7
<1> QED BY <1>2, <1>3

\* unblock_all changes no results.
LEMMA UnblockGoes ==
  ASSUME TasksInv, unblock_all
  PROVE  Going
<1>1. DOMAIN task' = DOMAIN task
  BY DEF unblock_all
<1>2. ASSUME NEW u \in DOMAIN task PROVE WasAt(u) /\ task'[u].result = task[u].result
  <2>1. IsTask(task[u])
    BY DEF TasksInv
  <2>2. task'[u] = task[u] \/ task'[u] = [task[u] EXCEPT !.awaited = "set"]
    BY DEF unblock_all
  <2> QED BY <2>1, <2>2 DEF IsTask, WasAt
<1> QED BY <1>1, <1>2 DEF Going

\* A new task has no result.
LEMMA NewGoes ==
  ASSUME TasksInv, NEW name, NewTask(name)
  PROVE  Going
<1>1. /\ DOMAIN task' = DOMAIN task \cup {Len(task) + 1}
      /\ \A t \in DOMAIN task : task'[t] = task[t]
      /\ task'[Len(task) + 1] = Created(name)
  BY SequenceAppend DEF NewTask, TasksInv
<1>2. Created(name).entered = FALSE
  BY DEF Created
<1> QED BY <1>1, <1>2 DEF Going, WasAt

\* The running task leaves its operation.
LEMMA LeaveGoes ==
  ASSUME Inv, running # 0, NEW outcome, Leave(outcome)
  PROVE  Going
<1>1. running \in DOMAIN task /\ IsTask(task[running])
  BY RunningThread
<1> PICK r : r = [task[running] EXCEPT !.pc = @ + 1, !.entered = FALSE, !.awaited = "none",
                                       !.id = 0, !.fired = FALSE, !.result = "none"]
  OBVIOUS
<1>2. r.entered = FALSE
  BY <1>1 DEF IsTask
<1>3. task' = [task EXCEPT ![running] = r]
  BY Zenon DEF Leave
<1> QED BY <1>2, <1>3, GoingOn, Zenon

\* The code goes on, whatever it does.
LEMMA CodeGoes ==
  ASSUME Inv, RunCode
  PROVE  Going
<1>0. TasksInv
  BY DEF Inv
<1>1. CASE StartHandle
  BY <1>0, <1>1, FieldGoes, Zenon DEF StartHandle
<1>2. CASE schedule_activity_task \/ schedule_timer \/ EnterAwait
  <2>1. \E id : Enter(id)
    BY <1>2, Zenon DEF schedule_activity_task, schedule_timer, EnterAwait, create_timer
  <2> QED BY <1>0, <2>1, FieldGoes, Zenon DEF Enter
<1>3. CASE FutureDone \/ AwaitReturns \/ get_version \/ SetFlag
  <2>1. running # 0 /\ \E outcome : Leave(outcome)
    BY <1>3, Zenon DEF FutureDone, AwaitReturns, get_version, SetFlag, Runs
  <2> QED BY <2>1, LeaveGoes
<1>4. CASE FutureFailed \/ AwaitRaises
  <2>1. task' = [task EXCEPT ![running].status = "DONE", ![running].id = 0]
    BY <1>4, Zenon DEF FutureFailed, AwaitRaises, CodeRaises
  <2> QED BY <1>0, <2>1, FieldGoes, Zenon
<1>5. CASE AwaitBlocks \/ MainReturns \/ SignalReturns \/ UnknownSignal \/ QueryReturns
  <2>1. \/ task' = [task EXCEPT ![running].awaited = "pending"]
        \/ task' = [task EXCEPT ![running].status = "DONE"]
    BY <1>5, Zenon DEF AwaitBlocks, MainReturns, SignalReturns, UnknownSignal, QueryReturns, Returns
  <2> QED BY <1>0, <2>1, FieldGoes, Zenon
<1> QED BY <1>1, <1>2, <1>3, <1>4, <1>5, Zenon DEF RunCode


\* The entries that are awaited were there, under the same name.
NamesStay(ds, es) ==
  \A k \in DOMAIN es : es[k].machine.target \in {"ACTIVITY", "TIMER"} =>
    \E l \in DOMAIN ds : /\ ds[l].machine.target = es[k].machine.target
                         /\ ds[l].id = es[k].id /\ ds[l].name = es[k].name

\* What is named stays so.
LEMMA NamedStays ==
  ASSUME NEW ds, NEW es, NamesStay(ds, es), NEW target \in {"ACTIVITY", "TIMER"}, NEW id, NEW place,
         Named(ds, target, id, place)
  PROVE  Named(es, target, id, place)
BY Zenon DEF Named, NamesStay

\* Nothing changes.
LEMMA SameNames ==
  ASSUME NEW ds
  PROVE  NamesStay(ds, ds)
BY Zenon DEF NamesStay

\* A machine changes.
LEMMA MachineNames ==
  ASSUME NEW ds, IsDecisions(ds), NEW k, NEW n,
         k \in DOMAIN ds => Legal(n) /\ n.target = ds[k].machine.target
  PROVE  NamesStay(ds, [ds EXCEPT ![k].machine = n])
<1> DEFINE e == [ds[k] EXCEPT !.machine = n]
           es == [ds EXCEPT ![k] = e]
<1>1. [ds EXCEPT ![k].machine = n] = es
  OBVIOUS
<1>2. k \in DOMAIN ds => e.machine = n /\ e.name = ds[k].name /\ e.id = ds[k].id
  <2> SUFFICES ASSUME k \in DOMAIN ds PROVE e.machine = n /\ e.name = ds[k].name /\ e.id = ds[k].id
    OBVIOUS
  <2>1. IsEntry(ds[k])
    BY DEF IsDecisions
  <2> QED BY <2>1, MachineReplaced
<1>3. DOMAIN es = DOMAIN ds /\ (k \in DOMAIN ds => es[k] = e) /\ \A i \in DOMAIN ds : i # k => es[i] = ds[i]
  OBVIOUS
<1> HIDE DEF e, es
<1>4. NamesStay(ds, es)
  BY <1>2, <1>3, Zenon DEF NamesStay
<1> QED BY <1>1, <1>4

\* The handler of an event names nothing.
LEMMA UpdateNames ==
  ASSUME Inv, NEW types, types \subseteq MachineEvents, AtEvent(types), UpdateMachine
  PROVE  NamesStay(decisions, decisions')
<1>1. IsDecisions(decisions) /\ history[at].type \in MachineEvents /\ Exception = ""
  BY DEF Inv, AtEvent, UpdateMachine
<1>2. PICK k, m, n : k = Addressed /\ m = decisions[k].machine /\ n = Handled(m)
  OBVIOUS
<1>3. k \in DOMAIN decisions /\ Legal(n) /\ n.target = m.target
  BY <1>1, <1>2, EventHandled, Zenon
<1>4. decisions' = [decisions EXCEPT ![k].machine = n]
  <2>1. decisions' = [decisions EXCEPT ![Addressed].machine = Handled(@)]
    BY DEF UpdateMachine
  <2>2. decisions' = [decisions EXCEPT ![k].machine = Handled(@)]
    BY <1>2, <2>1, Zenon
  <2> QED BY <1>2, <2>2
<1>5. NamesStay(decisions, [decisions EXCEPT ![k].machine = n])
  BY <1>1, <1>2, <1>3, MachineNames, Zenon
<1> QED BY <1>4, <1>5, Zenon

\* The cancelation of a timer names nothing.
LEMMA CancelNames ==
  ASSUME IsDecisions(decisions), NEW id, cancel_timer(id)
  PROVE  NamesStay(decisions, decisions')
<1>1. PICK k, m : k = IndexOf(decisions, "TIMER", id) /\ m = decisions[k].machine
  OBVIOUS
<1>2. IF is_done(m) THEN UNCHANGED <<decisions, scheduled_timers, next_decision_event_id>>
      ELSE /\ decisions' = [decisions EXCEPT ![k].machine = cancel(m)]
           /\ timer_cancelled(id)
           /\ next_decision_event_id' = next_decision_event_id + IdsToCancel(m)
  BY <1>1, Zenon DEF cancel_timer
<1>3. CASE ~is_done(m)
  <2>1. PICK n : n = cancel(m)
    OBVIOUS
  <2>2. ASSUME k \in DOMAIN decisions PROVE Legal(n) /\ n.target = m.target
    <3>1. DOMAIN decisions = 1..Len(decisions) /\ Len(decisions) \in Nat
      BY SequenceIs DEF IsDecisions
    <3>2. k # 0
      BY <2>2, <3>1
    <3>3. m.target = "TIMER"
      BY <1>1, <3>2, IndexIs DEF IsDecisions
    <3>4. Legal(m)
      BY <1>1, <2>2 DEF IsDecisions, IsEntry
    <3> QED BY <1>3, <2>1, <3>3, <3>4, CancelLegal
  <2>3. decisions' = [decisions EXCEPT ![k].machine = n]
    BY <1>2, <1>3, <2>1
  <2>4. NamesStay(decisions, [decisions EXCEPT ![k].machine = n])
    BY <1>1, <2>2, MachineNames, Zenon
  <2> QED BY <2>3, <2>4, Zenon
<1>4. CASE is_done(m)
  <2>1. decisions' = decisions
    BY <1>2, <1>4, Zenon
  <2> QED BY <2>1, SameNames, Zenon
<1> QED BY <1>3, <1>4

\* A decision is added that nobody waits for.
LEMMA AddNames ==
  ASSUME IsDecisions(decisions), NEW e, add_decision(e), e.machine.target \notin {"ACTIVITY", "TIMER"}
  PROVE  NamesStay(decisions, decisions')
<1>1. PICK k : /\ k \in DOMAIN decisions' /\ decisions'[k] = e
               /\ DOMAIN decisions' = DOMAIN decisions \cup {k}
               /\ \A i \in DOMAIN decisions : i # k => decisions'[i] = decisions[i]
  BY AddedIs, Zenon
<1>2. \A i \in DOMAIN decisions' : i # k => i \in DOMAIN decisions /\ decisions'[i] = decisions[i]
  BY <1>1
<1> QED BY <1>1, <1>2, Zenon DEF NamesStay

\* A decision is added that has a name.
LEMMA AddNamed ==
  ASSUME IsDecisions(decisions), IsDecisions(decisions'), NEW e, add_decision(e)
  PROVE  /\ Named(decisions', e.machine.target, e.id, e.name)
         /\ \A target, id, place : /\ Named(decisions, target, id, place)
                                   /\ target # e.machine.target \/ id # e.id
                                   => Named(decisions', target, id, place)
<1>1. PICK k : /\ k \in DOMAIN decisions' /\ decisions'[k] = e
               /\ DOMAIN decisions' = DOMAIN decisions \cup {k}
               /\ \A i \in DOMAIN decisions : i # k => decisions'[i] = decisions[i]
  BY AddedIs, Zenon
<1>2. \A i \in DOMAIN decisions' : i # k => i \in DOMAIN decisions /\ decisions'[i] = decisions[i]
  BY <1>1
<1>3. Named(decisions', e.machine.target, e.id, e.name)
  BY <1>1, Zenon DEF Named, IsDecisions
<1>4. ASSUME NEW target, NEW id, NEW place, Named(decisions, target, id, place),
             target # e.machine.target \/ id # e.id
      PROVE  Named(decisions', target, id, place)
  BY <1>1, <1>2, <1>4, Zenon DEF Named
<1> QED BY <1>3, <1>4

\* notify_decision_sent leaves the names.
LEMMA NotifyNames ==
  ASSUME IsDecisions(decisions), notify_decision_sent
  PROVE  NamesStay(decisions, decisions')
<1>1. DOMAIN decisions' = DOMAIN decisions
  BY DEF notify_decision_sent
<1>2. ASSUME NEW k \in DOMAIN decisions
      PROVE  /\ decisions'[k].machine.target = decisions[k].machine.target
             /\ decisions'[k].id = decisions[k].id /\ decisions'[k].name = decisions[k].name
  <2> DEFINE e == decisions[k]
             n == handle_decision_task_started_event(e.machine)
  <2>1. decisions'[k] = IF Sends(e) THEN [e EXCEPT !.machine = n] ELSE e
    BY DEF notify_decision_sent
  <2>2. IsEntry(e)
    BY DEF IsDecisions
  <2>3. Legal(n) /\ n.target = e.machine.target
    BY <2>2, SentLegal DEF IsEntry
  <2> HIDE DEF n, e
  <2>4. [e EXCEPT !.machine = n].machine = n /\ [e EXCEPT !.machine = n].id = e.id
        /\ [e EXCEPT !.machine = n].name = e.name
    BY <2>2, <2>3, MachineReplaced
  <2>5. decisions'[k].machine.target = e.machine.target /\ decisions'[k].id = e.id /\ decisions'[k].name = e.name
    BY <2>1, <2>3, <2>4
  <2> QED BY <2>5 DEF e
<1> QED BY <1>1, <1>2, Zenon DEF NamesStay

\* An event names nothing.
LEMMA EventNames ==
  ASSUME Inv, ProcessEvent
  PROVE  NamesStay(decisions, decisions')
<1>1. IsDecisions(decisions)
  BY DEF Inv
<1>2. CASE \/ SkipEvent \/ handle_workflow_execution_started \/ handle_workflow_execution_signaled
           \/ handle_marker_recorded \/ EventRaises \/ NoEventHandler
  <2>1. decisions' = decisions
    BY <1>2, Zenon DEF SkipEvent, handle_workflow_execution_started, handle_workflow_execution_signaled,
                       handle_marker_recorded, EventRaises, NoEventHandler, Raise, deciderVars
  <2> QED BY <2>1, SameNames, Zenon
<1>3. CASE handle_workflow_execution_cancel_requested
  <2>1. PICK e : e = Entry("SELF", 0, 0, "CancelWorkflowExecution")
    OBVIOUS
  <2>2. add_decision(e)
    BY <1>3, <2>1, Zenon DEF handle_workflow_execution_cancel_requested, close_workflow_execution
  <2>3. e.machine.target \notin {"ACTIVITY", "TIMER"}
    BY <2>1, TargetIs
  <2> QED BY <1>1, <2>2, <2>3, AddNames
<1>4. CASE handle_initiated \/ handle_activity_closed \/ handle_timer_fired \/ handle_timer_canceled
  <2>1. /\ {"ActivityTaskScheduled", "ActivityTaskStarted", "TimerStarted", "CancelTimerFailed"} \subseteq MachineEvents
        /\ ActivityClosed \subseteq MachineEvents /\ {"TimerFired"} \subseteq MachineEvents
        /\ {"TimerCanceled"} \subseteq MachineEvents
    BY DEF MachineEvents
  <2>2. \E types : types \subseteq MachineEvents /\ AtEvent(types) /\ UpdateMachine
    BY <1>4, <2>1, Zenon DEF handle_initiated, handle_activity_closed, handle_timer_fired, handle_timer_canceled
  <2> QED BY <2>2, UpdateNames
<1> QED BY <1>2, <1>3, <1>4, Zenon DEF ProcessEvent


\* Those in an operation are where they were.
Staying == \A t \in DOMAIN task' : task'[t].entered => WasAt(t)

\* Who waits by a dict, but for new ones, waits where it did, and so does what it waits for.
LEMMA DictNamed ==
  ASSUME NEW target, NEW old, NEW new, NEW X, Staying,
         \A id \in DOMAIN old : Named(decisions, target, id, PlaceOf(old[id])),
         \A id \in DOMAIN new : id \notin X => id \in DOMAIN old /\ new[id] = old[id],
         \A id \in DOMAIN new : new[id] \in DOMAIN task' /\ task'[new[id]].entered,
         \A id, place : id \notin X /\ Named(decisions, target, id, place) => Named(decisions', target, id, place)
  PROVE  \A id \in DOMAIN new : id \notin X => Named(decisions', target, id, <<new[id], task'[new[id]].pc>>)
<1> SUFFICES ASSUME NEW id \in DOMAIN new, id \notin X
             PROVE  Named(decisions', target, id, <<new[id], task'[new[id]].pc>>)
  OBVIOUS
<1>1. PICK t : t = new[id]
  OBVIOUS
<1>2. id \in DOMAIN old /\ old[id] = t /\ WasAt(t)
  BY <1>1 DEF Staying
<1>3. PlaceOf(t) = <<t, task'[t].pc>>
  BY <1>2 DEF WasAt, PlaceOf
<1>4. Named(decisions, target, id, PlaceOf(t))
  BY <1>2
<1> QED BY <1>1, <1>3, <1>4

\* Who waits is in an operation.
LEMMA WaitersEntered ==
  ASSUME Inv'
  PROVE  /\ \A id \in DOMAIN scheduled_activities' :
              /\ scheduled_activities'[id] \in DOMAIN task'
              /\ task'[scheduled_activities'[id]].entered
         /\ \A id \in DOMAIN scheduled_timers' :
              /\ scheduled_timers'[id] \in DOMAIN task'
              /\ task'[scheduled_timers'[id]].entered
BY DEF Inv, PendingInv, HoldsActivity, HoldsTimer, WaitsFor

Fewer(old, new) == \A id \in DOMAIN new : id \in DOMAIN old /\ new[id] = old[id]

\* After one is taken out.
LEMMA FewerWithout ==
  ASSUME NEW dict, NEW id
  PROVE  Fewer(dict, Pop(dict, id))
BY PopIs, Zenon DEF Fewer

\* No one else waits.
LEMMA WaitersStay ==
  ASSUME Inv', WaitersNamed, Staying, NamesStay(decisions, decisions'),
         Fewer(scheduled_activities, scheduled_activities'), Fewer(scheduled_timers, scheduled_timers')
  PROVE  WaitersNamed'
<1>1. \A target \in {"ACTIVITY", "TIMER"} : \A id, place :
        Named(decisions, target, id, place) => Named(decisions', target, id, place)
  BY NamedStays
<1>2. \A id \in DOMAIN scheduled_activities' :
        Named(decisions', "ACTIVITY", id, <<scheduled_activities'[id], task'[scheduled_activities'[id]].pc>>)
  <2> DEFINE X == {}
  <2>1. \A id, place : id \notin X /\ Named(decisions, "ACTIVITY", id, place) => Named(decisions', "ACTIVITY", id, place)
    BY <1>1
  <2>2. \A id \in DOMAIN scheduled_activities' : id \notin X =>
          id \in DOMAIN scheduled_activities /\ scheduled_activities'[id] = scheduled_activities[id]
    BY DEF Fewer
  <2>3. \A id : id \notin X
    OBVIOUS
  <2> HIDE DEF X
  <2>4. \A id \in DOMAIN scheduled_activities' : id \notin X =>
          Named(decisions', "ACTIVITY", id, <<scheduled_activities'[id], task'[scheduled_activities'[id]].pc>>)
    BY <2>1, <2>2, DictNamed, WaitersEntered, Zenon DEF WaitersNamed
  <2> QED BY <2>3, <2>4
<1>3. \A id \in DOMAIN scheduled_timers' :
        Named(decisions', "TIMER", id, <<scheduled_timers'[id], task'[scheduled_timers'[id]].pc>>)
  <2> DEFINE X == {}
  <2>1. \A id, place : id \notin X /\ Named(decisions, "TIMER", id, place) => Named(decisions', "TIMER", id, place)
    BY <1>1
  <2>2. \A id \in DOMAIN scheduled_timers' : id \notin X =>
          id \in DOMAIN scheduled_timers /\ scheduled_timers'[id] = scheduled_timers[id]
    BY DEF Fewer
  <2>3. \A id : id \notin X
    OBVIOUS
  <2> HIDE DEF X
  <2>4. \A id \in DOMAIN scheduled_timers' : id \notin X =>
          Named(decisions', "TIMER", id, <<scheduled_timers'[id], task'[scheduled_timers'[id]].pc>>)
    BY <2>1, <2>2, DictNamed, WaitersEntered, Zenon DEF WaitersNamed
  <2> QED BY <2>3, <2>4
<1> QED BY <1>2, <1>3, Zenon DEF WaitersNamed, PlaceOf

\* Those in a dict when there are no fewer.
LEMMA SameDict ==
  ASSUME NEW dict
  PROVE  Fewer(dict, dict)
BY DEF Fewer

\* The running task comes to wait for an activity.
LEMMA ScheduleNamed ==
  ASSUME Inv, Inv', WaitersNamed, Staying, schedule_activity_task
  PROVE  WaitersNamed'
<1>1. PICK id, t, e : /\ id = next_decision_event_id /\ t = running
                      /\ e = Entry("ACTIVITY", next_decision_event_id, id_counter, Place)
  OBVIOUS
<1>2. /\ add_decision(e) /\ scheduled_activities' = With(scheduled_activities, id, t)
      /\ scheduled_timers' = scheduled_timers
      /\ IsDecisions(decisions) /\ IsDecisions(decisions')
  BY <1>1, Zenon DEF schedule_activity_task, Inv
<1>3. e.machine.target = "ACTIVITY" /\ e.name = Place /\ e.id = id
  BY <1>1 DEF Entry, NewMachine
<1>4. /\ Named(decisions', "ACTIVITY", id, Place)
      /\ \A target, i, place : /\ Named(decisions, target, i, place)
                               /\ target # "ACTIVITY" \/ i # id
                               => Named(decisions', target, i, place)
  BY <1>2, <1>3, AddNamed
<1>5. /\ id \in DOMAIN scheduled_activities' /\ scheduled_activities'[id] = t
      /\ \A i \in DOMAIN scheduled_activities' : i # id =>
           i \in DOMAIN scheduled_activities /\ scheduled_activities'[i] = scheduled_activities[i]
  BY <1>2, WithIs
<1>6. ASSUME NEW i \in DOMAIN scheduled_activities'
      PROVE  Named(decisions', "ACTIVITY", i, <<scheduled_activities'[i], task'[scheduled_activities'[i]].pc>>)
  <2>1. CASE i # id
    <3> DEFINE X == {id}
    <3>1. \A j, place : j \notin X /\ Named(decisions, "ACTIVITY", j, place) => Named(decisions', "ACTIVITY", j, place)
      BY <1>4
    <3>2. \A j \in DOMAIN scheduled_activities' : j \notin X =>
            j \in DOMAIN scheduled_activities /\ scheduled_activities'[j] = scheduled_activities[j]
      BY <1>5
    <3>3. i \notin X
      BY <2>1
    <3> HIDE DEF X
    <3> QED BY <3>1, <3>2, <3>3, DictNamed, WaitersEntered, Zenon DEF WaitersNamed
  <2>2. CASE i = id
    <3>1. WasAt(t)
      BY <1>5, WaitersEntered DEF Staying
    <3>2. <<t, task'[t].pc>> = Place
      BY <1>1, <3>1 DEF WasAt, Place
    <3> QED BY <1>4, <1>5, <2>2, <3>2
  <2> QED BY <2>1, <2>2
<1>7. \A i \in DOMAIN scheduled_timers' :
        Named(decisions', "TIMER", i, <<scheduled_timers'[i], task'[scheduled_timers'[i]].pc>>)
  <2> DEFINE X == {}
  <2>0. "TIMER" # "ACTIVITY"
    OBVIOUS
  <2>1. \A j, place : j \notin X /\ Named(decisions, "TIMER", j, place) => Named(decisions', "TIMER", j, place)
    BY <1>4, <2>0, Zenon
  <2>2. \A j \in DOMAIN scheduled_timers' : j \notin X =>
          j \in DOMAIN scheduled_timers /\ scheduled_timers'[j] = scheduled_timers[j]
    BY <1>2
  <2>3. \A j : j \notin X
    OBVIOUS
  <2> HIDE DEF X
  <2> QED BY <2>1, <2>2, <2>3, DictNamed, WaitersEntered, Zenon DEF WaitersNamed
<1> QED BY <1>6, <1>7, Zenon DEF WaitersNamed, PlaceOf

\* The running task comes to wait for a timer.
LEMMA TimerNamed ==
  ASSUME Inv, Inv', WaitersNamed, Staying, create_timer
  PROVE  WaitersNamed'
<1>1. PICK id, t, e : /\ id = next_decision_event_id /\ t = running
                      /\ e = Entry("TIMER", next_decision_event_id, id_counter, Place)
  OBVIOUS
<1>2. /\ add_decision(e) /\ scheduled_timers' = With(scheduled_timers, id, t)
      /\ scheduled_activities' = scheduled_activities
      /\ IsDecisions(decisions) /\ IsDecisions(decisions')
  BY <1>1, Zenon DEF create_timer, Inv
<1>3. e.machine.target = "TIMER" /\ e.name = Place /\ e.id = id
  BY <1>1 DEF Entry, NewMachine
<1>4. /\ Named(decisions', "TIMER", id, Place)
      /\ \A target, i, place : /\ Named(decisions, target, i, place)
                               /\ target # "TIMER" \/ i # id
                               => Named(decisions', target, i, place)
  BY <1>2, <1>3, AddNamed
<1>5. /\ id \in DOMAIN scheduled_timers' /\ scheduled_timers'[id] = t
      /\ \A i \in DOMAIN scheduled_timers' : i # id =>
           i \in DOMAIN scheduled_timers /\ scheduled_timers'[i] = scheduled_timers[i]
  BY <1>2, WithIs
<1>6. ASSUME NEW i \in DOMAIN scheduled_timers'
      PROVE  Named(decisions', "TIMER", i, <<scheduled_timers'[i], task'[scheduled_timers'[i]].pc>>)
  <2>1. CASE i # id
    <3> DEFINE X == {id}
    <3>1. \A j, place : j \notin X /\ Named(decisions, "TIMER", j, place) => Named(decisions', "TIMER", j, place)
      BY <1>4
    <3>2. \A j \in DOMAIN scheduled_timers' : j \notin X =>
            j \in DOMAIN scheduled_timers /\ scheduled_timers'[j] = scheduled_timers[j]
      BY <1>5
    <3>3. i \notin X
      BY <2>1
    <3> HIDE DEF X
    <3> QED BY <3>1, <3>2, <3>3, DictNamed, WaitersEntered, Zenon DEF WaitersNamed
  <2>2. CASE i = id
    <3>1. WasAt(t)
      BY <1>5, WaitersEntered DEF Staying
    <3>2. <<t, task'[t].pc>> = Place
      BY <1>1, <3>1 DEF WasAt, Place
    <3> QED BY <1>4, <1>5, <2>2, <3>2
  <2> QED BY <2>1, <2>2
<1>7. \A i \in DOMAIN scheduled_activities' :
        Named(decisions', "ACTIVITY", i, <<scheduled_activities'[i], task'[scheduled_activities'[i]].pc>>)
  <2> DEFINE X == {}
  <2>0. "TIMER" # "ACTIVITY"
    OBVIOUS
  <2>1. \A j, place : j \notin X /\ Named(decisions, "ACTIVITY", j, place) => Named(decisions', "ACTIVITY", j, place)
    BY <1>4, <2>0, Zenon
  <2>2. \A j \in DOMAIN scheduled_activities' : j \notin X =>
          j \in DOMAIN scheduled_activities /\ scheduled_activities'[j] = scheduled_activities[j]
    BY <1>2
  <2>3. \A j : j \notin X
    OBVIOUS
  <2> HIDE DEF X
  <2> QED BY <2>1, <2>2, <2>3, DictNamed, WaitersEntered, Zenon DEF WaitersNamed
<1> QED BY <1>6, <1>7, Zenon DEF WaitersNamed, PlaceOf

\* The code waits where it asked.
LEMMA CodeNames ==
  ASSUME Inv, Inv', WaitersNamed, Staying, RunCode
  PROVE  WaitersNamed'
<1>0. IsDecisions(decisions)
  BY DEF Inv
<1>1. CASE UNCHANGED <<scheduled_activities, scheduled_timers>> /\ NamesStay(decisions, decisions')
  BY <1>1, SameDict, WaitersStay, Zenon
<1>2. ASSUME NEW target \in {"SELF", "MARKER"}, NEW id, NEW key, NEW name,
             add_decision(Entry(target, id, key, name))
      PROVE  NamesStay(decisions, decisions')
  <2>1. PICK e : e = Entry(target, id, key, name)
    OBVIOUS
  <2>2. add_decision(e) /\ e.machine.target = target
    BY <1>2, <2>1, TargetIs
  <2>3. e.machine.target \notin {"ACTIVITY", "TIMER"}
    BY <2>2
  <2> QED BY <1>0, <2>2, <2>3, AddNames
<1>3. CASE StartHandle \/ FutureDone \/ AwaitBlocks \/ SetFlag \/ SignalReturns \/ UnknownSignal \/ QueryReturns
  <2>1. UNCHANGED <<decisions, scheduled_activities, scheduled_timers>>
    BY <1>3, Zenon DEF StartHandle, FutureDone, AwaitBlocks, SetFlag, SignalReturns, UnknownSignal,
                       QueryReturns, deciderVars
  <2> QED BY <1>1, <2>1, SameNames, Zenon
<1>4. CASE schedule_activity_task
  BY <1>4, ScheduleNamed
<1>5. CASE schedule_timer \/ EnterAwait
  <2>1. create_timer \/ UNCHANGED <<decisions, scheduled_activities, scheduled_timers>>
    BY <1>5, Zenon DEF EnterAwait, schedule_timer, deciderVars
  <2> QED BY <1>1, <2>1, SameNames, TimerNamed, Zenon
<1>6. CASE FutureFailed \/ AwaitRaises \/ MainReturns
  <2>1. UNCHANGED decisions \/ \E type : close_workflow_execution(type)
    BY <1>6, Zenon DEF FutureFailed, AwaitRaises, MainReturns, CodeRaises
  <2>2. \A type : close_workflow_execution(type) => add_decision(Entry("SELF", 0, 0, type))
    BY Zenon DEF close_workflow_execution
  <2>3. UNCHANGED <<scheduled_activities, scheduled_timers>>
    BY <1>6, Zenon DEF FutureFailed, AwaitRaises, MainReturns, CodeRaises
  <2> QED BY <1>1, <1>2, <2>1, <2>2, <2>3, SameNames
<1>7. CASE AwaitReturns
  <2>1. UNCHANGED <<decisions, scheduled_timers>> \/ cancel_timer(task[running].id)
    BY <1>7, Zenon DEF AwaitReturns
  <2>2. scheduled_activities' = scheduled_activities
    BY <1>7, Zenon DEF AwaitReturns
  <2>3. NamesStay(decisions, decisions')
    BY <1>0, <2>1, SameNames, CancelNames
  <2>4. Fewer(scheduled_timers, scheduled_timers')
    <3>1. CASE scheduled_timers' = scheduled_timers
      BY <3>1, SameDict
    <3>2. CASE scheduled_timers' = Pop(scheduled_timers, task[running].id)
      <4>1. PICK id : id = task[running].id
        OBVIOUS
      <4>2. scheduled_timers' = Pop(scheduled_timers, id)
        BY <3>2, <4>1
      <4> QED BY <4>2, FewerWithout, Zenon
    <3>3. scheduled_timers' = scheduled_timers \/ scheduled_timers' = Pop(scheduled_timers, task[running].id)
      BY <2>1, Zenon DEF cancel_timer, timer_cancelled
    <3> QED BY <3>1, <3>2, <3>3
  <2>5. Fewer(scheduled_activities, scheduled_activities')
    BY <2>2, SameDict
  <2> QED BY <2>3, <2>4, <2>5, WaitersStay
<1>8. CASE get_version
  <2>1. UNCHANGED decisions \/ \E change, data : record_mutable_marker(change, data)
    BY <1>8, Zenon DEF get_version
  <2>2. \A change, data : record_mutable_marker(change, data) =>
          add_decision(Entry("MARKER", next_decision_event_id, data, change))
    BY Zenon DEF record_mutable_marker
  <2>3. UNCHANGED <<scheduled_activities, scheduled_timers>>
    BY <1>8, Zenon DEF get_version
  <2> QED BY <1>1, <1>2, <2>1, <2>2, <2>3, SameNames
<1> QED BY <1>3, <1>4, <1>5, <1>6, <1>7, <1>8, Zenon DEF RunCode
=============================================================================
