-------------------------- MODULE ConnectionProofs --------------------------
(***************************************************************************)
(* Proofs about Connection, for any number of connections and whatever is  *)
(* asked and answered on them; and about the names in Registration, for    *)
(* those who ask for something by name.                                    *)
(***************************************************************************)
EXTENDS Connection, Registration, TLAPS, SequenceTheorems, WellFoundedInduction

\* A connection is in use by one call at most: as long as answers can be read from it,
\* what the service has not acted on and what is not yet read belongs to that call.
OneCall(c) ==
  /\ status[c] = "open" =>
       \A s \in sent : s.conn = c => s.request = asked[c] /\ ~s.late /\ stream[c] = <<>>
  /\ status[c] \in {"open", "gone"} /\ stream[c] # <<>> /\ ~Idle(c) =>
       Len(stream[c]) = 1 /\ stream[c][1].request = asked[c] /\ ~stream[c][1].late
  /\ status[c] = "open" /\ Idle(c) => stream[c] = <<>>

ConnInv == ConnTypeOK /\ \A c \in Conn : OneCall(c)

\* Connections start with nothing under way.
LEMMA InitInv == ConnInit => ConnInv
  BY DEF ConnInit, ConnInv, ConnTypeOK, OneCall, SentRequest, Arrived

-----------------------------------------------------------------------------
(* Steps *)

\* What is given up leaves types as they are.
LEMMA GivenUpType == ASSUME ConnTypeOK, NEW c \in Conn, GivenUp(c)
                     PROVE  /\ asked' \in [Conn -> Request \cup {NoRequest}]
                            /\ reading' \in [Conn -> BOOLEAN]
                            /\ sent' \subseteq SentRequest
                            /\ stream' \in [Conn -> Seq(Arrived)]
<1>1. \A s \in SentRequest : [s EXCEPT !.late = TRUE] \in SentRequest
  BY DEF SentRequest
<1>2. sent' \subseteq SentRequest
  BY <1>1 DEF GivenUp, ConnTypeOK
<1>3. \A a \in Arrived : [a EXCEPT !.late = TRUE] \in Arrived
  BY DEF Arrived
<1>4. [i \in DOMAIN stream[c] |-> [stream[c][i] EXCEPT !.late = TRUE]] \in Seq(Arrived)
  BY <1>3 DEF ConnTypeOK
<1>5. stream' \in [Conn -> Seq(Arrived)]
  BY <1>4 DEF GivenUp, ConnTypeOK
<1> QED
  BY <1>2, <1>5 DEF GivenUp, ConnTypeOK

\* What is given up on a connection is no matter of any other.
LEMMA GivenUpOthers == ASSUME ConnInv, NEW c \in Conn, GivenUp(c), NEW d \in Conn, d # c,
                              status'[d] = status[d]
                       PROVE  OneCall(d)'
<1>1. asked'[d] = asked[d] /\ stream'[d] = stream[d]
  BY DEF GivenUp, ConnInv, ConnTypeOK
<1>2. \A s \in SentRequest : [s EXCEPT !.late = TRUE].conn = s.conn
  BY DEF SentRequest
<1>3. \A s \in sent' : s.conn = d => s \in sent
  BY <1>2 DEF GivenUp, ConnInv, ConnTypeOK
<1> QED
  BY <1>1, <1>3 DEF ConnInv, OneCall, Idle

\* A connection from which nothing can be read any more owes no answer.
LEMMA Unreadable == ASSUME NEW c \in Conn, status'[c] \in {"deaf", "closed"}
                    PROVE  OneCall(c)'
  BY DEF OneCall

\* Whatever ends a call without an answer leaves its connection unreadable.
LEMMA GivenUpInv == ASSUME ConnInv, NEW c \in Conn, GivenUp(c),
                           NEW to \in {"deaf", "closed"}, status' = [status EXCEPT ![c] = to]
                    PROVE  ConnInv'
<1>1. ConnTypeOK'
  BY GivenUpType DEF ConnInv, ConnTypeOK
<1>2. ASSUME NEW d \in Conn PROVE OneCall(d)'
  <2>1. CASE d = c
    BY <2>1, Unreadable DEF ConnInv, ConnTypeOK
  <2>2. CASE d # c
    BY <2>2, GivenUpOthers DEF ConnInv, ConnTypeOK
  <2> QED
    BY <2>1, <2>2
<1> QED
  BY <1>1, <1>2 DEF ConnInv

\* A step that changes one connection and what is sent on it keeps the invariant if it
\* does for this connection.
LEMMA OnlyOne == ASSUME ConnInv, NEW c \in Conn, ConnTypeOK', OneCall(c)',
                        \A d \in Conn \ {c} : /\ status'[d] = status[d]
                                              /\ asked'[d] = asked[d]
                                              /\ stream'[d] = stream[d],
                        \A s \in sent' : s \in sent \/ s.conn = c
                 PROVE  ConnInv'
<1>1. ASSUME NEW d \in Conn \ {c} PROVE OneCall(d)'
  BY DEF ConnInv, OneCall, Idle
<1> QED
  BY <1>1 DEF ConnInv

\* A call finds its connection free and occupies it.
LEMMA CallInv == ASSUME ConnInv, NEW c \in Conn, NEW request \in Request,
                        NEW has_cb \in BOOLEAN, Call(c, request, has_cb)
                 PROVE  ConnInv'
<1> DEFINE asks == [conn |-> c, request |-> request, late |-> FALSE]
<1>0. asks \in SentRequest /\ asks.conn = c /\ sent' = sent \cup {asks}
  BY DEF Call, SentRequest
<1>1. ConnTypeOK'
  <2>1. sent' \subseteq SentRequest
    BY <1>0 DEF ConnInv, ConnTypeOK
  <2>2. (~has_cb) \in BOOLEAN
    <3>1. \A b : (~b) \in BOOLEAN
      BY Zenon
    <3> QED
      BY <3>1, Zenon
  <2>3. reading' \in [Conn -> BOOLEAN]
    BY <2>2 DEF Call, ConnInv, ConnTypeOK
  <2> QED
    BY <2>1, <2>3 DEF Call, ConnInv, ConnTypeOK
<1>2. OneCall(c)'
  <2>1. status[c] = "open" => \A s \in sent : s.conn # c
    BY ConnectionAssumption DEF Call, Idle, ConnInv, ConnTypeOK, OneCall, SentRequest
  <2>2. status[c] = "open" => stream[c] = <<>>
    BY DEF Call, Idle, ConnInv, OneCall
  <2>3. status[c] \in {"open", "deaf"}
    BY DEF Call, Writable
  <2> QED
    BY <2>1, <2>2, <2>3 DEF Call, ConnInv, ConnTypeOK, OneCall
<1>3. \A t \in sent' : t \in sent \/ t.conn = c
  BY <1>0
<1>4. \A d \in Conn \ {c} : /\ status'[d] = status[d]
                            /\ asked'[d] = asked[d]
                            /\ stream'[d] = stream[d]
  BY DEF Call, ConnInv, ConnTypeOK
<1> QED
  BY <1>1, <1>2, <1>3, <1>4, OnlyOne

\* A call that returns leaves nothing to read behind.
LEMMA ReturnInv == ASSUME ConnInv, NEW c \in Conn, Return(c)
                   PROVE  ConnInv'
<1>1. ConnTypeOK'
  BY DEF Return, Readable, ConnInv, ConnTypeOK
<1>2. OneCall(c)'
  <2>1. stream'[c] = <<>>
    BY DEF Return, Readable, ConnInv, ConnTypeOK, OneCall
  <2>2. status[c] = "open" => \A s \in sent : s.conn # c
    BY DEF Return, Readable, ConnInv, ConnTypeOK, OneCall
  <2> QED
    BY <2>1, <2>2 DEF Return, OneCall
<1> QED
  BY <1>1, <1>2, OnlyOne DEF Return, ConnInv, ConnTypeOK

\* The service answers the one call that waits.
LEMMA ServeInv == ASSUME ConnInv, NEW s \in sent, NEW answer \in Answer, Serve(s, answer)
                  PROVE  ConnInv'
<1> DEFINE c == s.conn
<1>1. s \in SentRequest /\ c \in Conn
  BY DEF ConnInv, ConnTypeOK, SentRequest
<1> DEFINE a == [request |-> s.request, answer |-> answer, late |-> s.late]
<1>2. ConnTypeOK'
  <2>1. a \in Arrived
    BY <1>1 DEF SentRequest, Arrived
  <2>2. Append(stream[c], a) \in Seq(Arrived)
    BY <1>1, <2>1 DEF ConnInv, ConnTypeOK
  <2>3. stream' \in [Conn -> Seq(Arrived)]
    BY <1>1, <2>2 DEF Serve, ConnInv, ConnTypeOK
  <2> QED
    BY <2>3 DEF Serve, ConnInv, ConnTypeOK
<1>3. CASE status[c] = "open"
  <2>1. s.request = asked[c] /\ ~s.late /\ stream[c] = <<>>
    BY <1>1, <1>3 DEF ConnInv, OneCall
  <2>2. \A t \in sent : t.conn = c => t.request = s.request /\ t.late = s.late
    BY <1>1, <1>3, <2>1 DEF ConnInv, ConnTypeOK, OneCall, SentRequest
  <2>3. \A t \in sent : t.conn = c => t = s
    <3>1. \A t \in SentRequest :
            t = [conn |-> t.conn, request |-> t.request, late |-> t.late]
      BY DEF SentRequest
    <3> QED
      BY <1>1, <2>2, <3>1 DEF ConnInv, ConnTypeOK
  <2>4. \A t \in sent' : t.conn # c
    BY <2>3 DEF Serve
  <2>5. stream'[c] = <<a>>
    BY <1>1, <1>3, <2>1 DEF Serve, ConnInv, ConnTypeOK
  <2>6. ~Idle(c)'
    BY <1>1, <2>1, ConnectionAssumption DEF Serve, Idle, SentRequest
  <2>7. OneCall(c)'
    BY <2>1, <2>4, <2>5, <2>6 DEF Serve, OneCall
  <2> QED
    BY <1>1, <1>2, <2>7, OnlyOne DEF Serve, ConnInv, ConnTypeOK
<1>4. CASE status[c] # "open"
  <2>1. stream' = stream
    BY <1>1, <1>4 DEF Serve, ConnInv, ConnTypeOK
  <2> QED
    BY <1>2, <2>1 DEF Serve, ConnInv, OneCall, Idle
<1> QED
  BY <1>3, <1>4

\* A peer that goes takes requests and answers along, or leaves them.
LEMMA BreaksInv == ASSUME ConnInv, NEW c \in Conn, Breaks(c)
                   PROVE  ConnInv'
<1>1. ConnTypeOK'
  <2>1. sent' \subseteq SentRequest
    BY DEF Breaks, ConnInv, ConnTypeOK
  <2>2. stream' \in [Conn -> Seq(Arrived)]
    <3>1. <<>> \in Seq(Arrived)
      OBVIOUS
    <3>2. [stream EXCEPT ![c] = <<>>] \in [Conn -> Seq(Arrived)]
      BY <3>1 DEF ConnInv, ConnTypeOK
    <3> QED
      BY <3>2 DEF Breaks, ConnInv, ConnTypeOK
  <2>3. status' \in [Conn -> {"open", "deaf", "gone", "closed"}]
    BY DEF Breaks, ConnInv, ConnTypeOK
  <2> QED
    BY <2>1, <2>2, <2>3 DEF Breaks, ConnInv, ConnTypeOK
<1>2. OneCall(c)'
  <2>1. status'[c] \in {"gone", "closed"}
    BY DEF Breaks, ConnInv, ConnTypeOK
  <2>2. CASE status[c] = "open"
    <3>1. stream'[c] # <<>> => stream'[c] = stream[c]
      BY DEF Breaks, ConnInv, ConnTypeOK
    <3> QED
      BY <2>1, <2>2, <3>1 DEF Breaks, ConnInv, OneCall, Idle
  <2>3. CASE status[c] = "deaf"
    BY <2>3, Unreadable DEF Breaks, ConnInv, ConnTypeOK
  <2> QED
    BY <2>2, <2>3 DEF Breaks, Writable
<1> QED
  BY <1>1, <1>2, OnlyOne DEF Breaks, ConnInv, ConnTypeOK

\* Every step keeps the invariant.
LEMMA NextInv == ConnInv /\ [ConnNext]_connVars => ConnInv'
<1> SUFFICES ASSUME ConnInv, [ConnNext]_connVars PROVE ConnInv'
  OBVIOUS
<1>1. ASSUME NEW c \in Conn, NEW request \in Request, NEW has_cb \in BOOLEAN,
             Call(c, request, has_cb)
      PROVE  ConnInv'
  BY <1>1, CallInv
<1>2. ASSUME NEW c \in Conn, FirstByte(c) PROVE ConnInv'
  <2>1. ConnTypeOK'
    BY <1>2 DEF FirstByte, ConnInv, ConnTypeOK
  <2> QED
    BY <1>2, <2>1 DEF FirstByte, ConnInv, OneCall, Idle
<1>3. ASSUME NEW c \in Conn, Return(c) PROVE ConnInv'
  BY <1>3, ReturnInv
<1>4. ASSUME NEW c \in Conn, Raises(c) PROVE ConnInv'
  <2>1. CASE TimesOut(c)
    BY <2>1, GivenUpInv DEF TimesOut, AfterTimeout
  <2>2. CASE RefusesToRead(c)
    BY <2>2, GivenUpInv DEF RefusesToRead, ConnInv, ConnTypeOK
  <2>3. CASE EndOfStream(c)
    BY <2>3, GivenUpInv DEF EndOfStream
  <2> QED
    BY <1>4, <2>1, <2>2, <2>3 DEF Raises
<1>5. ASSUME NEW c \in Conn, close(c) PROVE ConnInv'
  <2>1. ConnTypeOK' /\ OneCall(c)'
    BY <1>5, Unreadable DEF close, ConnInv, ConnTypeOK
  <2> QED
    BY <1>5, <2>1, OnlyOne DEF close, ConnInv, ConnTypeOK
<1>6. ASSUME NEW c \in Conn, Dies(c) PROVE ConnInv'
  BY <1>6, GivenUpInv DEF Dies
<1>7. ASSUME NEW c \in Conn, Breaks(c) PROVE ConnInv'
  BY <1>7, BreaksInv
<1>8. ASSUME NEW s \in sent, NEW answer \in Answer, Serve(s, answer) PROVE ConnInv'
  BY <1>8, ServeInv
<1>9. CASE UNCHANGED connVars
  <2>1. ConnTypeOK'
    BY <1>9 DEF connVars, ConnInv, ConnTypeOK
  <2> QED
    BY <1>9, <2>1 DEF connVars, ConnInv, OneCall, Idle
<1> QED
  BY <1>1, <1>2, <1>3, <1>4, <1>5, <1>6, <1>7, <1>8, <1>9 DEF ConnNext

-----------------------------------------------------------------------------
(* What is under way *)

\* No request is new, and none is there twice.
NoNewRequests ==
  \A s, x \in sent' :
    \E r, q \in sent : r.request = s.request /\ q.request = x.request /\ (r = q => s = x)

\* The answers of a connection are among these.
AnswersIn(c, answers) ==
  \A i \in DOMAIN stream[c] : <<stream[c][i].request, stream[c][i].answer>> \in answers

NoNewAnswers == \A c \in Conn : \A answers : AnswersIn(c, answers) => AnswersIn(c, answers)'

\* Whatever is given up, no answer and no request is new.
LEMMA GivenUpKeeps == ASSUME ConnTypeOK, NEW c \in Conn, GivenUp(c)
                      PROVE  NoNewRequests /\ NoNewAnswers
<1>1. NoNewRequests
  <2>1. \A r \in SentRequest : [r EXCEPT !.late = TRUE].request = r.request
    BY DEF SentRequest
  <2> DEFINE Image(r) == IF r.conn = c THEN [r EXCEPT !.late = TRUE] ELSE r
  <2>2. \A r \in sent : Image(r).request = r.request
    BY <2>1 DEF ConnTypeOK
  <2>3. \A s \in sent' : \E r \in sent : s = Image(r)
    BY DEF GivenUp
  <2> HIDE DEF Image
  <2>4. ASSUME NEW s \in sent', NEW x \in sent'
        PROVE  \E r, q \in sent : r.request = s.request /\ q.request = x.request /\ (r = q => s = x)
    <3>1. PICK r \in sent : s = Image(r)
      BY <2>3
    <3>2. PICK q \in sent : x = Image(q)
      BY <2>3
    <3> QED
      BY <2>2, <3>1, <3>2
  <2> QED
    BY <2>4 DEF NoNewRequests
<1>2. ASSUME NEW d \in Conn, NEW answers, AnswersIn(d, answers) PROVE AnswersIn(d, answers)'
  <2> DEFINE late == [i \in DOMAIN stream[c] |-> [stream[c][i] EXCEPT !.late = TRUE]]
  <2>1. stream' = [stream EXCEPT ![c] = late]
    BY DEF GivenUp
  <2>2. stream'[d] = IF d = c THEN late ELSE stream[d]
    BY <2>1 DEF ConnTypeOK
  <2>3. \A i \in DOMAIN stream[c] : stream[c][i] \in Arrived
    BY DEF ConnTypeOK
  <2>4. \A a \in Arrived : /\ [a EXCEPT !.late = TRUE].answer = a.answer
                           /\ [a EXCEPT !.late = TRUE].request = a.request
    BY DEF Arrived
  <2>5. DOMAIN stream'[d] = DOMAIN stream[d]
    BY <2>2
  <2>6. \A i \in DOMAIN stream[d] : /\ stream'[d][i].answer = stream[d][i].answer
                                    /\ stream'[d][i].request = stream[d][i].request
    BY <2>2, <2>3, <2>4
  <2> QED
    BY <1>2, <2>5, <2>6 DEF AnswersIn
<1> QED
  BY <1>1, <1>2 DEF NoNewAnswers

\* Of the steps on connections only a call brings a request, and only the service brings
\* an answer.
LEMMA ConnKeeps ==
  ASSUME ConnInv, NEW c \in Conn,
         \/ FirstByte(c)
         \/ Return(c)
         \/ Raises(c)
         \/ close(c)
         \/ Dies(c)
         \/ Breaks(c)
  PROVE  NoNewRequests /\ NoNewAnswers
<1>1. CASE UNCHANGED <<sent, stream>>
  BY <1>1 DEF NoNewRequests, NoNewAnswers, AnswersIn
<1>2. CASE Raises(c) \/ Dies(c)
  BY <1>2, GivenUpKeeps DEF Raises, TimesOut, RefusesToRead, EndOfStream, Dies, ConnInv
<1>3. CASE Return(c)
  <2>1. stream'[c] = <<>> /\ \A d \in Conn \ {c} : stream'[d] = stream[d]
    BY <1>3 DEF Return, Readable, ConnInv, ConnTypeOK, OneCall
  <2>2. NoNewAnswers
    BY <2>1 DEF NoNewAnswers, AnswersIn
  <2> QED
    BY <1>3, <2>2 DEF Return, NoNewRequests
<1>4. CASE Breaks(c)
  <2>1. \A d \in Conn : stream'[d] = stream[d] \/ stream'[d] = <<>>
    BY <1>4 DEF Breaks, ConnInv, ConnTypeOK
  <2>2. NoNewAnswers
    BY <2>1 DEF NoNewAnswers, AnswersIn
  <2>3. sent' \subseteq sent
    BY <1>4 DEF Breaks
  <2> QED
    BY <2>2, <2>3 DEF NoNewRequests
<1> QED
  BY <1>1, <1>2, <1>3, <1>4 DEF FirstByte, close

\* The service takes a request away, and what it brings is the answer.
LEMMA ServeKeeps ==
  ASSUME ConnTypeOK, NEW s \in sent, NEW answer, Serve(s, answer)
  PROVE  /\ s.conn \in Conn
         /\ sent' = sent \ {s}
         /\ \A c \in Conn \ {s.conn} : stream'[c] = stream[c]
         /\ \A answers : AnswersIn(s.conn, answers) =>
              AnswersIn(s.conn, answers \cup {<<s.request, answer>>})'
<1> DEFINE a == [request |-> s.request, answer |-> answer, late |-> s.late]
<1>1. s.conn \in Conn
  BY DEF ConnTypeOK, SentRequest
<1>2. \A c \in Conn \ {s.conn} : stream'[c] = stream[c]
  BY <1>1 DEF Serve, ConnTypeOK
<1>3. ASSUME NEW answers, AnswersIn(s.conn, answers)
      PROVE  AnswersIn(s.conn, answers \cup {<<s.request, answer>>})'
  <2>1. CASE stream'[s.conn] = stream[s.conn]
    BY <1>3, <2>1 DEF AnswersIn
  <2>2. CASE stream'[s.conn] = Append(stream[s.conn], a)
    <3>1. stream[s.conn] \in Seq(Arrived)
      BY <1>1 DEF ConnTypeOK
    <3>2. \A i \in DOMAIN stream'[s.conn] :
            IF i \in DOMAIN stream[s.conn] THEN stream'[s.conn][i] = stream[s.conn][i]
                                           ELSE stream'[s.conn][i] = a
      BY <2>2, <3>1
    <3>3. a.request = s.request /\ a.answer = answer
      OBVIOUS
    <3> HIDE DEF a
    <3> QED
      BY <1>3, <3>2, <3>3 DEF AnswersIn
  <2> QED
    BY <1>1, <2>1, <2>2 DEF Serve, ConnTypeOK
<1> QED
  BY <1>1, <1>2, <1>3 DEF Serve

-----------------------------------------------------------------------------
(* Theorems *)

\* The invariant holds on all connections, whatever requests and answers are.
LEMMA Invariant == ConnSpec => []ConnInv
  BY InitInv, NextInv, PTL DEF ConnSpec

\* Variables have their types, whatever requests and answers are.
THEOREM ConnTypeCorrect == ConnSpec => []ConnTypeOK
<1>1. ConnInv => ConnTypeOK
  BY DEF ConnInv
<1> QED
  BY <1>1, Invariant, PTL

\* Although call_function compares no ids, a call returns the answer to itself: after one
\* that has timed out nothing is read from its connection any more, and after one whose
\* stream has ended nothing is there to read.
THEOREM OwnAnswerHolds == ConnSpec => []OwnAnswer
<1>1. ConnInv => OwnAnswer
  BY DEF ConnInv, OneCall, OwnAnswer, Readable, NextAnswer, Idle
<1> QED
  BY <1>1, Invariant, PTL

-----------------------------------------------------------------------------
(* Names *)

\* A set of natural numbers that is not empty has a least element.
LEMMA LeastNumber ==
  ASSUME NEW T \in SUBSET Nat, T # {}
  PROVE  \E n \in T : \A m \in T : n <= m
<1> DEFINE R == OpToRel(<, Nat)
<1>1. IsWellFoundedOn(R, Nat)
  BY NatLessThanWellFounded
<1>2. PICK n \in T : \A m \in T : ~ (<<m, n>> \in R)
  <2> HIDE DEF R
  <2> QED BY <1>1, WFMin
<1>3. R = {pair \in Nat \X Nat : pair[1] < pair[2]}
  BY Zenon DEF OpToRel
<1>4. \A m \in Nat : m < n => <<m, n>> \in {pair \in Nat \X Nat : pair[1] < pair[2]}
  OBVIOUS
<1>5. \A m \in T : ~(m < n)
  <2> HIDE DEF R
  <2> QED BY <1>2, <1>3, <1>4, Zenon
<1>6. QED
  BY <1>5

\* The equation of the recursive function in FlattenSeq.
Flattens(seqs, flatten) ==
  flatten = [i \in 1..Len(seqs) |-> IF i = 1 THEN seqs[i] ELSE flatten[i - 1] \o seqs[i]]

\* A sequence of sequences of one element each.
Singletons(s) == [i \in DOMAIN s |-> <<s[i]>>]

\* Nothing but one function solves that equation.
LEMMA FlattensOnce ==
  ASSUME NEW seqs, Len(seqs) \in Nat, NEW f, NEW g, Flattens(seqs, f), Flattens(seqs, g)
  PROVE  f = g
<1> DEFINE n == Len(seqs)
<1> DEFINE Differ == {m \in 1..n : f[m] # g[m]}
<1>1. \A i \in 1..n : f[i] = IF i = 1 THEN seqs[i] ELSE f[i - 1] \o seqs[i]
  BY DEF Flattens
<1>2. \A i \in 1..n : g[i] = IF i = 1 THEN seqs[i] ELSE g[i - 1] \o seqs[i]
  BY DEF Flattens
<1>3. Differ = {}
  <2> SUFFICES ASSUME Differ # {} PROVE FALSE
    OBVIOUS
  <2>1. PICK m \in Differ : \A k \in Differ : m <= k
    <3> Differ \in SUBSET Nat
      OBVIOUS
    <3> HIDE DEF Differ
    <3> QED BY LeastNumber
  <2>2. m \in 1..n /\ f[m] # g[m]
    BY <2>1
  <2>3. m # 1
    BY <1>1, <1>2, <2>2
  <2>4. m - 1 \in 1..n /\ m - 1 \notin Differ
    BY <2>1, <2>2, <2>3
  <2> QED
    BY <1>1, <1>2, <2>2, <2>3, <2>4
<1>4. f = [i \in 1..n |-> f[i]] /\ g = [i \in 1..n |-> g[i]]
  BY Zenon DEF Flattens
<1>5. \A i \in 1..n : f[i] = g[i]
  BY <1>3
<1> QED
  BY <1>4, <1>5, Zenon

\* What FlattenSeq is, once the equation is solved.
LEMMA FlattenIs ==
  ASSUME NEW seqs, Len(seqs) \in Nat, Len(seqs) # 0, NEW g, Flattens(seqs, g)
  PROVE  FlattenSeq(seqs) = g[Len(seqs)]
<1> DEFINE f == CHOOSE f : Flattens(seqs, f)
<1>1. Flattens(seqs, f)
  BY Zenon
<1>2. FlattenSeq(seqs) = f[Len(seqs)]
  BY Zenon DEF FlattenSeq, Flattens
<1> HIDE DEF f
<1>3. f = g
  BY <1>1, FlattensOnce
<1> QED
  BY <1>2, <1>3

\* A single sequence is itself, flattened.
LEMMA FlattenOne == ASSUME NEW x PROVE FlattenSeq(<<x>>) = x
<1> DEFINE g == [i \in 1..1 |-> x]
           seqs == <<x>>
<1>1. Len(seqs) = 1 /\ seqs[1] = x /\ g[1] = x
  OBVIOUS
<1>2. Flattens(seqs, g)
  BY <1>1 DEF Flattens
<1> HIDE DEF g, seqs
<1>3. Len(seqs) \in Nat /\ Len(seqs) # 0
  BY <1>1
<1>4. FlattenSeq(seqs) = g[Len(seqs)]
  BY <1>2, <1>3, FlattenIs, Zenon
<1> QED
  BY <1>1, <1>4 DEF seqs

\* Single elements are flattened to their sequence.
LEMMA FlattenSingletons ==
  ASSUME NEW E, NEW s \in Seq(E)
  PROVE  FlattenSeq(Singletons(s)) = s
<1> DEFINE n == Len(s)
           seqs == Singletons(s)
           g == [i \in 1..n |-> [j \in 1..i |-> s[j]]]
<1>1. n \in Nat /\ DOMAIN s = 1..n
  OBVIOUS
<1>2. seqs = [i \in 1..n |-> <<s[i]>>]
  BY <1>1 DEF Singletons
<1>3. Len(seqs) = n
  BY <1>1, <1>2
<1>4. CASE n = 0
  <2>1. seqs = <<>> /\ s = <<>>
    BY <1>1, <1>2, <1>4
  <2> QED
    BY <1>3, <1>4, <2>1 DEF FlattenSeq
<1>5. CASE n # 0
  <2>1. ASSUME NEW i \in 1..n
        PROVE  g[i] = IF i = 1 THEN seqs[i] ELSE g[i - 1] \o seqs[i]
    <3>0. seqs[i] = <<s[i]>> /\ g[i] = [j \in 1..i |-> s[j]] /\ s[i] \in E
      BY <1>1, <1>2, <2>1
    <3>1. CASE i = 1
      <4>1. [j \in 1..1 |-> s[j]] = <<s[1]>>
        OBVIOUS
      <4> QED
        BY <3>0, <3>1, <4>1
    <3>2. CASE i # 1
      <4>1. i - 1 \in 1..n /\ g[i - 1] = [j \in 1..(i - 1) |-> s[j]]
        BY <1>1, <3>2
      <4> DEFINE front == [j \in 1..(i - 1) |-> s[j]]
      <4>2. front \in Seq(E) /\ Len(front) = i - 1
        BY <1>1, <4>1
      <4>3. front \o <<s[i]>> = [j \in 1..i |-> s[j]]
        <5>1. Len(front \o <<s[i]>>) = i
          BY <4>2, <3>0
        <5>2. \A j \in 1..i : (front \o <<s[i]>>)[j] = s[j]
          BY <4>2, <3>0
        <5>3. front \o <<s[i]>> \in Seq(E)
          BY <4>2, <3>0
        <5> HIDE DEF front
        <5> QED
          BY <5>1, <5>2, <5>3
      <4> QED
        BY <3>0, <3>2, <4>1, <4>3
    <3> QED
      BY <3>1, <3>2
  <2>2. Flattens(seqs, g)
    <3>1. \A i \in 1..n : g[i] = IF i = 1 THEN seqs[i] ELSE g[i - 1] \o seqs[i]
      BY <2>1
    <3>2. g = [i \in 1..n |-> g[i]]
      OBVIOUS
    <3> HIDE DEF g, seqs
    <3> QED
      BY <1>3, <3>1, <3>2 DEF Flattens
  <2>3. FlattenSeq(seqs) = g[n]
    <3> HIDE DEF g, seqs
    <3> QED
      BY <1>1, <1>3, <1>5, <2>2, FlattenIs
  <2>4. g[n] = s
    BY <1>1, <1>5
  <2> QED
    BY <2>3, <2>4
<1> QED
  BY <1>4, <1>5

\* A name that is these words in one of the two spellings.
SpelledBy(name, words) ==
  /\ words \in Seq(Range(words))
  /\ words # <<>>
  /\ name \in {Snake(words), Camel(words)}

\* From either spelling the library makes both, of the same words.
LEMMA BothSpelled ==
  ASSUME NEW name, NEW words, SpelledBy(name, words)
  PROVE  /\ Words(name) = words
         /\ camel_to_snake(name) = Snake(words)
         /\ snake_to_camel(name) = Camel(words)
<1> DEFINE n == Len(words)
           humps == Singletons(words)
<1>1. words \in Seq(Range(words)) /\ n \in Nat \ {0} /\ DOMAIN words = 1..n
  BY DEF SpelledBy
<1>2. humps = [i \in 1..n |-> <<words[i]>>] /\ humps \in Seq(Seq(Range(words)))
  BY <1>1 DEF Singletons
<1>3. FlattenSeq(humps) = words
  BY <1>1, FlattenSingletons
<1>4. Snake(words) = Singletons(humps)
  BY <1>1, <1>2 DEF Snake, Singletons
<1>5. Camel(words) = <<humps>>
  BY DEF Camel, Singletons
<1>6. DOMAIN humps = 1..n /\ \A i \in 1..n : humps[i] = <<words[i]>>
  BY <1>2
<1> HIDE DEF humps
<1>7. FlattenSeq(Snake(words)) = humps /\ FlattenSeq(Camel(words)) = humps
  BY <1>2, <1>4, <1>5, FlattenSingletons, FlattenOne
<1>8. name = Snake(words) \/ name = Camel(words)
  BY DEF SpelledBy
<1>9. FlattenSeq(name) = humps
  BY <1>7, <1>8
<1>10. camel_to_snake(name) = Snake(words)
  BY <1>4, <1>9 DEF camel_to_snake, Singletons
<1>11. snake_to_camel(name) = Camel(words)
  <2>1. CASE name = Camel(words)
    <3>1. Head(name) = humps /\ Len(name) = 1
      BY <1>5, <2>1
    <3>2. [i \in 1..(1 - 1) |-> FlattenSeq(name[i + 1])] = <<>>
      OBVIOUS
    <3>3. humps \o <<>> = humps
      BY <1>2
    <3> QED
      BY <1>5, <3>1, <3>2, <3>3 DEF snake_to_camel
  <2>2. CASE name = Snake(words)
    <3> DEFINE tail == [i \in 1..(n - 1) |-> FlattenSeq(name[i + 1])]
    <3>1. name = [i \in 1..n |-> << humps[i] >>]
      BY <1>4, <1>6, <2>2 DEF Singletons
    <3>2. Len(name) = n /\ Head(name) = << humps[1] >> /\ \A i \in 1..n : name[i] = << humps[i] >>
      BY <1>1, <3>1
    <3>3. ASSUME NEW i \in 1..(n - 1) PROVE FlattenSeq(name[i + 1]) = humps[i + 1]
      <4>1. i + 1 \in 1..n
        BY <1>1
      <4> QED
        BY <3>2, <4>1, FlattenOne
    <3>4. tail = [i \in 1..(n - 1) |-> humps[i + 1]]
      BY <3>3
    <3>5. tail \in Seq(Seq(Range(words))) /\ Len(tail) = n - 1
      <4>1. \A i \in 1..(n - 1) : humps[i + 1] \in Seq(Range(words))
        BY <1>1, <1>2, <1>6
      <4>2. n - 1 \in Nat
        BY <1>1
      <4>3. \A m \in Nat : \A f \in [1..m -> Seq(Range(words))] :
              f \in Seq(Seq(Range(words))) /\ Len(f) = m
        OBVIOUS
      <4>4. tail \in [1..(n - 1) -> Seq(Range(words))]
        BY <3>4, <4>1
      <4> HIDE DEF tail
      <4> QED
        BY <4>2, <4>3, <4>4
    <3>6. << humps[1] >> \in Seq(Seq(Range(words)))
      BY <1>1, <1>2, <1>6
    <3>7. << humps[1] >> \o tail = humps
      <4>0. \A i \in 1..(n - 1) : tail[i] = humps[i + 1]
        BY <3>4
      <4> HIDE DEF tail
      <4>1. Len(<< humps[1] >> \o tail) = n
        <5>1. Len(<< humps[1] >>) = 1
          OBVIOUS
        <5>2. Len(<< humps[1] >> \o tail) = 1 + (n - 1)
          BY <3>5, <3>6, <5>1
        <5>3. 1 + (n - 1) = n
          BY <1>1
        <5> QED
          BY <5>2, <5>3, Zenon
      <4>2. ASSUME NEW i \in 1..n PROVE (<< humps[1] >> \o tail)[i] = humps[i]
        <5>1. CASE i = 1
          BY <3>5, <3>6, <5>1
        <5>2. CASE i # 1
          <6>1. i - 1 \in 1..(n - 1) /\ (i - 1) + 1 = i
            BY <1>1, <5>2
          <6>2. (<< humps[1] >> \o tail)[i] = tail[i - 1]
            BY <1>1, <3>5, <3>6, <5>2
          <6> QED
            BY <4>0, <6>1, <6>2
        <5> QED
          BY <5>1, <5>2
      <4>3. << humps[1] >> \o tail \in Seq(Seq(Range(words)))
        BY <3>5, <3>6
      <4>4. Len(humps) = n
        BY <1>1, <1>2, <1>6
      <4> QED
        BY <1>2, <4>1, <4>2, <4>3, <4>4, SeqEqual
    <3> HIDE DEF tail
    <3>8. snake_to_camel(name) = << << humps[1] >> \o tail >>
      BY <3>2 DEF snake_to_camel, tail
    <3> QED
      BY <1>5, <3>7, <3>8
  <2> QED
    BY <1>8, <2>1, <2>2
<1>12. Words(name) = words
  BY <1>3, <1>9 DEF Words
<1> QED
  BY <1>10, <1>11, <1>12
=============================================================================
