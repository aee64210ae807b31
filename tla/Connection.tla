----------------------------- MODULE Connection -----------------------------
(***************************************************************************)
(* Calls over TChannel connections: TChannelConnection.call_function, and  *)
(* read_or_eof under it.  A call writes its request and then reads until   *)
(* an answer is complete.  It compares no ids: whatever comes first is     *)
(* taken for the answer.  Frames are left to Fragments: an answer is one   *)
(* element of the stream here, which is read whole or breaks off.          *)
(*                                                                         *)
(* What requests and answers mean is for the modules that extend this one. *)
(***************************************************************************)
EXTENDS Sequences

CONSTANTS
  Conn,      \* the connections, each used by one thread
  Request,   \* what is asked
  Answer,    \* what the service may answer, error frames included
  Harmless,  \* those requests that change nothing in the service
  NoRequest

ASSUME ConnectionAssumption == Harmless \subseteq Request /\ NoRequest \notin Request

VARIABLES
  status,  \* "open"; "deaf": read timed out, so Python refuses to read from it again;
           \* "gone": the peer has closed it; "closed": nothing gets through
  asked,   \* the request whose answer call_function waits for
  reading, \* whether read_or_eof has left the loop that calls next_timeout_cb
  sent,    \* the requests the service has not yet acted on
  stream   \* the answers that are not yet read

connVars == <<status, asked, reading, sent, stream>>

\* A request or an answer is late when its call has been given up.
SentRequest == [conn : Conn, request : Request, late : BOOLEAN]
Arrived == [request : Request, answer : Answer, late : BOOLEAN]

ConnInit ==
  /\ status = [c \in Conn |-> "open"]
  /\ asked = [c \in Conn |-> NoRequest]
  /\ reading = [c \in Conn |-> FALSE]
  /\ sent = {}
  /\ stream = [c \in Conn |-> <<>>]

-----------------------------------------------------------------------------
(* The caller *)

Idle(c) == asked[c] = NoRequest

\* Writing goes on after a read has timed out.
Writable(c) == status[c] \in {"open", "deaf"}

\* With a callback set, read_or_eof waits for the first byte as long as it takes.
Call(c, request, has_cb) ==
  /\ Idle(c)
  /\ Writable(c)
  /\ asked' = [asked EXCEPT ![c] = request]
  /\ reading' = [reading EXCEPT ![c] = ~has_cb]
  /\ sent' = sent \cup {[conn |-> c, request |-> request, late |-> FALSE]}
  /\ UNCHANGED <<status, stream>>

\* The frames cannot be written: the call raises and nothing has happened.
CannotWrite(c) == Idle(c) /\ ~Writable(c)

\* The first byte of an answer has come; the callback is forgotten.
FirstByte(c) ==
  /\ ~Idle(c)
  /\ ~reading[c]
  /\ stream[c] # <<>>
  /\ reading' = [reading EXCEPT ![c] = TRUE]
  /\ UNCHANGED <<status, asked, sent, stream>>

\* What has come is still read when the peer has gone.
Readable(c) == status[c] \in {"open", "gone"} /\ stream[c] # <<>>

\* The answer that a call is about to take for its own.
NextAnswer(c) == Head(stream[c])

Return(c) ==
  /\ ~Idle(c)
  /\ reading[c]
  /\ Readable(c)
  /\ stream' = [stream EXCEPT ![c] = Tail(@)]
  /\ asked' = [asked EXCEPT ![c] = NoRequest]
  /\ UNCHANGED <<status, reading, sent>>

\* From now on the answer to the call, if one still comes, is late.  A harmless request
\* that is late is forgotten: nobody can tell whether the service still acts on it.
GivenUp(c) ==
  /\ asked' = [asked EXCEPT ![c] = NoRequest]
  /\ sent' = {IF s.conn = c THEN [s EXCEPT !.late = TRUE] ELSE s :
                s \in {x \in sent : x.conn = c => x.request \notin Harmless}}
  /\ stream' = [stream EXCEPT ![c] = [i \in DOMAIN @ |-> [@[i] EXCEPT !.late = TRUE]]]
  /\ UNCHANGED reading

\* Mutant: one can go on reading after a timeout.
AfterTimeout_open == "open"

AfterTimeout == "deaf"

\* The socket's timeout, before or in the middle of an answer.
TimesOut(c) ==
  /\ ~Idle(c)
  /\ reading[c]
  /\ status[c] = "open"
  /\ status' = [status EXCEPT ![c] = AfterTimeout]
  /\ GivenUp(c)

\* "cannot read from timed out object".
RefusesToRead(c) ==
  /\ ~Idle(c)
  /\ status[c] = "deaf"
  /\ GivenUp(c)
  /\ UNCHANGED status

\* The stream ends where an answer is expected, or within it.
EndOfStream(c) ==
  /\ ~Idle(c)
  /\ status[c] \in {"gone", "closed"}
  /\ GivenUp(c)
  /\ status' = [status EXCEPT ![c] = "closed"]

\* Every way in which call_function raises because of its connection.
Raises(c) == TimesOut(c) \/ RefusesToRead(c) \/ EndOfStream(c)

close(c) ==
  /\ Idle(c)
  /\ status' = [status EXCEPT ![c] = "closed"]
  /\ UNCHANGED <<asked, reading, sent, stream>>

\* The caller's process dies.
Dies(c) ==
  /\ status' = [status EXCEPT ![c] = "closed"]
  /\ GivenUp(c)

-----------------------------------------------------------------------------
(* The network and the service *)

\* The service acts on a request once, and answers on the same connection.  What
\* arrives on a deaf connection is never read.
Serve(s, answer) ==
  /\ s \in sent
  /\ sent' = sent \ {s}
  /\ stream' = [stream EXCEPT ![s.conn] =
                  IF status[s.conn] = "open"
                  THEN Append(@, [request |-> s.request, answer |-> answer, late |-> s.late])
                  ELSE @]
  /\ UNCHANGED <<status, asked, reading>>

\* The peer goes away: what was sent may be lost, and so may what was answered.
Breaks(c) ==
  /\ Writable(c)
  /\ status' = [status EXCEPT ![c] = IF @ = "open" THEN "gone" ELSE "closed"]
  /\ sent' \in {sent, {s \in sent : s.conn # c}}
  /\ stream' \in {stream, [stream EXCEPT ![c] = <<>>]}
  /\ UNCHANGED <<asked, reading>>

ConnNext ==
  \/ \E c \in Conn :
       \/ \E request \in Request, has_cb \in BOOLEAN : Call(c, request, has_cb)
       \/ FirstByte(c)
       \/ Return(c)
       \/ Raises(c)
       \/ close(c)
       \/ Dies(c)
       \/ Breaks(c)
  \/ \E s \in sent, answer \in Answer : Serve(s, answer)

ConnSpec == ConnInit /\ [][ConnNext]_connVars

-----------------------------------------------------------------------------
(* Properties *)

ConnTypeOK ==
  /\ status \in [Conn -> {"open", "deaf", "gone", "closed"}]
  /\ asked \in [Conn -> Request \cup {NoRequest}]
  /\ reading \in [Conn -> BOOLEAN]
  /\ sent \subseteq SentRequest
  /\ stream \in [Conn -> Seq(Arrived)]

\* A call that returns gives the answer to its own request and not to an earlier one, not
\* even the same request made before and given up, although nobody compares ids
\* (connection.py:353).
OwnAnswer ==
  \A c \in Conn :
    ~Idle(c) /\ Readable(c) => NextAnswer(c).request = asked[c] /\ ~NextAnswer(c).late
=============================================================================
