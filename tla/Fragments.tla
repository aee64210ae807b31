------------------------------ MODULE Fragments -----------------------------
(***************************************************************************)
(* How the three arguments of a call or of its response are cut into       *)
(* frames and put together again: FragmentGenerator and FragmentReader,    *)
(* with call_function's loop, over one stream that many messages use.      *)
(***************************************************************************)
EXTENDS Integers, Sequences

CONSTANTS
  MaxFrame,     \* the most bytes a frame may have (0xFFFF)
  InitialSize,  \* the bytes of a first frame without arguments
  ContinueSize, \* the bytes of a further frame without arguments
  Message       \* the messages: <<length of arg1, of arg2, of arg3>>

\* Each frame has room for some byte of an argument.
ASSUME FrameAssumption ==
  /\ MaxFrame \in Nat
  /\ InitialSize \in Nat \ {0} /\ InitialSize + 2 < MaxFrame
  /\ ContinueSize \in Nat \ {0} /\ ContinueSize + 2 < MaxFrame
  /\ Message \subseteq Nat \X Nat \X Nat

VARIABLES
  message,  \* the message under way
  phase,    \* "build" or "read"
  args,     \* build_frames: what is left of the arguments
  frame,    \* the frame that is filled or read
  stream,   \* the frames that are built and not yet read
  reader    \* FragmentReader.args

vars == <<message, phase, args, frame, stream, reader>>

\* Byte i of argument k.
Argument(m, k) == [i \in 1..m[k] |-> <<k, i>>]
Arguments(m) == [k \in 1..3 |-> Argument(m, k)]

NoFrame == [size |-> 0, args |-> <<>>, more |-> FALSE]
NewReader == [k \in 1..3 |-> [value |-> <<>>, complete |-> FALSE]]

Init ==
  /\ message \in Message
  /\ phase = "build"
  /\ args = Arguments(message)
  /\ frame = NoFrame
  /\ stream = <<>>
  /\ reader = NewReader

-----------------------------------------------------------------------------
(* FragmentGenerator.build_frames *)

space_available(size) == MaxFrame - size

\* Frame cannot fit any more arguments.
is_frame_boundary(size) == 3 >= space_available(size)

\* The bytes an argument may have besides its length.
Avail == space_available(frame.size) - 2

get_initial_frame ==
  /\ phase = "build"
  /\ frame = NoFrame
  /\ args # <<>>
  /\ frame' = [NoFrame EXCEPT !.size = IF stream = <<>> THEN InitialSize ELSE ContinueSize]
  /\ UNCHANGED <<message, phase, args, stream, reader>>

\* What is left of the arguments when rest is left of the first one and the frame
\* has this size.
Remaining(rest, size) ==
  IF rest = <<>> /\ ~(Len(args) > 1 /\ is_frame_boundary(size))
  THEN Tail(args)
  ELSE <<rest>> \o Tail(args)

\* Mutant: the two bytes of the length are forgotten.
Written_too_much == IF space_available(frame.size) >= Len(Head(args)) THEN Len(Head(args)) ELSE Avail

\* How many bytes of the first argument this frame takes.
Written == IF Avail >= Len(Head(args)) THEN Len(Head(args)) ELSE Avail

append_arg ==
  /\ phase = "build"
  /\ frame # NoFrame
  /\ args # <<>>
  /\ Avail > 0
  /\ LET buf == SubSeq(Head(args), 1, Written)
         size == frame.size + 2 + Written
     IN  /\ frame' = [frame EXCEPT !.size = size, !.args = Append(@, buf)]
         /\ args' = Remaining(SubSeq(Head(args), Written + 1, Len(Head(args))), size)
  /\ UNCHANGED <<message, phase, stream, reader>>

append_frame ==
  /\ phase = "build"
  /\ frame # NoFrame
  /\ args = <<>> \/ Avail <= 0
  /\ stream' = Append(stream, [frame EXCEPT !.more = args # <<>>])
  /\ frame' = NoFrame
  /\ UNCHANGED <<message, phase, args, reader>>

write_frames ==
  /\ phase = "build"
  /\ frame = NoFrame
  /\ args = <<>>
  /\ phase' = "read"
  /\ UNCHANGED <<message, args, frame, stream, reader>>

-----------------------------------------------------------------------------
(* FragmentReader.process_frame, and the loop of call_function *)

is_complete == \A k \in 1..3 : reader[k].complete

get_incomplete_arg ==
  CHOOSE k \in 1..3 : ~reader[k].complete /\ \A j \in 1..(k - 1) : reader[j].complete

read_frame ==
  /\ phase = "read"
  /\ frame.args = <<>>
  /\ ~is_complete
  /\ stream # <<>>
  /\ frame' = Head(stream)
  /\ stream' = Tail(stream)
  /\ UNCHANGED <<message, phase, args, reader>>

\* Mutant: nobody looks whether more fragments follow.
Ends_always == TRUE

\* The first argument that is left in this frame ends here.
Ends == ~frame.more \/ Len(frame.args) > 1

\* Mutant: each fragment replaces the one before.
Received_last(k) == Head(frame.args)

Received(k) == reader[k].value \o Head(frame.args)

process_arg ==
  /\ phase = "read"
  /\ frame.args # <<>>
  /\ ~is_complete
  /\ LET k == get_incomplete_arg
     IN  reader' = [reader EXCEPT ![k] = [value |-> Received(k), complete |-> Ends]]
  /\ frame' = [frame EXCEPT !.args = Tail(@)]
  /\ UNCHANGED <<message, phase, args, stream>>

\* The message is complete; what is left of its last frame is dropped.  The next
\* one uses the same stream.
NextMessage ==
  /\ phase = "read"
  /\ is_complete
  /\ message' \in Message
  /\ phase' = "build"
  /\ args' = Arguments(message')
  /\ frame' = NoFrame
  /\ reader' = NewReader
  /\ UNCHANGED stream

Next ==
  \/ get_initial_frame
  \/ append_arg
  \/ append_frame
  \/ write_frames
  \/ read_frame
  \/ process_arg
  \/ NextMessage

Spec == Init /\ [][Next]_vars

-----------------------------------------------------------------------------
(* Properties *)

Bytes == Seq((1..3) \X Nat)
FrameType == [size : 0..MaxFrame, args : Seq(Bytes), more : BOOLEAN]

\* Among the types: no frame is longer than the two bytes of its length can say
\* (frames.py:93).
TypeOK ==
  /\ message \in Message
  /\ phase \in {"build", "read"}
  /\ args \in Seq(Bytes)
  /\ frame \in FrameType
  /\ stream \in Seq(FrameType)
  /\ reader \in [1..3 -> [value : Bytes, complete : BOOLEAN]]

\* The reader takes the message's last frame before it is complete: nothing is left
\* for the next call on this connection to mistake for its own answer
\* (connection.py:352).  Like the next property it is false of messages whose first or
\* second argument ends three bytes before the end of a frame.
NothingLeft == phase = "read" /\ is_complete => stream = <<>> /\ frame.args = <<>>

\* The arguments come back as they were sent, whether an argument ends at a frame's
\* boundary or not (connection.py:52), and at whatever distance from it, except one: when
\* the first or second argument leaves three bytes of its frame, the code takes this for
\* a boundary (frames.py:107) and yet writes the empty argument into the same frame as
\* well as into the next one, and the later arguments shift.  The run and the theorem
\* leave such messages out.
Reassembles ==
  phase = "read" /\ is_complete => \A k \in 1..3 : reader[k].value = Argument(message, k)
=============================================================================
