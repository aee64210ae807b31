--------------------------- MODULE FragmentsProofs --------------------------
(***************************************************************************)
(* Proofs about Fragments, for any sizes and any messages.                 *)
(***************************************************************************)
EXTENDS Fragments, TLAPS, SequenceTheorems

\* What is written of an argument, and what is left of it, are bytes again.
LEMMA WrittenBytes ==
  ASSUME NEW buf \in Seq(Bytes), buf # <<>>, NEW n \in 0..Len(Head(buf))
  PROVE  /\ SubSeq(Head(buf), 1, n) \in Bytes
         /\ SubSeq(Head(buf), n + 1, Len(Head(buf))) \in Bytes
  BY DEF Bytes

\* A new message starts with three arguments and a reader that has read nothing.
LEMMA NewMessage ==
  ASSUME NEW m \in Message
  PROVE  Arguments(m) \in Seq(Bytes)
<1>1. /\ m[1] \in Nat
      /\ m[2] \in Nat
      /\ m[3] \in Nat
  BY FrameAssumption DEF FrameAssumption
<1>2. ASSUME NEW k \in 1..3 PROVE Argument(m, k) \in Bytes
  <2>1. m[k] \in Nat
    BY <1>1
  <2>2. QED
    BY <2>1 DEF Argument, Bytes
<1>3. QED
  BY <1>2 DEF Arguments

\* While it is not complete, the reader has an argument to read.
LEMMA IncompleteArg ==
  ASSUME TypeOK, ~is_complete
  PROVE  get_incomplete_arg \in 1..3
<1> DEFINE P(k) == ~reader[k].complete /\ \A j \in 1..(k - 1) : reader[j].complete
<1>1. \E k \in 1..3 : P(k)
  <2>1. CASE ~reader[1].complete
    BY <2>1
  <2>2. CASE reader[1].complete /\ ~reader[2].complete
    BY <2>2
  <2>3. CASE reader[1].complete /\ reader[2].complete /\ ~reader[3].complete
    BY <2>3
  <2>4. QED
    BY <2>1, <2>2, <2>3 DEF is_complete
<1>2. QED
  BY <1>1 DEF get_incomplete_arg

\* The initial states have their types.
LEMMA InitTypeOK == Init => TypeOK
  BY NewMessage, FrameAssumption
     DEF FrameAssumption, Init, TypeOK, NoFrame, NewReader, FrameType, Bytes

\* A step keeps the types.
LEMMA NextTypeOK == TypeOK /\ [Next]_vars => TypeOK'
<1> SUFFICES ASSUME TypeOK, [Next]_vars PROVE TypeOK'
  OBVIOUS
<1> USE DEF TypeOK
<1>1. CASE get_initial_frame
  <2>1. PICK size \in {InitialSize, ContinueSize} :
          frame' = [size |-> size, args |-> <<>>, more |-> FALSE]
    BY <1>1 DEF get_initial_frame, NoFrame
  <2>2. size \in 0..MaxFrame
    BY FrameAssumption DEF FrameAssumption
  <2>3. frame' \in FrameType
    BY <2>1, <2>2 DEF FrameType
  <2>4. QED
    BY <1>1, <2>3 DEF get_initial_frame
<1>2. CASE append_arg
  <2> DEFINE first == Head(args)
             buf == SubSeq(first, 1, Written)
             rest == SubSeq(first, Written + 1, Len(first))
             size == frame.size + 2 + Written
  <2>1. first \in Bytes /\ Len(first) \in Nat
    BY <1>2 DEF append_arg, Bytes
  <2>2. /\ frame.size \in 0..MaxFrame
        /\ frame.args \in Seq(Bytes)
    BY DEF FrameType
  <2>3. Avail = MaxFrame - frame.size - 2 /\ Avail > 0
    BY <1>2 DEF append_arg, Avail, space_available
  <2>4. /\ Written \in 0..Len(first)
        /\ frame.size + 2 + Written \in 0..MaxFrame
    <3> HIDE DEF first, TypeOK
    <3>1. Written = IF Avail >= Len(first) THEN Len(first) ELSE Avail
      BY DEF Written, first
    <3>2. MaxFrame \in Nat
      BY FrameAssumption DEF FrameAssumption
    <3>3. CASE Avail >= Len(first)
      BY <2>1, <2>3, <2>2, <3>1, <3>2, <3>3
    <3>4. CASE ~(Avail >= Len(first))
      BY <2>1, <2>3, <2>2, <3>1, <3>2, <3>4
    <3>5. QED
      BY <3>3, <3>4
  <2>5. buf \in Bytes /\ rest \in Bytes
    BY <1>2, <2>4, WrittenBytes DEF append_arg
  <2>6. frame' \in FrameType
    <3>1. frame' = [frame EXCEPT !.size = size, !.args = Append(@, buf)]
      BY <1>2 DEF append_arg
    <3>2. frame.args \in Seq(Bytes) /\ frame.more \in BOOLEAN
      BY DEF FrameType
    <3>3. Append(frame.args, buf) \in Seq(Bytes)
      BY <2>5, <3>2
    <3>4. frame' = [size |-> size, args |-> Append(frame.args, buf), more |-> frame.more]
      BY <3>1 DEF FrameType
    <3>5. QED
      BY <2>4, <3>2, <3>3, <3>4 DEF FrameType
  <2>7. args' \in Seq(Bytes)
    <3>1. args' = Remaining(rest, size)
      BY <1>2 DEF append_arg
    <3>2. Tail(args) \in Seq(Bytes)
      BY <1>2 DEF append_arg
    <3>3. QED
      BY <2>5, <3>1, <3>2 DEF Remaining
  <2>8. QED
    BY <1>2, <2>6, <2>7 DEF append_arg
<1>3. CASE append_frame
  <2>1. [frame EXCEPT !.more = args # <<>>] \in FrameType
    BY DEF FrameType
  <2>2. NoFrame \in FrameType
    BY FrameAssumption DEF FrameAssumption, NoFrame, FrameType
  <2>3. QED
    BY <1>3, <2>1, <2>2 DEF append_frame
<1>4. CASE write_frames
  BY <1>4 DEF write_frames
<1>5. CASE read_frame
  BY <1>5 DEF read_frame
<1>6. CASE process_arg
  <2> DEFINE k == get_incomplete_arg
  <2>1. k \in 1..3
    BY <1>6, IncompleteArg DEF process_arg
  <2>2. Head(frame.args) \in Bytes /\ Tail(frame.args) \in Seq(Bytes)
    BY <1>6 DEF process_arg, FrameType
  <2>3. Received(k) \in Bytes
    BY <2>1, <2>2 DEF Received, Bytes
  <2>4. Ends \in BOOLEAN
    BY DEF Ends, FrameType
  <2>5. reader' \in [1..3 -> [value : Bytes, complete : BOOLEAN]]
    BY <1>6, <2>1, <2>3, <2>4 DEF process_arg
  <2>6. frame' \in FrameType
    BY <1>6, <2>2 DEF process_arg, FrameType
  <2>7. QED
    BY <1>6, <2>5, <2>6 DEF process_arg
<1>7. CASE NextMessage
  BY <1>7, NewMessage, FrameAssumption DEF FrameAssumption, NextMessage, NoFrame, NewReader, FrameType, Bytes
<1>8. CASE UNCHANGED vars
  BY <1>8 DEF vars
<1>9. QED
  BY <1>1, <1>2, <1>3, <1>4, <1>5, <1>6, <1>7, <1>8 DEF Next

-----------------------------------------------------------------------------
(* Pieces of arguments *)

\* Bytes a + 1 to b of argument k.
Piece(k, a, b) == [x \in 1..(b - a) |-> <<k, a + x>>]

\* Pieces are sequences of bytes.
LEMMA PieceType ==
  ASSUME NEW k \in 1..3, NEW a \in Nat, NEW b \in Nat, a <= b
  PROVE  /\ Piece(k, a, b) \in Seq((1..3) \X Nat)
         /\ Len(Piece(k, a, b)) = b - a
         /\ \A x \in 1..(b - a) : Piece(k, a, b)[x] = <<k, a + x>>
<1>1. b - a \in Nat /\ \A x \in 1..(b - a) : <<k, a + x>> \in (1..3) \X Nat
  OBVIOUS
<1>2. \A n \in Nat : \A f \in [1..n -> (1..3) \X Nat] : f \in Seq((1..3) \X Nat) /\ Len(f) = n
  OBVIOUS
<1>3. Piece(k, a, b) \in [1..(b - a) -> (1..3) \X Nat]
  BY <1>1 DEF Piece
<1> QED
  BY <1>1, <1>2, <1>3 DEF Piece

\* There is nothing in a piece that ends where it starts, and something in any other.
LEMMA PieceEmpty ==
  ASSUME NEW k \in 1..3, NEW a \in Nat, NEW b \in Nat, a <= b
  PROVE  Piece(k, a, b) = <<>> <=> a = b
<1>1. Len(Piece(k, a, b)) = b - a /\ Piece(k, a, b) \in Seq((1..3) \X Nat)
  BY PieceType
<1>2. \A s \in Seq((1..3) \X Nat) : s = <<>> <=> Len(s) = 0
  OBVIOUS
<1> QED
  BY <1>1, <1>2

\* The front of a piece is a piece, and so is what is left of it.
LEMMA PieceCut ==
  ASSUME NEW k \in 1..3, NEW a \in Nat, NEW b \in Nat, a <= b, NEW w \in 0..(b - a)
  PROVE  /\ SubSeq(Piece(k, a, b), 1, w) = Piece(k, a, a + w)
         /\ SubSeq(Piece(k, a, b), w + 1, Len(Piece(k, a, b))) = Piece(k, a + w, b)
<1> DEFINE s == Piece(k, a, b)
           n == b - a
<1>1. s \in Seq((1..3) \X Nat) /\ Len(s) = n /\ \A x \in 1..n : s[x] = <<k, a + x>>
  BY PieceType
<1>2. n \in Nat /\ w \in Nat /\ a + w \in Nat /\ a <= a + w /\ a + w <= b
      /\ (a + w) - a = w /\ b - (a + w) = n - w
  OBVIOUS
<1> HIDE DEF s, n
<1>3. SubSeq(s, 1, w) = Piece(k, a, a + w)
  <2>1. SubSeq(s, 1, w) = [x \in 1..w |-> s[x]]
    BY <1>1, <1>2 DEF n
  <2>2. \A x \in 1..w : s[x] = <<k, a + x>>
    BY <1>1, <1>2 DEF n
  <2> QED
    BY <1>2, <2>1, <2>2 DEF Piece
<1>4. SubSeq(s, w + 1, n) = Piece(k, a + w, b)
  <2>1. SubSeq(s, w + 1, n) = [x \in 1..(n - w) |-> s[x + w]]
    BY <1>1, <1>2, w <= n DEF n
  <2>2. \A x \in 1..(n - w) : s[x + w] = <<k, (a + w) + x>>
    BY <1>1, <1>2 DEF n
  <2> QED
    BY <1>2, <2>1, <2>2 DEF Piece
<1> QED
  BY <1>1, <1>3, <1>4 DEF s

\* A piece from the start of an argument.
LEMMA PieceFromStart ==
  ASSUME NEW k \in 1..3, NEW b \in Nat
  PROVE  /\ Piece(k, 0, b) \in Seq((1..3) \X Nat)
         /\ Len(Piece(k, 0, b)) = b
         /\ \A x \in 1..b : Piece(k, 0, b)[x] = <<k, x>>
<1>1. 0 \in Nat /\ 0 <= b /\ b - 0 = b
  OBVIOUS
<1>2. /\ Piece(k, 0, b) \in Seq((1..3) \X Nat)
      /\ Len(Piece(k, 0, b)) = b - 0
      /\ \A x \in 1..(b - 0) : Piece(k, 0, b)[x] = <<k, 0 + x>>
  BY <1>1, PieceType, Zenon
<1>3. \A x \in 1..b : 0 + x = x
  OBVIOUS
<1> QED
  BY <1>1, <1>2, <1>3, Zenon

\* Pieces that follow each other are put together.
LEMMA PieceJoin ==
  ASSUME NEW k \in 1..3, NEW a \in Nat, NEW b \in Nat, a <= b
  PROVE  Piece(k, 0, a) \o Piece(k, a, b) = Piece(k, 0, b)
<1> DEFINE s == Piece(k, 0, a)
           t == Piece(k, a, b)
           u == Piece(k, 0, b)
           S == (1..3) \X Nat
<1>1. s \in Seq(S) /\ Len(s) = a /\ \A x \in 1..a : s[x] = <<k, x>>
  BY PieceFromStart
<1>2. t \in Seq(S) /\ Len(t) = b - a /\ \A x \in 1..(b - a) : t[x] = <<k, a + x>>
  BY PieceType
<1>3. u \in Seq(S) /\ Len(u) = b /\ \A x \in 1..b : u[x] = <<k, x>>
  BY PieceFromStart
<1> HIDE DEF s, t, u, S
<1>4. s \o t \in Seq(S) /\ Len(s \o t) = b
  <2>1. Len(s \o t) = Len(s) + Len(t) /\ s \o t \in Seq(S)
    BY <1>1, <1>2, ConcatProperties
  <2>2. a + (b - a) = b
    OBVIOUS
  <2> QED
    BY <1>1, <1>2, <2>1, <2>2
<1>5. ASSUME NEW x \in 1..b PROVE (s \o t)[x] = u[x]
  <2>1. CASE x <= a
    <3>1. (s \o t)[x] = s[x]
      BY <1>1, <1>2, <2>1
    <3>2. x \in 1..a
      BY <2>1
    <3> QED
      BY <1>1, <1>3, <3>1, <3>2
  <2>2. CASE ~(x <= a)
    <3>1. x - a \in 1..(b - a) /\ a + (x - a) = x
      BY <2>2
    <3>2. (s \o t)[x] = t[x - a]
      BY <1>1, <1>2, <2>2
    <3> QED
      BY <1>2, <1>3, <3>1, <3>2
  <2> QED
    BY <2>1, <2>2
<1>6. s \o t = u
  BY <1>3, <1>4, <1>5, SeqEqual
<1> QED
  BY <1>6 DEF s, t, u


-----------------------------------------------------------------------------
(* Places in a message *)

\* A place is an argument and how many of its bytes are before it.
Places(m) == {p \in (1..3) \X Nat : p[2] <= m[p[1]]}
Start == <<1, 0>>
End(m) == <<3, m[3]>>

\* Arguments have lengths, and are pieces.
LEMMA Lengths ==
  ASSUME NEW m \in Message, NEW k \in 1..3
  PROVE  m[k] \in Nat /\ Argument(m, k) = Piece(k, 0, m[k])
<1>1. /\ m[1] \in Nat
      /\ m[2] \in Nat
      /\ m[3] \in Nat
  BY FrameAssumption
<1>2. m[k] \in Nat
  BY <1>1
<1>3. Argument(m, k) = [x \in 1..m[k] |-> <<k, x>>]
  BY DEF Argument
<1>4. m[k] - 0 = m[k] /\ \A x \in 1..m[k] : 0 + x = x
  BY <1>2
<1>5. Piece(k, 0, m[k]) = [x \in 1..m[k] |-> <<k, x>>]
  BY <1>4 DEF Piece
<1> QED
  BY <1>2, <1>3, <1>5

\* The places that matter are places.
LEMMA PlacesAre ==
  ASSUME NEW m \in Message
  PROVE  /\ Start \in Places(m) /\ End(m) \in Places(m)
         /\ \A p \in Places(m) : p[1] \in 1..3 /\ p[2] \in Nat /\ m[p[1]] \in Nat
                                 /\ p[2] <= m[p[1]] /\ p = <<p[1], p[2]>>
         /\ \A k \in 1..3 : \A a \in Nat : a <= m[k] => <<k, a>> \in Places(m)
<1>1. \A k \in 1..3 : m[k] \in Nat
  BY Lengths
<1>2. \A k \in 1..3 : \A a \in Nat : a <= m[k] => <<k, a>> \in Places(m)
  BY DEF Places
<1>3. Start \in Places(m) /\ End(m) \in Places(m)
  BY <1>1, <1>2 DEF Start, End
<1>4. \A p \in Places(m) : p[1] \in 1..3 /\ p[2] \in Nat /\ m[p[1]] \in Nat
                                 /\ p[2] <= m[p[1]] /\ p = <<p[1], p[2]>>
  BY <1>1 DEF Places
<1> QED
  BY <1>2, <1>3, <1>4

\* What the pieces of a frame are, if it goes from one place to another.
Carries(m, pieces, p, q) ==
  /\ p[1] <= q[1]
  /\ p[1] = q[1] => p[2] <= q[2]
  /\ pieces \in Seq(Bytes)
  /\ Len(pieces) = (q[1] - p[1]) + 1
  /\ \A k \in p[1]..q[1] :
       pieces[(k - p[1]) + 1] =
         Piece(k, IF k = p[1] THEN p[2] ELSE 0, IF k = q[1] THEN q[2] ELSE m[k])

\* A frame's first piece.
LEMMA CarriesOne ==
  ASSUME NEW m \in Message, NEW p \in Places(m), NEW w \in Nat, p[2] + w <= m[p[1]]
  PROVE  /\ <<p[1], p[2] + w>> \in Places(m)
         /\ Carries(m, << Piece(p[1], p[2], p[2] + w) >>, p, <<p[1], p[2] + w>>)
<1> DEFINE k == p[1]
           a == p[2]
           piece == Piece(k, a, a + w)
<1>1. k \in 1..3 /\ a \in Nat /\ a + w \in Nat /\ a <= a + w
  BY PlacesAre
<1>2. piece \in Bytes
  BY <1>1, PieceType DEF Bytes
<1>3. <<k, a + w>> \in Places(m)
  BY <1>1, PlacesAre
<1>4. \A j \in k..k : j = k
  BY <1>1
<1>5. (k - k) + 1 = 1
  BY <1>1
<1> HIDE DEF piece, k, a
<1>6. << piece >> \in Seq(Bytes) /\ Len(<< piece >>) = 1 /\ << piece >>[1] = piece
  BY <1>2
<1>7. Carries(m, << piece >>, p, <<k, a + w>>)
  BY <1>1, <1>4, <1>5, <1>6 DEF Carries, piece, k, a
<1> QED
  BY <1>3, <1>7 DEF piece, k, a

\* Another piece, of the next argument.
LEMMA CarriesMore ==
  ASSUME NEW m \in Message, NEW p \in Places(m), NEW q \in Places(m), NEW pieces,
         Carries(m, pieces, p, q), q[1] < 3, q[2] = m[q[1]],
         NEW w \in Nat, w <= m[q[1] + 1]
  PROVE  /\ <<q[1] + 1, w>> \in Places(m)
         /\ Carries(m, Append(pieces, Piece(q[1] + 1, 0, w)), p, <<q[1] + 1, w>>)
<1> DEFINE k == p[1]
           l == q[1]
           piece == Piece(l + 1, 0, w)
           r == <<l + 1, w>>
<1>1. k \in 1..3 /\ l \in 1..3 /\ l + 1 \in 1..3 /\ k <= l /\ p[2] \in Nat
  BY PlacesAre DEF Carries
<1>2. piece \in Bytes
  BY <1>1, PieceFromStart DEF Bytes
<1>3. r \in Places(m)
  BY <1>1, PlacesAre
<1>4. pieces \in Seq(Bytes) /\ Len(pieces) = (l - k) + 1
  BY DEF Carries
<1>5. \A j \in k..l : pieces[(j - k) + 1] = Piece(j, IF j = k THEN p[2] ELSE 0, m[j])
  BY DEF Carries
<1> HIDE DEF piece, k, l
<1> DEFINE all == Append(pieces, piece)
<1>6. all \in Seq(Bytes) /\ Len(all) = ((l + 1) - k) + 1
  BY <1>1, <1>2, <1>4
<1>7. ASSUME NEW j \in k..(l + 1)
      PROVE  all[(j - k) + 1] = Piece(j, IF j = k THEN p[2] ELSE 0, IF j = l + 1 THEN w ELSE m[j])
  <2>1. CASE j = l + 1
    <3>1. (j - k) + 1 = Len(pieces) + 1 /\ j # k
      BY <1>1, <1>4, <2>1
    <3>2. all[Len(pieces) + 1] = piece
      BY <1>4
    <3> QED
      BY <2>1, <3>1, <3>2 DEF piece
  <2>2. CASE j # l + 1
    <3>1. j \in k..l /\ (j - k) + 1 \in 1..Len(pieces)
      BY <1>1, <1>4, <2>2
    <3>2. all[(j - k) + 1] = pieces[(j - k) + 1]
      BY <1>4, <3>1
    <3> QED
      BY <1>5, <2>2, <3>1, <3>2
  <2> QED
    BY <2>1, <2>2
<1>8. r[1] = l + 1 /\ r[2] = w /\ k <= l + 1 /\ k # l + 1
  BY <1>1
<1> HIDE DEF all, r
<1>9. Carries(m, all, p, r)
  BY <1>6, <1>7, <1>8 DEF Carries, k
<1> QED
  BY <1>3, <1>9 DEF all, r, l, piece

\* The first of several pieces ends its argument, and the others go on from there.
LEMMA CarriesHead ==
  ASSUME NEW m \in Message, NEW p \in Places(m), NEW q \in Places(m), NEW pieces,
         Carries(m, pieces, p, q), Len(pieces) > 1
  PROVE  /\ p[1] < 3
         /\ Head(pieces) = Piece(p[1], p[2], m[p[1]])
         /\ <<p[1] + 1, 0>> \in Places(m)
         /\ Carries(m, Tail(pieces), <<p[1] + 1, 0>>, q)
<1> DEFINE k == p[1]
           l == q[1]
           r == <<k + 1, 0>>
<1>1. k \in 1..3 /\ l \in 1..3 /\ p[2] \in Nat /\ q[2] \in Nat
  BY PlacesAre
<1>2. pieces \in Seq(Bytes) /\ Len(pieces) = (l - k) + 1
  BY DEF Carries
<1>3. \A j \in k..l : pieces[(j - k) + 1] = Piece(j, IF j = k THEN p[2] ELSE 0, IF j = l THEN q[2] ELSE m[j])
  BY DEF Carries
<1> HIDE DEF k, l
<1>4. k < l /\ k + 1 \in 1..3 /\ k < 3 /\ k \in k..l /\ (k - k) + 1 = 1 /\ k # l
  BY <1>1, <1>2
<1>5. Head(pieces) = Piece(k, p[2], m[k])
  <2>1. Head(pieces) = pieces[1]
    BY <1>2
  <2> QED
    BY <1>3, <1>4, <2>1
<1>6. r \in Places(m)
  <2>1. m[k + 1] \in Nat
    BY <1>4, Lengths
  <2> QED
    BY <1>4, <2>1, PlacesAre
<1> DEFINE rest == Tail(pieces)
<1>7. rest \in Seq(Bytes) /\ Len(rest) = (l - (k + 1)) + 1 /\ \A i \in 1..Len(rest) : rest[i] = pieces[i + 1]
  BY <1>1, <1>2, <1>4
<1> HIDE DEF rest
<1>8. ASSUME NEW j \in (k + 1)..l
      PROVE  rest[(j - (k + 1)) + 1] = Piece(j, IF j = k + 1 THEN 0 ELSE 0, IF j = l THEN q[2] ELSE m[j])
  <2>1. (j - (k + 1)) + 1 \in 1..Len(rest) /\ ((j - (k + 1)) + 1) + 1 = (j - k) + 1 /\ j \in k..l /\ j # k
    <3>1. j \in Int /\ k + 1 <= j /\ j <= l /\ k \in Int /\ l \in Int
      BY <1>1
    <3>2. /\ 1 <= (j - (k + 1)) + 1 /\ (j - (k + 1)) + 1 <= (l - (k + 1)) + 1
          /\ (j - (k + 1)) + 1 \in Int /\ ((j - (k + 1)) + 1) + 1 = (j - k) + 1
          /\ j \in k..l /\ j # k
      BY <3>1
    <3> QED
      BY <1>7, <3>2
  <2>2. rest[(j - (k + 1)) + 1] = pieces[(j - k) + 1]
    BY <1>7, <2>1
  <2> QED
    BY <1>3, <2>1, <2>2
<1>9. r[1] = k + 1 /\ r[2] = 0 /\ k + 1 <= l /\ 0 <= q[2]
  BY <1>1, <1>4
<1> HIDE DEF r
<1>10. Carries(m, rest, r, q)
  BY <1>7, <1>8, <1>9 DEF Carries, l
<1> QED
  BY <1>4, <1>5, <1>6, <1>10 DEF rest, r, k

\* The only piece ends where the frame does.
LEMMA CarriesLast ==
  ASSUME NEW m \in Message, NEW p \in Places(m), NEW q \in Places(m), NEW pieces,
         Carries(m, pieces, p, q), Len(pieces) = 1
  PROVE  p[1] = q[1] /\ p[2] <= q[2] /\ Head(pieces) = Piece(p[1], p[2], q[2]) /\ Tail(pieces) = <<>>
<1>1. p[1] \in 1..3 /\ q[1] \in 1..3
  BY PlacesAre
<1>2. p[1] = q[1] /\ p[2] <= q[2] /\ p[1] \in p[1]..q[1] /\ (p[1] - p[1]) + 1 = 1
  <2>1. Len(pieces) = (q[1] - p[1]) + 1 /\ (p[1] = q[1] => p[2] <= q[2])
    BY DEF Carries
  <2> QED
    BY <1>1, <2>1
<1>3. pieces[1] = Piece(p[1], p[2], q[2])
  BY <1>2 DEF Carries
<1>4. pieces \in Seq(Bytes)
  BY DEF Carries
<1>5. Head(pieces) = pieces[1] /\ Tail(pieces) = <<>>
  <2>1. pieces # <<>> /\ Head(pieces) = pieces[1]
    BY <1>4
  <2>2. Tail(pieces) \in Seq(Bytes) /\ Len(Tail(pieces)) = 0
    BY <1>4, <2>1
  <2>3. \A t \in Seq(Bytes) : Len(t) = 0 => t = <<>>
    OBVIOUS
  <2> QED
    BY <2>1, <2>2, <2>3
<1> QED
  BY <1>2, <1>3, <1>5


-----------------------------------------------------------------------------
(* Frames in a row *)

\* The frames go on from each other, from one place to another.
Chain(m, frames, p, q) ==
  \E at \in [1..(Len(frames) + 1) -> Places(m)] :
    /\ at[1] = p
    /\ at[Len(frames) + 1] = q
    /\ \A j \in 1..Len(frames) : Carries(m, frames[j].args, at[j], at[j + 1])

\* Each says that more fragments follow.
AllMore(frames) == \A j \in 1..Len(frames) : frames[j].more

\* Each but the last says so.
Ended(frames) == frames # <<>> /\ \A j \in 1..Len(frames) : frames[j].more <=> j < Len(frames)

\* Without frames one is where one was.
LEMMA ChainEmpty == ASSUME NEW m, NEW p \in Places(m) PROVE Chain(m, <<>>, p, p)
<1> DEFINE at == [i \in 1..1 |-> p]
<1>1. Len(<<>>) + 1 = 1 /\ \A j \in 1..Len(<<>>) : FALSE
  OBVIOUS
<1>2. at \in [1..1 -> Places(m)] /\ at[1] = p
  OBVIOUS
<1> HIDE DEF at
<1> QED
  BY <1>1, <1>2 DEF Chain

\* Another frame at the end.
LEMMA ChainAppend ==
  ASSUME NEW m, NEW frames \in Seq(FrameType), NEW p, NEW q, Chain(m, frames, p, q),
         NEW f \in FrameType, NEW r \in Places(m), Carries(m, f.args, q, r)
  PROVE  Chain(m, Append(frames, f), p, r)
<1> DEFINE n == Len(frames)
           all == Append(frames, f)
<1>1. PICK at \in [1..(n + 1) -> Places(m)] :
        /\ at[1] = p /\ at[n + 1] = q
        /\ \A j \in 1..n : Carries(m, frames[j].args, at[j], at[j + 1])
  BY DEF Chain
<1>2. n \in Nat /\ Len(all) = n + 1 /\ all[n + 1] = f /\ \A j \in 1..n : all[j] = frames[j]
  OBVIOUS
<1> DEFINE on == [j \in 1..((n + 1) + 1) |-> IF j = (n + 1) + 1 THEN r ELSE at[j]]
<1> HIDE DEF n, all
<1>3. on \in [1..((n + 1) + 1) -> Places(m)]
  <2>1. ASSUME NEW j \in 1..((n + 1) + 1), j # (n + 1) + 1 PROVE at[j] \in Places(m)
    <3>1. j \in 1..(n + 1)
      BY <1>2, <2>1
    <3> QED
      BY <1>1, <3>1
  <2> QED
    BY <2>1
<1>4. on[(n + 1) + 1] = r /\ \A j \in 1..(n + 1) : on[j] = at[j]
  BY <1>2
<1> HIDE DEF on
<1>5. on[1] = p
  BY <1>1, <1>2, <1>4
<1>6. ASSUME NEW j \in 1..(n + 1) PROVE Carries(m, all[j].args, on[j], on[j + 1])
  <2>1. CASE j = n + 1
    BY <1>1, <1>2, <1>4, <2>1
  <2>2. CASE j # n + 1
    <3>1. j \in 1..n /\ j + 1 \in 1..(n + 1) /\ j \in 1..(n + 1)
      BY <1>2, <2>2
    <3> QED
      BY <1>1, <1>2, <1>4, <3>1
  <2> QED
    BY <2>1, <2>2
<1>7. Chain(m, all, p, r)
  BY <1>2, <1>3, <1>4, <1>5, <1>6 DEF Chain
<1> QED
  BY <1>7 DEF all

\* The first frame, and the others.
LEMMA ChainTail ==
  ASSUME NEW m, NEW frames \in Seq(FrameType), frames # <<>>, NEW p, NEW q, Chain(m, frames, p, q)
  PROVE  \E r \in Places(m) : Carries(m, Head(frames).args, p, r) /\ Chain(m, Tail(frames), r, q)
<1> DEFINE n == Len(frames)
           rest == Tail(frames)
<1>1. PICK at \in [1..(n + 1) -> Places(m)] :
        /\ at[1] = p /\ at[n + 1] = q
        /\ \A j \in 1..n : Carries(m, frames[j].args, at[j], at[j + 1])
  BY DEF Chain
<1>2. /\ n \in Nat /\ n >= 1 /\ Head(frames) = frames[1]
      /\ Len(rest) = n - 1 /\ \A j \in 1..(n - 1) : rest[j] = frames[j + 1]
  OBVIOUS
<1> HIDE DEF n, rest
<1> DEFINE on == [j \in 1..((n - 1) + 1) |-> at[j + 1]]
<1>3. on \in [1..((n - 1) + 1) -> Places(m)] /\ \A j \in 1..n : on[j] = at[j + 1]
  <2>1. (n - 1) + 1 = n /\ \A j \in 1..n : j + 1 \in 1..(n + 1)
    BY <1>2
  <2> QED
    BY <1>1, <2>1
<1> HIDE DEF on
<1>4. on[1] = at[2] /\ on[(n - 1) + 1] = q
  BY <1>1, <1>2, <1>3
<1>5. ASSUME NEW j \in 1..(n - 1) PROVE Carries(m, rest[j].args, on[j], on[j + 1])
  <2>1. j + 1 \in 1..n /\ j \in 1..n
    BY <1>2
  <2> QED
    BY <1>1, <1>2, <1>3, <2>1
<1>6. Chain(m, rest, at[2], q)
  BY <1>2, <1>3, <1>4, <1>5 DEF Chain
<1>7. Carries(m, Head(frames).args, p, at[2]) /\ at[2] \in Places(m)
  <2>1. 1 \in 1..n /\ 2 \in 1..(n + 1) /\ 1 + 1 = 2
    BY <1>2
  <2> QED
    BY <1>1, <1>2, <2>1
<1> QED
  BY <1>6, <1>7 DEF rest

\* What the frames say when another one comes.
LEMMA MoreAppend ==
  ASSUME NEW frames \in Seq(FrameType), AllMore(frames), NEW f \in FrameType
  PROVE  IF f.more THEN AllMore(Append(frames, f)) ELSE Ended(Append(frames, f))
<1> DEFINE n == Len(frames)
           all == Append(frames, f)
<1>1. n \in Nat /\ Len(all) = n + 1 /\ all[n + 1] = f /\ \A j \in 1..n : all[j] = frames[j]
  OBVIOUS
<1>2. all # <<>>
  <2>1. \A s \in Seq(FrameType) : Len(Append(s, f)) = Len(s) + 1 /\ Append(s, f) \in Seq(FrameType)
    OBVIOUS
  <2>2. \A s \in Seq(FrameType) : s = <<>> <=> Len(s) = 0
    OBVIOUS
  <2>3. n + 1 # 0
    BY <1>1
  <2> QED
    BY <1>1, <2>1, <2>2, <2>3
<1> HIDE DEF n, all
<1>3. \A j \in 1..n : all[j].more
  BY <1>1 DEF AllMore, n
<1>4. \A j \in 1..(n + 1) : j = n + 1 \/ (j \in 1..n /\ j < n + 1)
  BY <1>1
<1>5. ~(n + 1 < n + 1)
  BY <1>1
<1> QED
  BY <1>1, <1>2, <1>3, <1>4, <1>5 DEF AllMore, Ended, all

\* What the first of them says, and the others.
LEMMA EndedTail ==
  ASSUME NEW frames \in Seq(FrameType), Ended(frames)
  PROVE  IF Head(frames).more THEN Ended(Tail(frames)) ELSE Tail(frames) = <<>>
<1> DEFINE n == Len(frames)
           rest == Tail(frames)
<1>1. frames # <<>> /\ \A j \in 1..n : frames[j].more <=> j < n
  BY DEF Ended
<1>2. /\ n \in Nat /\ n >= 1 /\ Head(frames) = frames[1] /\ rest \in Seq(FrameType)
      /\ Len(rest) = n - 1 /\ \A j \in 1..(n - 1) : rest[j] = frames[j + 1]
  BY <1>1
<1>3. rest = <<>> <=> n - 1 = 0
  <2>1. \A t \in Seq(FrameType) : t = <<>> <=> Len(t) = 0
    OBVIOUS
  <2> QED
    BY <1>2, <2>1
<1> HIDE DEF n, rest
<1>4. Head(frames).more <=> 1 < n
  BY <1>1, <1>2
<1>5. \A j \in 1..(n - 1) : rest[j].more <=> j < n - 1
  <2>1. ASSUME NEW j \in 1..(n - 1) PROVE rest[j].more <=> j < n - 1
    <3>1. j + 1 \in 1..n /\ (j + 1 < n <=> j < n - 1)
      BY <1>2
    <3> QED
      BY <1>1, <1>2, <3>1
  <2> QED
    BY <2>1
<1> QED
  BY <1>2, <1>3, <1>4, <1>5 DEF Ended, rest


\* A frame that carries something is not empty.
LEMMA CarriesSome ==
  ASSUME NEW m \in Message, NEW p \in Places(m), NEW q \in Places(m), NEW pieces, Carries(m, pieces, p, q)
  PROVE  pieces # <<>> /\ Len(pieces) \in Nat /\ Len(pieces) >= 1 /\ (Len(pieces) = 1 \/ Len(pieces) > 1)
<1>1. p[1] \in 1..3 /\ q[1] \in 1..3
  BY PlacesAre
<1>2. p[1] <= q[1] /\ Len(pieces) = (q[1] - p[1]) + 1 /\ pieces \in Seq(Bytes)
  BY DEF Carries
<1>3. Len(pieces) \in Nat /\ Len(pieces) >= 1 /\ (Len(pieces) = 1 \/ Len(pieces) > 1) /\ Len(pieces) # 0
  BY <1>1, <1>2
<1>4. \A s \in Seq(Bytes) : s = <<>> <=> Len(s) = 0
  OBVIOUS
<1> QED
  BY <1>2, <1>3, <1>4

\* No frames lead nowhere.
LEMMA ChainNone == ASSUME NEW m, NEW p, NEW q, Chain(m, <<>>, p, q) PROVE p = q
<1>1. Len(<<>>) + 1 = 1
  OBVIOUS
<1> QED
  BY <1>1 DEF Chain

-----------------------------------------------------------------------------
(* What is left to write *)

\* All but the first.
LEMMA TailOf ==
  ASSUME NEW s \in Seq(Bytes), s # <<>>
  PROVE  /\ Tail(s) \in Seq(Bytes)
         /\ Len(Tail(s)) = Len(s) - 1
         /\ \A j \in 1..(Len(s) - 1) : Tail(s)[j] = s[j + 1]
  OBVIOUS

\* One in front of others.
LEMMA PutFirst ==
  ASSUME NEW e \in Bytes, NEW s \in Seq(Bytes)
  PROVE  /\ Len(<<e>> \o s) = 1 + Len(s)
         /\ (<<e>> \o s)[1] = e
         /\ \A j \in 1..Len(s) : (<<e>> \o s)[j + 1] = s[j]
<1> DEFINE one == <<e>>
<1>1. one \in Seq(Bytes) /\ Len(one) = 1 /\ one[1] = e
  OBVIOUS
<1> HIDE DEF one
<1>2. Len(one \o s) = 1 + Len(s)
  BY <1>1, ConcatProperties
<1>3. \A j \in 1..(1 + Len(s)) : (one \o s)[j] = IF j <= 1 THEN one[j] ELSE s[j - 1]
  <2>1. \A i \in 1..(Len(one) + Len(s)) :
          (one \o s)[i] = IF i <= Len(one) THEN one[i] ELSE s[i - Len(one)]
    BY <1>1, ConcatProperties, Zenon
  <2> QED
    BY <1>1, <2>1
<1>4. (one \o s)[1] = e
  BY <1>1, <1>3
<1>5. ASSUME NEW j \in 1..Len(s) PROVE (one \o s)[j + 1] = s[j]
  <2>1. j + 1 \in 1..(1 + Len(s)) /\ ~(j + 1 <= 1) /\ (j + 1) - 1 = j
    OBVIOUS
  <2> QED
    BY <1>3, <2>1
<1> QED
  BY <1>2, <1>4, <1>5 DEF one

\* These are the arguments from a place on.
LeftFrom(m, as, p) ==
  /\ Len(as) = 4 - p[1]
  /\ \A j \in 1..(4 - p[1]) : as[j] = Piece((p[1] + j) - 1, IF j = 1 THEN p[2] ELSE 0, m[(p[1] + j) - 1])

\* At the start they are all left.
LEMMA LeftAll == ASSUME NEW m \in Message PROVE LeftFrom(m, Arguments(m), Start)
<1>1. Arguments(m) \in Seq(Bytes)
  BY NewMessage
<1>2. Len(Arguments(m)) = 3 /\ \A k \in 1..3 : Arguments(m)[k] = Argument(m, k)
  BY DEF Arguments
<1>3. ASSUME NEW j \in 1..3
      PROVE  Arguments(m)[j] = Piece((1 + j) - 1, IF j = 1 THEN 0 ELSE 0, m[(1 + j) - 1])
  <2>1. (1 + j) - 1 = j
    OBVIOUS
  <2>2. Arguments(m)[j] = Piece(j, 0, m[j])
    BY <1>2, Lengths
  <2> QED
    BY <2>1, <2>2
<1>4. 4 - 1 = 3
  OBVIOUS
<1> QED
  BY <1>2, <1>3, <1>4 DEF LeftFrom, Start

\* The first one is not all written.
LEMMA LeftFirst ==
  ASSUME NEW m \in Message, NEW p \in Places(m), NEW as \in Seq(Bytes), LeftFrom(m, as, p)
  PROVE  /\ as # <<>>
         /\ Head(as) = Piece(p[1], p[2], m[p[1]])
         /\ Head(as) \in Seq((1..3) \X Nat)
         /\ Len(Head(as)) = m[p[1]] - p[2]
<1>1. p[1] \in 1..3 /\ p[2] \in Nat /\ m[p[1]] \in Nat /\ p[2] <= m[p[1]]
  BY PlacesAre
<1>2. 4 - p[1] \in Nat /\ 4 - p[1] # 0 /\ 1 \in 1..(4 - p[1]) /\ (p[1] + 1) - 1 = p[1]
  <2>1. \A k \in 1..3 : 4 - k \in Nat /\ 4 - k # 0 /\ 1 \in 1..(4 - k) /\ (k + 1) - 1 = k
    OBVIOUS
  <2> QED
    BY <1>1, <2>1
<1>3. as # <<>>
  <2>1. Len(<<>>) = 0
    OBVIOUS
  <2> QED
    BY <1>2, <2>1 DEF LeftFrom
<1>4. as[1] = Piece(p[1], p[2], m[p[1]])
  BY <1>2 DEF LeftFrom
<1>5. Head(as) = as[1]
  BY <1>3
<1>6. /\ Piece(p[1], p[2], m[p[1]]) \in Seq((1..3) \X Nat)
      /\ Len(Piece(p[1], p[2], m[p[1]])) = m[p[1]] - p[2]
  BY <1>1, PieceType, Zenon
<1> QED
  BY <1>3, <1>4, <1>5, <1>6, Zenon

\* Some of the first one is written.
LEMMA LeftAfter ==
  ASSUME NEW m \in Message, NEW p \in Places(m), NEW as \in Seq(Bytes), LeftFrom(m, as, p),
         NEW q \in Places(m), q[1] = p[1]
  PROVE  LeftFrom(m, << Piece(p[1], q[2], m[p[1]]) >> \o Tail(as), q)
<1> DEFINE e == Piece(p[1], q[2], m[p[1]])
           n == 4 - p[1]
<1>1. p[1] \in 1..3 /\ q[2] \in Nat /\ m[p[1]] \in Nat /\ q[2] <= m[p[1]]
  BY PlacesAre
<1>2. n \in Nat /\ n >= 1
  BY <1>1
<1>3. e \in Bytes
  BY <1>1, PieceType DEF Bytes
<1>5. as # <<>> /\ Len(as) = n
  BY LeftFirst DEF LeftFrom
<1> DEFINE others == Tail(as)
<1>6. others \in Seq(Bytes) /\ Len(others) = n - 1 /\ \A j \in 1..(n - 1) : others[j] = as[j + 1]
  BY <1>5, TailOf, Zenon
<1>7. \A j \in 1..n : as[j] = Piece((p[1] + j) - 1, IF j = 1 THEN p[2] ELSE 0, m[(p[1] + j) - 1])
  BY DEF LeftFrom
<1> HIDE DEF others, e
<1> DEFINE all == <<e>> \o others
<1>8. /\ Len(all) = 1 + Len(others) /\ all[1] = e
      /\ \A j \in 1..Len(others) : all[j + 1] = others[j]
  BY <1>3, <1>6, PutFirst
<1> HIDE DEF all, n
<1>9. Len(all) = n
  BY <1>2, <1>6, <1>8
<1>10. ASSUME NEW j \in 1..n
       PROVE  all[j] = Piece((p[1] + j) - 1, IF j = 1 THEN q[2] ELSE 0, m[(p[1] + j) - 1])
  <2>1. CASE j = 1
    <3>1. (p[1] + 1) - 1 = p[1]
      BY <1>1
    <3> QED
      BY <1>8, <2>1, <3>1 DEF e
  <2>2. CASE j # 1
    <3>1. j - 1 \in 1..(n - 1) /\ (j - 1) + 1 = j
      BY <1>2, <2>2
    <3>2. all[j] = others[j - 1]
      BY <1>6, <1>8, <3>1
    <3> QED
      BY <1>6, <1>7, <2>2, <3>1, <3>2
  <2> QED
    BY <2>1, <2>2
<1> QED
  BY <1>9, <1>10 DEF LeftFrom, all, e, n, others

\* The first one is all written.
LEMMA LeftNext ==
  ASSUME NEW m \in Message, NEW p \in Places(m), NEW as \in Seq(Bytes), LeftFrom(m, as, p)
  PROVE  /\ Len(as) > 1 <=> p[1] < 3
         /\ ~(p[1] < 3) => p[1] = 3 /\ Tail(as) = <<>>
         /\ p[1] < 3 => <<p[1] + 1, 0>> \in Places(m) /\ LeftFrom(m, Tail(as), <<p[1] + 1, 0>>)
<1> DEFINE k == p[1]
           n == 4 - k
           others == Tail(as)
<1>1. k \in 1..3 /\ n \in Nat /\ n >= 1
  BY PlacesAre
<1>2. as # <<>> /\ Len(as) = n
  BY LeftFirst DEF LeftFrom
<1>3. others \in Seq(Bytes) /\ Len(others) = n - 1 /\ \A j \in 1..(n - 1) : others[j] = as[j + 1]
  BY <1>2, TailOf, Zenon
<1>4. \A j \in 1..n : as[j] = Piece((k + j) - 1, IF j = 1 THEN p[2] ELSE 0, m[(k + j) - 1])
  BY DEF LeftFrom
<1> HIDE DEF others
<1>5. Len(as) > 1 <=> k < 3
  BY <1>1, <1>2
<1>6. ASSUME ~(k < 3) PROVE k = 3 /\ others = <<>>
  <2>1. k = 3 /\ Len(others) = 0
    BY <1>1, <1>3, <1>6
  <2>2. \A s \in Seq(Bytes) : s = <<>> <=> Len(s) = 0
    OBVIOUS
  <2> QED
    BY <1>3, <2>1, <2>2
<1>7. ASSUME k < 3 PROVE <<k + 1, 0>> \in Places(m) /\ LeftFrom(m, others, <<k + 1, 0>>)
  <2>1. k + 1 \in 1..3
    BY <1>1, <1>7
  <2>2. <<k + 1, 0>> \in Places(m)
    BY <2>1, Lengths, PlacesAre
  <2>3. n - 1 = 4 - (k + 1)
    BY <1>1
  <2>4. ASSUME NEW j \in 1..(4 - (k + 1))
        PROVE  others[j] = Piece(((k + 1) + j) - 1, IF j = 1 THEN 0 ELSE 0, m[((k + 1) + j) - 1])
    <3>1. j + 1 \in 1..n /\ j \in 1..(n - 1) /\ j + 1 # 1 /\ (k + (j + 1)) - 1 = ((k + 1) + j) - 1
      BY <1>1
    <3> HIDE DEF n, k
    <3> QED
      BY <1>3, <1>4, <3>1
  <2> QED
    BY <1>3, <2>2, <2>3, <2>4 DEF LeftFrom
<1> QED
  BY <1>5, <1>6, <1>7 DEF others

\* What a frame carries while it may take more, and where that starts.
Filling(m, pieces, p, l) ==
  \/ pieces = <<>> /\ l = p
  \/ \E q \in Places(m) :
       Carries(m, pieces, p, q) /\ q[1] < 3 /\ q[2] = m[q[1]] /\ l = <<q[1] + 1, 0>>

\* It takes a piece.
LEMMA FillingMore ==
  ASSUME NEW m \in Message, NEW p \in Places(m), NEW l \in Places(m), NEW pieces,
         Filling(m, pieces, p, l), NEW w \in Nat, l[2] + w <= m[l[1]]
  PROVE  /\ <<l[1], l[2] + w>> \in Places(m)
         /\ Carries(m, Append(pieces, Piece(l[1], l[2], l[2] + w)), p, <<l[1], l[2] + w>>)
<1>1. CASE pieces = <<>> /\ l = p
  <2>1. Append(<<>>, Piece(p[1], p[2], p[2] + w)) = << Piece(p[1], p[2], p[2] + w) >>
    OBVIOUS
  <2> QED
    BY <1>1, <2>1, CarriesOne
<1>2. ASSUME NEW q \in Places(m), Carries(m, pieces, p, q), q[1] < 3, q[2] = m[q[1]], l = <<q[1] + 1, 0>>
      PROVE  /\ <<l[1], l[2] + w>> \in Places(m)
             /\ Carries(m, Append(pieces, Piece(l[1], l[2], l[2] + w)), p, <<l[1], l[2] + w>>)
  <2>1. l[1] = q[1] + 1 /\ l[2] = 0
    BY <1>2
  <2>2. 0 + w = w
    OBVIOUS
  <2>3. w <= m[q[1] + 1]
    BY <2>1, <2>2
  <2>4. /\ <<q[1] + 1, w>> \in Places(m)
        /\ Carries(m, Append(pieces, Piece(q[1] + 1, 0, w)), p, <<q[1] + 1, w>>)
    BY <1>2, <2>3, CarriesMore
  <2> QED
    BY <2>1, <2>2, <2>4
<1> QED
  BY <1>1, <1>2 DEF Filling

-----------------------------------------------------------------------------
(* What the reader has *)

\* It has all arguments before a place, and this one up to there.
ReadTo(m, rd, r) ==
  \A k \in 1..3 :
    /\ k < r[1] => rd[k].complete /\ rd[k].value = Piece(k, 0, m[k])
    /\ k = r[1] => ~rd[k].complete /\ rd[k].value = Piece(k, 0, r[2])
    /\ k > r[1] => ~rd[k].complete /\ rd[k].value = <<>>

\* A new reader is at the start.
LEMMA NothingRead == ASSUME NEW m \in Message PROVE ReadTo(m, NewReader, Start)
<1>1. /\ Len(Piece(1, 0, 0)) = 0
      /\ Piece(1, 0, 0) \in Seq((1..3) \X Nat)
  BY PieceFromStart
<1>2. \A s \in Seq((1..3) \X Nat) : s = <<>> <=> Len(s) = 0
  OBVIOUS
<1>3. Piece(1, 0, 0) = <<>>
  BY <1>1, <1>2
<1> QED
  BY <1>3 DEF ReadTo, NewReader, Start

\* The reader looks for the argument of its place.
LEMMA NextArg ==
  ASSUME NEW m \in Message, NEW r \in Places(m), ReadTo(m, reader, r)
  PROVE  ~is_complete /\ get_incomplete_arg = r[1]
<1> DEFINE P(k) == ~reader[k].complete /\ \A j \in 1..(k - 1) : reader[j].complete
           l == r[1]
<1>1. l \in 1..3
  BY PlacesAre
<1>2. /\ ~reader[l].complete
      /\ \A k \in 1..3 : k < l => reader[k].complete
      /\ \A k \in 1..3 : k > l => ~reader[k].complete
  BY <1>1 DEF ReadTo
<1> HIDE DEF l
<1>3. P(l)
  BY <1>1, <1>2
<1>4. ASSUME NEW k \in 1..3, P(k) PROVE k = l
  BY <1>1, <1>2, <1>4
<1>5. get_incomplete_arg = CHOOSE k \in 1..3 : P(k)
  BY DEF get_incomplete_arg
<1> HIDE DEF P
<1>6. get_incomplete_arg = l
  BY <1>1, <1>3, <1>4, <1>5
<1> QED
  BY <1>1, <1>2, <1>6 DEF is_complete, l

\* It has got further in this argument.
LEMMA ReadMore ==
  ASSUME NEW m \in Message, NEW r \in Places(m), NEW q \in Places(m), q[1] = r[1], r[2] <= q[2],
         NEW rd \in [1..3 -> [value : Bytes, complete : BOOLEAN]], ReadTo(m, rd, r)
  PROVE  /\ rd[r[1]].value \o Piece(r[1], r[2], q[2]) = Piece(r[1], 0, q[2])
         /\ \A new : new = [rd EXCEPT ![r[1]] = [value |-> Piece(r[1], 0, q[2]), complete |-> FALSE]]
                      => ReadTo(m, new, q)
<1>1. r[1] \in 1..3 /\ r[2] \in Nat /\ q[2] \in Nat
  BY PlacesAre
<1>2. rd[r[1]].value = Piece(r[1], 0, r[2])
  BY <1>1 DEF ReadTo
<1>3. Piece(r[1], 0, r[2]) \o Piece(r[1], r[2], q[2]) = Piece(r[1], 0, q[2])
  BY <1>1, PieceJoin
<1>4. ASSUME NEW new,
             new = [rd EXCEPT ![r[1]] = [value |-> Piece(r[1], 0, q[2]), complete |-> FALSE]]
      PROVE  ReadTo(m, new, q)
  <2>1. /\ new[r[1]].value = Piece(r[1], 0, q[2]) /\ ~new[r[1]].complete
        /\ \A k \in 1..3 : k # r[1] => new[k] = rd[k]
    BY <1>1, <1>4
  <2>2. ASSUME NEW k \in 1..3, k # r[1]
        PROVE  /\ k < r[1] => rd[k].complete /\ rd[k].value = Piece(k, 0, m[k])
               /\ k > r[1] => ~rd[k].complete /\ rd[k].value = <<>>
    BY <2>2 DEF ReadTo
  <2>3. \A k \in 1..3 : k < r[1] \/ k > r[1] => k # r[1]
    BY <1>1
  <2> QED
    BY <2>1, <2>2, <2>3 DEF ReadTo
<1> QED
  BY <1>2, <1>3, <1>4

\* It has all of this argument and of those before it.
Through(m, rd, l) ==
  /\ \A k \in 1..3 : k < l \/ k = l => rd[k].complete /\ rd[k].value = Piece(k, 0, m[k])
  /\ \A k \in 1..3 : k > l => ~rd[k].complete /\ rd[k].value = <<>>

\* It has got to the end of this argument.
LEMMA ReadArg ==
  ASSUME NEW m \in Message, NEW r \in Places(m),
         NEW rd \in [1..3 -> [value : Bytes, complete : BOOLEAN]], ReadTo(m, rd, r),
         NEW new, new = [rd EXCEPT ![r[1]] = [value |-> Piece(r[1], 0, m[r[1]]), complete |-> TRUE]]
  PROVE  Through(m, new, r[1])
<1> DEFINE l == r[1]
<1>1. l \in 1..3 /\ m[l] \in Nat
  BY PlacesAre
<1>2. /\ \A k \in 1..3 : k < l => rd[k].complete /\ rd[k].value = Piece(k, 0, m[k])
      /\ \A k \in 1..3 : k > l => ~rd[k].complete /\ rd[k].value = <<>>
  BY DEF ReadTo
<1>3. /\ new[l].value = Piece(l, 0, m[l]) /\ new[l].complete
      /\ \A k \in 1..3 : k # l => new[k] = rd[k]
  BY <1>1
<1>4. \A k \in 1..3 : k < l \/ k > l => k # l
  BY <1>1
<1> HIDE DEF l
<1>5. \A k \in 1..3 : k < l \/ k = l => new[k].complete /\ new[k].value = Piece(k, 0, m[k])
  BY <1>2, <1>3, <1>4, Zenon
<1>6. \A k \in 1..3 : k > l => ~new[k].complete /\ new[k].value = <<>>
  BY <1>2, <1>3, <1>4, Zenon
<1> QED
  BY <1>5, <1>6, Zenon DEF Through, l

\* It goes on with the next one.
LEMMA ReadNext ==
  ASSUME NEW m \in Message, NEW l \in 1..2, NEW new, Through(m, new, l)
  PROVE  ReadTo(m, new, <<l + 1, 0>>)
<1>1. \A k \in 1..3 : (k < l + 1 => k < l \/ k = l) /\ (k > l + 1 => k > l) /\ (k = l + 1 => k > l)
  OBVIOUS
<1>2. ASSUME NEW k \in 1..3 PROVE Piece(k, 0, 0) = <<>>
  <2>1. Len(Piece(k, 0, 0)) = 0 /\ Piece(k, 0, 0) \in Seq((1..3) \X Nat)
    BY PieceFromStart
  <2>2. \A s \in Seq((1..3) \X Nat) : s = <<>> <=> Len(s) = 0
    OBVIOUS
  <2> QED
    BY <2>1, <2>2
<1>3. ASSUME NEW k \in 1..3
      PROVE  /\ k < l + 1 => new[k].complete /\ new[k].value = Piece(k, 0, m[k])
             /\ k = l + 1 => ~new[k].complete /\ new[k].value = Piece(k, 0, 0)
             /\ k > l + 1 => ~new[k].complete /\ new[k].value = <<>>
  BY <1>1, <1>2, Zenon DEF Through
<1> QED
  BY <1>3 DEF ReadTo

\* There is no next one.
LEMMA ReadEnd ==
  ASSUME NEW m \in Message, NEW new, Through(m, new, 3)
  PROVE  \A k \in 1..3 : new[k].complete /\ new[k].value = Argument(m, k)
<1>1. \A k \in 1..3 : k < 3 \/ k = 3
  OBVIOUS
<1>2. \A k \in 1..3 : Argument(m, k) = Piece(k, 0, m[k])
  BY Lengths
<1> QED
  BY <1>1, <1>2, Zenon DEF Through

-----------------------------------------------------------------------------
(* The invariant *)

\* An argument has just ended, another one follows, and three bytes of the frame are
\* left: is_frame_boundary says that no argument fits, but one of one byte does
\* (frames.py:107, connection.py:39).
ThreeLeft ==
  phase = "build" /\ frame.args # <<>> /\ args # <<>> /\ space_available(frame.size) = 3

\* What the frames of the stream, this frame and the arguments that are left make up,
\* p being where this frame starts.
Building(m, p) ==
  /\ Chain(m, stream, Start, p)
  /\ IF frame = NoFrame
     THEN IF args = <<>> THEN p = End(m) /\ Ended(stream)
          ELSE AllMore(stream) /\ LeftFrom(m, args, p)
     ELSE /\ AllMore(stream)
          /\ ~frame.more
          /\ \/ /\ Avail > 0
                /\ \E l \in Places(m) : Filling(m, frame.args, p, l) /\ LeftFrom(m, args, l)
             \/ \E q \in Places(m) :
                  /\ Carries(m, frame.args, p, q)
                  /\ \/ args = <<>> /\ q = End(m)
                     \/ args # <<>> /\ Avail <= 0 /\ LeftFrom(m, args, q)

\* What the frames of the stream and this frame make up, r being where the reader is.
Reading(m, r) ==
  /\ ReadTo(m, reader, r)
  /\ IF frame.args = <<>>
     THEN Chain(m, stream, r, End(m)) /\ Ended(stream)
     ELSE \E q \in Places(m) :
            /\ Carries(m, frame.args, r, q)
            /\ IF frame.more THEN Chain(m, stream, q, End(m)) /\ Ended(stream)
               ELSE q = End(m) /\ stream = <<>>

\* All is read.
HasRead(m) ==
  /\ \A k \in 1..3 : reader[k].complete /\ reader[k].value = Argument(m, k)
  /\ stream = <<>>
  /\ frame.args = <<>>

\* Nothing is lost, and nothing is twice, at any moment of a message's way.
Whole ==
  /\ phase = "build" => reader = NewReader /\ \E p \in Places(message) : Building(message, p)
  /\ phase = "read" => HasRead(message) \/ \E r \in Places(message) : Reading(message, r)

\* A message's way starts.
LEMMA Starts ==
  ASSUME TypeOK, phase = "build", frame = NoFrame, args = Arguments(message), stream = <<>>
  PROVE  Building(message, Start)
<1>1. message \in Message /\ Start \in Places(message)
  BY PlacesAre DEF TypeOK
<1>2. LeftFrom(message, args, Start) /\ Arguments(message) \in Seq(Bytes)
  BY <1>1, LeftAll, NewMessage
<1>3. args # <<>>
  BY <1>1, <1>2, LeftFirst
<1>4. Chain(message, stream, Start, Start)
  BY <1>1, ChainEmpty
<1>5. AllMore(stream)
  <2>1. \A j \in 1..Len(<<>>) : FALSE
    OBVIOUS
  <2> QED
    BY <2>1 DEF AllMore
<1> QED
  BY <1>2, <1>3, <1>4, <1>5 DEF Building

\* There is room in a new frame.
LEMMA NewFrame ==
  ASSUME TypeOK, TypeOK', NEW p \in Places(message), Building(message, p), get_initial_frame
  PROVE  Building(message, p)'
<1>1. PICK size \in {InitialSize, ContinueSize} :
        frame' = [size |-> size, args |-> <<>>, more |-> FALSE]
  BY DEF get_initial_frame, NoFrame
<1>2. size # 0 /\ MaxFrame - size - 2 > 0
  BY FrameAssumption
<1>3. UNCHANGED <<message, phase, args, stream>> /\ frame = NoFrame /\ args # <<>>
  BY DEF get_initial_frame
<1>4. AllMore(stream) /\ LeftFrom(message, args, p) /\ Chain(message, stream, Start, p)
  BY <1>3 DEF Building
<1>5. Filling(message, <<>>, p, p)
  BY DEF Filling
<1>6. frame' # NoFrame /\ frame'.args = <<>> /\ ~frame'.more
  BY <1>1, <1>2 DEF NoFrame
<1>7. Avail' > 0
  <2>1. frame'.size = size
    BY <1>1
  <2> QED
    BY <1>2, <2>1 DEF Avail, space_available
<1>8. \E l \in Places(message') : Filling(message', frame'.args, p, l) /\ LeftFrom(message', args', l)
  BY <1>3, <1>4, <1>5, <1>6
<1> QED
  BY <1>3, <1>4, <1>6, <1>7, <1>8 DEF Building

\* The frame is put on the stream, and says whether another one follows.
LEMMA FrameDone ==
  ASSUME TypeOK, TypeOK', NEW p \in Places(message), Building(message, p), append_frame
  PROVE  \E q \in Places(message') : Building(message, q)'
<1>1. /\ UNCHANGED <<message, phase, args>> /\ frame # NoFrame /\ frame' = NoFrame
      /\ args = <<>> \/ Avail <= 0
      /\ stream' = Append(stream, [frame EXCEPT !.more = args # <<>>])
  BY DEF append_frame
<1>2. Chain(message, stream, Start, p) /\ AllMore(stream)
  BY <1>1 DEF Building
<1>3. message \in Message /\ args \in Seq(Bytes) /\ stream \in Seq(FrameType) /\ frame \in FrameType
  BY DEF TypeOK
<1>4. Avail \in Int
  BY <1>3, FrameAssumption DEF FrameType, Avail, space_available
<1>5. ~(Avail > 0 /\ \E l \in Places(message) : Filling(message, frame.args, p, l) /\ LeftFrom(message, args, l))
  <2> SUFFICES ASSUME Avail > 0, NEW l \in Places(message), LeftFrom(message, args, l) PROVE FALSE
    OBVIOUS
  <2>1. args # <<>>
    BY <1>3, LeftFirst
  <2>2. Avail <= 0
    BY <1>1, <2>1
  <2> QED
    BY <1>4, <2>2
<1>6. PICK q \in Places(message) :
        /\ Carries(message, frame.args, p, q)
        /\ \/ args = <<>> /\ q = End(message)
           \/ args # <<>> /\ Avail <= 0 /\ LeftFrom(message, args, q)
  BY <1>1, <1>5 DEF Building
<1> DEFINE f == [frame EXCEPT !.more = args # <<>>]
<1>7. f \in FrameType /\ f.args = frame.args /\ f.more = (args # <<>>)
  BY <1>3 DEF FrameType
<1> HIDE DEF f
<1>8. stream' = Append(stream, f)
  BY <1>1 DEF f
<1>9. Chain(message, stream', Start, q)
  BY <1>2, <1>3, <1>6, <1>7, <1>8, ChainAppend, Zenon
<1>10. IF args # <<>> THEN AllMore(stream') ELSE Ended(stream')
  BY <1>2, <1>3, <1>7, <1>8, MoreAppend, Zenon
<1>11. IF args = <<>> THEN q = End(message) /\ Ended(stream')
       ELSE AllMore(stream') /\ LeftFrom(message, args, q)
  BY <1>6, <1>10
<1>12. q \in Places(message') /\ frame' = NoFrame /\ message' = message /\ args' = args
  BY <1>1
<1>13. Building(message, q)'
  BY <1>9, <1>11, <1>12 DEF Building
<1> QED
  BY <1>12, <1>13

\* What a piece takes of the room of a frame: all, if some of the argument is left;
\* and if none is, a boundary leaves no room but for a frame with three bytes left.
LEMMA Room ==
  ASSUME NEW size \in Nat, NEW w \in Nat, NEW n \in Nat, NEW room \in Int,
         room = (MaxFrame - size) - 2, room > 0, w = IF room >= n THEN n ELSE room
  PROVE  /\ w <= n
         /\ size + 2 + w # 0
         /\ ~(room >= n) => w < n /\ (MaxFrame - (size + 2 + w)) - 2 <= 0
         /\ room >= n => w = n
         /\ 3 >= MaxFrame - (size + 2 + w) /\ MaxFrame - (size + 2 + w) # 3
              => (MaxFrame - (size + 2 + w)) - 2 <= 0
         /\ ~(3 >= MaxFrame - (size + 2 + w)) => (MaxFrame - (size + 2 + w)) - 2 > 0
<1>1. MaxFrame \in Nat
  BY FrameAssumption
<1>2. CASE room >= n
  BY <1>1, <1>2
<1>3. CASE ~(room >= n)
  BY <1>1, <1>3
<1> QED
  BY <1>2, <1>3

\* The frame takes a piece of the first argument that is left.
LEMMA PieceWritten ==
  ASSUME TypeOK, TypeOK', NEW p \in Places(message), Building(message, p), append_arg, ~ThreeLeft'
  PROVE  Building(message, p)'
<1> DEFINE w == Written
           size == frame.size + 2 + w
           buf == SubSeq(Head(args), 1, w)
           rest == SubSeq(Head(args), w + 1, Len(Head(args)))
<1>1. /\ UNCHANGED <<message, phase, stream>> /\ phase = "build"
      /\ frame # NoFrame /\ args # <<>> /\ Avail > 0
      /\ frame' = [frame EXCEPT !.size = size, !.args = Append(@, buf)]
      /\ args' = Remaining(rest, size)
  BY DEF append_arg
<1>2. /\ message \in Message /\ args \in Seq(Bytes) /\ frame \in FrameType
      /\ frame.size \in Nat /\ frame.args \in Seq(Bytes)
  BY DEF TypeOK, FrameType
<1>3. Avail \in Int /\ Avail = (MaxFrame - frame.size) - 2
  <2>1. MaxFrame \in Nat
    BY FrameAssumption
  <2>2. Avail = (MaxFrame - frame.size) - 2
    BY DEF Avail, space_available
  <2>3. \A s \in Nat : (MaxFrame - s) - 2 \in Int
    BY <2>1
  <2> QED
    BY <1>2, <2>2, <2>3, Zenon
<1>4. Chain(message, stream, Start, p) /\ AllMore(stream) /\ ~frame.more
  BY <1>1 DEF Building
<1>5. PICK l \in Places(message) : Filling(message, frame.args, p, l) /\ LeftFrom(message, args, l)
  <2>1. ~(Avail <= 0)
    BY <1>1, <1>3
  <2> QED
    BY <1>1, <2>1 DEF Building
<1> DEFINE n == message[l[1]] - l[2]
<1>6. /\ l[1] \in 1..3 /\ l[2] \in Nat /\ message[l[1]] \in Nat /\ l[2] <= message[l[1]]
      /\ n \in Nat
  <2>1. l[1] \in 1..3 /\ l[2] \in Nat /\ message[l[1]] \in Nat /\ l[2] <= message[l[1]]
    BY <1>2, PlacesAre
  <2>2. \A a \in Nat : \A b \in Nat : a <= b => b - a \in Nat
    OBVIOUS
  <2> QED
    BY <2>1, <2>2
<1>7. Head(args) = Piece(l[1], l[2], message[l[1]]) /\ Len(Head(args)) = n
  BY <1>2, <1>5, LeftFirst
<1>8. w = (IF Avail >= n THEN n ELSE Avail) /\ w \in Nat
  <2>1. w = (IF Avail >= n THEN n ELSE Avail)
    BY <1>7 DEF Written
  <2>2. Avail \in Nat
    BY <1>1, <1>3
  <2> QED
    BY <1>6, <2>1, <2>2
<1>9. /\ w <= n /\ size # 0
      /\ ~(Avail >= n) => w < n /\ (MaxFrame - size) - 2 <= 0
      /\ Avail >= n => w = n
      /\ 3 >= MaxFrame - size /\ MaxFrame - size # 3 => (MaxFrame - size) - 2 <= 0
      /\ ~(3 >= MaxFrame - size) => (MaxFrame - size) - 2 > 0
  <2>1. Avail > 0
    BY <1>1
  <2>2. frame.size \in Nat /\ n \in Nat
    BY <1>2, <1>6
  <2> DEFINE s == frame.size
             room == Avail
  <2>3. s \in Nat /\ n \in Nat /\ w \in Nat /\ room \in Int /\ room = (MaxFrame - s) - 2 /\ room > 0
        /\ w = (IF room >= n THEN n ELSE room)
    BY <1>3, <1>8, <2>1, <2>2
  <2> HIDE DEF w, n, s, room
  <2>4. /\ w <= n /\ s + 2 + w # 0
        /\ ~(room >= n) => w < n /\ (MaxFrame - (s + 2 + w)) - 2 <= 0
        /\ room >= n => w = n
        /\ 3 >= MaxFrame - (s + 2 + w) /\ MaxFrame - (s + 2 + w) # 3 => (MaxFrame - (s + 2 + w)) - 2 <= 0
        /\ ~(3 >= MaxFrame - (s + 2 + w)) => (MaxFrame - (s + 2 + w)) - 2 > 0
    BY <2>3, Room
  <2> QED
    BY <2>4 DEF s, room
<1>10. w \in 0..n
  BY <1>6, <1>8, <1>9
<1> DEFINE q == <<l[1], l[2] + w>>
<1>11. buf = Piece(l[1], l[2], l[2] + w) /\ rest = Piece(l[1], l[2] + w, message[l[1]])
  <2> HIDE DEF w
  <2> DEFINE first == Piece(l[1], l[2], message[l[1]])
  <2>1. /\ SubSeq(first, 1, w) = Piece(l[1], l[2], l[2] + w)
        /\ SubSeq(first, w + 1, Len(first)) = Piece(l[1], l[2] + w, message[l[1]])
    BY <1>6, <1>10, PieceCut
  <2> HIDE DEF first
  <2>2. Head(args) = first
    BY <1>7 DEF first
  <2> QED
    BY <2>1, <2>2, Zenon
<1>12. l[2] + w <= message[l[1]] /\ l[2] + w \in Nat
  <2>1. \A a, b, c \in Nat : c <= b - a => a + c <= b /\ a + c \in Nat
    OBVIOUS
  <2> HIDE DEF w
  <2> QED
    BY <1>6, <1>8, <1>9, <2>1
<1> HIDE DEF w, rest, buf
<1>13. q \in Places(message) /\ Carries(message, Append(frame.args, buf), p, q)
  BY <1>2, <1>5, <1>8, <1>11, <1>12, FillingMore
<1>14. q[1] = l[1] /\ q[2] = l[2] + w
  OBVIOUS
<1>15. rest = <<>> <=> l[2] + w = message[l[1]]
  <2>1. Piece(l[1], l[2] + w, message[l[1]]) = <<>> <=> l[2] + w = message[l[1]]
    BY <1>6, <1>12, PieceEmpty
  <2> QED
    BY <1>11, <2>1
<1>16. l[2] + w = message[l[1]] <=> w = n
  <2>1. \A a, b, c \in Nat : a + c = b <=> c = b - a
    OBVIOUS
  <2> QED
    BY <1>6, <1>8, <2>1
<1>17. /\ frame'.size = size /\ frame'.args = Append(frame.args, buf) /\ ~frame'.more
       /\ frame' # NoFrame
  <2>1. frame'.size = size /\ frame'.args = Append(frame.args, buf) /\ frame'.more = frame.more
    BY <1>1, <1>2 DEF FrameType
  <2>2. NoFrame.size = 0
    BY DEF NoFrame
  <2> QED
    BY <1>4, <1>9, <2>1, <2>2
<1>18. Avail' = (MaxFrame - size) - 2
  BY <1>17 DEF Avail, space_available
<1>19. LeftFrom(message, <<rest>> \o Tail(args), q)
  BY <1>2, <1>5, <1>11, <1>13, <1>14, LeftAfter
<1>20. /\ Len(args) > 1 <=> l[1] < 3
       /\ ~(l[1] < 3) => l[1] = 3 /\ Tail(args) = <<>>
       /\ l[1] < 3 => <<l[1] + 1, 0>> \in Places(message) /\ LeftFrom(message, Tail(args), <<l[1] + 1, 0>>)
  BY <1>2, <1>5, LeftNext, Zenon
<1>21. \/ Avail' > 0 /\ \E k \in Places(message) : Filling(message, frame'.args, p, k) /\ LeftFrom(message, args', k)
       \/ /\ Carries(message, frame'.args, p, q)
          /\ \/ args' = <<>> /\ q = End(message)
             \/ args' # <<>> /\ Avail' <= 0 /\ LeftFrom(message, args', q)
  <2>1. CASE rest # <<>>
    <3>1. args' = <<rest>> \o Tail(args)
      BY <1>1, <2>1 DEF Remaining
    <3>2. Avail' <= 0
      BY <1>9, <1>15, <1>16, <1>18, <2>1
    <3>3. args' # <<>>
      BY <1>2, <1>13, <1>19, <3>1, LeftFirst DEF TypeOK
    <3> QED
      BY <1>13, <1>17, <1>19, <3>1, <3>2, <3>3
  <2>2. CASE rest = <<>> /\ ~(l[1] < 3)
    <3>1. args' = <<>>
      BY <1>1, <1>20, <2>2 DEF Remaining
    <3>2. q = End(message)
      BY <1>15, <1>20, <2>2 DEF End
    <3> QED
      BY <1>13, <1>17, <3>1, <3>2
  <2>3. CASE rest = <<>> /\ l[1] < 3 /\ is_frame_boundary(size)
    <3>1. args' = <<rest>> \o Tail(args)
      BY <1>1, <1>20, <2>3 DEF Remaining
    <3>2. args' # <<>>
      BY <1>2, <1>13, <1>19, <3>1, LeftFirst DEF TypeOK
    <3>3. frame'.args # <<>>
      BY <1>2, <1>13, <1>17, CarriesSome
    <3>4. MaxFrame - size # 3
      BY <1>1, <1>17, <3>2, <3>3 DEF ThreeLeft, space_available
    <3>5. Avail' <= 0
      BY <1>9, <1>18, <2>3, <3>4 DEF is_frame_boundary, space_available
    <3> QED
      BY <1>13, <1>17, <1>19, <3>1, <3>2, <3>5
  <2>4. CASE rest = <<>> /\ l[1] < 3 /\ ~is_frame_boundary(size)
    <3>1. args' = Tail(args)
      BY <1>1, <2>4 DEF Remaining
    <3>2. Avail' > 0
      BY <1>9, <1>18, <2>4 DEF is_frame_boundary, space_available
    <3>3. Filling(message, frame'.args, p, <<l[1] + 1, 0>>)
      BY <1>13, <1>14, <1>15, <1>17, <2>4 DEF Filling
    <3> QED
      BY <1>20, <2>4, <3>1, <3>2, <3>3
  <2> QED
    BY <2>1, <2>2, <2>3, <2>4
<1>22. \/ Avail' > 0 /\ \E k \in Places(message') : Filling(message', frame'.args, p, k) /\ LeftFrom(message', args', k)
       \/ \E k \in Places(message') :
            /\ Carries(message', frame'.args, p, k)
            /\ \/ args' = <<>> /\ k = End(message')
               \/ args' # <<>> /\ Avail' <= 0 /\ LeftFrom(message', args', k)
  BY <1>1, <1>13, <1>21
<1> QED
  BY <1>1, <1>4, <1>17, <1>22 DEF Building

\* The frames go on their way.
LEMMA AllWritten ==
  ASSUME TypeOK, NEW p \in Places(message), Building(message, p), reader = NewReader, write_frames
  PROVE  Reading(message, Start)'
<1>1. UNCHANGED <<message, stream, frame, reader>> /\ frame = NoFrame /\ args = <<>>
  BY DEF write_frames
<1>2. Chain(message, stream, Start, End(message)) /\ Ended(stream)
  BY <1>1 DEF Building
<1>3. ReadTo(message, reader, Start)
  BY NothingRead DEF TypeOK
<1>4. frame.args = <<>>
  BY <1>1 DEF NoFrame
<1> QED
  BY <1>1, <1>2, <1>3, <1>4 DEF Reading

\* The reader takes the next frame.
LEMMA FrameRead ==
  ASSUME TypeOK, TypeOK', NEW r \in Places(message), Reading(message, r), read_frame
  PROVE  Reading(message, r)'
<1>1. /\ UNCHANGED <<message, reader>> /\ frame.args = <<>> /\ stream # <<>>
      /\ frame' = Head(stream) /\ stream' = Tail(stream)
  BY DEF read_frame
<1>2. message \in Message /\ stream \in Seq(FrameType)
  BY DEF TypeOK
<1>3. ReadTo(message, reader, r) /\ Chain(message, stream, r, End(message)) /\ Ended(stream)
  BY <1>1 DEF Reading
<1>4. PICK q \in Places(message) :
        Carries(message, Head(stream).args, r, q) /\ Chain(message, Tail(stream), q, End(message))
  BY <1>1, <1>2, <1>3, ChainTail
<1>5. IF Head(stream).more THEN Ended(Tail(stream)) ELSE Tail(stream) = <<>>
  BY <1>2, <1>3, EndedTail
<1>6. Head(stream).args # <<>>
  BY <1>2, <1>4, CarriesSome
<1>7. Tail(stream) = <<>> => q = End(message)
  BY <1>4, ChainNone
<1>8. /\ frame'.args # <<>> /\ Carries(message, frame'.args, r, q)
      /\ IF frame'.more THEN Chain(message, stream', q, End(message)) /\ Ended(stream')
         ELSE q = End(message) /\ stream' = <<>>
  BY <1>1, <1>4, <1>5, <1>6, <1>7
<1>9. \E k \in Places(message') :
            /\ Carries(message', frame'.args, r, k)
            /\ IF frame'.more THEN Chain(message', stream', k, End(message')) /\ Ended(stream')
               ELSE k = End(message') /\ stream' = <<>>
  BY <1>1, <1>8
<1> QED
  BY <1>1, <1>3, <1>8, <1>9 DEF Reading

\* The reader takes a piece, and goes on in this argument or with the next one.
LEMMA PieceRead ==
  ASSUME TypeOK, TypeOK', NEW r \in Places(message), Reading(message, r), process_arg
  PROVE  HasRead(message)' \/ \E k \in Places(message') : Reading(message, k)'
<1> DEFINE l == r[1]
<1>1. message \in Message /\ ReadTo(message, reader, r) /\ stream \in Seq(FrameType)
      /\ reader \in [1..3 -> [value : Bytes, complete : BOOLEAN]]
      /\ frame \in FrameType /\ frame.args \in Seq(Bytes)
  BY DEF TypeOK, Reading, FrameType
<1>2. get_incomplete_arg = l
  BY <1>1, NextArg
<1>3. /\ UNCHANGED <<message, stream>> /\ frame.args # <<>>
      /\ reader' = [reader EXCEPT ![l] = [value |-> Received(l), complete |-> Ends]]
      /\ frame' = [frame EXCEPT !.args = Tail(@)]
  BY <1>2 DEF process_arg
<1>4. frame'.args = Tail(frame.args) /\ frame'.more = frame.more
  BY <1>1, <1>3 DEF FrameType
<1>5. PICK q \in Places(message) :
        /\ Carries(message, frame.args, r, q)
        /\ IF frame.more THEN Chain(message, stream, q, End(message)) /\ Ended(stream)
           ELSE q = End(message) /\ stream = <<>>
  BY <1>3 DEF Reading
<1>6. l \in 1..3 /\ r[2] \in Nat /\ message[l] \in Nat /\ r[2] <= message[l] /\ r = <<l, r[2]>>
  BY <1>1, PlacesAre
<1>7. CASE Len(frame.args) > 1
  <2> DEFINE next == <<l + 1, 0>>
  <2>1. /\ l < 3 /\ Head(frame.args) = Piece(l, r[2], message[l])
        /\ next \in Places(message) /\ Carries(message, Tail(frame.args), next, q)
    BY <1>1, <1>5, <1>7, CarriesHead
  <2>2. Ends = TRUE
    BY <1>7 DEF Ends
  <2> DEFINE end == <<l, message[l]>>
  <2>3. end \in Places(message) /\ end[1] = l /\ end[2] = message[l]
    <3>1. message[l] <= message[l]
      BY <1>6
    <3> QED
      BY <1>1, <1>6, <3>1, PlacesAre
  <2>4. Received(l) = Piece(l, 0, message[l])
    <3> HIDE DEF end
    <3>1. reader[r[1]].value \o Piece(r[1], r[2], end[2]) = Piece(r[1], 0, end[2])
      <4>1. r[2] <= end[2]
        BY <1>6, <2>3
      <4> QED
        BY <1>1, <2>3, <4>1, ReadMore, Zenon
    <3> QED
      BY <2>1, <2>3, <3>1 DEF Received
  <2>5. reader' = [reader EXCEPT ![l] = [value |-> Piece(l, 0, message[l]), complete |-> TRUE]]
    BY <1>3, <2>2, <2>4
  <2>6. ReadTo(message, reader', next)
    <3>1. Through(message, reader', l)
      BY <1>1, <2>5, ReadArg, Zenon
    <3>2. l \in 1..2
      BY <1>6, <2>1
    <3> QED
      BY <1>1, <3>1, <3>2, ReadNext, Zenon
  <2>7. Tail(frame.args) # <<>>
    BY <1>1, <2>1, CarriesSome
  <2> HIDE DEF next
  <2>8. Reading(message, next)'
    BY <1>3, <1>4, <1>5, <2>1, <2>6, <2>7 DEF Reading
  <2> QED
    BY <1>3, <2>1, <2>8
<1>8. CASE Len(frame.args) = 1
  <2>1. l = q[1] /\ r[2] <= q[2] /\ Head(frame.args) = Piece(l, r[2], q[2]) /\ Tail(frame.args) = <<>>
    BY <1>1, <1>5, <1>8, CarriesLast
  <2>2. /\ Received(l) = Piece(l, 0, q[2])
        /\ \A new : new = [reader EXCEPT ![l] = [value |-> Piece(l, 0, q[2]), complete |-> FALSE]]
                    => ReadTo(message, new, q)
    BY <1>1, <2>1, ReadMore DEF Received
  <2>3. Ends = ~frame.more
    BY <1>1, <1>8 DEF Ends, FrameType
  <2>4. CASE frame.more
    <3>1. reader' = [reader EXCEPT ![l] = [value |-> Piece(l, 0, q[2]), complete |-> FALSE]]
      BY <1>3, <2>2, <2>3, <2>4
    <3>2. ReadTo(message, reader', q)
      BY <2>2, <3>1
    <3>3. Chain(message, stream, q, End(message)) /\ Ended(stream)
      BY <1>5, <2>4
    <3>4. Reading(message, q)'
      BY <1>3, <1>4, <2>1, <3>2, <3>3 DEF Reading
    <3> QED
      BY <1>3, <3>4
  <2>5. CASE ~frame.more
    <3>1. q = End(message) /\ stream = <<>>
      BY <1>5, <2>5
    <3>2. l = 3 /\ q[2] = message[l]
      BY <2>1, <3>1 DEF End
    <3>3. reader' = [reader EXCEPT ![l] = [value |-> Piece(l, 0, message[l]), complete |-> TRUE]]
      BY <1>3, <2>2, <2>3, <2>5, <3>2
    <3>4. \A k \in 1..3 : reader'[k].complete /\ reader'[k].value = Argument(message, k)
      <4>1. Through(message, reader', l)
        BY <1>1, <3>3, ReadArg, Zenon
      <4>2. Through(message, reader', 3)
        BY <3>2, <4>1, Zenon
      <4> QED
        BY <1>1, <4>2, ReadEnd, Zenon
    <3>5. HasRead(message)'
      BY <1>3, <1>4, <2>1, <3>1, <3>4 DEF HasRead
    <3> QED
      BY <3>5
  <2> QED
    BY <2>4, <2>5
<1> QED
  BY <1>1, <1>5, <1>7, <1>8, CarriesSome

\* A complete message is read to its end.
LEMMA CompleteHasRead ==
  ASSUME TypeOK, Whole, phase = "read", is_complete
  PROVE  HasRead(message)
<1>1. message \in Message
  BY DEF TypeOK
<1>2. ASSUME NEW r \in Places(message), Reading(message, r) PROVE FALSE
  <2>1. ReadTo(message, reader, r)
    BY <1>2 DEF Reading
  <2> QED
    BY <1>1, <2>1, NextArg
<1> QED
  BY <1>2 DEF Whole

\* Each step keeps it, as long as no argument leaves three bytes to the next one.
LEMMA NextWhole ==
  ASSUME TypeOK, TypeOK', Whole, [Next]_vars, ~ThreeLeft'
  PROVE  Whole'
<1>1. CASE get_initial_frame
  <2>1. reader = NewReader /\ \E p \in Places(message) : Building(message, p)
    BY <1>1 DEF get_initial_frame, Whole
  <2>2. \E p \in Places(message) : Building(message, p)'
    BY <1>1, <2>1, NewFrame
  <2> QED
    BY <1>1, <2>1, <2>2 DEF get_initial_frame, Whole
<1>2. CASE append_arg
  <2>1. reader = NewReader /\ \E p \in Places(message) : Building(message, p)
    BY <1>2 DEF append_arg, Whole
  <2>2. \E p \in Places(message) : Building(message, p)'
    BY <1>2, <2>1, PieceWritten
  <2>3. UNCHANGED <<message, phase, reader>> /\ phase = "build"
    BY <1>2 DEF append_arg
  <2> QED
    BY <2>1, <2>2, <2>3 DEF Whole
<1>3. CASE append_frame
  <2>1. reader = NewReader /\ \E p \in Places(message) : Building(message, p)
    BY <1>3 DEF append_frame, Whole
  <2>2. \E p \in Places(message') : Building(message, p)'
    BY <1>3, <2>1, FrameDone
  <2> QED
    BY <1>3, <2>1, <2>2 DEF append_frame, Whole
<1>4. CASE write_frames
  <2>1. reader = NewReader /\ \E p \in Places(message) : Building(message, p)
    BY <1>4 DEF write_frames, Whole
  <2>2. Reading(message, Start)'
    BY <1>4, <2>1, AllWritten
  <2>3. Start \in Places(message')
    BY PlacesAre DEF TypeOK
  <2> QED
    BY <1>4, <2>2, <2>3 DEF write_frames, Whole
<1>5. CASE read_frame
  <2>1. ~HasRead(message)
    BY <1>5 DEF read_frame, HasRead
  <2>2. \E r \in Places(message) : Reading(message, r)
    BY <1>5, <2>1 DEF read_frame, Whole
  <2>3. \E r \in Places(message) : Reading(message, r)'
    BY <1>5, <2>2, FrameRead
  <2> QED
    BY <1>5, <2>3 DEF read_frame, Whole
<1>6. CASE process_arg
  <2>1. ~HasRead(message)
    BY <1>6 DEF process_arg, HasRead
  <2>2. \E r \in Places(message) : Reading(message, r)
    BY <1>6, <2>1 DEF process_arg, Whole
  <2>3. HasRead(message)' \/ \E r \in Places(message') : Reading(message, r)'
    BY <1>6, <2>2, PieceRead
  <2>4. UNCHANGED phase /\ phase = "read"
    BY <1>6 DEF process_arg
  <2> QED
    BY <2>3, <2>4 DEF Whole
<1>7. CASE NextMessage
  <2>1. stream = <<>>
    BY <1>7, CompleteHasRead DEF NextMessage, HasRead
  <2>2. Building(message, Start)'
    <3>1. phase' = "build" /\ frame' = NoFrame /\ args' = Arguments(message') /\ stream' = <<>>
      BY <1>7, <2>1 DEF NextMessage
    <3>2. (phase = "build" /\ frame = NoFrame /\ args = Arguments(message) /\ stream = <<>> /\ TypeOK
             => Building(message, Start))'
      BY Starts, PTL
    <3> QED
      BY <3>1, <3>2
  <2>3. Start \in Places(message')
    BY PlacesAre DEF TypeOK
  <2> QED
    BY <1>7, <2>2, <2>3 DEF NextMessage, Whole
<1>8. CASE UNCHANGED vars
  BY <1>8 DEF vars, Whole, Building, Reading, HasRead, Avail, space_available
<1> QED
  BY <1>1, <1>2, <1>3, <1>4, <1>5, <1>6, <1>7, <1>8 DEF Next

\* Messages are whole at every moment, unless three bytes are left for an argument.
LEMMA AlwaysWhole == Spec /\ []~ThreeLeft => [](TypeOK /\ Whole)
<1>1. Init => TypeOK /\ Whole
  <2> SUFFICES ASSUME Init PROVE TypeOK /\ Whole
    OBVIOUS
  <2>1. TypeOK
    BY InitTypeOK
  <2>2. Building(message, Start)
    BY <2>1, Starts DEF Init
  <2>3. Start \in Places(message)
    BY <2>1, PlacesAre DEF TypeOK
  <2> QED
    BY <2>1, <2>2, <2>3 DEF Init, Whole
<1>2. TypeOK /\ Whole /\ [Next]_vars /\ ~ThreeLeft' => (TypeOK /\ Whole)'
  BY NextTypeOK, NextWhole
<1> QED
  BY <1>1, <1>2, PTL DEF Spec

\* Every frame that is built fits its length field, and arguments stay sequences of
\* bytes, whatever the sizes of the frames and the messages.
THEOREM TypeCorrect == Spec => []TypeOK
<1>1. Init => TypeOK
  BY InitTypeOK
<1>2. TypeOK /\ [Next]_vars => TypeOK'
  BY NextTypeOK
<1>3. QED
  BY <1>1, <1>2, PTL DEF Spec

\* When the reader has the three arguments of a message, it has taken all of the
\* message's frames, if no argument but the last ends three bytes before the end of its
\* frame; if one does, frames may be left.
THEOREM TakesAllFrames == Spec /\ []~ThreeLeft => []NothingLeft
<1>1. TypeOK /\ Whole => NothingLeft
  BY CompleteHasRead DEF NothingLeft, HasRead
<1> QED
  BY <1>1, AlwaysWhole, PTL

\* Under the same condition, without which it is false, the arguments come back as they
\* were sent, whatever else their lengths and the sizes of the frames are.
THEOREM ComesBack == Spec /\ []~ThreeLeft => []Reassembles
<1>1. TypeOK /\ Whole => Reassembles
  BY CompleteHasRead DEF Reassembles, HasRead
<1> QED
  BY <1>1, AlwaysWhole, PTL
=============================================================================
