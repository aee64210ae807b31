----------------------------- MODULE FragmentsMC ----------------------------
EXTENDS Fragments

\* The size of the frame in which an argument of n bytes ends, when it starts in a
\* frame of this size.
EndsAt(size, n) ==
  LET first == MaxFrame - size - 2
      further == MaxFrame - ContinueSize - 2
  IN  IF n <= first THEN size + 2 + n
      ELSE ContinueSize + 2 + ((n - first - 1) % further) + 1

\* Where the next argument starts.
StartsAt(size) == IF is_frame_boundary(size) THEN ContinueSize + 2 ELSE size

\* All messages of up to five frames, but for those whose first or second argument
\* ends three bytes before the end of a frame: they do not come back as they were.
MCMessage ==
  {m \in (0..13) \X (0..6) \X (0..14) :
     LET end1 == EndsAt(InitialSize, m[1])
         end2 == EndsAt(StartsAt(end1), m[2])
     IN  space_available(end1) # 3 /\ space_available(end2) # 3}
=============================================================================
