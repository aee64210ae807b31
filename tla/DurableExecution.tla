-------------------------- MODULE DurableExecution --------------------------
(***************************************************************************)
(* What the library promises of a workflow execution (README.md:3): the    *)
(* state of the function is not lost, whatever happens to the workers.     *)
(* The execution is one run of the code, which only ever goes forward:     *)
(* what it has done is never done again nor undone, and the workflow       *)
(* method and each signal method do their operations in program order.     *)
(***************************************************************************)
EXTENDS Naturals, Sequences, FiniteSets, SequencesExt

VARIABLES
  done,  \* the operations done, in order: <<<<task, place in its code>>, outcome>>
  closed \* whether the execution is closed

Init ==
  /\ done = <<>>
  /\ closed = FALSE

\* Each task is as far as the number of operations it has done.
InProgramOrder(operations) ==
  \A i \in DOMAIN operations :
    LET task == operations[i][1][1]
        earlier == {j \in 1..(i - 1) : operations[j][1][1] = task}
    IN  operations[i][1][2] = Cardinality(earlier) + 1

\* The execution does some more operations, and perhaps closes.
Advance ==
  /\ ~closed
  /\ IsPrefix(done, done')
  /\ InProgramOrder(done')
  /\ closed' \in BOOLEAN

Spec == Init /\ [][Advance]_<<done, closed>>
=============================================================================
