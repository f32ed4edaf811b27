--------------------------- MODULE DocumentIntake ---------------------------
(***************************************************************************)
(* What the staging inbox promises a device that keeps re-sending a        *)
(* document it got no answer for: the document may be staged and dropped   *)
(* any number of times, but it enters the books at most once and is never  *)
(* taken out again.                                                        *)
(***************************************************************************)
EXTENDS Naturals

CONSTANT Docs

VARIABLES
  staged,   \* documents the server holds for promotion
  copies    \* how many times a document is in the books

Init ==
  /\ staged = {}
  /\ copies = [d \in Docs |-> 0]

Stage(d) == staged' = staged \cup {d} /\ UNCHANGED copies

Drop(d) == staged' = staged \ {d} /\ UNCHANGED copies

Enter(d) ==
  /\ d \in staged
  /\ copies[d] = 0
  /\ copies' = [copies EXCEPT ![d] = 1]
  /\ UNCHANGED staged

Next == \E d \in Docs : Stage(d) \/ Drop(d) \/ Enter(d)

Spec == Init /\ [][Next]_<<staged, copies>>

=============================================================================
