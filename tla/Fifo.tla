-------------------------------- MODULE Fifo --------------------------------
(***************************************************************************)
(* What a queue promises: items are taken in the order in which they were  *)
(* put, each put at most once per put.  It says nothing of what happens to *)
(* an item once it is taken.                                               *)
(***************************************************************************)
EXTENDS Naturals, Sequences

CONSTANT Item

VARIABLES
  pending, \* the items put and not yet taken, oldest first
  taken    \* the items taken, in order

fifoVars == <<pending, taken>>

Init == pending = << >> /\ taken = << >>

Put(i) == pending' = Append(pending, i) /\ UNCHANGED taken

Take ==
  /\ pending # << >>
  /\ taken' = Append(taken, Head(pending))
  /\ pending' = Tail(pending)

Next == Take \/ \E i \in Item : Put(i)

Spec == Init /\ [][Next]_fifoVars
=============================================================================
