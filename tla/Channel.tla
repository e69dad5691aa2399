------------------------------ MODULE Channel ------------------------------
(***************************************************************************)
(* What a connection promises to the side that reads: the lines that were  *)
(* put in arrive whole, once each and in the order in which they were put  *)
(* in, as long as it holds; when it is cut, the last ones may be lost.     *)
(* Link.tla implements it with buffers, sockets and a loop around poll.    *)
(***************************************************************************)
EXTENDS Naturals, Sequences

CONSTANT Line

VARIABLES
  inside,           \* the lines on their way, oldest first
  arrived           \* the lines that have arrived

Init == inside = <<>> /\ arrived = <<>>

Put ==
  /\ Len(inside) < Len(inside')
  /\ inside' \in Seq(Line)
  /\ SubSeq(inside', 1, Len(inside)) = inside
  /\ UNCHANGED arrived

Arrive ==
  /\ inside # <<>>
  /\ arrived' = Append(arrived, Head(inside))
  /\ inside' = Tail(inside)

Cut ==
  /\ \E n \in 0 .. Len(inside) : inside' = SubSeq(inside, 1, n)
  /\ UNCHANGED arrived

Next == Put \/ Arrive \/ Cut

Spec == Init /\ [][Next]_<<inside, arrived>>
=============================================================================
