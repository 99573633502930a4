------------------------------ MODULE LossyFifo ------------------------------
(***************************************************************************)
(* What one subscriber may expect of the event bus: a bounded first-in     *)
(* first-out channel.  The sender never waits.  An item offered to a full  *)
(* channel is lost, and every loss is counted.  Items are numbered in the  *)
(* order in which the bus published them.                                  *)
(***************************************************************************)
EXTENDS Naturals, Sequences

CONSTANT Capacity  \* slots of the channel, at least one

VARIABLES
  phase,    \* "new" until the subscription, "open", "closed" for good
  queue,    \* numbers of the items in the channel, oldest first
  got,      \* numbers of the items received so far
  dropped,  \* how many items were lost
  seen      \* number of the last item offered

vars == <<phase, queue, got, dropped, seen>>

Init ==
  /\ phase = "new"
  /\ queue = <<>>
  /\ got = <<>>
  /\ dropped = 0
  /\ seen = 0

Open ==
  /\ phase = "new"
  /\ phase' = "open"
  /\ UNCHANGED <<queue, got, dropped, seen>>

\* Items are offered in increasing order; the only way to lose one is a full
\* channel.
Offer ==
  /\ phase = "open"
  /\ seen' > seen
  /\ \/ /\ Len(queue) < Capacity
        /\ queue' = Append(queue, seen')
        /\ UNCHANGED dropped
     \/ /\ Len(queue) = Capacity
        /\ dropped' = dropped + 1
        /\ UNCHANGED queue
  /\ UNCHANGED <<phase, got>>

Take ==
  /\ phase = "open"
  /\ queue # <<>>
  /\ got' = Append(got, Head(queue))
  /\ queue' = Tail(queue)
  /\ UNCHANGED <<phase, dropped, seen>>

\* What is still in the channel goes with its receiver.
Close ==
  /\ phase = "open"
  /\ phase' = "closed"
  /\ queue' = <<>>
  /\ UNCHANGED <<got, dropped, seen>>

Next == Open \/ Offer \/ Take \/ Close

Spec == Init /\ [][Next]_vars
=============================================================================
