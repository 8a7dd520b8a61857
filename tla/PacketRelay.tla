----------------------------- MODULE PacketRelay -----------------------------
(***************************************************************************)
(* What the readers of a format may count on, however its packets are      *)
(* processed: packets come with the numbers of the publisher, or, from     *)
(* some packet on and for ever, with numbers of the server's own that      *)
(* start at that packet's number and leave none out.                       *)
(***************************************************************************)
EXTENDS Naturals, Sequences

CONSTANTS SeqWrap, None

VARIABLES
  arriving,   \* the number of the publisher's next packet
  own,        \* the server's next number, None as long as it uses the publisher's
  numbers     \* the packets sent for the last one that came

Init ==
  /\ arriving \in 0..(SeqWrap - 1)
  /\ own = None
  /\ numbers = <<>>

Arrive == arriving' = (arriving + 1) % SeqWrap

\* The packet is passed on, or nothing is sent for it: it was lost or refused.
Pass ==
  /\ own = None
  /\ Arrive
  /\ numbers' \in {<<>>, <<arriving>>}
  /\ UNCHANGED own

\* Any number of packets is sent in its place.
Replace ==
  LET first == IF own = None THEN arriving ELSE own
  IN /\ Arrive
     /\ own' \in 0..(SeqWrap - 1)
     /\ numbers' \in Seq(0..(SeqWrap - 1))
     /\ own' = (first + Len(numbers')) % SeqWrap
     /\ \A i \in 1..Len(numbers') : numbers'[i] = (first + i - 1) % SeqWrap

Next == Pass \/ Replace

Spec == Init /\ [][Next]_<<arriving, own, numbers>>
=============================================================================
