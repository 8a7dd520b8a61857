-------------------------------- MODULE NALUs --------------------------------
(***************************************************************************)
(* What both video codecs have in common: access units are sequences of    *)
(* NALUs, and an RTP payload carries one NALU, several (aggregation), or a *)
(* part of one (fragmentation).  A NALU is told from another of its type   *)
(* by an id, its content.                                                  *)
(***************************************************************************)
EXTENDS SequencesExt

Nil == [typ |-> "nil", id |-> 0]

\* The types that the processors tell apart; P is every other.
Types == {"VPS", "SPS", "PPS", "AUD", "IDR", "CRA", "P"}

\* The NALUs of some types, in their order.
OfTypes(nalus, types) ==
  LET kept[i \in 0..Len(nalus)] ==
        IF i = 0 THEN <<>>
        ELSE IF nalus[i].typ \in types THEN Append(kept[i - 1], nalus[i])
        ELSE kept[i - 1]
  IN kept[Len(nalus)]

\* The last NALU of a type, nil if there is none.
LastOf(nalus, t) ==
  LET same == OfTypes(nalus, {t})
  IN IF same = <<>> THEN Nil ELSE Last(same)

Single(n)   == [form |-> "single", nalus |-> <<n>>]
Aggregate(nalus) == [form |-> "aggregate", nalus |-> nalus]
Malformed(nalus) == [form |-> "malformed", nalus |-> nalus]  \* ends in a size beyond the payload
FragmentStart(n) == [form |-> "start", nalus |-> <<n>>]
FragmentEnd(n)   == [form |-> "end", nalus |-> <<n>>]
=============================================================================
