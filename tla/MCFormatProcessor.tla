-------------------------- MODULE MCFormatProcessor --------------------------
(***************************************************************************)
(* FormatProcessor.tla with a publisher that is tidy: an access unit has   *)
(* its NALUs in the order of the standards, each parameter set once, and   *)
(* at most two with video, the last of which may bring the marker.  Only   *)
(* the SPS ever changes, and CRA comes in H265 only, which comes without   *)
(* delimiters, so that a key frame with its three parameter sets fits      *)
(* MaxNALUs.                                                               *)
(***************************************************************************)
EXTENDS FormatProcessor

MCInit == Init /\ arriving = 0

Rank(n) ==
  CASE n.typ = "AUD" -> 1 [] n.typ = "VPS" -> 2 [] n.typ = "SPS" -> 3
    [] n.typ = "PPS" -> 4 [] OTHER -> 5

Tidy(payload) ==
  LET nalus == payload.nalus
      all   == frame \o nalus
  IN /\ \A i \in DOMAIN nalus : nalus[i].id = 2 => nalus[i].typ = "SPS"
     /\ \A i \in 2..Len(all) :
          \/ Rank(all[i - 1]) < Rank(all[i])
          \/ /\ IsVideo(all[i - 1]) /\ all[i].typ = "P"
             /\ i > 2 => ~IsVideo(all[i - 2])
     /\ forma # "H265" => \A i \in DOMAIN nalus : nalus[i].typ # "CRA"
     /\ forma = "H265" => \A i \in DOMAIN nalus : nalus[i].typ # "AUD"
     /\ payload.form \in {"start", "malformed"} => Last(nalus).typ = "IDR"

MayEnd(payload) == payload.form # "start" /\ IsVideo(Last(payload.nalus))

\* A lost packet of another form is lost like one with a single NALU.
Losses == {"single", "start", "end"}

MCNext ==
  \E payload \in {p \in Payloads : Tidy(p)} :
    \E marker \in {FALSE, MayEnd(payload)} :
      LET packet(size, padding) ==
            [seq |-> arriving, marker |-> marker, size |-> size,
             padding |-> padding, payload |-> payload]
      IN \/ \E size \in Sizes, padding \in Paddings :
              encoder = None /\ WritePacket(packet(size, padding))
         \/ encoder # None /\ WritePacket(packet(1400, 0))
         \/ ~marker /\ payload.form \in Losses /\ LosePacket(packet(1400, 0))

MCSpec == MCInit /\ [][MCNext]_vars
=============================================================================
