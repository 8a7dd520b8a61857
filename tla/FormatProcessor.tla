--------------------------- MODULE FormatProcessor ---------------------------
(***************************************************************************)
(* One format of a stream (mediamtx/stream/stream_format.go and            *)
(* mediamtx/formatprocessor): what becomes of the RTP packets of the       *)
(* publisher before the readers get them.  Packets are routed as they are  *)
(* until one exceeds the maximum size.  From then on a video format is     *)
(* decoded to access units and encoded again; a packet of another format   *)
(* is refused.                                                             *)
(*                                                                         *)
(* In this program nobody calls AddReader or WriteUnit, so a decoder       *)
(* exists only for an encoder and ProcessUnit never runs.                  *)
(*                                                                         *)
(* gortsplib's RTP decoder and encoder are not part of the repository.     *)
(* What is modelled of them: a decoder collects NALUs until the marker,    *)
(* refuses a fragment whose start it did not see and an access unit of too *)
(* many NALUs; an encoder makes packets up to its maximum payload, with    *)
(* numbers that follow each other.                                         *)
(***************************************************************************)
EXTENDS Naturals, NALUs

CONSTANTS
  SeqWrap,             \* RTP sequence numbers wrap here, 2^16
  UDPMaxPayloadSize,  \* udpMaxPayloadSize
  Sizes,              \* of the publisher's packets, without padding
  Paddings,           \* lengths of their padding
  MaxNALUs,           \* in an access unit, gortsplib's limit
  MaxPackets,         \* a bound on the packets of an access unit
  TagMod,             \* video NALUs are numbered by the publisher, modulo TagMod
  ParamIds,           \* contents of parameter sets
  None                \* no number

HeaderSize == 12

ASSUME NumbersWrap == SeqWrap \in Nat \ {0}
ASSUME NoneIsNoNumber == None \notin 0..(SeqWrap - 1)
ASSUME SizesAreNumbers ==
  /\ UDPMaxPayloadSize \in Nat /\ UDPMaxPayloadSize > HeaderSize
  /\ Sizes \subseteq Nat /\ Paddings \subseteq Nat
ASSUME BoundsAreNumbers == MaxPackets \in Nat /\ MaxNALUs \in Nat /\ TagMod \in Nat \ {0}

VARIABLES
  \* ---- the format processor
  forma,     \* "H265", "H264", "generic"
  params,    \* the parameter sets in its format
  encoder,   \* its encoder's next number, None without an encoder
  frame,     \* its decoder: the NALUs of the access unit under way,
  fragment,  \*   and the one of which only a part has come
  unit,      \* the unit made of the last packet
  \* ---- the publisher
  arriving,  \* the number of its next packet
  partial,   \* the NALU it has still to send the rest of
  tag,       \* the number of its next video NALU
  \* ---- history
  expected,  \* the number after the last one sent to the readers
  missing,   \* a routed packet was lost or refused since
  shown,     \* the video NALU after the last one sent to the readers
  torn,      \* a packet was lost or refused since the readers had all there was
  decoded    \* the access unit that the last packet completed

procVars == <<params, encoder, frame, fragment>>
vars == <<forma, params, encoder, frame, fragment, unit, arriving, partial, tag,
          expected, missing, shown, torn, decoded>>

SeqNumbers == 0..(SeqWrap - 1)

H265 == INSTANCE H265
H264 == INSTANCE H264

ParamTypes == [H265 |-> H265!ParamTypes, H264 |-> H264!ParamTypes, generic |-> {}]

KeyTypes == [H265 |-> H265!KeyTypes, H264 |-> H264!KeyTypes, generic |-> {}]

\* CRA is a type of H265; in another format it stands for any other slice.
VideoTypes == {"IDR", "CRA", "P"}

IsVideo(n) == n.typ \in VideoTypes

NoUnit == [packets |-> <<>>, nalus |-> <<>>]

TypeOK ==
  /\ forma \in {"H265", "H264", "generic"}
  /\ DOMAIN params = ParamTypes[forma]
  /\ encoder \in SeqNumbers \cup {None}
  /\ Len(frame) \in 0..MaxNALUs
  /\ arriving \in SeqNumbers
  /\ tag \in 0..(TagMod - 1)
  /\ expected \in SeqNumbers \cup {None}
  /\ shown \in 0..(TagMod - 1) \cup {None}
  /\ missing \in BOOLEAN /\ torn \in BOOLEAN

\* newH265, newH264 and newGeneric: no encoder and no decoder, and the parameter
\* sets of the publisher's announcement, if it has them.
NoDecoder == encoder = None /\ frame = <<>> /\ fragment = Nil

Announced(types) == {[t \in types |-> Nil], [t \in types |-> [typ |-> t, id |-> 1]]}

newH265 == forma = "H265" /\ params \in Announced(H265!ParamTypes) /\ NoDecoder

newH264 == forma = "H264" /\ params \in Announced(H264!ParamTypes) /\ NoDecoder

newGeneric == forma = "generic" /\ params = <<>> /\ NoDecoder

\* formatprocessor.New: one for each format.
New == newH265 \/ newH264 \/ newGeneric

Init ==
  /\ New
  /\ unit = NoUnit
  /\ arriving \in SeqNumbers
  /\ partial = Nil
  /\ tag = 0
  /\ expected = None /\ missing = FALSE
  /\ shown = None /\ torn = FALSE
  /\ decoded = <<>>

-----------------------------------------------------------------------------
(***************************************************************************)
(* gortsplib's decoder and encoder.                                        *)
(***************************************************************************)

\* createEncoder that forgets the header.
PayloadMaxSizeNoHeader == UDPMaxPayloadSize

\* createEncoder: what an encoder may put into one packet.
PayloadMaxSize == UDPMaxPayloadSize - HeaderSize

\* The first number of an encoder that is created one packet late.
InitialSequenceNumberLate(pkt) == (pkt.seq + 1) % SeqWrap

\* createEncoder takes the number of the packet it is created for.
InitialSequenceNumber(pkt) == pkt.seq

\* Decoder.Decode: what it keeps and the access unit it returns, empty when it
\* needs more packets or refuses this one.
decode(pkt) ==
  LET whole == \/ pkt.payload.form \in {"single", "aggregate"}
               \/ pkt.payload.form = "end" /\ fragment = pkt.payload.nalus[1]
      all   == IF whole THEN frame \o pkt.payload.nalus ELSE frame
      begun == IF pkt.payload.form = "start" THEN pkt.payload.nalus[1] ELSE Nil
      full  == Len(all) > MaxNALUs
  IN [refused  |-> full \/ (~whole /\ begun = Nil),
      fragment |-> begun,
      frame    |-> IF full \/ (whole /\ pkt.marker) THEN <<>> ELSE all,
      au       |-> IF ~full /\ whole /\ pkt.marker THEN all ELSE <<>>]

\* Encoder.Encode: k packets for an access unit, of at most the maximum size.
encode(first, au, k) ==
  [packets |-> [i \in 1..k |-> [seq  |-> (first + i - 1) % SeqWrap,
                                size |-> PayloadMaxSize + HeaderSize]],
   nalus   |-> au]

-----------------------------------------------------------------------------
(***************************************************************************)
(* The format processor.                                                   *)
(***************************************************************************)
MarshalSize(pkt) == pkt.size + pkt.padding

withoutPadding(pkt) ==
  [seq |-> pkt.seq, marker |-> pkt.marker, size |-> pkt.size, padding |-> 0,
   payload |-> pkt.payload]

\* A routed packet, and the NALUs that a reader has got whole with it.
routed(pkt) ==
  [packets |-> <<[seq |-> pkt.seq, size |-> MarshalSize(pkt)]>>,
   nalus   |-> IF pkt.payload.form = "start" THEN <<>> ELSE pkt.payload.nalus]

\* What the readers have seen, and whether they may miss something.
Observe(refused, au) ==
  LET sent  == unit'.packets
      video == OfTypes(unit'.nalus, VideoTypes)
  IN /\ expected' = IF sent = <<>> THEN expected ELSE (Last(sent).seq + 1) % SeqWrap
     /\ missing'  = (sent = <<>> /\ (missing \/ encoder' = None))
     /\ shown'    = IF video = <<>> THEN shown ELSE (Last(video).id + 1) % TagMod
     /\ torn'     = ((torn \/ refused) /\ ~(video # <<>> /\ shown' = tag'))
     /\ decoded'  = au

\* formatProcessorGeneric.ProcessRTPPacket
processGeneric(pkt) ==
  LET clean  == withoutPadding(pkt)
      tooBig == MarshalSize(clean) > UDPMaxPayloadSize
  IN /\ forma = "generic"
     /\ unit' = IF tooBig THEN NoUnit ELSE routed(clean)
     /\ UNCHANGED procVars
     /\ Observe(tooBig, <<>>)

\* The packet is decoded, and the access unit it ends is encoded again.
reencode(pkt, first, remux(_, _)) ==
  LET d  == decode(pkt)
      au == remux(params', d.au)
  IN /\ frame' = d.frame
     /\ fragment' = d.fragment
     /\ \/ /\ au = <<>>
           /\ unit' = NoUnit
           /\ encoder' = first
        \/ /\ au # <<>>
           /\ \E k \in 1..MaxPackets :
                /\ unit' = encode(first, au, k)
                /\ encoder' = (first + k) % SeqWrap
     /\ Observe(d.refused, d.au)

\* The packet is routed as it is, until the first that is too big.
routeOrReencode(pkt, remux(_, _)) ==
  LET clean == withoutPadding(pkt)
  IN IF encoder # None
     THEN reencode(pkt, encoder, remux)
     ELSE IF MarshalSize(clean) > UDPMaxPayloadSize
          THEN reencode(clean, InitialSequenceNumber(clean), remux)
          ELSE /\ unit' = routed(clean)
               /\ UNCHANGED <<encoder, frame, fragment>>
               /\ Observe(FALSE, <<>>)

\* formatProcessorH265.ProcessRTPPacket
processH265(pkt) ==
  /\ forma = "H265"
  /\ params' = H265!updateTrackParametersFromRTPPacket(params, pkt.payload)
  /\ routeOrReencode(pkt, H265!remuxAccessUnit)

\* formatProcessorH264.ProcessRTPPacket
processH264(pkt) ==
  /\ forma = "H264"
  /\ params' = H264!updateTrackParametersFromRTPPacket(params, pkt.payload)
  /\ routeOrReencode(pkt, H264!remuxAccessUnit)

\* streamFormat.writeRTPPacket and writeUnitInner: the unit's packets go to the
\* readers, and nothing does after an error.
writeRTPPacket(pkt) == processH265(pkt) \/ processH264(pkt) \/ processGeneric(pkt)

-----------------------------------------------------------------------------
(***************************************************************************)
(* The publisher.  Parameter sets fit a packet and never come in fragments.*)
(***************************************************************************)
ParamSets == [typ : ParamTypes[forma], id : ParamIds]

Video == [typ : VideoTypes, id : {tag}]

Small == ParamSets \cup Video \cup [typ : {"AUD"}, id : {0}]

Payloads ==
  IF partial # Nil THEN {FragmentEnd(partial)}
  ELSE IF forma = "generic" THEN {Single(n) : n \in Video}
  ELSE {Single(n) : n \in Small}
       \cup {FragmentStart(n) : n \in Video}
       \cup {Aggregate(<<p, n>>) : p \in ParamSets, n \in Small}
       \cup {Malformed(<<n>>) : n \in Video}

Packets ==
  [seq : {arriving}, marker : BOOLEAN, size : Sizes, padding : Paddings, payload : Payloads]

\* The publisher goes on to its next packet.
Sent(pkt) ==
  /\ arriving' = (arriving + 1) % SeqWrap
  /\ partial' = IF pkt.payload.form = "start" THEN pkt.payload.nalus[1] ELSE Nil
  /\ tag' = IF pkt.payload.form # "end" /\ \E i \in DOMAIN pkt.payload.nalus : IsVideo(pkt.payload.nalus[i])
            THEN (tag + 1) % TagMod ELSE tag
  /\ UNCHANGED forma

WritePacket(pkt) == Sent(pkt) /\ writeRTPPacket(pkt)

\* The packet never arrives.
LosePacket(pkt) ==
  /\ Sent(pkt)
  /\ unit' = NoUnit
  /\ UNCHANGED procVars
  /\ Observe(TRUE, <<>>)

Next == \E pkt \in Packets : WritePacket(pkt) \/ LosePacket(pkt)

Spec == Init /\ [][Next]_vars

-----------------------------------------------------------------------------
(***************************************************************************)
(* Properties.                                                             *)
(***************************************************************************)

\* Nothing larger than udpMaxPayloadSize goes out, routed or encoded.
SizeBound == \A i \in DOMAIN unit.packets : unit.packets[i].size <= UDPMaxPayloadSize

\* A reader sees a gap in the numbers only if a packet was lost, or refused, before
\* the format is encoded again: no gap and no repetition where the server's numbers
\* take over, and none ever after, whatever the publisher loses.
NoGap ==
  [][LET sent == unit'.packets
     IN expected # None /\ ~missing =>
          \A i \in DOMAIN sent : sent[i].seq = (expected + i - 1) % SeqWrap]_vars

\* The video NALUs reach the readers each once and in their order, across the
\* packets, fragments and access units they are taken apart and put together in,
\* unless a packet was lost or refused.
OrderKept ==
  [][LET video == OfTypes(unit'.nalus, VideoTypes)
     IN shown # None /\ ~torn =>
          \A i \in DOMAIN video : video[i].id = (shown + i - 1) % TagMod]_vars

\* An access unit that is encoded again has the video it came with and, before a key
\* frame, the parameter sets it came with, though they are not read from the access
\* unit but from the packets that bring them, also from those it loses.
OwnParameters ==
  LET mine == {t \in ParamTypes[forma] : LastOf(decoded, t) # Nil}
      key  == \E i \in DOMAIN decoded : decoded[i].typ \in KeyTypes[forma]
  IN /\ \A t \in mine : LastOf(unit.nalus, t) \in {Nil, LastOf(decoded, t)}
     /\ key /\ mine = ParamTypes[forma] => \A t \in mine : LastOf(unit.nalus, t) # Nil
     /\ decoded # <<>> => OfTypes(unit.nalus, VideoTypes) = OfTypes(decoded, VideoTypes)

\* What readers may count on.
Relay == INSTANCE PacketRelay
           WITH own <- encoder,
                numbers <- [i \in 1..Len(unit.packets) |-> unit.packets[i].seq]

ImplementsRelay == Relay!Spec
=============================================================================
