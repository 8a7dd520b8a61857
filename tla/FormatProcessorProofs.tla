------------------------ MODULE FormatProcessorProofs ------------------------
(***************************************************************************)
(* The sizes and the numbers of the packets that readers get, proved for   *)
(* every maximum size, whatever the publisher sends or loses.              *)
(***************************************************************************)
EXTENDS FormatProcessor, SequenceTheorems, TLAPS

-----------------------------------------------------------------------------
(***************************************************************************)
(* Numbers that wrap.                                                      *)
(***************************************************************************)

\* A positive number of rounds is at least one round.
LEMMA Rounds == ASSUME NEW m \in Nat \ {0}, NEW d \in Int, d >= 1 PROVE m * d >= m
BY SMTT(20)

\* Division with remainder.
LEMMA DivisionBy ==
  ASSUME NEW m \in Nat \ {0}, NEW a \in Nat
  PROVE  /\ a = m * (a \div m) + (a % m)
         /\ a \div m \in Nat
         /\ a % m \in 0..(m - 1)
BY SMTT(20)

\* The remainder is unique.
LEMMA Remainder ==
  ASSUME NEW m \in Nat \ {0}, NEW p \in Int, NEW q \in Int, NEW r \in 0..(m - 1), NEW t \in 0..(m - 1),
         m * p + r = m * q + t
  PROVE  r = t
<1>1. m * (p - q) = t - r
  BY SMTT(20)
<1>2. m * (q - p) = r - t
  BY SMTT(20)
<1>3. p - q < 1
  BY <1>1, Rounds
<1>4. q - p < 1
  BY <1>2, Rounds
<1>5. p = q
  BY <1>3, <1>4
<1> QED
  BY <1>5

\* Whole rounds do not change a number.
LEMMA WholeRounds ==
  ASSUME NEW m \in Nat \ {0}, NEW q \in Nat, NEW t \in 0..(m - 1)
  PROVE  (m * q + t) % m = t
<1> DEFINE a == m * q + t
<1>1. m * q \in Nat
  BY SMTT(20)
<1>2. a \in Nat
  BY <1>1
<1>3. a = m * (a \div m) + (a % m) /\ a \div m \in Nat /\ a % m \in 0..(m - 1)
  BY <1>2, DivisionBy
<1> HIDE DEF a
<1>4. a = m * q + t
  BY DEF a
<1>5. a \div m \in Int /\ q \in Int /\ m * (a \div m) + (a % m) = m * q + t
  BY <1>3, <1>4
<1>6. a % m = t
  <2> DEFINE p == a \div m
             r == a % m
  <2>1. p \in Int /\ q \in Int /\ r \in 0..(m - 1) /\ m * p + r = m * q + t
    BY <1>3, <1>5
  <2> HIDE DEF p, r
  <2>2. r = t
    BY <2>1, Remainder
  <2> QED
    BY <2>2 DEF r
<1> QED
  BY <1>6 DEF a

\* The number after a number that has wrapped.
LEMMA SuccessorBy ==
  ASSUME NEW m \in Nat \ {0}, NEW a \in Nat
  PROVE  ((a % m) + 1) % m = (a + 1) % m
<1> DEFINE q == a \div m
           r == a % m
<1>1. a = m * q + r /\ q \in Nat /\ r \in 0..(m - 1)
  BY DivisionBy
<1> HIDE DEF q, r
<1>2. CASE r + 1 < m
  <2>1. a + 1 = m * q + (r + 1)
    BY <1>1, SMTT(20)
  <2>2. (a + 1) % m = r + 1
    BY <2>1, <1>1, <1>2, WholeRounds
  <2>3. (r + 1) % m = r + 1
    BY <1>1, <1>2
  <2> QED
    BY <2>2, <2>3 DEF r
<1>3. CASE r + 1 = m
  <2>1. a + 1 = m * (q + 1) + 0
    BY <1>1, <1>3, SMTT(20)
  <2>2. (a + 1) % m = 0
    BY <2>1, <1>1, WholeRounds
  <2>3. (r + 1) % m = 0
    BY <1>3
  <2> QED
    BY <2>2, <2>3 DEF r
<1> QED
  BY <1>1, <1>2, <1>3

\* The numbers of packets are such numbers.
LEMMA Division ==
  ASSUME NEW a \in Nat
  PROVE  a % SeqWrap \in SeqNumbers
BY NumbersWrap, DivisionBy DEF SeqNumbers

\* The one after a number that has wrapped.
LEMMA Successor ==
  ASSUME NEW a \in Nat
  PROVE  ((a % SeqWrap) + 1) % SeqWrap = (a + 1) % SeqWrap
BY NumbersWrap, SuccessorBy

-----------------------------------------------------------------------------
(***************************************************************************)
(* What a packet does to encoder and unit.                                 *)
(***************************************************************************)

\* The number the next packet that is encoded gets.
First == IF encoder = None THEN arriving ELSE encoder

\* The packet is passed on as it is, or not at all.
Passes(pkt) ==
  /\ encoder = None /\ encoder' = None
  /\ \/ unit' = NoUnit
     \/ /\ unit' = routed(withoutPadding(pkt))
        /\ MarshalSize(withoutPadding(pkt)) <= UDPMaxPayloadSize

\* It is taken in, and nothing is sent for it.
Holds == encoder' = First /\ unit' = NoUnit

\* Packets of the server's own are sent for it.
Emits(k, au) == encoder' = (First + k) % SeqWrap /\ unit' = encode(First, au, k)

\* A packet keeps its number when its padding is removed.
LEMMA Unpadded ==
  ASSUME NEW pkt \in Packets
  PROVE  /\ pkt.seq = arriving /\ withoutPadding(pkt).seq = arriving
         /\ MarshalSize(withoutPadding(pkt)) \in Nat
<1>1. pkt.seq \in {arriving} /\ pkt.size \in Sizes
  BY DEF Packets
<1>2. /\ withoutPadding(pkt).seq = pkt.seq
      /\ MarshalSize(withoutPadding(pkt)) = pkt.size + 0
  BY DEF withoutPadding, MarshalSize
<1>3. pkt.size \in Nat
  BY <1>1, SizesAreNumbers
<1> QED
  BY <1>1, <1>2, <1>3

\* Every way to process a packet is one of the three.
LEMMA Shapes ==
  ASSUME NEW pkt \in Packets, writeRTPPacket(pkt), encoder = None \/ forma # "generic"
  PROVE  Passes(pkt) \/ Holds \/ \E k \in 1..MaxPackets, au \in {unit'.nalus} : Emits(k, au)
<1> DEFINE clean == withoutPadding(pkt)
           big   == MarshalSize(clean) > UDPMaxPayloadSize
           Goal  == Passes(pkt) \/ Holds \/ \E k \in 1..MaxPackets, au \in {unit'.nalus} : Emits(k, au)
           Left(first) == encoder' = first /\ unit' = NoUnit
           Made(first) == \E k \in 1..MaxPackets, au \in {unit'.nalus} :
                            encoder' = (first + k) % SeqWrap /\ unit' = encode(first, au, k)
<1>0. (~big => MarshalSize(clean) <= UDPMaxPayloadSize) /\ clean.seq = arriving
  BY Unpadded, SizesAreNumbers
<1>1. ASSUME processGeneric(pkt) PROVE Goal
  BY <1>0, <1>1 DEF processGeneric, procVars, Passes
<1>2. ASSUME processH265(pkt) PROVE Goal
  <2>1. CASE encoder # None
    <3>1. reencode(pkt, encoder, H265!remuxAccessUnit)
      BY <1>2, <2>1 DEF processH265, routeOrReencode
    <3>2. Left(encoder) \/ Made(encoder)
      BY <3>1 DEF reencode, encode
    <3> QED
      BY <3>2, <2>1 DEF Holds, Emits, First
  <2>2. CASE encoder = None /\ big
    <3>1. reencode(clean, clean.seq, H265!remuxAccessUnit)
      BY <1>2, <2>2 DEF processH265, routeOrReencode, InitialSequenceNumber
    <3>2. Left(clean.seq) \/ Made(clean.seq)
      BY <3>1 DEF reencode, encode
    <3> QED
      BY <3>2, <2>2, <1>0 DEF Holds, Emits, First
  <2>3. CASE encoder = None /\ ~big
    <3>1. unit' = routed(clean) /\ encoder' = encoder
      BY <1>2, <2>3 DEF processH265, routeOrReencode
    <3> QED
      BY <3>1, <2>3, <1>0 DEF Passes
  <2> QED
    BY <2>1, <2>2, <2>3
<1>3. ASSUME processH264(pkt) PROVE Goal
  <2>1. CASE encoder # None
    <3>1. reencode(pkt, encoder, H264!remuxAccessUnit)
      BY <1>3, <2>1 DEF processH264, routeOrReencode
    <3>2. Left(encoder) \/ Made(encoder)
      BY <3>1 DEF reencode, encode
    <3> QED
      BY <3>2, <2>1 DEF Holds, Emits, First
  <2>2. CASE encoder = None /\ big
    <3>1. reencode(clean, clean.seq, H264!remuxAccessUnit)
      BY <1>3, <2>2 DEF processH264, routeOrReencode, InitialSequenceNumber
    <3>2. Left(clean.seq) \/ Made(clean.seq)
      BY <3>1 DEF reencode, encode
    <3> QED
      BY <3>2, <2>2, <1>0 DEF Holds, Emits, First
  <2>3. CASE encoder = None /\ ~big
    <3>1. unit' = routed(clean) /\ encoder' = encoder
      BY <1>3, <2>3 DEF processH264, routeOrReencode
    <3> QED
      BY <3>1, <2>3, <1>0 DEF Passes
  <2> QED
    BY <2>1, <2>2, <2>3
<1> QED
  BY <1>1, <1>2, <1>3 DEF writeRTPPacket

-----------------------------------------------------------------------------
(***************************************************************************)
(* The inductive invariant.                                                *)
(***************************************************************************)

\* What a unit may send.
Sendable == [seq : SeqNumbers, size : Nat]

\* What happens to the numbers when a packet comes or is lost.
Step ==
  LET sent == unit'.packets
  IN /\ arriving' = (arriving + 1) % SeqWrap
     /\ sent \in Seq(Sendable)
     /\ \/ /\ encoder = None /\ encoder' = None
           /\ sent = <<>> \/ (Len(sent) = 1 /\ sent[1].seq = arriving)
        \/ /\ encoder' = (First + Len(sent)) % SeqWrap
           /\ \A i \in 1..Len(sent) : sent[i].seq = (First + i - 1) % SeqWrap
     /\ expected' = IF sent = <<>> THEN expected ELSE (sent[Len(sent)].seq + 1) % SeqWrap
     /\ missing' = (sent = <<>> /\ (missing \/ encoder' = None))
     /\ encoder' # None /\ encoder = None => forma # "generic"
     /\ forma' = forma
     /\ \A i \in 1..Len(sent) : sent[i].size <= UDPMaxPayloadSize

\* The numbers are numbers, and without a loss the next one is the one expected.
Numbered ==
  /\ arriving \in SeqNumbers
  /\ encoder \in SeqNumbers \cup {None}
  /\ expected \in SeqNumbers \cup {None}
  /\ missing \in BOOLEAN
  /\ encoder # None => forma # "generic"
  /\ expected # None /\ ~missing => expected = First

\* What a unit sends is well formed and not too big.
Shaped == unit.packets \in Seq(Sendable) /\ SizeBound

IInv == Numbered /\ Shaped

\* A routed unit is one packet.
LEMMA Routed ==
  ASSUME NEW pkt, pkt.seq \in SeqNumbers, MarshalSize(pkt) \in Nat
  PROVE  LET sent == routed(pkt).packets
         IN /\ sent \in Seq(Sendable)
            /\ Len(sent) = 1
            /\ sent[1].seq = pkt.seq /\ sent[1].size = MarshalSize(pkt)
BY DEF routed, Sendable

\* An encoded unit is k packets of the maximum size.
LEMMA Encoded ==
  ASSUME NEW first \in SeqNumbers, NEW au, NEW k \in 1..MaxPackets
  PROVE  LET sent == encode(first, au, k).packets
         IN /\ sent \in Seq(Sendable)
            /\ Len(sent) = k
            /\ \A i \in 1..k : /\ sent[i].seq = (first + i - 1) % SeqWrap
                               /\ sent[i].size = UDPMaxPayloadSize
<1> DEFINE sent == encode(first, au, k).packets
           p(i) == [seq |-> (first + i - 1) % SeqWrap, size |-> PayloadMaxSize + HeaderSize]
<1>1. k \in Nat /\ k >= 1
  BY BoundsAreNumbers
<1>2. sent = [i \in 1..k |-> p(i)]
  BY DEF encode
<1>3. PayloadMaxSize + HeaderSize = UDPMaxPayloadSize /\ UDPMaxPayloadSize \in Nat
  BY SizesAreNumbers DEF PayloadMaxSize, HeaderSize
<1>4. ASSUME NEW i \in 1..k PROVE p(i) \in Sendable
  <2>1. first + i - 1 \in Nat
    BY <1>1, NumbersWrap DEF SeqNumbers
  <2> QED
    BY <2>1, <1>3, Division DEF Sendable
<1> HIDE DEF sent
<1>5. sent \in [1..k -> Sendable]
  BY <1>2, <1>4
<1>6. sent \in Seq(Sendable)
  BY <1>5, <1>1, SeqDef
<1>7. Len(sent) = k
  BY <1>5, <1>6, <1>1, LenProperties
<1> QED
  BY <1>2, <1>3, <1>6, <1>7 DEF sent

\* What the readers have seen is brought up to date in every way to process a packet.
LEMMA Observed ==
  ASSUME NEW pkt \in Packets, writeRTPPacket(pkt)
  PROVE  LET sent == unit'.packets
         IN /\ expected' = IF sent = <<>> THEN expected ELSE (sent[Len(sent)].seq + 1) % SeqWrap
            /\ missing' = (sent = <<>> /\ (missing \/ encoder' = None))
<1> DEFINE sent == unit'.packets
           Seen == /\ expected' = IF sent = <<>> THEN expected ELSE (sent[Len(sent)].seq + 1) % SeqWrap
                   /\ missing' = (sent = <<>> /\ (missing \/ encoder' = None))
<1>1. \A refused, au : Observe(refused, au) => Seen
  BY DEF Observe, Last
<1>2. CASE processGeneric(pkt)
  BY <1>1, <1>2 DEF processGeneric
<1>3. CASE processH265(pkt)
  BY <1>1, <1>3 DEF processH265, routeOrReencode, reencode
<1>4. CASE processH264(pkt)
  BY <1>1, <1>4 DEF processH264, routeOrReencode, reencode
<1> QED
  BY <1>2, <1>3, <1>4 DEF writeRTPPacket

\* A packet is processed.
LEMMA WriteStep ==
  ASSUME Numbered, NEW pkt \in Packets, WritePacket(pkt)
  PROVE  Step
<1> DEFINE sent == unit'.packets
<1>1. arriving' = (arriving + 1) % SeqWrap /\ forma' = forma
  BY DEF WritePacket, Sent
<1>2. writeRTPPacket(pkt)
  BY DEF WritePacket
<1>3. encoder # None => forma # "generic"
  BY DEF Numbered
<1>4. Passes(pkt) \/ Holds \/ \E k \in 1..MaxPackets, au \in {unit'.nalus} : Emits(k, au)
  BY <1>2, <1>3, Shapes
<1>5. First \in SeqNumbers
  BY DEF First, Numbered
<1>6. forma = "generic" => encoder' = encoder
  BY <1>2 DEF writeRTPPacket, processH264, processH265, processGeneric, procVars
<1>7. encoder' # None /\ encoder = None => forma # "generic"
  BY <1>6
<1> DEFINE Shape ==
      /\ sent \in Seq(Sendable)
      /\ \/ /\ encoder = None /\ encoder' = None
            /\ sent = <<>> \/ (Len(sent) = 1 /\ sent[1].seq = arriving)
         \/ /\ encoder' = (First + Len(sent)) % SeqWrap
            /\ \A i \in 1..Len(sent) : sent[i].seq = (First + i - 1) % SeqWrap
      /\ \A i \in 1..Len(sent) : sent[i].size <= UDPMaxPayloadSize
<1>8. unit' = NoUnit => sent = <<>> /\ sent \in Seq(Sendable) /\ Len(sent) = 0
  BY DEF NoUnit
<1>9. ASSUME Passes(pkt) PROVE Shape
  <2>1. CASE unit' = NoUnit
    BY <1>9, <2>1, <1>8 DEF Passes
  <2>2. CASE unit' = routed(withoutPadding(pkt)) /\ MarshalSize(withoutPadding(pkt)) <= UDPMaxPayloadSize
    <3>1. withoutPadding(pkt).seq = arriving /\ arriving \in SeqNumbers
          /\ MarshalSize(withoutPadding(pkt)) \in Nat
      BY Unpadded DEF Numbered
    <3>2. sent \in Seq(Sendable) /\ Len(sent) = 1 /\ sent[1].seq = arriving
          /\ sent[1].size <= UDPMaxPayloadSize
      BY <2>2, <3>1, Routed
    <3> QED
      BY <1>9, <3>2 DEF Passes
  <2> QED
    BY <1>9, <2>1, <2>2 DEF Passes
<1>10. ASSUME Holds PROVE Shape
  <2>1. (First + 0) % SeqWrap = First
    BY <1>5, NumbersWrap DEF SeqNumbers
  <2> QED
    BY <1>10, <1>8, <2>1 DEF Holds
<1>11. ASSUME \E k \in 1..MaxPackets, au \in {unit'.nalus} : Emits(k, au) PROVE Shape
  <2>1. PICK k \in 1..MaxPackets, au \in {unit'.nalus} : Emits(k, au)
    BY <1>11
  <2>2. /\ sent \in Seq(Sendable) /\ Len(sent) = k
        /\ \A i \in 1..k : sent[i].seq = (First + i - 1) % SeqWrap /\ sent[i].size = UDPMaxPayloadSize
    BY <2>1, <1>5, Encoded DEF Emits
  <2>3. encoder' = (First + k) % SeqWrap
    BY <2>1 DEF Emits
  <2> QED
    BY <2>2, <2>3, SizesAreNumbers
<1>12. Shape
  BY <1>4, <1>9, <1>10, <1>11
<1> QED
  BY <1>1, <1>2, <1>7, <1>12, Observed DEF Step

\* A packet never arrives.
LEMMA LoseStep ==
  ASSUME Numbered, NEW pkt \in Packets, LosePacket(pkt)
  PROVE  Step
<1>1. unit'.packets = <<>> /\ unit'.packets \in Seq(Sendable) /\ Len(unit'.packets) = 0
  BY DEF LosePacket, NoUnit
<1>2. encoder' = encoder /\ forma' = forma /\ arriving' = (arriving + 1) % SeqWrap
  BY DEF LosePacket, procVars, Sent
<1>3. Observe(TRUE, <<>>)
  BY DEF LosePacket
<1>4. expected' = expected /\ missing' = (missing \/ encoder' = None)
  BY <1>1, <1>3 DEF Observe
<1>5. encoder # None => encoder' = (First + 0) % SeqWrap
  BY <1>2, NumbersWrap DEF Numbered, First, SeqNumbers
<1> QED
  BY <1>1, <1>2, <1>4, <1>5 DEF Step

\* A step of Next is a Step.
LEMMA NextStep == ASSUME Numbered, Next PROVE Step
BY WriteStep, LoseStep DEF Next

\* The numbers stay in order over a step.
LEMMA NumberedStep == ASSUME Numbered, Step PROVE Numbered'
<1> DEFINE sent == unit'.packets
           n    == Len(sent)
<1>1. sent \in Seq(Sendable) /\ n \in Nat
      /\ (sent = <<>> <=> n = 0)
      /\ (n > 0 => sent[n] \in Sendable)
  BY EmptySeq, LenProperties, ElementOfSeq DEF Step
<1> HIDE DEF sent, n
<1>2. First \in SeqNumbers /\ SeqWrap \in Nat \ {0}
  BY NumbersWrap DEF First, Numbered
<1>3. arriving' \in SeqNumbers
  BY <1>2, Division DEF Step, Numbered, SeqNumbers
<1>4. n > 0 => (sent[n].seq + 1) % SeqWrap \in SeqNumbers
  <2>1. n > 0 => sent[n].seq + 1 \in Nat
    BY <1>1, NumbersWrap DEF Sendable, SeqNumbers
  <2> QED
    BY <2>1, Division
<1>5. expected' = (IF n = 0 THEN expected ELSE (sent[n].seq + 1) % SeqWrap)
      /\ missing' = (n = 0 /\ (missing \/ encoder' = None))
      /\ (encoder' # None /\ encoder = None => forma # "generic") /\ forma' = forma
  BY <1>1 DEF Step, sent, n
<1>6. expected' \in SeqNumbers \cup {None} /\ missing' \in BOOLEAN
  BY <1>1, <1>4, <1>5 DEF Numbered
<1>7. CASE encoder = None /\ encoder' = None /\ (sent = <<>> \/ (n = 1 /\ sent[1].seq = arriving))
  <2>1. First' = arriving' /\ arriving' = (arriving + 1) % SeqWrap
    BY <1>7 DEF First, Step
  <2> QED
    BY <2>1, <1>1, <1>3, <1>5, <1>6, <1>7 DEF Numbered
<1>8. CASE /\ encoder' = (First + n) % SeqWrap
           /\ \A i \in 1..n : sent[i].seq = (First + i - 1) % SeqWrap
  <2>1. First + n \in Nat
    BY <1>1, <1>2 DEF SeqNumbers
  <2>2. encoder' \in SeqNumbers
    BY <2>1, <1>8, Division
  <2>3. encoder' # None
    BY <2>2, NoneIsNoNumber DEF SeqNumbers
  <2>4. First' = encoder'
    BY <2>3 DEF First
  <2>5. CASE n = 0
    <3>1. encoder' = First
      BY <2>5, <1>8, <1>2 DEF SeqNumbers
    <3> QED
      BY <3>1, <2>2, <2>3, <2>4, <2>5, <1>3, <1>5, <1>6 DEF Numbered
  <2>6. CASE n # 0
    <3>1. sent[n].seq = (First + n - 1) % SeqWrap
      BY <2>6, <1>1, <1>8
    <3>2. First + n - 1 \in Nat /\ (First + n - 1) + 1 = First + n
      BY <2>6, <1>1, <1>2 DEF SeqNumbers
    <3>3. (sent[n].seq + 1) % SeqWrap = (First + n) % SeqWrap
      BY <3>1, <3>2, Successor
    <3>4. expected' = First'
      BY <3>3, <1>5, <1>8, <2>4, <2>6
    <3> QED
      BY <3>4, <2>2, <2>3, <1>3, <1>5, <1>6 DEF Numbered
  <2> QED
    BY <2>5, <2>6
<1> QED
  BY <1>7, <1>8 DEF Step, sent, n

\* Over a step that sends packets, the first has the expected number.
LEMMA NoGapStep ==
  ASSUME Numbered, Step, expected # None, ~missing
  PROVE  LET sent == unit'.packets
         IN \A i \in DOMAIN sent : sent[i].seq = (expected + i - 1) % SeqWrap
<1> DEFINE sent == unit'.packets
<1>1. DOMAIN sent = 1..Len(sent)
  BY LenProperties DEF Step
<1>2. expected = First /\ First \in SeqNumbers
  BY DEF Numbered, First
<1>3. (First + 1 - 1) % SeqWrap = First
  BY <1>2, NumbersWrap DEF SeqNumbers
<1>4. encoder = None => First = arriving
  BY DEF First
<1> QED
  BY <1>1, <1>2, <1>3, <1>4, EmptySeq DEF Step

-----------------------------------------------------------------------------
(***************************************************************************)
(* Theorems.                                                               *)
(***************************************************************************)

\* The invariant holds of every format at any time.
THEOREM Invariant == Spec => []IInv
<1>1. Init => IInv
  <2>1. Init => Numbered
    BY DEF Init, New, newH265, newH264, newGeneric, NoDecoder, Numbered
  <2>2. Init => unit.packets = <<>>
    BY DEF Init, NoUnit
  <2>3. unit.packets = <<>> => DOMAIN unit.packets = {}
    OBVIOUS
  <2>4. unit.packets = <<>> => Shaped
    BY <2>3, EmptySeq DEF Shaped, SizeBound
  <2> QED
    BY <2>1, <2>2, <2>4 DEF IInv
<1>2. IInv /\ [Next]_vars => IInv'
  <2> SUFFICES ASSUME IInv, [Next]_vars PROVE IInv'
    OBVIOUS
  <2>1. CASE Next
    <3>1. Step
      BY <2>1, NextStep DEF IInv
    <3>2. Numbered'
      BY <3>1, NumberedStep DEF IInv
    <3>3. Shaped'
      <4>1. DOMAIN unit'.packets = 1..Len(unit'.packets)
        BY <3>1, LenProperties DEF Step
      <4> QED
        BY <3>1, <4>1 DEF Step, Shaped, SizeBound
    <3> QED
      BY <3>2, <3>3 DEF IInv
  <2>2. CASE UNCHANGED vars
    BY <2>2 DEF vars, IInv, Numbered, First, Shaped, SizeBound
  <2> QED
    BY <2>1, <2>2
<1> QED
  BY <1>1, <1>2, PTL DEF Spec

\* SizeBound, for every maximum size: nothing larger goes out, routed or encoded.
THEOREM SizesBounded == Spec => []SizeBound
<1>1. IInv => SizeBound
  BY DEF IInv, Shaped
<1> QED
  BY <1>1, Invariant, PTL

\* NoGap, whatever the numbers' width and the encoder's choice of packets: without a
\* loss the readers get each number once, also where the server's numbers take over.
THEOREM NumbersFollow == Spec => NoGap
<1> DEFINE A == LET sent == unit'.packets
                IN expected # None /\ ~missing =>
                     \A i \in DOMAIN sent : sent[i].seq = (expected + i - 1) % SeqWrap
<1>1. IInv /\ [Next]_vars => [A]_vars
  BY NextStep, NoGapStep DEF IInv
<1> QED
  BY <1>1, Invariant, PTL DEF Spec, NoGap

\* The numbers that a unit sends, as the abstract specification sees them.
Numbers == [i \in 1..Len(unit.packets) |-> unit.packets[i].seq]

\* They are a sequence of numbers, as long as the packets.
LEMMA NumbersOf ==
  ASSUME NEW sent \in Seq(Sendable)
  PROVE  LET numbers == [i \in 1..Len(sent) |-> sent[i].seq]
         IN /\ numbers \in Seq(SeqNumbers)
            /\ Len(numbers) = Len(sent)
            /\ \A i \in 1..Len(sent) : numbers[i] = sent[i].seq
<1> DEFINE numbers == [i \in 1..Len(sent) |-> sent[i].seq]
<1>1. Len(sent) \in Nat
  BY LenProperties
<1>2. \A i \in 1..Len(sent) : sent[i].seq \in SeqNumbers
  <2>1. ASSUME NEW i \in 1..Len(sent) PROVE sent[i] \in Sendable
    BY ElementOfSeq
  <2> QED
    BY <2>1 DEF Sendable
<1>3. numbers \in [1..Len(sent) -> SeqNumbers]
  BY <1>2
<1>4. numbers \in Seq(SeqNumbers)
  BY <1>1, <1>3, SeqDef
<1>5. Len(numbers) = Len(sent)
  BY <1>1, <1>3, <1>4, LenProperties
<1> QED
  BY <1>4, <1>5

\* ImplementsRelay: readers get the publisher's numbers or, from some packet on,
\* numbers of the server's own that go on from there.
THEOREM Relays == Spec => ImplementsRelay
<1> USE DEF SeqNumbers
<1>1. Init => Relay!Init
  <2>1. Init => unit.packets = <<>>
    BY DEF Init, NoUnit
  <2>2. unit.packets = <<>> => Numbers = <<>>
    BY DEF Numbers
  <2> QED
    BY <2>1, <2>2 DEF Init, New, newH265, newH264, newGeneric, NoDecoder, Relay!Init, Numbers
<1>2. ASSUME IInv, Next PROVE Relay!Next
  <2> DEFINE sent == unit'.packets
  <2>1. Step
    BY <1>2, NextStep DEF IInv
  <2>2. sent \in Seq(Sendable)
    BY <2>1 DEF Step
  <2>3. /\ Numbers' \in Seq(SeqNumbers)
        /\ Len(Numbers') = Len(sent)
        /\ \A i \in 1..Len(sent) : Numbers'[i] = sent[i].seq
    BY <2>2, NumbersOf DEF Numbers
  <2>4. Relay!Arrive
    BY <2>1 DEF Relay!Arrive, Step
  <2>5. Numbered'
    BY <1>2, <2>1, NumberedStep DEF IInv
  <2>6. CASE encoder = None /\ encoder' = None /\ (sent = <<>> \/ (Len(sent) = 1 /\ sent[1].seq = arriving))
    <3>1. sent = <<>> => Numbers' = <<>>
      BY DEF Numbers
    <3>2. Len(sent) = 1 /\ sent[1].seq = arriving => Numbers' = <<arriving>>
      BY <2>3, <1>2 DEF IInv, Numbered
    <3> QED
      BY <2>4, <2>6, <3>1, <3>2 DEF Relay!Next, Relay!Pass, Numbers
  <2>7. CASE /\ encoder' = (First + Len(sent)) % SeqWrap
             /\ \A i \in 1..Len(sent) : sent[i].seq = (First + i - 1) % SeqWrap
    <3>1. First \in Nat /\ Len(sent) \in Nat
      BY <1>2, <2>2, LenProperties, NumbersWrap DEF IInv, Numbered, First
    <3>2. encoder' \in SeqNumbers
      <4>1. First + Len(sent) \in Nat
        BY <3>1
      <4> QED
        BY <4>1, <2>7, Division
    <3>3. Relay!Replace
      BY <2>3, <2>4, <2>7, <3>2 DEF Relay!Replace, First, Numbers
    <3> QED
      BY <3>3 DEF Relay!Next
  <2> QED
    BY <2>1, <2>6, <2>7 DEF Step
<1>3. UNCHANGED vars => UNCHANGED <<arriving, encoder, Numbers>>
  BY DEF vars, Numbers
<1>4. IInv /\ [Next]_vars => [Relay!Next]_<<arriving, encoder, Numbers>>
  BY <1>2, <1>3
<1> QED
  BY <1>1, <1>4, Invariant, PTL DEF Spec, ImplementsRelay, Relay!Spec, Numbers
=============================================================================
