-------------------------- MODULE AccessUnitProofs --------------------------
(***************************************************************************)
(* What the readers get of the publisher's NALUs, proved for access units  *)
(* of any length and any publisher: the video in its order, and with a key *)
(* frame the parameter sets it came with.                                  *)
(***************************************************************************)
EXTENDS FormatProcessorProofs, NALUsProofs

-----------------------------------------------------------------------------
(***************************************************************************)
(* NALUs.                                                                  *)
(***************************************************************************)
Tags == 0..(TagMod - 1)

VideoNALU == [typ : VideoTypes, id : Nat]

OtherNALU == [typ : Types \ VideoTypes, id : Nat \cup ParamIds]

NALU == VideoNALU \cup OtherNALU

\* The video of some NALUs.
VideoOf(nalus) == OfTypes(nalus, VideoTypes)

\* The types of the parameter sets of the format.
OwnTypes == ParamTypes[forma]

\* The codecs use the same operators.
LEMMA SameOperators ==
  ASSUME NEW nalus, NEW types, NEW t
  PROVE  /\ H265!OfTypes(nalus, types) = OfTypes(nalus, types)
         /\ H264!OfTypes(nalus, types) = OfTypes(nalus, types)
         /\ H265!LastOf(nalus, t) = LastOf(nalus, t)
         /\ H264!LastOf(nalus, t) = LastOf(nalus, t)
         /\ H265!Nil = Nil /\ H264!Nil = Nil
         /\ H265!Types = Types /\ H264!Types = Types
<1>1. /\ H265!OfTypes(nalus, types) = OfTypes(nalus, types)
      /\ H264!OfTypes(nalus, types) = OfTypes(nalus, types)
  BY DEF H265!OfTypes, H264!OfTypes, OfTypes
<1>2. H265!Nil = Nil /\ H264!Nil = Nil /\ H265!Types = Types /\ H264!Types = Types
  BY DEF H265!Nil, H264!Nil, Nil, H265!Types, H264!Types, Types
<1>3. H265!OfTypes(nalus, {t}) = OfTypes(nalus, {t}) /\ H264!OfTypes(nalus, {t}) = OfTypes(nalus, {t})
  BY DEF H265!OfTypes, H264!OfTypes, OfTypes
<1>4. H265!LastOf(nalus, t) = LastOf(nalus, t) /\ H264!LastOf(nalus, t) = LastOf(nalus, t)
  BY <1>2, <1>3 DEF H265!LastOf, H264!LastOf, LastOf, H265!Last, H264!Last, Last
<1> QED
  BY <1>1, <1>2, <1>4

\* The types that matter are told apart.
LEMMA TypesApart ==
  /\ H265!ParamTypes = {"VPS", "SPS", "PPS"} /\ H264!ParamTypes = {"SPS", "PPS"}
  /\ H265!ParamTypes \subseteq Types \ VideoTypes
  /\ H264!ParamTypes \subseteq Types \ VideoTypes
  /\ Nil \notin NALU /\ "nil" \notin Types
  /\ \A n \in NALU : n.typ \in Types
  /\ \A n \in NALU : n.typ \in VideoTypes => n \in VideoNALU
  /\ \A n \in VideoNALU : n.typ \in VideoTypes /\ n \in NALU /\ n # Nil
BY DEF H265!ParamTypes, H264!ParamTypes, Types, VideoTypes, Nil, NALU, VideoNALU, OtherNALU

\* Which they are.
LEMMA OwnTypesOf ==
  /\ forma = "H265" => OwnTypes = H265!ParamTypes /\ KeyTypes[forma] = H265!KeyTypes
  /\ forma = "H264" => OwnTypes = H264!ParamTypes /\ KeyTypes[forma] = H264!KeyTypes
  /\ forma = "generic" => OwnTypes = {}
BY DEF OwnTypes, ParamTypes, KeyTypes

\* The video of NALUs is video.
LEMMA VideoType ==
  ASSUME NEW s \in Seq(NALU)
  PROVE  VideoOf(s) \in Seq(VideoNALU) /\ VideoOf(s) \in Seq(NALU)
<1>1. VideoOf(s) \in Seq({x \in NALU : x.typ \in VideoTypes}) /\ VideoOf(s) \in Seq(NALU)
  BY OfTypesType DEF VideoOf
<1>2. {x \in NALU : x.typ \in VideoTypes} \subseteq VideoNALU
  BY TypesApart
<1> QED
  BY <1>1, <1>2, SeqMonotonic

-----------------------------------------------------------------------------
(***************************************************************************)
(* Access units that are encoded again.                                    *)
(***************************************************************************)

\* What the format processor knows of parameter sets.
Known(types) ==
  {ps \in [types -> NALU \cup {Nil}] : \A t \in types : ps[t] # Nil => ps[t].typ = t}

\* What becomes of an access unit: its video stays, and it has the known parameter
\* sets of the format or none, and all before a key frame.
Remuxed(nalus, ps, au, types, keys) ==
  /\ nalus \in Seq(NALU)
  /\ VideoOf(nalus) = VideoOf(au)
  /\ \A t \in types : LastOf(nalus, t) \in {Nil, ps[t]}
  /\ (\E i \in DOMAIN au : au[i].typ \in keys) /\ (\A t \in types : ps[t] # Nil) =>
       \A t \in types : LastOf(nalus, t) = ps[t]

\* What remains without parameter sets and delimiters: the video, and none of those.
LEMMA Stripped ==
  ASSUME NEW au \in Seq(NALU), NEW types, types \subseteq Types \ VideoTypes
  PROVE  LET video == OfTypes(au, Types \ (types \cup {"AUD"}))
         IN /\ video \in Seq(NALU)
            /\ VideoOf(video) = VideoOf(au)
            /\ \A t \in types : LastOf(video, t) = Nil
<1> DEFINE rest == Types \ (types \cup {"AUD"})
           video == OfTypes(au, rest)
<1>1. video \in Seq(NALU)
  BY OfTypesType
<1>2. VideoOf(video) = VideoOf(au)
  <2>1. rest \cap VideoTypes = VideoTypes
    BY DEF Types, VideoTypes
  <2> HIDE DEF rest
  <2>2. OfTypes(OfTypes(au, rest), VideoTypes) = OfTypes(au, rest \cap VideoTypes)
    BY OfTypesTwice
  <2> QED
    BY <2>1, <2>2 DEF VideoOf
<1>3. ASSUME NEW t \in types PROVE LastOf(video, t) = Nil
  <2>1. rest \cap {t} = {}
    OBVIOUS
  <2> HIDE DEF rest
  <2>2. OfTypes(OfTypes(au, rest), {t}) = OfTypes(au, rest \cap {t})
    BY OfTypesTwice
  <2>3. OfTypes(au, {}) = <<>>
    BY OfTypesSome
  <2> QED
    BY <2>1, <2>2, <2>3 DEF LastOf
<1> QED
  BY <1>1, <1>2, <1>3

\* Parameter sets, the last of each type the known one.
Heads(prefix, ps, types) ==
  /\ prefix \in Seq(NALU)
  /\ \A i \in 1..Len(prefix) : prefix[i].typ \in types
  /\ \A t \in types : LastOf(prefix, t) = ps[t]

\* NALUs without parameter sets.
Bare(nalus, types) == nalus \in Seq(NALU) /\ \A t \in types : LastOf(nalus, t) = Nil

\* With parameter sets before it, it has these.
LEMMA Prefixed ==
  ASSUME NEW types, types \subseteq Types \ VideoTypes,
         NEW ps, NEW prefix, NEW video, Heads(prefix, ps, types), Bare(video, types)
  PROVE  /\ prefix \o video \in Seq(NALU)
         /\ VideoOf(prefix \o video) = VideoOf(video)
         /\ \A t \in types : LastOf(prefix \o video, t) = ps[t]
<1>0. prefix \in Seq(NALU) /\ video \in Seq(NALU)
  BY DEF Heads, Bare
<1>1. prefix \o video \in Seq(NALU)
  BY <1>0, ConcatProperties
<1>2. VideoOf(prefix) = <<>>
  <2>1. ~ \E i \in 1..Len(prefix) : prefix[i].typ \in VideoTypes
    BY DEF Heads
  <2> QED
    BY <1>0, <2>1, OfTypesSome DEF VideoOf
<1>3. VideoOf(prefix \o video) = VideoOf(prefix) \o VideoOf(video)
  BY <1>0, OfTypesConcat DEF VideoOf
<1>4. VideoOf(prefix \o video) = VideoOf(video)
  BY <1>0, <1>2, <1>3, VideoType, ConcatEmptySeq
<1>5. ASSUME NEW t \in types PROVE LastOf(prefix \o video, t) = ps[t]
  <2>1. t # "nil"
    BY TypesApart
  <2>2. LastOf(prefix, t) = ps[t] /\ LastOf(video, t) = Nil
    BY DEF Heads, Bare
  <2> QED
    BY <1>0, <2>1, <2>2, LastOfConcat
<1> QED
  BY <1>1, <1>4, <1>5

\* H265's three parameter sets come in this order.
LEMMA RemuxH265 ==
  ASSUME NEW au \in Seq(NALU), NEW ps \in Known(H265!ParamTypes)
  PROVE  Remuxed(H265!remuxAccessUnit(ps, au), ps, au, H265!ParamTypes, H265!KeyTypes)
<1> DEFINE types == H265!ParamTypes
           video == OfTypes(au, Types \ (types \cup {"AUD"}))
           key   == \E i \in DOMAIN au : au[i].typ \in H265!KeyTypes
           known == \A t \in types : ps[t] # Nil
           prefix == <<ps["VPS"], ps["SPS"], ps["PPS"]>>
<1>1. H265!remuxAccessUnit(ps, au) = IF key /\ known THEN prefix \o video ELSE video
  BY SameOperators DEF H265!remuxAccessUnit
<1>2. types = {"VPS", "SPS", "PPS"} /\ types \subseteq Types \ VideoTypes
  BY TypesApart
<1>3. video \in Seq(NALU) /\ VideoOf(video) = VideoOf(au) /\ \A t \in types : LastOf(video, t) = Nil
  BY <1>2, Stripped
<1> HIDE DEF video, key, types
<1>4. CASE key /\ known
  <2>1. /\ ps["VPS"] \in NALU /\ ps["VPS"].typ = "VPS"
        /\ ps["SPS"] \in NALU /\ ps["SPS"].typ = "SPS"
        /\ ps["PPS"] \in NALU /\ ps["PPS"].typ = "PPS"
    BY <1>2, <1>4 DEF Known, types
  <2>2. /\ prefix \in Seq(NALU) /\ Len(prefix) = 3
        /\ prefix[1] = ps["VPS"] /\ prefix[2] = ps["SPS"] /\ prefix[3] = ps["PPS"]
    BY <2>1
  <2>3. \A i \in 1..Len(prefix) : prefix[i].typ \in types
    BY <2>1, <2>2, <1>2
  <2>4. ASSUME NEW t \in types PROVE LastOf(prefix, t) = ps[t]
    <3> DEFINE a == <<ps["VPS"]>>
               b == <<ps["SPS"]>>
               c == <<ps["PPS"]>>
    <3>1. a \in Seq(NALU) /\ b \in Seq(NALU) /\ c \in Seq(NALU) /\ a \o b \in Seq(NALU)
          /\ prefix = (a \o b) \o c
      BY <2>1
    <3>2. t # "nil" /\ ps[t] \in NALU /\ ps[t].typ = t /\ ps[t] # Nil
      BY <1>2, <2>1, TypesApart
    <3>3. /\ LastOf(a, t) = IF t = "VPS" THEN ps[t] ELSE Nil
          /\ LastOf(b, t) = IF t = "SPS" THEN ps[t] ELSE Nil
          /\ LastOf(c, t) = IF t = "PPS" THEN ps[t] ELSE Nil
      BY <2>1, LastOfSingle
    <3> HIDE DEF a, b, c, prefix
    <3>4. LastOf(a \o b, t) = IF LastOf(b, t) = Nil THEN LastOf(a, t) ELSE LastOf(b, t)
      BY <3>1, <3>2, LastOfConcat
    <3> DEFINE d == a \o b
    <3>5. LastOf(d \o c, t) = IF LastOf(c, t) = Nil THEN LastOf(d, t) ELSE LastOf(c, t)
      <4>1. d \in Seq(NALU) /\ c \in Seq(NALU) /\ t # "nil"
        BY <3>1, <3>2
      <4> HIDE DEF d
      <4> QED
        BY <4>1, LastOfConcat
    <3>6. LastOf(prefix, t) = LastOf(d \o c, t)
      BY <3>1
    <3> QED
      BY <1>2, <3>2, <3>3, <3>4, <3>5, <3>6
  <2>5. Heads(prefix, ps, types)
    BY <2>2, <2>3, <2>4 DEF Heads
  <2>6. Bare(video, types)
    BY <1>3 DEF Bare
  <2> HIDE DEF prefix
  <2>7. types \subseteq Types \ VideoTypes
    BY <1>2
  <2>8. /\ prefix \o video \in Seq(NALU)
        /\ VideoOf(prefix \o video) = VideoOf(video)
        /\ \A t \in types : LastOf(prefix \o video, t) = ps[t]
    BY <2>5, <2>6, <2>7, Prefixed
  <2> QED
    BY <1>1, <1>3, <1>4, <2>8 DEF Remuxed, types
<1>5. CASE ~(key /\ known)
  <2>1. H265!remuxAccessUnit(ps, au) = video
    BY <1>1, <1>5
  <2> QED
    BY <1>3, <1>5, <2>1 DEF Remuxed, types, key
<1> QED
  BY <1>4, <1>5

\* H264's two come in this order.
LEMMA RemuxH264 ==
  ASSUME NEW au \in Seq(NALU), NEW ps \in Known(H264!ParamTypes)
  PROVE  Remuxed(H264!remuxAccessUnit(ps, au), ps, au, H264!ParamTypes, H264!KeyTypes)
<1> DEFINE types == H264!ParamTypes
           video == OfTypes(au, Types \ (types \cup {"AUD"}))
           key   == \E i \in DOMAIN au : au[i].typ \in H264!KeyTypes
           known == \A t \in types : ps[t] # Nil
           prefix == <<ps["SPS"], ps["PPS"]>>
<1>1. H264!remuxAccessUnit(ps, au) = IF key /\ known THEN prefix \o video ELSE video
  BY SameOperators DEF H264!remuxAccessUnit
<1>2. types = {"SPS", "PPS"} /\ types \subseteq Types \ VideoTypes
  BY TypesApart
<1>3. video \in Seq(NALU) /\ VideoOf(video) = VideoOf(au) /\ \A t \in types : LastOf(video, t) = Nil
  BY <1>2, Stripped
<1> HIDE DEF video, key, types
<1>4. CASE key /\ known
  <2>1. /\ ps["SPS"] \in NALU /\ ps["SPS"].typ = "SPS"
        /\ ps["PPS"] \in NALU /\ ps["PPS"].typ = "PPS"
    BY <1>2, <1>4 DEF Known, types
  <2>2. /\ prefix \in Seq(NALU) /\ Len(prefix) = 2
        /\ prefix[1] = ps["SPS"] /\ prefix[2] = ps["PPS"]
    BY <2>1
  <2>3. \A i \in 1..Len(prefix) : prefix[i].typ \in types
    BY <2>1, <2>2, <1>2
  <2>4. ASSUME NEW t \in types PROVE LastOf(prefix, t) = ps[t]
    <3> DEFINE a == <<ps["SPS"]>>
               b == <<ps["PPS"]>>
    <3>1. a \in Seq(NALU) /\ b \in Seq(NALU) /\ prefix = a \o b
      BY <2>1
    <3>2. t # "nil" /\ ps[t] \in NALU /\ ps[t].typ = t /\ ps[t] # Nil
      BY <1>2, <2>1, TypesApart
    <3>3. /\ LastOf(a, t) = IF t = "SPS" THEN ps[t] ELSE Nil
          /\ LastOf(b, t) = IF t = "PPS" THEN ps[t] ELSE Nil
      BY <2>1, LastOfSingle
    <3> HIDE DEF a, b, prefix
    <3>4. LastOf(prefix, t) = IF LastOf(b, t) = Nil THEN LastOf(a, t) ELSE LastOf(b, t)
      BY <3>1, <3>2, LastOfConcat
    <3> QED
      BY <1>2, <3>2, <3>3, <3>4
  <2>5. Heads(prefix, ps, types)
    BY <2>2, <2>3, <2>4 DEF Heads
  <2>6. Bare(video, types)
    BY <1>3 DEF Bare
  <2> HIDE DEF prefix
  <2>7. types \subseteq Types \ VideoTypes
    BY <1>2
  <2>8. /\ prefix \o video \in Seq(NALU)
        /\ VideoOf(prefix \o video) = VideoOf(video)
        /\ \A t \in types : LastOf(prefix \o video, t) = ps[t]
    BY <2>5, <2>6, <2>7, Prefixed
  <2> QED
    BY <1>1, <1>3, <1>4, <2>8 DEF Remuxed, types
<1>5. CASE ~(key /\ known)
  <2>1. H264!remuxAccessUnit(ps, au) = video
    BY <1>1, <1>5
  <2> QED
    BY <1>3, <1>5, <2>1 DEF Remuxed, types, key
<1> QED
  BY <1>4, <1>5

-----------------------------------------------------------------------------
(***************************************************************************)
(* The publisher.                                                          *)
(***************************************************************************)

\* What the state holds.
Typed ==
  /\ forma \in {"H265", "H264", "generic"}
  /\ params \in Known(OwnTypes)
  /\ frame \in Seq(NALU) /\ Len(frame) <= MaxNALUs
  /\ fragment \in VideoNALU \cup {Nil}
  /\ partial \in VideoNALU \cup {Nil}
  /\ tag \in Tags
  /\ shown \in Tags \cup {None}
  /\ torn \in BOOLEAN
  /\ encoder = None => frame = <<>> /\ fragment = Nil
  /\ forma = "generic" => partial = Nil

\* The video that begins in a packet: none or one, the publisher's next.
Fresh(pkt) == IF pkt.payload.form = "end" THEN <<>> ELSE VideoOf(pkt.payload.nalus)

\* What the publisher sends in a packet.
Payload(payload) ==
  /\ payload.nalus \in Seq(NALU) /\ payload.nalus # <<>>
  /\ payload.form \in {"single", "aggregate", "malformed", "start", "end"}
  /\ payload.form = "end" => partial # Nil /\ payload.nalus = <<partial>>
  /\ payload.form # "end" =>
       /\ partial = Nil
       /\ VideoOf(payload.nalus) \in {<<>>} \cup {<<n>> : n \in Video}
  /\ payload.form \in {"start", "malformed"} => \E n \in Video : payload.nalus = <<n>>
  /\ forma = "generic" => payload.form = "single"

\* NALUs that the publisher sends.
LEMMA SmallNALUs ==
  ASSUME Typed, forma # "generic"
  PROVE  /\ ParamSets \subseteq NALU
         /\ \A n \in ParamSets : n.typ \notin VideoTypes
         /\ Small \subseteq NALU
         /\ \A n \in Small : n.typ \in VideoTypes => n \in Video
<1>1. ParamTypes[forma] \subseteq Types \ VideoTypes
  BY OwnTypesOf, TypesApart DEF OwnTypes, Typed
<1>2. tag \in Nat
  BY BoundsAreNumbers DEF Typed, Tags
<1> QED
  BY <1>1, <1>2 DEF ParamSets, Small, Video, NALU, VideoNALU, OtherNALU, Types, VideoTypes

\* The video of one NALU.
LEMMA VideoOfOne ==
  ASSUME NEW n
  PROVE  VideoOf(<<n>>) = IF n.typ \in VideoTypes THEN <<n>> ELSE <<>>
BY OfTypesSingle DEF VideoOf

\* Every payload is such.
LEMMA PayloadsAre ==
  ASSUME Typed, NEW payload \in Payloads
  PROVE  Payload(payload)
<1>0. tag \in Nat
  BY BoundsAreNumbers DEF Typed, Tags
<1>1. \A n \in Video : n \in VideoNALU /\ n \in NALU /\ n.typ \in VideoTypes
  BY <1>0 DEF Video, VideoNALU, NALU
<1>2. CASE partial # Nil
  <2>1. payload.form = "end" /\ payload.nalus = <<partial>>
    BY <1>2 DEF Payloads, FragmentEnd
  <2>2. partial \in NALU /\ forma # "generic"
    BY <1>2, TypesApart DEF Typed
  <2> QED
    BY <1>2, <2>1, <2>2 DEF Payload
<1>3. CASE partial = Nil /\ \E n \in Video : payload \in {Single(n), FragmentStart(n), Malformed(<<n>>)}
                            /\ (forma = "generic" => payload = Single(n))
  <2>1. PICK n \in Video : payload \in {Single(n), FragmentStart(n), Malformed(<<n>>)}
                           /\ (forma = "generic" => payload = Single(n))
    BY <1>3
  <2>2. /\ payload.nalus = <<n>> /\ payload.form \in {"single", "start", "malformed"}
        /\ forma = "generic" => payload.form = "single"
    BY <2>1 DEF Single, FragmentStart, Malformed
  <2>3. VideoOf(<<n>>) = <<n>>
    BY <1>1, VideoOfOne
  <2>4. <<n>> \in Seq(NALU) /\ <<n>> # <<>>
    BY <1>1
  <2> QED
    BY <1>3, <2>2, <2>3, <2>4 DEF Payload
<1>4. CASE partial = Nil /\ forma # "generic" /\ \E n \in Small : payload = Single(n)
  <2>1. PICK n \in Small : payload = Single(n)
    BY <1>4
  <2>2. payload.nalus = <<n>> /\ payload.form = "single"
    BY <2>1 DEF Single
  <2>3. n \in NALU /\ (n.typ \in VideoTypes => n \in Video)
    BY <1>4, SmallNALUs
  <2>4. VideoOf(<<n>>) \in {<<>>} \cup {<<m>> : m \in Video}
    BY <2>3, VideoOfOne
  <2>5. <<n>> \in Seq(NALU) /\ <<n>> # <<>>
    BY <2>3
  <2> QED
    BY <1>4, <2>2, <2>4, <2>5 DEF Payload
<1>5. CASE partial = Nil /\ forma # "generic" /\ \E p \in ParamSets, n \in Small : payload = Aggregate(<<p, n>>)
  <2>1. PICK p \in ParamSets, n \in Small : payload = Aggregate(<<p, n>>)
    BY <1>5
  <2>2. payload.nalus = <<p, n>> /\ payload.form = "aggregate"
    BY <2>1 DEF Aggregate
  <2>3. p \in NALU /\ p.typ \notin VideoTypes /\ n \in NALU /\ (n.typ \in VideoTypes => n \in Video)
    BY <1>5, SmallNALUs
  <2>4. <<p>> \in Seq(NALU) /\ <<p, n>> = Append(<<p>>, n) /\ <<p, n>> \in Seq(NALU) /\ <<p, n>> # <<>>
    BY <2>3
  <2>5. VideoOf(Append(<<p>>, n)) = IF n.typ \in VideoTypes THEN Append(VideoOf(<<p>>), n)
                                    ELSE VideoOf(<<p>>)
    <3> DEFINE s == <<p>>
    <3>1. s \in Seq(NALU) /\ n \in NALU
      BY <2>3, <2>4
    <3> HIDE DEF s
    <3>2. VideoOf(Append(s, n)) = IF n.typ \in VideoTypes THEN Append(VideoOf(s), n) ELSE VideoOf(s)
      BY <3>1, OfTypesAppend DEF VideoOf
    <3> QED
      BY <3>2 DEF s
  <2>6. VideoOf(<<p>>) = <<>> /\ Append(<<>>, n) = <<n>>
    BY <2>3, VideoOfOne
  <2>7. VideoOf(<<p, n>>) \in {<<>>} \cup {<<m>> : m \in Video}
    BY <2>3, <2>4, <2>5, <2>6
  <2> QED
    BY <1>5, <2>2, <2>4, <2>7 DEF Payload
<1> QED
  BY <1>2, <1>3, <1>4, <1>5 DEF Payloads

\* The publisher's next step: the rest of a NALU is to be sent after its start only,
\* and the number moves on with the video that begins.
LEMMA Tagged ==
  ASSUME Typed, NEW pkt \in Packets, Sent(pkt)
  PROVE  /\ Payload(pkt.payload)
         /\ partial' = IF pkt.payload.form = "start" THEN pkt.payload.nalus[1] ELSE Nil
         /\ tag' = IF Fresh(pkt) = <<>> THEN tag ELSE (tag + 1) % TagMod
         /\ Fresh(pkt) \in {<<>>} \cup {<<n>> : n \in Video}
         /\ forma' = forma
<1> DEFINE g == pkt.payload.nalus
<1>1. Payload(pkt.payload)
  BY PayloadsAre DEF Packets
<1>2. VideoOf(g) # <<>> <=> \E i \in 1..Len(g) : g[i].typ \in VideoTypes
  BY <1>1, OfTypesSome DEF VideoOf, Payload
<1>3. DOMAIN g = 1..Len(g)
  BY <1>1, LenProperties DEF Payload
<1>4. VideoOf(g) # <<>> <=> \E i \in DOMAIN g : IsVideo(g[i])
  BY <1>2, <1>3 DEF IsVideo
<1>5. Fresh(pkt) # <<>> <=> pkt.payload.form # "end" /\ \E i \in DOMAIN g : IsVideo(g[i])
  BY <1>4 DEF Fresh
<1>6. tag' = IF Fresh(pkt) = <<>> THEN tag ELSE (tag + 1) % TagMod
  BY <1>5 DEF Sent
<1>7. Fresh(pkt) \in {<<>>} \cup {<<n>> : n \in Video}
  BY <1>1 DEF Fresh, Payload
<1> QED
  BY <1>1, <1>6, <1>7 DEF Sent

-----------------------------------------------------------------------------
(***************************************************************************)
(* What a packet does to decoder, parameter sets and unit.                 *)
(***************************************************************************)

\* The packet ends a NALU or brings some.
Whole(pkt) ==
  \/ pkt.payload.form \in {"single", "aggregate"}
  \/ pkt.payload.form = "end" /\ fragment = pkt.payload.nalus[1]

\* The four outcomes of the decoder.
Outcome(pkt, d) ==
  \/ /\ d.refused /\ d.au = <<>> /\ d.fragment = Nil
     /\ d.frame = <<>> \/ (d.frame = frame /\ ~Whole(pkt))
  \/ ~d.refused /\ Whole(pkt) /\ d.au = frame \o pkt.payload.nalus /\ d.fragment = Nil /\ d.frame = <<>>
  \/ /\ ~d.refused /\ Whole(pkt) /\ d.au = <<>> /\ d.fragment = Nil
     /\ d.frame = frame \o pkt.payload.nalus /\ Len(d.frame) <= MaxNALUs
  \/ /\ ~d.refused /\ pkt.payload.form = "start"
     /\ d.au = <<>> /\ d.fragment = pkt.payload.nalus[1] /\ d.frame = frame

\* There is no other.
LEMMA Decoding ==
  ASSUME Typed, NEW pkt, Payload(pkt.payload)
  PROVE  Outcome(pkt, decode(pkt)) /\ decode(pkt).refused \in BOOLEAN
<1> DEFINE g     == pkt.payload.nalus
           whole == Whole(pkt)
           all   == IF whole THEN frame \o g ELSE frame
           begun == IF pkt.payload.form = "start" THEN g[1] ELSE Nil
           full  == Len(all) > MaxNALUs
           d     == decode(pkt)
<1>1. /\ d.refused = (full \/ (~whole /\ begun = Nil))
      /\ d.fragment = begun
      /\ d.frame = IF full \/ (whole /\ pkt.marker) THEN <<>> ELSE all
      /\ d.au = IF ~full /\ whole /\ pkt.marker THEN all ELSE <<>>
  BY DEF decode, Whole
<1>2. Len(frame) \in Nat /\ Len(frame) <= MaxNALUs /\ MaxNALUs \in Nat /\ frame \o g \in Seq(NALU)
  BY LenProperties, ConcatProperties, BoundsAreNumbers DEF Typed, Payload
<1>3. Len(all) \in Nat
  BY <1>2, LenProperties
<1>4. pkt.payload.form = "start" => begun # Nil
  <2>1. \A n \in Video : n # Nil
    BY DEF Video, VideoTypes, Nil
  <2> QED
    BY <2>1 DEF Payload
<1>5. whole => begun = Nil
  BY DEF Whole
<1>6. ~whole => ~full
  BY <1>2
<1>7. ~full => Len(all) <= MaxNALUs
  BY <1>2, <1>3
<1>8. whole => all = frame \o g
  OBVIOUS
<1>9. ~whole => all = frame
  OBVIOUS
<1>10. pkt.payload.form # "start" => begun = Nil
  OBVIOUS
<1>11. pkt.payload.form = "start" => begun = g[1]
  OBVIOUS
<1> HIDE DEF whole, all, begun, full, d
<1>12. ASSUME whole PROVE Outcome(pkt, d)
  <2>1. CASE full
    BY <1>1, <1>5, <1>12, <2>1 DEF Outcome
  <2>2. CASE ~full
    BY <1>1, <1>5, <1>7, <1>8, <1>12, <2>2 DEF Outcome, whole
  <2> QED
    BY <2>1, <2>2
<1>13. ASSUME ~whole PROVE Outcome(pkt, d)
  <2>1. ~Whole(pkt) /\ ~full /\ d.frame = frame /\ d.au = <<>> /\ d.fragment = begun
    BY <1>1, <1>6, <1>9, <1>13 DEF whole
  <2>2. CASE pkt.payload.form = "start"
    BY <1>1, <1>4, <1>6, <1>11, <1>13, <2>1, <2>2 DEF Outcome
  <2>3. CASE pkt.payload.form # "start"
    BY <1>1, <1>6, <1>10, <1>13, <2>1, <2>3 DEF Outcome
  <2> QED
    BY <2>2, <2>3
<1>14. d.refused \in BOOLEAN
  <2>1. (full \/ (~whole /\ begun = Nil)) \in BOOLEAN
    OBVIOUS
  <2> QED
    BY <1>1, <2>1, Zenon
<1> QED
  BY <1>12, <1>13, <1>14 DEF d

\* What it keeps and returns are NALUs, not too many.
LEMMA DecodedType ==
  ASSUME Typed, NEW pkt, Payload(pkt.payload)
  PROVE  /\ decode(pkt).frame \in Seq(NALU) /\ Len(decode(pkt).frame) <= MaxNALUs
         /\ decode(pkt).au \in Seq(NALU)
         /\ decode(pkt).fragment \in VideoNALU \cup {Nil}
<1> DEFINE d == decode(pkt)
           g == pkt.payload.nalus
<1>1. Outcome(pkt, d)
  BY Decoding
<1>2. /\ frame \in Seq(NALU) /\ Len(frame) <= MaxNALUs /\ frame \o g \in Seq(NALU)
      /\ <<>> \in Seq(NALU) /\ Len(<<>>) <= MaxNALUs
  BY ConcatProperties, BoundsAreNumbers, EmptySeq DEF Typed, Payload
<1>3. pkt.payload.form = "start" => g[1] \in VideoNALU
  <2>1. \A n \in Video : n \in VideoNALU
    BY BoundsAreNumbers DEF Video, VideoNALU, Typed, Tags
  <2> QED
    BY <2>1 DEF Payload
<1> HIDE DEF d, g
<1>4. d.frame \in Seq(NALU) /\ Len(d.frame) <= MaxNALUs
  BY <1>1, <1>2 DEF Outcome, g
<1>5. d.au \in Seq(NALU)
  BY <1>1, <1>2 DEF Outcome, g
<1>6. d.fragment \in VideoNALU \cup {Nil}
  BY <1>1, <1>3 DEF Outcome, g
<1> QED
  BY <1>4, <1>5, <1>6 DEF d

\* The parameter sets after a packet: those it brings unless in fragments, and the
\* others as they were.
Learned(pkt) ==
  LET g == pkt.payload.nalus
  IN /\ params' \in Known(OwnTypes)
     /\ \A t \in OwnTypes :
          params'[t] = IF pkt.payload.form \in {"single", "aggregate"} /\ LastOf(g, t) # Nil
                       THEN LastOf(g, t) ELSE params[t]

\* Parameter sets that are brought up to date so are known ones.
LEMMA Learning ==
  ASSUME Typed, NEW pkt, Payload(pkt.payload),
         params' = [t \in OwnTypes |->
                      IF pkt.payload.form \in {"single", "aggregate"} /\ LastOf(pkt.payload.nalus, t) # Nil
                      THEN LastOf(pkt.payload.nalus, t) ELSE params[t]]
  PROVE  Learned(pkt)
<1> DEFINE g == pkt.payload.nalus
<1>1. ASSUME NEW t \in OwnTypes
      PROVE  params'[t] \in NALU \cup {Nil} /\ (params'[t] # Nil => params'[t].typ = t)
  <2>1. g \in Seq(NALU)
    BY DEF Payload
  <2>2. LastOf(g, t) # Nil => LastOf(g, t) \in NALU /\ LastOf(g, t).typ = t
    BY <2>1, LastOfType
  <2>3. params[t] \in NALU \cup {Nil} /\ (params[t] # Nil => params[t].typ = t)
    BY DEF Typed, Known
  <2> HIDE DEF g
  <2> QED
    BY <2>2, <2>3 DEF g
<1>2. params' \in [OwnTypes -> NALU \cup {Nil}]
  BY <1>1
<1> QED
  BY <1>1, <1>2 DEF Learned, Known

\* H265's are.
LEMMA LearningH265 ==
  ASSUME Typed, forma = "H265", NEW pkt, Payload(pkt.payload),
         params' = H265!updateTrackParametersFromRTPPacket(params, pkt.payload)
  PROVE  Learned(pkt)
<1>1. OwnTypes = H265!ParamTypes
  BY OwnTypesOf
<1>2. ASSUME NEW t \in OwnTypes
      PROVE  H265!rtpH265ExtractParams(pkt.payload)[t] =
               IF pkt.payload.form \in {"single", "aggregate"} THEN LastOf(pkt.payload.nalus, t) ELSE Nil
  BY <1>1, SameOperators DEF H265!rtpH265ExtractParams
<1>3. params' = [t \in OwnTypes |->
                   IF H265!rtpH265ExtractParams(pkt.payload)[t] = Nil THEN params[t]
                   ELSE H265!rtpH265ExtractParams(pkt.payload)[t]]
  BY <1>1, SameOperators DEF H265!updateTrackParametersFromRTPPacket
<1>4. params' = [t \in OwnTypes |->
                   IF pkt.payload.form \in {"single", "aggregate"} /\ LastOf(pkt.payload.nalus, t) # Nil
                   THEN LastOf(pkt.payload.nalus, t) ELSE params[t]]
  BY <1>2, <1>3
<1> QED
  BY <1>4, Learning

\* And H264's.
LEMMA LearningH264 ==
  ASSUME Typed, forma = "H264", NEW pkt, Payload(pkt.payload),
         params' = H264!updateTrackParametersFromRTPPacket(params, pkt.payload)
  PROVE  Learned(pkt)
<1>1. OwnTypes = H264!ParamTypes
  BY OwnTypesOf
<1>2. ASSUME NEW t \in OwnTypes
      PROVE  H264!rtpH264ExtractParams(pkt.payload)[t] =
               IF pkt.payload.form \in {"single", "aggregate"} THEN LastOf(pkt.payload.nalus, t) ELSE Nil
  BY <1>1, SameOperators DEF H264!rtpH264ExtractParams
<1>3. params' = [t \in OwnTypes |->
                   IF H264!rtpH264ExtractParams(pkt.payload)[t] = Nil THEN params[t]
                   ELSE H264!rtpH264ExtractParams(pkt.payload)[t]]
  BY <1>1, SameOperators DEF H264!updateTrackParametersFromRTPPacket
<1>4. params' = [t \in OwnTypes |->
                   IF pkt.payload.form \in {"single", "aggregate"} /\ LastOf(pkt.payload.nalus, t) # Nil
                   THEN LastOf(pkt.payload.nalus, t) ELSE params[t]]
  BY <1>2, <1>3
<1> QED
  BY <1>4, Learning

\* The packet is passed on as it is.
Routes(pkt) ==
  /\ encoder = None /\ encoder' = None /\ UNCHANGED <<frame, fragment>>
  /\ unit'.nalus = IF pkt.payload.form = "start" THEN <<>> ELSE pkt.payload.nalus
  /\ Observe(FALSE, <<>>)

\* It is refused, or lost.
Drops ==
  /\ UNCHANGED <<encoder, frame, fragment>>
  /\ unit'.nalus = <<>>
  /\ Observe(TRUE, <<>>)

\* It goes through the decoder, and the access unit that it ends is encoded.
Decodes(pkt) ==
  LET d == decode(pkt)
  IN /\ encoder' # None /\ frame' = d.frame /\ fragment' = d.fragment
     /\ Remuxed(unit'.nalus, params', d.au, OwnTypes, KeyTypes[forma])
     /\ Observe(d.refused, d.au)

\* An encoder's next number is a number.
LEMMA EncoderStays ==
  ASSUME NEW first \in SeqNumbers, NEW next,
         next = first \/ \E k \in 1..MaxPackets : next = (first + k) % SeqWrap
  PROVE  next # None
<1>1. \A k \in 1..MaxPackets : first + k \in Nat
  BY NumbersWrap, BoundsAreNumbers DEF SeqNumbers
<1>2. next \in SeqNumbers
  BY <1>1, Division
<1> QED
  BY <1>2, NoneIsNoNumber DEF SeqNumbers

\* The decoder does not look at the padding.
LEMMA PaddingIgnored == ASSUME NEW pkt PROVE decode(withoutPadding(pkt)) = decode(pkt)
BY DEF decode, withoutPadding

\* A packet of H265 is passed on or goes through the decoder.
LEMMA WaysH265 ==
  ASSUME Typed, Numbered, NEW pkt \in Packets, Payload(pkt.payload), processH265(pkt)
  PROVE  Learned(pkt) /\ (Routes(pkt) \/ Decodes(pkt))
<1> DEFINE clean == withoutPadding(pkt)
           d == decode(pkt)
           au == H265!remuxAccessUnit(params', d.au)
           Goes(first) ==
             /\ frame' = d.frame /\ fragment' = d.fragment /\ Observe(d.refused, d.au)
             /\ \/ au = <<>> /\ unit'.nalus = <<>> /\ encoder' = first
                \/ unit'.nalus = au /\ \E k \in 1..MaxPackets : encoder' = (first + k) % SeqWrap
<1>1. /\ Learned(pkt) /\ params' \in Known(OwnTypes)
      /\ OwnTypes = H265!ParamTypes /\ KeyTypes[forma] = H265!KeyTypes
  BY LearningH265, OwnTypesOf DEF processH265, Learned
<1>2. Remuxed(au, params', d.au, OwnTypes, KeyTypes[forma])
  <2>1. d.au \in Seq(NALU)
    BY DecodedType
  <2> HIDE DEF d
  <2> QED
    BY <1>1, <2>1, RemuxH265
<1>3. \A first \in SeqNumbers : Goes(first) => Decodes(pkt)
  <2> SUFFICES ASSUME NEW first \in SeqNumbers, Goes(first) PROVE Decodes(pkt)
    OBVIOUS
  <2>1. encoder' # None
    BY EncoderStays
  <2>2. unit'.nalus = au
    OBVIOUS
  <2> HIDE DEF d, au
  <2> QED
    BY <1>2, <2>1, <2>2 DEF Decodes, d
<1>4. arriving \in SeqNumbers /\ clean.seq = arriving /\ encoder \in SeqNumbers \cup {None}
  BY Unpadded DEF Numbered
<1>5. CASE encoder # None
  <2>1. reencode(pkt, encoder, H265!remuxAccessUnit)
    BY <1>5 DEF processH265, routeOrReencode
  <2>2. Goes(encoder)
    BY <2>1 DEF reencode, encode, NoUnit
  <2> HIDE DEF Goes
  <2> QED
    BY <1>1, <1>3, <1>4, <1>5, <2>2
<1>6. CASE encoder = None /\ MarshalSize(clean) > UDPMaxPayloadSize
  <2>1. reencode(clean, clean.seq, H265!remuxAccessUnit)
    BY <1>6 DEF processH265, routeOrReencode, InitialSequenceNumber
  <2>2. decode(clean) = d
    BY PaddingIgnored
  <2>3. Goes(clean.seq)
    <3> HIDE DEF clean
    <3> QED
      BY <2>1, <2>2 DEF reencode, encode, NoUnit
  <2> HIDE DEF Goes
  <2> QED
    BY <1>1, <1>3, <1>4, <2>3
<1>7. CASE encoder = None /\ ~(MarshalSize(clean) > UDPMaxPayloadSize)
  <2>1. unit' = routed(clean) /\ UNCHANGED <<encoder, frame, fragment>> /\ Observe(FALSE, <<>>)
    BY <1>7 DEF processH265, routeOrReencode
  <2>2. unit'.nalus = IF pkt.payload.form = "start" THEN <<>> ELSE pkt.payload.nalus
    BY <2>1 DEF routed, withoutPadding
  <2> QED
    BY <1>1, <1>7, <2>1, <2>2 DEF Routes
<1> QED
  BY <1>5, <1>6, <1>7

\* So is one of H264.
LEMMA WaysH264 ==
  ASSUME Typed, Numbered, NEW pkt \in Packets, Payload(pkt.payload), processH264(pkt)
  PROVE  Learned(pkt) /\ (Routes(pkt) \/ Decodes(pkt))
<1> DEFINE clean == withoutPadding(pkt)
           d == decode(pkt)
           au == H264!remuxAccessUnit(params', d.au)
           Goes(first) ==
             /\ frame' = d.frame /\ fragment' = d.fragment /\ Observe(d.refused, d.au)
             /\ \/ au = <<>> /\ unit'.nalus = <<>> /\ encoder' = first
                \/ unit'.nalus = au /\ \E k \in 1..MaxPackets : encoder' = (first + k) % SeqWrap
<1>1. /\ Learned(pkt) /\ params' \in Known(OwnTypes)
      /\ OwnTypes = H264!ParamTypes /\ KeyTypes[forma] = H264!KeyTypes
  BY LearningH264, OwnTypesOf DEF processH264, Learned
<1>2. Remuxed(au, params', d.au, OwnTypes, KeyTypes[forma])
  <2>1. d.au \in Seq(NALU)
    BY DecodedType
  <2> HIDE DEF d
  <2> QED
    BY <1>1, <2>1, RemuxH264
<1>3. \A first \in SeqNumbers : Goes(first) => Decodes(pkt)
  <2> SUFFICES ASSUME NEW first \in SeqNumbers, Goes(first) PROVE Decodes(pkt)
    OBVIOUS
  <2>1. encoder' # None
    BY EncoderStays
  <2>2. unit'.nalus = au
    OBVIOUS
  <2> HIDE DEF d, au
  <2> QED
    BY <1>2, <2>1, <2>2 DEF Decodes, d
<1>4. arriving \in SeqNumbers /\ clean.seq = arriving /\ encoder \in SeqNumbers \cup {None}
  BY Unpadded DEF Numbered
<1>5. CASE encoder # None
  <2>1. reencode(pkt, encoder, H264!remuxAccessUnit)
    BY <1>5 DEF processH264, routeOrReencode
  <2>2. Goes(encoder)
    BY <2>1 DEF reencode, encode, NoUnit
  <2> HIDE DEF Goes
  <2> QED
    BY <1>1, <1>3, <1>4, <1>5, <2>2
<1>6. CASE encoder = None /\ MarshalSize(clean) > UDPMaxPayloadSize
  <2>1. reencode(clean, clean.seq, H264!remuxAccessUnit)
    BY <1>6 DEF processH264, routeOrReencode, InitialSequenceNumber
  <2>2. decode(clean) = d
    BY PaddingIgnored
  <2>3. Goes(clean.seq)
    <3> HIDE DEF clean
    <3> QED
      BY <2>1, <2>2 DEF reencode, encode, NoUnit
  <2> HIDE DEF Goes
  <2> QED
    BY <1>1, <1>3, <1>4, <2>3
<1>7. CASE encoder = None /\ ~(MarshalSize(clean) > UDPMaxPayloadSize)
  <2>1. unit' = routed(clean) /\ UNCHANGED <<encoder, frame, fragment>> /\ Observe(FALSE, <<>>)
    BY <1>7 DEF processH264, routeOrReencode
  <2>2. unit'.nalus = IF pkt.payload.form = "start" THEN <<>> ELSE pkt.payload.nalus
    BY <2>1 DEF routed, withoutPadding
  <2> QED
    BY <1>1, <1>7, <2>1, <2>2 DEF Routes
<1> QED
  BY <1>5, <1>6, <1>7

\* A packet of another format is passed on or refused.
LEMMA WaysGeneric ==
  ASSUME Typed, Numbered, NEW pkt \in Packets, Payload(pkt.payload), processGeneric(pkt)
  PROVE  params' = params /\ (Routes(pkt) \/ Drops)
<1> DEFINE clean == withoutPadding(pkt)
           tooBig == MarshalSize(clean) > UDPMaxPayloadSize
<1>1. encoder = None
  BY DEF Numbered, processGeneric
<1>2. UNCHANGED <<params, encoder, frame, fragment>>
  BY DEF processGeneric, procVars
<1>3. Observe(tooBig, <<>>)
  BY DEF processGeneric
<1>4. CASE tooBig
  <2>1. unit'.nalus = <<>>
    BY <1>4 DEF processGeneric, NoUnit
  <2>2. Observe(TRUE, <<>>)
    BY <1>3, <1>4 DEF Observe
  <2> QED
    BY <1>2, <2>1, <2>2 DEF Drops
<1>5. CASE ~tooBig
  <2>1. unit'.nalus = IF pkt.payload.form = "start" THEN <<>> ELSE pkt.payload.nalus
    BY <1>5 DEF processGeneric, routed, withoutPadding
  <2>2. Observe(FALSE, <<>>)
    BY <1>3, <1>5 DEF Observe
  <2> QED
    BY <1>1, <1>2, <2>1, <2>2 DEF Routes
<1> QED
  BY <1>4, <1>5

\* A step of the format: the publisher goes on by a packet, which is passed on, goes
\* through the decoder, or is refused or lost.
Advance(pkt) ==
  /\ Sent(pkt)
  /\ \/ Learned(pkt) /\ (Routes(pkt) \/ Decodes(pkt))
     \/ params' = params /\ OwnTypes = {} /\ Routes(pkt)
     \/ params' = params /\ Drops

\* Every step is one.
LEMMA Advances ==
  ASSUME Typed, Numbered, Next
  PROVE  \E pkt \in Packets : Advance(pkt)
<1>1. PICK pkt \in Packets : WritePacket(pkt) \/ LosePacket(pkt)
  BY DEF Next
<1>2. Payload(pkt.payload)
  BY PayloadsAre DEF Packets
<1>3. CASE WritePacket(pkt)
  <2>1. Sent(pkt) /\ (processH265(pkt) \/ processH264(pkt) \/ processGeneric(pkt))
    BY <1>3 DEF WritePacket, writeRTPPacket
  <2>2. CASE processH265(pkt)
    BY <1>2, <2>1, <2>2, WaysH265 DEF Advance
  <2>3. CASE processH264(pkt)
    BY <1>2, <2>1, <2>3, WaysH264 DEF Advance
  <2>4. CASE processGeneric(pkt)
    <3>1. OwnTypes = {}
      BY <2>4, OwnTypesOf DEF processGeneric
    <3> QED
      BY <1>2, <2>1, <2>4, <3>1, WaysGeneric DEF Advance
  <2> QED
    BY <2>1, <2>2, <2>3, <2>4
<1>4. CASE LosePacket(pkt)
  <2>1. Sent(pkt) /\ unit'.nalus = <<>> /\ Observe(TRUE, <<>>) /\ params' = params
        /\ UNCHANGED <<encoder, frame, fragment>>
    BY <1>4 DEF LosePacket, NoUnit, procVars
  <2> QED
    BY <2>1 DEF Advance, Drops
<1> QED
  BY <1>1, <1>3, <1>4

-----------------------------------------------------------------------------
(***************************************************************************)
(* The state stays typed.                                                  *)
(***************************************************************************)

\* What the readers have seen of the video.
LEMMA ObservedVideo ==
  ASSUME NEW refused, NEW au, Observe(refused, au)
  PROVE  LET video == VideoOf(unit'.nalus)
         IN /\ shown' = IF video = <<>> THEN shown ELSE (video[Len(video)].id + 1) % TagMod
            /\ torn' = ((torn \/ refused) /\ ~(video # <<>> /\ shown' = tag'))
            /\ decoded' = au
BY DEF Observe, VideoOf, Last

\* The number after a video NALU.
LEMMA TagsType == ASSUME NEW a \in Nat PROVE a % TagMod \in Tags
BY BoundsAreNumbers, DivisionBy DEF Tags

\* Units have NALUs.
LEMMA UnitType ==
  ASSUME Typed, NEW pkt \in Packets, Advance(pkt)
  PROVE  unit'.nalus \in Seq(NALU)
<1>1. Payload(pkt.payload)
  BY PayloadsAre DEF Packets
<1>2. <<>> \in Seq(NALU)
  BY EmptySeq
<1> QED
  BY <1>1, <1>2 DEF Advance, Routes, Drops, Decodes, Payload, Remuxed

\* The state stays typed over a step.
LEMMA TypedStep ==
  ASSUME Typed, NEW pkt \in Packets, Advance(pkt)
  PROVE  Typed'
<1> DEFINE video == VideoOf(unit'.nalus)
           g == pkt.payload.nalus
<1>1. /\ Payload(pkt.payload) /\ forma' = forma
      /\ partial' = IF pkt.payload.form = "start" THEN g[1] ELSE Nil
      /\ tag' = IF Fresh(pkt) = <<>> THEN tag ELSE (tag + 1) % TagMod
  BY Tagged DEF Advance
<1>2. OwnTypes' = OwnTypes
  BY <1>1 DEF OwnTypes
<1>3. params' \in Known(OwnTypes)
  BY DEF Advance, Learned, Typed
<1>4. frame' \in Seq(NALU) /\ Len(frame') <= MaxNALUs /\ fragment' \in VideoNALU \cup {Nil}
  BY <1>1, DecodedType DEF Advance, Routes, Drops, Decodes, Typed
<1>5. partial' \in VideoNALU \cup {Nil}
  <2>1. \A n \in Video : n \in VideoNALU
    BY BoundsAreNumbers DEF Video, VideoNALU, Typed, Tags
  <2> QED
    BY <1>1, <2>1 DEF Payload
<1>6. tag' \in Tags
  <2>1. tag \in Nat /\ tag + 1 \in Nat
    BY BoundsAreNumbers DEF Typed, Tags
  <2> QED
    BY <1>1, <2>1, TagsType DEF Typed
<1>7. \E refused, au : Observe(refused, au) /\ refused \in BOOLEAN
  BY <1>1, Decoding DEF Advance, Routes, Drops, Decodes
<1>8. video \in Seq(VideoNALU)
  BY UnitType, VideoType
<1>9. shown' \in Tags \cup {None}
  <2>1. shown' = IF video = <<>> THEN shown ELSE (video[Len(video)].id + 1) % TagMod
    BY <1>7, ObservedVideo
  <2> HIDE DEF video
  <2>2. CASE video = <<>>
    BY <2>1, <2>2 DEF Typed
  <2>3. CASE video # <<>>
    <3>1. Len(video) \in 1..Len(video)
      BY <1>8, <2>3, EmptySeq, LenProperties
    <3>2. video[Len(video)] \in VideoNALU
      BY <1>8, <3>1, ElementOfSeq
    <3>3. video[Len(video)].id + 1 \in Nat
      BY <3>2 DEF VideoNALU
    <3> QED
      BY <2>1, <2>3, <3>3, TagsType
  <2> QED
    BY <2>2, <2>3
<1>10. torn' \in BOOLEAN
  BY <1>7 DEF Observe
<1>11. encoder' = None => frame' = <<>> /\ fragment' = Nil
  BY DEF Advance, Routes, Drops, Decodes, Typed
<1>12. forma' = "generic" => partial' = Nil
  BY <1>1 DEF Payload
<1> QED
  BY <1>1, <1>2, <1>3, <1>4, <1>5, <1>6, <1>9, <1>10, <1>11, <1>12 DEF Typed

-----------------------------------------------------------------------------
(***************************************************************************)
(* The parameter sets.                                                     *)
(***************************************************************************)

\* Those of the access unit under way are known.
OwnFrame == \A t \in OwnTypes : LastOf(frame, t) \in {Nil, params[t]}

\* The parameter sets of the access unit, with those the packet brings, are known.
LEMMA KnownToo ==
  ASSUME Typed, OwnFrame, NEW pkt, Payload(pkt.payload), Learned(pkt), NEW t \in OwnTypes
  PROVE  /\ Whole(pkt) => LastOf(frame \o pkt.payload.nalus, t) \in {Nil, params'[t]}
         /\ ~(pkt.payload.form \in {"single", "aggregate"}) => LastOf(frame, t) \in {Nil, params'[t]}
<1> DEFINE g == pkt.payload.nalus
           brings == pkt.payload.form \in {"single", "aggregate"}
<1>1. params'[t] = IF brings /\ LastOf(g, t) # Nil THEN LastOf(g, t) ELSE params[t]
  BY DEF Learned
<1>2. LastOf(frame, t) \in {Nil, params[t]}
  BY DEF OwnFrame
<1>3. t \in Types \ VideoTypes /\ t # "nil"
  BY OwnTypesOf, TypesApart DEF Typed
<1>4. frame \in Seq(NALU) /\ g \in Seq(NALU)
  BY DEF Typed, Payload
<1>5. LastOf(frame \o g, t) = IF LastOf(g, t) = Nil THEN LastOf(frame, t) ELSE LastOf(g, t)
  BY <1>3, <1>4, LastOfConcat
<1>6. Whole(pkt) /\ ~brings => LastOf(g, t) = Nil
  <2> SUFFICES ASSUME Whole(pkt), ~brings PROVE LastOf(g, t) = Nil
    OBVIOUS
  <2>1. g = <<partial>> /\ partial \in VideoNALU
    BY DEF Whole, Payload, Typed
  <2>2. partial.typ # t
    BY <2>1, <1>3, TypesApart
  <2>3. LastOf(<<partial>>, t) = Nil
    BY <2>2, LastOfSingle
  <2> QED
    BY <2>1, <2>3
<1> QED
  BY <1>1, <1>2, <1>5, <1>6

\* They are also after the step, and the access unit that is encoded has its own.
LEMMA ParamStep ==
  ASSUME Typed, OwnFrame, NEW pkt \in Packets, Advance(pkt)
  PROVE  OwnFrame' /\ OwnParameters'
<1> DEFINE d == decode(pkt)
<1>1. Payload(pkt.payload) /\ forma' = forma
  BY Tagged DEF Advance
<1>2. OwnTypes' = OwnTypes /\ ParamTypes[forma'] = OwnTypes /\ KeyTypes[forma'] = KeyTypes[forma]
  BY <1>1 DEF OwnTypes
<1>3. ASSUME decoded' = <<>> PROVE OwnParameters'
  <2>1. \A t \in OwnTypes : LastOf(decoded', t) = Nil
    BY <1>3, LastOfSingle
  <2>2. DOMAIN decoded' = {}
    BY <1>3
  <2> QED
    BY <1>2, <1>3, <2>1, <2>2 DEF OwnParameters
<1>4. CASE Routes(pkt)
  <2>1. decoded' = <<>> /\ frame' = frame
    BY <1>4, ObservedVideo DEF Routes
  <2>2. OwnFrame'
    <3>1. frame = <<>>
      BY <1>4 DEF Routes, Typed
    <3>2. \A t \in OwnTypes : LastOf(frame, t) = Nil
      BY <3>1, LastOfSingle
    <3> QED
      BY <1>2, <2>1, <3>2 DEF OwnFrame
  <2> QED
    BY <1>3, <2>1, <2>2
<1>5. CASE params' = params /\ Drops
  <2>1. decoded' = <<>> /\ frame' = frame
    BY <1>5, ObservedVideo DEF Drops
  <2>2. OwnFrame'
    BY <1>2, <1>5, <2>1 DEF OwnFrame
  <2> QED
    BY <1>3, <2>1, <2>2
<1>6. CASE Learned(pkt) /\ Decodes(pkt)
  <2>1. frame' = d.frame /\ decoded' = d.au /\ Remuxed(unit'.nalus, params', d.au, OwnTypes, KeyTypes[forma])
    BY <1>6, ObservedVideo DEF Decodes
  <2>2. Outcome(pkt, d)
    BY <1>1, Decoding
  <2>3. \A t \in OwnTypes : LastOf(<<>>, t) = Nil
    BY LastOfSingle
  <2>4. \A t \in OwnTypes : Whole(pkt) => LastOf(frame \o pkt.payload.nalus, t) \in {Nil, params'[t]}
    BY <1>1, <1>6, KnownToo
  <2>5. \A t \in OwnTypes : ~Whole(pkt) => LastOf(frame, t) \in {Nil, params'[t]}
    BY <1>1, <1>6, KnownToo DEF Whole
  <2>6. pkt.payload.form = "start" => ~Whole(pkt)
    BY DEF Whole
  <2> HIDE DEF d
  <2>7. ASSUME NEW t \in OwnTypes PROVE LastOf(d.au, t) \in {Nil, params'[t]}
    BY <2>2, <2>3, <2>4 DEF Outcome
  <2>8. ASSUME NEW t \in OwnTypes PROVE LastOf(d.frame, t) \in {Nil, params'[t]}
    BY <2>2, <2>3, <2>4, <2>5, <2>6 DEF Outcome
  <2>9. OwnFrame'
    BY <1>2, <2>1, <2>8 DEF OwnFrame
  <2>10. OwnParameters'
    <3>1. \A t \in OwnTypes : LastOf(unit'.nalus, t) \in {Nil, params'[t]}
      BY <2>1 DEF Remuxed
    <3>2. \A t \in OwnTypes : LastOf(d.au, t) # Nil => LastOf(d.au, t) = params'[t] /\ params'[t] # Nil
      BY <2>7
    <3>3. (\E i \in DOMAIN d.au : d.au[i].typ \in KeyTypes[forma]) /\ (\A t \in OwnTypes : params'[t] # Nil) =>
            \A t \in OwnTypes : LastOf(unit'.nalus, t) = params'[t]
      BY <2>1 DEF Remuxed
    <3>4. OfTypes(unit'.nalus, VideoTypes) = OfTypes(d.au, VideoTypes)
      BY <2>1 DEF Remuxed, VideoOf
    <3> QED
      BY <1>2, <2>1, <3>1, <3>2, <3>3, <3>4 DEF OwnParameters
  <2> QED
    BY <2>9, <2>10
<1> QED
  BY <1>4, <1>5, <1>6 DEF Advance

-----------------------------------------------------------------------------
(***************************************************************************)
(* The order of the video.                                                 *)
(***************************************************************************)

\* The NALU of which only a part was sent, or has come.
Rest(n) == IF n = Nil THEN <<>> ELSE <<n>>

\* The video on its way: begun by the publisher and not shown to the readers, if
\* nothing was lost.
Pending == IF encoder = None THEN Rest(partial) ELSE VideoOf(frame) \o Rest(fragment)

\* Video that follows on: from tag b on, one after the other, up to tag e.
Counted(s, b, e) ==
  /\ s \in Seq(VideoNALU)
  /\ \A i \in 1..Len(s) : s[i].id = (b + i - 1) % TagMod
  /\ e = (b + Len(s)) % TagMod

\* Unless something was lost or refused since the readers had it all, the video on its
\* way follows what they have seen and leads to the publisher's next.
InOrder ==
  ~torn =>
    /\ encoder # None => fragment = partial
    /\ \E b \in Tags : Counted(Pending, b, tag) /\ (shown # None => shown = b)

\* Nothing follows on anything.
LEMMA CountedEmpty == ASSUME NEW b \in Tags PROVE Counted(<<>>, b, b)
<1>1. (b + 0) % TagMod = b
  BY BoundsAreNumbers DEF Tags
<1>2. <<>> \in Seq(VideoNALU) /\ Len(<<>>) = 0
  BY EmptySeq
<1> QED
  BY <1>1, <1>2 DEF Counted

\* One more that has the next tag.
LEMMA CountedMore ==
  ASSUME NEW s, NEW b \in Tags, NEW e, Counted(s, b, e), NEW n \in VideoNALU, n.id = e
  PROVE  Counted(s \o <<n>>, b, (e + 1) % TagMod)
<1> DEFINE l == Append(s, n)
<1>0. s \in Seq(VideoNALU)
  BY DEF Counted
<1>1. s \o <<n>> = l
  BY <1>0, AppendIsConcat
<1>2. /\ l \in Seq(VideoNALU) /\ Len(s) \in Nat /\ Len(l) = Len(s) + 1
      /\ l[Len(s) + 1] = n /\ \A i \in 1..Len(s) : l[i] = s[i]
  BY <1>0, LenProperties, AppendProperties
<1>3. b \in Nat /\ b + Len(s) \in Nat
  BY <1>2, BoundsAreNumbers DEF Tags
<1>4. (e + 1) % TagMod = (b + Len(l)) % TagMod
  <2>1. (((b + Len(s)) % TagMod) + 1) % TagMod = (b + Len(s) + 1) % TagMod
    BY <1>3, BoundsAreNumbers, SuccessorBy
  <2>2. b + Len(s) + 1 = b + Len(l)
    BY <1>2, <1>3
  <2> QED
    BY <2>1, <2>2 DEF Counted
<1> HIDE DEF l
<1>5. ASSUME NEW i \in 1..Len(l) PROVE l[i].id = (b + i - 1) % TagMod
  <2>1. CASE i \in 1..Len(s)
    BY <1>2, <2>1 DEF Counted
  <2>2. CASE i = Len(s) + 1
    <3>1. b + i - 1 = b + Len(s)
      BY <1>2, <1>3, <2>2
    <3> QED
      BY <1>2, <2>2, <3>1 DEF Counted
  <2> QED
    BY <1>2, <2>1, <2>2
<1> QED
  BY <1>1, <1>2, <1>4, <1>5 DEF Counted

\* The last of them is the one before the next.
LEMMA CountedLast ==
  ASSUME NEW s, NEW b \in Tags, NEW e, Counted(s, b, e), s # <<>>
  PROVE  (s[Len(s)].id + 1) % TagMod = e
<1>1. s \in Seq(VideoNALU)
  BY DEF Counted
<1>2. Len(s) \in Nat /\ Len(s) > 0 /\ b \in Nat
  BY <1>1, EmptySeq, LenProperties, BoundsAreNumbers DEF Tags
<1>3. s[Len(s)].id = (b + Len(s) - 1) % TagMod
  BY <1>2 DEF Counted
<1>4. b + Len(s) - 1 \in Nat /\ (b + Len(s) - 1) + 1 = b + Len(s)
  BY <1>2
<1>5. (((b + Len(s) - 1) % TagMod) + 1) % TagMod = (b + Len(s)) % TagMod
  BY <1>4, BoundsAreNumbers, SuccessorBy
<1> QED
  BY <1>3, <1>5 DEF Counted

\* Where the video goes in a step: what is shown leaves nothing on its way, and
\* without a loss all that was on its way or begins now is shown or on its way.
Flows(pkt, refused) ==
  LET video == VideoOf(unit'.nalus)
  IN /\ refused => video = <<>>
     /\ video # <<>> => Pending' = <<>> /\ (encoder' # None => fragment' = partial')
     /\ ~refused /\ (encoder # None => fragment = partial) =>
          /\ encoder' # None => fragment' = partial'
          /\ \/ video = <<>> /\ Pending' = Pending \o Fresh(pkt)
             \/ Pending' = <<>> /\ video = Pending \o Fresh(pkt)

\* No video in nothing.
LEMMA VideoOfNone == VideoOf(<<>>) = <<>>
BY OfTypesEmpty DEF VideoOf

\* A packet that is passed on shows its video, and that of a NALU it ends.
LEMMA FlowsRouted ==
  ASSUME Typed, NEW pkt \in Packets, Sent(pkt), Routes(pkt)
  PROVE  Flows(pkt, FALSE)
<1> DEFINE g == pkt.payload.nalus
           video == VideoOf(unit'.nalus)
<1>1. /\ Payload(pkt.payload)
      /\ partial' = IF pkt.payload.form = "start" THEN g[1] ELSE Nil
  BY Tagged
<1>2. Pending = Rest(partial) /\ Pending' = Rest(partial') /\ encoder' = None
  BY DEF Routes, Pending, Rest
<1>3. video = IF pkt.payload.form = "start" THEN <<>> ELSE VideoOf(g)
  BY VideoOfNone DEF Routes
<1>4. CASE pkt.payload.form = "end"
  <2>1. partial \in VideoNALU /\ partial # Nil /\ g = <<partial>> /\ partial' = Nil
    BY <1>1, <1>4 DEF Payload, Typed
  <2>2. VideoOf(<<partial>>) = <<partial>>
    BY <2>1, VideoOfOne, TypesApart
  <2>3. Pending = <<partial>> /\ Pending' = <<>> /\ Fresh(pkt) = <<>> /\ video = <<partial>>
    BY <1>2, <1>3, <1>4, <2>1, <2>2 DEF Rest, Fresh
  <2>4. <<partial>> \o <<>> = <<partial>>
    BY <2>1
  <2> HIDE DEF video
  <2> QED
    BY <1>2, <2>3, <2>4 DEF Flows, video
<1>5. CASE pkt.payload.form = "start"
  <2>1. PICK n \in Video : g = <<n>> /\ partial' = n
    BY <1>1, <1>5 DEF Payload
  <2>2. n.typ \in VideoTypes /\ n # Nil
    BY DEF Video, VideoTypes, Nil
  <2>3. Fresh(pkt) = <<n>> /\ Pending = <<>> /\ Pending' = <<n>> /\ video = <<>>
    BY <1>1, <1>2, <1>3, <1>5, <2>1, <2>2, VideoOfOne DEF Rest, Fresh, Payload
  <2>4. <<>> \o <<n>> = <<n>>
    OBVIOUS
  <2> HIDE DEF video
  <2> QED
    BY <1>2, <2>3, <2>4 DEF Flows, video
<1>6. CASE pkt.payload.form \notin {"start", "end"}
  <2>1. Pending = <<>> /\ Pending' = <<>> /\ Fresh(pkt) = video
    BY <1>1, <1>2, <1>3, <1>6 DEF Rest, Fresh, Payload
  <2>2. VideoOf(g) \in Seq(VideoNALU) /\ video = VideoOf(g)
    BY <1>1, <1>3, <1>6, VideoType DEF Payload
  <2>3. <<>> \o video = video
    <3> HIDE DEF video
    <3> QED
      BY <2>2, ConcatEmptySeq
  <2> HIDE DEF video
  <2> QED
    BY <1>2, <2>1, <2>3 DEF Flows, video
<1> QED
  BY <1>4, <1>5, <1>6

\* A packet that is refused or lost shows nothing.
LEMMA FlowsDropped ==
  ASSUME NEW pkt, Drops
  PROVE  Flows(pkt, TRUE)
<1>1. VideoOf(unit'.nalus) = <<>>
  BY VideoOfNone DEF Drops
<1> QED
  BY <1>1 DEF Flows

\* What is on its way before the packet goes through the decoder is what the decoder
\* has, and with the packet's NALUs the video of the access unit.
LEMMA PendingDecoded ==
  ASSUME Typed, NEW pkt, Payload(pkt.payload), encoder # None => fragment = partial
  PROVE  /\ Whole(pkt) => Pending \o Fresh(pkt) = VideoOf(frame \o pkt.payload.nalus)
         /\ pkt.payload.form = "start" => Pending = VideoOf(frame)
<1> DEFINE g == pkt.payload.nalus
<1>1. frame \in Seq(NALU) /\ g \in Seq(NALU)
  BY DEF Typed, Payload
<1>2. VideoOf(frame \o g) = VideoOf(frame) \o VideoOf(g)
  BY <1>1, OfTypesConcat DEF VideoOf
<1>3. VideoOf(frame) \in Seq(VideoNALU) /\ VideoOf(frame) \o <<>> = VideoOf(frame)
  BY <1>1, VideoType, ConcatEmptySeq
<1>4. encoder = None => frame = <<>> /\ fragment = Nil
  BY DEF Typed
<1>5. pkt.payload.form # "end" => Pending = VideoOf(frame)
  <2> SUFFICES ASSUME pkt.payload.form # "end" PROVE Pending = VideoOf(frame)
    OBVIOUS
  <2>1. partial = Nil
    BY DEF Payload
  <2>2. CASE encoder = None
    BY <1>4, <2>1, <2>2, VideoOfNone DEF Pending, Rest
  <2>3. CASE encoder # None
    BY <1>3, <2>1, <2>3 DEF Pending, Rest
  <2> QED
    BY <2>2, <2>3
<1>6. CASE pkt.payload.form = "end" /\ Whole(pkt)
  <2>1. g = <<partial>> /\ partial # Nil /\ partial \in VideoNALU /\ fragment = partial
    BY <1>6 DEF Payload, Whole, Typed
  <2>2. encoder # None
    BY <1>4, <2>1
  <2>3. VideoOf(g) = <<partial>> /\ <<partial>> \in Seq(VideoNALU)
    BY <2>1, VideoOfOne, TypesApart
  <2>4. Pending = VideoOf(frame) \o <<partial>> /\ Fresh(pkt) = <<>>
    BY <1>6, <2>1, <2>2 DEF Pending, Rest, Fresh
  <2>5. VideoOf(frame) \o <<partial>> \in Seq(VideoNALU)
    BY <1>3, <2>3, ConcatProperties
  <2>6. (VideoOf(frame) \o <<partial>>) \o <<>> = VideoOf(frame) \o <<partial>>
    BY <2>5, ConcatEmptySeq
  <2> QED
    BY <1>2, <1>6, <2>3, <2>4, <2>6
<1>7. CASE pkt.payload.form # "end" /\ Whole(pkt)
  <2>1. Fresh(pkt) = VideoOf(g) /\ pkt.payload.form # "start"
    BY <1>7 DEF Fresh, Whole
  <2> QED
    BY <1>2, <1>5, <1>7, <2>1
<1> QED
  BY <1>5, <1>6, <1>7 DEF Whole

\* A packet that goes through the decoder shows the video of the access unit it ends.
LEMMA FlowsDecoded ==
  ASSUME Typed, NEW pkt \in Packets, Sent(pkt), Decodes(pkt)
  PROVE  Flows(pkt, decode(pkt).refused)
<1> DEFINE g == pkt.payload.nalus
           d == decode(pkt)
           video == VideoOf(unit'.nalus)
<1>1. /\ Payload(pkt.payload)
      /\ partial' = IF pkt.payload.form = "start" THEN g[1] ELSE Nil
  BY Tagged
<1>2. Outcome(pkt, d)
  BY <1>1, Decoding
<1>3. Pending' = VideoOf(d.frame) \o Rest(d.fragment) /\ fragment' = d.fragment /\ encoder' # None
  BY DEF Decodes, Pending, Rest
<1>4. video = VideoOf(d.au)
  BY DEF Decodes, Remuxed
<1>5. d.frame \in Seq(NALU) /\ VideoOf(d.frame) \o <<>> = VideoOf(d.frame)
  <2>1. d.frame \in Seq(NALU)
    BY <1>1, DecodedType
  <2> HIDE DEF d
  <2> QED
    BY <2>1, VideoType, ConcatEmptySeq
<1>6. (encoder # None => fragment = partial) =>
        /\ Whole(pkt) => Pending \o Fresh(pkt) = VideoOf(frame \o g)
        /\ pkt.payload.form = "start" => Pending = VideoOf(frame)
  BY <1>1, PendingDecoded
<1>7. Whole(pkt) => partial' = Nil
  BY <1>1 DEF Whole
<1> HIDE DEF d, video
<1>8. CASE d.refused /\ d.au = <<>>
  BY <1>4, <1>8, VideoOfNone DEF Flows, video, d
<1>9. CASE /\ ~d.refused /\ Whole(pkt) /\ d.au = frame \o g
           /\ d.fragment = Nil /\ d.frame = <<>>
  <2>1. Pending' = <<>> /\ fragment' = partial'
    BY <1>3, <1>5, <1>7, <1>9, VideoOfNone DEF Rest
  <2>2. video = VideoOf(frame \o g)
    BY <1>4, <1>9
  <2> QED
    BY <1>6, <1>9, <2>1, <2>2 DEF Flows, video, d
<1>10. CASE /\ ~d.refused /\ Whole(pkt) /\ d.au = <<>>
            /\ d.fragment = Nil /\ d.frame = frame \o g
  <2>1. Pending' = VideoOf(frame \o g) /\ fragment' = partial'
    BY <1>3, <1>5, <1>7, <1>10 DEF Rest
  <2>2. video = <<>>
    BY <1>4, <1>10, VideoOfNone
  <2> QED
    BY <1>6, <1>10, <2>1, <2>2 DEF Flows, video, d
<1>11. CASE /\ ~d.refused /\ pkt.payload.form = "start"
            /\ d.au = <<>> /\ d.fragment = g[1] /\ d.frame = frame
  <2>1. PICK n \in Video : g = <<n>>
    BY <1>1, <1>11 DEF Payload
  <2>2. n.typ \in VideoTypes /\ n # Nil
    BY DEF Video, VideoTypes, Nil
  <2>3. Fresh(pkt) = <<n>> /\ d.fragment = n /\ partial' = n
    BY <1>1, <1>11, <2>1, <2>2, VideoOfOne DEF Fresh
  <2>4. Pending' = VideoOf(frame) \o <<n>> /\ fragment' = partial'
    BY <1>3, <1>11, <2>2, <2>3 DEF Rest
  <2>5. video = <<>>
    BY <1>4, <1>11, VideoOfNone
  <2> QED
    BY <1>6, <1>11, <2>3, <2>4, <2>5 DEF Flows, video, d
<1> QED
  BY <1>2, <1>8, <1>9, <1>10, <1>11 DEF Outcome

\* Every step moves the video on so.
LEMMA FlowsOn ==
  ASSUME Typed, NEW pkt \in Packets, Advance(pkt)
  PROVE  \E refused \in BOOLEAN : \E au : Flows(pkt, refused) /\ Observe(refused, au)
<1>1. Sent(pkt) /\ Payload(pkt.payload)
  BY Tagged DEF Advance
<1>2. CASE Routes(pkt)
  <2>1. Flows(pkt, FALSE) /\ Observe(FALSE, <<>>)
    BY <1>1, <1>2, FlowsRouted DEF Routes
  <2> QED
    BY <2>1
<1>3. CASE Drops
  <2>1. Flows(pkt, TRUE) /\ Observe(TRUE, <<>>)
    BY <1>3, FlowsDropped DEF Drops
  <2> QED
    BY <2>1
<1>4. CASE Decodes(pkt)
  <2>1. Flows(pkt, decode(pkt).refused) /\ Observe(decode(pkt).refused, decode(pkt).au)
    BY <1>1, <1>4, FlowsDecoded DEF Decodes
  <2>2. decode(pkt).refused \in BOOLEAN
    BY <1>1, Decoding
  <2> QED
    BY <2>1, <2>2
<1> QED
  BY <1>2, <1>3, <1>4 DEF Advance

\* The video that the readers get in a step follows what they have seen.
FollowsOn ==
  LET video == OfTypes(unit'.nalus, VideoTypes)
  IN shown # None /\ ~torn =>
       \A i \in DOMAIN video : video[i].id = (shown + i - 1) % TagMod

\* The video stays in order over a step, and what is shown follows on.
LEMMA OrderStep ==
  ASSUME Typed, InOrder, NEW pkt \in Packets, Advance(pkt)
  PROVE  InOrder' /\ FollowsOn
<1> DEFINE video == VideoOf(unit'.nalus)
           fresh == Fresh(pkt)
<1>a. PICK refused \in BOOLEAN : \E au : Flows(pkt, refused) /\ Observe(refused, au)
  BY FlowsOn
<1>1. PICK au : Flows(pkt, refused) /\ Observe(refused, au)
  BY <1>a
<1>2. /\ shown' = IF video = <<>> THEN shown ELSE (video[Len(video)].id + 1) % TagMod
      /\ torn' = ((torn \/ refused) /\ ~(video # <<>> /\ shown' = tag'))
  BY <1>1, ObservedVideo
<1>3. /\ tag' = IF fresh = <<>> THEN tag ELSE (tag + 1) % TagMod
      /\ fresh \in {<<>>} \cup {<<n>> : n \in Video}
  BY Tagged DEF Advance
<1>4. /\ refused => video = <<>>
      /\ video # <<>> => Pending' = <<>> /\ (encoder' # None => fragment' = partial')
      /\ ~refused /\ (encoder # None => fragment = partial) =>
           /\ encoder' # None => fragment' = partial'
           /\ \/ video = <<>> /\ Pending' = Pending \o fresh
              \/ Pending' = <<>> /\ video = Pending \o fresh
  BY <1>1 DEF Flows
<1>5. tag' \in Tags
  BY TypedStep DEF Typed
<1>6. DOMAIN video = 1..Len(video)
  BY UnitType, VideoType, LenProperties
<1>7. ASSUME NEW b \in Tags, Counted(Pending, b, tag) PROVE Counted(Pending \o fresh, b, tag')
  <2>1. CASE fresh = <<>>
    <3>1. Pending \o <<>> = Pending
      BY <1>7, ConcatEmptySeq DEF Counted
    <3> QED
      BY <1>3, <1>7, <2>1, <3>1
  <2>2. CASE fresh # <<>>
    <3>1. PICK n \in Video : fresh = <<n>>
      BY <1>3, <2>2
    <3>2. n \in VideoNALU /\ n.id = tag
      BY BoundsAreNumbers DEF Video, VideoNALU, Typed, Tags
    <3>3. Counted(Pending \o <<n>>, b, (tag + 1) % TagMod)
      BY <1>7, <3>2, CountedMore
    <3> QED
      BY <1>3, <2>2, <3>1, <3>3
  <2> QED
    BY <2>1, <2>2
<1> HIDE DEF video, fresh
<1>8. CASE torn \/ refused
  <2>1. InOrder'
    <3> SUFFICES ASSUME ~torn'
                 PROVE  /\ encoder' # None => fragment' = partial'
                        /\ \E b \in Tags : Counted(Pending', b, tag') /\ (shown' # None => shown' = b)
      BY DEF InOrder, Counted
    <3>1. video # <<>> /\ shown' = tag'
      BY <1>2, <1>8
    <3>2. Pending' = <<>> /\ (encoder' # None => fragment' = partial')
      BY <1>4, <3>1
    <3>3. Counted(<<>>, tag', tag')
      BY <1>5, CountedEmpty
    <3> QED
      BY <1>5, <3>1, <3>2, <3>3
  <2>2. FollowsOn
    <3> SUFFICES ASSUME ~torn PROVE DOMAIN video = {}
      BY DEF FollowsOn, video, VideoOf
    <3>1. video = <<>>
      BY <1>4, <1>8
    <3> QED
      BY <3>1
  <2> QED
    BY <2>1, <2>2
<1>9. CASE ~torn /\ ~refused
  <2>1. encoder # None => fragment = partial
    BY <1>9 DEF InOrder
  <2>2. PICK b \in Tags : Counted(Pending, b, tag) /\ (shown # None => shown = b)
    BY <1>9 DEF InOrder
  <2>3. Counted(Pending \o fresh, b, tag')
    BY <1>7, <2>2
  <2>4. encoder' # None => fragment' = partial'
    BY <1>4, <1>9, <2>1
  <2>5. CASE video = <<>>
    <3>1. Counted(Pending', b, tag')
      <4>1. CASE Pending' = Pending \o fresh
        BY <2>3, <4>1
      <4>2. CASE Pending' = <<>> /\ video = Pending \o fresh
        BY <2>3, <2>5, <4>2
      <4> QED
        BY <1>4, <1>9, <2>1, <4>1, <4>2
    <3>2. shown' = shown
      BY <1>2, <2>5
    <3>3. InOrder'
      BY <2>2, <2>4, <3>1, <3>2 DEF InOrder, Counted
    <3>4. FollowsOn
      <4>1. DOMAIN video = {}
        BY <2>5
      <4> QED
        BY <4>1 DEF FollowsOn, video, VideoOf
    <3> QED
      BY <3>3, <3>4
  <2>6. CASE video # <<>>
    <3>1. Pending' = <<>> /\ video = Pending \o fresh
      BY <1>4, <1>9, <2>1, <2>6
    <3>2. Counted(video, b, tag')
      BY <2>3, <3>1
    <3>3. shown' = tag'
      BY <1>2, <2>6, <3>2, CountedLast
    <3>4. Counted(<<>>, tag', tag')
      BY <1>5, CountedEmpty
    <3>5. InOrder'
      BY <1>5, <2>4, <3>1, <3>3, <3>4 DEF InOrder, Counted
    <3>6. FollowsOn
      <4>1. shown # None => \A i \in DOMAIN video : video[i].id = (shown + i - 1) % TagMod
        BY <1>6, <2>2, <3>2 DEF Counted
      <4> QED
        BY <4>1 DEF FollowsOn, video, VideoOf
    <3> QED
      BY <3>5, <3>6
  <2> QED
    BY <2>5, <2>6
<1> QED
  BY <1>8, <1>9

-----------------------------------------------------------------------------
(***************************************************************************)
(* Theorems.                                                               *)
(***************************************************************************)

\* What holds of the contents at any time.
ContentsInv == Typed /\ OwnFrame /\ OwnParameters /\ InOrder

\* It holds when the format is added.
LEMMA ContentsInit == ASSUME Init PROVE ContentsInv
<1>1. <<>> \in Seq(NALU) /\ Len(<<>>) = 0 /\ 0 \in Tags
  BY EmptySeq, BoundsAreNumbers DEF Tags
<1>2. forma \in {"H265", "H264", "generic"} /\ frame = <<>> /\ fragment = Nil
  BY DEF Init, New, newH265, newH264, newGeneric, NoDecoder
<1>3. params \in Known(OwnTypes)
  <2>1. ASSUME NEW types, types \subseteq Types, params \in Announced(types) PROVE params \in Known(types)
    <3>1. CASE params = [t \in types |-> Nil]
      BY <3>1 DEF Known
    <3>2. CASE params = [t \in types |-> [typ |-> t, id |-> 1]]
      BY <2>1, <3>2 DEF Known, NALU, VideoNALU, OtherNALU
    <3> QED
      BY <2>1, <3>1, <3>2 DEF Announced
  <2>2. CASE newH265
    BY <2>1, <2>2, OwnTypesOf, TypesApart DEF newH265
  <2>3. CASE newH264
    BY <2>1, <2>3, OwnTypesOf, TypesApart DEF newH264
  <2>4. CASE newGeneric
    BY <2>4, OwnTypesOf DEF newGeneric, Known
  <2> QED
    BY <2>2, <2>3, <2>4 DEF Init, New
<1>4. Typed
  <2>1. frame \in Seq(NALU) /\ Len(frame) <= MaxNALUs
    BY <1>1, <1>2, BoundsAreNumbers
  <2>2. tag \in Tags /\ partial = Nil /\ shown = None /\ torn = FALSE
    BY <1>1 DEF Init
  <2> QED
    BY <1>2, <1>3, <2>1, <2>2 DEF Typed
<1>5. \A t : LastOf(<<>>, t) = Nil
  BY LastOfSingle
<1>6. OwnFrame
  BY <1>2, <1>5 DEF OwnFrame
<1>7. OwnParameters
  <2>1. decoded = <<>> /\ unit.nalus = <<>>
    BY DEF Init, NoUnit
  <2>2. DOMAIN decoded = {}
    BY <2>1
  <2> QED
    BY <1>5, <2>1, <2>2 DEF OwnParameters
<1>8. InOrder
  <2>1. encoder = None /\ partial = Nil /\ tag = 0 /\ shown = None
    BY DEF Init, New, newH265, newH264, newGeneric, NoDecoder
  <2>2. Pending = <<>>
    BY <2>1 DEF Pending, Rest
  <2> QED
    BY <1>1, <2>1, <2>2, CountedEmpty DEF InOrder
<1> QED
  BY <1>4, <1>6, <1>7, <1>8 DEF ContentsInv

\* It holds after a step, and the video of the step follows on.
LEMMA ContentsStep ==
  ASSUME IInv, ContentsInv, Next
  PROVE  ContentsInv' /\ FollowsOn
<1>1. PICK pkt \in Packets : Advance(pkt)
  BY Advances DEF IInv, ContentsInv
<1> QED
  BY <1>1, TypedStep, ParamStep, OrderStep DEF ContentsInv

\* It holds when nothing happens.
LEMMA ContentsKept ==
  ASSUME ContentsInv, UNCHANGED vars
  PROVE  ContentsInv'
<1>1. Typed'
  BY DEF ContentsInv, vars, Typed, OwnTypes
<1>2. OwnFrame' /\ OwnParameters'
  BY DEF ContentsInv, vars, OwnFrame, OwnParameters, OwnTypes
<1>3. InOrder'
  BY DEF ContentsInv, vars, InOrder, Counted, Pending, Rest
<1> QED
  BY <1>1, <1>2, <1>3 DEF ContentsInv

\* What the state holds at any time, of parameter sets and video.
THEOREM Contents == Spec => []ContentsInv
<1>1. Init => ContentsInv
  BY ContentsInit
<1>2. IInv /\ ContentsInv /\ [Next]_vars => ContentsInv'
  BY ContentsStep, ContentsKept
<1> QED
  BY <1>1, <1>2, Invariant, PTL DEF Spec

\* TypeOK: the values of every variable, for every format.
THEOREM TypesKept == Spec => []TypeOK
<1>1. IInv /\ ContentsInv => TypeOK
  <2> SUFFICES ASSUME IInv, ContentsInv PROVE TypeOK
    OBVIOUS
  <2>1. DOMAIN params = ParamTypes[forma]
    BY DEF ContentsInv, Typed, Known, OwnTypes
  <2>2. Len(frame) \in 0..MaxNALUs
    BY LenProperties, BoundsAreNumbers DEF ContentsInv, Typed
  <2> QED
    BY <2>1, <2>2 DEF TypeOK, IInv, Numbered, ContentsInv, Typed, Tags
<1> QED
  BY <1>1, Invariant, Contents, PTL

\* OwnParameters: an access unit that is encoded again has the video it came with, and
\* with a key frame the parameter sets it came with, however its packets are cut, and
\* whatever is lost.
THEOREM OwnParametersKept == Spec => []OwnParameters
<1>1. ContentsInv => OwnParameters
  BY DEF ContentsInv
<1> QED
  BY <1>1, Contents, PTL

\* OrderKept: without a loss the readers get the video NALUs each once and in their
\* order, for a publisher that cuts and marks its packets as it likes.
THEOREM VideoFollows == Spec => OrderKept
<1>1. IInv /\ ContentsInv /\ [Next]_vars => [FollowsOn]_vars
  BY ContentsStep
<1> QED
  BY <1>1, Invariant, Contents, PTL DEF Spec, OrderKept, FollowsOn
=============================================================================
