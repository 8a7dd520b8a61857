-------------------------------- MODULE H265 ---------------------------------
(* What mediamtx/formatprocessor/h265.go does with the NALUs of H265.       *)
EXTENDS NALUs

ParamTypes == {"VPS", "SPS", "PPS"}
KeyTypes == {"IDR", "CRA"}

\* rtpH265ExtractParams: the parameter sets that can be seen without decoding RTP.
\* One that comes in fragments cannot.
rtpH265ExtractParams(payload) ==
  [t \in ParamTypes |->
     IF payload.form \in {"single", "aggregate"} THEN LastOf(payload.nalus, t) ELSE Nil]

\* updateTrackParametersFromRTPPacket that looks at aggregations only.
updateFromAggregates(params, payload) ==
  LET new == rtpH265ExtractParams(payload)
  IN [t \in ParamTypes |->
        IF new[t] = Nil \/ payload.form = "single" THEN params[t] ELSE new[t]]

updateTrackParametersFromRTPPacket(params, payload) ==
  LET new == rtpH265ExtractParams(payload)
  IN [t \in ParamTypes |-> IF new[t] = Nil THEN params[t] ELSE new[t]]

\* remuxAccessUnit whose second loop starts one place too early, in the place of the
\* last parameter set, and so leaves one NALU out.
remuxOverwriting(params, au) ==
  LET key   == \E i \in DOMAIN au : au[i].typ \in KeyTypes
      known == \A t \in ParamTypes : params[t] # Nil
      video == OfTypes(au, Types \ (ParamTypes \cup {"AUD"}))
  IN IF key /\ known
     THEN <<params["VPS"], params["SPS"]>> \o Tail(video)
     ELSE video

\* remuxAccessUnit: parameter sets and delimiters are removed, and the parameter
\* sets of the track put before a key frame, if all are known.
remuxAccessUnit(params, au) ==
  LET key   == \E i \in DOMAIN au : au[i].typ \in KeyTypes
      known == \A t \in ParamTypes : params[t] # Nil
      video == OfTypes(au, Types \ (ParamTypes \cup {"AUD"}))
  IN IF key /\ known
     THEN <<params["VPS"], params["SPS"], params["PPS"]>> \o video
     ELSE video
=============================================================================
