-------------------------------- MODULE H264 ---------------------------------
(* What mediamtx/formatprocessor/h264.go does with the NALUs of H264.       *)
EXTENDS NALUs

ParamTypes == {"SPS", "PPS"}
KeyTypes == {"IDR"}

\* rtpH264ExtractParams: the parameter sets that can be seen without decoding RTP.
rtpH264ExtractParams(payload) ==
  [t \in ParamTypes |->
     IF payload.form \in {"single", "aggregate"} THEN LastOf(payload.nalus, t) ELSE Nil]

updateTrackParametersFromRTPPacket(params, payload) ==
  LET new == rtpH264ExtractParams(payload)
  IN [t \in ParamTypes |-> IF new[t] = Nil THEN params[t] ELSE new[t]]

\* remuxAccessUnit: parameter sets and delimiters are removed, and the parameter
\* sets of the track put before a key frame, if both are known.
remuxAccessUnit(params, au) ==
  LET key   == \E i \in DOMAIN au : au[i].typ \in KeyTypes
      known == \A t \in ParamTypes : params[t] # Nil
      video == OfTypes(au, Types \ (ParamTypes \cup {"AUD"}))
  IN IF key /\ known THEN <<params["SPS"], params["PPS"]>> \o video ELSE video
=============================================================================
