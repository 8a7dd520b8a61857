---------------------------- MODULE PublisherSlot ----------------------------
(***************************************************************************)
(* What a path promises to its sessions, without the messages that carry   *)
(* it out: one publisher slot, a stream that only the owner of the slot    *)
(* can start and end, and an audience that exists only while the stream    *)
(* does.  Path.tla (mediamtx/core/path.go with mediamtx/rtsp/session.go)   *)
(* implements it.                                                          *)
(***************************************************************************)
CONSTANTS Sessions,           \* the RTSP sessions
          None,               \* nobody
          OverridePublisher   \* may a new publisher take the slot over?

VARIABLES owner,      \* the session the slot belongs to, or None
          live,       \* does the stream exist?
          audience    \* the sessions reading the stream

slotVars == <<owner, live, audience>>

Init ==
  /\ owner = None
  /\ live = FALSE
  /\ audience = {}

\* A session takes the free slot.
Claim(s) ==
  /\ owner = None
  /\ owner' = s
  /\ UNCHANGED <<live, audience>>

\* A session takes the slot of another one; the stream ends with its owner.
TakeOver(s) ==
  /\ OverridePublisher
  /\ owner # None
  /\ owner' = s
  /\ live' = FALSE
  /\ audience' = {}

\* The owner starts a stream, which no stream of its own precedes.
Start ==
  /\ owner # None
  /\ ~live
  /\ live' = TRUE
  /\ UNCHANGED <<owner, audience>>

\* The stream ends, and the whole audience leaves with it.
End ==
  /\ live
  /\ live' = FALSE
  /\ audience' = {}
  /\ UNCHANGED owner

\* The owner gives the slot back; its stream, if any, ends.
Release ==
  /\ owner # None
  /\ owner' = None
  /\ live' = FALSE
  /\ audience' = {}

\* A session that owns nothing joins the audience of a live stream.
Join(s) ==
  /\ live
  /\ s # owner
  /\ audience' = audience \cup {s}
  /\ UNCHANGED <<owner, live>>

Leave(s) ==
  /\ s \in audience
  /\ audience' = audience \ {s}
  /\ UNCHANGED <<owner, live>>

Next ==
  \/ \E s \in Sessions : Claim(s) \/ TakeOver(s) \/ Join(s) \/ Leave(s)
  \/ Start \/ End \/ Release

Spec == Init /\ [][Next]_slotVars
=============================================================================
