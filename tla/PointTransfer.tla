--------------------------- MODULE PointTransfer ---------------------------
(***************************************************************************)
(* What a serializer and a deserializer of the same format promise         *)
(* together.  The sender sends total points, or fewer if it fails; the     *)
(* receiver, which has room for room points, receives them in order and    *)
(* finally accepts or rejects.  It may only accept fewer points than it    *)
(* has room for if no more were sent, and a slice only as a whole.         *)
(***************************************************************************)
EXTENDS Naturals

VARIABLES
  total,     \* number of points the sender was asked to send
  room,      \* number of points the receiver has room for
  slice,     \* whether the points are sent as a slice
  sent,      \* number of points completely sent
  received,  \* number of points received
  verdict    \* of the receiver

tvars == <<total, room, slice, sent, received, verdict>>

TInit ==
  /\ total \in Nat
  /\ room \in Nat
  /\ slice \in BOOLEAN
  /\ sent = 0
  /\ received = 0
  /\ verdict = "pending"

Send ==
  /\ verdict = "pending" /\ received = 0
  /\ sent < total
  /\ sent' = sent + 1
  /\ UNCHANGED <<total, room, slice, received, verdict>>

Receive ==
  /\ verdict = "pending"
  /\ received < sent /\ received < room
  /\ received' = received + 1
  /\ UNCHANGED <<total, room, slice, sent, verdict>>

Accept ==
  /\ verdict = "pending"
  /\ received = sent \/ received = room
  /\ slice => received = total
  /\ verdict' = "accepted"
  /\ UNCHANGED <<total, room, slice, sent, received>>

Reject ==
  /\ verdict = "pending"
  /\ verdict' = "rejected"
  /\ UNCHANGED <<total, room, slice, sent, received>>

TNext == Send \/ Receive \/ Accept \/ Reject

TSpec == TInit /\ [][TNext]_tvars
=============================================================================
