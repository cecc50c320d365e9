--------------------------- MODULE LengthQueries ---------------------------
(***************************************************************************)
(* A caller that asks a serializer for the lengths of its output, for one  *)
(* number of points after the other.                                       *)
(***************************************************************************)
EXTENDS SerializerLengths

CONSTANTS
  QueryFormats,  \* the formats of the serializers
  MaxQuery       \* bound on the number of points

ASSUME QueryAssumption ==
  /\ QueryFormats \subseteq {f \in Format : FormatValid(f)}
  /\ MaxQuery \in Nat

VARIABLES
  qfmt,      \* the receiver
  numPoints  \* the argument

QInit == qfmt \in QueryFormats /\ numPoints = 0

Ask(n) == numPoints' = n /\ UNCHANGED qfmt

QNext == \E n \in 0 .. MaxQuery : Ask(n)

QSpec == QInit /\ [][QNext]_<<qfmt, numPoints>>

-----------------------------------------------------------------------------
(* SliceOutputLength returns the exact length of a slice of any number of   *)
(* points that an int32 can hold, and an error exactly if that length does  *)
(* not fit an int32; no intermediate result overflows unnoticed.  The guard *)
(* of the batch calls lets exactly those through whose output is at most    *)
(* MaxInt32 bytes long.                                                     *)
LengthsExact ==
  /\ numPoints <= MaxInt32 =>
       SliceOutputLength(qfmt, numPoints) =
         IF SliceLength(qfmt, numPoints) <= MaxInt32
           THEN [ret |-> SliceLength(qfmt, numPoints), overflow |-> FALSE]
           ELSE [ret |-> -1, overflow |-> TRUE]
  /\ BatchLengthOK(qfmt, numPoints) <=>
       numPoints <= MaxInt32 /\ numPoints * FrameLength(qfmt) <= MaxInt32
=============================================================================
