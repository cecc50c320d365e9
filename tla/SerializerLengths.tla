------------------------- MODULE SerializerLengths -------------------------
(***************************************************************************)
(* The byte lengths a point (de)serializer works with.                     *)
(*                                                                         *)
(* A serializer is a pair of a basic serializer, which turns one curve     *)
(* point into a fixed number of bytes, and a simpleHeaderSerializer, which *)
(* surrounds single points and slices with constant byte strings.  Only    *)
(* the lengths of these strings matter here; they are the record Format.   *)
(*                                                                         *)
(* Lengths are reported as int32 and computed in int64.  MaxInt32 stands   *)
(* for math.MaxInt32 and is scaled down by the models; int64 is scaled     *)
(* with it, to twice the number of bits.                                   *)
(***************************************************************************)
EXTENDS Integers

CONSTANTS
  MaxInt32,   \* the largest int32
  SizeField   \* simpleHeaderSliceLengthOverhead: bytes of the in-band slice size

ASSUME LengthsAssumption ==
  /\ MaxInt32 \in Nat
  /\ SizeField \in Nat \ {0}
  /\ SizeField <= MaxInt32

MaxInt64 == 2 * (MaxInt32 + 1) * (MaxInt32 + 1) - 1

(* Conversion to a signed integer type with largest value max. *)
Wrap(x, max) ==
  IF x \in -(max + 1) .. max
    THEN x
    ELSE ((x + max + 1) % (2 * (max + 1))) - (max + 1)

Int32(x) == Wrap(x, MaxInt32)
Int64(x) == Wrap(x, MaxInt64)

(* The lengths of the parts; point is OutputLength of the basic serializer. *)
Format ==
  [singleHeader   : Nat, singleFooter   : Nat,
   sliceHeader    : Nat, sliceFooter    : Nat,
   perPointHeader : Nat, perPointFooter : Nat,
   point          : Nat \ {0}]

SinglePointHeaderOverhead(f) == Int32(f.singleHeader + f.singleFooter)

(* Validate runs whenever a serializer is made or modified, and panics. *)
HeaderValid(f) ==
  /\ f.singleHeader + f.singleFooter <= MaxInt32
  /\ f.sliceHeader + f.sliceFooter + SizeField <= MaxInt32
  /\ f.perPointHeader + f.perPointFooter <= MaxInt32

FormatValid(f) ==
  /\ HeaderValid(f)
  /\ SinglePointHeaderOverhead(f) + f.point <= MaxInt32

OutputLength(f) == Int32(SinglePointHeaderOverhead(f) + f.point)

MultiPointHeaderOverhead(f, numPoints) ==
  LET perPoint == Int64(numPoints * (f.perPointHeader + f.perPointFooter))
      ret64    == Int64(Int64(perPoint + SizeField)
                          + (f.sliceHeader + f.sliceFooter))
  IN  [ret |-> Int32(ret64), overflow |-> ret64 > MaxInt32]

(* Mutant: an overflow of the overhead goes unnoticed. *)
SliceOutputLengthMutant(f, numPoints) ==
  LET pointCost64 == Int64(numPoints * f.point)
      overhead    == MultiPointHeaderOverhead(f, numPoints)
      ret64       == Int64(overhead.ret + pointCost64)
  IN  IF ret64 > MaxInt32
        THEN [ret |-> -1, overflow |-> TRUE]
        ELSE [ret |-> Int32(ret64), overflow |-> FALSE]

SliceOutputLength(f, numPoints) ==
  LET pointCost64 == Int64(numPoints * f.point)
      overhead    == MultiPointHeaderOverhead(f, numPoints)
      ret64       == Int64(overhead.ret + pointCost64)
  IN  IF overhead.overflow \/ ret64 > MaxInt32
        THEN [ret |-> -1, overflow |-> TRUE]
        ELSE [ret |-> Int32(ret64), overflow |-> FALSE]

(* The guard in front of every batch call: otherwise the call panics. *)
BatchLengthOK(f, numPoints) ==
  /\ numPoints <= MaxInt32
  /\ Int64(numPoints * OutputLength(f)) <= MaxInt32

(* What the two lengths are meant to be, in unbounded integers. *)
FrameLength(f) == f.singleHeader + f.point + f.singleFooter

SliceFrameLength(f) == f.perPointHeader + f.point + f.perPointFooter

SliceLength(f, numPoints) ==
  f.sliceHeader + SizeField + numPoints * SliceFrameLength(f) + f.sliceFooter
=============================================================================
