-------------------------- MODULE SerializerProofs --------------------------
(***************************************************************************)
(* Proofs about serializers, for formats, lists of points, buffers and     *)
(* integers of any size: the lengths that they report, the readers, the    *)
(* writers, and a writer with the reader of its output, where the writer   *)
(* stops anywhere: because its io.Writer fails, or because of a crash.     *)
(***************************************************************************)
EXTENDS LengthQueries, PointPipe, SequenceTheorems, FiniteSetTheorems, TLAPS

-----------------------------------------------------------------------------
(* Arithmetic *)

LEMMA ProductBound ==
  ASSUME NEW a \in Nat, NEW b \in Nat, NEW c \in Nat, NEW d \in Nat, a <= b, c <= d
  PROVE  a * c \in Nat /\ a * c <= b * d
<1>1. PICK x \in Nat : b = a + x
  BY b - a \in Nat
<1>2. PICK y \in Nat : d = c + y
  BY d - c \in Nat
<1>3. b * d = a * c + a * y + x * c + x * y
  BY <1>1, <1>2
<1>4. a * c \in Nat /\ a * y \in Nat /\ x * c \in Nat /\ x * y \in Nat
  OBVIOUS
<1> QED
  BY <1>3, <1>4

(* Integers in the range of the type are not changed by conversions. *)
LEMMA NotWrapped ==
  ASSUME NEW max \in Nat, NEW x \in Nat, x <= max
  PROVE  Wrap(x, max) = x
BY DEF Wrap

LEMMA Int32Exact ==
  ASSUME NEW x \in Nat, x <= MaxInt32
  PROVE  Int32(x) = x
BY NotWrapped, LengthsAssumption DEF Int32

(* An int64 holds the sum of a product of two int32 and two other int32. *)
LEMMA Int64Exact ==
  ASSUME NEW x \in Nat, x <= MaxInt32 * MaxInt32 + 2 * MaxInt32
  PROVE  Int64(x) = x
<1>1. MaxInt32 * MaxInt32 \in Nat
  BY LengthsAssumption
<1>2. MaxInt64 = 2 * (MaxInt32 * MaxInt32) + 4 * MaxInt32 + 1
  BY LengthsAssumption DEF MaxInt64
<1>3. MaxInt64 \in Nat /\ x <= MaxInt64
  BY <1>1, <1>2, LengthsAssumption
<1> QED
  BY <1>3, NotWrapped DEF Int64

(* The length of a single point is the sum of its parts. *)
LEMMA OutputLengthExact ==
  ASSUME NEW f \in Format, FormatValid(f)
  PROVE  /\ OutputLength(f) = FrameLength(f)
         /\ FrameLength(f) \in Nat /\ FrameLength(f) <= MaxInt32
         /\ f.point <= FrameLength(f)
<1>1. f.singleHeader + f.singleFooter \in Nat /\ f.point \in Nat
  BY DEF Format
<1>2. SinglePointHeaderOverhead(f) = f.singleHeader + f.singleFooter
  BY <1>1, Int32Exact DEF SinglePointHeaderOverhead, FormatValid, HeaderValid
<1>3. f.singleHeader + f.singleFooter + f.point <= MaxInt32
  BY <1>2 DEF FormatValid
<1>4. OutputLength(f) = f.singleHeader + f.singleFooter + f.point
  BY <1>1, <1>2, <1>3, Int32Exact DEF OutputLength
<1> QED
  BY <1>1, <1>3, <1>4 DEF FrameLength, Format

(* The length of a slice is the sum of its parts. *)
LEMMA SliceLengthSum ==
  ASSUME NEW f \in Format, NEW n \in Nat
  PROVE  /\ SliceFrameLength(f) \in Nat
         /\ n * (f.perPointHeader + f.perPointFooter) \in Nat
         /\ n * f.point \in Nat
         /\ SliceLength(f, n) \in Nat
         /\ SliceLength(f, n) = n * (f.perPointHeader + f.perPointFooter)
              + SizeField + (f.sliceHeader + f.sliceFooter) + n * f.point
<1>1. /\ f.perPointHeader \in Nat /\ f.perPointFooter \in Nat /\ f.point \in Nat
      /\ f.sliceHeader \in Nat /\ f.sliceFooter \in Nat
  BY DEF Format
<1>2. n * (f.perPointHeader + f.point + f.perPointFooter)
        = n * (f.perPointHeader + f.perPointFooter) + n * f.point
  BY <1>1
<1>3. n * (f.perPointHeader + f.perPointFooter) \in Nat /\ n * f.point \in Nat
  BY <1>1
<1> QED
  BY <1>1, <1>2, <1>3, LengthsAssumption DEF SliceLength, SliceFrameLength

(* The overhead of a slice does not wrap, and its overflow is noticed. *)
LEMMA OverheadExact ==
  ASSUME NEW f \in Format, FormatValid(f), NEW n \in Nat, n <= MaxInt32,
         NEW overhead, overhead = n * (f.perPointHeader + f.perPointFooter)
                                    + SizeField + (f.sliceHeader + f.sliceFooter)
  PROVE  /\ overhead \in Nat
         /\ MultiPointHeaderOverhead(f, n).overflow <=> overhead > MaxInt32
         /\ overhead <= MaxInt32 => MultiPointHeaderOverhead(f, n).ret = overhead
<1> DEFINE perPoint == n * (f.perPointHeader + f.perPointFooter)
           constant == f.sliceHeader + f.sliceFooter
<1>1. /\ f.perPointHeader + f.perPointFooter \in Nat
      /\ f.perPointHeader + f.perPointFooter <= MaxInt32
  BY DEF Format, FormatValid, HeaderValid
<1>2. perPoint \in Nat /\ perPoint <= MaxInt32 * MaxInt32
  BY <1>1, ProductBound, LengthsAssumption
<1>3. constant \in Nat /\ constant + SizeField <= MaxInt32
  BY LengthsAssumption DEF Format, FormatValid, HeaderValid
<1>4. overhead = perPoint + SizeField + constant
  OBVIOUS
<1> HIDE DEF perPoint, constant
<1>5. MaxInt32 * MaxInt32 \in Nat /\ MaxInt32 \in Nat /\ SizeField \in Nat
  BY LengthsAssumption
<1>6. Int64(perPoint) = perPoint
  BY <1>2, <1>5, Int64Exact
<1>7. Int64(perPoint + SizeField) = perPoint + SizeField
  BY <1>2, <1>3, <1>5, Int64Exact
<1>8. overhead \in Nat /\ Int64(perPoint + SizeField + constant) = overhead
  BY <1>2, <1>3, <1>4, <1>5, Int64Exact
<1>9. MultiPointHeaderOverhead(f, n)
        = [ret |-> Int32(overhead), overflow |-> overhead > MaxInt32]
  BY <1>6, <1>7, <1>8 DEF MultiPointHeaderOverhead, perPoint, constant
<1>10. overhead <= MaxInt32 => Int32(overhead) = overhead
  BY <1>8, Int32Exact
<1>11. /\ MultiPointHeaderOverhead(f, n).overflow = (overhead > MaxInt32)
       /\ MultiPointHeaderOverhead(f, n).ret = Int32(overhead)
  BY <1>9
<1> QED
  BY <1>8, <1>10, <1>11

(* SliceOutputLength is exact, or reports that the length does not fit. *)
LEMMA SliceOutputLengthExact ==
  ASSUME NEW f \in Format, FormatValid(f), NEW n \in Nat, n <= MaxInt32
  PROVE  SliceOutputLength(f, n) =
           IF SliceLength(f, n) <= MaxInt32
             THEN [ret |-> SliceLength(f, n), overflow |-> FALSE]
             ELSE [ret |-> -1, overflow |-> TRUE]
<1> DEFINE overhead == n * (f.perPointHeader + f.perPointFooter)
                         + SizeField + (f.sliceHeader + f.sliceFooter)
           points == n * f.point
           claimed == MultiPointHeaderOverhead(f, n)
<1>1. points \in Nat /\ points <= MaxInt32 * MaxInt32
  <2>1. f.point \in Nat /\ f.point <= MaxInt32
    BY OutputLengthExact, LengthsAssumption DEF Format
  <2> QED
    BY <2>1, ProductBound, LengthsAssumption
<1>2. /\ overhead \in Nat
      /\ claimed.overflow <=> overhead > MaxInt32
      /\ overhead <= MaxInt32 => claimed.ret = overhead
  BY OverheadExact
<1>3. SliceLength(f, n) = overhead + points
  BY SliceLengthSum
<1>4. SliceOutputLength(f, n) =
        IF claimed.overflow \/ Int64(claimed.ret + Int64(points)) > MaxInt32
          THEN [ret |-> -1, overflow |-> TRUE]
          ELSE [ret |-> Int32(Int64(claimed.ret + Int64(points))), overflow |-> FALSE]
  BY DEF SliceOutputLength
<1> HIDE DEF overhead, points, claimed
<1>5. MaxInt32 * MaxInt32 \in Nat /\ MaxInt32 \in Nat
  BY LengthsAssumption
<1>6. Int64(points) = points
  BY <1>1, <1>5, Int64Exact
<1>7. CASE overhead > MaxInt32
  BY <1>7, <1>1, <1>2, <1>3, <1>4, <1>5
<1>8. CASE ~ overhead > MaxInt32
  <2>1. Int64(claimed.ret + Int64(points)) = overhead + points
    BY <1>8, <1>1, <1>2, <1>3, <1>5, <1>6, Int64Exact
  <2>2. overhead + points <= MaxInt32 => Int32(overhead + points) = overhead + points
    BY <1>1, <1>2, Int32Exact
  <2>3. ~ claimed.overflow
    BY <1>2, <1>8
  <2>4. SliceOutputLength(f, n) =
          IF overhead + points > MaxInt32
            THEN [ret |-> -1, overflow |-> TRUE]
            ELSE [ret |-> Int32(overhead + points), overflow |-> FALSE]
    BY <2>1, <2>3, <1>4
  <2>5. overhead + points > MaxInt32 <=> ~ overhead + points <= MaxInt32
    BY <1>1, <1>2, <1>5
  <2> QED
    BY <2>2, <2>4, <2>5, <1>3, Zenon
<1> QED
  BY <1>7, <1>8

(* The guard of the batch methods lets exactly the lengths through that fit. *)
LEMMA BatchGuardExact ==
  ASSUME NEW f \in Format, FormatValid(f), NEW n \in Nat
  PROVE  BatchLengthOK(f, n) <=> n <= MaxInt32 /\ n * FrameLength(f) <= MaxInt32
<1>1. CASE n <= MaxInt32
  <2>1. n * FrameLength(f) \in Nat /\ n * FrameLength(f) <= MaxInt32 * MaxInt32
    BY <1>1, OutputLengthExact, ProductBound, LengthsAssumption
  <2>2. Int64(n * FrameLength(f)) = n * FrameLength(f)
    BY <2>1, Int64Exact, LengthsAssumption
  <2> QED
    BY <1>1, <2>2, OutputLengthExact DEF BatchLengthOK
<1>2. CASE ~ n <= MaxInt32
  BY <1>2 DEF BatchLengthOK
<1> QED
  BY <1>1, <1>2

(* Lengths of all valid formats are exact, for any width of the integers:   *)
(* no intermediate result of SliceOutputLength or of the guards overflows.  *)
THEOREM LengthsCorrect == QSpec => []LengthsExact
<1> DEFINE Inv == qfmt \in QueryFormats /\ numPoints \in Nat
<1>1. QInit => Inv
  BY DEF QInit
<1>2. Inv /\ [QNext]_<<qfmt, numPoints>> => Inv'
  BY QueryAssumption DEF QNext, Ask
<1>3. Inv => LengthsExact
  <2> SUFFICES ASSUME Inv PROVE LengthsExact
    OBVIOUS
  <2>1. qfmt \in Format /\ FormatValid(qfmt) /\ numPoints \in Nat
    BY QueryAssumption
  <2> QED
    BY <2>1, SliceOutputLengthExact, BatchGuardExact DEF LengthsExact
<1> QED
  BY <1>1, <1>2, <1>3, PTL DEF QSpec

-----------------------------------------------------------------------------
(* The reader *)

SinglePCs == {"singleHeader", "singlePoint", "singleFooter", "singleReturn"}
PreamblePCs == {"sliceHeader", "sliceSize", "sliceMaker"}
FramePCs == {"perPointHeader", "point", "perPointFooter", "sliceFooter"}

RTypeInv ==
  /\ fmt \in Formats
  /\ call \in Calls
  /\ input \in [left : Nat, taken : Nat, end : {"EOF", "IOErr"}]
  /\ pc \in SinglePCs \cup PreamblePCs \cup FramePCs
              \cup {"start", "boundedReturn", "done", "panicked"}
  /\ i \in Nat
  /\ size \in Nat
  /\ sub \in [n : Nat, kind : ReadKinds, partial : BOOLEAN]
  /\ ret \in [bytesRead : Nat, pointsWritten : Nat, output : {"unset", "dummy", "slice"}]
  /\ err \in [kind : ErrorKinds, partial : BOOLEAN, points : Nat]

Counted == ret.bytesRead + sub.n = input.taken

(* The first n elements of the buffer have been written. *)
Written(n) == touched = 0 .. n - 1

NothingDone ==
  /\ ret.bytesRead = 0 /\ sub.n = 0
  /\ i = 0 /\ Written(0)
  /\ err.kind = "none"

(* A call of DeserializeCurvePoint that fails after n bytes has written its  *)
(* point: the point was whole and valid.                                     *)
PointDone(kind, n) == kind # "Invalid" /\ n >= fmt.singleHeader + fmt.point

(* In the call of DeserializeCurvePoint for the point i. *)
SinglePosition ==
  /\ call.op # "slice" /\ i < call.len
  /\ call.len * FrameLength(fmt) <= MaxInt32
  /\ ret.bytesRead = i * FrameLength(fmt)
  /\ err.kind = "none"
  /\ pc = "singleHeader" => sub.n = 0 /\ Written(i)
  /\ pc = "singlePoint" => sub.n = fmt.singleHeader /\ Written(i)
  /\ pc = "singleFooter" => sub.n = fmt.singleHeader + fmt.point /\ Written(i + 1)
  /\ pc = "singleReturn" =>
       /\ sub.n <= FrameLength(fmt)
       /\ Written(i) \/ Written(i + 1)
       /\ sub.kind = "none" => sub.n = FrameLength(fmt) /\ Written(i + 1)
       /\ sub.kind # "none" =>
            touched = 0 .. (IF PointDone(sub.kind, sub.n) THEN i ELSE i - 1)

(* The loop of DeserializeCurvePoints_Bounded has ended. *)
BoundedPosition ==
  /\ call.op = "bounded" /\ sub.n = 0
  /\ ret.bytesRead <= MaxInt32
  /\ touched \subseteq 0 .. call.len - 1
  /\ err.kind # "none" =>
       touched = 0 .. (IF InSingleFooter THEN err.points ELSE err.points - 1)

(* DeserializeSlice has not made its slice yet. *)
PreamblePosition ==
  /\ call.op = "slice" /\ sub.n = 0 /\ i = 0 /\ Written(0) /\ err.kind = "none"
  /\ pc = "sliceHeader" => ret.bytesRead = 0
  /\ pc = "sliceSize" => ret.bytesRead = fmt.sliceHeader
  /\ pc = "sliceMaker" =>
       ret.bytesRead = fmt.sliceHeader + SizeField /\ size <= MaxInt32

(* What DeserializeSlice has read before the point i. *)
BeforePoint == fmt.sliceHeader + SizeField + i * SliceFrameLength(fmt)

FramePosition ==
  /\ call.op = "slice" /\ sub.n = 0 /\ err.kind = "none"
  /\ size <= MaxInt32 /\ SliceLength(fmt, size) <= MaxInt32
  /\ call.maker = "existing" => size <= call.len
  /\ IF pc = "sliceFooter" THEN i = size ELSE i < size
  /\ pc \in {"perPointHeader", "sliceFooter"} =>
       ret.bytesRead = BeforePoint /\ Written(i)
  /\ pc = "point" => ret.bytesRead = BeforePoint + fmt.perPointHeader /\ Written(i)
  /\ pc = "perPointFooter" =>
       ret.bytesRead = BeforePoint + fmt.perPointHeader + fmt.point /\ Written(i + 1)

RInv ==
  /\ RTypeInv
  /\ Counted
  /\ pc = "start" => NothingDone
  /\ pc \in SinglePCs => SinglePosition
  /\ pc = "boundedReturn" => BoundedPosition
  /\ pc \in PreamblePCs => PreamblePosition
  /\ pc \in FramePCs => FramePosition
  /\ Returned => BytesReadExact /\ ErrorCountsWrites

(* What the constants say of a call. *)
LEMMA CallFacts ==
  ASSUME RTypeInv
  PROVE  /\ fmt \in Format /\ FormatValid(fmt)
         /\ call.len \in Nat
         /\ call.op \in BatchOps \cup {"point", "slice"}
         /\ call.op = "point" => call.len = 1
         /\ call.op # "slice" => call.maker = "existing"
         /\ input.left \in Nat /\ input.taken \in Nat
         /\ ret.bytesRead \in Nat /\ sub.n \in Nat
         /\ OutputLength(fmt) = FrameLength(fmt)
         /\ FrameLength(fmt) \in Nat /\ FrameLength(fmt) <= MaxInt32
         /\ SliceFrameLength(fmt) \in Nat
<1>1. fmt \in Format /\ FormatValid(fmt)
  BY ReaderAssumption DEF RTypeInv
<1>2. /\ call.len \in Nat
      /\ call.op \in BatchOps \cup {"point", "slice"}
      /\ call.op = "point" => call.len = 1
      /\ call.op # "slice" => call.maker = "existing"
  <2>1. \A c \in Calls :
          \/ c.op = "point" /\ c.len = 1 /\ c.maker = "existing"
          \/ c.op \in BatchOps /\ c.len \in BufferLens /\ c.maker = "existing"
          \/ c.op = "slice" /\ c.len \in BufferLens
    BY DEF Calls
  <2>2. BufferLens \subseteq Nat
    BY ReaderAssumption
  <2>3. call \in Calls
    BY DEF RTypeInv
  <2>4. \/ call.op = "point" /\ call.len = 1 /\ call.maker = "existing"
        \/ call.op \in BatchOps /\ call.len \in BufferLens /\ call.maker = "existing"
        \/ call.op = "slice" /\ call.len \in BufferLens
    BY <2>1, <2>3
  <2>5. call.len = 1 \/ call.len \in BufferLens
    BY <2>4
  <2>6. call.len \in Nat
    BY <2>2, <2>5, 1 \in Nat, Zenon
  <2> QED
    BY <2>4, <2>6 DEF BatchOps
<1>3. /\ input.left \in Nat /\ input.taken \in Nat
      /\ ret.bytesRead \in Nat /\ sub.n \in Nat
  BY DEF RTypeInv
<1> QED
  BY <1>1, <1>2, <1>3, OutputLengthExact, SliceLengthSum

(* What one read can yield. *)
Yields(r, n) ==
  /\ r.n \in Nat /\ r.n <= n /\ r.n <= input.left
  /\ r.kind \in ReadKinds
  /\ r.partial \in BOOLEAN
  /\ r.kind = "none" => r.n = n

LEMMA ReadFacts ==
  ASSUME RTypeInv, NEW n \in Nat
  PROVE  /\ \A r \in ConsumeExpectRead(n) : Yields(r, n)
         /\ \A r \in BasicRead(n) : Yields(r, n)
<1>1. input.left \in Nat
  BY DEF RTypeInv
<1>2. Got(n) \in Nat /\ Got(n) <= n /\ Got(n) <= input.left
  BY <1>1 DEF Got
<1>3. ReadFullKind(n) \in ReadKinds
  BY DEF ReadFullKind, ReadKinds
<1>4. Short(n) => Yields(ShortRead(n), n)
  BY <1>2, <1>3 DEF Short, ShortRead, Yields
<1>5. ~ Short(n) => n <= input.left
  BY <1>1 DEF Short, ReadFullKind
<1>6. \A kind \in ReadKinds : ~ Short(n) => Yields(FullRead(n, kind), n)
  BY <1>5 DEF FullRead, Yields
<1>7. \A k \in 1 .. Got(n) : Yields([n |-> k, kind |-> "Invalid", partial |-> k # n], n)
  BY <1>1, <1>2 DEF Yields, ReadKinds
<1>8. "none" \in ReadKinds /\ "Mismatch" \in ReadKinds
  BY DEF ReadKinds
<1>9. ASSUME NEW r \in ConsumeExpectRead(n) PROVE Yields(r, n)
  BY <1>4, <1>6, <1>8 DEF ConsumeExpectRead
<1>10. ASSUME NEW r \in BasicRead(n) PROVE Yields(r, n)
  BY <1>4, <1>6, <1>7, <1>8 DEF BasicRead
<1> QED
  BY <1>9, <1>10

(* Only points are invalid, and a point that is neither read nor invalid is  *)
(* cut short.                                                                *)
LEMMA FailedReads ==
  ASSUME RTypeInv, NEW n \in Nat
  PROVE  /\ \A r \in ConsumeExpectRead(n) : r.kind # "Invalid"
         /\ \A r \in BasicRead(n) : r.kind \notin {"none", "Invalid"} => r.n < n
<1>1. input.left \in Nat
  BY DEF RTypeInv
<1>2. ASSUME NEW r \in ConsumeExpectRead(n) PROVE r.kind # "Invalid"
  BY <1>2 DEF ConsumeExpectRead, ShortRead, FullRead, ReadFullKind
<1>3. ASSUME NEW r \in BasicRead(n), r.kind \notin {"none", "Invalid"} PROVE r.n < n
  <2>1. r = ShortRead(n) /\ Short(n)
    BY <1>3 DEF BasicRead, FullRead
  <2> QED
    BY <1>1, <2>1 DEF ShortRead, Short, ReadFullKind, Got
<1> QED
  BY <1>2, <1>3

(* Whatever is read is taken from the input. *)
LEMMA TakeFacts ==
  ASSUME RTypeInv, NEW n \in Nat, n <= input.left, Take(n)
  PROVE  /\ input' \in [left : Nat, taken : Nat, end : {"EOF", "IOErr"}]
         /\ input'.taken = input.taken + n
<1>1. input.left - n \in Nat /\ input.taken + n \in Nat
  BY DEF RTypeInv
<1> QED
  BY <1>1 DEF RTypeInv, Take

(* The frames up to the k-th lie in the first m frames. *)
LEMMA FramesBound ==
  ASSUME NEW k \in Nat, NEW m \in Nat, k < m, NEW c \in Nat
  PROVE  /\ k * c \in Nat /\ m * c \in Nat
         /\ (k + 1) * c = k * c + c
         /\ k * c + c <= m * c
<1>1. (k + 1) * c <= m * c
  BY ProductBound, k + 1 \in Nat, k + 1 <= m, c <= c
<1>2. (k + 1) * c = k * c + c /\ k * c \in Nat /\ m * c \in Nat
  OBVIOUS
<1> QED
  BY <1>1, <1>2

(* The two properties hold wherever the call is. *)
LEMMA Underway ==
  ASSUME RInv
  PROVE  BytesReadExact /\ ErrorCountsWrites
<1> USE DEF RInv
<1>0. /\ ret.bytesRead \in Nat /\ sub.n \in Nat /\ i \in Nat /\ size \in Nat
      /\ MaxInt32 \in Nat /\ SizeField \in Nat
      /\ ret.bytesRead + sub.n = input.taken
  BY LengthsAssumption DEF RTypeInv, Counted
<1>1. CASE Returned
  BY <1>1
<1>2. CASE pc = "start"
  BY <1>0, <1>2 DEF NothingDone, Written, BytesReadExact, ErrorCountsWrites, Failed, Succeeded
<1>3. CASE pc \in SinglePCs
  <2>1. SinglePosition
    BY <1>3
  <2>2. i * FrameLength(fmt) + FrameLength(fmt) <= call.len * FrameLength(fmt)
    BY <1>0, <2>1, CallFacts, FramesBound DEF SinglePosition
  <2>3. sub.n <= FrameLength(fmt)
    <3>1. /\ fmt.singleHeader \in Nat /\ fmt.point \in Nat /\ fmt.singleFooter \in Nat
          /\ FrameLength(fmt) = fmt.singleHeader + fmt.point + fmt.singleFooter
      BY CallFacts DEF Format, FrameLength
    <3>2. \/ sub.n \in {0, fmt.singleHeader, fmt.singleHeader + fmt.point}
          \/ sub.n <= FrameLength(fmt)
      BY <1>3, <2>1, Zenon DEF SinglePosition, SinglePCs
    <3> QED
      BY <1>0, <3>1, <3>2
  <2>4. input.taken <= MaxInt32
    BY <1>0, <2>1, <2>2, <2>3, CallFacts, FramesBound DEF SinglePosition
  <2>5. touched \subseteq 0 .. call.len - 1
    <3>1. touched = 0 .. i - 1 \/ touched = 0 .. i
      BY <1>0, <1>3, <2>1 DEF SinglePosition, SinglePCs, Written
    <3>2. i < call.len /\ call.len \in Nat
      BY <2>1, CallFacts DEF SinglePosition
    <3> QED
      BY <1>0, <3>1, <3>2
  <2> QED
    BY <1>0, <1>3, <2>4, <2>5
    DEF BytesReadExact, ErrorCountsWrites, Failed, Succeeded, SinglePCs
<1>4. CASE pc = "boundedReturn"
  BY <1>0, <1>4 DEF BoundedPosition, BytesReadExact, ErrorCountsWrites, Failed, Succeeded
<1>5. CASE pc \in PreamblePCs
  <2>1. fmt.sliceHeader \in Nat /\ fmt.sliceHeader + SizeField <= MaxInt32
    BY <1>0, CallFacts DEF Format, FormatValid, HeaderValid
  <2> QED
    BY <1>0, <1>5, <2>1
    DEF PreamblePosition, PreamblePCs, Written, BytesReadExact, ErrorCountsWrites, Failed, Succeeded
<1>6. CASE pc \in FramePCs
  <2>1. FramePosition
    BY <1>6
  <2>2. input.taken <= SliceLength(fmt, size)
    <3>1. /\ fmt.perPointHeader \in Nat /\ fmt.point \in Nat /\ fmt.perPointFooter \in Nat
          /\ fmt.sliceFooter \in Nat /\ fmt.sliceHeader \in Nat
      BY CallFacts DEF Format
    <3>2. i < size => i * SliceFrameLength(fmt) + SliceFrameLength(fmt)
                        <= size * SliceFrameLength(fmt)
      BY <1>0, CallFacts, FramesBound
    <3>3. i * SliceFrameLength(fmt) \in Nat /\ size * SliceFrameLength(fmt) \in Nat
      BY <1>0, CallFacts
    <3>4. fmt.perPointHeader + fmt.point <= SliceFrameLength(fmt)
      BY <3>1 DEF SliceFrameLength
    <3> QED
      BY <1>0, <1>6, <2>1, <3>1, <3>2, <3>3, <3>4, CallFacts
      DEF FramePosition, FramePCs, BeforePoint, SliceLength
  <2>3. call.maker = "existing" => touched \subseteq 0 .. call.len - 1
    BY <1>0, <1>6, <2>1, CallFacts DEF FramePosition, FramePCs, Written
  <2>4. input.taken <= MaxInt32
    <3>1. SliceLength(fmt, size) <= MaxInt32 /\ SliceLength(fmt, size) \in Nat
      BY <1>0, <2>1, CallFacts, SliceLengthSum DEF FramePosition
    <3> QED
      BY <1>0, <2>2, <3>1
  <2> QED
    BY <1>0, <1>6, <2>3, <2>4
    DEF BytesReadExact, ErrorCountsWrites, Failed, Succeeded, FramePCs
<1> QED
  BY <1>1, <1>2, <1>3, <1>4, <1>5, <1>6 DEF RTypeInv, Returned

(* One more element is written. *)
LEMMA NextWritten ==
  ASSUME NEW k \in Nat
  PROVE  (0 .. k - 1) \cup {k} = 0 .. (k + 1) - 1
OBVIOUS

(* The result of a read is a record with these fields only. *)
ReadResults == [n : Nat, kind : ReadKinds, partial : BOOLEAN]

LEMMA ConsumedIsRead ==
  ASSUME RTypeInv, NEW n \in Nat, NEW r \in ConsumeExpectRead(n)
  PROVE  r \in ReadResults
<1>1. Got(n) \in Nat /\ ReadFullKind(n) \in ReadKinds
  BY DEF RTypeInv, Got, ReadFullKind, ReadKinds
<1>2. ShortRead(n) \in ReadResults
  BY <1>1 DEF ShortRead, ReadResults
<1>3. \A kind \in ReadKinds : FullRead(n, kind) \in ReadResults
  BY DEF FullRead, ReadResults
<1>4. "none" \in ReadKinds /\ "Mismatch" \in ReadKinds
  BY DEF ReadKinds
<1> QED
  BY <1>2, <1>3, <1>4 DEF ConsumeExpectRead

-----------------------------------------------------------------------------
(* The steps of the reader *)

LEMMA InitEstablishes == Init => RInv
<1> SUFFICES ASSUME Init PROVE RInv
  OBVIOUS
<1>1. RTypeInv
  BY ReaderAssumption DEF Init, RTypeInv, NoRead, NoError, ReadKinds, ErrorKinds
<1>2. Counted /\ NothingDone
  BY DEF Init, Counted, NothingDone, Written, NoRead, NoError
<1>3. pc = "start"
  BY DEF Init
<1> QED
  BY <1>1, <1>2, <1>3 DEF RInv, SinglePCs, PreamblePCs, FramePCs, Returned

LEMMA StartKeeps ==
  ASSUME RInv, StartCall
  PROVE  RInv'
<1>1. pc = "start" /\ NothingDone /\ RTypeInv /\ Counted
  BY DEF RInv, StartCall
<1>2. UNCHANGED <<fmt, call, input, i, size, sub, ret, err, touched>>
  BY DEF StartCall
<1>3. pc' \in {"singleHeader", "sliceHeader", "boundedReturn", "done", "panicked"}
  BY DEF StartCall, AfterPoints
<1>4. RTypeInv' /\ Counted'
  BY <1>1, <1>2, <1>3 DEF RTypeInv, Counted, SinglePCs, PreamblePCs
<1>5. input.taken = 0 /\ MaxInt32 \in Nat
  BY <1>1, CallFacts, LengthsAssumption DEF NothingDone, Counted
<1>6. CASE pc' = "singleHeader"
  <2>1. call.op # "slice" /\ 0 < call.len
    BY <1>1, <1>6, CallFacts DEF StartCall, AfterPoints
  <2>2. call.len * FrameLength(fmt) <= MaxInt32
    <3>1. CASE call.op = "point"
      BY <3>1, <1>1, CallFacts
    <3>2. CASE call.op # "point"
      <4>1. BatchLengthOK(fmt, call.len)
        BY <1>1, <1>6, <2>1, <3>2 DEF StartCall
      <4> QED
        BY <1>1, <4>1, CallFacts, BatchGuardExact
    <3> QED
      BY <3>1, <3>2
  <2>3. 0 * FrameLength(fmt) = 0
    BY <1>1, CallFacts
  <2>4. SinglePosition'
    BY <1>1, <1>2, <1>6, <2>1, <2>2, <2>3 DEF SinglePosition, NothingDone, Written
  <2> QED
    BY <1>4, <1>6, <2>4 DEF RInv, SinglePCs, PreamblePCs, FramePCs, Returned
<1>7. CASE pc' = "sliceHeader"
  <2>1. call.op = "slice"
    BY <1>1, <1>7 DEF StartCall, AfterPoints
  <2>2. PreamblePosition'
    BY <1>1, <1>2, <1>7, <2>1 DEF PreamblePosition, NothingDone, Written
  <2> QED
    BY <1>4, <1>7, <2>2 DEF RInv, SinglePCs, PreamblePCs, FramePCs, Returned
<1>8. CASE pc' = "boundedReturn"
  <2>1. call.op = "bounded"
    BY <1>1, <1>8 DEF StartCall, AfterPoints
  <2>2. BoundedPosition'
    BY <1>1, <1>2, <1>5, <2>1 DEF BoundedPosition, NothingDone, Written
  <2> QED
    BY <1>4, <1>8, <2>2 DEF RInv, SinglePCs, PreamblePCs, FramePCs, Returned
<1>9. CASE pc' \in {"done", "panicked"}
  <2>1. pc' = "done" => call.op = "points" /\ call.len = 0
    BY <1>1, <1>9, CallFacts DEF StartCall, AfterPoints, BatchOps
  <2>2. call.len = 0 => call.len * OutputLength(fmt) = 0
    BY <1>1, CallFacts
  <2>3. BytesReadExact'
    BY <1>1, <1>2, <1>4, <1>5, <2>1, <2>2
    DEF BytesReadExact, Succeeded, Counted, NothingDone
  <2>4. ErrorCountsWrites'
    BY <1>1, <1>2, <2>1
    DEF ErrorCountsWrites, Succeeded, Failed, NothingDone, Written
  <2> QED
    BY <1>4, <1>9, <2>3, <2>4 DEF RInv, SinglePCs, PreamblePCs, FramePCs, Returned
<1> QED
  BY <1>3, <1>6, <1>7, <1>8, <1>9

LEMMA SingleHeaderKeeps ==
  ASSUME RInv, NEW r \in ConsumeExpectRead(fmt.singleHeader), ReadSingleHeader(r)
  PROVE  RInv'
<1>1. pc = "singleHeader" /\ SinglePosition /\ RTypeInv /\ Counted
  BY DEF RInv, ReadSingleHeader, SinglePCs
<1>2. fmt.singleHeader \in Nat
  BY <1>1, CallFacts DEF Format
<1>3. Yields(r, fmt.singleHeader)
  BY <1>1, <1>2, ReadFacts
<1>4. /\ input' \in [left : Nat, taken : Nat, end : {"EOF", "IOErr"}]
      /\ input'.taken = input.taken + r.n
  BY <1>1, <1>3, TakeFacts DEF ReadSingleHeader, Yields
<1>5. /\ sub' \in [n : Nat, kind : ReadKinds, partial : BOOLEAN]
      /\ sub'.n = r.n
      /\ r.kind = "none" => pc' = "singlePoint" /\ sub'.n = fmt.singleHeader
      /\ r.kind # "none" => pc' = "singleReturn" /\ sub'.kind # "none"
  <2>1. UnexpectEOF(r.kind) \in ReadKinds /\ (r.kind # "none" => UnexpectEOF(r.kind) # "none")
    BY <1>3 DEF UnexpectEOF, ReadKinds, Yields
  <2>2. CASE r.kind = "none"
    BY <1>1, <1>2, <1>3, <2>2, ConsumedIsRead DEF ReadSingleHeader, Yields, ReadResults
  <2>3. CASE r.kind # "none"
    <3>1. r \in ReadResults
      BY <1>1, <1>2, ConsumedIsRead
    <3>2. CASE r.n > 0
      <4>1. sub' = [n |-> r.n, kind |-> UnexpectEOF(r.kind), partial |-> TRUE]
        BY <2>3, <3>2 DEF ReadSingleHeader
      <4> QED
        BY <1>3, <2>1, <2>3, <4>1 DEF ReadSingleHeader, Yields
    <3>3. CASE ~ r.n > 0
      BY <2>3, <3>1, <3>3 DEF ReadSingleHeader, ReadResults
    <3> QED
      BY <3>2, <3>3
  <2> QED
    BY <2>2, <2>3
<1>6. UNCHANGED <<fmt, call, i, size, ret, err, touched>>
  BY DEF ReadSingleHeader
<1>7. RTypeInv'
  BY <1>1, <1>4, <1>5, <1>6 DEF RTypeInv, SinglePCs
<1>8. Counted'
  BY <1>1, <1>3, <1>4, <1>5, <1>6, CallFacts DEF Counted, SinglePosition, Yields
<1>9. SinglePosition'
  <2>1. sub'.n <= FrameLength(fmt)
    BY <1>1, <1>2, <1>3, <1>5, CallFacts DEF FrameLength, Format, Yields
  <2>2. pc' = "singleReturn" => ~ PointDone(sub'.kind, sub'.n)
    BY <1>2, <1>3, <1>5, <1>1, CallFacts DEF PointDone, Format, Yields
  <2> QED
    BY <1>1, <1>5, <1>6, <2>1, <2>2 DEF SinglePosition, Written, PointDone
<1> QED
  BY <1>5, <1>7, <1>8, <1>9 DEF RInv, SinglePCs, PreamblePCs, FramePCs, Returned

LEMMA SinglePointKeeps ==
  ASSUME RInv, NEW r \in BasicRead(fmt.point), ReadSinglePoint(r)
  PROVE  RInv'
<1> DEFINE n == sub.n + r.n
<1>1. pc = "singlePoint" /\ SinglePosition /\ RTypeInv /\ Counted
  BY DEF RInv, ReadSinglePoint, SinglePCs
<1>2. fmt.point \in Nat /\ fmt.singleHeader \in Nat /\ fmt.singleFooter \in Nat
  BY <1>1, CallFacts DEF Format
<1>3. Yields(r, fmt.point)
  BY <1>1, <1>2, ReadFacts
<1>4. /\ input' \in [left : Nat, taken : Nat, end : {"EOF", "IOErr"}]
      /\ input'.taken = input.taken + r.n
  BY <1>1, <1>3, TakeFacts DEF ReadSinglePoint, Yields
<1>5. n \in Nat /\ sub.n = fmt.singleHeader /\ n <= fmt.singleHeader + fmt.point
  BY <1>1, <1>2, <1>3 DEF SinglePosition, Yields
<1>6. UNCHANGED <<fmt, call, i, size, ret, err>>
  BY DEF ReadSinglePoint
<1>7. CASE r.kind = "none"
  <2>1. /\ sub' = [n |-> n, kind |-> "none", partial |-> FALSE]
        /\ touched' = touched \cup {i}
        /\ pc' = "singleFooter"
    BY <1>7 DEF ReadSinglePoint
  <2>2. Written(i + 1)'
    BY <1>1, <1>6, <2>1, NextWritten DEF SinglePosition, Written, RTypeInv
  <2>3. n = fmt.singleHeader + fmt.point
    BY <1>3, <1>5, <1>7 DEF Yields
  <2>4. RTypeInv'
    BY <1>1, <1>4, <1>5, <1>6, <2>1 DEF RTypeInv, SinglePCs, ReadKinds
  <2>5. Counted'
    BY <1>1, <1>3, <1>4, <1>5, <1>6, <2>1, CallFacts DEF Counted, Yields
  <2>6. SinglePosition'
    BY <1>1, <1>6, <2>1, <2>2, <2>3 DEF SinglePosition
  <2> QED
    BY <2>1, <2>4, <2>5, <2>6 DEF RInv, SinglePCs, PreamblePCs, FramePCs, Returned
<1>8. CASE r.kind # "none"
  <2>1. /\ sub'.n = n /\ sub'.kind # "none" /\ (sub'.kind = "Invalid" <=> r.kind = "Invalid")
        /\ sub' \in [n : Nat, kind : ReadKinds, partial : BOOLEAN]
    <3>1. /\ UnexpectEOF(r.kind) \in ReadKinds /\ UnexpectEOF(r.kind) # "none"
          /\ UnexpectEOF(r.kind) = "Invalid" <=> r.kind = "Invalid"
      BY <1>3, <1>8 DEF UnexpectEOF, ReadKinds, Yields
    <3>2. PICK kind \in {r.kind, UnexpectEOF(r.kind)}, partial \in BOOLEAN :
            sub' = [n |-> n, kind |-> kind, partial |-> partial]
      <4>1. (r.partial \/ (n > 0 /\ (r.n = 0 \/ fmt.singleFooter # 0))) \in BOOLEAN
        OBVIOUS
      <4> QED
        BY <1>8, <4>1 DEF ReadSinglePoint
    <3> QED
      BY <1>3, <1>5, <1>8, <3>1, <3>2 DEF Yields
  <2>2. touched' = touched /\ pc' \in {"singleReturn", "panicked"}
    BY <1>8 DEF ReadSinglePoint
  <2>3. RTypeInv'
    BY <1>1, <1>4, <1>6, <2>1, <2>2 DEF RTypeInv, SinglePCs
  <2>4. Counted'
    BY <1>1, <1>3, <1>4, <1>5, <1>6, <2>1, CallFacts DEF Counted, Yields
  <2>5. sub'.n <= FrameLength(fmt)
    BY <1>2, <1>5, <2>1 DEF FrameLength
  <2>6. SinglePosition /\ Written(i)
    BY <1>1 DEF SinglePosition
  <2>7. CASE pc' = "singleReturn"
    <3>1. ~ PointDone(sub'.kind, sub'.n)
      <4>1. r.kind # "Invalid" => r.n < fmt.point
        BY <1>1, <1>2, <1>8, FailedReads
      <4> QED
        BY <1>2, <1>3, <1>5, <2>1, <4>1 DEF PointDone, Yields
    <3>2. SinglePosition'
      BY <1>6, <2>1, <2>2, <2>5, <2>6, <2>7, <3>1 DEF SinglePosition, Written, PointDone
    <3> QED
      BY <2>3, <2>4, <2>7, <3>2 DEF RInv, SinglePCs, PreamblePCs, FramePCs, Returned
  <2>8. CASE pc' = "panicked"
    <3>1. input'.taken <= MaxInt32
      <4>1. /\ i * FrameLength(fmt) + FrameLength(fmt) <= call.len * FrameLength(fmt)
            /\ i * FrameLength(fmt) \in Nat /\ call.len * FrameLength(fmt) \in Nat
        BY <1>1, <2>6, CallFacts, FramesBound DEF SinglePosition, RTypeInv
      <4>2. input'.taken = i * FrameLength(fmt) + sub'.n
        BY <1>6, <2>4, <2>6 DEF Counted, SinglePosition
      <4> QED
        BY <1>1, <2>1, <2>5, <2>6, <4>1, <4>2, CallFacts, LengthsAssumption DEF SinglePosition
    <3>2. touched' \subseteq 0 .. call.len - 1
      BY <1>1, <2>2, <2>6, CallFacts DEF SinglePosition, Written, RTypeInv
    <3>3. BytesReadExact' /\ ErrorCountsWrites'
      BY <1>6, <2>4, <2>8, <3>1, <3>2
      DEF BytesReadExact, ErrorCountsWrites, Counted, Succeeded, Failed
    <3> QED
      BY <2>3, <2>4, <2>8, <3>3 DEF RInv, SinglePCs, PreamblePCs, FramePCs, Returned
  <2> QED
    BY <2>2, <2>7, <2>8
<1> QED
  BY <1>7, <1>8

LEMMA SingleFooterKeeps ==
  ASSUME RInv, NEW r \in ConsumeExpectRead(fmt.singleFooter), ReadSingleFooter(r)
  PROVE  RInv'
<1>1. pc = "singleFooter" /\ SinglePosition /\ RTypeInv /\ Counted
  BY DEF RInv, ReadSingleFooter, SinglePCs
<1>2. fmt.point \in Nat /\ fmt.singleHeader \in Nat /\ fmt.singleFooter \in Nat
  BY <1>1, CallFacts DEF Format
<1>3. Yields(r, fmt.singleFooter)
  BY <1>1, <1>2, ReadFacts
<1>4. /\ input' \in [left : Nat, taken : Nat, end : {"EOF", "IOErr"}]
      /\ input'.taken = input.taken + r.n
  BY <1>1, <1>3, TakeFacts DEF ReadSingleFooter, Yields
<1>5. /\ sub.n = fmt.singleHeader + fmt.point /\ Written(i + 1)
      /\ sub'.n = sub.n + r.n
      /\ sub' \in [n : Nat, kind : ReadKinds, partial : BOOLEAN]
      /\ sub'.kind = "none" => r.kind = "none"
      /\ sub'.kind # "Invalid"
  <2>1. /\ UnexpectEOF(r.kind) \in ReadKinds
        /\ UnexpectEOF(r.kind) = "none" => r.kind = "none"
        /\ UnexpectEOF(r.kind) # "Invalid"
    <3>1. r.kind # "Invalid"
      BY <1>1, <1>2, FailedReads
    <3> QED
      BY <1>3, <3>1 DEF UnexpectEOF, ReadKinds, Yields
  <2>2. PICK partial \in BOOLEAN :
          sub' = [n |-> sub.n + r.n, kind |-> UnexpectEOF(r.kind), partial |-> partial]
    <3>1. (r.kind # "none" /\ (r.partial \/ r.n = 0)) \in BOOLEAN
      OBVIOUS
    <3> QED
      BY <3>1 DEF ReadSingleFooter
  <2>3. sub.n + r.n \in Nat
    BY <1>1, <1>3, CallFacts DEF Yields
  <2> QED
    BY <1>1, <2>1, <2>2, <2>3 DEF SinglePosition
<1>6. UNCHANGED <<fmt, call, i, size, ret, err, touched>> /\ pc' = "singleReturn"
  BY DEF ReadSingleFooter
<1>7. RTypeInv'
  BY <1>1, <1>4, <1>5, <1>6 DEF RTypeInv, SinglePCs
<1>8. Counted'
  BY <1>1, <1>3, <1>4, <1>5, <1>6, CallFacts DEF Counted, Yields
<1>9. SinglePosition'
  <2>1. sub'.n <= FrameLength(fmt) /\ (r.kind = "none" => sub'.n = FrameLength(fmt))
    BY <1>2, <1>3, <1>5 DEF FrameLength, Yields
  <2>2. PointDone(sub'.kind, sub'.n) /\ touched = 0 .. i
    BY <1>1, <1>2, <1>3, <1>5 DEF PointDone, Written, Yields, RTypeInv
  <2> QED
    BY <1>1, <1>5, <1>6, <2>1, <2>2 DEF SinglePosition, Written, PointDone
<1> QED
  BY <1>6, <1>7, <1>8, <1>9 DEF RInv, SinglePCs, PreamblePCs, FramePCs, Returned

(* Where the call of DeserializeCurvePoint for the point i returns. *)
LEMMA AtReturn ==
  ASSUME RInv, pc = "singleReturn"
  PROVE  /\ RTypeInv /\ Counted /\ SinglePosition
         /\ sub.n <= FrameLength(fmt)
         /\ Written(i) \/ Written(i + 1)
         /\ sub.kind = "none" => sub.n = FrameLength(fmt) /\ Written(i + 1)
         /\ sub.kind # "none" =>
              touched = 0 .. (IF PointDone(sub.kind, sub.n) THEN i ELSE i - 1)
         /\ i * FrameLength(fmt) \in Nat
         /\ (i + 1) * FrameLength(fmt) = i * FrameLength(fmt) + FrameLength(fmt)
         /\ i * FrameLength(fmt) + FrameLength(fmt) <= MaxInt32
<1>1. RTypeInv /\ Counted /\ SinglePosition
  BY DEF RInv, SinglePCs
<1>2. /\ i * FrameLength(fmt) \in Nat /\ call.len * FrameLength(fmt) \in Nat
      /\ (i + 1) * FrameLength(fmt) = i * FrameLength(fmt) + FrameLength(fmt)
      /\ i * FrameLength(fmt) + FrameLength(fmt) <= call.len * FrameLength(fmt)
  BY <1>1, CallFacts, FramesBound DEF SinglePosition, RTypeInv
<1>3. call.len * FrameLength(fmt) <= MaxInt32
  BY <1>1 DEF SinglePosition
<1> QED
  BY <1>1, <1>2, <1>3, CallFacts, LengthsAssumption DEF SinglePosition

LEMMA ReturnPointKeeps ==
  ASSUME RInv, ReturnPoint
  PROVE  RInv'
<1>1. pc = "singleReturn" /\ call.op = "point" /\ pc' = "done"
  BY DEF ReturnPoint
<1>2. /\ ret' = [ret EXCEPT !.bytesRead = sub.n]
      /\ err' = [kind |-> sub.kind, partial |-> sub.partial, points |-> 0]
      /\ sub' = NoRead
      /\ UNCHANGED <<fmt, call, input, i, size, touched>>
  BY DEF ReturnPoint, Fail
<1>3. RTypeInv /\ Counted /\ SinglePosition
  BY <1>1, AtReturn
<1>4. call.len = 1 /\ i = 0 /\ call.maker = "existing"
  BY <1>1, <1>3, CallFacts DEF SinglePosition, RTypeInv
<1>5. ret.bytesRead = 0
  BY <1>3, <1>4, CallFacts DEF SinglePosition
<1>6. RTypeInv'
  <2>1. /\ ret' \in [bytesRead : Nat, pointsWritten : Nat, output : {"unset", "dummy", "slice"}]
        /\ err' \in [kind : ErrorKinds, partial : BOOLEAN, points : Nat]
        /\ sub' \in [n : Nat, kind : ReadKinds, partial : BOOLEAN]
    BY <1>2, <1>3 DEF RTypeInv, NoRead, ErrorKinds, ReadKinds
  <2> QED
    BY <1>1, <1>2, <1>3, <2>1 DEF RTypeInv
<1>7. ret'.bytesRead = sub.n /\ sub'.n = 0 /\ err'.kind = sub.kind /\ err'.points = 0
  BY <1>2, <1>3 DEF NoRead, RTypeInv
<1>8. Counted'
  BY <1>2, <1>3, <1>5, <1>7, CallFacts DEF Counted
<1>9. BytesReadExact'
  <2>1. input.taken = sub.n
    BY <1>3, <1>5, CallFacts DEF Counted
  <2>2. input.taken <= MaxInt32
    BY <1>1, <1>3, <2>1, AtReturn, CallFacts, LengthsAssumption
  <2>3. sub.kind = "none" => input.taken = OutputLength(fmt)
    BY <1>1, <1>3, <2>1, AtReturn, CallFacts
  <2> QED
    BY <1>1, <1>2, <1>7, <1>8, <2>2, <2>3 DEF BytesReadExact, Counted, Succeeded
<1>10. ErrorCountsWrites'
  <2>1. touched \subseteq {0} /\ (sub.kind = "none" => touched = {0})
    BY <1>1, <1>4, AtReturn DEF Written
  <2>2. InSingleFooter' <=> PointDone(sub.kind, sub.n)
    <3>1. input.taken = sub.n /\ 0 * FrameLength(fmt) = 0
      BY <1>3, <1>5, CallFacts DEF Counted
    <3>2. fmt.singleHeader \in Nat /\ fmt.point \in Nat
      BY <1>3, CallFacts DEF Format
    <3> QED
      BY <1>1, <1>2, <1>7, <3>1, <3>2 DEF InSingleFooter, PointDone, FrameLength
  <2>3. sub.kind # "none" =>
          touched = 0 .. (IF PointDone(sub.kind, sub.n) THEN 0 ELSE 0 - 1)
    BY <1>1, <1>4, AtReturn
  <2> QED
    BY <1>1, <1>2, <1>4, <1>7, <2>1, <2>2, <2>3 DEF ErrorCountsWrites, Succeeded, Failed
<1> QED
  BY <1>1, <1>6, <1>8, <1>9, <1>10 DEF RInv, SinglePCs, PreamblePCs, FramePCs, Returned

LEMMA ReturnToLoopKeeps ==
  ASSUME RInv, ReturnToLoop
  PROVE  RInv'
<1>1. pc = "singleReturn" /\ call.op \in BatchOps
  BY DEF ReturnToLoop
<1>2. /\ ret' = [ret EXCEPT !.bytesRead = @ + sub.n]
      /\ sub' = NoRead
      /\ UNCHANGED <<fmt, call, input, size, touched>>
  BY DEF ReturnToLoop
<1>3. /\ RTypeInv /\ Counted /\ SinglePosition
      /\ sub.n \in Nat /\ ret.bytesRead \in Nat /\ i \in Nat /\ call.len \in Nat
      /\ FrameLength(fmt) \in Nat
  BY <1>1, AtReturn, CallFacts DEF RTypeInv
<1>4. /\ ret' \in [bytesRead : Nat, pointsWritten : Nat, output : {"unset", "dummy", "slice"}]
      /\ sub' \in [n : Nat, kind : ReadKinds, partial : BOOLEAN]
      /\ ret'.bytesRead = ret.bytesRead + sub.n
      /\ sub'.n = 0
  BY <1>2, <1>3 DEF RTypeInv, NoRead, ReadKinds
<1>5. Counted'
  BY <1>2, <1>3, <1>4 DEF Counted
<1>6. ret'.bytesRead <= MaxInt32 /\ input'.taken = ret'.bytesRead
  <2>1. ret.bytesRead = i * FrameLength(fmt)
    BY <1>3 DEF SinglePosition
  <2>2. input'.taken = ret'.bytesRead
    BY <1>3, <1>4, <1>5 DEF Counted
  <2> QED
    BY <1>1, <1>3, <1>4, <2>1, <2>2, AtReturn, LengthsAssumption
<1>7. call.maker = "existing"
  BY <1>1, <1>3, CallFacts DEF BatchOps
<1>8. touched \subseteq 0 .. call.len - 1
  <2>1. touched = 0 .. i - 1 \/ touched = 0 .. i
    BY <1>1, <1>3, AtReturn DEF Written
  <2> QED
    BY <1>3, <2>1 DEF SinglePosition
<1>9. CASE sub.kind = "none"
  <2>1. i' = i + 1 /\ err' = err /\ pc' = AfterPoints(i + 1)
    BY <1>9 DEF ReturnToLoop
  <2>2. /\ ret'.bytesRead = (i + 1) * FrameLength(fmt)
        /\ Written(i + 1)
    BY <1>1, <1>3, <1>4, <1>9, AtReturn DEF SinglePosition
  <2>3. pc' \in {"singleHeader", "boundedReturn", "done"}
    BY <2>1 DEF AfterPoints
  <2>4. RTypeInv'
    BY <1>2, <1>3, <1>4, <2>1, <2>3 DEF RTypeInv, SinglePCs
  <2>5. CASE pc' = "singleHeader"
    <3>1. i + 1 < call.len
      BY <2>1, <2>5 DEF AfterPoints
    <3>2. SinglePosition'
      BY <1>2, <1>3, <1>4, <2>1, <2>2, <2>5, <3>1 DEF SinglePosition, Written
    <3> QED
      BY <1>5, <2>4, <2>5, <3>2 DEF RInv, SinglePCs, PreamblePCs, FramePCs, Returned
  <2>6. CASE pc' = "boundedReturn"
    <3>1. call.op = "bounded" /\ err.kind = "none"
      BY <1>3, <2>1, <2>6 DEF AfterPoints, SinglePosition
    <3>2. BoundedPosition'
      BY <1>2, <1>4, <1>6, <1>8, <2>1, <3>1 DEF BoundedPosition
    <3> QED
      BY <1>5, <2>4, <2>6, <3>2 DEF RInv, SinglePCs, PreamblePCs, FramePCs, Returned
  <2>7. CASE pc' = "done"
    <3>1. i + 1 = call.len /\ call.op = "points" /\ err.kind = "none"
      <4>1. i < call.len /\ err.kind = "none"
        BY <1>3 DEF SinglePosition
      <4>2. ~ i + 1 < call.len /\ call.op # "bounded"
        BY <2>1, <2>7 DEF AfterPoints
      <4> QED
        BY <1>1, <1>3, <4>1, <4>2 DEF BatchOps
    <3>2. touched = 0 .. call.len - 1
      BY <2>2, <3>1 DEF Written
    <3>3. input'.taken = call.len * OutputLength(fmt)
      BY <1>3, <1>6, <2>2, <3>1, CallFacts
    <3>4. BytesReadExact'
      BY <1>2, <1>5, <1>6, <3>1, <3>3 DEF BytesReadExact, Counted, Succeeded
    <3>5. ErrorCountsWrites'
      BY <1>2, <1>8, <2>1, <3>1, <3>2 DEF ErrorCountsWrites, Succeeded, Failed
    <3> QED
      BY <1>5, <2>4, <2>7, <3>4, <3>5 DEF RInv, SinglePCs, PreamblePCs, FramePCs, Returned
  <2> QED
    BY <2>3, <2>5, <2>6, <2>7
<1>10. CASE sub.kind # "none"
  <2>1. PICK kind \in {sub.kind, UnexpectEOF(sub.kind)} :
          err' = [kind |-> kind, partial |-> sub.partial, points |-> i]
    BY <1>10 DEF ReturnToLoop, Fail
  <2>2. i' = i /\ pc' \in {"boundedReturn", "done"} /\ (pc' = "boundedReturn" => call.op = "bounded")
    BY <1>10 DEF ReturnToLoop
  <2>3. /\ err' \in [kind : ErrorKinds, partial : BOOLEAN, points : Nat]
        /\ err'.kind # "none" /\ err'.points = i
        /\ err'.kind = "Invalid" <=> sub.kind = "Invalid"
    <3>1. sub.kind \in ReadKinds /\ sub.partial \in BOOLEAN
      BY <1>3 DEF RTypeInv
    <3>2. /\ kind \in ErrorKinds /\ kind # "none"
          /\ kind = "Invalid" <=> sub.kind = "Invalid"
      BY <1>10, <2>1, <3>1 DEF UnexpectEOF, ReadKinds, ErrorKinds
    <3> QED
      BY <1>3, <2>1, <3>1, <3>2
  <2>4. RTypeInv'
    BY <1>2, <1>3, <1>4, <2>2, <2>3 DEF RTypeInv
  <2>5. touched' = 0 .. (IF InSingleFooter' THEN err'.points ELSE err'.points - 1)
    <3>1. InSingleFooter' <=> PointDone(sub.kind, sub.n)
      <4>1. /\ input.taken = i * FrameLength(fmt) + sub.n
            /\ i * FrameLength(fmt) \in Nat
        BY <1>1, <1>3, AtReturn DEF Counted, SinglePosition
      <4>2. fmt.singleHeader \in Nat /\ fmt.point \in Nat
        BY <1>3, CallFacts DEF Format
      <4>3. input'.taken >= err'.points * FrameLength(fmt)' + fmt'.singleHeader + fmt'.point
              <=> sub.n >= fmt.singleHeader + fmt.point
        BY <1>2, <1>3, <2>3, <4>1, <4>2 DEF FrameLength
      <4>4. call'.op # "slice"
        BY <1>1, <1>2 DEF BatchOps
      <4> QED
        BY <2>3, <4>3, <4>4 DEF InSingleFooter, PointDone
    <3> QED
      BY <1>1, <1>2, <1>10, <2>3, <3>1, AtReturn
  <2>6. pc' = "boundedReturn" => BoundedPosition'
    BY <1>2, <1>4, <1>6, <1>8, <2>2, <2>3, <2>5 DEF BoundedPosition
  <2>7. pc' = "done" => BytesReadExact'
    BY <1>2, <1>5, <1>6, <2>3 DEF BytesReadExact, Counted, Succeeded
  <2>8. pc' = "done" => ErrorCountsWrites'
    BY <1>2, <1>8, <2>3, <2>5 DEF ErrorCountsWrites, Succeeded, Failed
  <2> QED
    BY <1>5, <2>2, <2>4, <2>6, <2>7, <2>8 DEF RInv, SinglePCs, PreamblePCs, FramePCs, Returned
<1> QED
  BY <1>9, <1>10

LEMMA BoundedReturnKeeps ==
  ASSUME RInv, BoundedReturn
  PROVE  RInv'
<1>1. pc = "boundedReturn" /\ BoundedPosition /\ RTypeInv /\ Counted
  BY DEF RInv, BoundedReturn
<1>2. UNCHANGED <<fmt, call, input, i, size, sub, touched>> /\ pc' = "done"
  BY DEF BoundedReturn
<1>3. err' \in {NoError, err} /\ NoError.kind = "none"
  BY DEF BoundedReturn, NoError
<1>4. PICK n \in Nat : ret' = [ret EXCEPT !.pointsWritten = n]
  <2>1. call.len \in Nat /\ err.points \in Nat
    BY <1>1, CallFacts DEF RTypeInv
  <2> QED
    BY <2>1 DEF BoundedReturn
<1>5. ret'.bytesRead = ret.bytesRead
  BY <1>1, <1>4 DEF RTypeInv
<1>6. RTypeInv'
  <2>1. ret' \in [bytesRead : Nat, pointsWritten : Nat, output : {"unset", "dummy", "slice"}]
    BY <1>1, <1>4 DEF RTypeInv
  <2>2. err' \in [kind : ErrorKinds, partial : BOOLEAN, points : Nat]
    <3>1. NoError \in [kind : ErrorKinds, partial : BOOLEAN, points : Nat]
      BY DEF NoError, ErrorKinds, ReadKinds
    <3> QED
      BY <1>1, <1>3, <3>1, Zenon DEF RTypeInv
  <2> QED
    BY <1>1, <1>2, <2>1, <2>2 DEF RTypeInv
<1>7. Counted'
  BY <1>1, <1>2, <1>5 DEF Counted
<1>8. call.op = "bounded" /\ input.taken <= MaxInt32
  BY <1>1, CallFacts DEF BoundedPosition, Counted
<1>9. BytesReadExact'
  BY <1>2, <1>7, <1>8 DEF BytesReadExact, Counted
<1>10. ErrorCountsWrites'
  <2>1. err.kind # "none" =>
          touched = 0 .. (IF InSingleFooter THEN err.points ELSE err.points - 1)
    BY <1>1 DEF BoundedPosition
  <2>2. touched \subseteq 0 .. call.len - 1
    BY <1>1 DEF BoundedPosition
  <2>3. err'.kind # "none" => err' = err /\ InSingleFooter' = InSingleFooter
    BY <1>2, <1>3 DEF InSingleFooter, FrameLength
  <2> QED
    BY <1>2, <1>8, <2>1, <2>2, <2>3 DEF ErrorCountsWrites, Succeeded, Failed
<1> QED
  BY <1>2, <1>6, <1>7, <1>9, <1>10 DEF RInv, SinglePCs, PreamblePCs, FramePCs, Returned

-----------------------------------------------------------------------------
(* The steps of DeserializeSlice *)

(* Returning early from DeserializeSlice, before anything is written. *)
LEMMA EarlyReturn ==
  ASSUME RInv, pc \in PreamblePCs, NEW n \in Nat, NEW kind \in ErrorKinds,
         NEW partial \in BOOLEAN, FailEarly(n, kind, partial), kind # "none",
         input' \in [left : Nat, taken : Nat, end : {"EOF", "IOErr"}],
         input'.taken = input.taken + n, input.taken + n <= MaxInt32,
         UNCHANGED <<fmt, call, i, size, sub, touched>>
  PROVE  RInv'
<1>1. PreamblePosition /\ RTypeInv /\ Counted
  BY DEF RInv
<1>2. /\ ret' = [ret EXCEPT !.bytesRead = @ + n, !.output = "dummy"]
      /\ err' = [kind |-> kind, partial |-> partial, points |-> 0]
      /\ pc' = "done"
  BY DEF FailEarly, Fail
<1>3. /\ ret' \in [bytesRead : Nat, pointsWritten : Nat, output : {"unset", "dummy", "slice"}]
      /\ ret'.bytesRead = ret.bytesRead + n
  <2>1. ret \in [bytesRead : Nat, pointsWritten : Nat, output : {"unset", "dummy", "slice"}]
    BY <1>1 DEF RTypeInv
  <2>2. ret.bytesRead + n \in Nat
    BY <2>1
  <2>3. ret' = [bytesRead |-> ret.bytesRead + n, pointsWritten |-> ret.pointsWritten,
                output |-> "dummy"]
    BY <1>2, <2>1
  <2> QED
    BY <2>1, <2>2, <2>3
<1>4. RTypeInv' /\ err'.kind # "none" /\ err'.points = 0
  BY <1>1, <1>2, <1>3 DEF RTypeInv
<1>5. Counted'
  BY <1>1, <1>3, CallFacts DEF Counted
<1>6. BytesReadExact'
  BY <1>4, <1>5 DEF BytesReadExact, Counted, Succeeded
<1>7. ErrorCountsWrites'
  <2>1. touched' = {} /\ 0 .. err'.points - 1 = {}
    BY <1>1, <1>4 DEF PreamblePosition, Written
  <2> QED
    BY <1>1, <1>4, <2>1
    DEF ErrorCountsWrites, Succeeded, Failed, InSingleFooter, PreamblePosition
<1> QED
  BY <1>2, <1>4, <1>5, <1>6, <1>7 DEF RInv, SinglePCs, PreamblePCs, FramePCs, Returned

LEMMA SliceHeaderKeeps ==
  ASSUME RInv, NEW r \in ConsumeExpectRead(fmt.sliceHeader), ReadSliceHeader(r)
  PROVE  RInv'
<1>1. pc = "sliceHeader" /\ PreamblePosition /\ RTypeInv /\ Counted
  BY DEF RInv, ReadSliceHeader, PreamblePCs
<1>2. /\ fmt.sliceHeader \in Nat /\ fmt.sliceHeader <= MaxInt32
      /\ MaxInt32 \in Nat
  BY <1>1, CallFacts, LengthsAssumption DEF Format, FormatValid, HeaderValid
<1>3. Yields(r, fmt.sliceHeader)
  BY <1>1, <1>2, ReadFacts
<1>4. /\ input' \in [left : Nat, taken : Nat, end : {"EOF", "IOErr"}]
      /\ input'.taken = input.taken + r.n
  BY <1>1, <1>3, TakeFacts DEF ReadSliceHeader, Yields
<1>5. input.taken = 0
  BY <1>1, CallFacts DEF PreamblePosition, Counted
<1>6. UNCHANGED <<fmt, call, i, size, sub, touched>>
  BY DEF ReadSliceHeader
<1>7. CASE r.kind = "none"
  <2>1. ret' = [ret EXCEPT !.bytesRead = r.n] /\ pc' = "sliceSize" /\ err' = err
    BY <1>7 DEF ReadSliceHeader
  <2>2. r.n = fmt.sliceHeader
    BY <1>3, <1>7 DEF Yields
  <2>3. /\ ret'.bytesRead = fmt.sliceHeader
        /\ ret' \in [bytesRead : Nat, pointsWritten : Nat, output : {"unset", "dummy", "slice"}]
    BY <1>1, <1>2, <2>1, <2>2 DEF RTypeInv
  <2>4. RTypeInv'
    BY <1>1, <1>4, <1>6, <2>1, <2>3 DEF RTypeInv, PreamblePCs
  <2>5. Counted'
    BY <1>1, <1>2, <1>4, <1>5, <1>6, <2>2, <2>3 DEF Counted, PreamblePosition
  <2>6. PreamblePosition'
    BY <1>1, <1>6, <2>1, <2>3 DEF PreamblePosition, Written
  <2> QED
    BY <2>1, <2>4, <2>5, <2>6 DEF RInv, SinglePCs, PreamblePCs, FramePCs, Returned
<1>8. CASE r.kind # "none"
  <2>1. FailEarly(r.n, r.kind, r.n # 0)
    BY <1>8 DEF ReadSliceHeader
  <2>2. r.n \in Nat /\ r.kind \in ErrorKinds /\ (r.n # 0) \in BOOLEAN
    BY <1>3 DEF Yields, ErrorKinds
  <2>3. input.taken + r.n <= MaxInt32
    BY <1>2, <1>3, <1>5 DEF Yields
  <2> QED
    BY <1>1, <1>4, <1>6, <1>8, <2>1, <2>2, <2>3, EarlyReturn DEF PreamblePCs
<1> QED
  BY <1>7, <1>8

LEMMA SliceSizeKeeps ==
  ASSUME RInv, NEW v \in SizeFieldValues, ReadSliceSize(v)
  PROVE  RInv'
<1> DEFINE n == Got(SizeField)
<1>1. pc = "sliceSize" /\ PreamblePosition /\ RTypeInv /\ Counted
  BY DEF RInv, ReadSliceSize, PreamblePCs
<1>2. /\ fmt.sliceHeader \in Nat /\ fmt.sliceHeader + SizeField <= MaxInt32
      /\ MaxInt32 \in Nat /\ SizeField \in Nat
  BY <1>1, CallFacts, LengthsAssumption DEF Format, FormatValid, HeaderValid
<1>3. /\ n \in Nat /\ n <= SizeField /\ n <= input.left
      /\ ~ Short(SizeField) => n = SizeField
      /\ Short(SizeField) => UnexpectEOF(ReadFullKind(SizeField)) \in ErrorKinds \ {"none"}
  BY <1>1, <1>2, CallFacts
  DEF Got, Short, ReadFullKind, UnexpectEOF, ErrorKinds, ReadKinds
<1>4. /\ input' \in [left : Nat, taken : Nat, end : {"EOF", "IOErr"}]
      /\ input'.taken = input.taken + n
  BY <1>1, <1>3, TakeFacts DEF ReadSliceSize
<1>5. /\ ret.bytesRead = fmt.sliceHeader /\ input.taken = fmt.sliceHeader
      /\ input.taken + n <= MaxInt32
  BY <1>1, <1>2, <1>3, CallFacts DEF PreamblePosition, Counted
<1>6. UNCHANGED <<fmt, call, i, sub, touched>>
  BY DEF ReadSliceSize
<1>7. ASSUME NEW kind \in ErrorKinds \ {"none"}, FailEarly(n, kind, ret.bytesRead + n # 0),
             UNCHANGED size
      PROVE  RInv'
  <2>1. (ret.bytesRead + n # 0) \in BOOLEAN
    OBVIOUS
  <2> HIDE DEF n
  <2> QED
    BY <1>1, <1>3, <1>4, <1>5, <1>6, <1>7, <2>1, EarlyReturn DEF PreamblePCs
<1>8. CASE Short(SizeField)
  BY <1>3, <1>7, <1>8 DEF ReadSliceSize
<1>9. CASE ~ Short(SizeField) /\ SizeTooLarge(v)
  BY <1>7, <1>9 DEF ReadSliceSize, ErrorKinds, ReadKinds
<1>10. CASE ~ Short(SizeField) /\ ~ SizeTooLarge(v)
  <2>1. /\ size' = v /\ ret' = [ret EXCEPT !.bytesRead = @ + n]
        /\ pc' = "sliceMaker" /\ err' = err
    BY <1>10 DEF ReadSliceSize
  <2>2. v \in Nat /\ v <= MaxInt32
    BY <1>2, <1>10 DEF SizeFieldValues, SizeTooLarge
  <2>3. n = SizeField
    BY <1>3, <1>10
  <2>4. /\ ret'.bytesRead = fmt.sliceHeader + SizeField
        /\ ret' \in [bytesRead : Nat, pointsWritten : Nat, output : {"unset", "dummy", "slice"}]
    BY <1>1, <1>2, <1>5, <2>1, <2>3 DEF RTypeInv
  <2>5. RTypeInv'
    BY <1>1, <1>4, <1>6, <2>1, <2>2, <2>4 DEF RTypeInv, PreamblePCs
  <2>6. Counted'
    BY <1>1, <1>2, <1>4, <1>5, <1>6, <2>3, <2>4 DEF Counted, PreamblePosition
  <2>7. PreamblePosition'
    BY <1>1, <1>6, <2>1, <2>2, <2>4 DEF PreamblePosition, Written
  <2> QED
    BY <2>1, <2>5, <2>6, <2>7 DEF RInv, SinglePCs, PreamblePCs, FramePCs, Returned
<1> QED
  BY <1>8, <1>9, <1>10

LEMMA MakeSliceKeeps ==
  ASSUME RInv, MakeSlice
  PROVE  RInv'
<1>1. pc = "sliceMaker" /\ PreamblePosition /\ RTypeInv /\ Counted
  BY DEF RInv, MakeSlice, PreamblePCs
<1>2. /\ ret.bytesRead = fmt.sliceHeader + SizeField
      /\ i = 0 /\ Written(0) /\ sub.n = 0 /\ err.kind = "none" /\ call.op = "slice"
      /\ size \in Nat /\ size <= MaxInt32
      /\ fmt.sliceHeader \in Nat /\ SizeField \in Nat
      /\ input.taken \in Nat /\ input.taken <= MaxInt32
  BY <1>1, CallFacts, LengthsAssumption
  DEF PreamblePosition, Counted, RTypeInv, Format, FormatValid, HeaderValid
<1>3. UNCHANGED <<fmt, call, input, i, size, sub, touched>>
  BY DEF MakeSlice
<1>4. ASSUME NEW kind \in ErrorKinds \ {"none"}, FailEarly(0, kind, TRUE)
      PROVE  RInv'
  <2>1. /\ input' \in [left : Nat, taken : Nat, end : {"EOF", "IOErr"}]
        /\ input'.taken = input.taken + 0 /\ input.taken + 0 <= MaxInt32
    BY <1>1, <1>2, <1>3 DEF RTypeInv
  <2> QED
    BY <1>1, <1>3, <1>4, <2>1, EarlyReturn DEF PreamblePCs
<1>5. CASE SliceOutputLength(fmt, size).overflow
  BY <1>4, <1>5 DEF MakeSlice, ErrorKinds
<1>6. CASE BufferTooSmall /\ ~ SliceOutputLength(fmt, size).overflow
  BY <1>4, <1>6 DEF MakeSlice, ErrorKinds
<1>7. CASE ~ BufferTooSmall /\ ~ SliceOutputLength(fmt, size).overflow
  <2>1. /\ ret' = [ret EXCEPT !.output = "slice"] /\ err' = err
        /\ pc' = AfterSlicePoints(0, size)
    BY <1>7 DEF MakeSlice
  <2>2. SliceLength(fmt, size) <= MaxInt32
    BY <1>1, <1>2, <1>7, CallFacts, SliceOutputLengthExact
  <2>3. call.maker = "existing" => size <= call.len
    BY <1>1, <1>2, <1>7, CallFacts DEF BufferTooSmall
  <2>4. /\ pc' \in {"perPointHeader", "sliceFooter"}
        /\ pc' = "sliceFooter" => 0 = size
        /\ pc' # "sliceFooter" => 0 < size
    BY <1>2, <2>1 DEF AfterSlicePoints
  <2>5. /\ ret'.bytesRead = ret.bytesRead
        /\ ret' \in [bytesRead : Nat, pointsWritten : Nat, output : {"unset", "dummy", "slice"}]
    BY <1>1, <2>1 DEF RTypeInv
  <2>6. RTypeInv' /\ Counted'
    BY <1>1, <1>3, <2>1, <2>4, <2>5 DEF RTypeInv, Counted, FramePCs
  <2>7. BeforePoint = fmt.sliceHeader + SizeField
    BY <1>1, <1>2, CallFacts DEF BeforePoint
  <2>8. FramePosition'
    BY <1>2, <1>3, <2>1, <2>2, <2>3, <2>4, <2>5, <2>7 DEF FramePosition, Written, BeforePoint
  <2> QED
    BY <2>4, <2>6, <2>8 DEF RInv, SinglePCs, PreamblePCs, FramePCs, Returned
<1> QED
  BY <1>5, <1>6, <1>7

(* Before the point i, the slice holds that point and the rest. *)
LEMMA SliceBound ==
  ASSUME RTypeInv, FramePosition
  PROVE  /\ BeforePoint \in Nat
         /\ fmt.perPointHeader \in Nat /\ fmt.point \in Nat /\ fmt.perPointFooter \in Nat
         /\ fmt.sliceFooter \in Nat
         /\ BeforePoint + SliceFrameLength(fmt)
              = fmt.sliceHeader + SizeField + (i + 1) * SliceFrameLength(fmt)
         /\ SliceFrameLength(fmt) = fmt.perPointHeader + fmt.point + fmt.perPointFooter
         /\ i < size => BeforePoint + SliceFrameLength(fmt) <= MaxInt32
         /\ i = size => BeforePoint + fmt.sliceFooter = SliceLength(fmt, size)
         /\ SliceOutputLength(fmt, size).ret = SliceLength(fmt, size)
<1>1. /\ fmt.perPointHeader \in Nat /\ fmt.point \in Nat /\ fmt.perPointFooter \in Nat
      /\ fmt.sliceFooter \in Nat /\ fmt.sliceHeader \in Nat
      /\ i \in Nat /\ size \in Nat /\ SizeField \in Nat /\ MaxInt32 \in Nat
  BY CallFacts, LengthsAssumption DEF Format, RTypeInv
<1>2. /\ SliceFrameLength(fmt) \in Nat
      /\ i * SliceFrameLength(fmt) \in Nat /\ size * SliceFrameLength(fmt) \in Nat
      /\ (i + 1) * SliceFrameLength(fmt) = i * SliceFrameLength(fmt) + SliceFrameLength(fmt)
  BY <1>1, CallFacts
<1>3. i < size =>
        i * SliceFrameLength(fmt) + SliceFrameLength(fmt) <= size * SliceFrameLength(fmt)
  BY <1>1, <1>2, FramesBound
<1>4. size <= MaxInt32 /\ SliceLength(fmt, size) <= MaxInt32
  BY DEF FramePosition
<1>5. SliceOutputLength(fmt, size).ret = SliceLength(fmt, size)
  BY <1>1, <1>4, CallFacts, SliceOutputLengthExact
<1>6. SliceLength(fmt, size)
        = fmt.sliceHeader + SizeField + size * SliceFrameLength(fmt) + fmt.sliceFooter
  BY DEF SliceLength
<1>7. SliceFrameLength(fmt) = fmt.perPointHeader + fmt.point + fmt.perPointFooter
  BY <1>1 DEF SliceFrameLength
<1> QED
  BY <1>1, <1>2, <1>3, <1>4, <1>5, <1>6, <1>7 DEF BeforePoint

(* A read inside the slice, and what it leaves alone. *)
LEMMA ConsumeFacts ==
  ASSUME RInv, pc \in FramePCs, NEW n \in Nat, NEW r, Yields(r, n), Consume(r),
         UNCHANGED <<fmt, call, size, sub>>
  PROVE  /\ RTypeInv /\ FramePosition
         /\ input' \in [left : Nat, taken : Nat, end : {"EOF", "IOErr"}]
         /\ ret' \in [bytesRead : Nat, pointsWritten : Nat, output : {"unset", "dummy", "slice"}]
         /\ ret'.bytesRead = ret.bytesRead + r.n
         /\ r.n \in Nat /\ r.n <= n /\ r.kind \in ReadKinds /\ r.partial \in BOOLEAN
         /\ r.kind = "none" => r.n = n
         /\ Counted'
         /\ input'.taken = ret'.bytesRead
<1>1. RTypeInv /\ FramePosition /\ Counted
  BY DEF RInv
<1>2. r.n \in Nat /\ r.n <= input.left
  BY DEF Yields
<1>3. /\ input' \in [left : Nat, taken : Nat, end : {"EOF", "IOErr"}]
      /\ input'.taken = input.taken + r.n
  BY <1>1, <1>2, TakeFacts DEF Consume
<1>4. /\ ret' \in [bytesRead : Nat, pointsWritten : Nat, output : {"unset", "dummy", "slice"}]
      /\ ret'.bytesRead = ret.bytesRead + r.n
  <2>1. ret \in [bytesRead : Nat, pointsWritten : Nat, output : {"unset", "dummy", "slice"}]
    BY <1>1 DEF RTypeInv
  <2>2. ret' = [ret EXCEPT !.bytesRead = ret.bytesRead + r.n]
    BY DEF Consume
  <2>3. ret.bytesRead + r.n \in Nat
    BY <1>2, <2>1
  <2> QED
    BY <2>1, <2>2, <2>3
<1>5. sub.n = 0 /\ ret.bytesRead \in Nat /\ sub' = sub /\ input.taken = ret.bytesRead
  BY <1>1, CallFacts DEF FramePosition, Counted
<1>6. Counted' /\ input'.taken = ret'.bytesRead
  BY <1>2, <1>3, <1>4, <1>5 DEF Counted
<1> QED
  BY <1>1, <1>3, <1>4, <1>6 DEF Yields

(* Returning an error after points elements have been written. *)
LEMMA FrameReturn ==
  ASSUME RInv, pc \in FramePCs, NEW n \in Nat, NEW r, Yields(r, n), Consume(r),
         UNCHANGED <<fmt, call, size, sub, i>>,
         ret.bytesRead + r.n <= MaxInt32,
         NEW kind \in ErrorKinds \ {"none"}, NEW partial \in BOOLEAN, NEW points \in Nat,
         \/ pc' = "done" /\ Fail(kind, partial, points)
         \/ pc' = "panicked" /\ err' = err,
         points <= size, touched' = 0 .. points - 1
  PROVE  RInv'
<1>1. /\ RTypeInv /\ FramePosition
      /\ input' \in [left : Nat, taken : Nat, end : {"EOF", "IOErr"}]
      /\ ret' \in [bytesRead : Nat, pointsWritten : Nat, output : {"unset", "dummy", "slice"}]
      /\ ret'.bytesRead = ret.bytesRead + r.n
      /\ Counted' /\ input'.taken = ret'.bytesRead
  BY ConsumeFacts
<1>2. pc' = "done" => err'.kind # "none" /\ err'.points = points
  BY DEF Fail
<1>3. RTypeInv'
  <2>1. err' \in [kind : ErrorKinds, partial : BOOLEAN, points : Nat]
    BY <1>1 DEF Fail, RTypeInv
  <2> QED
    BY <1>1, <2>1 DEF RTypeInv
<1>4. BytesReadExact'
  BY <1>1, <1>2 DEF BytesReadExact, Counted, Succeeded
<1>5. ErrorCountsWrites'
  <2>1. call.maker = "existing" => touched' \subseteq 0 .. call.len - 1
    BY <1>1, CallFacts, SMTT(30) DEF FramePosition, RTypeInv
  <2> QED
    BY <1>1, <1>2, <2>1
    DEF ErrorCountsWrites, Succeeded, Failed, InSingleFooter, FramePosition
<1> QED
  BY <1>1, <1>3, <1>4, <1>5 DEF RInv, SinglePCs, PreamblePCs, FramePCs, Returned

LEMMA PerPointHeaderKeeps ==
  ASSUME RInv, NEW r \in ConsumeExpectRead(fmt.perPointHeader), ReadPerPointHeader(r)
  PROVE  RInv'
<1>1. pc = "perPointHeader" /\ FramePosition /\ RTypeInv
  BY DEF RInv, ReadPerPointHeader, FramePCs
<1>2. Yields(r, fmt.perPointHeader) /\ Consume(r) /\ fmt.perPointHeader \in Nat
  BY <1>1, SliceBound, ReadFacts DEF ReadPerPointHeader
<1>3. UNCHANGED <<fmt, call, i, size, sub, touched>>
  BY DEF ReadPerPointHeader
<1>4. /\ input' \in [left : Nat, taken : Nat, end : {"EOF", "IOErr"}]
      /\ ret' \in [bytesRead : Nat, pointsWritten : Nat, output : {"unset", "dummy", "slice"}]
      /\ ret'.bytesRead = ret.bytesRead + r.n
      /\ r.n \in Nat /\ r.n <= fmt.perPointHeader /\ r.kind \in ReadKinds
      /\ r.kind = "none" => r.n = fmt.perPointHeader
      /\ Counted'
  BY <1>1, <1>2, <1>3, ConsumeFacts DEF FramePCs
<1>5. /\ ret.bytesRead = BeforePoint /\ Written(i) /\ i < size /\ i \in Nat /\ size \in Nat
  BY <1>1 DEF FramePosition, RTypeInv
<1>6. CASE r.kind = "none"
  <2>1. pc' = "point" /\ err' = err
    BY <1>6 DEF ReadPerPointHeader
  <2>2. RTypeInv'
    BY <1>1, <1>3, <1>4, <2>1 DEF RTypeInv, FramePCs
  <2>3. BeforePoint' = BeforePoint
    BY <1>3 DEF BeforePoint
  <2>4. FramePosition'
    BY <1>1, <1>3, <1>4, <1>5, <1>6, <2>1, <2>3 DEF FramePosition, Written
  <2> QED
    BY <1>4, <2>1, <2>2, <2>4 DEF RInv, SinglePCs, PreamblePCs, FramePCs, Returned
<1>7. CASE r.kind # "none"
  <2>1. pc' = "done" /\ Fail(r.kind, TRUE, i)
    BY <1>7 DEF ReadPerPointHeader
  <2>2. ret.bytesRead + r.n <= MaxInt32
    BY <1>1, <1>4, <1>5, SliceBound, LengthsAssumption
  <2>3. r.kind \in ErrorKinds \ {"none"} /\ i <= size /\ touched' = 0 .. i - 1
    BY <1>3, <1>4, <1>5, <1>7 DEF ErrorKinds, Written
  <2> QED
    BY <1>1, <1>2, <1>3, <1>5, <2>1, <2>2, <2>3, FrameReturn DEF FramePCs
<1> QED
  BY <1>6, <1>7

LEMMA PointKeeps ==
  ASSUME RInv, NEW r \in BasicRead(fmt.point), ReadPoint(r)
  PROVE  RInv'
<1>1. pc = "point" /\ FramePosition /\ RTypeInv
  BY DEF RInv, ReadPoint, FramePCs
<1>2. Yields(r, fmt.point) /\ Consume(r) /\ fmt.point \in Nat
  BY <1>1, SliceBound, ReadFacts DEF ReadPoint
<1>3. UNCHANGED <<fmt, call, i, size, sub>>
  BY DEF ReadPoint
<1>4. /\ input' \in [left : Nat, taken : Nat, end : {"EOF", "IOErr"}]
      /\ ret' \in [bytesRead : Nat, pointsWritten : Nat, output : {"unset", "dummy", "slice"}]
      /\ ret'.bytesRead = ret.bytesRead + r.n
      /\ r.n \in Nat /\ r.n <= fmt.point /\ r.kind \in ReadKinds /\ r.partial \in BOOLEAN
      /\ r.kind = "none" => r.n = fmt.point
      /\ Counted'
  BY <1>1, <1>2, <1>3, ConsumeFacts DEF FramePCs
<1>5. /\ ret.bytesRead = BeforePoint + fmt.perPointHeader
      /\ Written(i) /\ i < size /\ i \in Nat /\ size \in Nat
  BY <1>1 DEF FramePosition, RTypeInv
<1>6. CASE r.kind = "none"
  <2>1. pc' = "perPointFooter" /\ err' = err /\ touched' = touched \cup {i}
    BY <1>6 DEF ReadPoint
  <2>2. RTypeInv'
    BY <1>1, <1>3, <1>4, <2>1 DEF RTypeInv, FramePCs
  <2>3. BeforePoint' = BeforePoint
    BY <1>3 DEF BeforePoint
  <2>4. Written(i + 1)'
    BY <1>3, <1>5, <2>1, NextWritten DEF Written
  <2>5. ret'.bytesRead = BeforePoint + fmt.perPointHeader + fmt.point
    BY <1>4, <1>5, <1>6
  <2>6. FramePosition'
    BY <1>1, <1>3, <1>5, <2>1, <2>3, <2>4, <2>5 DEF FramePosition
  <2> QED
    BY <1>4, <2>1, <2>2, <2>6 DEF RInv, SinglePCs, PreamblePCs, FramePCs, Returned
<1>7. CASE r.kind # "none"
  <2>1. PICK partial \in BOOLEAN :
          /\ touched' = touched
          /\ \/ pc' = "done" /\ Fail(r.kind, partial, i)
             \/ pc' = "panicked" /\ err' = err
    <3>1. (i # size \/ fmt.perPointFooter # 0 \/ r.n = 0 \/ r.partial) \in BOOLEAN
      OBVIOUS
    <3> QED
      BY <1>7, <3>1 DEF ReadPoint
  <2>2. ret.bytesRead + r.n <= MaxInt32
    BY <1>1, <1>4, <1>5, SliceBound, LengthsAssumption
  <2>3. r.kind \in ErrorKinds \ {"none"} /\ i <= size /\ touched' = 0 .. i - 1
    BY <1>4, <1>5, <1>7, <2>1 DEF ErrorKinds, Written
  <2> QED
    BY <1>1, <1>2, <1>3, <1>5, <2>1, <2>2, <2>3, FrameReturn DEF FramePCs
<1> QED
  BY <1>6, <1>7

LEMMA PerPointFooterKeeps ==
  ASSUME RInv, NEW r \in ConsumeExpectRead(fmt.perPointFooter), ReadPerPointFooter(r)
  PROVE  RInv'
<1>1. pc = "perPointFooter" /\ FramePosition /\ RTypeInv
  BY DEF RInv, ReadPerPointFooter, FramePCs
<1>2. Yields(r, fmt.perPointFooter) /\ Consume(r) /\ fmt.perPointFooter \in Nat
  BY <1>1, SliceBound, ReadFacts DEF ReadPerPointFooter
<1>3. UNCHANGED <<fmt, call, size, sub, touched>>
  BY DEF ReadPerPointFooter
<1>4. /\ input' \in [left : Nat, taken : Nat, end : {"EOF", "IOErr"}]
      /\ ret' \in [bytesRead : Nat, pointsWritten : Nat, output : {"unset", "dummy", "slice"}]
      /\ ret'.bytesRead = ret.bytesRead + r.n
      /\ r.n \in Nat /\ r.n <= fmt.perPointFooter /\ r.kind \in ReadKinds
      /\ r.kind = "none" => r.n = fmt.perPointFooter
      /\ Counted'
  BY <1>1, <1>2, <1>3, ConsumeFacts DEF FramePCs
<1>5. /\ ret.bytesRead = BeforePoint + fmt.perPointHeader + fmt.point
      /\ Written(i + 1) /\ i < size /\ i \in Nat /\ size \in Nat
  BY <1>1 DEF FramePosition, RTypeInv
<1>6. CASE r.kind = "none"
  <2>1. pc' = AfterSlicePoints(i + 1, size) /\ err' = err /\ i' = i + 1
    BY <1>6 DEF ReadPerPointFooter
  <2>2. /\ pc' \in {"perPointHeader", "sliceFooter"}
        /\ IF pc' = "sliceFooter" THEN i' = size ELSE i' < size
    BY <1>5, <2>1 DEF AfterSlicePoints
  <2>3. RTypeInv'
    BY <1>1, <1>3, <1>4, <1>5, <2>1, <2>2 DEF RTypeInv, FramePCs
  <2>4. ret'.bytesRead = BeforePoint + SliceFrameLength(fmt)
    BY <1>1, <1>4, <1>5, <1>6, SliceBound
  <2>5. ret'.bytesRead = BeforePoint'
    BY <1>1, <1>3, <2>1, <2>4, SliceBound DEF BeforePoint
  <2>6. FramePosition'
    BY <1>1, <1>3, <1>5, <2>1, <2>2, <2>5 DEF FramePosition, Written
  <2> QED
    BY <1>4, <2>2, <2>3, <2>6 DEF RInv, SinglePCs, PreamblePCs, FramePCs, Returned
<1>7. CASE r.kind # "none"
  <2>1. pc' = "done" /\ Fail(r.kind, TRUE, i + 1) /\ i' = i
    BY <1>7 DEF ReadPerPointFooter
  <2>2. ret.bytesRead + r.n <= MaxInt32
    BY <1>1, <1>4, <1>5, SliceBound, LengthsAssumption
  <2>3. /\ r.kind \in ErrorKinds \ {"none"} /\ i + 1 \in Nat /\ i + 1 <= size
        /\ touched' = 0 .. (i + 1) - 1
    BY <1>3, <1>4, <1>5, <1>7 DEF ErrorKinds, Written
  <2> QED
    BY <1>1, <1>2, <1>3, <2>1, <2>2, <2>3, FrameReturn DEF FramePCs
<1> QED
  BY <1>6, <1>7

LEMMA SliceFooterKeeps ==
  ASSUME RInv, NEW r \in ConsumeExpectRead(fmt.sliceFooter), ReadSliceFooter(r)
  PROVE  RInv'
<1>1. pc = "sliceFooter" /\ FramePosition /\ RTypeInv
  BY DEF RInv, ReadSliceFooter, FramePCs
<1>2. Yields(r, fmt.sliceFooter) /\ Consume(r) /\ fmt.sliceFooter \in Nat
  BY <1>1, SliceBound, ReadFacts DEF ReadSliceFooter
<1>3. UNCHANGED <<fmt, call, i, size, sub, touched>> /\ pc' = "done"
  BY DEF ReadSliceFooter
<1>4. /\ input' \in [left : Nat, taken : Nat, end : {"EOF", "IOErr"}]
      /\ ret' \in [bytesRead : Nat, pointsWritten : Nat, output : {"unset", "dummy", "slice"}]
      /\ ret'.bytesRead = ret.bytesRead + r.n
      /\ r.n \in Nat /\ r.n <= fmt.sliceFooter /\ r.kind \in ReadKinds /\ r.partial \in BOOLEAN
      /\ r.kind = "none" => r.n = fmt.sliceFooter
      /\ Counted' /\ input'.taken = ret'.bytesRead
  BY <1>1, <1>2, <1>3, ConsumeFacts DEF FramePCs
<1>5. /\ ret.bytesRead = BeforePoint /\ Written(i) /\ i = size /\ size \in Nat
      /\ call.op = "slice" /\ err.kind = "none"
      /\ call.maker = "existing" => size <= call.len
  BY <1>1 DEF FramePosition, RTypeInv
<1>6. /\ ret.bytesRead + fmt.sliceFooter = SliceLength(fmt, size)
      /\ SliceLength(fmt, size) <= MaxInt32
      /\ SliceOutputLength(fmt, size).ret = SliceLength(fmt, size)
  BY <1>1, <1>5, SliceBound DEF FramePosition
<1>7. BeforePoint \in Nat /\ MaxInt32 \in Nat
  BY <1>1, SliceBound, LengthsAssumption
<1>8. CASE r.kind = "none"
  <2>1. err' = err
    BY <1>8 DEF ReadSliceFooter
  <2>2. RTypeInv'
    BY <1>1, <1>3, <1>4, <2>1 DEF RTypeInv
  <2>3. BytesReadExact'
    BY <1>3, <1>4, <1>5, <1>6, <1>8 DEF BytesReadExact, Counted, Succeeded
  <2>4. touched = 0 .. size - 1
    BY <1>5 DEF Written
  <2>5. call.maker = "existing" => touched \subseteq 0 .. call.len - 1
    BY <1>1, <1>5, <2>4, CallFacts
  <2>6. ErrorCountsWrites'
    BY <1>3, <1>5, <2>1, <2>4, <2>5 DEF ErrorCountsWrites, Succeeded, Failed
  <2> QED
    BY <1>3, <1>4, <2>2, <2>3, <2>6 DEF RInv, SinglePCs, PreamblePCs, FramePCs, Returned
<1>9. CASE r.kind # "none"
  <2>1. Fail(r.kind, r.partial, size)
    BY <1>9 DEF ReadSliceFooter
  <2>2. ret.bytesRead + r.n <= MaxInt32
    BY <1>2, <1>4, <1>5, <1>6, <1>7
  <2>3. r.kind \in ErrorKinds \ {"none"} /\ size <= size /\ touched' = 0 .. size - 1
    BY <1>3, <1>4, <1>5, <1>9 DEF ErrorKinds, Written
  <2> QED
    BY <1>1, <1>2, <1>3, <1>4, <1>5, <2>1, <2>2, <2>3, FrameReturn DEF FramePCs
<1> QED
  BY <1>8, <1>9

-----------------------------------------------------------------------------
LEMMA PositionKept ==
  ASSUME RInv, [Next]_vars
  PROVE  RInv'
<1>1. CASE UNCHANGED vars
  BY <1>1
  DEF vars, RInv, RTypeInv, Counted, NothingDone, SinglePosition, BoundedPosition,
      PreamblePosition, FramePosition, BeforePoint, Written, Returned,
      BytesReadExact, ErrorCountsWrites, InSingleFooter, PointDone, FrameLength,
      Succeeded, Failed
<1>2. CASE Finished
  BY <1>1, <1>2 DEF Finished
<1> QED
  BY <1>1, <1>2, StartKeeps, SingleHeaderKeeps, SinglePointKeeps, SingleFooterKeeps,
     ReturnPointKeeps, ReturnToLoopKeeps, BoundedReturnKeeps, SliceHeaderKeeps,
     SliceSizeKeeps, MakeSliceKeeps, PerPointHeaderKeeps, PointKeeps,
     PerPointFooterKeeps, SliceFooterKeeps
  DEF Next

(* Every step of a reader keeps its position in the format, for formats,    *)
(* buffers and streams of any size.                                         *)
THEOREM ReaderInvariance == Spec => []RInv
BY PositionKept, InitEstablishes, PTL DEF Spec

(* The number of bytes that the readers return is exact, on all paths, and  *)
(* is that of the format on success; no stream makes it exceed an int32.    *)
THEOREM BytesReadCorrect == Spec => []BytesReadExact
BY ReaderInvariance, Underway, PTL

(* The number of points in an error is that of the elements written, up to  *)
(* one whose footer is bad, and nothing beyond the end of a buffer is       *)
(* written.                                                                 *)
THEOREM WritesCounted == Spec => []ErrorCountsWrites
BY ReaderInvariance, Underway, PTL
-----------------------------------------------------------------------------
(* Where errors leave the stream *)

(* What the inner DeserializeCurvePoint returns for the point i: PartialRead *)
(* unless the point was read completely or not at all, and EOF for the end   *)
(* of the stream before its first byte.                                      *)
SubAligned ==
  /\ sub.partial <=> sub.n \notin {0, FrameLength(fmt)}
  /\ sub.n = 0 => Written(i)
  /\ sub.kind = "EOF" => sub.n = 0
  /\ sub.kind \in {"EOF", "UnexpectedEOF"} =>
       input.left = 0 /\ input.end = "EOF" /\ sub.n < FrameLength(fmt)

(* The error that DeserializeCurvePoints hands to the Bounded variant. *)
LoopAligned ==
  /\ err.partial <=> ret.bytesRead \notin FrameBoundaries
  /\ err.kind = "EOF" => ret.bytesRead = 0
  /\ SwallowsError =>
       /\ input.left = 0 /\ input.end = "EOF"
       /\ ret.bytesRead = err.points * FrameLength(fmt)
       /\ Written(err.points)

AInv ==
  /\ pc = "singleReturn" => SubAligned
  /\ pc = "boundedReturn" => (err.kind # "none" => LoopAligned)
  /\ PartialReadIffMisaligned
  /\ EOFReported
(* The multiples of c among the lengths of k whole frames and a part. *)
LEMMA FrameBoundary ==
  ASSUME NEW c \in Nat, NEW k \in Nat, NEW m \in Nat, k < m, NEW n \in Nat, n <= c
  PROVE  k * c + n \in {x * c : x \in 0 .. m} <=> n \in {0, c}
<1>1. k * c \in Nat /\ (k + 1) * c = k * c + c
  BY FramesBound
<1>2. ASSUME n \in {0, c} PROVE k * c + n \in {x * c : x \in 0 .. m}
  <2>1. k \in 0 .. m /\ k + 1 \in 0 .. m
    OBVIOUS
  <2>2. k * c + n = k * c \/ k * c + n = (k + 1) * c
    BY <1>1, <1>2
  <2> QED
    BY <2>1, <2>2
<1>3. ASSUME NEW x \in 0 .. m, k * c + n = x * c PROVE n \in {0, c}
  <2>1. CASE x <= k
    <3>1. x * c <= k * c /\ x * c \in Nat
      BY <2>1, ProductBound
    <3> QED
      BY <1>1, <1>3, <3>1
  <2>2. CASE k + 1 <= x
    <3>1. (k + 1) * c <= x * c /\ x * c \in Nat
      BY <2>2, ProductBound
    <3> QED
      BY <1>1, <1>3, <3>1
  <2> QED
    BY <2>1, <2>2
<1> QED
  BY <1>2, <1>3

(* What the error of one read says of the stream. *)
Reports(r, n) ==
  /\ r.partial <=> r.n \notin {0, n}
  /\ r.kind \in {"EOF", "UnexpectedEOF"} =>
       input.end = "EOF" /\ r.n = input.left /\ r.n < n
  /\ r.kind = "EOF" => r.n = 0

LEMMA ReadReports ==
  ASSUME RTypeInv, NEW n \in Nat
  PROVE  /\ \A r \in ConsumeExpectRead(n) : Reports(r, n)
         /\ \A r \in BasicRead(n) : Reports(r, n)
<1>1. input.left \in Nat /\ input.end \in {"EOF", "IOErr"}
  BY DEF RTypeInv
<1>2. Short(n) => Reports(ShortRead(n), n)
  <2> SUFFICES ASSUME Short(n) PROVE Reports(ShortRead(n), n)
    OBVIOUS
  <2>1. /\ ShortRead(n).n = Got(n) /\ ShortRead(n).kind = ReadFullKind(n)
        /\ ShortRead(n).partial = (Got(n) # 0)
    BY DEF ShortRead
  <2>2. Got(n) = input.left /\ input.left < n
    BY <1>1 DEF Short, ReadFullKind, Got
  <2>3. /\ ReadFullKind(n) \in {"EOF", "UnexpectedEOF"} => input.end = "EOF"
        /\ ReadFullKind(n) = "EOF" => input.left = 0
    BY <1>1, <2>2 DEF ReadFullKind
  <2> HIDE DEF Short
  <2>4. (Got(n) # 0) = (Got(n) \notin {0, n})
    BY <1>1, <2>2
  <2> QED
    BY <2>1, <2>2, <2>3, <2>4 DEF Reports
<1>3. \A kind \in {"none", "Mismatch"} : Reports(FullRead(n, kind), n)
  BY DEF FullRead, Reports
<1>4. \A k \in 1 .. Got(n) : Reports([n |-> k, kind |-> "Invalid", partial |-> k # n], n)
  <2> SUFFICES ASSUME NEW k \in 1 .. Got(n)
               PROVE  Reports([n |-> k, kind |-> "Invalid", partial |-> k # n], n)
    OBVIOUS
  <2>1. k # 0
    BY <1>1 DEF Got
  <2>2. (k # n) = (k \notin {0, n})
    BY <2>1
  <2> QED
    BY <2>2 DEF Reports
<1>5. ASSUME NEW r \in ConsumeExpectRead(n) PROVE Reports(r, n)
  BY <1>2, <1>3 DEF ConsumeExpectRead
<1>6. ASSUME NEW r \in BasicRead(n) PROVE Reports(r, n)
  BY <1>2, <1>3, <1>4 DEF BasicRead
<1> QED
  BY <1>5, <1>6

(* No part is too short to be read. *)
LEMMA ZeroRead ==
  ASSUME RTypeInv, NEW n \in Nat, NEW r \in ConsumeExpectRead(n), r.kind # "none"
  PROVE  n # 0
<1>1. Short(n) => n # 0
  <2>1. input.left \in Nat
    BY DEF RTypeInv
  <2> QED
    BY <2>1 DEF Short, ReadFullKind
<1>2. FullRead(n, "none").kind = "none"
  BY DEF FullRead
<1> QED
  BY <1>1, <1>2 DEF ConsumeExpectRead

(* Before it has returned, a call has nothing to report. *)
LEMMA NotReturned ==
  ASSUME pc # "done"
  PROVE  PartialReadIffMisaligned /\ EOFReported
BY DEF PartialReadIffMisaligned, EOFReported, Failed, Succeeded

LEMMA SingleHeaderAligned ==
  ASSUME RInv, NEW r \in ConsumeExpectRead(fmt.singleHeader), ReadSingleHeader(r)
  PROVE  AInv'
<1>1. pc = "singleHeader" /\ SinglePosition /\ Written(i) /\ RTypeInv
  BY DEF RInv, ReadSingleHeader, SinglePCs, SinglePosition
<1>2. /\ fmt.singleHeader \in Nat /\ FrameLength(fmt) \in Nat
      /\ fmt.singleHeader < FrameLength(fmt)
  BY <1>1, CallFacts DEF Format, FrameLength
<1>3. Yields(r, fmt.singleHeader) /\ Reports(r, fmt.singleHeader) /\ r \in ReadResults
  BY <1>1, <1>2, ReadFacts, ReadReports, ConsumedIsRead
<1>4. input'.left = input.left - r.n /\ input'.end = input.end
  BY <1>1 DEF RTypeInv, ReadSingleHeader, Take
<1>5. /\ pc' \in {"singlePoint", "singleReturn"}
      /\ UNCHANGED <<fmt, call, i, size, ret, err, touched>>
  BY DEF ReadSingleHeader
<1>6. CASE pc' = "singleReturn"
  <2>1. r.kind # "none"
    BY <1>6 DEF ReadSingleHeader
  <2>2. CASE r.n > 0
    <3>1. sub' = [n |-> r.n, kind |-> UnexpectEOF(r.kind), partial |-> TRUE]
      BY <2>1, <2>2 DEF ReadSingleHeader
    <3>2. SubAligned'
      BY <1>1, <1>2, <1>3, <1>4, <1>5, <2>2, <3>1
      DEF SubAligned, Yields, Reports, UnexpectEOF
    <3> QED
      BY <1>6, <3>2, NotReturned DEF AInv, PartialReadIffMisaligned, EOFReported, Failed, Succeeded
  <2>3. CASE ~ r.n > 0
    <3>1. sub' = r /\ r.n = 0
      BY <1>3, <2>1, <2>3 DEF ReadSingleHeader, Yields
    <3>2. SubAligned'
      BY <1>1, <1>2, <1>3, <1>4, <1>5, <3>1 DEF SubAligned, Yields, Reports, Written
    <3> QED
      BY <1>6, <3>2 DEF AInv, PartialReadIffMisaligned, EOFReported, Failed, Succeeded
  <2> QED
    BY <2>2, <2>3
<1> QED
  BY <1>5, <1>6 DEF AInv, PartialReadIffMisaligned, EOFReported, Failed, Succeeded

LEMMA SinglePointAligned ==
  ASSUME RInv, NEW r \in BasicRead(fmt.point), ReadSinglePoint(r)
  PROVE  AInv'
<1>1. pc = "singlePoint" /\ SinglePosition /\ RTypeInv
  BY DEF RInv, ReadSinglePoint, SinglePCs
<1>2. /\ fmt.singleHeader \in Nat /\ fmt.point \in Nat \ {0} /\ fmt.singleFooter \in Nat
      /\ FrameLength(fmt) = fmt.singleHeader + fmt.point + fmt.singleFooter
  BY <1>1, CallFacts DEF Format, FrameLength
<1>3. Yields(r, fmt.point) /\ Reports(r, fmt.point)
  BY <1>1, <1>2, ReadFacts, ReadReports
<1>4. input'.left = input.left - r.n /\ input'.end = input.end
  BY <1>1 DEF RTypeInv, ReadSinglePoint, Take
<1>5. /\ sub.n = fmt.singleHeader /\ Written(i)
      /\ pc' \in {"singleFooter", "singleReturn", "panicked"}
      /\ UNCHANGED <<fmt, call, i, size, ret, err>>
  BY <1>1 DEF ReadSinglePoint, SinglePosition
<1>6. CASE pc' = "singleReturn"
  <2> DEFINE n == sub.n + r.n
             due == r.n = 0 \/ fmt.singleFooter # 0
             kind == IF n > 0 /\ due THEN UnexpectEOF(r.kind) ELSE r.kind
             partial == r.partial \/ (n > 0 /\ due)
  <2>1. sub' = [n |-> n, kind |-> kind, partial |-> partial] /\ touched' = touched
    BY <1>6 DEF ReadSinglePoint
  <2>2. n \in Nat /\ (n = 0 <=> r.n = 0 /\ fmt.singleHeader = 0)
        /\ (n = FrameLength(fmt) <=> r.n = fmt.point /\ fmt.singleFooter = 0)
    BY <1>2, <1>3, <1>5 DEF Yields
  <2>3. partial <=> n \notin {0, FrameLength(fmt)}
    BY <1>2, <1>3, <1>5, <2>2 DEF Yields, Reports
  <2>4. kind = "EOF" => n = 0
    BY <1>2, <1>3, <1>5, <2>2 DEF Yields, Reports, UnexpectEOF
  <2>5. kind \in {"EOF", "UnexpectedEOF"} =>
          input'.left = 0 /\ input'.end = "EOF" /\ n < FrameLength(fmt)
    BY <1>1, <1>2, <1>3, <1>4, <1>5, CallFacts DEF Yields, Reports, UnexpectEOF
  <2>6. Written(i)'
    BY <1>5, <2>1 DEF Written
  <2> HIDE DEF n, kind, partial
  <2>7. SubAligned'
    BY <1>5, <2>1, <2>3, <2>4, <2>5, <2>6 DEF SubAligned, FrameLength
  <2> QED
    BY <1>6, <2>7 DEF AInv, PartialReadIffMisaligned, EOFReported, Failed, Succeeded
<1> QED
  BY <1>5, <1>6 DEF AInv, PartialReadIffMisaligned, EOFReported, Failed, Succeeded

LEMMA SingleFooterAligned ==
  ASSUME RInv, NEW r \in ConsumeExpectRead(fmt.singleFooter), ReadSingleFooter(r)
  PROVE  AInv'
<1>1. pc = "singleFooter" /\ SinglePosition /\ RTypeInv
  BY DEF RInv, ReadSingleFooter, SinglePCs
<1>2. /\ fmt.singleHeader \in Nat /\ fmt.point \in Nat \ {0} /\ fmt.singleFooter \in Nat
      /\ FrameLength(fmt) = fmt.singleHeader + fmt.point + fmt.singleFooter
  BY <1>1, CallFacts DEF Format, FrameLength
<1>3. Yields(r, fmt.singleFooter) /\ Reports(r, fmt.singleFooter)
  BY <1>1, <1>2, ReadFacts, ReadReports
<1>4. input'.left = input.left - r.n /\ input'.end = input.end
  BY <1>1 DEF RTypeInv, ReadSingleFooter, Take
<1>5. /\ sub.n = fmt.singleHeader + fmt.point
      /\ pc' = "singleReturn"
      /\ UNCHANGED <<fmt, call, i, size, ret, err, touched>>
  BY <1>1 DEF ReadSingleFooter, SinglePosition
<1> DEFINE n == sub.n + r.n
           partial == r.kind # "none" /\ (r.partial \/ r.n = 0)
<1>6. sub' = [n |-> n, kind |-> UnexpectEOF(r.kind), partial |-> partial]
  BY DEF ReadSingleFooter
<1>7. n \in Nat /\ n # 0 /\ (n = FrameLength(fmt) <=> r.n = fmt.singleFooter)
  BY <1>2, <1>3, <1>5 DEF Yields
<1>8. r.kind # "none" /\ r.n = 0 => r.n # fmt.singleFooter
  BY <1>1, <1>2, ZeroRead
<1>9. partial <=> n \notin {0, FrameLength(fmt)}
  BY <1>2, <1>3, <1>5, <1>7, <1>8 DEF Yields, Reports
<1>10. UnexpectEOF(r.kind) \in {"EOF", "UnexpectedEOF"} =>
         input'.left = 0 /\ input'.end = "EOF" /\ n < FrameLength(fmt)
  BY <1>1, <1>2, <1>3, <1>4, <1>5, CallFacts DEF Yields, Reports, UnexpectEOF
<1>11. UnexpectEOF(r.kind) # "EOF"
  BY DEF UnexpectEOF
<1> HIDE DEF n, partial
<1>12. SubAligned'
  BY <1>5, <1>6, <1>7, <1>9, <1>10, <1>11 DEF SubAligned, FrameLength
<1> QED
  BY <1>5, <1>12 DEF AInv, PartialReadIffMisaligned, EOFReported, Failed, Succeeded

LEMMA ReturnPointAligned ==
  ASSUME RInv, SubAligned, ReturnPoint
  PROVE  AInv'
<1>1. pc = "singleReturn" /\ call.op = "point" /\ pc' = "done"
  BY DEF ReturnPoint
<1>2. /\ ret' = [ret EXCEPT !.bytesRead = sub.n]
      /\ err' = [kind |-> sub.kind, partial |-> sub.partial, points |-> 0]
      /\ UNCHANGED <<fmt, call, input, i, size, touched>>
  BY DEF ReturnPoint, Fail
<1>3. /\ RTypeInv /\ Counted /\ SinglePosition
      /\ sub.n <= FrameLength(fmt) /\ sub.n \in Nat /\ FrameLength(fmt) \in Nat
  BY <1>1, AtReturn, CallFacts
<1>4. call.len = 1 /\ i = 0 /\ 0 * FrameLength(fmt) = 0
  BY <1>1, <1>3, CallFacts DEF SinglePosition, RTypeInv
<1>5. ret'.bytesRead = sub.n /\ err'.kind = sub.kind /\ err'.partial = sub.partial
  BY <1>2, <1>3 DEF RTypeInv
<1>6. sub.n \in {x * FrameLength(fmt) : x \in 0 .. 1} <=> sub.n \in {0, FrameLength(fmt)}
  <2>1. 0 * FrameLength(fmt) + sub.n = sub.n
    BY <1>3, <1>4
  <2> QED
    BY <1>3, <2>1, FrameBoundary, 0 < 1
<1>7. PartialReadIffMisaligned'
  BY <1>1, <1>2, <1>4, <1>5, <1>6
  DEF PartialReadIffMisaligned, SubAligned, FrameBoundaries, FrameLength
<1>8. EOFReported'
  <2>1. input.taken = sub.n
    BY <1>3, <1>4, CallFacts DEF Counted, SinglePosition
  <2> QED
    BY <1>1, <1>2, <1>5, <2>1 DEF EOFReported, SubAligned
<1> QED
  BY <1>1, <1>7, <1>8 DEF AInv

(* The errors of the loop over the points, which Bounded goes on to inspect. *)
LEMMA ReturnToLoopAligned ==
  ASSUME RInv, SubAligned, ReturnToLoop
  PROVE  AInv'
<1>1. pc = "singleReturn" /\ call.op \in BatchOps
  BY DEF ReturnToLoop
<1>2. /\ ret' = [ret EXCEPT !.bytesRead = @ + sub.n]
      /\ UNCHANGED <<fmt, call, input, size, touched>>
  BY DEF ReturnToLoop
<1>3. /\ RTypeInv /\ Counted /\ SinglePosition
      /\ sub.n <= FrameLength(fmt) /\ sub.n \in Nat /\ FrameLength(fmt) \in Nat
      /\ i \in Nat /\ call.len \in Nat /\ i < call.len
      /\ ret.bytesRead = i * FrameLength(fmt) /\ err.kind = "none"
  BY <1>1, AtReturn, CallFacts DEF RTypeInv, SinglePosition
<1>4. ret'.bytesRead = i * FrameLength(fmt) + sub.n
  BY <1>2, <1>3 DEF RTypeInv
<1>5. CASE sub.kind = "none"
  <2>1. err' = err /\ pc' = AfterPoints(i + 1)
    BY <1>5 DEF ReturnToLoop
  <2>2. pc' = "done" => call.op # "bounded"
    BY <1>1, <2>1 DEF AfterPoints
  <2> QED
    BY <1>2, <1>3, <2>1, <2>2
    DEF AInv, AfterPoints, PartialReadIffMisaligned, EOFReported, Failed, Succeeded
<1>6. CASE sub.kind # "none"
  <2> DEFINE kind == IF i # 0 THEN UnexpectEOF(sub.kind) ELSE sub.kind
  <2>1. /\ err' = [kind |-> kind, partial |-> sub.partial, points |-> i]
        /\ i' = i
        /\ pc' = IF call.op = "bounded" THEN "boundedReturn" ELSE "done"
    BY <1>6 DEF ReturnToLoop, Fail
  <2>2. ret'.bytesRead \in FrameBoundaries <=> sub.n \in {0, FrameLength(fmt)}
    <3> DEFINE c == FrameLength(fmt)
    <3> HIDE DEF c
    <3>1. i * c + sub.n \in {x * c : x \in 0 .. call.len} <=> sub.n \in {0, c}
      BY <1>3, FrameBoundary DEF c
    <3> QED
      BY <1>4, <3>1 DEF c, FrameBoundaries
  <2>3. kind = "EOF" => ret'.bytesRead = 0
    BY <1>3, <1>4 DEF UnexpectEOF, SubAligned
  <2>4. /\ kind \in {"EOF", "UnexpectedEOF"} => sub.kind \in {"EOF", "UnexpectedEOF"}
        /\ kind # "none"
    BY <1>6 DEF UnexpectEOF
  <2>5. kind \in {"EOF", "UnexpectedEOF"} /\ ~ sub.partial =>
          /\ input.left = 0 /\ input.end = "EOF"
          /\ ret'.bytesRead = i * FrameLength(fmt)
          /\ Written(i)
    <3> SUFFICES ASSUME kind \in {"EOF", "UnexpectedEOF"}, ~ sub.partial
                 PROVE  /\ input.left = 0 /\ input.end = "EOF"
                        /\ ret'.bytesRead = i * FrameLength(fmt)
                        /\ Written(i)
      OBVIOUS
    <3>1. input.left = 0 /\ input.end = "EOF" /\ sub.n < FrameLength(fmt)
      BY <2>4 DEF SubAligned
    <3>2. sub.n = 0
      BY <1>3, <3>1 DEF SubAligned
    <3>3. i * FrameLength(fmt) + 0 = i * FrameLength(fmt)
      BY <1>3
    <3> QED
      BY <1>4, <3>1, <3>2, <3>3 DEF SubAligned
  <2>6. FrameBoundaries' = FrameBoundaries
    BY <1>2 DEF FrameBoundaries, FrameLength
  <2> HIDE DEF kind
  <2>7. err'.kind = kind /\ err'.partial = sub.partial /\ err'.points = i
    BY <2>1
  <2>8. sub.partial <=> ret'.bytesRead \notin FrameBoundaries'
    BY <2>2, <2>6 DEF SubAligned
  <2>9. CASE call.op = "bounded"
    <3>1. LoopAligned'
      BY <1>2, <2>3, <2>5, <2>7, <2>8
      DEF LoopAligned, SwallowsError, Written, FrameLength
    <3> QED
      BY <2>1, <2>9, <3>1, NotReturned
      DEF AInv, PartialReadIffMisaligned, EOFReported, Failed, Succeeded
  <2>10. CASE call.op # "bounded"
    <3>1. input'.taken = ret'.bytesRead
      BY <1>2, <1>3, <1>4 DEF Counted
    <3> QED
      BY <1>1, <1>2, <2>1, <2>3, <2>4, <2>7, <2>8, <2>10, <3>1
      DEF AInv, PartialReadIffMisaligned, EOFReported, Failed, Succeeded, BatchOps
  <2> QED
    BY <2>9, <2>10
<1> QED
  BY <1>5, <1>6

LEMMA BoundedReturnAligned ==
  ASSUME RInv, AInv, BoundedReturn
  PROVE  AInv'
<1>1. pc = "boundedReturn" /\ pc' = "done" /\ BoundedPosition /\ RTypeInv /\ Counted
  BY DEF RInv, BoundedReturn
<1>2. /\ call.op = "bounded" /\ UNCHANGED <<fmt, call, input, touched>>
      /\ input.taken = ret.bytesRead
  BY <1>1, CallFacts DEF BoundedReturn, BoundedPosition, Counted
<1>3. /\ ret'.bytesRead = ret.bytesRead
      /\ ret'.pointsWritten = IF err.kind = "none" THEN call.len ELSE err.points
  BY <1>1 DEF BoundedReturn, RTypeInv
<1>4. err.kind # "none" => LoopAligned
  BY <1>1 DEF AInv
<1>5. FrameBoundaries' = FrameBoundaries /\ FrameLength(fmt)' = FrameLength(fmt)
  BY <1>2 DEF FrameBoundaries, FrameLength
<1>6. CASE SwallowsError
  <2>1. err'.kind = "none" /\ err.kind # "none"
    BY <1>6 DEF BoundedReturn, NoError, SwallowsError
  <2>2. /\ input.left = 0 /\ input.end = "EOF"
        /\ ret.bytesRead = err.points * FrameLength(fmt) /\ touched = 0 .. err.points - 1
    BY <1>4, <1>6, <2>1 DEF LoopAligned, Written
  <2>3. EOFReported'
    BY <1>2, <1>3, <1>5, <2>1, <2>2 DEF EOFReported, Failed
  <2> QED
    BY <1>1, <2>1, <2>3 DEF AInv, PartialReadIffMisaligned, Failed
<1>7. CASE ~ SwallowsError
  <2>1. err' = err
    BY <1>7 DEF BoundedReturn
  <2>2. err.kind = "none" => ret'.pointsWritten = call.len
    BY <1>3
  <2>3. PartialReadIffMisaligned'
    BY <1>2, <1>3, <1>4, <1>5, <2>1 DEF PartialReadIffMisaligned, LoopAligned, Failed
  <2>4. EOFReported'
    BY <1>2, <1>4, <2>1, <2>2 DEF EOFReported, LoopAligned, Failed, Succeeded
  <2> QED
    BY <1>1, <2>3, <2>4 DEF AInv
<1> QED
  BY <1>6, <1>7

(* A slice that could not be read ends anywhere, but tells so. *)
LEMMA SliceReturn ==
  ASSUME call.op = "slice", UNCHANGED <<fmt, call, size>>,
         NEW kind, NEW partial, NEW points, Fail(kind, partial, points),
         pc' = "done", kind # "none",
         ~ partial =>
           \/ input'.taken = 0
           \/ /\ input'.taken \in {SliceLength(fmt, size), SliceLength(fmt, size) - fmt.sliceFooter}
              /\ points = size
  PROVE  AInv'
<1>1. err' = [kind |-> kind, partial |-> partial, points |-> points]
  BY DEF Fail
<1>2. SliceLength(fmt, size)' = SliceLength(fmt, size)
  BY DEF SliceLength, SliceFrameLength
<1>3. PartialReadIffMisaligned'
  BY <1>1, <1>2 DEF PartialReadIffMisaligned
<1> QED
  BY <1>1, <1>3 DEF AInv, EOFReported, Succeeded, Failed

(* A slice that goes on, panics or succeeds reports no error. *)
LEMMA SliceGoesOn ==
  ASSUME call.op = "slice", UNCHANGED call, err.kind = "none", UNCHANGED err,
         pc' \notin {"singleReturn", "boundedReturn"}
  PROVE  AInv'
BY DEF AInv, PartialReadIffMisaligned, EOFReported, Failed, Succeeded

LEMMA PreambleAligned ==
  ASSUME RInv, pc \in PreamblePCs,
         \/ \E r \in ConsumeExpectRead(fmt.sliceHeader) : ReadSliceHeader(r)
         \/ \E v \in SizeFieldValues : ReadSliceSize(v)
         \/ MakeSlice
  PROVE  AInv'
<1>1. /\ call.op = "slice" /\ err.kind = "none" /\ RTypeInv
      /\ input.taken = ret.bytesRead /\ ret.bytesRead \in Nat
  BY CallFacts DEF RInv, PreamblePosition, Counted
<1>2. Got(SizeField) \in Nat
  BY <1>1, CallFacts, LengthsAssumption DEF Got
<1>3. ASSUME NEW r \in ConsumeExpectRead(fmt.sliceHeader), ReadSliceHeader(r)
      PROVE  AInv'
  <2>1. fmt.sliceHeader \in Nat /\ Yields(r, fmt.sliceHeader)
    BY <1>1, CallFacts, ReadFacts DEF Format
  <2>2. input'.taken = input.taken + r.n /\ ret.bytesRead = 0 /\ UNCHANGED <<fmt, call, size>>
    BY <1>1, <1>3, <2>1, TakeFacts DEF ReadSliceHeader, Yields, RInv, PreamblePosition, PreamblePCs
  <2>3. CASE r.kind = "none"
    BY <1>1, <1>3, <2>2, <2>3, SliceGoesOn DEF ReadSliceHeader
  <2>4. CASE r.kind # "none"
    <3>1. Fail(r.kind, r.n # 0, 0) /\ pc' = "done"
      BY <1>3, <2>4 DEF ReadSliceHeader, FailEarly
    <3>2. ~ (r.n # 0) => input'.taken = 0
      BY <1>1, <2>2
    <3> QED
      BY <1>1, <2>2, <2>4, <3>1, <3>2, SliceReturn
  <2> QED
    BY <2>3, <2>4
<1>4. ASSUME NEW v \in SizeFieldValues, ReadSliceSize(v)
      PROVE  AInv'
  <2> DEFINE n == Got(SizeField)
  <2>1. n <= input.left
    BY <1>1, CallFacts, LengthsAssumption DEF Got
  <2>2. input'.taken = ret.bytesRead + n /\ UNCHANGED <<fmt, call>>
    BY <1>1, <1>2, <1>4, <2>1, TakeFacts DEF ReadSliceSize
  <2>3. (ret.bytesRead + n # 0) \/ input'.taken = 0
    BY <2>2
  <2> HIDE DEF n
  <2>4. CASE Short(SizeField) \/ SizeTooLarge(v)
    <3>1. PICK kind : Fail(kind, ret.bytesRead + n # 0, 0) /\ kind # "none" /\ pc' = "done"
      BY <1>4, <2>4 DEF ReadSliceSize, FailEarly, Short, UnexpectEOF, n
    <3>2. size' = size
      BY <1>4, <2>4 DEF ReadSliceSize
    <3>3. ~ (ret.bytesRead + n # 0) => input'.taken = 0
      BY <2>3
    <3> QED
      BY <1>1, <2>2, <3>1, <3>2, <3>3, SliceReturn
  <2>5. CASE ~ Short(SizeField) /\ ~ SizeTooLarge(v)
    BY <1>1, <1>4, <2>2, <2>5, SliceGoesOn DEF ReadSliceSize
  <2> QED
    BY <2>4, <2>5
<1>5. CASE MakeSlice
  <2>1. UNCHANGED <<fmt, call, size>>
    BY <1>5 DEF MakeSlice
  <2>2. CASE SliceOutputLength(fmt, size).overflow \/ BufferTooSmall
    <3>1. PICK kind : Fail(kind, TRUE, 0) /\ kind # "none" /\ pc' = "done"
      BY <1>5, <2>2 DEF MakeSlice, FailEarly
    <3> QED
      BY <1>1, <2>1, <3>1, SliceReturn
  <2>3. CASE ~ SliceOutputLength(fmt, size).overflow /\ ~ BufferTooSmall
    BY <1>1, <1>5, <2>1, <2>3, SliceGoesOn DEF MakeSlice, AfterSlicePoints
  <2> QED
    BY <2>2, <2>3
<1> QED
  BY <1>3, <1>4, <1>5

LEMMA FrameAligned ==
  ASSUME RInv, pc \in FramePCs,
         \/ \E r \in ConsumeExpectRead(fmt.perPointHeader) : ReadPerPointHeader(r)
         \/ \E r \in BasicRead(fmt.point) : ReadPoint(r)
         \/ \E r \in ConsumeExpectRead(fmt.perPointFooter) : ReadPerPointFooter(r)
  PROVE  AInv'
<1>1. /\ call.op = "slice" /\ err.kind = "none" /\ RTypeInv /\ i \in Nat /\ size \in Nat
      /\ pc = "point" => i < size
  BY DEF RInv, FramePosition, RTypeInv
<1>2. ASSUME NEW r \in ConsumeExpectRead(fmt.perPointHeader), ReadPerPointHeader(r)
      PROVE  AInv'
  <2>1. UNCHANGED <<fmt, call, size>>
    BY <1>2 DEF ReadPerPointHeader
  <2>2. CASE r.kind = "none"
    BY <1>1, <1>2, <2>1, <2>2, SliceGoesOn DEF ReadPerPointHeader
  <2>3. CASE r.kind # "none"
    BY <1>1, <1>2, <2>1, <2>3, SliceReturn DEF ReadPerPointHeader
  <2> QED
    BY <2>2, <2>3
<1>3. ASSUME NEW r \in BasicRead(fmt.point), ReadPoint(r)
      PROVE  AInv'
  <2>1. UNCHANGED <<fmt, call, size>> /\ i # size
    BY <1>1, <1>3 DEF ReadPoint
  <2>2. CASE r.kind = "none"
    BY <1>1, <1>3, <2>1, <2>2, SliceGoesOn DEF ReadPoint
  <2>3. CASE r.kind # "none"
    <3> DEFINE partial == i # size \/ fmt.perPointFooter # 0 \/ r.n = 0 \/ r.partial
    <3>1. partial
      BY <2>1
    <3> HIDE DEF partial
    <3>2. \/ pc' = "done" /\ Fail(r.kind, partial, i)
          \/ pc' = "panicked" /\ err' = err
      BY <1>3, <2>3 DEF ReadPoint, partial
    <3>3. CASE pc' = "done" /\ Fail(r.kind, partial, i)
      BY <1>1, <2>1, <2>3, <3>1, <3>3, SliceReturn
    <3>4. CASE pc' = "panicked" /\ err' = err
      BY <1>1, <2>1, <3>4, SliceGoesOn
    <3> QED
      BY <3>2, <3>3, <3>4
  <2> QED
    BY <2>2, <2>3
<1>4. ASSUME NEW r \in ConsumeExpectRead(fmt.perPointFooter), ReadPerPointFooter(r)
      PROVE  AInv'
  <2>1. UNCHANGED <<fmt, call, size>>
    BY <1>4 DEF ReadPerPointFooter
  <2>2. CASE r.kind = "none"
    BY <1>1, <1>4, <2>1, <2>2, SliceGoesOn DEF ReadPerPointFooter, AfterSlicePoints
  <2>3. CASE r.kind # "none"
    BY <1>1, <1>4, <2>1, <2>3, SliceReturn DEF ReadPerPointFooter
  <2> QED
    BY <2>2, <2>3
<1> QED
  BY <1>2, <1>3, <1>4

LEMMA SliceFooterAligned ==
  ASSUME RInv, NEW r \in ConsumeExpectRead(fmt.sliceFooter), ReadSliceFooter(r)
  PROVE  AInv'
<1>1. pc = "sliceFooter" /\ FramePosition /\ RTypeInv
  BY DEF RInv, ReadSliceFooter, FramePCs
<1>2. /\ fmt.sliceFooter \in Nat
      /\ Yields(r, fmt.sliceFooter) /\ Reports(r, fmt.sliceFooter) /\ Consume(r)
  BY <1>1, SliceBound, ReadFacts, ReadReports DEF ReadSliceFooter
<1>3. UNCHANGED <<fmt, call, i, size, sub>> /\ pc' = "done" /\ call.op = "slice"
      /\ err.kind = "none"
  BY <1>1 DEF ReadSliceFooter, FramePosition
<1>4. input'.taken = ret.bytesRead + r.n /\ ret.bytesRead \in Nat /\ r.n \in Nat
  BY <1>1, <1>2, <1>3, ConsumeFacts, CallFacts DEF FramePCs
<1>5. ret.bytesRead + fmt.sliceFooter = SliceLength(fmt, size)
  BY <1>1, SliceBound DEF FramePosition
<1>6. CASE r.kind = "none"
  BY <1>3, <1>6, SliceGoesOn DEF ReadSliceFooter
<1>7. CASE r.kind # "none"
  <2>1. Fail(r.kind, r.partial, size)
    BY <1>7 DEF ReadSliceFooter
  <2>2. ~ r.partial =>
          input'.taken \in {SliceLength(fmt, size), SliceLength(fmt, size) - fmt.sliceFooter}
    BY <1>2, <1>4, <1>5 DEF Reports
  <2> QED
    BY <1>3, <1>7, <2>1, <2>2, SliceReturn
<1> QED
  BY <1>6, <1>7

LEMMA StartAligned ==
  ASSUME RInv, StartCall
  PROVE  AInv'
<1>1. pc = "start" /\ err.kind = "none" /\ RTypeInv
  BY DEF RInv, StartCall, NothingDone
<1>2. /\ err' = err /\ UNCHANGED call
      /\ pc' \in {"singleHeader", "sliceHeader", "boundedReturn", "done", "panicked"}
      /\ call.op = "bounded" => pc' # "done"
  BY DEF StartCall, AfterPoints
<1> QED
  BY <1>1, <1>2 DEF AInv, PartialReadIffMisaligned, EOFReported, Failed, Succeeded

-----------------------------------------------------------------------------
(* Every step leaves the stream where the error, if there is one, says.     *)
LEMMA AlignmentKept ==
  ASSUME RInv, AInv, [Next]_vars
  PROVE  AInv'
<1>1. CASE UNCHANGED vars
  BY <1>1
  DEF vars, AInv, SubAligned, LoopAligned, SwallowsError, Written, FrameLength, FrameBoundaries,
      PartialReadIffMisaligned, EOFReported, Failed, Succeeded, SliceLength, SliceFrameLength
<1>2. CASE Finished
  BY <1>1, <1>2 DEF Finished
<1>3. CASE ReturnPoint \/ ReturnToLoop
  <2>1. SubAligned
    BY <1>3 DEF AInv, ReturnPoint, ReturnToLoop
  <2> QED
    BY <1>3, <2>1, ReturnPointAligned, ReturnToLoopAligned
<1>4. CASE \/ MakeSlice
           \/ \E v \in SizeFieldValues : ReadSliceSize(v)
           \/ \E r \in ConsumeExpectRead(fmt.sliceHeader) : ReadSliceHeader(r)
  <2>1. pc \in PreamblePCs
    BY <1>4 DEF MakeSlice, ReadSliceSize, ReadSliceHeader, PreamblePCs
  <2> QED
    BY <1>4, <2>1, PreambleAligned
<1>5. CASE \/ \E r \in ConsumeExpectRead(fmt.perPointHeader) : ReadPerPointHeader(r)
           \/ \E r \in BasicRead(fmt.point) : ReadPoint(r)
           \/ \E r \in ConsumeExpectRead(fmt.perPointFooter) : ReadPerPointFooter(r)
  <2>1. pc \in FramePCs
    BY <1>5 DEF ReadPerPointHeader, ReadPoint, ReadPerPointFooter, FramePCs
  <2> QED
    BY <1>5, <2>1, FrameAligned
<1> QED
  BY <1>1, <1>2, <1>3, <1>4, <1>5, StartAligned, BoundedReturnAligned, SingleHeaderAligned,
     SinglePointAligned, SingleFooterAligned, SliceFooterAligned
  DEF Next

LEMMA InitAligned == Init => AInv
BY DEF Init, AInv, PartialReadIffMisaligned, EOFReported, Failed, Succeeded

(* Errors tell where they left the stream, over all calls and their inner   *)
(* calls, for formats, buffers and streams of any size.                     *)
THEOREM Alignment == Spec => []AInv
BY ReaderInvariance, InitAligned, AlignmentKept, PTL DEF Spec

(* PartialRead is set exactly if the stream was left inside of a point.     *)
THEOREM PartialReadCorrect == Spec => []PartialReadIffMisaligned
<1>1. AInv => PartialReadIffMisaligned
  BY DEF AInv
<1> QED
  BY <1>1, Alignment, PTL

(* EOF is only hidden or reported at the end of the last whole point.       *)
THEOREM EOFCorrect == Spec => []EOFReported
<1>1. AInv => EOFReported
  BY DEF AInv
<1> QED
  BY <1>1, Alignment, PTL

-----------------------------------------------------------------------------
(* The writers.                                                             *)

WSinglePCs == {"singleHeader", "singlePoint", "singleFooter", "singleReturn"}
WFramePCs == {"perPointHeader", "point", "perPointFooter"}
WSlicePCs == WFramePCs \cup {"sliceHeader", "sliceSize", "sliceFooter"}

(* What may be on the stream. *)
StreamParts ==
  {"singleHeader", "point", "singleFooter", "sliceHeader", "sliceSize",
   "perPointHeader", "perPointFooter", "sliceFooter"}

Byte == StreamParts \X Nat \X Nat

WTypeInv ==
  /\ wfmt \in WriterFormats
  /\ wcall \in [op : {"point"}, points : PointLists \cap [{1} -> PointKinds]]
                 \cup [op : {"points", "slice"}, points : PointLists]
  /\ stream \in Seq(Byte)
  /\ wpc \in WSinglePCs \cup WSlicePCs \cup {"start", "done", "panicked"}
  /\ j \in Nat
  /\ wsub \in [n : Nat, kind : WriteKinds, partial : BOOLEAN]
  /\ wret \in Nat
  /\ werr \in [kind : WriteKinds \cup {"Overflow"}, partial : BOOLEAN, points : Nat]

WCounted == wret + wsub.n = Len(stream)

(* Exactly the first n points are completely on the stream. *)
Sent(n) == PointsOut = 0 .. n - 1

(* In the call of SerializeCurvePoint for the point j. *)
WSinglePosition ==
  /\ wcall.op # "slice" /\ j < L /\ werr = NoWriteError
  /\ wret = j * FrameLength(wfmt)
  /\ wpc = "singleHeader" => wsub.n = 0 /\ Sent(j)
  /\ wpc = "singlePoint" => wsub.n = wfmt.singleHeader /\ Sent(j)
  /\ wpc = "singleFooter" => wsub.n = wfmt.singleHeader + wfmt.point /\ Sent(j + 1)
  /\ wpc = "singleReturn" =>
       /\ wsub.n <= FrameLength(wfmt)
       /\ wsub.partial <=> wsub.n \notin {0, FrameLength(wfmt)}
       /\ Sent(j) \/ Sent(j + 1)
       /\ wsub.kind = "none" => wsub.n = FrameLength(wfmt) /\ Sent(j + 1)

(* What SerializeSlice has written before the point j. *)
WBeforePoint == wfmt.sliceHeader + SizeField + j * SliceFrameLength(wfmt)

WSlicePosition ==
  /\ wcall.op = "slice" /\ wsub.n = 0 /\ werr = NoWriteError
  /\ L <= MaxInt32 /\ SliceLength(wfmt, L) <= MaxInt32
  /\ wpc = "sliceHeader" => wret = 0 /\ j = 0
  /\ wpc = "sliceSize" => wret = wfmt.sliceHeader /\ j = 0
  /\ wpc \in WFramePCs => j < L
  /\ wpc = "sliceFooter" => j = L
  /\ wpc \in {"perPointHeader", "sliceFooter"} => wret = WBeforePoint
  /\ wpc = "point" => wret = WBeforePoint + wfmt.perPointHeader
  /\ wpc = "perPointFooter" => wret = WBeforePoint + wfmt.perPointHeader + wfmt.point
  /\ Sent(IF wpc = "perPointFooter" THEN j + 1 ELSE j)

NothingWritten ==
  /\ stream = <<>> /\ wret = 0 /\ wsub.n = 0 /\ j = 0 /\ werr = NoWriteError

WInv ==
  /\ WTypeInv
  /\ WCounted
  /\ wpc = "start" => NothingWritten
  /\ wpc \in WSinglePCs => WSinglePosition
  /\ wpc \in WSlicePCs => WSlicePosition
  /\ WReturned => BytesWrittenExact /\ PartialWriteIffMisaligned
(* What the constants say of a call. *)
LEMMA WriteCallFacts ==
  ASSUME WTypeInv
  PROVE  /\ wfmt \in Format /\ FormatValid(wfmt)
         /\ wfmt.singleHeader \in Nat /\ wfmt.singleFooter \in Nat
         /\ wfmt.sliceHeader \in Nat /\ wfmt.sliceFooter \in Nat
         /\ wfmt.perPointHeader \in Nat /\ wfmt.perPointFooter \in Nat
         /\ wfmt.point \in Nat \ {0} /\ SizeField \in Nat \ {0}
         /\ OutputLength(wfmt) = FrameLength(wfmt)
         /\ FrameLength(wfmt) = wfmt.singleHeader + wfmt.point + wfmt.singleFooter
         /\ FrameLength(wfmt) \in Nat /\ SliceFrameLength(wfmt) \in Nat
         /\ L \in Nat /\ wcall.op \in {"point", "points", "slice"}
         /\ wcall.op = "point" => L = 1
         /\ wret \in Nat /\ wsub.n \in Nat /\ j \in Nat /\ stream \in Seq(Byte)
<1>1. wfmt \in Format /\ FormatValid(wfmt)
  BY WriterAssumption DEF WTypeInv
<1>2. /\ wcall.points \in PointLists
      /\ wcall.op \in {"point", "points", "slice"}
      /\ wcall.op = "point" => wcall.points \in [{1} -> PointKinds]
  BY DEF WTypeInv
<1>3. wcall.points \in Seq(PointKinds)
  BY <1>2, WriterAssumption
<1>4. L \in Nat /\ DOMAIN wcall.points = 1 .. L
  BY <1>3, LenProperties DEF L
<1>5. wcall.op = "point" => L = 1
  <2>1. wcall.op = "point" => 1 .. L = {1}
    BY <1>2, <1>4
  <2> QED
    BY <1>4, <2>1
<1>6. /\ wfmt.singleHeader \in Nat /\ wfmt.singleFooter \in Nat
      /\ wfmt.sliceHeader \in Nat /\ wfmt.sliceFooter \in Nat
      /\ wfmt.perPointHeader \in Nat /\ wfmt.perPointFooter \in Nat
      /\ wfmt.point \in Nat \ {0} /\ SizeField \in Nat \ {0}
  BY <1>1, LengthsAssumption DEF Format
<1>7. wret \in Nat /\ wsub.n \in Nat /\ j \in Nat /\ stream \in Seq(Byte)
  BY DEF WTypeInv
<1> QED
  BY <1>1, <1>2, <1>4, <1>5, <1>6, <1>7, OutputLengthExact DEF FrameLength, SliceFrameLength

(* What one write can yield. *)
Writes(r, n) ==
  /\ r \in [n : Nat, kind : WriteKinds, partial : BOOLEAN]
  /\ r.n <= n
  /\ r.partial <=> r.n \notin {0, n}
  /\ r.kind = "none" => r.n = n

LEMMA WriteResults ==
  ASSUME NEW n \in Nat
  PROVE  /\ \A r \in WriteFull(n) : Writes(r, n)
         /\ \A point : \A r \in BasicWrite(n, point) : Writes(r, n)
<1>1. Writes([n |-> n, kind |-> "none", partial |-> FALSE], n)
  BY DEF Writes, WriteKinds
<1>2. ASSUME NEW k \in 0 .. n
      PROVE  Writes([n |-> k, kind |-> "IOErr", partial |-> k \notin {0, n}], n)
  <2>1. PICK partial \in BOOLEAN : partial = (k \notin {0, n})
    OBVIOUS
  <2> DEFINE r == [n |-> k, kind |-> "IOErr", partial |-> partial]
  <2>2. r \in [n : Nat, kind : WriteKinds, partial : BOOLEAN]
    BY DEF WriteKinds
  <2>3. r.n = k /\ r.kind = "IOErr" /\ r.partial = partial
    OBVIOUS
  <2>4. k <= n
    OBVIOUS
  <2> HIDE DEF r
  <2>5. Writes(r, n)
    BY <2>1, <2>2, <2>3, <2>4 DEF Writes
  <2> QED
    BY <2>1, <2>5 DEF r
<1>3. Writes([n |-> 0, kind |-> "BadPoint", partial |-> FALSE], n)
  BY DEF Writes, WriteKinds
<1>4. \A r \in WriteFull(n) : Writes(r, n)
  BY <1>1, <1>2 DEF WriteFull
<1> QED
  BY <1>3, <1>4 DEF BasicWrite

LEMMA SameInterval ==
  ASSUME NEW a \in Nat, NEW b \in Nat, 1 .. a = 1 .. b
  PROVE  a = b
<1>1. \A k \in Nat \ {0} : k <= a <=> k <= b
  <2>1. \A k \in Nat \ {0} : (k \in 1 .. a) = (k \in 1 .. b)
    OBVIOUS
  <2> QED
    BY <2>1
<1>2. a # 0 => a <= b
  BY <1>1
<1>3. b # 0 => b <= a
  BY <1>1
<1> QED
  BY <1>2, <1>3

LEMMA BytesFacts ==
  ASSUME NEW part \in StreamParts, NEW index \in Nat, NEW n \in Nat
  PROVE  /\ Bytes(part, index, n) \in Seq(Byte) /\ Len(Bytes(part, index, n)) = n
         /\ \A k \in 1 .. n : Bytes(part, index, n)[k] = <<part, index, k>>
<1> DEFINE new == Bytes(part, index, n)
<1>1. \A k \in 1 .. n : <<part, index, k>> \in Byte
  BY DEF Byte
<1>2. new = [k \in 1 .. n |-> <<part, index, k>>]
  BY DEF Bytes
<1> HIDE DEF new
<1>3. new \in Seq(Byte)
  BY <1>1, <1>2
<1>4. 1 .. Len(new) = 1 .. n /\ Len(new) \in Nat
  BY <1>2, <1>3, LenProperties
<1>5. Len(new) = n
  BY <1>4, SameInterval
<1>6. new \in Seq(Byte) /\ Len(new) = n /\ \A k \in 1 .. n : new[k] = <<part, index, k>>
  BY <1>2, <1>3, <1>5
<1> QED
  BY <1>6 DEF new

(* Writing extends the stream, and by a point if its last byte gets out. *)
LEMMA PutFacts ==
  ASSUME WTypeInv, NEW part \in StreamParts, NEW index \in Nat, NEW n \in Nat,
         Put(part, index, n), UNCHANGED <<wfmt, wcall>>
  PROVE  /\ stream' \in Seq(Byte)
         /\ Len(stream') = Len(stream) + n
         /\ \A k \in 1 .. Len(stream) : stream'[k] = stream[k]
         /\ \A k \in 1 .. n : stream'[Len(stream) + k] = <<part, index, k>>
         /\ PointsOut' = PointsOut \cup
              {p \in 0 .. L - 1 : part = "point" /\ p = index /\ wfmt.point <= n}
<1>1. /\ stream \in Seq(Byte) /\ Len(stream) \in Nat /\ L \in Nat
      /\ wfmt.point \in Nat \ {0}
  BY WriteCallFacts, LenProperties
<1> DEFINE new == Bytes(part, index, n)
<1>2. /\ new \in Seq(Byte) /\ Len(new) = n
      /\ \A k \in 1 .. n : new[k] = <<part, index, k>>
  BY BytesFacts
<1>3. stream' = stream \o new
  BY DEF Put
<1> HIDE DEF new
<1>4. /\ stream' \in Seq(Byte) /\ Len(stream') = Len(stream) + n
      /\ \A k \in 1 .. Len(stream) + n :
           stream'[k] = IF k <= Len(stream) THEN stream[k] ELSE new[k - Len(stream)]
  BY <1>1, <1>2, <1>3, ConcatProperties
<1>5. \A k \in 1 .. Len(stream) : stream'[k] = stream[k]
  BY <1>1, <1>4
<1>6. \A k \in 1 .. n : stream'[Len(stream) + k] = <<part, index, k>>
  <2> SUFFICES ASSUME NEW k \in 1 .. n
               PROVE  stream'[Len(stream) + k] = <<part, index, k>>
    OBVIOUS
  <2>1. Len(stream) + k \in 1 .. Len(stream) + n /\ ~ Len(stream) + k <= Len(stream)
        /\ (Len(stream) + k) - Len(stream) = k
    BY <1>1
  <2> QED
    BY <1>2, <1>4, <2>1
<1>7. ASSUME NEW p \in 0 .. L - 1
      PROVE  (\E k \in DOMAIN stream' : stream'[k] = <<"point", p, wfmt.point>>)
               <=> \/ \E k \in DOMAIN stream : stream[k] = <<"point", p, wfmt.point>>
                   \/ part = "point" /\ p = index /\ wfmt.point <= n
  <2>1. DOMAIN stream = 1 .. Len(stream) /\ DOMAIN stream' = 1 .. Len(stream) + n
    BY <1>1, <1>4, LenProperties
  <2>2. ASSUME NEW k \in DOMAIN stream', stream'[k] = <<"point", p, wfmt.point>>
        PROVE  \/ \E m \in DOMAIN stream : stream[m] = <<"point", p, wfmt.point>>
               \/ part = "point" /\ p = index /\ wfmt.point <= n
    <3>1. CASE k <= Len(stream)
      BY <1>1, <1>5, <2>1, <2>2, <3>1
    <3>2. CASE ~ k <= Len(stream)
      <4>1. k - Len(stream) \in 1 .. n /\ k = Len(stream) + (k - Len(stream))
        BY <1>1, <2>1, <3>2
      <4>2. stream'[k] = <<part, index, k - Len(stream)>>
        BY <1>6, <4>1
      <4>3. part = "point" /\ p = index /\ wfmt.point = k - Len(stream)
        BY <2>2, <4>2
      <4> QED
        BY <4>1, <4>3
    <3> QED
      BY <3>1, <3>2
  <2>3. ASSUME NEW k \in DOMAIN stream, stream[k] = <<"point", p, wfmt.point>>
        PROVE  \E m \in DOMAIN stream' : stream'[m] = <<"point", p, wfmt.point>>
    <3>1. k \in DOMAIN stream' /\ stream'[k] = stream[k]
      BY <1>1, <1>5, <2>1
    <3> QED
      BY <2>3, <3>1
  <2>4. ASSUME part = "point", p = index, wfmt.point <= n
        PROVE  \E m \in DOMAIN stream' : stream'[m] = <<"point", p, wfmt.point>>
    <3>1. wfmt.point \in 1 .. n /\ Len(stream) + wfmt.point \in DOMAIN stream'
      BY <1>1, <2>1, <2>4
    <3>2. stream'[Len(stream) + wfmt.point] = <<"point", p, wfmt.point>>
      BY <1>6, <2>4, <3>1
    <3> QED
      BY <3>1, <3>2
  <2> QED
    BY <2>2, <2>3, <2>4
<1>8. PointsOut' = {p \in 0 .. L - 1 : \E k \in DOMAIN stream' : stream'[k] = <<"point", p, wfmt.point>>}
  BY DEF PointsOut, L
<1> QED
  BY <1>4, <1>5, <1>6, <1>7, <1>8 DEF PointsOut

(* Only the last byte of a point completes it. *)
LEMMA SentAfter ==
  ASSUME WTypeInv, UNCHANGED <<wfmt, wcall>>, NEW k \in Nat, Sent(k), NEW n \in Nat
  PROVE  /\ \A part \in StreamParts \ {"point"} : \A index \in Nat :
              Put(part, index, n) => Sent(k)'
         /\ Put("point", k, n) /\ k < L =>
              IF wfmt.point <= n THEN Sent(k + 1)' ELSE Sent(k)'
<1>1. L \in Nat
  BY WriteCallFacts
<1>2. ASSUME NEW part \in StreamParts \ {"point"}, NEW index \in Nat, Put(part, index, n)
      PROVE  Sent(k)'
  BY <1>2, PutFacts DEF Sent
<1>3. ASSUME Put("point", k, n), k < L
      PROVE  IF wfmt.point <= n THEN Sent(k + 1)' ELSE Sent(k)'
  <2>1. PointsOut' = PointsOut \cup {p \in 0 .. L - 1 : p = k /\ wfmt.point <= n}
    <3>1. "point" \in StreamParts
      BY DEF StreamParts
    <3> QED
      BY <1>3, <3>1, PutFacts
  <2>2. PointsOut = 0 .. k - 1
    BY DEF Sent
  <2>3. CASE wfmt.point <= n
    BY <1>1, <1>3, <2>1, <2>2, <2>3 DEF Sent
  <2>4. CASE ~ wfmt.point <= n
    BY <1>1, <2>1, <2>2, <2>4 DEF Sent
  <2> QED
    BY <2>3, <2>4
<1> QED
  BY <1>2, <1>3

-----------------------------------------------------------------------------
(* The steps of SerializeCurvePoint and SerializeCurvePoints *)

LEMMA WInitEstablishes == WInit => WInv
<1> SUFFICES ASSUME WInit PROVE WInv
  OBVIOUS
<1>1. WTypeInv
  BY DEF WInit, WTypeInv, NoWrite, NoWriteError, WriteKinds
<1>2. WCounted /\ NothingWritten
  BY DEF WInit, WCounted, NothingWritten, NoWrite
<1>3. wpc = "start"
  BY DEF WInit
<1> QED
  BY <1>1, <1>2, <1>3 DEF WInv, WSinglePCs, WSlicePCs, WFramePCs, WReturned

LEMMA StartWriteKeeps ==
  ASSUME WInv, StartWrite
  PROVE  WInv'
<1>1. wpc = "start" /\ NothingWritten /\ WTypeInv /\ WCounted
  BY DEF WInv, StartWrite
<1>2. UNCHANGED <<wfmt, wcall, stream, j, wsub, wret>>
  BY DEF StartWrite
<1>3. /\ L \in Nat /\ wcall.op \in {"point", "points", "slice"} /\ (wcall.op = "point" => L = 1)
      /\ wfmt \in Format /\ FormatValid(wfmt) /\ FrameLength(wfmt) \in Nat
      /\ SliceFrameLength(wfmt) \in Nat /\ MaxInt32 \in Nat
      /\ OutputLength(wfmt) = FrameLength(wfmt)
  BY <1>1, WriteCallFacts, LengthsAssumption
<1>4. wret = 0 /\ wsub.n = 0 /\ j = 0 /\ werr = NoWriteError /\ stream = <<>> /\ Len(stream) = 0
  BY <1>1 DEF NothingWritten
<1>5. Sent(0)
  BY <1>1 DEF NothingWritten, Sent, PointsOut
<1>6. Sent(0)' /\ WCounted' /\ L' = L
  BY <1>1, <1>2, <1>5 DEF Sent, PointsOut, L, WCounted
<1>7. werr.kind = "none" /\ ~ werr.partial
  BY <1>4 DEF NoWriteError
<1>8. CASE wpc' = "singleHeader" /\ wcall.op # "slice" /\ 0 < L /\ werr' = werr
  <2>1. WTypeInv'
    BY <1>1, <1>2, <1>8 DEF WTypeInv, WSinglePCs
  <2>2. 0 * FrameLength(wfmt) = 0
    BY <1>3
  <2>3. WSinglePosition'
    BY <1>2, <1>4, <1>6, <1>8, <2>2 DEF WSinglePosition, FrameLength
  <2> QED
    BY <1>6, <1>8, <2>1, <2>3 DEF WInv, WSinglePCs, WSlicePCs, WFramePCs, WReturned
<1>9. CASE wpc' = "sliceHeader" /\ wcall.op = "slice" /\ werr' = werr
           /\ L <= MaxInt32 /\ SliceLength(wfmt, L) <= MaxInt32
  <2>1. WTypeInv'
    BY <1>1, <1>2, <1>9 DEF WTypeInv, WSlicePCs
  <2>2. WSlicePosition'
    BY <1>2, <1>4, <1>6, <1>9 DEF WSlicePosition, WFramePCs, SliceLength, SliceFrameLength
  <2> QED
    BY <1>6, <1>9, <2>1, <2>2 DEF WInv, WSinglePCs, WSlicePCs, WFramePCs, WReturned
<1>10. CASE /\ wpc' = "done" /\ wcall.op = "slice"
            /\ werr' = [kind |-> "Overflow", partial |-> FALSE, points |-> 0]
  <2>1. werr'.kind = "Overflow" /\ ~ werr'.partial /\ werr'.points = 0
    BY <1>10
  <2>2. WTypeInv'
    BY <1>1, <1>2, <1>10 DEF WTypeInv
  <2>3. PointsOut' = 0 .. 0 - 1
    BY <1>6 DEF Sent
  <2>4. BytesWrittenExact'
    BY <1>2, <1>6, <1>10, <2>1, <2>3 DEF BytesWrittenExact, WCounted, WSucceeded
  <2>5. PartialWriteIffMisaligned'
    BY <1>2, <1>4, <1>10, <2>1 DEF PartialWriteIffMisaligned
  <2> QED
    BY <1>6, <1>10, <2>2, <2>4, <2>5 DEF WInv, WSinglePCs, WSlicePCs, WFramePCs, WReturned
<1>11. CASE wpc' \in {"done", "panicked"} /\ werr' = werr
            /\ (wpc' = "done" => wcall.op = "points" /\ L = 0)
  <2>1. WTypeInv'
    BY <1>1, <1>2, <1>11 DEF WTypeInv
  <2>2. L = 0 => L * OutputLength(wfmt) = 0
    BY <1>3
  <2>3. OutputLength(wfmt)' = OutputLength(wfmt)
    BY <1>2 DEF OutputLength, SinglePointHeaderOverhead
  <2>4. BytesWrittenExact'
    BY <1>2, <1>4, <1>6, <1>7, <1>11, <2>2, <2>3
    DEF BytesWrittenExact, WCounted, WSucceeded, WFailed
  <2>5. PartialWriteIffMisaligned'
    BY <1>7, <1>11 DEF PartialWriteIffMisaligned, WFailed
  <2> QED
    BY <1>6, <1>11, <2>1, <2>4, <2>5 DEF WInv, WSinglePCs, WSlicePCs, WFramePCs, WReturned
<1>12. CASE wcall.op = "point"
  BY <1>3, <1>8, <1>12 DEF StartWrite
<1>13. CASE wcall.op = "points"
  <2>1. wpc' = (IF BatchLengthOK(wfmt, L) THEN AfterWriting(0) ELSE "panicked") /\ werr' = werr
    BY <1>13 DEF StartWrite
  <2>2. AfterWriting(0) = IF 0 < L THEN "singleHeader" ELSE "done"
    BY DEF AfterWriting
  <2> QED
    BY <1>3, <1>8, <1>11, <1>13, <2>1, <2>2
<1>14. CASE wcall.op = "slice"
  <2>1. CASE L > MaxInt32
    <3>1. ~ L <= MaxInt32
      BY <1>3, <2>1
    <3>2. wpc' = "panicked" /\ werr' = werr
      BY <1>14, <2>1, <3>1 DEF StartWrite
    <3> QED
      BY <1>11, <3>2
  <2>2. CASE L <= MaxInt32
    <3>0. ~ L > MaxInt32
      BY <1>3, <2>2
    <3>1. IF SliceOutputLength(wfmt, L).overflow
            THEN wpc' = "done" /\ WFail("Overflow", FALSE, 0)
            ELSE wpc' = "sliceHeader" /\ werr' = werr
      BY <1>14, <2>2, <3>0 DEF StartWrite
    <3>2. ~ SliceOutputLength(wfmt, L).overflow => SliceLength(wfmt, L) <= MaxInt32
      BY <1>3, <2>2, SliceOutputLengthExact
    <3> QED
      BY <1>9, <1>10, <1>14, <2>2, <3>1, <3>2 DEF WFail
  <2> QED
    BY <1>3, <2>1, <2>2
<1> QED
  BY <1>3, <1>12, <1>13, <1>14

(* The parts of one point, as they follow each other. *)
LEMMA SubResultFacts ==
  ASSUME NEW n \in Nat, NEW r, r.kind \in WriteKinds, r.partial \in BOOLEAN
  PROVE  /\ SubResult(n, r) \in [n : Nat, kind : WriteKinds, partial : BOOLEAN]
         /\ SubResult(n, r).n = n /\ SubResult(n, r).kind = r.kind
         /\ SubResult(n, r).partial
              <=> r.partial \/ (r.kind # "none" /\ n > 0 /\ n < OutputLength(wfmt))
<1>1. PICK partial \in BOOLEAN :
        partial = (r.partial \/ (r.kind # "none" /\ n > 0 /\ n < OutputLength(wfmt)))
  OBVIOUS
<1>2. SubResult(n, r) = [n |-> n, kind |-> r.kind, partial |-> partial]
  BY <1>1 DEF SubResult
<1> DEFINE s == SubResult(n, r)
<1>3. s.n = n /\ s.kind = r.kind /\ s.partial = partial
  BY <1>2
<1>4. s \in [n : Nat, kind : WriteKinds, partial : BOOLEAN]
  BY <1>2
<1> HIDE DEF s
<1>5. s.partial <=> r.partial \/ (r.kind # "none" /\ n > 0 /\ n < OutputLength(wfmt))
  BY <1>1, <1>3
<1>6. /\ s.n = n /\ s.kind = r.kind
      /\ s \in [n : Nat, kind : WriteKinds, partial : BOOLEAN]
      /\ s.partial <=> r.partial \/ (r.kind # "none" /\ n > 0 /\ n < OutputLength(wfmt))
  BY <1>3, <1>4, <1>5
<1> QED
  BY <1>6 DEF s

LEMMA WriteSingleHeaderKeeps ==
  ASSUME WInv, NEW r \in WriteFull(wfmt.singleHeader), WriteSingleHeader(r)
  PROVE  WInv'
<1>1. wpc = "singleHeader" /\ WSinglePosition /\ WTypeInv /\ WCounted
  BY DEF WInv, WriteSingleHeader, WSinglePCs
<1>2. /\ wfmt.singleHeader \in Nat /\ FrameLength(wfmt) \in Nat
      /\ wfmt.singleHeader < FrameLength(wfmt) /\ wret \in Nat /\ j \in Nat
      /\ stream \in Seq(Byte) /\ Len(stream) \in Nat
  <2>1. /\ wfmt.singleHeader \in Nat /\ wfmt.point \in Nat \ {0} /\ wfmt.singleFooter \in Nat
        /\ FrameLength(wfmt) = wfmt.singleHeader + wfmt.point + wfmt.singleFooter
        /\ wret \in Nat /\ j \in Nat /\ stream \in Seq(Byte)
    BY <1>1, WriteCallFacts
  <2> QED
    BY <2>1, LenProperties
<1>3. Writes(r, wfmt.singleHeader) /\ r.n \in Nat /\ r.kind \in WriteKinds
  BY <1>2, WriteResults DEF Writes
<1>4. UNCHANGED <<wfmt, wcall, j, wret, werr>> /\ Put("singleHeader", 0, r.n)
  BY DEF WriteSingleHeader
<1>5. stream' \in Seq(Byte) /\ Len(stream') = Len(stream) + r.n
  BY <1>1, <1>3, <1>4, PutFacts DEF StreamParts
<1>6. Sent(j)'
  BY <1>1, <1>2, <1>3, <1>4, SentAfter DEF StreamParts, WSinglePosition
<1>7. /\ wsub' \in [n : Nat, kind : WriteKinds, partial : BOOLEAN]
      /\ wsub'.n = r.n /\ wsub'.kind = r.kind
      /\ wsub'.partial <=> r.kind # "none" /\ r.n > 0
  <2>1. PICK partial \in BOOLEAN : partial = (r.kind # "none" /\ r.n > 0)
    OBVIOUS
  <2>2. wsub' = [r EXCEPT !.partial = partial]
    BY <2>1 DEF WriteSingleHeader
  <2> QED
    BY <1>3, <2>1, <2>2 DEF Writes
<1>8. wpc' = IF r.kind = "none" THEN "singlePoint" ELSE "singleReturn"
  BY DEF WriteSingleHeader
<1>9. WTypeInv'
  BY <1>1, <1>4, <1>5, <1>7, <1>8 DEF WTypeInv, WSinglePCs
<1>10. WCounted'
  BY <1>1, <1>2, <1>3, <1>4, <1>5, <1>7 DEF WCounted, WSinglePosition
<1>11. L' = L /\ FrameLength(wfmt)' = FrameLength(wfmt)
  BY <1>4 DEF L, FrameLength
<1>12. CASE r.kind = "none"
  <2>1. WSinglePosition'
    BY <1>1, <1>3, <1>4, <1>6, <1>7, <1>8, <1>11, <1>12 DEF WSinglePosition, Writes
  <2> QED
    BY <1>8, <1>9, <1>10, <1>12, <2>1 DEF WInv, WSinglePCs, WSlicePCs, WFramePCs, WReturned
<1>13. CASE r.kind # "none"
  <2>1. r.n <= FrameLength(wfmt) /\ (wsub'.partial <=> r.n \notin {0, FrameLength(wfmt)})
    BY <1>2, <1>3, <1>7, <1>13 DEF Writes
  <2>2. WSinglePosition'
    BY <1>1, <1>4, <1>6, <1>7, <1>8, <1>11, <1>13, <2>1 DEF WSinglePosition
  <2> QED
    BY <1>8, <1>9, <1>10, <1>13, <2>2 DEF WInv, WSinglePCs, WSlicePCs, WFramePCs, WReturned
<1> QED
  BY <1>12, <1>13

LEMMA WriteSinglePointKeeps ==
  ASSUME WInv, NEW r, WriteSinglePoint(r)
  PROVE  WInv'
<1>1. wpc = "singlePoint" /\ WSinglePosition /\ WTypeInv /\ WCounted
  BY DEF WInv, WriteSinglePoint, WSinglePCs
<1>2. /\ wfmt.singleHeader \in Nat /\ wfmt.point \in Nat \ {0} /\ wfmt.singleFooter \in Nat
      /\ FrameLength(wfmt) = wfmt.singleHeader + wfmt.point + wfmt.singleFooter
      /\ OutputLength(wfmt) = FrameLength(wfmt)
      /\ wret \in Nat /\ j \in Nat /\ L \in Nat
      /\ stream \in Seq(Byte) /\ Len(stream) \in Nat
  BY <1>1, WriteCallFacts, LenProperties
<1>3. Writes(r, wfmt.point) /\ r.n \in Nat /\ r.n <= wfmt.point /\ r.kind \in WriteKinds
      /\ r.partial \in BOOLEAN
  BY <1>2, WriteResults DEF WriteSinglePoint, Writes
<1>4. UNCHANGED <<wfmt, wcall, j, wret, werr>> /\ Put("point", j, r.n)
  BY DEF WriteSinglePoint
<1>5. stream' \in Seq(Byte) /\ Len(stream') = Len(stream) + r.n
  BY <1>1, <1>2, <1>3, <1>4, PutFacts DEF StreamParts
<1>6. wsub.n = wfmt.singleHeader /\ Sent(j) /\ j < L
  BY <1>1 DEF WSinglePosition
<1>7. IF wfmt.point <= r.n THEN Sent(j + 1)' ELSE Sent(j)'
  BY <1>1, <1>2, <1>3, <1>4, <1>6, SentAfter
<1> DEFINE n == wsub.n + r.n
<1>8. n \in Nat /\ n = wfmt.singleHeader + r.n
  BY <1>2, <1>3, <1>6
<1>9. /\ wsub' \in [n : Nat, kind : WriteKinds, partial : BOOLEAN]
      /\ wsub'.n = n /\ wsub'.kind = r.kind
      /\ wsub'.partial <=> r.partial \/ (r.kind # "none" /\ n > 0 /\ n < FrameLength(wfmt))
  BY <1>2, <1>3, <1>8, SubResultFacts DEF WriteSinglePoint
<1> HIDE DEF n
<1>10. wpc' = IF r.kind = "none" THEN "singleFooter" ELSE "singleReturn"
  BY DEF WriteSinglePoint
<1>11. WTypeInv'
  BY <1>1, <1>4, <1>5, <1>9, <1>10 DEF WTypeInv, WSinglePCs
<1>12. WCounted'
  <2>1. wret + wsub.n = Len(stream)
    BY <1>1 DEF WCounted
  <2>2. wret + n = Len(stream) + r.n
    BY <1>2, <1>3, <1>6, <1>8, <2>1
  <2> QED
    BY <1>4, <1>5, <1>9, <2>2 DEF WCounted
<1>13. L' = L /\ FrameLength(wfmt)' = FrameLength(wfmt)
  BY <1>4 DEF L, FrameLength
<1>14. CASE r.kind = "none"
  <2>1. r.n = wfmt.point
    BY <1>3, <1>14 DEF Writes
  <2>2. WSinglePosition'
    BY <1>1, <1>2, <1>4, <1>7, <1>8, <1>9, <1>10, <1>13, <1>14, <2>1 DEF WSinglePosition
  <2> QED
    BY <1>10, <1>11, <1>12, <1>14, <2>2 DEF WInv, WSinglePCs, WSlicePCs, WFramePCs, WReturned
<1>15. CASE r.kind # "none"
  <2>1. n <= FrameLength(wfmt)
    BY <1>2, <1>3, <1>8
  <2>2. r.partial => n \notin {0, FrameLength(wfmt)}
    BY <1>2, <1>3, <1>8 DEF Writes
  <2>3. wsub'.partial <=> n \notin {0, FrameLength(wfmt)}
    BY <1>2, <1>8, <1>9, <1>15, <2>1, <2>2
  <2>4. WSinglePosition'
    BY <1>1, <1>4, <1>7, <1>9, <1>10, <1>13, <1>15, <2>1, <2>3 DEF WSinglePosition
  <2> QED
    BY <1>10, <1>11, <1>12, <1>15, <2>4 DEF WInv, WSinglePCs, WSlicePCs, WFramePCs, WReturned
<1> QED
  BY <1>14, <1>15

LEMMA WriteSingleFooterKeeps ==
  ASSUME WInv, NEW r \in WriteFull(wfmt.singleFooter), WriteSingleFooter(r)
  PROVE  WInv'
<1>1. wpc = "singleFooter" /\ WSinglePosition /\ WTypeInv /\ WCounted
  BY DEF WInv, WriteSingleFooter, WSinglePCs
<1>2. /\ wfmt.singleHeader \in Nat /\ wfmt.point \in Nat \ {0} /\ wfmt.singleFooter \in Nat
      /\ FrameLength(wfmt) = wfmt.singleHeader + wfmt.point + wfmt.singleFooter
      /\ OutputLength(wfmt) = FrameLength(wfmt)
      /\ wret \in Nat /\ j \in Nat /\ L \in Nat
      /\ stream \in Seq(Byte) /\ Len(stream) \in Nat
  BY <1>1, WriteCallFacts, LenProperties
<1>3. Writes(r, wfmt.singleFooter) /\ r.n \in Nat /\ r.n <= wfmt.singleFooter
      /\ r.kind \in WriteKinds /\ r.partial \in BOOLEAN
  BY <1>2, WriteResults DEF Writes
<1>4. /\ UNCHANGED <<wfmt, wcall, j, wret, werr>> /\ Put("singleFooter", 0, r.n)
      /\ wpc' = "singleReturn"
  BY DEF WriteSingleFooter
<1>5. stream' \in Seq(Byte) /\ Len(stream') = Len(stream) + r.n
  BY <1>1, <1>3, <1>4, PutFacts DEF StreamParts
<1>6. wsub.n = wfmt.singleHeader + wfmt.point /\ Sent(j + 1)
  BY <1>1 DEF WSinglePosition
<1>7. Sent(j + 1)'
  BY <1>1, <1>2, <1>3, <1>4, <1>6, SentAfter DEF StreamParts
<1> DEFINE n == wsub.n + r.n
<1>8. n \in Nat /\ n = wfmt.singleHeader + wfmt.point + r.n
  BY <1>2, <1>3, <1>6
<1>9. /\ wsub' \in [n : Nat, kind : WriteKinds, partial : BOOLEAN]
      /\ wsub'.n = n /\ wsub'.kind = r.kind
      /\ wsub'.partial <=> r.partial \/ (r.kind # "none" /\ n > 0 /\ n < FrameLength(wfmt))
  BY <1>2, <1>3, <1>8, SubResultFacts DEF WriteSingleFooter
<1> HIDE DEF n
<1>10. WTypeInv'
  BY <1>1, <1>4, <1>5, <1>9 DEF WTypeInv, WSinglePCs
<1>11. WCounted'
  <2>1. wret + wsub.n = Len(stream)
    BY <1>1 DEF WCounted
  <2>2. wret + n = Len(stream) + r.n
    BY <1>2, <1>3, <1>6, <1>8, <2>1
  <2> QED
    BY <1>4, <1>5, <1>9, <2>2 DEF WCounted
<1>12. L' = L /\ FrameLength(wfmt)' = FrameLength(wfmt)
  BY <1>4 DEF L, FrameLength
<1>13. n <= FrameLength(wfmt) /\ (r.kind = "none" => n = FrameLength(wfmt))
  BY <1>2, <1>3, <1>8 DEF Writes
<1>14. r.partial => n \notin {0, FrameLength(wfmt)}
  BY <1>2, <1>3, <1>8 DEF Writes
<1>15. wsub'.partial <=> n \notin {0, FrameLength(wfmt)}
  BY <1>2, <1>8, <1>9, <1>13, <1>14
<1>16. WSinglePosition'
  BY <1>1, <1>4, <1>7, <1>9, <1>12, <1>13, <1>15 DEF WSinglePosition
<1> QED
  BY <1>4, <1>10, <1>11, <1>16 DEF WInv, WSinglePCs, WSlicePCs, WFramePCs, WReturned

(* SerializeCurvePoint returns: its caller, or the caller's loop, goes on. *)
LEMMA FramesReturned ==
  ASSUME WTypeInv, WCounted, WSinglePosition, wpc = "singleReturn"
  PROVE  /\ wsub.n \in Nat /\ wsub.n <= FrameLength(wfmt) /\ FrameLength(wfmt) \in Nat \ {0}
         /\ wret + wsub.n = Len(stream) /\ wret = j * FrameLength(wfmt)
         /\ Len(stream) \in {k * FrameLength(wfmt) : k \in 0 .. L}
              <=> wsub.n \in {0, FrameLength(wfmt)}
<1> DEFINE c == FrameLength(wfmt)
<1>1. /\ wsub.n \in Nat /\ j \in Nat /\ L \in Nat /\ j < L
      /\ wsub.n <= c /\ wret + wsub.n = Len(stream) /\ wret = j * c
  BY WriteCallFacts DEF WCounted, WSinglePosition
<1>2. c \in Nat \ {0}
  <2>1. /\ wfmt.singleHeader \in Nat /\ wfmt.point \in Nat \ {0} /\ wfmt.singleFooter \in Nat
        /\ c = wfmt.singleHeader + wfmt.point + wfmt.singleFooter
    BY WriteCallFacts
  <2> QED
    BY <2>1
<1> HIDE DEF c
<1>3. Len(stream) = j * c + wsub.n
  BY <1>1
<1>4. Len(stream) \in {k * c : k \in 0 .. L} <=> wsub.n \in {0, c}
  <2>1. j * c + wsub.n \in {k * c : k \in 0 .. L} <=> wsub.n \in {0, c}
    BY <1>1, <1>2, FrameBoundary
  <2> QED
    BY <1>3, <2>1
<1> QED
  BY <1>1, <1>2, <1>4 DEF c

(* What the caller of a failed SerializeCurvePoint(s) is told. *)
LEMMA FailureReported ==
  ASSUME WInv, wpc = "singleReturn", wsub.kind # "none",
         UNCHANGED <<wfmt, wcall, stream>>, wpc' = "done",
         wret' = wret + wsub.n, wsub' = NoWrite,
         NEW points \in {0, j}, wcall.op # "point" => points = j,
         WFail(wsub.kind, wsub.partial, points), j' = j
  PROVE  WInv'
<1>1. WTypeInv /\ WCounted /\ WSinglePosition
  BY DEF WInv, WSinglePCs
<1>2. /\ wsub.n \in Nat /\ wsub.n <= FrameLength(wfmt) /\ wret + wsub.n = Len(stream)
      /\ Len(stream) \in {k * FrameLength(wfmt) : k \in 0 .. L}
              <=> wsub.n \in {0, FrameLength(wfmt)}
  BY <1>1, FramesReturned
<1>3. wret \in Nat /\ j \in Nat /\ wcall.op # "slice"
      /\ (wsub.partial <=> wsub.n \notin {0, FrameLength(wfmt)})
      /\ (Sent(j) \/ Sent(j + 1))
  BY <1>1, WriteCallFacts DEF WSinglePosition
<1>4. wsub'.n = 0 /\ wsub' \in [n : Nat, kind : WriteKinds, partial : BOOLEAN]
  BY DEF NoWrite, WriteKinds
<1>5. /\ werr' \in [kind : WriteKinds \cup {"Overflow"}, partial : BOOLEAN, points : Nat]
      /\ werr'.kind # "none" /\ werr'.points = points /\ werr'.partial = wsub.partial
  BY <1>1, <1>3 DEF WFail, WTypeInv
<1>6. wret' \in Nat /\ wret' + wsub'.n = Len(stream)
  BY <1>2, <1>3, <1>4
<1>7. WTypeInv' /\ WCounted'
  BY <1>1, <1>3, <1>4, <1>5, <1>6 DEF WTypeInv, WCounted
<1>8. PointsOut' = PointsOut /\ L' = L /\ FrameLength(wfmt)' = FrameLength(wfmt)
  BY DEF PointsOut, L, FrameLength
<1>9. wcall.op # "point" => PointsOut \in {0 .. points - 1, 0 .. points}
  <2>1. PointsOut = 0 .. j - 1 \/ PointsOut = 0 .. (j + 1) - 1
    BY <1>3 DEF Sent
  <2>2. (j + 1) - 1 = j
    BY <1>3
  <2> QED
    BY <2>1, <2>2
<1>10. BytesWrittenExact'
  BY <1>3, <1>5, <1>6, <1>8, <1>9 DEF BytesWrittenExact, WFailed, WSucceeded
<1>11. PartialWriteIffMisaligned'
  BY <1>2, <1>3, <1>5, <1>8 DEF PartialWriteIffMisaligned, WFailed
<1> QED
  BY <1>7, <1>10, <1>11 DEF WInv, WSinglePCs, WSlicePCs, WFramePCs, WReturned

LEMMA ReturnWriteKeeps ==
  ASSUME WInv, ReturnWrite
  PROVE  WInv'
<1>1. WTypeInv /\ WCounted /\ WSinglePosition /\ wpc = "singleReturn" /\ wcall.op = "point"
  BY DEF WInv, WSinglePCs, ReturnWrite
<1>2. /\ UNCHANGED <<wfmt, wcall, stream, j>> /\ wret' = wsub.n /\ wsub' = NoWrite
      /\ wpc' = "done" /\ WFail(wsub.kind, wsub.partial, 0)
  BY DEF ReturnWrite
<1>3. L = 1 /\ j \in Nat /\ wsub.n \in Nat /\ FrameLength(wfmt) \in Nat /\ j < L
      /\ wret = j * FrameLength(wfmt) /\ OutputLength(wfmt) = FrameLength(wfmt)
  BY <1>1, WriteCallFacts DEF WSinglePosition
<1>4. j = 0
  BY <1>3
<1>5. wret = 0 /\ wret' = wret + wsub.n
  BY <1>2, <1>3, <1>4
<1>6. CASE wsub.kind # "none"
  BY <1>1, <1>2, <1>4, <1>5, <1>6, FailureReported
<1>7. CASE wsub.kind = "none"
  <2>1. wsub.n = FrameLength(wfmt) /\ Len(stream) = wsub.n
    BY <1>1, <1>3, <1>5, <1>7 DEF WSinglePosition, WCounted
  <2>2. /\ werr' \in [kind : WriteKinds \cup {"Overflow"}, partial : BOOLEAN, points : Nat]
        /\ werr'.kind = "none"
    BY <1>1, <1>2, <1>7 DEF WFail, WTypeInv
  <2>3. wsub'.n = 0 /\ wsub' \in [n : Nat, kind : WriteKinds, partial : BOOLEAN]
    BY <1>2 DEF NoWrite, WriteKinds
  <2>4. wret' + wsub'.n = Len(stream)
    BY <1>2, <1>3, <2>1, <2>3
  <2>5. WTypeInv' /\ WCounted'
    BY <1>1, <1>2, <1>3, <2>2, <2>3, <2>4 DEF WTypeInv, WCounted
  <2>6. OutputLength(wfmt)' = OutputLength(wfmt)
    BY <1>2 DEF OutputLength, SinglePointHeaderOverhead
  <2>7. BytesWrittenExact'
    BY <1>1, <1>2, <1>3, <2>1, <2>2, <2>4, <2>6 DEF BytesWrittenExact, WFailed, WSucceeded
  <2>8. PartialWriteIffMisaligned'
    BY <2>2 DEF PartialWriteIffMisaligned, WFailed
  <2> QED
    BY <1>2, <2>5, <2>7, <2>8 DEF WInv, WSinglePCs, WSlicePCs, WFramePCs, WReturned
<1> QED
  BY <1>6, <1>7

LEMMA ReturnWriteToLoopKeeps ==
  ASSUME WInv, ReturnWriteToLoop
  PROVE  WInv'
<1>1. WTypeInv /\ WCounted /\ WSinglePosition /\ wpc = "singleReturn" /\ wcall.op = "points"
  BY DEF WInv, WSinglePCs, ReturnWriteToLoop
<1>2. UNCHANGED <<wfmt, wcall, stream>> /\ wret' = wret + wsub.n /\ wsub' = NoWrite
  BY DEF ReturnWriteToLoop
<1>3. CASE wsub.kind # "none"
  BY <1>1, <1>2, <1>3, FailureReported DEF ReturnWriteToLoop
<1>4. CASE wsub.kind = "none"
  <2>1. j' = j + 1 /\ werr' = werr /\ wpc' = IF j + 1 < L THEN "singleHeader" ELSE "done"
    BY <1>4 DEF ReturnWriteToLoop, AfterWriting
  <2>2. /\ j \in Nat /\ L \in Nat /\ j < L /\ wret \in Nat /\ wsub.n \in Nat
        /\ FrameLength(wfmt) \in Nat /\ OutputLength(wfmt) = FrameLength(wfmt)
        /\ wret = j * FrameLength(wfmt) /\ wsub.n = FrameLength(wfmt) /\ werr = NoWriteError
        /\ wret + wsub.n = Len(stream)
    BY <1>1, <1>4, WriteCallFacts DEF WSinglePosition, WCounted
  <2>3. wret' = (j + 1) * FrameLength(wfmt) /\ wret' \in Nat /\ j' \in Nat
    BY <1>2, <2>1, <2>2
  <2>4. wsub'.n = 0 /\ wsub' \in [n : Nat, kind : WriteKinds, partial : BOOLEAN]
    BY <1>2 DEF NoWrite, WriteKinds
  <2>5. wret' + wsub'.n = Len(stream)
    BY <1>2, <2>2, <2>3, <2>4
  <2>6. WTypeInv' /\ WCounted'
    BY <1>1, <1>2, <2>1, <2>3, <2>4, <2>5 DEF WTypeInv, WCounted, WSinglePCs
  <2>7. L' = L /\ FrameLength(wfmt)' = FrameLength(wfmt) /\ OutputLength(wfmt)' = OutputLength(wfmt)
    BY <1>2 DEF L, FrameLength, OutputLength, SinglePointHeaderOverhead
  <2>8. PointsOut' = 0 .. j' - 1
    BY <1>1, <1>2, <1>4, <2>1 DEF WSinglePosition, Sent, PointsOut, L
  <2>9. CASE j + 1 < L
    <3>1. wpc' = "singleHeader"
      BY <2>1, <2>9
    <3>2. WSinglePosition'
      BY <1>1, <1>2, <2>1, <2>2, <2>3, <2>4, <2>7, <2>8, <2>9, <3>1 DEF WSinglePosition, Sent
    <3> QED
      BY <2>6, <3>1, <3>2 DEF WInv, WSinglePCs, WSlicePCs, WFramePCs, WReturned
  <2>10. CASE ~ j + 1 < L
    <3>1. wpc' = "done" /\ j + 1 = L /\ werr'.kind = "none"
      BY <2>1, <2>2, <2>10 DEF NoWriteError
    <3>2. Len(stream') = L * OutputLength(wfmt)
      BY <1>2, <2>2, <2>3, <2>4, <2>5, <3>1
    <3>3. BytesWrittenExact'
      BY <1>1, <1>2, <2>5, <2>7, <3>1, <3>2 DEF BytesWrittenExact, WFailed, WSucceeded
    <3>4. PartialWriteIffMisaligned'
      BY <3>1 DEF PartialWriteIffMisaligned, WFailed
    <3> QED
      BY <2>6, <3>1, <3>3, <3>4 DEF WInv, WSinglePCs, WSlicePCs, WFramePCs, WReturned
  <2> QED
    BY <2>9, <2>10
<1> QED
  BY <1>3, <1>4

-----------------------------------------------------------------------------
(* The steps of SerializeSlice *)

(* After a write of SerializeSlice, whatever comes of it. *)
SliceWritten(r, n) ==
  /\ Writes(r, n) /\ UNCHANGED <<wfmt, wcall, wsub>>
  /\ wret' = wret + r.n /\ wret' \in Nat
  /\ stream' \in Seq(Byte) /\ wret' = Len(stream') /\ WCounted'

LEMMA SliceWriteFacts ==
  ASSUME WInv, wpc \in WSlicePCs, NEW n \in Nat, NEW r, Writes(r, n),
         NEW part \in StreamParts, NEW index \in Nat, Put(part, index, r.n),
         UNCHANGED <<wfmt, wcall, wsub>>, wret' = wret + r.n
  PROVE  SliceWritten(r, n)
<1>1. WTypeInv /\ WCounted /\ wsub.n = 0
  BY DEF WInv, WSlicePosition
<1>2. r.n \in Nat /\ wret \in Nat /\ Len(stream) \in Nat
  BY <1>1, WriteCallFacts, LenProperties DEF Writes
<1>3. stream' \in Seq(Byte) /\ Len(stream') = Len(stream) + r.n
  BY <1>1, <1>2, PutFacts
<1>4. wret = Len(stream)
  BY <1>1, <1>2 DEF WCounted
<1>5. wret' \in Nat /\ wret' = Len(stream') /\ wsub'.n = 0
  BY <1>1, <1>2, <1>3, <1>4
<1> QED
  BY <1>3, <1>5 DEF SliceWritten, WCounted

LEMMA SliceStopped ==
  ASSUME WInv, wpc \in WSlicePCs, NEW n \in Nat, NEW r, SliceWritten(r, n),
         r.kind # "none", wpc' = "done", j' = j,
         NEW points \in Nat, PointsOut' \in {0 .. points - 1, 0 .. points},
         NEW partial \in BOOLEAN, partial = (wret' # 0),
         werr' = [kind |-> r.kind, partial |-> partial, points |-> points]
  PROVE  WInv'
<1>1. WTypeInv /\ wcall.op = "slice" /\ r.kind \in WriteKinds
  BY DEF WInv, WSlicePosition, SliceWritten, Writes
<1>2. /\ UNCHANGED <<wfmt, wcall, wsub>> /\ wret' \in Nat /\ stream' \in Seq(Byte)
      /\ wret' = Len(stream') /\ WCounted'
  BY DEF SliceWritten
<1>3. /\ werr' \in [kind : WriteKinds \cup {"Overflow"}, partial : BOOLEAN, points : Nat]
      /\ werr'.kind = r.kind /\ werr'.points = points /\ werr'.partial = partial
  BY <1>1
<1>4. WTypeInv'
  BY <1>1, <1>2, <1>3 DEF WTypeInv
<1>5. wcall'.op = "slice" /\ (Len(stream') = 0 <=> stream' = <<>>)
  BY <1>1, <1>2, EmptySeq
<1>6. BytesWrittenExact'
  BY <1>2, <1>3, <1>5 DEF BytesWrittenExact, WFailed, WSucceeded, WCounted
<1>7. PartialWriteIffMisaligned'
  BY <1>2, <1>3, <1>5 DEF PartialWriteIffMisaligned, WFailed
<1> QED
  BY <1>2, <1>4, <1>6, <1>7 DEF WInv, WSinglePCs, WSlicePCs, WFramePCs, WReturned

(* The next write is due. *)
LEMMA SliceGoesOnWriting ==
  ASSUME WInv, wpc \in WSlicePCs, NEW n \in Nat, NEW r, SliceWritten(r, n),
         wpc' \in WSlicePCs, werr' = werr, j' \in Nat,
         WSlicePosition => WSlicePosition'
  PROVE  WInv'
<1>1. WTypeInv /\ WSlicePosition
  BY DEF WInv
<1>2. WTypeInv'
  BY <1>1 DEF WTypeInv, SliceWritten
<1> QED
  BY <1>1, <1>2 DEF WInv, WSinglePCs, WSlicePCs, WFramePCs, WReturned, SliceWritten

(* What the next position is measured in. *)
LEMMA SliceUnchanged ==
  ASSUME UNCHANGED <<wfmt, wcall>>
  PROVE  /\ L' = L /\ SliceLength(wfmt, L)' = SliceLength(wfmt, L)
         /\ j' = j => WBeforePoint' = WBeforePoint
         /\ WBeforePoint' = wfmt.sliceHeader + SizeField + j' * SliceFrameLength(wfmt)
BY DEF L, SliceLength, SliceFrameLength, WBeforePoint

LEMMA WriteSliceHeaderKeeps ==
  ASSUME WInv, NEW r \in WriteFull(wfmt.sliceHeader), WriteSliceHeader(r)
  PROVE  WInv'
<1>1. WTypeInv /\ WSlicePosition /\ wpc = "sliceHeader" /\ wpc \in WSlicePCs
  BY DEF WInv, WriteSliceHeader, WSlicePCs
<1>2. wfmt.sliceHeader \in Nat /\ L \in Nat /\ SizeField \in Nat
  BY <1>1, WriteCallFacts
<1>3. Writes(r, wfmt.sliceHeader) /\ r.n \in Nat
  BY <1>2, WriteResults DEF Writes
<1>4. /\ UNCHANGED <<wfmt, wcall, wsub, j>> /\ Put("sliceHeader", 0, r.n)
      /\ wret' = wret + r.n
      /\ r.kind = "none" => wpc' = "sliceSize" /\ werr' = werr
      /\ r.kind # "none" =>
           wpc' = "done" /\ werr' = [kind |-> r.kind, partial |-> wret + r.n # 0, points |-> 0]
  BY DEF WriteSliceHeader, SliceWrite, WFail
<1>5. SliceWritten(r, wfmt.sliceHeader)
  BY <1>1, <1>2, <1>3, <1>4, SliceWriteFacts DEF StreamParts
<1>6. j = 0 /\ wret = 0 /\ Sent(0)
  BY <1>1 DEF WSlicePosition
<1>7. Sent(0)'
  BY <1>1, <1>3, <1>4, <1>6, SentAfter DEF StreamParts
<1>8. CASE r.kind = "none"
  <2>1. wret' = wfmt.sliceHeader
    BY <1>2, <1>3, <1>4, <1>6, <1>8 DEF Writes
  <2>2. WSlicePosition'
    BY <1>1, <1>4, <1>6, <1>7, <1>8, <2>1, SliceUnchanged DEF WSlicePosition, WFramePCs
  <2> QED
    BY <1>1, <1>2, <1>4, <1>5, <1>6, <1>8, <2>2, SliceGoesOnWriting DEF WSlicePCs
<1>9. CASE r.kind # "none"
  <2>1. PICK partial \in BOOLEAN : partial = (wret' # 0)
    OBVIOUS
  <2>2. PointsOut' = 0 .. 0 - 1
    BY <1>7 DEF Sent
  <2>3. wpc' = "done" /\ werr' = [kind |-> r.kind, partial |-> partial, points |-> 0]
    BY <1>4, <1>9, <2>1
  <2> QED
    BY <1>1, <1>2, <1>4, <1>5, <1>9, <2>1, <2>2, <2>3, SliceStopped
<1> QED
  BY <1>8, <1>9

LEMMA WriteSliceSizeKeeps ==
  ASSUME WInv, NEW r \in WriteFull(SizeField), WriteSliceSize(r)
  PROVE  WInv'
<1>1. WTypeInv /\ WSlicePosition /\ wpc = "sliceSize" /\ wpc \in WSlicePCs
  BY DEF WInv, WriteSliceSize, WSlicePCs
<1>2. /\ wfmt.sliceHeader \in Nat /\ L \in Nat /\ SizeField \in Nat
      /\ SliceFrameLength(wfmt) \in Nat
  BY <1>1, WriteCallFacts
<1>3. Writes(r, SizeField) /\ r.n \in Nat
  BY <1>2, WriteResults DEF Writes
<1>4. /\ UNCHANGED <<wfmt, wcall, wsub, j>> /\ Put("sliceSize", L, r.n)
      /\ wret' = wret + r.n
      /\ r.kind = "none" => wpc' = AfterSliceWriting(0) /\ werr' = werr
      /\ r.kind # "none" =>
           wpc' = "done" /\ werr' = [kind |-> r.kind, partial |-> wret + r.n # 0, points |-> 0]
  BY DEF WriteSliceSize, SliceWrite, WFail
<1>5. SliceWritten(r, SizeField)
  BY <1>1, <1>2, <1>3, <1>4, SliceWriteFacts DEF StreamParts
<1>6. j = 0 /\ wret = wfmt.sliceHeader /\ Sent(0)
  BY <1>1 DEF WSlicePosition
<1>7. Sent(0)'
  BY <1>1, <1>2, <1>3, <1>4, <1>6, SentAfter DEF StreamParts
<1>8. CASE r.kind = "none"
  <2>1. wret' = WBeforePoint'
    <3>1. 0 * SliceFrameLength(wfmt) = 0
      BY <1>2
    <3> QED
      BY <1>2, <1>3, <1>4, <1>6, <1>8, <3>1, SliceUnchanged DEF Writes, WBeforePoint
  <2>2. wpc' = IF 0 < L THEN "perPointHeader" ELSE "sliceFooter"
    BY <1>4, <1>8 DEF AfterSliceWriting
  <2>3. ~ 0 < L => L = 0
    BY <1>2
  <2>4. WSlicePosition'
    BY <1>1, <1>4, <1>6, <1>7, <1>8, <2>1, <2>2, <2>3, SliceUnchanged DEF WSlicePosition, WFramePCs
  <2> QED
    BY <1>1, <1>2, <1>4, <1>5, <1>6, <1>8, <2>2, <2>4, SliceGoesOnWriting DEF WSlicePCs, WFramePCs
<1>9. CASE r.kind # "none"
  <2>1. PICK partial \in BOOLEAN : partial = (wret' # 0)
    OBVIOUS
  <2>2. PointsOut' = 0 .. 0 - 1
    BY <1>7 DEF Sent
  <2>3. wpc' = "done" /\ werr' = [kind |-> r.kind, partial |-> partial, points |-> 0]
    BY <1>4, <1>9, <2>1
  <2> QED
    BY <1>1, <1>2, <1>4, <1>5, <1>9, <2>1, <2>2, <2>3, SliceStopped
<1> QED
  BY <1>8, <1>9

(* In the loop over the points, something has been written. *)
LEMMA FrameFacts ==
  ASSUME WInv, wpc \in WFramePCs \cup {"sliceFooter"}
  PROVE  /\ WTypeInv /\ WSlicePosition /\ wpc \in WSlicePCs
         /\ j \in Nat /\ L \in Nat /\ (wpc # "sliceFooter" => j < L)
         /\ wfmt.perPointHeader \in Nat /\ wfmt.point \in Nat \ {0}
         /\ wfmt.perPointFooter \in Nat /\ wfmt.sliceFooter \in Nat
         /\ WBeforePoint \in Nat \ {0} /\ wret \in Nat \ {0}
<1>1. WTypeInv /\ WSlicePosition /\ wpc \in WSlicePCs
  BY DEF WInv, WSlicePCs
<1>2. /\ wfmt.sliceHeader \in Nat /\ L \in Nat /\ SizeField \in Nat \ {0} /\ j \in Nat
      /\ wfmt.perPointHeader \in Nat /\ wfmt.point \in Nat \ {0} /\ wret \in Nat
      /\ wfmt.perPointFooter \in Nat /\ wfmt.sliceFooter \in Nat
      /\ SliceFrameLength(wfmt) \in Nat
  BY <1>1, WriteCallFacts
<1>3. j * SliceFrameLength(wfmt) \in Nat
  BY <1>2
<1>4. WBeforePoint \in Nat \ {0}
  BY <1>2, <1>3 DEF WBeforePoint
<1>5. wpc # "sliceFooter" => j < L
  BY <1>1 DEF WSlicePosition, WFramePCs
<1>6. \/ wret = WBeforePoint \/ wret = WBeforePoint + wfmt.perPointHeader
      \/ wret = WBeforePoint + wfmt.perPointHeader + wfmt.point
  BY <1>1 DEF WSlicePosition, WFramePCs
<1> QED
  BY <1>1, <1>2, <1>4, <1>5, <1>6

(* SerializeSlice stops in the loop, or at the footer. *)
LEMMA FrameStopped ==
  ASSUME WInv, wpc \in WFramePCs \cup {"sliceFooter"},
         NEW n \in Nat, NEW r, SliceWritten(r, n), r.kind # "none", wpc' = "done", j' = j,
         NEW points \in Nat, PointsOut' \in {0 .. points - 1, 0 .. points},
         werr' = [kind |-> r.kind, partial |-> TRUE, points |-> points]
  PROVE  WInv'
<1>1. wpc \in WSlicePCs /\ wret \in Nat \ {0}
  BY FrameFacts
<1>2. r.n \in Nat /\ wret' = wret + r.n
  BY DEF SliceWritten, Writes
<1>3. TRUE = (wret' # 0)
  BY <1>1, <1>2
<1> QED
  BY <1>1, <1>3, SliceStopped

LEMMA WritePerPointHeaderKeeps ==
  ASSUME WInv, NEW r \in WriteFull(wfmt.perPointHeader), WritePerPointHeader(r)
  PROVE  WInv'
<1>1. wpc = "perPointHeader" /\ wpc \in WFramePCs
  BY DEF WritePerPointHeader, WFramePCs
<1>2. /\ WTypeInv /\ WSlicePosition /\ wpc \in WSlicePCs /\ j \in Nat /\ L \in Nat /\ j < L
      /\ wfmt.perPointHeader \in Nat
  BY <1>1, FrameFacts
<1>3. Writes(r, wfmt.perPointHeader) /\ r.n \in Nat
  BY <1>2, WriteResults DEF Writes
<1>4. /\ UNCHANGED <<wfmt, wcall, wsub, j>> /\ Put("perPointHeader", 0, r.n)
      /\ wret' = wret + r.n
      /\ r.kind = "none" => wpc' = "point" /\ werr' = werr
      /\ r.kind # "none" =>
           wpc' = "done" /\ werr' = [kind |-> r.kind, partial |-> TRUE, points |-> j]
  BY DEF WritePerPointHeader, SliceWrite, WFail
<1>5. SliceWritten(r, wfmt.perPointHeader)
  BY <1>2, <1>3, <1>4, SliceWriteFacts DEF StreamParts
<1>6. wret = WBeforePoint /\ Sent(j)
  BY <1>1, <1>2 DEF WSlicePosition
<1>7. Sent(j)' /\ PointsOut' = 0 .. j - 1
  BY <1>2, <1>3, <1>4, <1>6, SentAfter DEF StreamParts, Sent
<1>8. CASE r.kind = "none"
  <2>1. wret' = WBeforePoint' + wfmt.perPointHeader
    BY <1>3, <1>4, <1>6, <1>8, SliceUnchanged DEF Writes
  <2>2. WSlicePosition'
    BY <1>2, <1>4, <1>7, <1>8, <2>1, SliceUnchanged DEF WSlicePosition, WFramePCs, Sent
  <2> QED
    BY <1>2, <1>4, <1>5, <1>8, <2>2, SliceGoesOnWriting DEF WSlicePCs, WFramePCs
<1>9. CASE r.kind # "none"
  BY <1>1, <1>2, <1>4, <1>5, <1>7, <1>9, FrameStopped
<1> QED
  BY <1>8, <1>9

LEMMA WritePointKeeps ==
  ASSUME WInv, NEW r, WritePoint(r)
  PROVE  WInv'
<1>1. wpc = "point" /\ wpc \in WFramePCs
  BY DEF WritePoint, WFramePCs
<1>2. /\ WTypeInv /\ WSlicePosition /\ wpc \in WSlicePCs /\ j \in Nat /\ L \in Nat /\ j < L
      /\ wfmt.point \in Nat \ {0}
  BY <1>1, FrameFacts
<1>3. Writes(r, wfmt.point) /\ r.n \in Nat
  BY <1>2, WriteResults DEF Writes, WritePoint
<1>4. /\ UNCHANGED <<wfmt, wcall, wsub, j>> /\ Put("point", j, r.n)
      /\ wret' = wret + r.n
      /\ r.kind = "none" => wpc' = "perPointFooter" /\ werr' = werr
      /\ r.kind # "none" =>
           wpc' = "done" /\ werr' = [kind |-> r.kind, partial |-> TRUE, points |-> j]
  BY DEF WritePoint, SliceWrite, WFail
<1>5. SliceWritten(r, wfmt.point)
  BY <1>2, <1>3, <1>4, SliceWriteFacts DEF StreamParts
<1>6. wret = WBeforePoint + wfmt.perPointHeader /\ Sent(j)
  BY <1>1, <1>2 DEF WSlicePosition
<1>7. IF wfmt.point <= r.n THEN Sent(j + 1)' ELSE Sent(j)'
  BY <1>2, <1>3, <1>4, <1>6, SentAfter
<1>8. CASE r.kind = "none"
  <2>1. wret' = WBeforePoint' + wfmt.perPointHeader + wfmt.point
    BY <1>3, <1>4, <1>6, <1>8, SliceUnchanged DEF Writes
  <2>2. Sent(j + 1)'
    BY <1>2, <1>3, <1>7, <1>8 DEF Writes
  <2>3. WSlicePosition'
    BY <1>2, <1>4, <1>8, <2>1, <2>2, SliceUnchanged DEF WSlicePosition, WFramePCs, Sent
  <2> QED
    BY <1>2, <1>4, <1>5, <1>8, <2>3, SliceGoesOnWriting DEF WSlicePCs, WFramePCs
<1>9. CASE r.kind # "none"
  <2>1. PointsOut' = 0 .. j - 1 \/ PointsOut' = 0 .. (j + 1) - 1
    BY <1>4, <1>7 DEF Sent
  <2>2. PointsOut' \in {0 .. j - 1, 0 .. j}
    BY <1>2, <2>1, (j + 1) - 1 = j
  <2> QED
    BY <1>1, <1>2, <1>4, <1>5, <1>9, <2>2, FrameStopped
<1> QED
  BY <1>8, <1>9

LEMMA WritePerPointFooterKeeps ==
  ASSUME WInv, NEW r \in WriteFull(wfmt.perPointFooter), WritePerPointFooter(r)
  PROVE  WInv'
<1>1. wpc = "perPointFooter" /\ wpc \in WFramePCs
  BY DEF WritePerPointFooter, WFramePCs
<1>2. /\ WTypeInv /\ WSlicePosition /\ wpc \in WSlicePCs /\ j \in Nat /\ L \in Nat /\ j < L
      /\ wfmt.perPointFooter \in Nat /\ j + 1 \in Nat
  BY <1>1, FrameFacts
<1>3. Writes(r, wfmt.perPointFooter) /\ r.n \in Nat
  BY <1>2, WriteResults DEF Writes
<1>4. /\ UNCHANGED <<wfmt, wcall, wsub>> /\ Put("perPointFooter", 0, r.n)
      /\ wret' = wret + r.n
      /\ r.kind = "none" =>
           j' = j + 1 /\ wpc' = AfterSliceWriting(j + 1) /\ werr' = werr
      /\ r.kind # "none" =>
           j' = j /\ wpc' = "done" /\ werr' = [kind |-> r.kind, partial |-> TRUE, points |-> j + 1]
  BY DEF WritePerPointFooter, SliceWrite, WFail
<1>5. SliceWritten(r, wfmt.perPointFooter)
  BY <1>2, <1>3, <1>4, SliceWriteFacts DEF StreamParts
<1>6. wret = WBeforePoint + wfmt.perPointHeader + wfmt.point /\ Sent(j + 1)
  BY <1>1, <1>2 DEF WSlicePosition
<1>7. PointsOut' = 0 .. (j + 1) - 1
  BY <1>2, <1>3, <1>4, <1>6, SentAfter DEF StreamParts, Sent
<1>8. CASE r.kind = "none"
  <2>1. wret' = WBeforePoint'
    <3> DEFINE c == SliceFrameLength(wfmt)
    <3>1. /\ c = wfmt.perPointHeader + wfmt.point + wfmt.perPointFooter
          /\ wfmt.perPointHeader \in Nat /\ wfmt.point \in Nat
          /\ wfmt.sliceHeader \in Nat /\ SizeField \in Nat
      BY <1>2, WriteCallFacts DEF SliceFrameLength
    <3>2. c \in Nat
      BY <1>2, <3>1
    <3>3. WBeforePoint' = wfmt.sliceHeader + SizeField + (j + 1) * c
      BY <1>4, <1>8, SliceUnchanged
    <3>4. WBeforePoint = wfmt.sliceHeader + SizeField + j * c
      BY DEF WBeforePoint
    <3>5. wret' = WBeforePoint + wfmt.perPointHeader + wfmt.point + wfmt.perPointFooter
      BY <1>3, <1>4, <1>6, <1>8 DEF Writes
    <3> HIDE DEF c
    <3>6. (j + 1) * c = j * c + c /\ j * c \in Nat
      BY <1>2, <3>2
    <3> QED
      BY <1>2, <3>1, <3>3, <3>4, <3>5, <3>6
  <2>2. wpc' = IF j + 1 < L THEN "perPointHeader" ELSE "sliceFooter"
    BY <1>4, <1>8 DEF AfterSliceWriting
  <2>3. ~ j + 1 < L => j + 1 = L
    BY <1>2
  <2>4. WSlicePosition'
    BY <1>2, <1>4, <1>7, <1>8, <2>1, <2>2, <2>3, SliceUnchanged DEF WSlicePosition, WFramePCs, Sent
  <2> QED
    BY <1>2, <1>4, <1>5, <1>8, <2>2, <2>4, SliceGoesOnWriting DEF WSlicePCs, WFramePCs
<1>9. CASE r.kind # "none"
  BY <1>1, <1>2, <1>4, <1>5, <1>7, <1>9, FrameStopped
<1> QED
  BY <1>8, <1>9

(* The count that SerializeSlice checks at its end is right. *)
LEMMA WriteSliceFooterKeeps ==
  ASSUME WInv, NEW r \in WriteFull(wfmt.sliceFooter), WriteSliceFooter(r)
  PROVE  WInv'
<1>1. wpc = "sliceFooter" /\ wpc \in WFramePCs \cup {"sliceFooter"}
  BY DEF WriteSliceFooter, WFramePCs
<1>2. /\ WTypeInv /\ WSlicePosition /\ wpc \in WSlicePCs /\ j \in Nat /\ L \in Nat
      /\ wfmt.sliceFooter \in Nat
  BY <1>1, FrameFacts
<1>3. Writes(r, wfmt.sliceFooter) /\ r.n \in Nat
  BY <1>2, WriteResults DEF Writes
<1>4. /\ UNCHANGED <<wfmt, wcall, wsub, j>> /\ Put("sliceFooter", 0, r.n)
      /\ wret' = wret + r.n
      /\ r.kind = "none" =>
           /\ wpc' = IF wret + r.n = SliceOutputLength(wfmt, L).ret THEN "done" ELSE "panicked"
           /\ werr' = werr
      /\ r.kind # "none" =>
           wpc' = "done" /\ werr' = [kind |-> r.kind, partial |-> TRUE, points |-> L]
  BY DEF WriteSliceFooter, SliceWrite, WFail
<1>5. SliceWritten(r, wfmt.sliceFooter)
  BY <1>2, <1>3, <1>4, SliceWriteFacts DEF StreamParts
<1>6. /\ wret = WBeforePoint /\ Sent(j) /\ j = L /\ wcall.op = "slice" /\ werr = NoWriteError
      /\ L <= MaxInt32 /\ SliceLength(wfmt, L) <= MaxInt32
  BY <1>1, <1>2 DEF WSlicePosition
<1>7. PointsOut' = 0 .. L - 1
  BY <1>2, <1>3, <1>4, <1>6, SentAfter DEF StreamParts, Sent
<1>8. CASE r.kind = "none"
  <2>1. wret' = SliceLength(wfmt, L)
    BY <1>3, <1>4, <1>6, <1>8 DEF Writes, WBeforePoint, SliceLength
  <2>2. wfmt \in Format /\ FormatValid(wfmt)
    BY <1>2, WriteCallFacts
  <2>3. SliceOutputLength(wfmt, L) = [ret |-> SliceLength(wfmt, L), overflow |-> FALSE]
    BY <1>2, <1>6, <2>2, SliceOutputLengthExact
  <2>4. SliceOutputLength(wfmt, L).ret = SliceLength(wfmt, L)
    BY <2>3
  <2>5. wpc' = "done" /\ werr' = NoWriteError /\ werr'.kind = "none"
    BY <1>4, <1>6, <1>8, <2>1, <2>4 DEF NoWriteError
  <2>6. SliceOutputLength(wfmt, L)' = SliceOutputLength(wfmt, L)
    BY <1>4 DEF SliceOutputLength, MultiPointHeaderOverhead, L
  <2>7. wcall'.op = "slice" /\ Len(stream') = SliceOutputLength(wfmt, L).ret
    BY <1>4, <1>5, <1>6, <2>1, <2>4 DEF SliceWritten
  <2>8. BytesWrittenExact'
    BY <1>5, <2>5, <2>6, <2>7 DEF BytesWrittenExact, WFailed, WSucceeded, SliceWritten, WCounted
  <2>9. PartialWriteIffMisaligned'
    BY <2>5 DEF PartialWriteIffMisaligned, WFailed
  <2>10. WTypeInv'
    BY <1>2, <1>4, <1>5, <1>6, <2>5 DEF WTypeInv, SliceWritten
  <2> QED
    BY <1>5, <2>5, <2>8, <2>9, <2>10
    DEF WInv, WSinglePCs, WSlicePCs, WFramePCs, WReturned, SliceWritten
<1>9. CASE r.kind # "none"
  BY <1>1, <1>2, <1>4, <1>5, <1>7, <1>9, FrameStopped
<1> QED
  BY <1>8, <1>9

-----------------------------------------------------------------------------
(* The invariant, and what follows from it *)

LEMMA WriteStepKeeps == WInv /\ [WNext \/ WFinished]_wvars => WInv'
<1> SUFFICES ASSUME WInv, [WNext \/ WFinished]_wvars PROVE WInv'
  OBVIOUS
<1>1. CASE StartWrite \/ ReturnWrite \/ ReturnWriteToLoop
  BY <1>1, StartWriteKeeps, ReturnWriteKeeps, ReturnWriteToLoopKeeps
<1>2. ASSUME NEW r \in WriteFull(wfmt.singleHeader), WriteSingleHeader(r)
      PROVE  WInv'
  BY <1>2, WriteSingleHeaderKeeps
<1>3. ASSUME NEW r, WriteSinglePoint(r) \/ WritePoint(r)
      PROVE  WInv'
  BY <1>3, WriteSinglePointKeeps, WritePointKeeps
<1>4. ASSUME NEW r \in WriteFull(wfmt.singleFooter), WriteSingleFooter(r)
      PROVE  WInv'
  BY <1>4, WriteSingleFooterKeeps
<1>5. ASSUME NEW r \in WriteFull(wfmt.sliceHeader), WriteSliceHeader(r)
      PROVE  WInv'
  BY <1>5, WriteSliceHeaderKeeps
<1>6. ASSUME NEW r \in WriteFull(SizeField), WriteSliceSize(r)
      PROVE  WInv'
  BY <1>6, WriteSliceSizeKeeps
<1>7. ASSUME NEW r \in WriteFull(wfmt.perPointHeader), WritePerPointHeader(r)
      PROVE  WInv'
  BY <1>7, WritePerPointHeaderKeeps
<1>8. ASSUME NEW r \in WriteFull(wfmt.perPointFooter), WritePerPointFooter(r)
      PROVE  WInv'
  BY <1>8, WritePerPointFooterKeeps
<1>9. ASSUME NEW r \in WriteFull(wfmt.sliceFooter), WriteSliceFooter(r)
      PROVE  WInv'
  BY <1>9, WriteSliceFooterKeeps
<1>10. CASE UNCHANGED wvars
  <2>1. /\ wfmt' = wfmt /\ wcall' = wcall /\ stream' = stream /\ wpc' = wpc
        /\ j' = j /\ wsub' = wsub /\ wret' = wret /\ werr' = werr
    BY <1>10 DEF wvars
  <2>2. /\ L' = L /\ FrameLength(wfmt)' = FrameLength(wfmt) /\ PointsOut' = PointsOut
        /\ SliceFrameLength(wfmt)' = SliceFrameLength(wfmt)
        /\ SliceLength(wfmt, L)' = SliceLength(wfmt, L)
        /\ OutputLength(wfmt)' = OutputLength(wfmt)
        /\ SliceOutputLength(wfmt, L)' = SliceOutputLength(wfmt, L)
    BY <2>1 DEF L, FrameLength, SliceFrameLength, SliceLength, PointsOut, OutputLength,
                SinglePointHeaderOverhead, SliceOutputLength, MultiPointHeaderOverhead
  <2>3. WTypeInv' = WTypeInv /\ WCounted' = WCounted /\ NothingWritten' = NothingWritten
    BY <2>1 DEF WTypeInv, WCounted, NothingWritten
  <2>4. WSinglePosition' = WSinglePosition
    BY <2>1, <2>2 DEF WSinglePosition, Sent
  <2>5. WSlicePosition' = WSlicePosition
    BY <2>1, <2>2 DEF WSlicePosition, Sent, WBeforePoint
  <2>6. BytesWrittenExact' = BytesWrittenExact
    BY <2>1, <2>2 DEF BytesWrittenExact, WSucceeded, WFailed
  <2>7. PartialWriteIffMisaligned' = PartialWriteIffMisaligned
    BY <2>1, <2>2 DEF PartialWriteIffMisaligned, WFailed
  <2> QED
    BY <2>1, <2>3, <2>4, <2>5, <2>6, <2>7 DEF WInv, WReturned
<1> QED
  BY <1>1, <1>2, <1>3, <1>4, <1>5, <1>6, <1>7, <1>8, <1>9, <1>10 DEF WNext, WFinished

(* Whatever the io.Writer does and wherever it fails, the writer is where its *)
(* counters say it is, in every state of every call.                          *)
THEOREM WriterInvariance == WSpec => []WInv
<1>1. WInit => WInv
  BY WInitEstablishes
<1>2. WInv /\ [WNext \/ WFinished]_wvars => WInv'
  BY WriteStepKeeps
<1> QED
  BY <1>1, <1>2, PTL DEF WSpec

LEMMA WriterProperties == WInv => BytesWrittenExact /\ PartialWriteIffMisaligned
<1> SUFFICES ASSUME WInv PROVE BytesWrittenExact /\ PartialWriteIffMisaligned
  OBVIOUS
<1>1. CASE WReturned
  BY <1>1 DEF WInv
<1>2. CASE ~ WReturned
  BY <1>2 DEF WInv, WCounted, WReturned, BytesWrittenExact, PartialWriteIffMisaligned,
              WFailed, WSucceeded
<1> QED
  BY <1>1, <1>2

(* bytesWritten is what arrived at the io.Writer, the advertised length on    *)
(* success, and PointsSerialized says which points are out.                   *)
THEOREM BytesWrittenCorrect == WSpec => []BytesWrittenExact
BY WriterInvariance, WriterProperties, PTL

(* PartialWrite tells whether the output ends in the middle of a point.       *)
THEOREM PartialWriteCorrect == WSpec => []PartialWriteIffMisaligned
BY WriterInvariance, WriterProperties, PTL

-----------------------------------------------------------------------------
(* What is on the stream *)

(* As far as the stream reaches, it holds n bytes of this part after pos. *)
ContentsAt(s, pos, part, index, n) ==
  \A k \in 1 .. n : pos + k <= Len(s) => s[pos + k] = <<part, index, k>>

(* A point between its header and its footer. *)
FrameAt(s, start, header, hlen, p, plen, footer, flen) ==
  /\ ContentsAt(s, start + 0, header, 0, hlen)
  /\ ContentsAt(s, start + hlen, "point", p, plen)
  /\ ContentsAt(s, start + (hlen + plen), footer, 0, flen)

BatchFrame(s, f, p) ==
  FrameAt(s, p * FrameLength(f), "singleHeader", f.singleHeader, p, f.point,
          "singleFooter", f.singleFooter)

BatchLayout(s, f) == \A p \in Nat : BatchFrame(s, f, p)

(* The points between the headers and the footer of the slice. *)
SliceStart(f, p) == f.sliceHeader + SizeField + p * SliceFrameLength(f)

SliceFrame(s, f, p) ==
  FrameAt(s, SliceStart(f, p), "perPointHeader", f.perPointHeader, p, f.point,
          "perPointFooter", f.perPointFooter)

SliceLayout(s, f, n) ==
  /\ ContentsAt(s, 0, "sliceHeader", 0, f.sliceHeader)
  /\ ContentsAt(s, f.sliceHeader, "sliceSize", n, SizeField)
  /\ \A p \in 0 .. n - 1 : SliceFrame(s, f, p)
  /\ ContentsAt(s, SliceStart(f, n), "sliceFooter", 0, f.sliceFooter)

SliceFits == L <= MaxInt32 /\ SliceLength(wfmt, L) <= MaxInt32

StreamInv ==
  /\ IF wcall.op = "slice"
       THEN SliceLayout(stream, wfmt, L) /\ Len(stream) <= SliceLength(wfmt, L)
       ELSE BatchLayout(stream, wfmt) /\ Len(stream) <= L * FrameLength(wfmt)
  /\ \E m \in 0 .. L : Sent(m)
  /\ wcall.op = "slice" => SliceFits \/ (stream = <<>> /\ ~ WSucceeded)
  /\ wpc = "panicked" => stream = <<>> /\ werr.kind = "none"
  /\ werr.kind = "none" => ~ werr.partial

(* t is s, and then m bytes of a part. *)
Extension(s, t, part, index, m) ==
  /\ Len(t) = Len(s) + m
  /\ \A k \in 1 .. Len(s) : t[k] = s[k]
  /\ \A k \in 1 .. m : t[Len(s) + k] = <<part, index, k>>

(* A write leaves the layout of the other parts alone. *)
LEMMA ContentsKept ==
  ASSUME NEW s \in Seq(Byte), NEW t, NEW part, NEW index, NEW m \in Nat,
         Extension(s, t, part, index, m),
         NEW pos \in Nat, NEW q, NEW x, NEW k \in Nat, ContentsAt(s, pos, q, x, k),
         \/ pos + k <= Len(s)
         \/ Len(s) + m <= pos
         \/ pos = Len(s) /\ q = part /\ x = index
  PROVE  ContentsAt(t, pos, q, x, k)
<1> SUFFICES ASSUME NEW b \in 1 .. k, pos + b <= Len(t)
             PROVE  t[pos + b] = <<q, x, b>>
  BY DEF ContentsAt
<1>1. Len(s) \in Nat /\ Len(t) = Len(s) + m
  BY LenProperties DEF Extension
<1>2. CASE pos + b <= Len(s)
  <2>1. s[pos + b] = <<q, x, b>>
    BY <1>2 DEF ContentsAt
  <2>2. pos + b \in 1 .. Len(s)
    BY <1>1, <1>2
  <2>3. t[pos + b] = s[pos + b]
    BY <2>2 DEF Extension
  <2> QED
    BY <2>1, <2>3
<1>3. CASE ~ pos + b <= Len(s)
  <2>1. ~ pos + k <= Len(s) /\ ~ Len(s) + m <= pos
    BY <1>1, <1>3
  <2>2. pos = Len(s) /\ q = part /\ x = index /\ b \in 1 .. m
    BY <1>1, <2>1
  <2> QED
    BY <2>2 DEF Extension
<1> QED
  BY <1>2, <1>3

LEMMA NoContents == \A pos \in Nat : \A q, x : \A k \in Nat : ContentsAt(<<>>, pos, q, x, k)
BY DEF ContentsAt

(* Writing a part of one frame leaves the others, and its other parts, alone. *)
FrameWrite(s, own, header, h, q, k, footer, e, part, index, m) ==
  \/ Len(s) = own + 0 /\ part = header /\ index = 0 /\ m <= h
  \/ Len(s) = own + h /\ part = "point" /\ index = q /\ m <= k
  \/ Len(s) = own + (h + k) /\ part = footer /\ index = 0 /\ m <= e

LEMMA FrameWriteBounds ==
  ASSUME NEW s, Len(s) \in Nat, NEW own \in Nat, NEW header, NEW q, NEW footer, NEW part, NEW index,
         NEW h \in Nat, NEW k \in Nat, NEW e \in Nat, NEW m \in Nat,
         FrameWrite(s, own, header, h, q, k, footer, e, part, index, m)
  PROVE  own <= Len(s) /\ Len(s) + m <= own + (h + k + e)
<1>1. CASE Len(s) = own + 0 /\ m <= h
  BY <1>1
<1>2. CASE Len(s) = own + h /\ m <= k
  BY <1>2
<1>3. CASE Len(s) = own + (h + k) /\ m <= e
  BY <1>3
<1> QED
  BY <1>1, <1>2, <1>3 DEF FrameWrite

LEMMA FrameKept ==
  ASSUME NEW s \in Seq(Byte), NEW t, NEW part, NEW index, NEW m \in Nat,
         Extension(s, t, part, index, m),
         NEW start \in Nat, NEW own \in Nat, NEW p, NEW q,
         NEW header, NEW footer, NEW hlen \in Nat, NEW plen \in Nat, NEW flen \in Nat,
         FrameAt(s, start, header, hlen, p, plen, footer, flen),
         \/ start + (hlen + plen + flen) <= own
         \/ own + (hlen + plen + flen) <= start
         \/ start = own /\ p = q,
         FrameWrite(s, own, header, hlen, q, plen, footer, flen, part, index, m)
  PROVE  FrameAt(t, start, header, hlen, p, plen, footer, flen)
<1>1. start + 0 \in Nat /\ start + hlen \in Nat /\ start + (hlen + plen) \in Nat
  OBVIOUS
<1>2. \/ start + (hlen + plen + flen) <= own
      \/ own + (hlen + plen + flen) <= start
      \/ start = own /\ p = q
  OBVIOUS
<1>3. /\ ContentsAt(s, start + 0, header, 0, hlen)
      /\ ContentsAt(s, start + hlen, "point", p, plen)
      /\ ContentsAt(s, start + (hlen + plen), footer, 0, flen)
  BY DEF FrameAt
<1>4. CASE Len(s) = own + 0 /\ part = header /\ index = 0 /\ m <= hlen
  <2>1. ContentsAt(t, start + 0, header, 0, hlen)
    <3>1. \/ start + 0 + hlen <= Len(s) \/ Len(s) + m <= start + 0
          \/ start + 0 = Len(s) /\ start = own /\ p = q
      BY <1>1, <1>2, <1>4
    <3> QED
      BY <1>1, <1>3, <1>4, <3>1, ContentsKept
  <2>2. ContentsAt(t, start + hlen, "point", p, plen)
    <3>1. \/ start + hlen + plen <= Len(s) \/ Len(s) + m <= start + hlen
      BY <1>1, <1>2, <1>4
    <3> QED
      BY <1>1, <1>3, <1>4, <3>1, ContentsKept
  <2>3. ContentsAt(t, start + (hlen + plen), footer, 0, flen)
    <3>1. \/ start + (hlen + plen) + flen <= Len(s) \/ Len(s) + m <= start + (hlen + plen)
      BY <1>1, <1>2, <1>4
    <3> QED
      BY <1>1, <1>3, <1>4, <3>1, ContentsKept
  <2> QED
    BY <2>1, <2>2, <2>3 DEF FrameAt
<1>5. CASE Len(s) = own + hlen /\ part = "point" /\ index = q /\ m <= plen
  <2>1. ContentsAt(t, start + 0, header, 0, hlen)
    <3>1. \/ start + 0 + hlen <= Len(s) \/ Len(s) + m <= start + 0
      BY <1>1, <1>2, <1>5
    <3> QED
      BY <1>1, <1>3, <1>5, <3>1, ContentsKept
  <2>2. ContentsAt(t, start + hlen, "point", p, plen)
    <3>1. \/ start + hlen + plen <= Len(s) \/ Len(s) + m <= start + hlen
          \/ start + hlen = Len(s) /\ start = own /\ p = q
      BY <1>1, <1>2, <1>5
    <3> QED
      BY <1>1, <1>3, <1>5, <3>1, ContentsKept
  <2>3. ContentsAt(t, start + (hlen + plen), footer, 0, flen)
    <3>1. \/ start + (hlen + plen) + flen <= Len(s) \/ Len(s) + m <= start + (hlen + plen)
      BY <1>1, <1>2, <1>5
    <3> QED
      BY <1>1, <1>3, <1>5, <3>1, ContentsKept
  <2> QED
    BY <2>1, <2>2, <2>3 DEF FrameAt
<1>6. CASE Len(s) = own + (hlen + plen) /\ part = footer /\ index = 0 /\ m <= flen
  <2>1. ContentsAt(t, start + 0, header, 0, hlen)
    <3>1. \/ start + 0 + hlen <= Len(s) \/ Len(s) + m <= start + 0
      BY <1>1, <1>2, <1>6
    <3> QED
      BY <1>1, <1>3, <1>6, <3>1, ContentsKept
  <2>2. ContentsAt(t, start + hlen, "point", p, plen)
    <3>1. \/ start + hlen + plen <= Len(s) \/ Len(s) + m <= start + hlen
      BY <1>1, <1>2, <1>6
    <3> QED
      BY <1>1, <1>3, <1>6, <3>1, ContentsKept
  <2>3. ContentsAt(t, start + (hlen + plen), footer, 0, flen)
    <3>1. \/ start + (hlen + plen) + flen <= Len(s) \/ Len(s) + m <= start + (hlen + plen)
          \/ start + (hlen + plen) = Len(s) /\ start = own /\ p = q
      BY <1>1, <1>2, <1>6
    <3> QED
      BY <1>1, <1>3, <1>6, <3>1, ContentsKept
  <2> QED
    BY <2>1, <2>2, <2>3 DEF FrameAt
<1> QED
  BY <1>4, <1>5, <1>6 DEF FrameWrite

(* What SerializeCurvePoint(s) may write for the point q, *)
BatchWrite(s, f, q, part, index, m) ==
  FrameWrite(s, q * FrameLength(f), "singleHeader", f.singleHeader, q, f.point,
             "singleFooter", f.singleFooter, part, index, m)

LEMMA BatchExtended ==
  ASSUME NEW f \in Format, NEW s \in Seq(Byte), NEW t, NEW n \in Nat, NEW q \in 0 .. n - 1,
         NEW part, NEW index, NEW m \in Nat, Extension(s, t, part, index, m),
         BatchLayout(s, f), BatchWrite(s, f, q, part, index, m)
  PROVE  BatchLayout(t, f) /\ Len(t) <= n * FrameLength(f)
<1>1. /\ f.singleHeader \in Nat /\ f.point \in Nat /\ f.singleFooter \in Nat
      /\ FrameLength(f) = f.singleHeader + f.point + f.singleFooter
  BY DEF Format, FrameLength
<1>2. PICK h \in Nat, k \in Nat, e \in Nat :
        h = f.singleHeader /\ k = f.point /\ e = f.singleFooter
  BY <1>1
<1>3. PICK c \in Nat : c = FrameLength(f) /\ c = h + k + e
  BY <1>1, <1>2
<1>4. PICK own \in Nat : own = q * c /\ own + (h + k + e) <= n * c /\ n * c \in Nat
  <2>1. q \in Nat /\ q < n
    OBVIOUS
  <2>2. q * c \in Nat /\ q * c + c <= n * c /\ n * c \in Nat
    BY <1>3, <2>1, FramesBound
  <2> QED
    BY <1>3, <2>2
<1>5. FrameWrite(s, own, "singleHeader", h, q, k, "singleFooter", e, part, index, m)
  BY <1>2, <1>3, <1>4 DEF BatchWrite
<1>6. Len(t) <= n * c
  <2>1. Len(t) = Len(s) + m
    BY DEF Extension
  <2>2. PICK x \in Nat : x = n * c
    BY <1>4
  <2>3. own + (h + k + e) <= x
    BY <1>4, <2>2
  <2>4. Len(s) + m <= own + (h + k + e)
    BY <1>5 DEF FrameWrite
  <2> QED
    BY <2>1, <2>2, <2>3, <2>4, LenProperties
<1>7. ASSUME NEW p \in Nat PROVE BatchFrame(t, f, p)
  <2>1. PICK start \in Nat :
          /\ start = p * c
          /\ start + (h + k + e) <= own \/ own + (h + k + e) <= start \/ (start = own /\ p = q)
    <3>1. p < q => p * c + c <= q * c
      BY <1>3, FramesBound
    <3>2. q < p => q * c + c <= p * c
      BY <1>3, FramesBound
    <3>3. p * c \in Nat /\ (p < q \/ q < p \/ p = q)
      BY <1>3
    <3> QED
      BY <1>3, <1>4, <3>1, <3>2, <3>3
  <2>2. FrameAt(s, start, "singleHeader", h, p, k, "singleFooter", e)
    BY <1>2, <1>3, <2>1 DEF BatchLayout, BatchFrame
  <2>3. FrameAt(t, start, "singleHeader", h, p, k, "singleFooter", e)
    BY <1>4, <1>5, <2>1, <2>2, FrameKept
  <2> QED
    BY <1>2, <1>3, <2>1, <2>3 DEF BatchFrame
<1> QED
  BY <1>3, <1>6, <1>7 DEF BatchLayout

(* and SerializeSlice in front of, for and after the point q. *)
SliceWriteAt(s, f, n, q, part, index, m) ==
  \/ Len(s) = 0 /\ part = "sliceHeader" /\ index = 0 /\ m <= f.sliceHeader
  \/ Len(s) = f.sliceHeader /\ part = "sliceSize" /\ index = n /\ m <= SizeField
  \/ q < n /\ FrameWrite(s, SliceStart(f, q), "perPointHeader", f.perPointHeader, q, f.point,
                        "perPointFooter", f.perPointFooter, part, index, m)
  \/ Len(s) = SliceStart(f, n) /\ part = "sliceFooter" /\ index = 0 /\ m <= f.sliceFooter

(* Where the parts of a slice are. *)
LEMMA SliceStarts ==
  ASSUME NEW f \in Format
  PROVE  /\ \A p \in Nat : SliceStart(f, p) \in Nat /\ f.sliceHeader + SizeField <= SliceStart(f, p)
         /\ \A p, q \in Nat : p < q =>
              SliceStart(f, p) + (f.perPointHeader + f.point + f.perPointFooter) <= SliceStart(f, q)
         /\ \A n \in Nat : SliceLength(f, n) = SliceStart(f, n) + f.sliceFooter
<1> DEFINE c == SliceFrameLength(f)
<1>1. /\ f.sliceHeader \in Nat /\ SizeField \in Nat
      /\ c = f.perPointHeader + f.point + f.perPointFooter /\ c \in Nat
  BY LengthsAssumption DEF Format, SliceFrameLength
<1>2. \A p \in Nat : SliceStart(f, p) = f.sliceHeader + SizeField + p * c
  BY DEF SliceStart
<1>3. \A n \in Nat : SliceLength(f, n) = SliceStart(f, n) + f.sliceFooter
  BY DEF SliceLength, SliceStart
<1> HIDE DEF c
<1>4. \A p \in Nat : p * c \in Nat
  BY <1>1
<1>5. \A p, q \in Nat : p < q => p * c + c <= q * c
  BY <1>1, FramesBound
<1>6. ASSUME NEW p \in Nat
      PROVE  SliceStart(f, p) \in Nat /\ f.sliceHeader + SizeField <= SliceStart(f, p)
  <2>1. p * c \in Nat
    BY <1>4
  <2> QED
    BY <1>1, <1>2, <2>1
<1>7. ASSUME NEW p \in Nat, NEW q \in Nat, p < q
      PROVE  SliceStart(f, p) + c <= SliceStart(f, q)
  <2>1. p * c + c <= q * c /\ p * c \in Nat /\ q * c \in Nat
    BY <1>4, <1>5, <1>7
  <2>2. /\ SliceStart(f, p) = f.sliceHeader + SizeField + p * c
        /\ SliceStart(f, q) = f.sliceHeader + SizeField + q * c
    BY <1>2
  <2> QED
    BY <1>1, <2>1, <2>2
<1> QED
  BY <1>1, <1>3, <1>6, <1>7

(* A frame that is not being written. *)
LEMMA FrameElsewhere ==
  ASSUME NEW s \in Seq(Byte), NEW t, NEW part, NEW index, NEW m \in Nat,
         Extension(s, t, part, index, m),
         NEW start \in Nat, NEW p, NEW header, NEW footer,
         NEW h \in Nat, NEW k \in Nat, NEW e \in Nat,
         FrameAt(s, start, header, h, p, k, footer, e),
         Len(s) + m <= start \/ start + (h + k + e) <= Len(s)
  PROVE  FrameAt(t, start, header, h, p, k, footer, e)
<1>1. Len(s) \in Nat
  BY LenProperties
<1>2. ContentsAt(t, start + 0, header, 0, h)
  <2>1. start + 0 + h <= Len(s) \/ Len(s) + m <= start + 0
    BY <1>1
  <2> QED
    BY start + 0 \in Nat, <2>1, ContentsKept DEF FrameAt
<1>3. ContentsAt(t, start + h, "point", p, k)
  <2>1. start + h + k <= Len(s) \/ Len(s) + m <= start + h
    BY <1>1
  <2> QED
    BY start + h \in Nat, <2>1, ContentsKept DEF FrameAt
<1>4. ContentsAt(t, start + (h + k), footer, 0, e)
  <2>1. start + (h + k) + e <= Len(s) \/ Len(s) + m <= start + (h + k)
    BY <1>1
  <2> QED
    BY start + (h + k) \in Nat, <2>1, ContentsKept DEF FrameAt
<1> QED
  BY <1>2, <1>3, <1>4 DEF FrameAt

(* The parts of a slice of n points, of lengths a, z, h, k, e and b. *)
SliceParts(s, n, a, z, start, h, k, e, b) ==
  /\ ContentsAt(s, 0, "sliceHeader", 0, a)
  /\ ContentsAt(s, a, "sliceSize", n, z)
  /\ \A p \in 0 .. n - 1 :
       FrameAt(s, start[p], "perPointHeader", h, p, k, "perPointFooter", e)
  /\ ContentsAt(s, start[n], "sliceFooter", 0, b)

SlicePartWrite(s, n, a, z, start, h, k, e, b, q, part, index, m) ==
  \/ Len(s) = 0 /\ part = "sliceHeader" /\ index = 0 /\ m <= a
  \/ Len(s) = a /\ part = "sliceSize" /\ index = n /\ m <= z
  \/ /\ q < n
     /\ FrameWrite(s, start[q], "perPointHeader", h, q, k, "perPointFooter", e, part, index, m)
  \/ Len(s) = start[n] /\ part = "sliceFooter" /\ index = 0 /\ m <= b

(* Frames of length c begin at start, behind the first base bytes. *)
Frames(start, base, c) ==
  /\ start \in [Nat -> Nat]
  /\ \A p \in Nat : base <= start[p]
  /\ \A p, r \in Nat : p < r => start[p] + c <= start[r]

LEMMA SlicePartsExtended ==
  ASSUME NEW s \in Seq(Byte), NEW t, NEW part, NEW index, NEW m \in Nat,
         Extension(s, t, part, index, m), NEW n \in Nat, NEW q \in Nat,
         NEW a \in Nat, NEW z \in Nat, NEW h \in Nat, NEW k \in Nat, NEW e \in Nat, NEW b \in Nat,
         NEW start, Frames(start, a + z, h + k + e),
         SliceParts(s, n, a, z, start, h, k, e, b),
         SlicePartWrite(s, n, a, z, start, h, k, e, b, q, part, index, m)
  PROVE  SliceParts(t, n, a, z, start, h, k, e, b) /\ Len(t) <= start[n] + b
<1>1. PICK end \in Nat : end = start[n] /\ a + z <= end
  BY DEF Frames
<1>2. /\ ContentsAt(s, 0, "sliceHeader", 0, a)
      /\ ContentsAt(s, a, "sliceSize", n, z)
      /\ ContentsAt(s, end, "sliceFooter", 0, b)
      /\ \A p \in 0 .. n - 1 :
           FrameAt(s, start[p], "perPointHeader", h, p, k, "perPointFooter", e)
  BY <1>1 DEF SliceParts
<1>3. Len(t) = Len(s) + m /\ Len(s) \in Nat
  BY LenProperties DEF Extension
<1>4. ASSUME ContentsAt(t, 0, "sliceHeader", 0, a),
             ContentsAt(t, a, "sliceSize", n, z),
             ContentsAt(t, end, "sliceFooter", 0, b),
             \A p \in 0 .. n - 1 :
               FrameAt(t, start[p], "perPointHeader", h, p, k, "perPointFooter", e),
             Len(s) + m <= end + b
      PROVE  SliceParts(t, n, a, z, start, h, k, e, b) /\ Len(t) <= start[n] + b
  BY <1>1, <1>3, <1>4 DEF SliceParts
<1>5. ASSUME NEW p \in 0 .. n - 1
      PROVE  a + z <= start[p] /\ start[p] \in Nat /\ start[p] + (h + k + e) <= end
  BY <1>1, p \in Nat, p < n DEF Frames
<1>6. ASSUME Len(s) = 0, part = "sliceHeader", index = 0, m <= a
      PROVE  SliceParts(t, n, a, z, start, h, k, e, b) /\ Len(t) <= start[n] + b
  <2>1. ContentsAt(t, 0, "sliceHeader", 0, a)
    <3>1. 0 = Len(s) /\ "sliceHeader" = part /\ 0 = index /\ 0 \in Nat
      BY <1>6
    <3> QED
      BY <1>2, <3>1, ContentsKept
  <2>2. Len(s) + m <= a /\ Len(s) + m <= end /\ Len(s) + m <= end + b
    BY <1>1, <1>6
  <2>3. ContentsAt(t, a, "sliceSize", n, z) /\ ContentsAt(t, end, "sliceFooter", 0, b)
    BY <1>2, <2>2, ContentsKept
  <2>4. ASSUME NEW p \in 0 .. n - 1
        PROVE  FrameAt(t, start[p], "perPointHeader", h, p, k, "perPointFooter", e)
    <3>1. Len(s) + m <= start[p]
      BY <1>3, <1>5, <2>2
    <3> QED
      BY <1>2, <1>5, <3>1, FrameElsewhere
  <2> QED
    BY <1>4, <2>1, <2>2, <2>3, <2>4
<1>7. ASSUME Len(s) = a, part = "sliceSize", index = n, m <= z
      PROVE  SliceParts(t, n, a, z, start, h, k, e, b) /\ Len(t) <= start[n] + b
  <2>1. ContentsAt(t, a, "sliceSize", n, z)
    BY <1>2, <1>7, ContentsKept
  <2>2. 0 + a <= Len(s) /\ Len(s) + m <= end /\ Len(s) + m <= end + b /\ Len(s) + m <= a + z
    BY <1>1, <1>7
  <2>3. ContentsAt(t, 0, "sliceHeader", 0, a) /\ ContentsAt(t, end, "sliceFooter", 0, b)
    BY <1>2, <2>2, ContentsKept
  <2>4. ASSUME NEW p \in 0 .. n - 1
        PROVE  FrameAt(t, start[p], "perPointHeader", h, p, k, "perPointFooter", e)
    <3>1. Len(s) + m <= start[p]
      BY <1>3, <1>5, <2>2
    <3> QED
      BY <1>2, <1>5, <3>1, FrameElsewhere
  <2> QED
    BY <1>4, <2>1, <2>2, <2>3, <2>4
<1>8. ASSUME Len(s) = end, part = "sliceFooter", index = 0, m <= b
      PROVE  SliceParts(t, n, a, z, start, h, k, e, b) /\ Len(t) <= start[n] + b
  <2>1. ContentsAt(t, end, "sliceFooter", 0, b)
    BY <1>2, <1>8, ContentsKept
  <2>2. 0 + a <= Len(s) /\ a + z <= Len(s) /\ Len(s) + m <= end + b
    BY <1>1, <1>8
  <2>3. ContentsAt(t, 0, "sliceHeader", 0, a) /\ ContentsAt(t, a, "sliceSize", n, z)
    BY <1>2, <2>2, ContentsKept
  <2>4. ASSUME NEW p \in 0 .. n - 1
        PROVE  FrameAt(t, start[p], "perPointHeader", h, p, k, "perPointFooter", e)
    <3>1. start[p] + (h + k + e) <= Len(s)
      BY <1>5, <1>8
    <3> QED
      BY <1>2, <1>5, <3>1, FrameElsewhere
  <2> QED
    BY <1>4, <2>1, <2>2, <2>3, <2>4
<1>9. ASSUME q < n,
             FrameWrite(s, start[q], "perPointHeader", h, q, k, "perPointFooter", e, part, index, m)
      PROVE  SliceParts(t, n, a, z, start, h, k, e, b) /\ Len(t) <= start[n] + b
  <2>1. PICK own \in Nat : own = start[q] /\ own + (h + k + e) <= end /\ a + z <= own
    BY <1>1, <1>9 DEF Frames
  <2>2. own <= Len(s) /\ Len(s) + m <= own + (h + k + e)
    BY <1>3, <1>9, <2>1, FrameWriteBounds
  <2>3. 0 + a <= Len(s) /\ a + z <= Len(s) /\ Len(s) + m <= end /\ Len(s) + m <= end + b
    <3>1. PICK x \in Nat : x = Len(s)
      BY <1>3
    <3>2. PICK c \in Nat : c = h + k + e
      OBVIOUS
    <3>3. own <= x /\ x + m <= own + c /\ own + c <= end /\ a + z <= own
      BY <2>1, <2>2, <3>1, <3>2
    <3>4. a <= x /\ a + z <= x /\ x + m <= end /\ x + m <= end + b
      BY <3>3
    <3> QED
      BY <3>1, <3>4
  <2>4. /\ ContentsAt(t, 0, "sliceHeader", 0, a) /\ ContentsAt(t, a, "sliceSize", n, z)
        /\ ContentsAt(t, end, "sliceFooter", 0, b)
    BY <1>2, <2>3, ContentsKept
  <2>5. ASSUME NEW p \in 0 .. n - 1
        PROVE  FrameAt(t, start[p], "perPointHeader", h, p, k, "perPointFooter", e)
    <3>1. PICK at \in Nat : at = start[p]
      BY <1>5
    <3>2. at + (h + k + e) <= own \/ own + (h + k + e) <= at \/ (at = own /\ p = q)
      BY <2>1, <3>1, p \in Nat, p < q \/ q < p \/ p = q DEF Frames
    <3>3. FrameAt(t, at, "perPointHeader", h, p, k, "perPointFooter", e)
      BY <1>2, <1>9, <2>1, <3>1, <3>2, FrameKept
    <3> QED
      BY <3>1, <3>3
  <2> QED
    BY <1>4, <2>3, <2>4, <2>5
<1> QED
  BY <1>1, <1>6, <1>7, <1>8, <1>9 DEF SlicePartWrite

LEMMA SliceExtended ==
  ASSUME NEW f \in Format, NEW s \in Seq(Byte), NEW t, NEW n \in Nat, NEW q \in Nat,
         NEW part, NEW index, NEW m \in Nat, Extension(s, t, part, index, m),
         SliceLayout(s, f, n), SliceWriteAt(s, f, n, q, part, index, m)
  PROVE  SliceLayout(t, f, n) /\ Len(t) <= SliceLength(f, n)
<1> DEFINE start == [p \in Nat |-> SliceStart(f, p)]
<1>1. PICK a \in Nat, z \in Nat, h \in Nat, k \in Nat, e \in Nat, b \in Nat :
        /\ a = f.sliceHeader /\ z = SizeField /\ b = f.sliceFooter
        /\ h = f.perPointHeader /\ k = f.point /\ e = f.perPointFooter
  BY LengthsAssumption DEF Format
<1>2. start \in [Nat -> Nat] /\ \A p \in Nat : start[p] = SliceStart(f, p)
  BY SliceStarts
<1> HIDE DEF start
<1>3. Frames(start, a + z, h + k + e) /\ SliceLength(f, n) = start[n] + b
  BY <1>1, <1>2, SliceStarts DEF Frames
<1>4. \A x : SliceLayout(x, f, n) <=> SliceParts(x, n, a, z, start, h, k, e, b)
  BY <1>1, <1>2, \A p \in 0 .. n - 1 : p \in Nat DEF SliceLayout, SliceFrame, SliceParts
<1>5. SlicePartWrite(s, n, a, z, start, h, k, e, b, q, part, index, m)
  BY <1>1, <1>2 DEF SliceWriteAt, SlicePartWrite
<1>6. SliceParts(t, n, a, z, start, h, k, e, b) /\ Len(t) <= start[n] + b
  BY <1>3, <1>4, <1>5, SlicePartsExtended
<1> QED
  BY <1>3, <1>4, <1>6

-----------------------------------------------------------------------------
(* The stream is laid out as advertised, wherever the writer stops *)

LEMMA SomeSent ==
  ASSUME WTypeInv, \E k \in 0 .. L : Sent(k), UNCHANGED <<wfmt, wcall>>,
         NEW part \in StreamParts, NEW index \in Nat, NEW m \in Nat, Put(part, index, m),
         part = "point" => index < L /\ Sent(index)
  PROVE  /\ \E k \in 0 .. L : Sent(k)'
         /\ Extension(stream, stream', part, index, m)
<1>1. L \in Nat
  BY WriteCallFacts
<1>2. Extension(stream, stream', part, index, m)
  BY PutFacts DEF Extension
<1>3. PICK k \in 0 .. L : Sent(k)
  OBVIOUS
<1>4. k \in Nat
  BY <1>1
<1>5. CASE part # "point"
  <2>1. part \in StreamParts \ {"point"}
    BY <1>5
  <2>2. Sent(k)'
    BY <1>3, <1>4, <2>1, SentAfter
  <2> QED
    BY <1>2, <2>2
<1>6. CASE part = "point"
  <2>1. index < L /\ Sent(index)
    BY <1>6
  <2>2. IF wfmt.point <= m THEN Sent(index + 1)' ELSE Sent(index)'
    BY <1>6, <2>1, SentAfter
  <2>3. index \in 0 .. L /\ index + 1 \in 0 .. L
    BY <1>1, <2>1
  <2> QED
    BY <1>2, <2>2, <2>3
<1> QED
  BY <1>5, <1>6

LEMMA BatchPut ==
  ASSUME WInv, StreamInv, wcall.op # "slice", j < L,
         NEW part \in StreamParts, NEW index \in Nat, NEW m \in Nat, Put(part, index, m),
         part = "point" => index = j /\ Sent(j),
         BatchWrite(stream, wfmt, j, part, index, m),
         UNCHANGED <<wfmt, wcall, werr>>, wpc' # "panicked"
  PROVE  StreamInv'
<1>1. WTypeInv /\ wfmt \in Format /\ L \in Nat /\ j \in Nat /\ stream \in Seq(Byte)
  BY WriteCallFacts DEF WInv
<1>2. (\E k \in 0 .. L : Sent(k)') /\ Extension(stream, stream', part, index, m)
  BY <1>1, SomeSent DEF StreamInv
<1>3. BatchLayout(stream', wfmt) /\ Len(stream') <= L * FrameLength(wfmt)
  BY <1>1, <1>2, BatchExtended, j \in 0 .. L - 1 DEF StreamInv
<1>4. L' = L /\ FrameLength(wfmt)' = FrameLength(wfmt) /\ BatchLayout(stream, wfmt)' = BatchLayout(stream', wfmt)
  BY DEF L, FrameLength, BatchLayout, BatchFrame
<1> QED
  BY <1>2, <1>3, <1>4 DEF StreamInv, Sent

LEMMA SlicePut ==
  ASSUME WInv, StreamInv, wpc \in WSlicePCs,
         NEW part \in StreamParts, NEW index \in Nat, NEW m \in Nat, Put(part, index, m),
         part = "point" => index = j /\ j < L /\ Sent(j),
         SliceWriteAt(stream, wfmt, L, j, part, index, m),
         UNCHANGED <<wfmt, wcall>>, wpc' # "panicked",
         werr'.kind = "none" => werr' = werr
  PROVE  StreamInv'
<1>1. WTypeInv /\ wfmt \in Format /\ L \in Nat /\ j \in Nat /\ stream \in Seq(Byte)
  BY WriteCallFacts DEF WInv
<1>2. wcall.op = "slice" /\ SliceFits /\ werr = NoWriteError
  BY DEF WInv, WSlicePosition, SliceFits
<1>3. (\E k \in 0 .. L : Sent(k)') /\ Extension(stream, stream', part, index, m)
  BY <1>1, SomeSent DEF StreamInv
<1>4. SliceLayout(stream', wfmt, L) /\ Len(stream') <= SliceLength(wfmt, L)
  BY <1>1, <1>2, <1>3, SliceExtended DEF StreamInv
<1>5. /\ L' = L /\ SliceLength(wfmt, L)' = SliceLength(wfmt, L)
      /\ SliceLayout(stream, wfmt, L)' = SliceLayout(stream', wfmt, L)
  BY DEF L, SliceLength, SliceFrameLength, SliceLayout, SliceFrame, SliceStart
<1>6. werr'.kind = "none" => ~ werr'.partial
  BY <1>2 DEF NoWriteError
<1>7. SliceFits'
  BY <1>2, <1>5 DEF SliceFits
<1> QED
  BY <1>2, <1>3, <1>4, <1>5, <1>6, <1>7 DEF StreamInv, Sent

LEMMA NothingPut ==
  ASSUME StreamInv, UNCHANGED <<wfmt, wcall, stream>>,
         wcall.op = "slice" => SliceFits \/ ~ WSucceeded',
         wpc' = "panicked" => stream = <<>> /\ werr'.kind = "none",
         werr'.kind = "none" => ~ werr'.partial
  PROVE  StreamInv'
<1>1. /\ L' = L /\ FrameLength(wfmt)' = FrameLength(wfmt) /\ PointsOut' = PointsOut
      /\ SliceLength(wfmt, L)' = SliceLength(wfmt, L)
      /\ BatchLayout(stream, wfmt)' = BatchLayout(stream, wfmt)
      /\ SliceLayout(stream, wfmt, L)' = SliceLayout(stream, wfmt, L)
  BY DEF L, FrameLength, SliceLength, SliceFrameLength, PointsOut, BatchLayout, BatchFrame,
         SliceLayout, SliceFrame, SliceStart
<1>2. SliceFits' = SliceFits
  BY <1>1 DEF SliceFits
<1>3. wcall.op = "slice" => SliceFits \/ (stream = <<>> /\ ~ WSucceeded')
  BY DEF StreamInv
<1> QED
  BY <1>1, <1>2, <1>3 DEF StreamInv, Sent

LEMMA NoLayoutYet ==
  ASSUME WInit
  PROVE  StreamInv
<1>1. WTypeInv /\ stream = <<>> /\ wpc = "start" /\ werr = NoWriteError
  BY WInitEstablishes DEF WInv, WInit
<1>2. /\ wfmt \in Format /\ L \in Nat /\ FrameLength(wfmt) \in Nat
      /\ wfmt.singleHeader \in Nat /\ wfmt.singleFooter \in Nat /\ wfmt.point \in Nat
      /\ wfmt.sliceHeader \in Nat /\ wfmt.sliceFooter \in Nat /\ SizeField \in Nat
      /\ wfmt.perPointHeader \in Nat /\ wfmt.perPointFooter \in Nat
  BY <1>1, WriteCallFacts
<1>3. L * FrameLength(wfmt) \in Nat /\ SliceLength(wfmt, L) \in Nat
  <2>1. L * FrameLength(wfmt) \in Nat
    BY <1>2
  <2>2. SliceLength(wfmt, L) \in Nat
    BY <1>2, SliceLengthSum
  <2> QED
    BY <2>1, <2>2
<1>4. \A pos \in Nat : \A p, header, footer : \A h, k, e \in Nat :
        FrameAt(<<>>, pos, header, h, p, k, footer, e)
  BY NoContents DEF FrameAt
<1>5. BatchLayout(<<>>, wfmt)
  <2>1. \A p \in Nat : p * FrameLength(wfmt) \in Nat
    BY <1>2
  <2> QED
    BY <1>2, <1>4, <2>1 DEF BatchLayout, BatchFrame
<1>6. SliceLayout(<<>>, wfmt, L)
  <2>1. \A p \in Nat : SliceStart(wfmt, p) \in Nat
    BY <1>2, SliceStarts
  <2> QED
    BY <1>2, <1>4, <2>1, NoContents, \A p \in 0 .. L - 1 : p \in Nat DEF SliceLayout, SliceFrame
<1>7. Sent(0) /\ 0 \in 0 .. L
  BY <1>1, <1>2 DEF Sent, PointsOut
<1> QED
  BY <1>1, <1>3, <1>5, <1>6, <1>7 DEF StreamInv, WSucceeded, NoWriteError

LEMMA SingleWriteKeepsLayout ==
  ASSUME WInv, StreamInv, NEW r,
         \/ r \in WriteFull(wfmt.singleHeader) /\ WriteSingleHeader(r)
         \/ WriteSinglePoint(r)
         \/ r \in WriteFull(wfmt.singleFooter) /\ WriteSingleFooter(r)
  PROVE  StreamInv'
<1>1. wpc \in {"singleHeader", "singlePoint", "singleFooter"}
  BY DEF WriteSingleHeader, WriteSinglePoint, WriteSingleFooter
<1>2. WTypeInv /\ WCounted /\ WSinglePosition
  BY <1>1 DEF WInv, WSinglePCs
<1>3. /\ wfmt.singleHeader \in Nat /\ wfmt.point \in Nat /\ wfmt.singleFooter \in Nat
      /\ j \in Nat /\ wcall.op # "slice" /\ j < L /\ FrameLength(wfmt) \in Nat
  BY <1>2, WriteCallFacts DEF WSinglePosition
<1>4. PICK own \in Nat : own = j * FrameLength(wfmt)
  BY <1>3
<1>5. Len(stream) = own + wsub.n
  BY <1>2, <1>4 DEF WCounted, WSinglePosition
<1>6. ASSUME r \in WriteFull(wfmt.singleHeader), WriteSingleHeader(r)
      PROVE  StreamInv'
  <2>1. Writes(r, wfmt.singleHeader) /\ wsub.n = 0
    BY <1>2, <1>3, <1>6, WriteResults DEF WriteSingleHeader, WSinglePosition
  <2>2. BatchWrite(stream, wfmt, j, "singleHeader", 0, r.n) /\ r.n \in Nat
    BY <1>4, <1>5, <2>1 DEF BatchWrite, FrameWrite, Writes
  <2> QED
    BY <1>3, <1>6, <2>2, BatchPut DEF WriteSingleHeader, StreamParts
<1>7. ASSUME WriteSinglePoint(r)
      PROVE  StreamInv'
  <2>1. Writes(r, wfmt.point) /\ wsub.n = wfmt.singleHeader /\ Sent(j)
    BY <1>2, <1>3, <1>7, WriteResults DEF WriteSinglePoint, WSinglePosition
  <2>2. BatchWrite(stream, wfmt, j, "point", j, r.n) /\ r.n \in Nat
    BY <1>4, <1>5, <2>1 DEF BatchWrite, FrameWrite, Writes
  <2> QED
    BY <1>3, <1>7, <2>1, <2>2, BatchPut DEF WriteSinglePoint, StreamParts
<1>8. ASSUME r \in WriteFull(wfmt.singleFooter), WriteSingleFooter(r)
      PROVE  StreamInv'
  <2>1. Writes(r, wfmt.singleFooter) /\ wsub.n = wfmt.singleHeader + wfmt.point
    BY <1>2, <1>3, <1>8, WriteResults DEF WriteSingleFooter, WSinglePosition
  <2>2. BatchWrite(stream, wfmt, j, "singleFooter", 0, r.n) /\ r.n \in Nat
    BY <1>4, <1>5, <2>1 DEF BatchWrite, FrameWrite, Writes
  <2> QED
    BY <1>3, <1>8, <2>2, BatchPut DEF WriteSingleFooter, StreamParts
<1> QED
  BY <1>6, <1>7, <1>8

LEMMA SliceWriteKeepsLayout ==
  ASSUME WInv, StreamInv, WInv', NEW r,
         \/ r \in WriteFull(wfmt.sliceHeader) /\ WriteSliceHeader(r)
         \/ r \in WriteFull(SizeField) /\ WriteSliceSize(r)
         \/ r \in WriteFull(wfmt.perPointHeader) /\ WritePerPointHeader(r)
         \/ WritePoint(r)
         \/ r \in WriteFull(wfmt.perPointFooter) /\ WritePerPointFooter(r)
         \/ r \in WriteFull(wfmt.sliceFooter) /\ WriteSliceFooter(r)
  PROVE  StreamInv'
<1>1. wpc \in WSlicePCs
  BY DEF WriteSliceHeader, WriteSliceSize, WritePerPointHeader, WritePoint, WritePerPointFooter,
         WriteSliceFooter, WSlicePCs, WFramePCs
<1>2. WTypeInv /\ WCounted /\ WSlicePosition
  BY <1>1 DEF WInv
<1>3. /\ wfmt.sliceHeader \in Nat /\ wfmt.sliceFooter \in Nat /\ SizeField \in Nat /\ wfmt \in Format
      /\ wfmt.perPointHeader \in Nat /\ wfmt.point \in Nat /\ wfmt.perPointFooter \in Nat
      /\ j \in Nat /\ L \in Nat /\ wret \in Nat /\ wcall.op = "slice" /\ stream \in Seq(Byte)
  BY <1>2, WriteCallFacts DEF WSlicePosition
<1>4. PICK own \in Nat : own = SliceStart(wfmt, j) /\ own = WBeforePoint
  BY <1>3, SliceStarts DEF SliceStart, WBeforePoint
<1>5. Len(stream) = wret
  BY <1>2, <1>3 DEF WCounted, WSlicePosition
<1>6. UNCHANGED <<wfmt, wcall>> /\ (werr'.kind = "none" => werr' = werr)
  BY DEF WriteSliceHeader, WriteSliceSize, WritePerPointHeader, WritePoint, WritePerPointFooter,
         WriteSliceFooter, SliceWrite, WFail
<1>7. wpc' # "panicked"
  <2>1. CASE wpc # "sliceFooter"
    BY <2>1 DEF WriteSliceHeader, WriteSliceSize, WritePerPointHeader, WritePoint,
                WritePerPointFooter, WriteSliceFooter, SliceWrite, AfterSliceWriting
  <2>2. CASE wpc = "sliceFooter"
    <3>1. wret # 0
      BY <2>2, FrameFacts
    <3>2. PICK m \in Nat : Put("sliceFooter", 0, m)
      <4>1. WriteSliceFooter(r) /\ r \in WriteFull(wfmt.sliceFooter)
        BY <2>2 DEF WriteSliceHeader, WriteSliceSize, WritePerPointHeader, WritePoint,
                    WritePerPointFooter
      <4> QED
        BY <1>3, <4>1, WriteResults DEF WriteSliceFooter, Writes
    <3>3. Len(stream') = Len(stream) + m
      BY <1>2, <1>6, <3>2, PutFacts DEF StreamParts
    <3>4. stream' # <<>>
      BY <1>3, <1>5, <3>1, <3>3
    <3>5. wpc' = "panicked" => BytesWrittenExact'
      BY DEF WInv, WReturned
    <3> QED
      BY <1>3, <1>6, <3>4, <3>5 DEF BytesWrittenExact
  <2> QED
    BY <2>1, <2>2
<1>8. ASSUME NEW part \in StreamParts, NEW index \in Nat, Put(part, index, r.n), r.n \in Nat,
             part = "point" => index = j /\ j < L /\ Sent(j),
             SliceWriteAt(stream, wfmt, L, j, part, index, r.n)
      PROVE  StreamInv'
  BY <1>1, <1>6, <1>7, <1>8, SlicePut
<1>9. ASSUME r \in WriteFull(wfmt.sliceHeader), WriteSliceHeader(r)
      PROVE  StreamInv'
  <2>1. Writes(r, wfmt.sliceHeader) /\ Len(stream) = 0
    BY <1>2, <1>3, <1>5, <1>9, WriteResults DEF WriteSliceHeader, WSlicePosition
  <2>2. SliceWriteAt(stream, wfmt, L, j, "sliceHeader", 0, r.n) /\ r.n \in Nat
    BY <2>1 DEF SliceWriteAt, Writes
  <2> QED
    BY <1>8, <1>9, <2>2 DEF WriteSliceHeader, StreamParts
<1>10. ASSUME r \in WriteFull(SizeField), WriteSliceSize(r)
       PROVE  StreamInv'
  <2>1. Writes(r, SizeField) /\ Len(stream) = wfmt.sliceHeader
    BY <1>2, <1>3, <1>5, <1>10, WriteResults DEF WriteSliceSize, WSlicePosition
  <2>2. SliceWriteAt(stream, wfmt, L, j, "sliceSize", L, r.n) /\ r.n \in Nat
    BY <2>1 DEF SliceWriteAt, Writes
  <2> QED
    BY <1>3, <1>8, <1>10, <2>2 DEF WriteSliceSize, StreamParts
<1>11. ASSUME NEW part, NEW index \in Nat, r.n \in Nat, j < L,
              FrameWrite(stream, own, "perPointHeader", wfmt.perPointHeader, j, wfmt.point,
                         "perPointFooter", wfmt.perPointFooter, part, index, r.n)
       PROVE  SliceWriteAt(stream, wfmt, L, j, part, index, r.n)
  BY <1>4, <1>11 DEF SliceWriteAt
<1>12. ASSUME r \in WriteFull(wfmt.perPointHeader), WritePerPointHeader(r)
       PROVE  StreamInv'
  <2>1. Writes(r, wfmt.perPointHeader) /\ Len(stream) = own /\ j < L
    BY <1>2, <1>3, <1>4, <1>5, <1>12, WriteResults DEF WritePerPointHeader, WSlicePosition, WFramePCs
  <2>2. SliceWriteAt(stream, wfmt, L, j, "perPointHeader", 0, r.n) /\ r.n \in Nat
    BY <1>11, <2>1 DEF FrameWrite, Writes
  <2> QED
    BY <1>8, <1>12, <2>2 DEF WritePerPointHeader, StreamParts
<1>13. ASSUME WritePoint(r)
       PROVE  StreamInv'
  <2>1. Writes(r, wfmt.point) /\ Len(stream) = own + wfmt.perPointHeader /\ j < L /\ Sent(j)
    BY <1>2, <1>3, <1>4, <1>5, <1>13, WriteResults DEF WritePoint, WSlicePosition, WFramePCs
  <2>2. SliceWriteAt(stream, wfmt, L, j, "point", j, r.n) /\ r.n \in Nat
    BY <1>3, <1>11, <2>1 DEF FrameWrite, Writes
  <2> QED
    BY <1>3, <1>8, <1>13, <2>1, <2>2 DEF WritePoint, StreamParts
<1>14. ASSUME r \in WriteFull(wfmt.perPointFooter), WritePerPointFooter(r)
       PROVE  StreamInv'
  <2>1. Writes(r, wfmt.perPointFooter) /\ Len(stream) = own + (wfmt.perPointHeader + wfmt.point) /\ j < L
    BY <1>2, <1>3, <1>4, <1>5, <1>14, WriteResults DEF WritePerPointFooter, WSlicePosition, WFramePCs
  <2>2. SliceWriteAt(stream, wfmt, L, j, "perPointFooter", 0, r.n) /\ r.n \in Nat
    BY <1>11, <2>1 DEF FrameWrite, Writes
  <2> QED
    BY <1>8, <1>14, <2>2 DEF WritePerPointFooter, StreamParts
<1>15. ASSUME r \in WriteFull(wfmt.sliceFooter), WriteSliceFooter(r)
       PROVE  StreamInv'
  <2>1. Writes(r, wfmt.sliceFooter) /\ Len(stream) = SliceStart(wfmt, L)
    BY <1>2, <1>3, <1>4, <1>5, <1>15, WriteResults DEF WriteSliceFooter, WSlicePosition
  <2>2. SliceWriteAt(stream, wfmt, L, j, "sliceFooter", 0, r.n) /\ r.n \in Nat
    BY <2>1 DEF SliceWriteAt, Writes
  <2> QED
    BY <1>8, <1>15, <2>2 DEF WriteSliceFooter, StreamParts
<1> QED
  BY <1>9, <1>10, <1>12, <1>13, <1>14, <1>15

LEMMA LayoutKept == WInv /\ WInv' /\ StreamInv /\ [WNext \/ WFinished]_wvars => StreamInv'
<1> SUFFICES ASSUME WInv, WInv', StreamInv, [WNext \/ WFinished]_wvars PROVE StreamInv'
  OBVIOUS
<1>1. CASE UNCHANGED wvars
  BY <1>1, NothingPut DEF wvars, StreamInv, WSucceeded
<1>2. CASE StartWrite
  <2>1. stream = <<>> /\ UNCHANGED <<wfmt, wcall, stream>> /\ werr = NoWriteError /\ WTypeInv
    BY <1>2 DEF StartWrite, WInv, NothingWritten
  <2>2. L \in Nat /\ MaxInt32 \in Nat /\ wcall.op \in {"point", "points", "slice"}
    BY <2>1, WriteCallFacts, LengthsAssumption
  <2>3. L > MaxInt32 <=> ~ L <= MaxInt32
    BY <2>2
  <2>4. \/ werr' = werr /\ (wcall.op = "slice" => wpc' # "done")
        \/ wpc' = "done" /\ werr' = [kind |-> "Overflow", partial |-> FALSE, points |-> 0]
    <3>1. CASE wcall.op = "point"
      BY <1>2, <3>1 DEF StartWrite
    <3>2. CASE wcall.op = "points"
      BY <1>2, <3>2 DEF StartWrite
    <3>3. CASE wcall.op = "slice" /\ L <= MaxInt32
      BY <1>2, <2>3, <3>3 DEF StartWrite, WFail
    <3>4. CASE wcall.op = "slice" /\ ~ L <= MaxInt32
      BY <1>2, <2>3, <3>4 DEF StartWrite, WFail
    <3> QED
      BY <2>2, <3>1, <3>2, <3>3, <3>4
  <2>5. werr'.kind = "none" => ~ werr'.partial
    BY <2>1, <2>4 DEF NoWriteError
  <2>6. wcall.op = "slice" => ~ WSucceeded'
    BY <2>4 DEF WSucceeded
  <2>7. wpc' = "panicked" => werr'.kind = "none"
    BY <2>1, <2>4 DEF NoWriteError
  <2> QED
    BY <2>1, <2>5, <2>6, <2>7, NothingPut
<1>3. CASE ReturnWrite \/ ReturnWriteToLoop
  <2>1. WSinglePosition /\ WTypeInv /\ wpc = "singleReturn"
    BY <1>3 DEF WInv, ReturnWrite, ReturnWriteToLoop, WSinglePCs
  <2>2. UNCHANGED <<wfmt, wcall, stream>> /\ wpc' # "panicked" /\ wcall.op # "slice"
    BY <1>3 DEF ReturnWrite, ReturnWriteToLoop, AfterWriting
  <2>3. wsub.kind = "none" => ~ wsub.partial
    BY <2>1 DEF WSinglePosition
  <2>4. werr'.kind = "none" => ~ werr'.partial
    BY <1>3, <2>1, <2>3 DEF ReturnWrite, ReturnWriteToLoop, WFail, WSinglePosition, NoWriteError
  <2> QED
    BY <2>2, <2>4, NothingPut
<1>4. ASSUME NEW r, WriteSinglePoint(r) \/ WritePoint(r)
      PROVE  StreamInv'
  BY <1>4, SingleWriteKeepsLayout, SliceWriteKeepsLayout
<1>5. ASSUME NEW r \in WriteFull(wfmt.singleHeader), WriteSingleHeader(r) PROVE StreamInv'
  BY <1>5, SingleWriteKeepsLayout
<1>6. ASSUME NEW r \in WriteFull(wfmt.singleFooter), WriteSingleFooter(r) PROVE StreamInv'
  BY <1>6, SingleWriteKeepsLayout
<1>7. ASSUME NEW r \in WriteFull(wfmt.sliceHeader), WriteSliceHeader(r) PROVE StreamInv'
  BY <1>7, SliceWriteKeepsLayout
<1>8. ASSUME NEW r \in WriteFull(SizeField), WriteSliceSize(r) PROVE StreamInv'
  BY <1>8, SliceWriteKeepsLayout
<1>9. ASSUME NEW r \in WriteFull(wfmt.perPointHeader), WritePerPointHeader(r) PROVE StreamInv'
  BY <1>9, SliceWriteKeepsLayout
<1>10. ASSUME NEW r \in WriteFull(wfmt.perPointFooter), WritePerPointFooter(r) PROVE StreamInv'
  BY <1>10, SliceWriteKeepsLayout
<1>11. ASSUME NEW r \in WriteFull(wfmt.sliceFooter), WriteSliceFooter(r) PROVE StreamInv'
  BY <1>11, SliceWriteKeepsLayout
<1> QED
  BY <1>1, <1>2, <1>3, <1>4, <1>5, <1>6, <1>7, <1>8, <1>9, <1>10, <1>11 DEF WNext, WFinished

(* However the io.Writer fails, what is on the stream is the beginning of     *)
(* the advertised headers, points and footers, and whole points, in order,    *)
(* up to the one that was being written.                                      *)
THEOREM StreamLayout == WSpec => []StreamInv
<1>1. WInit => StreamInv
  BY NoLayoutYet
<1>2. WInv /\ WInv' /\ StreamInv /\ [WNext \/ WFinished]_wvars => StreamInv'
  BY LayoutKept
<1> QED
  BY <1>1, <1>2, WriterInvariance, PTL DEF WSpec


-----------------------------------------------------------------------------
(* A writer and the reader of its output.                                   *)

(* Writer and reader use the same format, and the reader sees what was      *)
(* written, and then EOF.                                                   *)
Joined ==
  /\ connected \in BOOLEAN
  /\ fmt = wfmt
  /\ call.op = "slice" <=> wcall.op = "slice"
  /\ ~ call.trusted /\ input.end = "EOF"
  /\ IF connected THEN input.taken + input.left = Len(stream)
                  ELSE pc = "start" /\ input.left = 0

(* The points are decoded in order, and only when all of their bytes are    *)
(* on the stream.                                                           *)
InOrder ==
  /\ decoded \in Seq(Nat)
  /\ \A k \in 1 .. Len(decoded) : decoded[k] = k - 1
  /\ Written(Len(decoded))
  /\ touched \subseteq PointsOut

(* All of the stream are p whole points and perhaps the beginning of another. *)
CutAfter(p) ==
  /\ ret.bytesRead = Len(stream) /\ p < call.len
  /\ p * FrameLength(fmt) <= Len(stream)
  /\ Len(stream) < p * FrameLength(fmt) + FrameLength(fmt)

WholeBatch(p) == p = call.len /\ ret.bytesRead = call.len * FrameLength(fmt)

(* How DeserializeCurvePoints(_Bounded) may end. *)
BatchRead ==
  /\ sub.kind \in {"none", "EOF", "UnexpectedEOF"}
  /\ pc = "boundedReturn" =>
       IF err.kind = "none"
         THEN WholeBatch(i)
         ELSE CutAfter(i) /\ err.points = i /\ err.kind \in {"EOF", "UnexpectedEOF"}
  /\ call.op = "bounded" /\ Succeeded =>
       \/ WholeBatch(ret.pointsWritten)
       \/ /\ CutAfter(ret.pointsWritten)
          /\ Len(stream) = ret.pointsWritten * FrameLength(fmt)
  /\ call.op = "bounded" /\ Failed =>
       /\ CutAfter(ret.pointsWritten)
       /\ Len(stream) # ret.pointsWritten * FrameLength(fmt)

(* DeserializeSlice makes a slice of the right length, and only fails if    *)
(* the stream is too short or the buffer too small.                         *)
SliceRead ==
  call.op = "slice" =>
    /\ pc \in FramePCs \cup {"sliceMaker"} \/ Succeeded => size = L
    /\ Failed => \/ Len(stream) < SliceLength(fmt, L)
                 \/ call.maker = "existing" /\ call.len < L

PipeRead == Joined /\ InOrder /\ BatchRead /\ SliceRead

PipeInv == RInv /\ AInv /\ WInv /\ StreamInv /\ PipeRead

-----------------------------------------------------------------------------
(* What the reader finds on the stream *)

LEMMA BeginningOf ==
  ASSUME NEW part \in StreamParts, NEW index \in Nat, NEW n \in Nat, NEW m \in Nat, m <= n
  PROVE  /\ SubSeq(Bytes(part, index, n), 1, m) \in Seq(Byte)
         /\ Len(SubSeq(Bytes(part, index, n), 1, m)) = m
         /\ \A k \in 1 .. m : SubSeq(Bytes(part, index, n), 1, m)[k] = <<part, index, k>>
<1> DEFINE b == Bytes(part, index, n)
<1>1. b \in Seq(Byte) /\ Len(b) = n /\ \A k \in 1 .. n : b[k] = <<part, index, k>>
  BY BytesFacts
<1> HIDE DEF b
<1>2. \A k \in 1 .. m : b[k] \in Byte
  BY <1>1, ElementOfSeq, \A k \in 1 .. m : k \in 1 .. n
<1>3. /\ SubSeq(b, 1, m) \in Seq(Byte)
      /\ Len(SubSeq(b, 1, m)) = IF 1 <= m THEN m - 1 + 1 ELSE 0
      /\ \A k \in 1 .. m - 1 + 1 : SubSeq(b, 1, m)[k] = b[1 + k - 1]
  BY <1>2, 1 \in Int, m \in Int, SubSeqProperties
<1>4. \A k \in 1 .. m : k \in 1 .. m - 1 + 1 /\ 1 + k - 1 = k /\ k \in 1 .. n
  OBVIOUS
<1>5. Len(SubSeq(b, 1, m)) = m
  BY <1>3
<1> QED
  BY <1>1, <1>3, <1>4, <1>5 DEF b

LEMMA ArrivingIs ==
  ASSUME stream \in Seq(Byte), input.taken \in Nat,
         NEW part \in StreamParts, NEW index \in Nat, NEW n \in Nat, NEW m \in Nat,
         ContentsAt(stream, input.taken, part, index, n),
         m <= n, input.taken + m <= Len(stream)
  PROVE  /\ Arriving(m) = SubSeq(Bytes(part, index, n), 1, m)
         /\ m = n => Arriving(m) = Bytes(part, index, n)
         /\ \A k \in 1 .. m : Arriving(m)[k] = <<part, index, k>>
<1> DEFINE b == Bytes(part, index, n)
           at == input.taken
<1>1. b \in Seq(Byte) /\ Len(b) = n /\ \A k \in 1 .. n : b[k] = <<part, index, k>>
  BY BytesFacts
<1>2. Arriving(m) = SubSeq(stream, at + 1, at + m)
  BY DEF Arriving
<1>3. at \in Nat /\ Len(stream) \in Nat /\ at + m <= Len(stream)
  BY LenProperties
<1>4. \A k \in 1 .. m : stream[at + k] = <<part, index, k>>
  BY <1>3 DEF ContentsAt
<1>5. /\ SubSeq(b, 1, m) \in Seq(Byte) /\ Len(SubSeq(b, 1, m)) = m
      /\ \A k \in 1 .. m : SubSeq(b, 1, m)[k] = <<part, index, k>>
  <2>1. part \in StreamParts /\ index \in Nat /\ n \in Nat /\ m \in Nat /\ m <= n
    OBVIOUS
  <2>2. SubSeq(b, 1, m) \in Seq(Byte)
    BY <2>1, BeginningOf, ZenonT(60)
  <2>3. Len(SubSeq(b, 1, m)) = m
    BY <2>1, BeginningOf, ZenonT(60)
  <2>4. \A k \in 1 .. m : SubSeq(b, 1, m)[k] = <<part, index, k>>
    BY <2>1, BeginningOf, ZenonT(60)
  <2> QED
    BY <2>2, <2>3, <2>4
<1> HIDE DEF b, at
<1>6. /\ Arriving(m) \in Seq(Byte) /\ Len(Arriving(m)) = m
      /\ \A k \in 1 .. m : Arriving(m)[k] = <<part, index, k>>
  <2>1. \A k \in at + 1 .. at + m : stream[k] \in Byte
    BY <1>3, ElementOfSeq, \A k \in at + 1 .. at + m : k \in 1 .. Len(stream)
  <2>2. /\ SubSeq(stream, at + 1, at + m) \in Seq(Byte)
        /\ Len(SubSeq(stream, at + 1, at + m))
             = IF at + 1 <= at + m THEN at + m - (at + 1) + 1 ELSE 0
        /\ \A k \in 1 .. at + m - (at + 1) + 1 :
             SubSeq(stream, at + 1, at + m)[k] = stream[at + 1 + k - 1]
    BY <1>3, <2>1, at + 1 \in Int, at + m \in Int, SubSeqProperties
  <2>3. \A k \in 1 .. m : k \in 1 .. at + m - (at + 1) + 1 /\ at + 1 + k - 1 = at + k
    BY <1>3
  <2>4. Len(Arriving(m)) = m
    <3>1. (IF at + 1 <= at + m THEN at + m - (at + 1) + 1 ELSE 0) = m
      BY <1>3
    <3> QED
      BY <1>2, <2>2, <3>1
  <2>5. \A k \in 1 .. m : Arriving(m)[k] = stream[at + k]
    BY <1>2, <2>2, <2>3
  <2> QED
    BY <1>2, <1>4, <2>2, <2>4, <2>5
<1>7. Arriving(m) = SubSeq(b, 1, m)
  BY <1>5, <1>6, SeqEqual
<1>8. m = n => Arriving(m) = b
  BY <1>1, <1>6, SeqEqual
<1> QED
  BY <1>6, <1>7, <1>8 DEF b

(* The reads of a joined reader find what is there, and only fail at the end *)
(* of the stream.                                                            *)
Finds(r, n) ==
  /\ r.n \in Nat /\ r.n <= input.left /\ r.n <= n
  /\ r.kind \in {"none", "EOF", "UnexpectedEOF"}
  /\ r.kind = "none" => r.n = n
  /\ r.kind # "none" => r.n = input.left /\ input.left < n

LEMMA HeaderFound ==
  ASSUME RTypeInv, Joined, connected, stream \in Seq(Byte),
         NEW part \in StreamParts, NEW n \in Nat, ContentsAt(stream, input.taken, part, 0, n),
         NEW r \in ConsumeExpectRead(n), ExpectRead(r, part, n)
  PROVE  Finds(r, n)
<1>1. Yields(r, n) /\ Reports(r, n)
  BY ReadFacts, ReadReports
<1>2. /\ input.left \in Nat /\ input.taken \in Nat /\ input.end = "EOF"
      /\ input.taken + input.left = Len(stream)
  BY DEF RTypeInv, Joined
<1>3. r.kind # "Mismatch"
  <2> SUFFICES ASSUME r.kind = "Mismatch" PROVE FALSE
    OBVIOUS
  <2>1. n <= input.left
    BY <1>2 DEF ConsumeExpectRead, Short, ShortRead, ReadFullKind
  <2>2. Arriving(n) = Bytes(part, 0, n)
    BY <1>2, <2>1, ArrivingIs
  <2> QED
    BY <2>2 DEF ExpectRead
<1>4. r.kind \in {"none", "EOF", "UnexpectedEOF", "Mismatch"}
  BY <1>2 DEF ConsumeExpectRead, ShortRead, FullRead, ReadFullKind
<1> QED
  BY <1>1, <1>2, <1>3, <1>4 DEF Yields, Reports, Finds

LEMMA PointFound ==
  ASSUME RTypeInv, Joined, connected, stream \in Seq(Byte), L \in Nat, decoded \in Seq(Nat),
         NEW p \in Nat, ContentsAt(stream, input.taken, "point", p, fmt.point),
         input.left > 0 => p < L,
         NEW r \in BasicRead(fmt.point), PointRead(r)
  PROVE  /\ Finds(r, fmt.point)
         /\ r.kind = "none" => decoded' = Append(decoded, p) /\ p \in PointsOut
         /\ r.kind # "none" => UNCHANGED decoded
<1>1. /\ input.left \in Nat /\ input.taken \in Nat /\ input.end = "EOF" /\ fmt = wfmt
      /\ input.taken + input.left = Len(stream) /\ "point" \in StreamParts
  BY DEF RTypeInv, Joined, StreamParts
<1> DEFINE n == fmt.point
<1>2. n \in Nat \ {0} /\ n = wfmt.point
  BY <1>1, CallFacts DEF Format
<1>3. r \in BasicRead(n) /\ ContentsAt(stream, input.taken, "point", p, n)
  OBVIOUS
<1>4. \A q : \A k : IsPoint(q, k) <=> Arriving(k) = SubSeq(Bytes("point", q, n), 1, k)
  BY DEF IsPoint
<1> HIDE DEF n
<1>5. Yields(r, n) /\ Reports(r, n)
  BY <1>2, <1>3, ReadFacts, ReadReports
<1>6. r.kind # "Invalid"
  <2> SUFFICES ASSUME r.kind = "Invalid" PROVE FALSE
    OBVIOUS
  <2>1. r.n \in 1 .. Got(n)
    BY <1>1, <1>3 DEF BasicRead, ShortRead, FullRead, ReadFullKind
  <2>2. r.n \in Nat /\ r.n <= n /\ r.n <= input.left /\ input.left > 0
    BY <1>1, <1>2, <2>1 DEF Got
  <2>3. Arriving(r.n) = SubSeq(Bytes("point", p, n), 1, r.n)
    BY <1>1, <1>2, <1>3, <2>2, ArrivingIs
  <2>4. p \in 0 .. L - 1
    BY <2>2
  <2> QED
    BY <1>4, <2>3, <2>4 DEF PointRead
<1>7. r.kind \in {"none", "EOF", "UnexpectedEOF", "Invalid"}
  BY <1>1, <1>3 DEF BasicRead, ShortRead, FullRead, ReadFullKind
<1>8. Finds(r, n)
  BY <1>1, <1>5, <1>6, <1>7 DEF Yields, Reports, Finds
<1>9. ASSUME r.kind = "none"
      PROVE  decoded' = Append(decoded, p) /\ p \in PointsOut
  <2>1. r.n = n /\ n <= input.left
    BY <1>8, <1>9 DEF Finds
  <2>2. PICK q \in 0 .. L - 1 : IsPoint(q, n) /\ decoded' = Append(decoded, q)
    BY <1>9, <2>1 DEF PointRead
  <2>3. 1 \in 1 .. n /\ n \in 1 .. n /\ input.taken + n <= Len(stream)
    BY <1>1, <1>2, <2>1
  <2>4. Arriving(n)[1] = <<"point", p, 1>>
    BY <1>1, <1>2, <1>3, <2>3, ArrivingIs
  <2>5. Arriving(n)[1] = <<"point", q, 1>>
    <3>1. q \in Nat /\ n \in Nat /\ n <= n
      BY <1>2
    <3>2. \A k \in 1 .. n : SubSeq(Bytes("point", q, n), 1, n)[k] = <<"point", q, k>>
      BY <1>1, <3>1, BeginningOf, ZenonT(60)
    <3>3. Arriving(n) = SubSeq(Bytes("point", q, n), 1, n)
      BY <1>4, <2>2
    <3> QED
      BY <2>3, <3>2, <3>3
  <2>6. p = q
    BY <2>4, <2>5
  <2>7. input.taken + n \in DOMAIN stream /\ stream[input.taken + n] = <<"point", p, n>>
    <3>1. DOMAIN stream = 1 .. Len(stream) /\ Len(stream) \in Nat
      BY LenProperties
    <3>2. input.taken + n \in 1 .. Len(stream)
      BY <1>1, <1>2, <2>3, <3>1
    <3>3. stream[input.taken + n] = <<"point", p, n>>
      BY <1>3, <2>3 DEF ContentsAt
    <3> QED
      BY <3>1, <3>2, <3>3
  <2>8. p \in PointsOut
    BY <1>2, <2>2, <2>6, <2>7 DEF PointsOut
  <2> QED
    BY <2>2, <2>6, <2>8
<1>10. r.kind # "none" => UNCHANGED decoded
  BY <1>6, <1>7 DEF PointRead
<1> QED
  BY <1>8, <1>9, <1>10 DEF n

(* The next part of the stream, and where a batch or a slice is in it. *)
Due(part, index, n) ==
  /\ ContentsAt(stream, input.taken, part, index, n)
  /\ part \in StreamParts /\ index \in Nat /\ n \in Nat

LEMMA BatchDue ==
  ASSUME PipeInv, connected, pc \in SinglePCs
  PROVE  /\ pc = "singleHeader" => Due("singleHeader", 0, fmt.singleHeader)
         /\ pc = "singlePoint" => Due("point", i, fmt.point)
         /\ pc = "singleFooter" => Due("singleFooter", 0, fmt.singleFooter)
         /\ input.left > 0 /\ pc # "singleReturn" => i < L
<1>1. RTypeInv /\ Counted /\ SinglePosition /\ WTypeInv
  BY DEF PipeInv, RInv, WInv
<1>2. /\ fmt = wfmt /\ wcall.op # "slice" /\ BatchLayout(stream, fmt)
      /\ Len(stream) <= L * FrameLength(fmt) /\ input.taken + input.left = Len(stream)
  BY <1>1 DEF PipeInv, PipeRead, Joined, StreamInv, SinglePosition
<1>3. /\ i \in Nat /\ L \in Nat /\ input.left \in Nat /\ input.taken \in Nat
      /\ ret.bytesRead \in Nat /\ sub.n \in Nat /\ FrameLength(fmt) \in Nat
      /\ stream \in Seq(Byte)
  BY <1>1, CallFacts, WriteCallFacts DEF RTypeInv
<1>4. PICK h \in Nat, k \in Nat, e \in Nat :
        h = fmt.singleHeader /\ k = fmt.point /\ e = fmt.singleFooter
  BY <1>1, CallFacts DEF Format
<1>5. PICK own \in Nat : own = i * FrameLength(fmt)
  BY <1>3
<1>6. FrameAt(stream, own, "singleHeader", h, i, k, "singleFooter", e)
  BY <1>2, <1>3, <1>4, <1>5 DEF BatchLayout, BatchFrame
<1>7. input.taken = own + sub.n
  BY <1>1, <1>5 DEF Counted, SinglePosition
<1>8. /\ pc = "singleHeader" => sub.n = 0
      /\ pc = "singlePoint" => sub.n = h
      /\ pc = "singleFooter" => sub.n = h + k
  BY <1>1, <1>4 DEF SinglePosition
<1>9. pc = "singleHeader" => Due("singleHeader", 0, h)
  BY <1>6, <1>7, <1>8 DEF Due, FrameAt, StreamParts
<1>10. pc = "singlePoint" => Due("point", i, k)
  BY <1>3, <1>6, <1>7, <1>8 DEF Due, FrameAt, StreamParts
<1>11. pc = "singleFooter" => Due("singleFooter", 0, e)
  BY <1>6, <1>7, <1>8 DEF Due, FrameAt, StreamParts
<1>12. input.left > 0 => i < L
  <2>1. L <= i => L * FrameLength(fmt) <= i * FrameLength(fmt)
    <3>1. PICK f \in Nat : f = FrameLength(fmt)
      BY <1>3
    <3>2. L <= i => L * f <= i * f
      BY <1>3, <3>1, ProductBound, SMTT(30)
    <3> QED
      BY <3>1, <3>2
  <2>2. PICK all \in Nat : all = L * FrameLength(fmt)
    BY <1>3
  <2>3. L <= i => all <= own
    BY <1>5, <2>1, <2>2
  <2>4. own + sub.n + input.left <= all
    BY <1>2, <1>7, <2>2
  <2> QED
    BY <1>3, <2>3, <2>4
<1> QED
  BY <1>4, <1>9, <1>10, <1>11, <1>12

LEMMA SliceDue ==
  ASSUME PipeInv, connected, pc \in PreamblePCs \cup FramePCs
  PROVE  /\ pc = "sliceHeader" => Due("sliceHeader", 0, fmt.sliceHeader)
         /\ pc = "sliceSize" => Due("sliceSize", L, SizeField)
         /\ pc = "perPointHeader" => Due("perPointHeader", 0, fmt.perPointHeader)
         /\ pc = "point" => Due("point", i, fmt.point)
         /\ pc = "perPointFooter" => Due("perPointFooter", 0, fmt.perPointFooter)
         /\ pc = "sliceFooter" => Due("sliceFooter", 0, fmt.sliceFooter)
<1>1. RTypeInv /\ Counted /\ WTypeInv
  BY DEF PipeInv, RInv, WInv
<1>2. pc \in PreamblePCs => PreamblePosition
  BY DEF PipeInv, RInv
<1>3. pc \in FramePCs => FramePosition /\ size = L
  BY DEF PipeInv, PipeRead, RInv, SliceRead, FramePosition
<1>4. call.op = "slice" /\ sub.n = 0
  BY <1>2, <1>3 DEF PreamblePosition, FramePosition
<1>5. fmt = wfmt /\ SliceLayout(stream, fmt, L)
  BY <1>4 DEF PipeInv, PipeRead, Joined, StreamInv
<1>6. /\ i \in Nat /\ L \in Nat /\ fmt \in Format /\ input.taken = ret.bytesRead
      /\ ret.bytesRead \in Nat /\ SizeField \in Nat
  BY <1>1, <1>4, CallFacts, WriteCallFacts DEF RTypeInv, Counted
<1>7. PICK a \in Nat, h \in Nat, k \in Nat, e \in Nat, b \in Nat :
        /\ a = fmt.sliceHeader /\ h = fmt.perPointHeader /\ k = fmt.point
        /\ e = fmt.perPointFooter /\ b = fmt.sliceFooter
  BY <1>6 DEF Format
<1>8. pc = "sliceHeader" => Due("sliceHeader", 0, a)
  BY <1>2, <1>5, <1>6, <1>7
  DEF PreamblePCs, PreamblePosition, SliceLayout, Due, StreamParts
<1>9. pc = "sliceSize" => Due("sliceSize", L, SizeField)
  BY <1>2, <1>5, <1>6, <1>7
  DEF PreamblePCs, PreamblePosition, SliceLayout, Due, StreamParts
<1>10. PICK own \in Nat : own = SliceStart(fmt, i) /\ own = BeforePoint
  BY <1>6, SliceStarts DEF SliceStart, BeforePoint
<1>11. ASSUME pc \in {"perPointHeader", "point", "perPointFooter"}
       PROVE  /\ FrameAt(stream, own, "perPointHeader", h, i, k, "perPointFooter", e)
              /\ pc = "perPointHeader" => input.taken = own + 0
              /\ pc = "point" => input.taken = own + h
              /\ pc = "perPointFooter" => input.taken = own + (h + k)
  <2>1. FramePosition /\ size = L /\ pc # "sliceFooter"
    BY <1>3, <1>11 DEF FramePCs
  <2>2. i \in 0 .. L - 1
    BY <1>6, <2>1 DEF FramePosition
  <2>3. SliceFrame(stream, fmt, i)
    BY <1>5, <2>2 DEF SliceLayout
  <2>4. FrameAt(stream, own, "perPointHeader", h, i, k, "perPointFooter", e)
    BY <1>7, <1>10, <2>3 DEF SliceFrame
  <2>5. /\ pc = "perPointHeader" => input.taken = own + 0
        /\ pc = "point" => input.taken = own + h
        /\ pc = "perPointFooter" => input.taken = own + (h + k)
    BY <1>6, <1>7, <1>10, <2>1 DEF FramePosition
  <2> QED
    BY <2>4, <2>5
<1>12. pc = "perPointHeader" => Due("perPointHeader", 0, h)
  BY <1>11 DEF FrameAt, Due, StreamParts
<1>13. pc = "point" => Due("point", i, k)
  BY <1>6, <1>11 DEF FrameAt, Due, StreamParts
<1>14. pc = "perPointFooter" => Due("perPointFooter", 0, e)
  BY <1>11 DEF FrameAt, Due, StreamParts
<1>15. pc = "sliceFooter" => Due("sliceFooter", 0, b)
  <2> SUFFICES ASSUME pc = "sliceFooter" PROVE Due("sliceFooter", 0, b)
    OBVIOUS
  <2>1. input.taken = SliceStart(fmt, L)
    BY <1>3, <1>6, <1>10 DEF FramePCs, FramePosition
  <2> QED
    BY <1>5, <1>7, <2>1 DEF SliceLayout, Due, StreamParts
<1> QED
  BY <1>7, <1>8, <1>9, <1>12, <1>13, <1>14, <1>15

-----------------------------------------------------------------------------
(* The steps of the reader keep the invariant *)

LEMMA StaysJoined ==
  ASSUME RTypeInv, Joined, connected, UNCHANGED <<wvars, connected, fmt, call>>,
         \/ UNCHANGED input
         \/ \E n \in Nat : n <= input.left /\ Take(n)
  PROVE  Joined'
<1>1. /\ wfmt' = wfmt /\ wcall' = wcall /\ stream' = stream
      /\ connected' = connected /\ fmt' = fmt /\ call' = call
  BY DEF wvars
<1>2. CASE UNCHANGED input
  BY <1>1, <1>2 DEF Joined
<1>3. ASSUME NEW n \in Nat, n <= input.left, Take(n)
      PROVE  Joined'
  <2>1. input' = [input EXCEPT !.left = input.left - n, !.taken = input.taken + n]
    BY <1>3 DEF Take
  <2>2. /\ input'.left = input.left - n /\ input'.taken = input.taken + n
        /\ input'.end = input.end /\ input.left \in Nat /\ input.taken \in Nat
    BY <2>1 DEF RTypeInv
  <2>3. input'.taken + input'.left = Len(stream)
    BY <2>2 DEF Joined
  <2> QED
    BY <1>1, <2>2, <2>3 DEF Joined
<1> QED
  BY <1>2, <1>3

LEMMA StaysInOrder ==
  ASSUME InOrder, UNCHANGED <<wvars, decoded, touched>>
  PROVE  InOrder'
<1>1. PointsOut' = PointsOut
  BY DEF wvars, PointsOut, L
<1> QED
  BY <1>1 DEF InOrder, Written

LEMMA SameLength ==
  ASSUME NEW a \in Nat, NEW b \in Nat, 0 .. a - 1 = 0 .. b - 1
  PROVE  a = b
<1>1. \A k \in Nat : (k \in 0 .. a - 1) = (k \in 0 .. b - 1)
  OBVIOUS
<1>2. \A k \in Nat : k < a <=> k < b
  BY <1>1
<1> QED
  BY <1>2

(* The point i is decoded. *)
LEMMA NextInOrder ==
  ASSUME InOrder, UNCHANGED wvars, i \in Nat, Written(i), i \in PointsOut,
         decoded' = Append(decoded, i), touched' = touched \cup {i}
  PROVE  InOrder' /\ Len(decoded) = i /\ Len(decoded') = i + 1
<1>1. Len(decoded) \in Nat /\ decoded \in Seq(Nat)
  BY LenProperties DEF InOrder
<1>2. Len(decoded) = i
  <2>1. 0 .. Len(decoded) - 1 = 0 .. i - 1
    BY DEF InOrder, Written
  <2> QED
    BY <1>1, <2>1, SameLength
<1>3. /\ decoded' \in Seq(Nat) /\ Len(decoded') = i + 1
      /\ \A k \in 1 .. i : decoded'[k] = decoded[k]
      /\ decoded'[i + 1] = i
  BY <1>1, <1>2, AppendProperties
<1>4. \A k \in 1 .. i + 1 : decoded'[k] = k - 1
  BY <1>2, <1>3 DEF InOrder
<1>5. touched' = 0 .. (i + 1) - 1
  BY NextWritten DEF Written
<1>6. PointsOut' = PointsOut
  BY DEF wvars, PointsOut, L
<1> QED
  BY <1>2, <1>3, <1>4, <1>5, <1>6 DEF InOrder, Written

LEMMA PipeFacts ==
  ASSUME PipeInv
  PROVE  /\ RTypeInv /\ Counted /\ Joined /\ InOrder /\ BatchRead /\ SliceRead
         /\ stream \in Seq(Byte) /\ L \in Nat /\ decoded \in Seq(Nat) /\ i \in Nat
         /\ fmt \in Format /\ fmt = wfmt /\ input.left \in Nat /\ sub \in ReadResults
         /\ ~ call.trusted
BY CallFacts, WriteCallFacts
DEF PipeInv, PipeRead, RInv, WInv, RTypeInv, InOrder, Joined, ReadResults

(* Inside of a batch only the kind of the last read matters. *)
LEMMA BatchGoesOn ==
  ASSUME call.op # "slice", UNCHANGED call, Joined', InOrder',
         pc' \notin {"boundedReturn", "done"},
         sub'.kind \in {"none", "EOF", "UnexpectedEOF"}
  PROVE  PipeRead'
BY DEF PipeRead, BatchRead, SliceRead, Succeeded, Failed

LEMMA StartRead ==
  ASSUME PipeInv, connected, StartCall, UNCHANGED <<wvars, connected, decoded>>
  PROVE  PipeRead'
<1>1. /\ RTypeInv /\ Joined /\ InOrder /\ BatchRead
      /\ NothingDone /\ FrameLength(fmt) \in Nat /\ call.len \in Nat
      /\ call.op \in {"point", "points", "bounded", "slice"}
  BY PipeFacts, CallFacts DEF PipeInv, RInv, StartCall, BatchOps
<1>2. UNCHANGED <<fmt, call, input, i, size, sub, ret, err, touched>>
  BY DEF StartCall
<1>3. Joined'
  BY <1>1, <1>2, StaysJoined
<1>4. InOrder'
  BY <1>1, <1>2, StaysInOrder
<1>5. pc' = "boundedReturn" => 0 = call.len
  BY <1>1 DEF StartCall, AfterPoints
<1>6. call.op \in {"bounded", "slice"} => pc' # "done"
  BY <1>1 DEF StartCall, AfterPoints
<1>7. BatchRead'
  <2>1. err'.kind = "none" /\ i' = 0 /\ ret'.bytesRead = 0 /\ sub'.kind = sub.kind
    BY <1>1, <1>2 DEF NothingDone
  <2>2. 0 * FrameLength(fmt) = 0 /\ FrameLength(fmt)' = FrameLength(fmt)
    BY <1>1, <1>2 DEF FrameLength
  <2>3. pc' = "boundedReturn" => WholeBatch(i)'
    BY <1>2, <1>5, <2>1, <2>2 DEF WholeBatch
  <2> QED
    BY <1>1, <1>2, <1>6, <2>1, <2>3 DEF BatchRead, Succeeded, Failed
<1>8. SliceRead'
  <2>1. call.op = "slice" => pc' = "sliceHeader"
    BY <1>1 DEF StartCall
  <2> QED
    BY <1>2, <2>1 DEF SliceRead, Succeeded, Failed, FramePCs
<1> QED
  BY <1>3, <1>4, <1>7, <1>8 DEF PipeRead

LEMMA SingleHeaderRead ==
  ASSUME PipeInv, connected, UNCHANGED <<wvars, connected, decoded>>,
         NEW r \in ConsumeExpectRead(fmt.singleHeader), ReadSingleHeader(r),
         ExpectRead(r, "singleHeader", fmt.singleHeader)
  PROVE  PipeRead' /\ pc' \in SinglePCs /\ UNCHANGED <<fmt, call, i>>
         /\ (pc' = "singleReturn" => sub'.kind # "none")
<1>1. pc = "singleHeader" /\ UNCHANGED <<fmt, call, i, touched>> /\ Take(r.n)
  BY DEF ReadSingleHeader
<1>2. SinglePosition /\ pc \in SinglePCs
  BY <1>1 DEF PipeInv, RInv, SinglePCs
<1>3. Finds(r, fmt.singleHeader)
  BY <1>1, <1>2, BatchDue, HeaderFound, PipeFacts DEF Due
<1>4. Joined' /\ InOrder'
  BY <1>1, <1>3, StaysJoined, StaysInOrder, PipeFacts DEF Finds
<1>5. /\ sub'.kind \in {"none", "EOF", "UnexpectedEOF"}
      /\ pc' = IF r.kind = "none" THEN "singlePoint" ELSE "singleReturn"
      /\ pc' = "singleReturn" => sub'.kind # "none"
  BY <1>3 DEF ReadSingleHeader, UnexpectEOF, Finds
<1>6. PipeRead'
  BY <1>1, <1>2, <1>4, <1>5, BatchGoesOn DEF SinglePosition
<1> QED
  BY <1>1, <1>5, <1>6 DEF SinglePCs

LEMMA PointOfBatchRead ==
  ASSUME PipeInv, connected, UNCHANGED <<wvars, connected>>,
         NEW r \in BasicRead(fmt.point), ReadSinglePoint(r), PointRead(r)
  PROVE  PipeRead' /\ pc' \in SinglePCs /\ UNCHANGED <<fmt, call, i>>
         /\ (pc' = "singleReturn" => sub'.kind # "none")
<1>1. pc = "singlePoint" /\ UNCHANGED <<fmt, call, i>> /\ Take(r.n)
  BY DEF ReadSinglePoint
<1>2. SinglePosition /\ pc \in SinglePCs
  BY <1>1 DEF PipeInv, RInv, SinglePCs
<1>3. /\ Finds(r, fmt.point)
      /\ r.kind = "none" => decoded' = Append(decoded, i) /\ i \in PointsOut
      /\ r.kind # "none" => UNCHANGED decoded
  BY <1>1, <1>2, BatchDue, PointFound, PipeFacts DEF Due
<1>4. Joined'
  BY <1>1, <1>3, StaysJoined, PipeFacts DEF Finds
<1>5. InOrder'
  <2>1. CASE r.kind = "none"
    <3>1. touched' = touched \cup {i}
      BY <2>1 DEF ReadSinglePoint
    <3>2. Written(i)
      BY <1>1, <1>2 DEF SinglePosition
    <3> QED
      BY <1>3, <2>1, <3>1, <3>2, NextInOrder, PipeFacts
  <2>2. CASE r.kind # "none"
    <3>1. UNCHANGED touched
      BY <2>2 DEF ReadSinglePoint
    <3> QED
      BY <1>3, <2>2, <3>1, StaysInOrder, PipeFacts
  <2> QED
    BY <2>1, <2>2
<1>6. ~ MayPanic(r)
  BY PipeFacts DEF MayPanic
<1>7. /\ sub'.kind \in {"none", "EOF", "UnexpectedEOF"}
      /\ pc' = IF r.kind = "none" THEN "singleFooter" ELSE "singleReturn"
      /\ pc' = "singleReturn" => sub'.kind # "none"
  <2>1. CASE r.kind = "none"
    BY <2>1 DEF ReadSinglePoint
  <2>2. CASE r.kind # "none"
    <3>1. r.kind \in {"EOF", "UnexpectedEOF"}
      BY <1>3, <2>2 DEF Finds
    <3>2. sub'.kind \in {r.kind, UnexpectEOF(r.kind)} /\ pc' = "singleReturn"
      BY <1>6, <2>2 DEF ReadSinglePoint
    <3> QED
      BY <2>2, <3>1, <3>2 DEF UnexpectEOF
  <2> QED
    BY <2>1, <2>2
<1>8. PipeRead'
  BY <1>1, <1>2, <1>4, <1>5, <1>7, BatchGoesOn DEF SinglePosition
<1> QED
  BY <1>1, <1>7, <1>8 DEF SinglePCs

LEMMA SingleFooterRead ==
  ASSUME PipeInv, connected, UNCHANGED <<wvars, connected, decoded>>,
         NEW r \in ConsumeExpectRead(fmt.singleFooter), ReadSingleFooter(r),
         ExpectRead(r, "singleFooter", fmt.singleFooter)
  PROVE  PipeRead' /\ pc' = "singleReturn" /\ UNCHANGED <<fmt, call, i>>
         /\ Finds(r, fmt.singleFooter) /\ (sub'.kind = "none" <=> r.kind = "none")
<1>1. /\ pc = "singleFooter" /\ pc' = "singleReturn"
      /\ UNCHANGED <<fmt, call, i, touched>> /\ Take(r.n)
  BY DEF ReadSingleFooter
<1>2. SinglePosition /\ pc \in SinglePCs
  BY <1>1 DEF PipeInv, RInv, SinglePCs
<1>3. Finds(r, fmt.singleFooter)
  BY <1>1, <1>2, BatchDue, HeaderFound, PipeFacts DEF Due
<1>4. Joined' /\ InOrder'
  BY <1>1, <1>3, StaysJoined, StaysInOrder, PipeFacts DEF Finds
<1>5. sub'.kind = UnexpectEOF(r.kind)
  BY DEF ReadSingleFooter
<1>6. sub'.kind \in {"none", "EOF", "UnexpectedEOF"} /\ (sub'.kind = "none" <=> r.kind = "none")
  BY <1>3, <1>5 DEF UnexpectEOF, Finds
<1>7. PipeRead'
  BY <1>1, <1>2, <1>4, <1>6, BatchGoesOn DEF SinglePosition
<1> QED
  BY <1>1, <1>3, <1>6, <1>7

LEMMA PointReturned ==
  ASSUME PipeInv, connected, ReturnPoint, UNCHANGED <<wvars, connected, decoded>>
  PROVE  PipeRead'
<1>1. UNCHANGED <<fmt, call, input, touched>> /\ call.op = "point" /\ pc' = "done"
  BY DEF ReturnPoint
<1>2. Joined' /\ InOrder'
  BY <1>1, StaysJoined, StaysInOrder, PipeFacts
<1>3. sub'.kind = "none"
  BY DEF ReturnPoint, NoRead
<1> QED
  BY <1>1, <1>2, <1>3 DEF PipeRead, BatchRead, SliceRead

(* A read that failed between two points or inside of one is the end of the *)
(* stream.                                                                  *)
LEMMA ReturnedToLoop ==
  ASSUME PipeInv, connected, ReturnToLoop, UNCHANGED <<wvars, connected, decoded>>
  PROVE  PipeRead'
<1>1. /\ UNCHANGED <<fmt, call, input, touched>> /\ call.op \in BatchOps
      /\ pc = "singleReturn"
  BY DEF ReturnToLoop
<1>2. SinglePosition /\ SubAligned
  BY <1>1 DEF PipeInv, RInv, SinglePCs, AInv
<1>3. Joined' /\ InOrder'
  BY <1>1, StaysJoined, StaysInOrder, PipeFacts
<1>4. sub'.kind = "none" /\ ret'.bytesRead = ret.bytesRead + sub.n
  BY PipeFacts DEF ReturnToLoop, NoRead, RTypeInv
<1>5. /\ ret.bytesRead = i * FrameLength(fmt) /\ sub.n <= FrameLength(fmt) /\ i < call.len
      /\ err.kind = "none"
      /\ sub.kind = "none" => sub.n = FrameLength(fmt)
      /\ FrameLength(fmt) \in Nat /\ call.len \in Nat /\ i \in Nat /\ sub.n \in Nat
  BY <1>1, <1>2, PipeFacts, CallFacts DEF SinglePosition
<1>6. PICK c \in Nat, k \in Nat : c = FrameLength(fmt) /\ k = i * c
  BY <1>5
<1>7. FrameLength(fmt)' = c /\ call' = call /\ stream' = stream
  BY <1>1, <1>6 DEF FrameLength, wvars
<1>8. CASE sub.kind = "none"
  <2>1. /\ i' = i + 1 /\ pc' = AfterPoints(i + 1) /\ err'.kind = "none"
    BY <1>5, <1>8 DEF ReturnToLoop
  <2>2. (i + 1) * c = k + c /\ ret'.bytesRead = (i + 1) * c
    BY <1>4, <1>5, <1>6, <1>8, FramesBound
  <2>3. call.op = "bounded" => pc' # "done"
    BY <2>1 DEF AfterPoints
  <2>4. pc' = "boundedReturn" => i + 1 = call.len
    BY <1>5, <2>1 DEF AfterPoints
  <2>5. pc' = "boundedReturn" => WholeBatch(i)'
    BY <1>7, <2>1, <2>2, <2>4 DEF WholeBatch
  <2>6. BatchRead'
    BY <1>1, <1>4, <2>1, <2>3, <2>5 DEF BatchRead, Succeeded, Failed
  <2> QED
    BY <1>1, <1>3, <2>6 DEF PipeRead, SliceRead, BatchOps
<1>9. CASE sub.kind # "none"
  <2>1. sub.kind \in {"EOF", "UnexpectedEOF"}
    BY <1>9, PipeFacts DEF BatchRead
  <2>2. input.left = 0 /\ sub.n < c
    BY <1>2, <1>6, <2>1 DEF SubAligned
  <2>3. /\ i' = i /\ pc' = IF call.op = "bounded" THEN "boundedReturn" ELSE "done"
        /\ err'.points = i
        /\ err'.kind = IF i # 0 THEN UnexpectEOF(sub.kind) ELSE sub.kind
    BY <1>9 DEF ReturnToLoop, Fail
  <2>4. err'.kind \in {"EOF", "UnexpectedEOF"}
    BY <2>1, <2>3 DEF UnexpectEOF
  <2>5. ret'.bytesRead = Len(stream) /\ Len(stream) = k + sub.n
    BY <1>4, <1>5, <1>6, <2>2, PipeFacts, CallFacts DEF Counted, Joined
  <2>6. CutAfter(i)'
    BY <1>5, <1>6, <1>7, <2>2, <2>3, <2>5 DEF CutAfter
  <2>7. BatchRead'
    BY <1>1, <1>4, <2>3, <2>4, <2>6 DEF BatchRead, Succeeded, Failed
  <2> QED
    BY <1>1, <1>3, <2>7 DEF PipeRead, SliceRead, BatchOps
<1> QED
  BY <1>8, <1>9

LEMMA BoundedReturned ==
  ASSUME PipeInv, connected, BoundedReturn, UNCHANGED <<wvars, connected, decoded>>
  PROVE  PipeRead'
<1>1. /\ UNCHANGED <<fmt, call, input, i, sub, touched>> /\ pc = "boundedReturn" /\ pc' = "done"
  BY DEF BoundedReturn
<1>2. BoundedPosition /\ BatchRead /\ RTypeInv /\ (err.kind # "none" => LoopAligned)
  BY <1>1, PipeFacts DEF PipeInv, RInv, AInv
<1>3. Joined' /\ InOrder'
  BY <1>1, StaysJoined, StaysInOrder, PipeFacts
<1>4. ret'.bytesRead = ret.bytesRead
      /\ ret'.pointsWritten = IF err.kind = "none" THEN call.len ELSE err.points
  BY <1>2 DEF BoundedReturn, RTypeInv
<1>5. /\ err' = IF SwallowsError THEN NoError ELSE err
      /\ NoError.kind = "none"
  BY DEF BoundedReturn, NoError
<1>6. FrameLength(fmt)' = FrameLength(fmt) /\ stream' = stream
  BY <1>1 DEF FrameLength, wvars
<1>7. CASE err.kind = "none"
  <2>1. WholeBatch(i) /\ ~ SwallowsError
    BY <1>1, <1>2, <1>7 DEF BatchRead, SwallowsError
  <2>2. WholeBatch(ret.pointsWritten)'
    BY <1>1, <1>4, <1>6, <1>7, <2>1 DEF WholeBatch
  <2>3. BatchRead'
    BY <1>1, <1>2, <1>5, <1>7, <2>1, <2>2 DEF BatchRead, Succeeded, Failed
  <2> QED
    BY <1>1, <1>2, <1>3, <2>3 DEF PipeRead, SliceRead, BoundedPosition
<1>8. CASE err.kind # "none"
  <2>1. CutAfter(i) /\ err.points = i /\ err.kind \in {"EOF", "UnexpectedEOF"}
    BY <1>1, <1>2, <1>8 DEF BatchRead
  <2>2. CutAfter(ret.pointsWritten)'
    BY <1>1, <1>4, <1>6, <1>8, <2>1 DEF CutAfter
  <2>3. CASE SwallowsError
    <3>1. Len(stream) = i * FrameLength(fmt)
      BY <1>2, <1>8, <2>1, <2>3 DEF LoopAligned, CutAfter
    <3>2. BatchRead'
      BY <1>1, <1>2, <1>4, <1>5, <1>6, <1>8, <2>1, <2>2, <2>3, <3>1 DEF BatchRead, Succeeded, Failed
    <3> QED
      BY <1>1, <1>2, <1>3, <3>2 DEF PipeRead, SliceRead, BoundedPosition
  <2>4. CASE ~ SwallowsError
    <3>1. err.partial
      BY <2>1, <2>4 DEF SwallowsError
    <3>2. Len(stream) # i * FrameLength(fmt)
      <4>1. Len(stream) \notin FrameBoundaries
        BY <1>2, <1>8, <2>1, <3>1 DEF LoopAligned, CutAfter
      <4>2. i \in 0 .. call.len
        BY <1>2, <2>1, CallFacts DEF RTypeInv, CutAfter
      <4> QED
        BY <4>1, <4>2 DEF FrameBoundaries
    <3>3. BatchRead'
      BY <1>1, <1>2, <1>4, <1>5, <1>6, <1>8, <2>1, <2>2, <2>4, <3>2 DEF BatchRead, Succeeded, Failed
    <3> QED
      BY <1>1, <1>2, <1>3, <3>3 DEF PipeRead, SliceRead, BoundedPosition
  <2> QED
    BY <2>3, <2>4
<1> QED
  BY <1>7, <1>8

(* The parts of a slice end where its length says. *)
LEMMA SliceRoom ==
  ASSUME PipeInv, connected, pc \in PreamblePCs \cup FramePCs
  PROVE  /\ pc = "sliceHeader" => input.taken + fmt.sliceHeader <= SliceLength(fmt, L)
         /\ pc = "sliceSize" => input.taken + SizeField <= SliceLength(fmt, L)
         /\ pc = "perPointHeader" => input.taken + fmt.perPointHeader <= SliceLength(fmt, L)
         /\ pc = "point" => input.taken + fmt.point <= SliceLength(fmt, L)
         /\ pc = "perPointFooter" => input.taken + fmt.perPointFooter <= SliceLength(fmt, L)
         /\ pc = "sliceFooter" => input.taken + fmt.sliceFooter <= SliceLength(fmt, L)
<1>1. RTypeInv /\ Counted /\ WTypeInv
  BY DEF PipeInv, RInv, WInv
<1>2. pc \in PreamblePCs => PreamblePosition
  BY DEF PipeInv, RInv
<1>3. pc \in FramePCs => FramePosition /\ size = L
  BY DEF PipeInv, PipeRead, RInv, SliceRead, FramePosition
<1>4. sub.n = 0
  BY <1>2, <1>3 DEF PreamblePosition, FramePosition
<1>5. /\ i \in Nat /\ L \in Nat /\ fmt \in Format /\ input.taken = ret.bytesRead
      /\ ret.bytesRead \in Nat /\ SizeField \in Nat
  BY <1>1, <1>4, CallFacts, WriteCallFacts DEF RTypeInv, Counted
<1>6. PICK a \in Nat, h \in Nat, k \in Nat, e \in Nat, b \in Nat :
        /\ a = fmt.sliceHeader /\ h = fmt.perPointHeader /\ k = fmt.point
        /\ e = fmt.perPointFooter /\ b = fmt.sliceFooter
  BY <1>5 DEF Format
<1>7. PICK own \in Nat, end \in Nat :
        /\ own = SliceStart(fmt, i) /\ own = BeforePoint /\ end = SliceStart(fmt, L)
        /\ a + SizeField <= end /\ SliceLength(fmt, L) = end + b
        /\ i < L => own + (h + k + e) <= end
  BY <1>5, <1>6, SliceStarts DEF SliceStart, BeforePoint
<1>8. CASE pc \in PreamblePCs
  BY <1>2, <1>5, <1>6, <1>7, <1>8 DEF PreamblePosition, PreamblePCs
<1>9. CASE pc = "sliceFooter"
  <2>1. i = L /\ input.taken = own
    BY <1>3, <1>5, <1>7, <1>9 DEF FramePosition, FramePCs
  <2>2. input.taken + b = SliceLength(fmt, L)
    BY <1>7, <2>1
  <2> QED
    BY <1>5, <1>6, <1>7, <1>9, <2>2
<1>10. CASE pc \in FramePCs /\ pc # "sliceFooter"
  <2>1. /\ own + (h + k + e) <= end
        /\ pc = "perPointHeader" => input.taken = own
        /\ pc = "point" => input.taken = own + h
        /\ pc = "perPointFooter" => input.taken = own + h + k
    BY <1>3, <1>5, <1>6, <1>7, <1>10 DEF FramePosition
  <2> QED
    BY <1>6, <1>7, <1>10, <2>1 DEF FramePCs
<1> QED
  BY <1>8, <1>9, <1>10

(* A slice that goes on, fails because the stream ends, or is complete. *)
LEMMA SliceContinues ==
  ASSUME PipeInv, connected, UNCHANGED <<wvars, connected, decoded, fmt, call, size, sub, touched>>,
         pc \in PreamblePCs \cup FramePCs,
         NEW n \in Nat, NEW r, Finds(r, n), Take(r.n), input.taken + n <= SliceLength(fmt, L),
         IF r.kind = "none" THEN pc' \notin {"boundedReturn", "done"} \/ (pc' = "done" /\ err'.kind = "none")
                            ELSE pc' = "done" /\ err'.kind # "none",
         pc' \in FramePCs \cup {"sliceMaker", "done"} /\ r.kind = "none" => size = L
  PROVE  PipeRead'
<1>1. call.op = "slice"
  BY DEF PipeInv, RInv, PreamblePosition, FramePosition
<1>2. Joined' /\ InOrder'
  BY StaysJoined, StaysInOrder, PipeFacts DEF Finds
<1>3. BatchRead'
  BY <1>1, PipeFacts DEF BatchRead
<1>4. ASSUME r.kind # "none" PROVE Len(stream) < SliceLength(fmt, L)
  <2>1. /\ input.left < n /\ input.taken + input.left = Len(stream)
        /\ input.left \in Nat /\ input.taken \in Nat /\ SliceLength(fmt, L) \in Nat
    BY <1>4, PipeFacts, CallFacts, SliceLengthSum DEF Finds, Joined
  <2> QED
    BY <2>1
<1>5. L' = L /\ Len(stream)' = Len(stream) /\ SliceLength(fmt, L)' = SliceLength(fmt, L)
  BY DEF L, wvars, SliceLength, SliceFrameLength
<1>6. SliceRead'
  <2>1. CASE r.kind = "none"
    BY <1>5, <2>1 DEF SliceRead, Succeeded, Failed
  <2>2. CASE r.kind # "none"
    BY <1>4, <1>5, <2>2 DEF SliceRead, Succeeded, Failed, FramePCs
  <2> QED
    BY <2>1, <2>2
<1> QED
  BY <1>2, <1>3, <1>6 DEF PipeRead

LEMMA SliceHeaderRead ==
  ASSUME PipeInv, connected, UNCHANGED <<wvars, connected, decoded>>,
         NEW r \in ConsumeExpectRead(fmt.sliceHeader), ReadSliceHeader(r),
         ExpectRead(r, "sliceHeader", fmt.sliceHeader)
  PROVE  PipeRead'
<1>1. pc = "sliceHeader" /\ UNCHANGED <<fmt, call, size, sub, touched>> /\ Take(r.n)
  BY DEF ReadSliceHeader
<1>2. PreamblePosition /\ pc \in PreamblePCs
  BY <1>1 DEF PipeInv, RInv, PreamblePCs
<1>3. Due("sliceHeader", 0, fmt.sliceHeader) /\ input.taken + fmt.sliceHeader <= SliceLength(fmt, L)
  BY <1>1, <1>2, SliceDue, SliceRoom
<1>4. Finds(r, fmt.sliceHeader)
  BY <1>3, HeaderFound, PipeFacts DEF Due
<1>5. IF r.kind = "none" THEN pc' = "sliceSize" ELSE pc' = "done" /\ err'.kind # "none"
  BY DEF ReadSliceHeader, FailEarly, Fail
<1> QED
  BY <1>1, <1>2, <1>3, <1>4, <1>5, SliceContinues DEF Due, FramePCs

(* The length in front of the points is that of the slice. *)
LEMMA SliceSizeRead ==
  ASSUME PipeInv, connected, UNCHANGED <<wvars, connected, decoded>>,
         NEW v \in 0 .. MaxInt32, ReadSliceSize(v),
         ~ Short(SizeField) => Arriving(SizeField) = Bytes("sliceSize", v, SizeField)
  PROVE  PipeRead'
<1>1. /\ pc = "sliceSize" /\ UNCHANGED <<fmt, call, sub, touched>> /\ Take(Got(SizeField))
      /\ pc \in PreamblePCs
  BY DEF ReadSliceSize, PreamblePCs
<1>2. Due("sliceSize", L, SizeField) /\ input.taken + SizeField <= SliceLength(fmt, L)
  BY <1>1, SliceDue, SliceRoom
<1>3. /\ RTypeInv /\ Joined /\ input.left \in Nat /\ input.taken \in Nat /\ L \in Nat
      /\ input.taken + input.left = Len(stream) /\ input.end = "EOF" /\ stream \in Seq(Byte)
      /\ SizeField \in Nat \ {0} /\ MaxInt32 \in Nat /\ SliceLength(fmt, L) \in Nat
      /\ Got(SizeField) \in Nat /\ Got(SizeField) <= input.left
      /\ call.op = "slice" /\ v \in Nat
  <2>1. /\ RTypeInv /\ Joined /\ input.left \in Nat /\ input.taken \in Nat /\ L \in Nat
        /\ stream \in Seq(Byte) /\ SliceLength(fmt, L) \in Nat
    BY PipeFacts, CallFacts, SliceLengthSum
  <2>2. input.taken + input.left = Len(stream) /\ input.end = "EOF"
    BY <2>1 DEF Joined
  <2>3. call.op = "slice"
    BY <1>1 DEF PipeInv, RInv, PreamblePosition
  <2>4. SizeField \in Nat \ {0} /\ MaxInt32 \in Nat /\ v \in Nat
    BY LengthsAssumption
  <2>5. Got(SizeField) \in Nat /\ Got(SizeField) <= input.left
    BY <2>1, <2>4 DEF Got
  <2> QED
    BY <2>1, <2>2, <2>3, <2>4, <2>5
<1>4. Joined' /\ InOrder'
  BY <1>1, <1>3, StaysJoined, StaysInOrder, PipeFacts
<1>5. BatchRead'
  <2>1. pc' # "boundedReturn"
    BY DEF ReadSliceSize, FailEarly
  <2> QED
    BY <1>1, <1>3, <2>1, PipeFacts DEF BatchRead
<1>6. L' = L /\ Len(stream)' = Len(stream) /\ SliceLength(fmt, L)' = SliceLength(fmt, L)
  BY <1>1 DEF L, wvars, SliceLength, SliceFrameLength
<1>7. CASE Short(SizeField)
  <2>1. input.left < SizeField
    BY <1>3, <1>7 DEF Short, ReadFullKind
  <2>2. Len(stream) < SliceLength(fmt, L)
    BY <1>2, <1>3, <2>1
  <2>3. pc' = "done" /\ err'.kind = UnexpectEOF(ReadFullKind(SizeField))
    BY <1>7 DEF ReadSliceSize, FailEarly, Fail
  <2>4. err'.kind # "none"
    BY <1>7, <2>3 DEF Short, UnexpectEOF
  <2>5. SliceRead'
    BY <1>6, <2>2, <2>3, <2>4 DEF SliceRead, Succeeded, Failed, FramePCs
  <2> QED
    BY <1>4, <1>5, <2>5 DEF PipeRead
<1>8. CASE ~ Short(SizeField)
  <2>1. SizeField <= input.left
    BY <1>3, <1>8 DEF Short, ReadFullKind
  <2>2. /\ input.taken + SizeField <= Len(stream) /\ SizeField <= SizeField
        /\ 1 \in 1 .. SizeField /\ "sliceSize" \in StreamParts
    BY <1>3, <2>1 DEF StreamParts
  <2>3. Arriving(SizeField)[1] = <<"sliceSize", L, 1>>
    <3>1. ContentsAt(stream, input.taken, "sliceSize", L, SizeField)
      BY <1>2 DEF Due
    <3>2. /\ stream \in Seq(Byte) /\ input.taken \in Nat
          /\ L \in Nat /\ SizeField \in Nat
      BY <1>3
    <3>3. \A k \in 1 .. SizeField : Arriving(SizeField)[k] = <<"sliceSize", L, k>>
      BY <2>2, <3>1, <3>2, ArrivingIs, SMTT(30)
    <3> QED
      BY <2>2, <3>3
  <2>4. Bytes("sliceSize", v, SizeField)[1] = <<"sliceSize", v, 1>>
    <3>1. SizeField \in Nat /\ v \in Nat /\ "sliceSize" \in StreamParts
      BY <1>3, <2>2
    <3>2. \A k \in 1 .. SizeField : Bytes("sliceSize", v, SizeField)[k] = <<"sliceSize", v, k>>
      BY <3>1, BytesFacts, ZenonT(60)
    <3> QED
      BY <2>2, <3>2
  <2>5. v = L
    BY <1>8, <2>3, <2>4
  <2>6. ~ SizeTooLarge(v)
    BY <1>3 DEF SizeTooLarge
  <2>7. pc' = "sliceMaker" /\ size' = L
    BY <1>8, <2>5, <2>6 DEF ReadSliceSize
  <2>8. SliceRead'
    BY <1>6, <2>7 DEF SliceRead, Succeeded, Failed
  <2> QED
    BY <1>4, <1>5, <2>8 DEF PipeRead
<1> QED
  BY <1>7, <1>8

LEMMA SliceMade ==
  ASSUME PipeInv, connected, MakeSlice, UNCHANGED <<wvars, connected, decoded>>
  PROVE  PipeRead'
<1>1. /\ pc = "sliceMaker" /\ UNCHANGED <<fmt, call, input, size, sub, touched>>
      /\ pc \in PreamblePCs
  BY DEF MakeSlice, PreamblePCs
<1>2. PreamblePosition /\ call.op = "slice" /\ wcall.op = "slice" /\ size = L /\ err.kind = "none"
  BY <1>1, PipeFacts DEF PipeInv, RInv, PreamblePosition, Joined, SliceRead
<1>3. Joined' /\ InOrder'
  BY <1>1, StaysJoined, StaysInOrder, PipeFacts
<1>4. pc' # "boundedReturn"
  BY DEF MakeSlice, FailEarly, AfterSlicePoints
<1>5. BatchRead'
  BY <1>1, <1>2, <1>4, PipeFacts DEF BatchRead
<1>6. L' = L /\ Len(stream)' = Len(stream) /\ SliceLength(fmt, L)' = SliceLength(fmt, L)
  BY <1>1 DEF L, wvars, SliceLength, SliceFrameLength
<1>7. ~ SliceOutputLength(fmt, size).overflow
  <2>1. input.taken = fmt.sliceHeader + SizeField
    BY <1>1, <1>2, PipeFacts, CallFacts, LengthsAssumption
    DEF PreamblePosition, Counted, Format
  <2>2. Len(stream) > 0
    BY <2>1, PipeFacts, LengthsAssumption DEF Joined, Format
  <2>3. SliceFits
    BY <1>2, <2>2, EmptySeq DEF PipeInv, StreamInv
  <2>4. SliceOutputLength(fmt, L) = [ret |-> SliceLength(fmt, L), overflow |-> FALSE]
    BY <2>3, PipeFacts, CallFacts, SliceOutputLengthExact DEF SliceFits
  <2> QED
    BY <1>2, <2>4
<1>8. CASE BufferTooSmall
  <2>1. pc' = "done" /\ err'.kind = "BufferTooSmall"
    BY <1>7, <1>8 DEF MakeSlice, FailEarly, Fail
  <2>2. SliceRead'
    BY <1>1, <1>2, <1>6, <1>8, <2>1 DEF SliceRead, Succeeded, Failed, FramePCs, BufferTooSmall
  <2> QED
    BY <1>3, <1>5, <2>2 DEF PipeRead
<1>9. CASE ~ BufferTooSmall
  <2>1. pc' # "done"
    BY <1>7, <1>9 DEF MakeSlice, AfterSlicePoints
  <2>2. SliceRead'
    BY <1>1, <1>2, <1>6, <2>1 DEF SliceRead, Succeeded, Failed
  <2> QED
    BY <1>3, <1>5, <2>2 DEF PipeRead
<1> QED
  BY <1>8, <1>9

LEMMA FrameRead ==
  ASSUME PipeInv, connected, UNCHANGED <<wvars, connected, decoded>>, NEW r,
         \/ /\ r \in ConsumeExpectRead(fmt.perPointHeader) /\ ReadPerPointHeader(r)
            /\ ExpectRead(r, "perPointHeader", fmt.perPointHeader)
         \/ /\ r \in ConsumeExpectRead(fmt.perPointFooter) /\ ReadPerPointFooter(r)
            /\ ExpectRead(r, "perPointFooter", fmt.perPointFooter)
         \/ /\ r \in ConsumeExpectRead(fmt.sliceFooter) /\ ReadSliceFooter(r)
            /\ ExpectRead(r, "sliceFooter", fmt.sliceFooter)
  PROVE  PipeRead'
<1>1. UNCHANGED <<fmt, call, size, sub, touched>> /\ Take(r.n) /\ pc \in FramePCs
  BY DEF ReadPerPointHeader, ReadPerPointFooter, ReadSliceFooter, Consume, FramePCs
<1>2. FramePosition /\ size = L
  BY <1>1, PipeFacts DEF PipeInv, RInv, SliceRead, FramePosition
<1>3. ASSUME NEW part, NEW n, Due(part, 0, n), input.taken + n <= SliceLength(fmt, L),
             r \in ConsumeExpectRead(n), ExpectRead(r, part, n),
             IF r.kind = "none" THEN \/ pc' \notin {"boundedReturn", "done"}
                                     \/ pc' = "done" /\ err'.kind = "none"
                                ELSE pc' = "done" /\ err'.kind # "none"
      PROVE  PipeRead'
  <2>1. Finds(r, n) /\ n \in Nat
    BY <1>3, HeaderFound, PipeFacts DEF Due
  <2> QED
    BY <1>1, <1>2, <1>3, <2>1, SliceContinues
<1>4. CASE /\ r \in ConsumeExpectRead(fmt.perPointHeader) /\ ReadPerPointHeader(r)
           /\ ExpectRead(r, "perPointHeader", fmt.perPointHeader)
  <2>1. /\ pc = "perPointHeader"
        /\ IF r.kind = "none" THEN pc' = "point" ELSE pc' = "done" /\ err'.kind # "none"
    BY <1>4 DEF ReadPerPointHeader, Fail
  <2> QED
    BY <1>1, <1>3, <1>4, <2>1, SliceDue, SliceRoom
<1>5. CASE /\ r \in ConsumeExpectRead(fmt.perPointFooter) /\ ReadPerPointFooter(r)
           /\ ExpectRead(r, "perPointFooter", fmt.perPointFooter)
  <2>1. /\ pc = "perPointFooter"
        /\ IF r.kind = "none" THEN pc' \in {"perPointHeader", "sliceFooter"}
                              ELSE pc' = "done" /\ err'.kind # "none"
    BY <1>5 DEF ReadPerPointFooter, Fail, AfterSlicePoints
  <2> QED
    BY <1>1, <1>3, <1>5, <2>1, SliceDue, SliceRoom
<1>6. CASE /\ r \in ConsumeExpectRead(fmt.sliceFooter) /\ ReadSliceFooter(r)
           /\ ExpectRead(r, "sliceFooter", fmt.sliceFooter)
  <2>1. /\ pc = "sliceFooter" /\ pc' = "done"
        /\ IF r.kind = "none" THEN err' = err ELSE err'.kind # "none"
    BY <1>6 DEF ReadSliceFooter, Fail
  <2>2. err.kind = "none"
    BY <1>2 DEF FramePosition
  <2> QED
    BY <1>1, <1>3, <1>6, <2>1, <2>2, SliceDue, SliceRoom
<1> QED
  BY <1>4, <1>5, <1>6

LEMMA PointOfSliceRead ==
  ASSUME PipeInv, connected, UNCHANGED <<wvars, connected>>,
         NEW r \in BasicRead(fmt.point), ReadPoint(r), PointRead(r)
  PROVE  /\ PipeRead'
         /\ IF r.kind = "none"
              THEN /\ pc' = "perPointFooter" /\ i \in PointsOut
                   /\ Len(decoded) = i /\ Len(decoded') = i + 1
              ELSE pc' = "done" /\ err'.kind # "none" /\ decoded' = decoded
<1>1. /\ pc = "point" /\ UNCHANGED <<fmt, call, size, sub>> /\ Take(r.n) /\ pc \in FramePCs
      /\ i \in Nat
  BY PipeFacts DEF ReadPoint, Consume, FramePCs
<1>2. FramePosition /\ size = L /\ i < L /\ Written(i)
  BY <1>1, PipeFacts DEF PipeInv, RInv, SliceRead, FramePosition
<1>3. Due("point", i, fmt.point) /\ input.taken + fmt.point <= SliceLength(fmt, L)
  BY <1>1, SliceDue, SliceRoom
<1>4. /\ Finds(r, fmt.point)
      /\ r.kind = "none" => decoded' = Append(decoded, i) /\ i \in PointsOut
      /\ r.kind # "none" => UNCHANGED decoded
  BY <1>2, <1>3, PointFound, PipeFacts DEF Due
<1>5. CASE r.kind # "none"
  <2>1. ~ MayPanic(r)
    BY PipeFacts DEF MayPanic
  <2>2. pc' = "done" /\ err'.kind # "none" /\ UNCHANGED touched
    BY <1>5, <2>1 DEF ReadPoint, Fail
  <2>3. PipeRead'
    BY <1>1, <1>2, <1>3, <1>4, <1>5, <2>2, SliceContinues DEF Due
  <2> QED
    BY <1>4, <1>5, <2>2, <2>3
<1>6. CASE r.kind = "none"
  <2>1. pc' = "perPointFooter" /\ touched' = touched \cup {i}
    BY <1>6 DEF ReadPoint
  <2>2. InOrder' /\ Len(decoded) = i /\ Len(decoded') = i + 1
    BY <1>1, <1>2, <1>4, <1>6, <2>1, NextInOrder, PipeFacts
  <2>3. Joined'
    BY <1>1, <1>4, StaysJoined, PipeFacts DEF Finds
  <2>4. BatchRead'
    BY <1>1, <1>2, <2>1, PipeFacts DEF BatchRead, Succeeded, Failed
  <2>5. L' = L /\ size' = size
    BY <1>1 DEF L, wvars
  <2>6. SliceRead'
    BY <1>2, <2>1, <2>5 DEF SliceRead, Succeeded, Failed
  <2> QED
    BY <1>4, <1>6, <2>1, <2>2, <2>3, <2>4, <2>6 DEF PipeRead
<1> QED
  BY <1>5, <1>6

-----------------------------------------------------------------------------
(* The invariant of the pipe *)

(* How many frames of c bytes n bytes are. *)
LEMMA QuotientBounds ==
  ASSUME NEW c \in Nat \ {0}, NEW n \in Nat
  PROVE  n \div c \in Nat /\ (n \div c) * c <= n /\ n < (n \div c) * c + c
<1>1. n = (n \div c) * c + (n % c) /\ n % c \in 0 .. c - 1 /\ n \div c \in Nat
  OBVIOUS
<1>2. (n \div c) * c \in Nat
  BY <1>1
<1> QED
  BY <1>1, <1>2

LEMMA QuotientIs ==
  ASSUME NEW c \in Nat \ {0}, NEW p \in Nat, NEW n \in Nat, p * c <= n, n < p * c + c
  PROVE  p = n \div c
<1> DEFINE q == n \div c
<1>1. q \in Nat /\ q * c <= n /\ n < q * c + c
  BY QuotientBounds
<1> HIDE DEF q
<1>2. p < q => p * c + c <= q * c
  BY <1>1, FramesBound
<1>3. q < p => q * c + c <= p * c
  BY <1>1, FramesBound
<1>4. p * c \in Nat /\ q * c \in Nat
  BY <1>1
<1>5. p = q
  BY <1>1, <1>2, <1>3, <1>4
<1> QED
  BY <1>5 DEF q

LEMMA QuotientMultiple ==
  ASSUME NEW c \in Nat \ {0}, NEW p \in Nat, NEW n \in Nat, p * c <= n, n < p * c + c,
         NEW m \in Nat, n <= m * c
  PROVE  n \in {k * c : k \in 0 .. m} <=> n = p * c
<1>1. ASSUME NEW k \in 0 .. m, n = k * c
      PROVE  n = p * c
  <2>1. k \in Nat /\ k * c <= n /\ n < k * c + c
    BY <1>1
  <2>2. k = n \div c
    BY <2>1, QuotientIs
  <2>3. p = n \div c
    BY QuotientIs
  <2> QED
    BY <1>1, <2>2, <2>3
<1>2. ASSUME n = p * c
      PROVE  p \in 0 .. m
  <2>1. m < p => m * c + c <= p * c
    BY FramesBound
  <2>2. p * c \in Nat /\ m * c \in Nat
    OBVIOUS
  <2>3. ~ m < p
    BY <1>2, <2>1, <2>2
  <2> QED
    BY <2>3
<1> QED
  BY <1>1, <1>2

LEMMA PipeInitially == PInit => PipeInv
<1> SUFFICES ASSUME PInit PROVE PipeInv
  OBVIOUS
<1>1. RInv /\ AInv /\ WInv /\ StreamInv
  BY InitEstablishes, InitAligned, WInitEstablishes, NoLayoutYet DEF PInit
<1>2. pc = "start" /\ sub = NoRead /\ touched = {} /\ decoded = <<>> /\ connected = FALSE
  BY DEF PInit, Init
<1>3. Joined
  BY <1>2 DEF PInit, Joined
<1>4. InOrder
  BY <1>2, EmptySeq DEF InOrder, Written
<1>5. BatchRead /\ SliceRead
  BY <1>2 DEF BatchRead, SliceRead, Succeeded, Failed, FramePCs, NoRead
<1> QED
  BY <1>1, <1>3, <1>4, <1>5 DEF PipeInv, PipeRead

(* Every step of the reader of the pipe is one of a PointReader. *)
LEMMA ReaderStepIsNext == PipeInv /\ ReaderStep => Next /\ UNCHANGED <<wvars, connected>>
<1> SUFFICES ASSUME PipeInv, ReaderStep PROVE Next /\ UNCHANGED <<wvars, connected>>
  OBVIOUS
<1>0. UNCHANGED <<wvars, connected>>
  BY DEF ReaderStep
<1>1. 0 .. MaxInt32 \subseteq SizeFieldValues
  BY LengthsAssumption DEF SizeFieldValues
<1>2. CASE HeaderStep
  BY <1>0, <1>2 DEF HeaderStep, Next
<1>3. CASE PointStep
  BY <1>0, <1>3 DEF PointStep, Next
<1>4. CASE SizeStep
  BY <1>0, <1>1, <1>4 DEF SizeStep, Next
<1>5. CASE InternalStep
  BY <1>0, <1>5 DEF InternalStep, Next
<1> QED
  BY <1>2, <1>3, <1>4, <1>5 DEF ReaderStep

LEMMA ReaderKeepsPipe == PipeInv /\ ReaderStep => PipeRead'
<1> SUFFICES ASSUME PipeInv, ReaderStep PROVE PipeRead'
  OBVIOUS
<1>1. connected /\ UNCHANGED <<wvars, connected>>
  BY DEF ReaderStep
<1>2. CASE HeaderStep
  BY <1>1, <1>2, SingleHeaderRead, SingleFooterRead, SliceHeaderRead, FrameRead DEF HeaderStep
<1>3. CASE PointStep
  BY <1>1, <1>3, PointOfBatchRead, PointOfSliceRead DEF PointStep
<1>4. CASE SizeStep
  BY <1>1, <1>4, SliceSizeRead DEF SizeStep
<1>5. CASE InternalStep
  BY <1>1, <1>5, StartRead, PointReturned, ReturnedToLoop, BoundedReturned, SliceMade
  DEF InternalStep
<1> QED
  BY <1>2, <1>3, <1>4, <1>5 DEF ReaderStep

LEMMA WriterKeepsPipe == PipeInv /\ WriterStep => PipeInv'
<1> SUFFICES ASSUME PipeInv, WriterStep PROVE PipeInv'
  OBVIOUS
<1>1. WNext /\ UNCHANGED <<vars, connected, decoded>> /\ ~ connected
  BY DEF WriterStep
<1>2. WInv' /\ StreamInv'
  BY <1>1, WriteStepKeeps, LayoutKept DEF PipeInv
<1>3. UNCHANGED <<wfmt, wcall>>
  BY <1>1 DEF WNext, StartWrite, ReturnWrite, ReturnWriteToLoop, WriteSingleHeader,
              WriteSinglePoint, WriteSingleFooter, WriteSliceHeader, WriteSliceSize,
              WritePerPointHeader, WritePoint, WritePerPointFooter, WriteSliceFooter, SliceWrite
<1>4. RInv' /\ AInv'
  BY <1>1, PositionKept, AlignmentKept DEF PipeInv
<1>5. pc = "start" /\ touched = {}
  BY <1>1, PipeFacts DEF PipeInv, RInv, NothingDone, Written, Joined
<1>6. Joined'
  BY <1>1, <1>3, PipeFacts DEF Joined, vars
<1>7. InOrder'
  BY <1>1, <1>5, PipeFacts DEF InOrder, vars, Written
<1>8. BatchRead' /\ SliceRead'
  BY <1>1, <1>5, PipeFacts DEF BatchRead, SliceRead, vars, Succeeded, Failed, FramePCs
<1> QED
  BY <1>2, <1>4, <1>6, <1>7, <1>8 DEF PipeInv, PipeRead

LEMMA ConnectKeepsPipe == PipeInv /\ Connect => PipeInv'
<1> SUFFICES ASSUME PipeInv, Connect PROVE PipeInv'
  OBVIOUS
<1>1. /\ ~ connected /\ connected' = TRUE
      /\ UNCHANGED <<wvars, fmt, call, pc, i, size, sub, ret, err, touched, decoded>>
  BY DEF Connect
<1>2. /\ RTypeInv /\ Joined /\ pc = "start" /\ NothingDone /\ Counted
  BY <1>1, PipeFacts DEF PipeInv, RInv, Joined
<1>3. /\ input' \in [left : Nat, taken : Nat, end : {"EOF", "IOErr"}]
      /\ input'.left = Len(stream) /\ input'.taken = 0 /\ input.taken = 0 /\ input'.end = "EOF"
  <2>1. Len(stream) \in Nat /\ input.taken = 0 /\ input.end = "EOF"
    BY <1>2, PipeFacts, LenProperties DEF NothingDone, Counted, Joined
  <2> QED
    BY <1>2, <2>1 DEF Connect, RTypeInv
<1>4. RInv'
  <2>1. RTypeInv'
    BY <1>1, <1>2, <1>3 DEF RTypeInv
  <2>2. Counted' /\ NothingDone'
    BY <1>1, <1>2, <1>3 DEF Counted, NothingDone, Written
  <2> QED
    BY <1>1, <1>2, <2>1, <2>2 DEF RInv, SinglePCs, PreamblePCs, FramePCs, Returned
<1>5. AInv'
  BY <1>1, <1>2 DEF AInv, PartialReadIffMisaligned, EOFReported, Failed, Succeeded
<1>6. WInv' /\ StreamInv'
  BY <1>1, WriteStepKeeps, LayoutKept DEF PipeInv
<1>7. Joined'
  BY <1>1, <1>2, <1>3, PipeFacts, LenProperties DEF Joined, wvars
<1>8. InOrder'
  BY <1>1, PipeFacts, StaysInOrder
<1>9. BatchRead' /\ SliceRead'
  BY <1>1, <1>2, PipeFacts DEF BatchRead, SliceRead, Succeeded, Failed, FramePCs
<1> QED
  BY <1>4, <1>5, <1>6, <1>7, <1>8, <1>9 DEF PipeInv, PipeRead

LEMMA PipeStutters == PipeInv /\ UNCHANGED pvars => PipeInv'
<1> SUFFICES ASSUME PipeInv, UNCHANGED pvars PROVE PipeInv'
  OBVIOUS
<1>1. UNCHANGED vars /\ UNCHANGED wvars /\ connected' = connected /\ decoded' = decoded
  BY DEF pvars
<1>2. RInv' /\ AInv' /\ WInv' /\ StreamInv'
  BY <1>1, PositionKept, AlignmentKept, WriteStepKeeps, LayoutKept DEF PipeInv
<1>3. Joined' /\ InOrder'
  BY <1>1, PipeFacts, StaysInOrder DEF Joined, vars, wvars
<1>4. BatchRead' /\ SliceRead'
  BY <1>1, PipeFacts
  DEF BatchRead, SliceRead, Succeeded, Failed, CutAfter, WholeBatch, vars, wvars,
      FrameLength, L, SliceLength, SliceFrameLength
<1> QED
  BY <1>2, <1>3, <1>4 DEF PipeInv, PipeRead

(* Wherever the writer stops, the reader stays where its format says it is   *)
(* on the stream, and decodes what was written.                              *)
THEOREM PipeInvariance == PSpec => []PipeInv
<1>1. PInit => PipeInv
  BY PipeInitially
<1>2. PipeInv /\ [PNext]_pvars => PipeInv'
  <2> SUFFICES ASSUME PipeInv, [PNext]_pvars PROVE PipeInv'
    OBVIOUS
  <2>1. CASE WriterStep
    BY <2>1, WriterKeepsPipe
  <2>2. CASE Connect
    BY <2>2, ConnectKeepsPipe
  <2>3. CASE ReaderStep
    <3>1. Next /\ UNCHANGED wvars
      BY <2>3, ReaderStepIsNext
    <3>2. RInv' /\ AInv' /\ WInv' /\ StreamInv'
      BY <3>1, PositionKept, AlignmentKept, WriteStepKeeps, LayoutKept DEF PipeInv
    <3> QED
      BY <2>3, <3>2, ReaderKeepsPipe DEF PipeInv
  <2>4. CASE PFinished \/ UNCHANGED pvars
    BY <2>4, PipeStutters DEF PFinished
  <2> QED
    BY <2>1, <2>2, <2>3, <2>4 DEF PNext
<1> QED
  BY <1>1, <1>2, PTL DEF PSpec

(* The points read are those written, in their order and none lost; a slice *)
(* that was written is read; and PartialWrite tells whether the reader of a *)
(* batch will fail.                                                         *)
THEOREM ReadBackCorrect == PSpec => []ReadBackInOrder
<1>1. PipeInv => ReadBackInOrder
  <2> SUFFICES ASSUME PipeInv PROVE ReadBackInOrder
    OBVIOUS
  <2>1. /\ RTypeInv /\ Joined /\ InOrder /\ BatchRead /\ SliceRead /\ Counted
        /\ L \in Nat /\ fmt = wfmt /\ fmt \in Format /\ FormatValid(fmt)
        /\ FrameLength(fmt) \in Nat \ {0} /\ OutputLength(wfmt) = FrameLength(fmt)
        /\ call.len \in Nat /\ Len(stream) \in Nat /\ WTypeInv
    <3>1. FrameLength(fmt) # 0
      BY PipeFacts, CallFacts DEF Format, FrameLength
    <3> QED
      BY <3>1, PipeFacts, CallFacts, LenProperties DEF PipeInv, WInv
  <2>2. \A k \in DOMAIN decoded : decoded[k] = k - 1
    BY <2>1, LenProperties DEF InOrder
  <2>3. ASSUME WSucceeded, wcall.op = "slice", pc = "done", call.maker = "new" \/ call.len >= L
        PROVE  err.kind = "none" /\ size = L /\ Len(decoded) = L
    <3>1. SliceFits
      BY <2>3 DEF PipeInv, StreamInv
    <3>2. Len(stream) = SliceLength(fmt, L)
      <4>1. BytesWrittenExact
        BY WriterProperties DEF PipeInv
      <4>2. Len(stream) = SliceOutputLength(wfmt, L).ret
        BY <2>3, <4>1 DEF BytesWrittenExact
      <4> QED
        BY <2>1, <3>1, <4>2, SliceOutputLengthExact DEF SliceFits
    <3>3. call.op = "slice" /\ SliceLength(fmt, L) \in Nat
      BY <2>1, <2>3, SliceLengthSum DEF Joined
    <3>4. ~ Failed
      BY <2>1, <2>3, <3>2, <3>3 DEF SliceRead
    <3>5. Succeeded /\ size = L
      BY <2>1, <2>3, <3>3, <3>4 DEF SliceRead, Succeeded, Failed
    <3>6. touched = 0 .. size - 1
      BY <2>3, <3>3, <3>5 DEF PipeInv, RInv, Returned, ErrorCountsWrites
    <3>7. Len(decoded) = L
      <4>1. 0 .. Len(decoded) - 1 = 0 .. L - 1 /\ Len(decoded) \in Nat
        BY <2>1, <3>5, <3>6, LenProperties DEF InOrder, Written
      <4> QED
        BY <2>1, <4>1, SameLength
    <3> QED
      BY <2>3, <3>5, <3>7 DEF Succeeded
  <2>4. PartialWriteIsDetected
    <3> SUFFICES ASSUME WReturned, wcall.op # "slice", call.op = "bounded", call.len >= L, pc = "done"
                 PROVE  /\ err.kind # "none" <=> werr.partial
                        /\ ret.pointsWritten = Len(stream) \div FrameLength(wfmt)
      BY DEF PartialWriteIsDetected
    <3> DEFINE c == FrameLength(fmt)
               p == ret.pointsWritten
    <3>1. /\ c \in Nat \ {0} /\ p \in Nat /\ Len(stream) <= L * c /\ L * c <= call.len * c
          /\ ret.bytesRead \in Nat /\ ret.bytesRead <= Len(stream)
      <4>1. Len(stream) <= L * c
        BY <2>1 DEF PipeInv, StreamInv
      <4>2. L * c <= call.len * c
        BY <2>1, ProductBound
      <4>3. ret.bytesRead <= Len(stream) /\ ret.bytesRead \in Nat /\ p \in Nat
        <5>1. ret.bytesRead + sub.n = input.taken /\ input.taken + input.left = Len(stream)
          BY <2>1 DEF Counted, Joined
        <5> QED
          BY <2>1, <5>1, CallFacts DEF RTypeInv
      <4> QED
        BY <2>1, <4>1, <4>2, <4>3
    <3>2. \/ /\ err.kind = "none" /\ Len(stream) = p * c
          \/ /\ err.kind # "none" /\ p * c < Len(stream) /\ Len(stream) < p * c + c
      <4>1. Succeeded \/ Failed
        BY DEF Succeeded, Failed
      <4>2. CASE Succeeded
        BY <2>1, <3>1, <4>2 DEF BatchRead, WholeBatch, CutAfter, Succeeded
      <4>3. CASE Failed
        <5>1. CutAfter(p) /\ Len(stream) # p * c /\ err.kind # "none"
          BY <2>1, <4>3 DEF BatchRead, Failed
        <5>2. p * c \in Nat
          BY <3>1
        <5> QED
          BY <2>1, <5>1, <5>2 DEF CutAfter
      <4> QED
        BY <4>1, <4>2, <4>3
    <3>7. c = FrameLength(wfmt) /\ c = OutputLength(wfmt) /\ p = ret.pointsWritten
      BY <2>1
    <3> HIDE DEF c, p
    <3>3. p = Len(stream) \div c
      <4>1. Len(stream) \in Nat /\ p * c <= Len(stream) /\ Len(stream) < p * c + c
        BY <2>1, <3>1, <3>2
      <4> QED
        BY <3>1, <4>1, QuotientIs
    <3>4. werr.partial <=> Len(stream) # p * c
      <4>1. CASE WFailed
        <5>1. werr.partial <=> Len(stream) \notin {k * c : k \in 0 .. L}
          BY <2>1, <3>7, <4>1, WriterProperties DEF PipeInv, PartialWriteIffMisaligned
        <5>2. p * c <= Len(stream) /\ Len(stream) < p * c + c
          BY <2>1, <3>1, <3>2
        <5>3. Len(stream) \in {k * c : k \in 0 .. L} <=> Len(stream) = p * c
          BY <2>1, <3>1, <5>2, QuotientMultiple
        <5> QED
          BY <5>1, <5>3
      <4>2. CASE ~ WFailed
        <5>1. ~ werr.partial
          BY <4>2 DEF WFailed, WReturned, PipeInv, StreamInv
        <5>2. Len(stream) = 0 \/ Len(stream) = L * c
          <6>1. CASE wpc = "panicked"
            BY <6>1, EmptySeq DEF PipeInv, StreamInv
          <6>2. CASE wpc = "done"
            <7>1. WSucceeded
              BY <4>2, <6>2 DEF WFailed, WSucceeded
            <7>2. Len(stream) = (IF wcall.op = "point" THEN 1 ELSE L) * c
              <8>1. BytesWrittenExact
                BY WriterProperties DEF PipeInv
              <8>2. c \in Nat /\ 1 * c = c
                BY <3>1
              <8>3. CASE wcall.op = "point"
                BY <3>7, <7>1, <8>1, <8>2, <8>3 DEF BytesWrittenExact
              <8>4. CASE wcall.op = "points"
                BY <3>7, <7>1, <8>1, <8>4 DEF BytesWrittenExact
              <8> QED
                BY <2>1, <8>3, <8>4, WriteCallFacts
            <7>3. wcall.op = "point" => L = 1
              BY <2>1, WriteCallFacts
            <7> QED
              BY <7>2, <7>3
          <6> QED
            BY <6>1, <6>2 DEF WReturned
        <5>3. Len(stream) \in {k * c : k \in 0 .. L}
          <6>1. 0 * c = 0 /\ 0 \in 0 .. L /\ L \in 0 .. L
            BY <2>1, <3>1
          <6> QED
            BY <5>2, <6>1
        <5>4. p * c <= Len(stream) /\ Len(stream) < p * c + c
          BY <2>1, <3>1, <3>2
        <5>5. Len(stream) = p * c
          BY <2>1, <3>1, <5>3, <5>4, QuotientMultiple
        <5> QED
          BY <5>1, <5>5
      <4> QED
        BY <4>1, <4>2
    <3>5. err.kind # "none" <=> Len(stream) # p * c
      BY <2>1, <3>1, <3>2
    <3> QED
      BY <2>1, <3>3, <3>4, <3>5, <3>7
  <2> QED
    BY <2>2, <2>3, <2>4 DEF ReadBackInOrder
<1> QED
  BY <1>1, PipeInvariance, PTL

-----------------------------------------------------------------------------
(* The pipe is a PointTransfer *)

LEMMA QuotientAtLeast ==
  ASSUME NEW c \in Nat \ {0}, NEW k \in Nat, NEW n \in Nat, k * c <= n
  PROVE  k <= n \div c
<1> DEFINE q == n \div c
<1>1. q \in Nat /\ q * c \in Nat /\ n < q * c + c
  BY QuotientBounds
<1> HIDE DEF q
<1>2. q < k => q * c + c <= k * c
  BY <1>1, FramesBound
<1>3. k <= q
  BY <1>1, <1>2, k * c \in Nat
<1> QED
  BY <1>3 DEF q

LEMMA QuotientAtMost ==
  ASSUME NEW c \in Nat \ {0}, NEW m \in Nat, NEW n \in Nat, n <= m * c
  PROVE  n \div c <= m
<1> DEFINE q == n \div c
<1>1. q \in Nat /\ q * c \in Nat /\ q * c <= n
  BY QuotientBounds
<1> HIDE DEF q
<1>2. m < q => m * c + c <= q * c
  BY <1>1, FramesBound
<1>3. q <= m
  BY <1>1, <1>2, m * c \in Nat
<1> QED
  BY <1>3 DEF q

(* Within a frame, at most one more becomes complete. *)
LEMMA QuotientStep ==
  ASSUME NEW c \in Nat \ {0}, NEW p \in Nat, NEW n \in Nat, NEW m \in Nat,
         p * c <= n, n <= m, m <= p * c + c
  PROVE  m \div c \in {n \div c, n \div c + 1}
<1>1. p * c \in Nat /\ (p + 1) * c = p * c + c
  OBVIOUS
<1>2. CASE n = p * c + c
  BY <1>1, <1>2, n = m
<1>3. CASE n < p * c + c
  <2>1. p = n \div c
    BY <1>3, QuotientIs
  <2>2. CASE m = p * c + c
    <3>1. (p + 1) * c <= m /\ m < (p + 1) * c + c
      BY <1>1, <2>2
    <3>2. p + 1 = m \div c
      BY <3>1, p + 1 \in Nat, QuotientIs
    <3> QED
      BY <2>1, <3>2
  <2>3. CASE m < p * c + c
    <3>1. p * c <= m
      BY <1>1
    <3>2. p = m \div c
      BY <2>3, <3>1, QuotientIs
    <3> QED
      BY <2>1, <3>2
  <2> QED
    BY <1>1, <2>2, <2>3
<1> QED
  BY <1>1, <1>2, <1>3

LEMMA IntervalSize ==
  ASSUME NEW k \in Nat
  PROVE  Cardinality(0 .. k - 1) = k
BY FS_Interval, 0 \in Int, k - 1 \in Int

(* The number of points sent is that of the points on the stream. *)
LEMMA SentFacts ==
  ASSUME PipeInv
  PROVE  /\ PointsSent \in Nat /\ PointsSent <= L
         /\ wcall.op = "slice" => Sent(PointsSent)
         /\ wcall.op # "slice" =>
              /\ FrameLength(fmt) \in Nat \ {0}
              /\ \A k \in Nat : k * FrameLength(fmt) <= Len(stream) => k <= PointsSent
              /\ \A k \in Nat : Len(stream) = k * FrameLength(fmt) => k = PointsSent
<1>1. /\ fmt = wfmt /\ Len(stream) \in Nat /\ L \in Nat /\ StreamInv
      /\ FrameLength(fmt) \in Nat /\ wfmt.point \in Nat \ {0}
      /\ FrameLength(wfmt) = wfmt.singleHeader + wfmt.point + wfmt.singleFooter
      /\ wfmt.singleHeader \in Nat /\ wfmt.singleFooter \in Nat
  <2>1. WTypeInv
    BY DEF PipeInv, WInv
  <2> QED
    BY <2>1, PipeFacts, CallFacts, WriteCallFacts, LenProperties DEF PipeInv
<1>2. FrameLength(fmt) \in Nat \ {0}
  BY <1>1
<1>3. CASE wcall.op = "slice"
  <2>1. PICK k \in 0 .. L : Sent(k)
    BY <1>1 DEF StreamInv
  <2>2. k \in Nat /\ k <= L
    BY <1>1
  <2>3. PointsSent = k
    BY <1>3, <2>1, <2>2, IntervalSize DEF PointsSent, Sent
  <2> QED
    BY <1>3, <2>1, <2>2, <2>3
<1>4. CASE wcall.op # "slice"
  <2> DEFINE c == FrameLength(fmt)
  <2>1. PointsSent = Len(stream) \div c /\ Len(stream) <= L * c
    BY <1>1, <1>4 DEF PointsSent, StreamInv
  <2> HIDE DEF c
  <2>2. c \in Nat \ {0}
    BY <1>2 DEF c
  <2>3. PointsSent \in Nat
    BY <1>1, <2>1, <2>2, QuotientBounds
  <2>4. PointsSent <= L
    BY <1>1, <2>1, <2>2, QuotientAtMost
  <2>5. \A k \in Nat : k * c <= Len(stream) => k <= PointsSent
    BY <1>1, <2>1, <2>2, QuotientAtLeast
  <2>6. \A k \in Nat : Len(stream) = k * c => k = PointsSent
    <3> SUFFICES ASSUME NEW k \in Nat, Len(stream) = k * c PROVE k = PointsSent
      OBVIOUS
    <3>1. k * c <= Len(stream) /\ Len(stream) < k * c + c
      BY <1>1, <2>2
    <3> QED
      BY <1>1, <2>1, <2>2, <3>1, QuotientIs
  <2> QED
    BY <1>4, <2>2, <2>3, <2>4, <2>5, <2>6 DEF c
<1> QED
  BY <1>3, <1>4

(* What a step of a writer does to the stream. *)
LEMMA WriteStepPuts ==
  ASSUME WTypeInv, WNext
  PROVE  /\ UNCHANGED <<wfmt, wcall>>
         /\ \/ UNCHANGED stream
            \/ \E part \in StreamParts, index \in Nat, n \in Nat : Put(part, index, n)
         /\ wpc \in {"singleHeader", "singlePoint", "singleFooter"} =>
              UNCHANGED <<j, wret>> /\ wpc' \in WSinglePCs
         /\ wpc \notin {"singleHeader", "singlePoint", "singleFooter"} \cup WSlicePCs =>
              UNCHANGED stream
<1>1. /\ wfmt.singleHeader \in Nat /\ wfmt.singleFooter \in Nat
      /\ wfmt.sliceHeader \in Nat /\ wfmt.sliceFooter \in Nat
      /\ wfmt.perPointHeader \in Nat /\ wfmt.perPointFooter \in Nat
      /\ wfmt.point \in Nat /\ SizeField \in Nat /\ L \in Nat /\ j \in Nat
  BY WriteCallFacts
<1>2. \A n \in Nat : (\A r \in WriteFull(n) : r.n \in Nat)
                     /\ (\A point : \A r \in BasicWrite(n, point) : r.n \in Nat)
  <2> SUFFICES ASSUME NEW n \in Nat
               PROVE  (\A r \in WriteFull(n) : r.n \in Nat)
                      /\ (\A point : \A r \in BasicWrite(n, point) : r.n \in Nat)
    OBVIOUS
  <2>1. \A r \in WriteFull(n) : Writes(r, n)
    BY WriteResults
  <2>2. \A point : \A r \in BasicWrite(n, point) : Writes(r, n)
    BY WriteResults
  <2> QED
    BY <2>1, <2>2 DEF Writes
<1>3. CASE StartWrite \/ ReturnWrite \/ ReturnWriteToLoop
  BY <1>3 DEF StartWrite, ReturnWrite, ReturnWriteToLoop
<1>4. ASSUME NEW r \in WriteFull(wfmt.singleHeader), WriteSingleHeader(r)
      PROVE  Put("singleHeader", 0, r.n) /\ r.n \in Nat /\ wpc = "singleHeader"
             /\ UNCHANGED <<wfmt, wcall, j, wret>> /\ wpc' \in WSinglePCs
  BY <1>1, <1>2, <1>4 DEF WriteSingleHeader, WSinglePCs
<1>5. ASSUME NEW r, WriteSinglePoint(r)
      PROVE  Put("point", j, r.n) /\ r.n \in Nat /\ wpc = "singlePoint"
             /\ UNCHANGED <<wfmt, wcall, j, wret>> /\ wpc' \in WSinglePCs
  BY <1>1, <1>2, <1>5 DEF WriteSinglePoint, WSinglePCs
<1>6. ASSUME NEW r \in WriteFull(wfmt.singleFooter), WriteSingleFooter(r)
      PROVE  Put("singleFooter", 0, r.n) /\ r.n \in Nat /\ wpc = "singleFooter"
             /\ UNCHANGED <<wfmt, wcall, j, wret>> /\ wpc' \in WSinglePCs
  BY <1>1, <1>2, <1>6 DEF WriteSingleFooter, WSinglePCs
<1>7. ASSUME NEW r,
             \/ r \in WriteFull(wfmt.sliceHeader) /\ WriteSliceHeader(r)
             \/ r \in WriteFull(SizeField) /\ WriteSliceSize(r)
             \/ r \in WriteFull(wfmt.perPointHeader) /\ WritePerPointHeader(r)
             \/ WritePoint(r)
             \/ r \in WriteFull(wfmt.perPointFooter) /\ WritePerPointFooter(r)
             \/ r \in WriteFull(wfmt.sliceFooter) /\ WriteSliceFooter(r)
      PROVE  /\ wpc \in WSlicePCs /\ UNCHANGED <<wfmt, wcall>>
             /\ \E part \in StreamParts, index \in Nat, n \in Nat : Put(part, index, n)
  <2>1. wpc \in WSlicePCs /\ UNCHANGED <<wfmt, wcall>>
    BY <1>7 DEF WriteSliceHeader, WriteSliceSize, WritePerPointHeader, WritePoint,
                WritePerPointFooter, WriteSliceFooter, SliceWrite, WSlicePCs, WFramePCs
  <2>2. \E part \in StreamParts, index \in Nat : Put(part, index, r.n)
    BY <1>1, <1>7 DEF WriteSliceHeader, WriteSliceSize, WritePerPointHeader, WritePoint,
                WritePerPointFooter, WriteSliceFooter, StreamParts
  <2>3. r.n \in Nat
    BY <1>1, <1>2, <1>7 DEF WritePoint
  <2> QED
    BY <2>1, <2>2, <2>3
<1>8. CASE \/ \E r \in WriteFull(wfmt.singleHeader) : WriteSingleHeader(r)
           \/ \E r \in BasicWrite(wfmt.point, "good") \cup BasicWrite(wfmt.point, "bad") :
                WriteSinglePoint(r)
           \/ \E r \in WriteFull(wfmt.singleFooter) : WriteSingleFooter(r)
  <2>1. \E part \in {"singleHeader", "point", "singleFooter"}, index \in {0, j}, n \in Nat :
          Put(part, index, n)
    BY <1>4, <1>5, <1>6, <1>8
  <2>2. \E part \in StreamParts, index \in Nat, n \in Nat : Put(part, index, n)
    BY <1>1, <2>1 DEF StreamParts
  <2> QED
    BY <1>4, <1>5, <1>6, <1>8, <2>2
<1>9. ASSUME NEW r,
             \/ r \in WriteFull(wfmt.sliceHeader) /\ WriteSliceHeader(r)
             \/ r \in WriteFull(SizeField) /\ WriteSliceSize(r)
             \/ r \in WriteFull(wfmt.perPointHeader) /\ WritePerPointHeader(r)
             \/ WritePoint(r)
             \/ r \in WriteFull(wfmt.perPointFooter) /\ WritePerPointFooter(r)
             \/ r \in WriteFull(wfmt.sliceFooter) /\ WriteSliceFooter(r)
      PROVE  wpc \notin WSinglePCs
  BY <1>9 DEF WriteSliceHeader, WriteSliceSize, WritePerPointHeader, WritePoint,
              WritePerPointFooter, WriteSliceFooter, WSinglePCs
<1> QED
  BY <1>3, <1>7, <1>8, <1>9 DEF WNext, WSinglePCs, StartWrite, ReturnWrite, ReturnWriteToLoop

(* A write completes at most one point. *)
LEMMA SentGrows ==
  ASSUME PipeInv, WInv', StreamInv', WNext
  PROVE  /\ UNCHANGED <<wfmt, wcall, L>> /\ L \in Nat /\ PointsSent' <= L
         /\ PointsSent' \in {PointsSent, PointsSent + 1}
<1>1. /\ WTypeInv /\ WTypeInv' /\ L \in Nat /\ Len(stream) \in Nat
      /\ wfmt.point \in Nat \ {0} /\ StreamInv
      /\ FrameLength(wfmt) = wfmt.singleHeader + wfmt.point + wfmt.singleFooter
      /\ wfmt.singleHeader \in Nat /\ wfmt.singleFooter \in Nat
  BY WriteCallFacts, LenProperties DEF PipeInv, WInv
<1>2. UNCHANGED <<wfmt, wcall, L>> /\ FrameLength(wfmt)' = FrameLength(wfmt)
  BY <1>1, WriteStepPuts DEF L, FrameLength
<1>3. \/ UNCHANGED stream
      \/ \E part \in StreamParts, index \in Nat, n \in Nat : Put(part, index, n)
  BY <1>1, WriteStepPuts
<1>4. CASE UNCHANGED stream
  <2>1. PointsSent' = PointsSent
    BY <1>2, <1>4 DEF PointsSent, PointsOut, FrameLength
  <2> QED
    BY <1>1, <1>2, <2>1, SentFacts
<1>5. CASE \E part \in StreamParts, index \in Nat, n \in Nat : Put(part, index, n)
  <2>1. PICK part \in StreamParts, index \in Nat, n \in Nat : Put(part, index, n)
    BY <1>5
  <2>2. /\ Len(stream') = Len(stream) + n
        /\ PointsOut' = PointsOut \cup
              {p \in 0 .. L - 1 : part = "point" /\ p = index /\ wfmt.point <= n}
    BY <1>1, <1>2, <2>1, PutFacts
  <2>3. CASE wcall.op = "slice"
    <3>1. PointsSent \in Nat /\ Sent(PointsSent)
      BY <2>3, SentFacts
    <3>2. PICK k \in 0 .. L : PointsOut' = 0 .. k - 1
      BY <1>2 DEF StreamInv, Sent
    <3>3. PointsSent' = k
      <4>1. PointsSent' = Cardinality(PointsOut')
        BY <1>2, <2>3 DEF PointsSent
      <4>2. k \in Nat
        BY <1>1
      <4> QED
        BY <3>2, <4>1, <4>2, IntervalSize
    <3>4. PICK m \in Nat : m = PointsSent /\ PointsOut = 0 .. m - 1
      BY <3>1 DEF Sent
    <3>5. 0 .. m - 1 \subseteq 0 .. k - 1 /\ \A p \in 0 .. k - 1 : p \in 0 .. m - 1 \/ p = index
      BY <2>2, <3>2, <3>4
    <3>6. m <= k
      <4>1. m > 0 => m - 1 \in 0 .. k - 1
        BY <3>5
      <4> QED
        BY <1>1, <4>1
    <3>7. k <= m + 1
      <4> SUFFICES ASSUME m + 1 < k PROVE FALSE
        BY <1>1
      <4>1. m \in 0 .. k - 1 /\ m + 1 \in 0 .. k - 1
        BY <1>1
      <4> QED
        BY <3>5, <4>1
    <3> QED
      BY <1>1, <1>2, <3>3, <3>4, <3>6, <3>7
  <2>4. CASE wcall.op # "slice" /\ n = 0
    <3>1. Len(stream') = Len(stream)
      BY <1>1, <2>2, <2>4
    <3>2. PointsSent' = PointsSent
      BY <1>2, <2>4, <3>1 DEF PointsSent
    <3> QED
      BY <1>1, <1>2, <3>2, SentFacts
  <2>5. CASE wcall.op # "slice" /\ n # 0
    <3>1. wpc \in {"singleHeader", "singlePoint", "singleFooter"}
      <4>1. stream' # stream
        BY <1>1, <2>2, <2>5
      <4>2. wpc \notin WSlicePCs
        BY <2>5 DEF PipeInv, WInv, WSlicePosition
      <4> QED
        BY <1>1, <4>1, <4>2, WriteStepPuts
    <3>2. UNCHANGED <<j, wret>> /\ wpc' \in WSinglePCs /\ wpc \in WSinglePCs
      BY <1>1, <3>1, WriteStepPuts DEF WSinglePCs
    <3>3. WSinglePosition /\ WCounted /\ WSinglePosition' /\ WCounted'
      BY <3>2 DEF PipeInv, WInv
    <3> DEFINE c == FrameLength(wfmt)
    <3>4. /\ c \in Nat \ {0} /\ j \in Nat /\ j * c = wret /\ wret + wsub.n = Len(stream)
          /\ wsub.n \in Nat /\ wsub'.n \in Nat /\ wret \in Nat
          /\ wret' + wsub'.n = Len(stream')
      <4>1. c \in Nat \ {0}
        BY <1>1
      <4>2. j \in Nat /\ wsub.n \in Nat /\ wsub'.n \in Nat /\ wret \in Nat
        BY <1>1 DEF WTypeInv
      <4>3. j * c = wret
        BY <3>3 DEF WSinglePosition
      <4>4. wret + wsub.n = Len(stream) /\ wret' + wsub'.n = Len(stream')
        BY <3>3 DEF WCounted
      <4> QED
        BY <4>1, <4>2, <4>3, <4>4
    <3>5. wsub'.n <= c
      <4>1. wfmt' = wfmt /\ FrameLength(wfmt)' = c /\ wsub'.n \in Nat
        BY <1>2, <3>4
      <4>2. \/ wsub'.n = 0
            \/ wsub'.n = wfmt.singleHeader
            \/ wsub'.n = wfmt.singleHeader + wfmt.point
            \/ wsub'.n <= c
        BY <3>2, <3>3, <4>1 DEF WSinglePosition, WSinglePCs
      <4> QED
        BY <1>1, <4>1, <4>2
    <3>6. PointsSent = Len(stream) \div c /\ PointsSent' = Len(stream') \div c
          /\ Len(stream') <= L * c
      BY <1>2, <2>5 DEF PointsSent, StreamInv
    <3> HIDE DEF c
    <3>7. /\ j * c <= Len(stream) /\ Len(stream) <= Len(stream') /\ Len(stream') <= j * c + c
          /\ Len(stream') \in Nat
      <4>1. wret' = wret /\ Len(stream) \in Nat /\ Len(stream') \in Nat /\ Len(stream) <= Len(stream')
        BY <1>1, <2>2, <3>2
      <4>2. PICK q \in Nat : q = j * c /\ q = wret
        BY <3>4
      <4>3. q <= Len(stream) /\ Len(stream') <= q + c
        BY <3>4, <3>5, <4>1, <4>2, SMTT(30)
      <4> QED
        BY <4>1, <4>2, <4>3
    <3>8. PointsSent' \in {PointsSent, PointsSent + 1}
      <4>1. Len(stream) \in Nat /\ j \in Nat /\ c \in Nat \ {0}
        BY <1>1, <3>4
      <4>2. Len(stream') \div c \in {Len(stream) \div c, Len(stream) \div c + 1}
        BY <3>7, <4>1, QuotientStep, SMTT(30)
      <4> QED
        BY <3>6, <4>2
    <3>9. PointsSent' <= L
      BY <1>1, <3>4, <3>6, <3>7, QuotientAtMost
    <3> QED
      BY <1>1, <1>2, <3>8, <3>9
  <2> QED
    BY <2>3, <2>4, <2>5
<1> QED
  BY <1>3, <1>4, <1>5

LEMMA ReceivedFacts ==
  ASSUME PipeInv
  PROVE  /\ PointsReceived \in Nat /\ Room \in Nat
         /\ pc = "start" => PointsReceived = 0 /\ Verdict = "pending"
<1>1. RTypeInv /\ Len(decoded) \in Nat /\ i \in Nat /\ InOrder /\ call.len \in Nat
  BY PipeFacts, CallFacts, LenProperties
<1>2. PointsReceived \in Nat /\ Room \in Nat
  BY <1>1, LengthsAssumption DEF PointsReceived, Room
<1>3. ASSUME pc = "start" PROVE PointsReceived = 0 /\ Verdict = "pending"
  <2>1. NothingDone /\ Written(0) /\ Written(Len(decoded)) /\ i = 0
    BY <1>1, <1>3 DEF PipeInv, RInv, NothingDone, InOrder
  <2>2. Len(decoded) = 0
    BY <1>1, <2>1, SameLength DEF Written
  <2> QED
    BY <1>3, <2>1, <2>2 DEF PointsReceived, SinglePointRead, Verdict
<1> QED
  BY <1>2, <1>3

LEMMA SameTransfer ==
  ASSUME UNCHANGED <<wvars, call, PointsReceived, Verdict>>
  PROVE  UNCHANGED Transfer!tvars
<1>1. UNCHANGED <<L, PointsSent, Room>>
  BY DEF wvars, L, PointsSent, PointsOut, FrameLength, Room
<1> QED
  BY <1>1 DEF Transfer!tvars

(* The steps of the reader as those of the receiver of a PointTransfer *)
LEMMA ReaderTransfers ==
  ASSUME PipeInv, UNCHANGED <<wvars, call>>,
         \/ UNCHANGED <<PointsReceived, Verdict>>
         \/ /\ Verdict = "pending" /\ Verdict' = "pending"
            /\ PointsReceived < PointsSent /\ PointsReceived < Room
            /\ PointsReceived' = PointsReceived + 1
         \/ /\ Verdict = "pending" /\ Verdict' = "accepted" /\ UNCHANGED PointsReceived
            /\ PointsReceived \in {PointsSent, Room}
            /\ call.op = "slice" => PointsReceived = L
         \/ /\ Verdict = "pending" /\ Verdict' = "rejected" /\ UNCHANGED PointsReceived
  PROVE  [Transfer!TNext]_Transfer!tvars
<1>1. UNCHANGED <<L, PointsSent, Room>>
  BY DEF wvars, L, PointsSent, PointsOut, FrameLength, Room
<1> QED
  BY <1>1, SameTransfer
  DEF Transfer!TNext, Transfer!Receive, Transfer!Accept, Transfer!Reject

LEMMA StartTransfers ==
  ASSUME PipeInv, StartCall, UNCHANGED <<wvars, decoded>>
  PROVE  [Transfer!TNext]_Transfer!tvars
<1>1. /\ pc = "start" /\ UNCHANGED <<call, i, err>> /\ err.kind = "none" /\ i = 0
      /\ call.len \in Nat /\ call \in Calls
      /\ call.op \in {"point", "points", "bounded", "slice"}
  BY PipeFacts, CallFacts DEF PipeInv, RInv, RTypeInv, NothingDone, StartCall, BatchOps
<1>2. PointsReceived = 0 /\ Verdict = "pending"
  BY <1>1, ReceivedFacts
<1>3. pc' \in {"singleHeader", "sliceHeader", "boundedReturn", "done", "panicked"}
  BY <1>1 DEF StartCall, AfterPoints
<1>4. PointsReceived' = PointsReceived
  <2>1. CASE call.op = "slice"
    BY <1>1, <2>1 DEF PointsReceived
  <2>2. CASE call.op = "point"
    <3>1. pc' = "singleHeader"
      BY <1>1, <2>2 DEF StartCall
    <3> QED
      BY <1>1, <1>2, <2>2, <3>1 DEF PointsReceived, SinglePointRead
  <2>3. CASE call.op \notin {"slice", "point"}
    BY <1>1, <1>2, <1>3, <2>3 DEF PointsReceived, SinglePointRead
  <2> QED
    BY <2>1, <2>2, <2>3
<1>5. CASE pc' \in {"singleHeader", "sliceHeader", "boundedReturn"}
  BY <1>1, <1>2, <1>4, <1>5, ReaderTransfers DEF Verdict
<1>6. CASE pc' = "panicked"
  BY <1>1, <1>2, <1>4, <1>6, ReaderTransfers DEF Verdict
<1>7. CASE pc' = "done"
  <2>1. call.op = "points" /\ ~ 0 < call.len
    BY <1>1, <1>7 DEF StartCall, AfterPoints
  <2>2. call.maker = "existing" /\ call.len = 0
    BY <1>1, <2>1 DEF Calls
  <2>3. Room = 0
    BY <2>2 DEF Room
  <2>4. Verdict' = "accepted"
    BY <1>1, <1>7 DEF Verdict
  <2> QED
    BY <1>1, <1>2, <1>4, <2>1, <2>3, <2>4, ReaderTransfers
<1> QED
  BY <1>3, <1>5, <1>6, <1>7

(* Nothing is received before the footer of a point. *)
LEMMA InsidePointTransfers ==
  ASSUME PipeInv, UNCHANGED <<wvars, call, i>>, call.op # "slice",
         pc \in {"singleHeader", "singlePoint", "singleFooter"}, pc' \in SinglePCs,
         pc' = "singleReturn" => sub'.kind # "none"
  PROVE  [Transfer!TNext]_Transfer!tvars
<1>1. ~ SinglePointRead /\ ~ SinglePointRead'
  BY DEF SinglePointRead
<1>2. pc # "done" /\ pc' # "done" /\ pc # "panicked" /\ pc' # "panicked"
  BY DEF SinglePCs
<1>3. PointsReceived' = PointsReceived
  BY <1>1, <1>2 DEF PointsReceived
<1>4. Verdict' = Verdict
  BY <1>2 DEF Verdict
<1> QED
  BY <1>3, <1>4, ReaderTransfers

LEMMA FooterTransfers ==
  ASSUME PipeInv, connected, UNCHANGED <<wvars, connected, decoded>>,
         NEW r \in ConsumeExpectRead(fmt.singleFooter), ReadSingleFooter(r),
         ExpectRead(r, "singleFooter", fmt.singleFooter)
  PROVE  [Transfer!TNext]_Transfer!tvars
<1>1. /\ pc = "singleFooter" /\ pc' = "singleReturn" /\ UNCHANGED <<fmt, call, i>>
      /\ Finds(r, fmt.singleFooter) /\ (sub'.kind = "none" <=> r.kind = "none")
  BY SingleFooterRead DEF ReadSingleFooter
<1>2. SinglePosition
  BY <1>1 DEF PipeInv, RInv, SinglePCs
<1>3. CASE sub'.kind # "none"
  BY <1>1, <1>2, <1>3, InsidePointTransfers DEF SinglePosition, SinglePCs
<1>4. CASE sub'.kind = "none"
  <2>1. /\ RTypeInv /\ Counted /\ Joined /\ call.len \in Nat /\ i \in Nat /\ i < call.len
        /\ call.op \in {"point", "points", "bounded"} /\ call \in Calls
        /\ wcall.op # "slice" /\ FrameLength(fmt) \in Nat
        /\ FrameLength(fmt) = fmt.singleHeader + fmt.point + fmt.singleFooter
        /\ fmt.singleHeader \in Nat /\ fmt.point \in Nat /\ fmt.singleFooter \in Nat
        /\ input.left \in Nat /\ Len(stream) \in Nat
    <3>1. /\ RTypeInv /\ Counted /\ Joined /\ call.len \in Nat /\ i \in Nat
          /\ FrameLength(fmt) \in Nat /\ input.left \in Nat /\ Len(stream) \in Nat
          /\ fmt \in Format
      BY PipeFacts, CallFacts, LenProperties
    <3>2. i < call.len /\ call.op # "slice"
      BY <1>2 DEF SinglePosition
    <3>3. call \in Calls /\ call.op \in {"point", "points", "bounded"}
      BY <3>1, <3>2 DEF RTypeInv, Calls, BatchOps
    <3>4. fmt.singleHeader \in Nat /\ fmt.point \in Nat /\ fmt.singleFooter \in Nat
      BY <3>1 DEF Format
    <3>5. wcall.op # "slice"
      BY <3>1, <3>2 DEF Joined
    <3> QED
      BY <3>1, <3>2, <3>3, <3>4, <3>5 DEF FrameLength
  <2>2. call.op = "point" => i = 0 /\ call.len = 1
    BY <2>1 DEF Calls, BatchOps
  <2>3. Room = call.len
    BY <2>1 DEF Calls, Room
  <2>4. PointsReceived = i /\ PointsReceived' = i + 1
    <3>1. ~ SinglePointRead /\ SinglePointRead' /\ pc # "done"
      BY <1>1, <1>4 DEF SinglePointRead
    <3>2. CASE call.op = "point"
      BY <1>1, <2>1, <2>2, <3>1, <3>2 DEF PointsReceived
    <3>3. CASE call.op # "point"
      BY <1>1, <2>1, <3>1, <3>3 DEF PointsReceived
    <3> QED
      BY <3>2, <3>3
  <2>5. i < PointsSent
    <3>1. /\ ret.bytesRead = i * FrameLength(fmt) /\ sub.n = fmt.singleHeader + fmt.point
          /\ input.taken = ret.bytesRead + sub.n /\ input.taken + input.left = Len(stream)
          /\ fmt.singleFooter <= input.left
      BY <1>1, <1>2, <1>4, <2>1 DEF SinglePosition, Counted, Joined, Finds
    <3>2. PICK c \in Nat, k \in Nat : c = FrameLength(fmt) /\ k = i * c /\ (i + 1) * c = k + c
      BY <2>1
    <3>3. (i + 1) * c <= Len(stream)
      <4>1. PICK h \in Nat, p \in Nat, e \in Nat, left \in Nat :
              /\ h = fmt.singleHeader /\ p = fmt.point /\ e = fmt.singleFooter
              /\ left = input.left
        BY <2>1
      <4>2. c = h + p + e /\ Len(stream) = k + (h + p) + left /\ e <= left
        BY <2>1, <3>1, <3>2, <4>1
      <4>3. \A a, b, x, y \in Nat : y <= b => x + (a + y) <= x + a + b
        OBVIOUS
      <4>4. h + p \in Nat /\ c = (h + p) + e
        BY <4>1, <4>2
      <4>5. k + c <= Len(stream)
        BY <4>1, <4>2, <4>3, <4>4
      <4> QED
        BY <3>2, <4>5
    <3>4. i + 1 <= PointsSent
      BY <2>1, <3>2, <3>3, i + 1 \in Nat, SentFacts
    <3> QED
      BY <2>1, <3>4, SentFacts
  <2>6. Verdict = "pending" /\ Verdict' = "pending"
    BY <1>1 DEF Verdict
  <2> QED
    BY <1>1, <2>1, <2>3, <2>4, <2>5, <2>6, ReaderTransfers
<1> QED
  BY <1>3, <1>4

LEMMA ReturnTransfers ==
  ASSUME PipeInv, ReturnPoint \/ ReturnToLoop, UNCHANGED <<wvars, decoded>>
  PROVE  [Transfer!TNext]_Transfer!tvars
<1>1. pc = "singleReturn" /\ UNCHANGED call /\ Verdict = "pending"
  BY DEF ReturnPoint, ReturnToLoop, Verdict
<1>2. /\ SinglePosition /\ i \in Nat /\ call.len \in Nat /\ i < call.len /\ err.kind = "none"
      /\ call \in Calls /\ call.op \in {"point", "points", "bounded"}
  <2>1. SinglePosition /\ RTypeInv
    BY <1>1 DEF PipeInv, RInv, SinglePCs
  <2>2. i < call.len /\ err.kind = "none" /\ call.op # "slice"
    BY <2>1 DEF SinglePosition
  <2>3. call \in Calls /\ call.op \in {"point", "points", "bounded"}
    BY <2>1, <2>2 DEF RTypeInv, Calls, BatchOps
  <2> QED
    BY <2>1, <2>2, <2>3, PipeFacts, CallFacts
<1>3. Room = call.len
  BY <1>2 DEF Calls, Room
<1>4. CASE ReturnPoint
  <2>1. call.op = "point" /\ pc' = "done" /\ err'.kind = sub.kind
    BY <1>4 DEF ReturnPoint, Fail
  <2>2. Room = 1
    BY <1>2, <1>3, <2>1 DEF Calls, BatchOps
  <2>3. CASE sub.kind = "none"
    <3>1. PointsReceived = 1 /\ PointsReceived' = 1 /\ Verdict' = "accepted"
      BY <1>1, <2>1, <2>3 DEF PointsReceived, SinglePointRead, Verdict
    <3> QED
      BY <1>1, <2>1, <2>2, <3>1, ReaderTransfers
  <2>4. CASE sub.kind # "none"
    <3>1. PointsReceived = 0 /\ PointsReceived' = 0 /\ Verdict' = "rejected"
      BY <1>1, <2>1, <2>4 DEF PointsReceived, SinglePointRead, Verdict
    <3> QED
      BY <1>1, <3>1, ReaderTransfers
  <2> QED
    BY <2>3, <2>4
<1>5. CASE ReturnToLoop
  <2>1. call.op \in {"points", "bounded"}
    BY <1>5 DEF ReturnToLoop, BatchOps
  <2>2. CASE sub.kind = "none"
    <3>1. i' = i + 1 /\ pc' = AfterPoints(i + 1) /\ err' = err
      BY <1>5, <2>2 DEF ReturnToLoop
    <3>2. pc' \in {"singleHeader", "boundedReturn", "done"}
          /\ (pc' = "done" => i + 1 = call.len)
      BY <1>2, <3>1 DEF AfterPoints
    <3>3. PointsReceived = i + 1 /\ PointsReceived' = i + 1
      BY <1>1, <2>1, <2>2, <3>1, <3>2 DEF PointsReceived, SinglePointRead
    <3>4. Verdict' = IF pc' = "done" THEN "accepted" ELSE "pending"
      BY <1>2, <3>1, <3>2 DEF Verdict
    <3> QED
      BY <1>1, <1>3, <2>1, <3>2, <3>3, <3>4, ReaderTransfers
  <2>3. CASE sub.kind # "none"
    <3>1. i' = i /\ pc' \in {"boundedReturn", "done"} /\ err'.kind # "none"
      BY <1>5, <2>3 DEF ReturnToLoop, Fail, UnexpectEOF
    <3>2. PointsReceived = i /\ PointsReceived' = i
      BY <1>1, <2>1, <2>3, <3>1 DEF PointsReceived, SinglePointRead
    <3>3. Verdict' = IF pc' = "done" THEN "rejected" ELSE "pending"
      BY <3>1 DEF Verdict
    <3> QED
      BY <1>1, <3>1, <3>2, <3>3, ReaderTransfers
  <2> QED
    BY <2>2, <2>3
<1> QED
  BY <1>4, <1>5

LEMMA BoundedTransfers ==
  ASSUME PipeInv, BoundedReturn, UNCHANGED <<wvars, decoded>>
  PROVE  [Transfer!TNext]_Transfer!tvars
<1>1. /\ pc = "boundedReturn" /\ pc' = "done" /\ UNCHANGED <<fmt, call, i>>
      /\ err' = IF SwallowsError THEN NoError ELSE err
      /\ NoError.kind = "none"
  BY DEF BoundedReturn, NoError
<1>2. BoundedPosition /\ BatchRead /\ call.op = "bounded" /\ call \in Calls /\ i \in Nat
      /\ wcall.op # "slice" /\ (err.kind # "none" => LoopAligned)
  BY <1>1, PipeFacts DEF PipeInv, RInv, AInv, BoundedPosition, RTypeInv, Joined
<1>3. PointsReceived = i /\ PointsReceived' = i /\ Verdict = "pending"
  BY <1>1, <1>2 DEF PointsReceived, SinglePointRead, Verdict
<1>4. CASE err'.kind # "none"
  BY <1>1, <1>3, <1>4, ReaderTransfers DEF Verdict
<1>5. CASE err'.kind = "none"
  <2>1. Verdict' = "accepted"
    BY <1>1, <1>5 DEF Verdict
  <2>2. i \in {PointsSent, Room}
    <3>1. CASE err.kind = "none"
      <4>1. i = call.len
        BY <1>1, <1>2, <3>1 DEF BatchRead, WholeBatch
      <4>2. Room = call.len
        BY <1>2 DEF Calls, Room
      <4> QED
        BY <4>1, <4>2
    <3>2. CASE err.kind # "none"
      <4>1. SwallowsError
        BY <1>1, <1>5, <3>2
      <4>2. Len(stream) = i * FrameLength(fmt)
        BY <1>1, <1>2, <3>2, <4>1 DEF LoopAligned, BatchRead, CutAfter
      <4> QED
        BY <1>2, <4>2, SentFacts
    <3> QED
      BY <3>1, <3>2
  <2> QED
    BY <1>1, <1>2, <1>3, <2>1, <2>2, ReaderTransfers
<1> QED
  BY <1>4, <1>5

(* Of a slice, points are received where they are decoded; a slice that was *)
(* not read completely is rejected.                                         *)
LEMMA SliceTransfers ==
  ASSUME PipeInv, UNCHANGED <<wvars, call, decoded>>, call.op = "slice",
         pc \notin {"done", "panicked"}, pc' # "panicked", pc' = "done" => err'.kind # "none"
  PROVE  [Transfer!TNext]_Transfer!tvars
<1>1. PointsReceived' = PointsReceived
  BY DEF PointsReceived
<1>2. Verdict = "pending" /\ Verdict' = IF pc' = "done" THEN "rejected" ELSE "pending"
  BY DEF Verdict
<1> QED
  BY <1>1, <1>2, ReaderTransfers

LEMMA SliceHeaderEnds ==
  ASSUME NEW r, ReadSliceHeader(r)
  PROVE  IF r.kind = "none" THEN pc' = "sliceSize" ELSE pc' = "done" /\ err'.kind # "none"
BY DEF ReadSliceHeader, FailEarly, Fail

LEMMA PreambleTransfers ==
  ASSUME PipeInv, UNCHANGED <<wvars, decoded>>,
         \/ \E r \in ConsumeExpectRead(fmt.sliceHeader) : ReadSliceHeader(r)
         \/ \E v \in 0 .. MaxInt32 : ReadSliceSize(v)
         \/ MakeSlice
  PROVE  [Transfer!TNext]_Transfer!tvars
<1>1. pc \in PreamblePCs /\ UNCHANGED call
  BY DEF ReadSliceHeader, ReadSliceSize, MakeSlice, PreamblePCs
<1>2. call.op = "slice"
  BY <1>1 DEF PipeInv, RInv, PreamblePosition
<1>3. CASE \E r \in ConsumeExpectRead(fmt.sliceHeader) : ReadSliceHeader(r)
  <2>1. PICK r \in ConsumeExpectRead(fmt.sliceHeader) : ReadSliceHeader(r)
    BY <1>3
  <2>2. IF r.kind = "none" THEN pc' = "sliceSize" ELSE pc' = "done" /\ err'.kind # "none"
    BY <2>1, SliceHeaderEnds
  <2>3. pc' # "panicked" /\ (pc' = "done" => err'.kind # "none")
    BY <2>2
  <2> QED
    BY <1>1, <1>2, <2>3, SliceTransfers DEF PreamblePCs
<1>4. CASE \E v \in 0 .. MaxInt32 : ReadSliceSize(v)
  <2>1. Short(SizeField) => UnexpectEOF(ReadFullKind(SizeField)) # "none"
    BY DEF Short, UnexpectEOF
  <2>2. pc' # "panicked" /\ (pc' = "done" => err'.kind # "none")
    BY <1>4, <2>1 DEF ReadSliceSize, FailEarly, Fail
  <2> QED
    BY <1>1, <1>2, <2>2, SliceTransfers DEF PreamblePCs
<1>5. CASE MakeSlice
  <2>1. pc' # "panicked" /\ (pc' = "done" => err'.kind # "none")
    BY <1>5 DEF MakeSlice, FailEarly, Fail, AfterSlicePoints
  <2> QED
    BY <1>1, <1>2, <2>1, SliceTransfers DEF PreamblePCs
<1> QED
  BY <1>3, <1>4, <1>5

LEMMA FrameTransfers ==
  ASSUME PipeInv, UNCHANGED <<wvars, decoded>>, NEW r,
         ReadPerPointHeader(r) \/ ReadPerPointFooter(r) \/ ReadSliceFooter(r)
  PROVE  [Transfer!TNext]_Transfer!tvars
<1>1. pc \in FramePCs /\ UNCHANGED <<call, size>>
  BY DEF ReadPerPointHeader, ReadPerPointFooter, ReadSliceFooter, FramePCs
<1>2. FramePosition /\ call.op = "slice" /\ size = L /\ err.kind = "none"
  BY <1>1, PipeFacts DEF PipeInv, RInv, FramePosition, SliceRead
<1>3. CASE ReadPerPointHeader(r) \/ ReadPerPointFooter(r)
  <2>1. pc' # "panicked" /\ (pc' = "done" => err'.kind # "none")
    BY <1>3 DEF ReadPerPointHeader, ReadPerPointFooter, Fail, AfterSlicePoints
  <2> QED
    BY <1>1, <1>2, <2>1, SliceTransfers DEF FramePCs
<1>4. CASE ReadSliceFooter(r) /\ err'.kind # "none"
  <2>1. pc' = "done"
    BY <1>4 DEF ReadSliceFooter
  <2> QED
    BY <1>1, <1>2, <1>4, <2>1, SliceTransfers DEF FramePCs
<1>5. CASE ReadSliceFooter(r) /\ err'.kind = "none"
  <2>1. pc = "sliceFooter" /\ pc' = "done"
    BY <1>5 DEF ReadSliceFooter
  <2>2. i = L /\ Written(i) /\ L \in Nat /\ Len(decoded) \in Nat /\ Written(Len(decoded))
        /\ touched \subseteq PointsOut
    BY <1>2, <2>1, PipeFacts, LenProperties DEF FramePosition, InOrder
  <2>3. Len(decoded) = L
    BY <2>2, SameLength DEF Written
  <2>4. PointsReceived = L /\ PointsReceived' = L
    BY <1>1, <1>2, <2>3 DEF PointsReceived
  <2>5. Verdict = "pending" /\ Verdict' = "accepted"
    BY <1>5, <2>1 DEF Verdict
  <2>6. PointsSent = L
    <3>1. PointsSent \in Nat /\ PointsSent <= L /\ Sent(PointsSent)
      BY <1>2, PipeFacts, SentFacts DEF Joined
    <3>2. PICK m \in Nat : m = PointsSent /\ 0 .. L - 1 \subseteq 0 .. m - 1 /\ m <= L
      BY <2>2, <3>1 DEF Sent, Written
    <3>3. L > 0 => L - 1 \in 0 .. m - 1
      BY <2>2, <3>2
    <3> QED
      BY <2>2, <3>2, <3>3
  <2> QED
    BY <1>1, <2>4, <2>5, <2>6, ReaderTransfers
<1> QED
  BY <1>3, <1>4, <1>5

LEMMA PointTransfers ==
  ASSUME PipeInv, connected, UNCHANGED <<wvars, connected>>,
         NEW r \in BasicRead(fmt.point), ReadPoint(r), PointRead(r)
  PROVE  [Transfer!TNext]_Transfer!tvars
<1>1. pc = "point" /\ UNCHANGED <<call, size>> /\ pc \in FramePCs
  BY DEF ReadPoint, FramePCs
<1>2. FramePosition /\ call.op = "slice" /\ RTypeInv
  BY <1>1, PipeFacts DEF PipeInv, RInv, FramePosition
<1>3. CASE r.kind # "none"
  BY <1>1, <1>2, <1>3, PointOfSliceRead, SliceTransfers
<1>4. CASE r.kind = "none"
  <2>1. /\ pc' = "perPointFooter" /\ i \in PointsOut
        /\ Len(decoded) = i /\ Len(decoded') = i + 1
    BY <1>4, PointOfSliceRead
  <2>2. PointsReceived = i /\ PointsReceived' = i + 1 /\ Verdict = "pending" /\ Verdict' = "pending"
    BY <1>1, <1>2, <2>1 DEF PointsReceived, Verdict
  <2>3. i < PointsSent
    <3>1. PointsSent \in Nat /\ Sent(PointsSent)
      BY <1>2, PipeFacts, SentFacts DEF Joined
    <3> QED
      BY <2>1, <3>1, PipeFacts DEF Sent
  <2>4. i < Room
    <3>1. i < size /\ size <= MaxInt32 /\ (call.maker = "existing" => size <= call.len)
          /\ call.maker \in {"new", "existing"} /\ i \in Nat /\ size \in Nat
          /\ call.len \in Nat /\ MaxInt32 \in Nat
      BY <1>1, <1>2, CallFacts, LengthsAssumption DEF FramePosition, RTypeInv, Calls
    <3> QED
      BY <3>1 DEF Room
  <2> QED
    BY <1>1, <2>2, <2>3, <2>4, ReaderTransfers
<1> QED
  BY <1>3, <1>4

LEMMA ReaderStepTransfers ==
  ASSUME PipeInv, ReaderStep
  PROVE  [Transfer!TNext]_Transfer!tvars
<1>1. connected /\ UNCHANGED <<wvars, connected>>
  BY DEF ReaderStep
<1>2. ASSUME pc \in SinglePCs PROVE call.op # "slice"
  BY <1>2 DEF PipeInv, RInv, SinglePosition
<1>3. CASE HeaderStep
  <2>1. ASSUME NEW r \in ConsumeExpectRead(fmt.singleHeader), ReadSingleHeader(r),
               ExpectRead(r, "singleHeader", fmt.singleHeader)
        PROVE  [Transfer!TNext]_Transfer!tvars
    <3>1. pc = "singleHeader" /\ pc \in SinglePCs /\ UNCHANGED decoded
      BY <1>3, <2>1 DEF ReadSingleHeader, SinglePCs, HeaderStep
    <3> QED
      BY <1>1, <1>2, <2>1, <3>1, SingleHeaderRead, InsidePointTransfers
  <2>2. UNCHANGED decoded
    BY <1>3 DEF HeaderStep
  <2> QED
    BY <1>1, <1>3, <2>1, <2>2, FooterTransfers, PreambleTransfers, FrameTransfers DEF HeaderStep
<1>4. CASE PointStep
  <2>1. ASSUME NEW r \in BasicRead(fmt.point), ReadSinglePoint(r), PointRead(r)
        PROVE  [Transfer!TNext]_Transfer!tvars
    <3>1. pc = "singlePoint" /\ pc \in SinglePCs
      BY <2>1 DEF ReadSinglePoint, SinglePCs
    <3> QED
      BY <1>1, <1>2, <2>1, <3>1, PointOfBatchRead, InsidePointTransfers
  <2> QED
    BY <1>1, <1>4, <2>1, PointTransfers DEF PointStep
<1>5. CASE SizeStep
  BY <1>1, <1>5, PreambleTransfers DEF SizeStep
<1>6. CASE InternalStep
  BY <1>1, <1>6, StartTransfers, ReturnTransfers, BoundedTransfers, PreambleTransfers
  DEF InternalStep
<1> QED
  BY <1>3, <1>4, <1>5, <1>6 DEF ReaderStep

(* Writer and reader together do what PointTransfer allows. *)
THEOREM TransferRefinement == PSpec => Transfer!TSpec
<1>1. PInit => Transfer!TInit
  <2> SUFFICES ASSUME PInit PROVE Transfer!TInit
    OBVIOUS
  <2>1. PipeInv /\ pc = "start"
    BY PipeInitially DEF PInit, Init
  <2>2. PointsReceived = 0 /\ Verdict = "pending" /\ Room \in Nat /\ L \in Nat
    BY <2>1, ReceivedFacts, PipeFacts
  <2>3. stream = <<>> /\ Len(stream) = 0
    BY EmptySeq DEF PInit, WInit
  <2>4. PointsSent = 0
    <3>1. CASE wcall.op = "slice"
      <4>1. PointsOut = {}
        BY <2>3 DEF PointsOut
      <4>2. PointsOut = 0 .. 0 - 1
        BY <4>1
      <4>3. Cardinality(PointsOut) = 0
        BY <4>2, 0 \in Nat, IntervalSize
      <4> QED
        BY <3>1, <4>3 DEF PointsSent
    <3>2. CASE wcall.op # "slice"
      <4>1. FrameLength(fmt) \in Nat \ {0} /\ \A k \in Nat : Len(stream) = k * FrameLength(fmt) => k = PointsSent
        BY <2>1, <3>2, SentFacts
      <4>2. Len(stream) = 0 * FrameLength(fmt)
        BY <2>3, <4>1
      <4> QED
        BY <4>1, <4>2
    <3> QED
      BY <3>1, <3>2
  <2>5. (call.op = "slice") \in BOOLEAN
    OBVIOUS
  <2> QED
    BY <2>2, <2>4, <2>5 DEF Transfer!TInit
<1>2. PipeInv /\ PipeInv' /\ [PNext]_pvars => [Transfer!TNext]_Transfer!tvars
  <2> SUFFICES ASSUME PipeInv, PipeInv', [PNext]_pvars
               PROVE  [Transfer!TNext]_Transfer!tvars
    OBVIOUS
  <2>1. CASE WriterStep
    <3>1. /\ ~ connected /\ WNext /\ UNCHANGED <<vars, decoded>> /\ pc = "start" /\ UNCHANGED Room
          /\ UNCHANGED call
      BY <2>1, PipeFacts DEF WriterStep, Joined, vars, Room
    <3>2. UNCHANGED <<PointsReceived, Verdict>>
      BY <3>1 DEF PointsReceived, SinglePointRead, Verdict, vars
    <3>3. PointsReceived = 0 /\ Verdict = "pending"
      BY <3>1, ReceivedFacts
    <3>4. /\ UNCHANGED L /\ L \in Nat /\ PointsSent' <= L
          /\ PointsSent' \in {PointsSent, PointsSent + 1}
      BY <3>1, SentGrows DEF PipeInv
    <3>5. PointsSent \in Nat
      BY SentFacts
    <3>6. CASE PointsSent' = PointsSent
      BY <3>1, <3>2, <3>4, <3>6 DEF Transfer!tvars
    <3>7. CASE PointsSent' = PointsSent + 1
      <4>1. PointsSent < L
        BY <3>4, <3>5, <3>7
      <4> QED
        BY <3>1, <3>2, <3>3, <3>4, <3>7, <4>1 DEF Transfer!TNext, Transfer!Send
    <3> QED
      BY <3>4, <3>6, <3>7
  <2>2. CASE Connect
    <3>1. UNCHANGED <<PointsReceived, Verdict>>
      BY <2>2 DEF Connect, PointsReceived, SinglePointRead, Verdict
    <3> QED
      BY <2>2, <3>1, SameTransfer DEF Connect
  <2>3. CASE ReaderStep
    BY <2>3, ReaderStepTransfers
  <2>4. CASE PFinished \/ UNCHANGED pvars
    <3>1. UNCHANGED <<PointsReceived, Verdict>>
      BY <2>4 DEF PFinished, pvars, vars, PointsReceived, SinglePointRead, Verdict
    <3> QED
      BY <2>4, <3>1, SameTransfer DEF PFinished, pvars, vars
  <2> QED
    BY <2>1, <2>2, <2>3, <2>4 DEF PNext
<1> QED
  BY <1>1, <1>2, PipeInvariance, PTL DEF PSpec, Transfer!TSpec
=============================================================================
