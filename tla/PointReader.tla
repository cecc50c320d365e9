---------------------------- MODULE PointReader ----------------------------
(***************************************************************************)
(* One deserialization call of a multiDeserializer / multiSerializer:      *)
(*                                                                         *)
(*   "point"    DeserializeCurvePoint                                      *)
(*   "points"   DeserializeCurvePoints                                     *)
(*   "bounded"  DeserializeCurvePoints_Bounded                             *)
(*   "slice"    DeserializeSlice                                           *)
(*                                                                         *)
(* The call reads from an io.Reader that may end (EOF) or break (IOErr)    *)
(* after any byte, and whose contents are arbitrary.  Every read of the    *)
(* code is one action; what the bytes turn out to be is the parameter r of *)
(* the action, so that a composing module can tie it to a real stream.     *)
(***************************************************************************)
EXTENDS SerializerLengths

CONSTANTS
  Formats,     \* the formats a receiver may have
  BufferLens,  \* lengths of the caller's output buffers
  MaxInput     \* bound on the length of the input stream

ASSUME ReaderAssumption ==
  /\ Formats \subseteq {f \in Format : FormatValid(f)}
  /\ BufferLens \subseteq Nat
  /\ MaxInput \in Nat

VARIABLES
  fmt,      \* the receiver: lengths of its headers, footers and points
  call,     \* arguments: method, buffer length, slice maker, trust level
  input,    \* io.Reader: bytes left, bytes taken so far, how it ends
  pc,       \* the next read of the call
  i,        \* loop index
  size,     \* slice length read in-band
  sub,      \* bytesRead and err of the inner DeserializeCurvePoint
  ret,      \* bytesRead, pointsWritten and output returned to the caller
  err,      \* the error and its data fields PartialRead, PointsDeserialized
  touched   \* buffer elements that were written to

vars == <<fmt, call, input, pc, i, size, sub, ret, err, touched>>

BatchOps == {"points", "bounded"}

Calls ==
  [op : {"point"}, len : {1}, maker : {"existing"}, trusted : BOOLEAN]
    \cup [op : BatchOps, len : BufferLens, maker : {"existing"}, trusted : BOOLEAN]
    \cup [op : {"slice"}, len : BufferLens, maker : {"new", "existing"}, trusted : BOOLEAN]

ReadKinds ==
  {"none", "EOF", "UnexpectedEOF", "IOErr", "Mismatch", "Invalid"}
ErrorKinds ==
  ReadKinds \cup {"SizeTooLarge", "Overflow", "BufferTooSmall"}

NoRead  == [n |-> 0, kind |-> "none", partial |-> FALSE]
NoError == [kind |-> "none", partial |-> FALSE, points |-> 0]

-----------------------------------------------------------------------------
(* Reading from the stream *)

(* errorTransform.UnexpectEOF *)
UnexpectEOF(kind) == IF kind = "EOF" THEN "UnexpectedEOF" ELSE kind

(* io.ReadFull of n bytes: how many arrive, and the error. *)
Got(n) == IF n <= input.left THEN n ELSE input.left

ReadFullKind(n) ==
  IF n <= input.left THEN "none"
  ELSE IF input.end = "IOErr" THEN "IOErr"
  ELSE IF input.left = 0 THEN "EOF" ELSE "UnexpectedEOF"

Short(n) == ReadFullKind(n) # "none"

(* Mutant: a short read is never reported as partial. *)
NeverPartialMutant(n) == [n |-> Got(n), kind |-> ReadFullKind(n), partial |-> FALSE]

ShortRead(n) ==
  [n |-> Got(n), kind |-> ReadFullKind(n), partial |-> Got(n) # 0]

FullRead(n, kind) == [n |-> n, kind |-> kind, partial |-> FALSE]

(* Possible results of consumeExpectRead for an expected string of length n. *)
ConsumeExpectRead(n) ==
  IF Short(n)
    THEN {ShortRead(n)}
    ELSE {FullRead(n, "none")} \cup {FullRead(m, "Mismatch") : m \in {n} \ {0}}

(* Possible results of the basic serializer's DeserializeCurvePoint.  Bad    *)
(* contents may be noticed before the whole point has been read.             *)
BasicRead(n) ==
  {[n |-> k, kind |-> "Invalid", partial |-> k # n] : k \in 1 .. Got(n)}
    \cup {IF Short(n) THEN ShortRead(n) ELSE FullRead(n, "none")}

Take(n) ==
  input' = [input EXCEPT !.left = @ - n, !.taken = @ + n]

(* A basic serializer panics if trusted input fails its final checks. *)
MayPanic(r) == call.trusted /\ r.kind = "Invalid" /\ r.n = fmt.point

-----------------------------------------------------------------------------
Init ==
  /\ fmt \in Formats
  /\ call \in Calls
  /\ input \in [left : 0 .. MaxInput, taken : {0}, end : {"EOF", "IOErr"}]
  /\ pc = "start"
  /\ i = 0
  /\ size = 0
  /\ sub = NoRead
  /\ ret = [bytesRead |-> 0, pointsWritten |-> 0, output |-> "unset"]
  /\ err = NoError
  /\ touched = {}

Fail(kind, partial, points) ==
  err' = [kind |-> kind, partial |-> partial, points |-> points]

(* Where the loops over the points continue once k points are done. *)
AfterPoints(k) ==
  IF k < call.len THEN "singleHeader"
  ELSE IF call.op = "bounded" THEN "boundedReturn" ELSE "done"

(* Mutant: the last point of a slice is left out. *)
AfterSliceMutant(k, n) == IF k + 1 < n THEN "perPointHeader" ELSE "sliceFooter"

AfterSlicePoints(k, n) == IF k < n THEN "perPointHeader" ELSE "sliceFooter"

(* DeserializeCurvePoint has no guard; the batch versions panic early. *)
StartCall ==
  /\ pc = "start"
  /\ pc' = CASE call.op = "point" -> "singleHeader"
             [] call.op = "slice" -> "sliceHeader"
             [] OTHER -> IF BatchLengthOK(fmt, call.len)
                           THEN AfterPoints(0)
                           ELSE "panicked"
  /\ UNCHANGED <<fmt, call, input, i, size, sub, ret, err, touched>>

-----------------------------------------------------------------------------
(* DeserializeCurvePoint *)

ReadSingleHeader(r) ==
  /\ pc = "singleHeader"
  /\ r \in ConsumeExpectRead(fmt.singleHeader)
  /\ Take(r.n)
  /\ IF r.kind = "none"
       THEN /\ sub' = r
            /\ pc' = "singlePoint"
       ELSE /\ sub' = IF r.n > 0
                        THEN [n |-> r.n, kind |-> UnexpectEOF(r.kind), partial |-> TRUE]
                        ELSE r
            /\ pc' = "singleReturn"
  /\ UNCHANGED <<fmt, call, i, size, ret, err, touched>>

ReadSinglePoint(r) ==
  LET n           == sub.n + r.n
      moreIsDue   == r.n = 0 \/ fmt.singleFooter # 0
  IN
  /\ pc = "singlePoint"
  /\ r \in BasicRead(fmt.point)
  /\ Take(r.n)
  /\ IF r.kind = "none"
       THEN /\ sub' = [n |-> n, kind |-> "none", partial |-> FALSE]
            /\ touched' = touched \cup {i}
            /\ pc' = "singleFooter"
       ELSE /\ sub' = [n       |-> n,
                       kind    |-> IF n > 0 /\ moreIsDue
                                     THEN UnexpectEOF(r.kind) ELSE r.kind,
                       partial |-> r.partial \/ (n > 0 /\ moreIsDue)]
            /\ UNCHANGED touched
            /\ \/ pc' = "singleReturn"
               \/ MayPanic(r) /\ pc' = "panicked"
  /\ UNCHANGED <<fmt, call, i, size, ret, err>>

(* By now the caller's point has been overwritten, even if this read fails. *)
ReadSingleFooter(r) ==
  /\ pc = "singleFooter"
  /\ r \in ConsumeExpectRead(fmt.singleFooter)
  /\ Take(r.n)
  /\ sub' = [n       |-> sub.n + r.n,
             kind    |-> UnexpectEOF(r.kind),
             partial |-> r.kind # "none" /\ (r.partial \/ r.n = 0)]
  /\ pc' = "singleReturn"
  /\ UNCHANGED <<fmt, call, i, size, ret, err, touched>>

ReturnPoint ==
  /\ pc = "singleReturn"
  /\ call.op = "point"
  /\ ret' = [ret EXCEPT !.bytesRead = sub.n]
  /\ Fail(sub.kind, sub.partial, 0)
  /\ sub' = NoRead
  /\ pc' = "done"
  /\ UNCHANGED <<fmt, call, input, i, size, touched>>

-----------------------------------------------------------------------------
(* DeserializeCurvePoints and DeserializeCurvePoints_Bounded *)

ReturnToLoop ==
  /\ pc = "singleReturn"
  /\ call.op \in BatchOps
  /\ ret' = [ret EXCEPT !.bytesRead = @ + sub.n]
  /\ sub' = NoRead
  /\ IF sub.kind = "none"
       THEN /\ i' = i + 1
            /\ pc' = AfterPoints(i + 1)
            /\ UNCHANGED err
       ELSE /\ Fail(IF i # 0 THEN UnexpectEOF(sub.kind) ELSE sub.kind, sub.partial, i)
            /\ pc' = IF call.op = "bounded" THEN "boundedReturn" ELSE "done"
            /\ UNCHANGED i
  /\ UNCHANGED <<fmt, call, input, size, touched>>

(* Mutant: an end of the stream in the middle of a point is no error either. *)
SwallowsErrorMutant == err.kind \in {"EOF", "UnexpectedEOF"}

(* An end of the stream between two points is no error for Bounded. *)
SwallowsError == ~err.partial /\ err.kind \in {"EOF", "UnexpectedEOF"}

BoundedReturn ==
  /\ pc = "boundedReturn"
  /\ ret' = [ret EXCEPT !.pointsWritten =
               IF err.kind = "none" THEN call.len ELSE err.points]
  /\ err' = IF SwallowsError THEN NoError ELSE err
  /\ pc' = "done"
  /\ UNCHANGED <<fmt, call, input, i, size, sub, touched>>

-----------------------------------------------------------------------------
(* DeserializeSlice *)

(* Mutant: the bytes of a failed read are not counted. *)
ConsumeMutant(r) ==
  /\ Take(r.n)
  /\ ret' = IF r.kind = "none" THEN [ret EXCEPT !.bytesRead = @ + r.n] ELSE ret

Consume(r) ==
  /\ Take(r.n)
  /\ ret' = [ret EXCEPT !.bytesRead = @ + r.n]

(* After an early error the slice maker is only asked for a dummy output. *)
FailEarly(n, kind, partial) ==
  /\ ret' = [ret EXCEPT !.bytesRead = @ + n, !.output = "dummy"]
  /\ Fail(kind, partial, 0)
  /\ pc' = "done"

ReadSliceHeader(r) ==
  /\ pc = "sliceHeader"
  /\ r \in ConsumeExpectRead(fmt.sliceHeader)
  /\ Take(r.n)
  /\ IF r.kind = "none"
       THEN /\ ret' = [ret EXCEPT !.bytesRead = r.n]
            /\ pc' = "sliceSize"
            /\ UNCHANGED err
       ELSE FailEarly(r.n, r.kind, r.n # 0)
  /\ UNCHANGED <<fmt, call, i, size, sub, touched>>

SizeTooLarge(v) == v > MaxInt32

(* v is the uint32 in the size field. *)
ReadSliceSize(v) ==
  LET n == Got(SizeField) IN
  /\ pc = "sliceSize"
  /\ Take(n)
  /\ IF Short(SizeField)
       THEN /\ FailEarly(n, UnexpectEOF(ReadFullKind(SizeField)), ret.bytesRead + n # 0)
            /\ UNCHANGED size
       ELSE IF SizeTooLarge(v)
         THEN /\ FailEarly(n, "SizeTooLarge", ret.bytesRead + n # 0)
              /\ UNCHANGED size
         ELSE /\ size' = v
              /\ ret' = [ret EXCEPT !.bytesRead = @ + n]
              /\ pc' = "sliceMaker"
              /\ UNCHANGED err
  /\ UNCHANGED <<fmt, call, i, sub, touched>>

(* UseExistingSlice refuses; CreateNewSlice makes what is asked for. *)
BufferTooSmall == call.maker = "existing" /\ call.len < size

MakeSlice ==
  /\ pc = "sliceMaker"
  /\ CASE SliceOutputLength(fmt, size).overflow -> FailEarly(0, "Overflow", TRUE)
       [] BufferTooSmall /\ ~SliceOutputLength(fmt, size).overflow ->
            FailEarly(0, "BufferTooSmall", TRUE)
       [] OTHER ->
            /\ ret' = [ret EXCEPT !.output = "slice"]
            /\ pc' = AfterSlicePoints(0, size)
            /\ UNCHANGED err
  /\ UNCHANGED <<fmt, call, input, i, size, sub, touched>>

ReadPerPointHeader(r) ==
  /\ pc = "perPointHeader"
  /\ r \in ConsumeExpectRead(fmt.perPointHeader)
  /\ Consume(r)
  /\ IF r.kind = "none"
       THEN pc' = "point" /\ UNCHANGED err
       ELSE pc' = "done" /\ Fail(r.kind, TRUE, i)
  /\ UNCHANGED <<fmt, call, i, size, sub, touched>>

(* i < size in this loop, so that PartialRead is set whatever the footers are. *)
ReadPoint(r) ==
  /\ pc = "point"
  /\ r \in BasicRead(fmt.point)
  /\ Consume(r)
  /\ IF r.kind = "none"
       THEN /\ touched' = touched \cup {i}
            /\ pc' = "perPointFooter"
            /\ UNCHANGED err
       ELSE /\ UNCHANGED touched
            /\ \/ /\ pc' = "done"
                  /\ Fail(r.kind,
                          i # size \/ fmt.perPointFooter # 0 \/ r.n = 0 \/ r.partial, i)
               \/ MayPanic(r) /\ pc' = "panicked" /\ UNCHANGED err
  /\ UNCHANGED <<fmt, call, i, size, sub>>

(* Mutant: the point before a bad footer is not counted. *)
FooterMutant(r) ==
  /\ pc = "perPointFooter"
  /\ r \in ConsumeExpectRead(fmt.perPointFooter)
  /\ Consume(r)
  /\ IF r.kind = "none"
       THEN /\ i' = i + 1
            /\ pc' = AfterSlicePoints(i + 1, size)
            /\ UNCHANGED err
       ELSE /\ pc' = "done"
            /\ Fail(r.kind, TRUE, i)
            /\ UNCHANGED i
  /\ UNCHANGED <<fmt, call, size, sub, touched>>

ReadPerPointFooter(r) ==
  /\ pc = "perPointFooter"
  /\ r \in ConsumeExpectRead(fmt.perPointFooter)
  /\ Consume(r)
  /\ IF r.kind = "none"
       THEN /\ i' = i + 1
            /\ pc' = AfterSlicePoints(i + 1, size)
            /\ UNCHANGED err
       ELSE /\ pc' = "done"
            /\ Fail(r.kind, TRUE, i + 1)
            /\ UNCHANGED i
  /\ UNCHANGED <<fmt, call, size, sub, touched>>

(* The error keeps the PartialRead flag of the failed read of the footer. *)
ReadSliceFooter(r) ==
  /\ pc = "sliceFooter"
  /\ r \in ConsumeExpectRead(fmt.sliceFooter)
  /\ Consume(r)
  /\ pc' = "done"
  /\ IF r.kind = "none" THEN UNCHANGED err ELSE Fail(r.kind, r.partial, size)
  /\ UNCHANGED <<fmt, call, i, size, sub, touched>>

-----------------------------------------------------------------------------
SizeFieldValues == 0 .. 2 * MaxInt32 + 1

Returned == pc \in {"done", "panicked"}

(* The call has returned. *)
Finished == Returned /\ UNCHANGED vars

Next ==
  \/ StartCall \/ ReturnPoint \/ ReturnToLoop \/ BoundedReturn \/ MakeSlice
  \/ \E v \in SizeFieldValues : ReadSliceSize(v)
  \/ \E r \in ConsumeExpectRead(fmt.singleHeader) : ReadSingleHeader(r)
  \/ \E r \in BasicRead(fmt.point) : ReadSinglePoint(r)
  \/ \E r \in ConsumeExpectRead(fmt.singleFooter) : ReadSingleFooter(r)
  \/ \E r \in ConsumeExpectRead(fmt.sliceHeader) : ReadSliceHeader(r)
  \/ \E r \in ConsumeExpectRead(fmt.perPointHeader) : ReadPerPointHeader(r)
  \/ \E r \in BasicRead(fmt.point) : ReadPoint(r)
  \/ \E r \in ConsumeExpectRead(fmt.perPointFooter) : ReadPerPointFooter(r)
  \/ \E r \in ConsumeExpectRead(fmt.sliceFooter) : ReadSliceFooter(r)
  \/ Finished

Spec == Init /\ [][Next]_vars

-----------------------------------------------------------------------------
(* Properties *)

Failed == pc = "done" /\ err.kind # "none"
Succeeded == pc = "done" /\ err.kind = "none"

(* The bytesRead a call returns is what it took from the io.Reader: over    *)
(* every error path of the nested calls nothing is dropped or counted twice *)
(* (bytesRead += bytesJustRead in each of the readers).  If it succeeds, it *)
(* has read exactly the advertised number of bytes (OutputLength,           *)
(* SliceOutputLength), and it never takes more than MaxInt32: a size from   *)
(* the stream that would make it is refused before any point is read.       *)
BytesReadExact ==
  /\ ret.bytesRead + sub.n = input.taken
  /\ input.taken <= MaxInt32
  /\ Succeeded =>
       CASE call.op = "point"  -> input.taken = OutputLength(fmt)
         [] call.op = "points" -> input.taken = call.len * OutputLength(fmt)
         [] call.op = "slice"  -> input.taken = SliceOutputLength(fmt, size).ret
         [] OTHER              -> TRUE

(* PartialRead tells exactly whether the stream was left in the middle of   *)
(* the data of a point: "set to true if we encountered a read error that is *)
(* not aligned with data encoding points" (DeserializeCurvePoints).  For    *)
(* DeserializeSlice, FALSE means that nothing was read, or the whole slice, *)
(* or all of it but the global footer.                                      *)
FrameBoundaries == {k * FrameLength(fmt) : k \in 0 .. call.len}

PartialReadIffMisaligned ==
  Failed =>
    /\ call.op # "slice" => (err.partial <=> ret.bytesRead \notin FrameBoundaries)
    /\ call.op = "slice" /\ ~err.partial =>
         \/ input.taken = 0
         \/ /\ input.taken \in {SliceLength(fmt, size), SliceLength(fmt, size) - fmt.sliceFooter}
            /\ err.points = size

(* The failed call had read a whole valid point, and what follows the point  *)
(* in its frame is missing or wrong.                                         *)
InSingleFooter ==
  /\ call.op # "slice"
  /\ err.kind # "Invalid"
  /\ input.taken >= err.points * FrameLength(fmt) + fmt.singleHeader + fmt.point

(* A call that succeeds has written the elements it was asked for.  After an *)
(* error the elements written are a prefix of the buffer, and                *)
(* PointsDeserialized counts exactly them; only if the error is in the       *)
(* footer of a single point, that point has been written as well.  No        *)
(* element beyond the buffer is written, whatever length the stream claims.  *)
ErrorCountsWrites ==
  /\ call.maker = "existing" => touched \subseteq 0 .. call.len - 1
  /\ Succeeded =>
       CASE call.op = "point"  -> touched = {0}
         [] call.op = "points" -> touched = 0 .. call.len - 1
         [] call.op = "slice"  -> touched = 0 .. size - 1
         [] OTHER              -> TRUE
  /\ Failed =>
       touched = 0 .. (IF InSingleFooter THEN err.points ELSE err.points - 1)

(* "We guarantee that this is equal to the number of buffer elements that    *)
(* were written to" (BatchDeserializationErrorData, of PointsDeserialized).  *)
(* This does not hold.                                                       *)
PointsDeserializedIsWritten ==
  Failed /\ call.op # "point" => touched = 0 .. err.points - 1

(* The end of the stream is reported as what it is.                          *)
(* - DeserializeCurvePoints_Bounded reports no error for fewer points than   *)
(*   asked for only if the stream held exactly these points: the EOF it      *)
(*   hides is never one in the middle of a header, a point or a footer.      *)
(* - io.EOF, rather than io.ErrUnexpectedEOF, means that the stream had      *)
(*   ended before the first byte of the call (DeserializeCurvePoint(s)).     *)
EOFReported ==
  /\ Succeeded /\ call.op = "bounded" /\ ret.pointsWritten # call.len
       => /\ input.left = 0
          /\ input.end = "EOF"
          /\ input.taken = ret.pointsWritten * FrameLength(fmt)
          /\ touched = 0 .. ret.pointsWritten - 1
  /\ Failed /\ call.op # "slice" /\ err.kind = "EOF" => input.taken = 0
=============================================================================
