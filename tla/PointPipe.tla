----------------------------- MODULE PointPipe -----------------------------
(***************************************************************************)
(* A PointWriter whose output is read back by a PointReader of the same    *)
(* format.  The writer may stop anywhere, because its io.Writer fails, it  *)
(* refuses a point, or its process crashes; the reader then sees what had  *)
(* been written and EOF.  The contents of every read of the reader are     *)
(* those of the stream.                                                    *)
(***************************************************************************)
EXTENDS PointReader, PointWriter, FiniteSets

VARIABLES
  connected,  \* the writer has stopped and the reader may read its output
  decoded     \* indices of the points the reader has decoded, in order

pvars == <<vars, wvars, connected, decoded>>

PInit ==
  /\ WInit
  /\ fmt = wfmt
  /\ Init
  /\ call.op = "slice" <=> wcall.op = "slice"
  /\ ~call.trusted
  /\ input = [left |-> 0, taken |-> 0, end |-> "EOF"]
  /\ connected = FALSE
  /\ decoded = <<>>

(* The writer has returned, or has crashed between two of its writes. *)
Connect ==
  /\ ~connected
  /\ connected' = TRUE
  /\ input' = [input EXCEPT !.left = Len(stream)]
  /\ UNCHANGED <<wvars, fmt, call, pc, i, size, sub, ret, err, touched, decoded>>

WriterStep == ~connected /\ WNext /\ UNCHANGED <<vars, connected, decoded>>

-----------------------------------------------------------------------------
(* The next n bytes of the stream *)
Arriving(n) == SubSeq(stream, input.taken + 1, input.taken + n)

(* The result r of reading a header or footer agrees with the stream. *)
ExpectRead(r, part, n) ==
  /\ r.kind = "none" => Arriving(n) = Bytes(part, 0, n)
  /\ r.kind = "Mismatch" => Arriving(n) # Bytes(part, 0, n)

IsPoint(p, n) == Arriving(n) = SubSeq(Bytes("point", p, fmt.point), 1, n)

PointRead(r) ==
  CASE r.kind = "none" ->
         \E p \in 0 .. L - 1 : IsPoint(p, r.n) /\ decoded' = Append(decoded, p)
    [] r.kind = "Invalid" ->
         (\A p \in 0 .. L - 1 : ~IsPoint(p, r.n)) /\ UNCHANGED decoded
    [] OTHER -> UNCHANGED decoded

HeaderStep ==
  /\ \/ \E r \in ConsumeExpectRead(fmt.singleHeader) :
          ReadSingleHeader(r) /\ ExpectRead(r, "singleHeader", fmt.singleHeader)
     \/ \E r \in ConsumeExpectRead(fmt.singleFooter) :
          ReadSingleFooter(r) /\ ExpectRead(r, "singleFooter", fmt.singleFooter)
     \/ \E r \in ConsumeExpectRead(fmt.sliceHeader) :
          ReadSliceHeader(r) /\ ExpectRead(r, "sliceHeader", fmt.sliceHeader)
     \/ \E r \in ConsumeExpectRead(fmt.sliceFooter) :
          ReadSliceFooter(r) /\ ExpectRead(r, "sliceFooter", fmt.sliceFooter)
     \/ \E r \in ConsumeExpectRead(fmt.perPointHeader) :
          ReadPerPointHeader(r) /\ ExpectRead(r, "perPointHeader", fmt.perPointHeader)
     \/ \E r \in ConsumeExpectRead(fmt.perPointFooter) :
          ReadPerPointFooter(r) /\ ExpectRead(r, "perPointFooter", fmt.perPointFooter)
  /\ UNCHANGED decoded

PointStep ==
  \E r \in BasicRead(fmt.point) :
    (ReadSinglePoint(r) \/ ReadPoint(r)) /\ PointRead(r)

SizeStep ==
  /\ \E v \in 0 .. MaxInt32 :
       /\ ReadSliceSize(v)
       /\ ~Short(SizeField) => Arriving(SizeField) = Bytes("sliceSize", v, SizeField)
  /\ UNCHANGED decoded

InternalStep ==
  /\ StartCall \/ ReturnPoint \/ ReturnToLoop \/ BoundedReturn \/ MakeSlice
  /\ UNCHANGED decoded

ReaderStep ==
  /\ connected
  /\ HeaderStep \/ PointStep \/ SizeStep \/ InternalStep
  /\ UNCHANGED <<wvars, connected>>

PFinished == connected /\ Returned /\ UNCHANGED pvars

PNext == WriterStep \/ Connect \/ ReaderStep \/ PFinished

PSpec == PInit /\ [][PNext]_pvars

-----------------------------------------------------------------------------
(* Properties *)

(* Writer and reader agree on where a batch was cut: the reader, given room  *)
(* for all points, fails exactly if the writer reported PartialWrite, and    *)
(* otherwise returns every point whose bytes were written completely.        *)
PartialWriteIsDetected ==
  WReturned /\ wcall.op # "slice" /\ call.op = "bounded" /\ call.len >= L /\ pc = "done"
    => /\ err.kind # "none" <=> werr.partial
       /\ ret.pointsWritten = Len(stream) \div FrameLength(wfmt)

(* The points decoded are those written, in their order, none lost or        *)
(* repeated, wherever the writer stopped.  A slice that the writer reports   *)
(* as written is read back completely, if the reader's buffer is large       *)
(* enough; of a batch that was cut, writer and reader agree where.           *)
ReadBackInOrder ==
  /\ \A k \in DOMAIN decoded : decoded[k] = k - 1
  /\ WSucceeded /\ wcall.op = "slice" /\ pc = "done"
       /\ (call.maker = "new" \/ call.len >= L)
       => err.kind = "none" /\ size = L /\ Len(decoded) = L
  /\ PartialWriteIsDetected

(* Writer and reader together are a PointTransfer.                           *)
PointsSent ==
  IF wcall.op = "slice" THEN Cardinality(PointsOut)
                        ELSE Len(stream) \div FrameLength(wfmt)

SinglePointRead == pc = "singleReturn" /\ sub.kind = "none"

PointsReceived ==
  CASE call.op = "slice" -> Len(decoded)
    [] call.op = "point" ->
         IF SinglePointRead \/ (pc = "done" /\ err.kind = "none") THEN 1 ELSE 0
    [] OTHER             -> IF SinglePointRead THEN i + 1 ELSE i

Verdict ==
  CASE pc = "done" /\ err.kind = "none"  -> "accepted"
    [] pc = "done" /\ err.kind # "none" -> "rejected"
    [] pc = "panicked"                   -> "rejected"
    [] OTHER                             -> "pending"

Room == IF call.maker = "new" THEN MaxInt32 ELSE call.len

Transfer == INSTANCE PointTransfer WITH
  total     <- L,
  room      <- Room,
  slice     <- call.op = "slice",
  sent      <- PointsSent,
  received  <- PointsReceived,
  verdict   <- Verdict
=============================================================================
