---------------------------- MODULE PointWriter ----------------------------
(***************************************************************************)
(* One serialization call of a multiSerializer:                            *)
(*                                                                         *)
(*   "point"   SerializeCurvePoint                                         *)
(*   "points"  SerializeCurvePoints                                        *)
(*   "slice"   SerializeSlice                                              *)
(*                                                                         *)
(* Every Write to the io.Writer is one action.  A Write may fail after any *)
(* number of its bytes.  The bytes that did get through are the sequence   *)
(* stream; a byte is the triple <<part, index of the point, offset>>.      *)
(* A point may be one that cannot be serialized (not a point, at infinity, *)
(* outside the subgroup).                                                  *)
(***************************************************************************)
EXTENDS SerializerLengths, Sequences

CONSTANTS
  WriterFormats,  \* the formats a receiver may have
  PointLists      \* the lists of points to serialize, a set of sequences

PointKinds == {"good", "bad"}

ASSUME WriterAssumption ==
  /\ WriterFormats \subseteq {f \in Format : FormatValid(f)}
  /\ PointLists \subseteq Seq(PointKinds)

VARIABLES
  wfmt,    \* the receiver
  wcall,   \* arguments: method and points
  stream,  \* what arrived at the io.Writer
  wpc,     \* the next write of the call
  j,       \* loop index
  wsub,    \* bytesWritten and err of the inner SerializeCurvePoint
  wret,    \* bytesWritten returned to the caller
  werr     \* the error, with PartialWrite and PointsSerialized

wvars == <<wfmt, wcall, stream, wpc, j, wsub, wret, werr>>

WriteKinds == {"none", "IOErr", "BadPoint"}

NoWrite      == [n |-> 0, kind |-> "none", partial |-> FALSE]
NoWriteError == [kind |-> "none", partial |-> FALSE, points |-> 0]

L == Len(wcall.points)

-----------------------------------------------------------------------------
(* Writing *)

(* Possible results of writing n bytes, as reported by writeFull. *)
WriteFull(n) ==
  {[n |-> n, kind |-> "none", partial |-> FALSE]}
    \cup {[n |-> k, kind |-> "IOErr", partial |-> k \notin {0, n}] : k \in 0 .. n}

(* SerializeCurvePoint of a basic serializer checks the point before any IO. *)
BasicWrite(n, point) ==
  IF point = "good"
    THEN WriteFull(n)
    ELSE {[n |-> 0, kind |-> "BadPoint", partial |-> FALSE]}

Bytes(part, index, n) == [k \in 1 .. n |-> <<part, index, k>>]

Put(part, index, n) == stream' = stream \o Bytes(part, index, n)

-----------------------------------------------------------------------------
WInit ==
  /\ wfmt \in WriterFormats
  /\ wcall \in [op : {"point"}, points : PointLists \cap [{1} -> PointKinds]]
                 \cup [op : {"points", "slice"}, points : PointLists]
  /\ stream = <<>>
  /\ wpc = "start"
  /\ j = 0
  /\ wsub = NoWrite
  /\ wret = 0
  /\ werr = NoWriteError

WFail(kind, partial, points) ==
  werr' = [kind |-> kind, partial |-> partial, points |-> points]

AfterWriting(k) == IF k < L THEN "singleHeader" ELSE "done"

AfterSliceWriting(k) == IF k < L THEN "perPointHeader" ELSE "sliceFooter"

StartWrite ==
  /\ wpc = "start"
  /\ CASE wcall.op = "point" ->
            wpc' = "singleHeader" /\ UNCHANGED werr
       [] wcall.op = "points" ->
            /\ wpc' = IF BatchLengthOK(wfmt, L) THEN AfterWriting(0) ELSE "panicked"
            /\ UNCHANGED werr
       [] wcall.op = "slice" /\ L > MaxInt32 ->
            wpc' = "panicked" /\ UNCHANGED werr
       [] wcall.op = "slice" /\ L <= MaxInt32 ->
            IF SliceOutputLength(wfmt, L).overflow
              THEN wpc' = "done" /\ WFail("Overflow", FALSE, 0)
              ELSE wpc' = "sliceHeader" /\ UNCHANGED werr
  /\ UNCHANGED <<wfmt, wcall, stream, j, wsub, wret>>

-----------------------------------------------------------------------------
(* SerializeCurvePoint *)

(* Mutants: the bytes of a failed write are not counted; PartialWrite is only *)
(* set by a Write that was cut short.                                         *)
UncountedMutant(n, r) ==
  [n       |-> IF r.kind = "none" THEN n ELSE wsub.n,
   kind    |-> r.kind,
   partial |-> r.partial \/ (r.kind # "none" /\ n > 0 /\ n < OutputLength(wfmt))]

SubPartialMutant(n, r) == [n |-> n, kind |-> r.kind, partial |-> r.partial]

(* PartialWrite is raised if some, but not all, bytes of the point are out. *)
SubResult(n, r) ==
  [n       |-> n,
   kind    |-> r.kind,
   partial |-> r.partial \/ (r.kind # "none" /\ n > 0 /\ n < OutputLength(wfmt))]

WriteSingleHeader(r) ==
  /\ wpc = "singleHeader"
  /\ r \in WriteFull(wfmt.singleHeader)
  /\ Put("singleHeader", 0, r.n)
  /\ wsub' = [r EXCEPT !.partial = r.kind # "none" /\ r.n > 0]
  /\ wpc' = IF r.kind = "none" THEN "singlePoint" ELSE "singleReturn"
  /\ UNCHANGED <<wfmt, wcall, j, wret, werr>>

WriteSinglePoint(r) ==
  /\ wpc = "singlePoint"
  /\ r \in BasicWrite(wfmt.point, wcall.points[j + 1])
  /\ Put("point", j, r.n)
  /\ wsub' = SubResult(wsub.n + r.n, r)
  /\ wpc' = IF r.kind = "none" THEN "singleFooter" ELSE "singleReturn"
  /\ UNCHANGED <<wfmt, wcall, j, wret, werr>>

WriteSingleFooter(r) ==
  /\ wpc = "singleFooter"
  /\ r \in WriteFull(wfmt.singleFooter)
  /\ Put("singleFooter", 0, r.n)
  /\ wsub' = SubResult(wsub.n + r.n, r)
  /\ wpc' = "singleReturn"
  /\ UNCHANGED <<wfmt, wcall, j, wret, werr>>

ReturnWrite ==
  /\ wpc = "singleReturn"
  /\ wcall.op = "point"
  /\ wret' = wsub.n
  /\ WFail(wsub.kind, wsub.partial, 0)
  /\ wsub' = NoWrite
  /\ wpc' = "done"
  /\ UNCHANGED <<wfmt, wcall, stream, j>>

(* Mutant: the loop goes on after an error. *)
ReturnWriteMutant ==
  /\ wpc = "singleReturn"
  /\ wcall.op = "points"
  /\ wret' = wret + wsub.n
  /\ wsub' = NoWrite
  /\ j' = j + 1
  /\ wpc' = AfterWriting(j + 1)
  /\ UNCHANGED <<wfmt, wcall, stream, werr>>

(* SerializeCurvePoints *)
ReturnWriteToLoop ==
  /\ wpc = "singleReturn"
  /\ wcall.op = "points"
  /\ wret' = wret + wsub.n
  /\ wsub' = NoWrite
  /\ IF wsub.kind = "none"
       THEN /\ j' = j + 1
            /\ wpc' = AfterWriting(j + 1)
            /\ UNCHANGED werr
       ELSE /\ WFail(wsub.kind, wsub.partial, j)
            /\ wpc' = "done"
            /\ UNCHANGED j
  /\ UNCHANGED <<wfmt, wcall, stream>>

-----------------------------------------------------------------------------
(* SerializeSlice *)

(* Continue at next, or report that points points have been serialized. *)
SliceWrite(r, next, points, partial) ==
  /\ wret' = wret + r.n
  /\ IF r.kind = "none"
       THEN wpc' = next /\ UNCHANGED werr
       ELSE wpc' = "done" /\ WFail(r.kind, partial, points)
  /\ UNCHANGED <<wfmt, wcall, wsub>>

WriteSliceHeader(r) ==
  /\ wpc = "sliceHeader"
  /\ r \in WriteFull(wfmt.sliceHeader)
  /\ Put("sliceHeader", 0, r.n)
  /\ SliceWrite(r, "sliceSize", 0, wret + r.n # 0)
  /\ UNCHANGED j

WriteSliceSize(r) ==
  /\ wpc = "sliceSize"
  /\ r \in WriteFull(SizeField)
  /\ Put("sliceSize", L, r.n)
  /\ SliceWrite(r, AfterSliceWriting(0), 0, wret + r.n # 0)
  /\ UNCHANGED j

WritePerPointHeader(r) ==
  /\ wpc = "perPointHeader"
  /\ r \in WriteFull(wfmt.perPointHeader)
  /\ Put("perPointHeader", 0, r.n)
  /\ SliceWrite(r, "point", j, TRUE)
  /\ UNCHANGED j

WritePoint(r) ==
  /\ wpc = "point"
  /\ r \in BasicWrite(wfmt.point, wcall.points[j + 1])
  /\ Put("point", j, r.n)
  /\ SliceWrite(r, "perPointFooter", j, TRUE)
  /\ UNCHANGED j

WritePerPointFooter(r) ==
  /\ wpc = "perPointFooter"
  /\ r \in WriteFull(wfmt.perPointFooter)
  /\ Put("perPointFooter", 0, r.n)
  /\ SliceWrite(r, AfterSliceWriting(j + 1), j + 1, TRUE)
  /\ j' = IF r.kind = "none" THEN j + 1 ELSE j

(* After the last write, the code compares the count with SliceOutputLength. *)
WriteSliceFooter(r) ==
  LET expected == SliceOutputLength(wfmt, L).ret IN
  /\ wpc = "sliceFooter"
  /\ r \in WriteFull(wfmt.sliceFooter)
  /\ Put("sliceFooter", 0, r.n)
  /\ SliceWrite(r, IF wret + r.n = expected THEN "done" ELSE "panicked", L, TRUE)
  /\ UNCHANGED j

-----------------------------------------------------------------------------
WReturned == wpc \in {"done", "panicked"}

WFinished == WReturned /\ UNCHANGED wvars

WNext ==
  \/ StartWrite \/ ReturnWrite \/ ReturnWriteToLoop
  \/ \E r \in WriteFull(wfmt.singleHeader) : WriteSingleHeader(r)
  \/ \E r \in BasicWrite(wfmt.point, "good") \cup BasicWrite(wfmt.point, "bad") :
       WriteSinglePoint(r) \/ WritePoint(r)
  \/ \E r \in WriteFull(wfmt.singleFooter) : WriteSingleFooter(r)
  \/ \E r \in WriteFull(wfmt.sliceHeader) : WriteSliceHeader(r)
  \/ \E r \in WriteFull(SizeField) : WriteSliceSize(r)
  \/ \E r \in WriteFull(wfmt.perPointHeader) : WritePerPointHeader(r)
  \/ \E r \in WriteFull(wfmt.perPointFooter) : WritePerPointFooter(r)
  \/ \E r \in WriteFull(wfmt.sliceFooter) : WriteSliceFooter(r)

WSpec == WInit /\ [][WNext \/ WFinished]_wvars

-----------------------------------------------------------------------------
(* Properties *)

WFailed == wpc = "done" /\ werr.kind # "none"
WSucceeded == wpc = "done" /\ werr.kind = "none"

(* The points whose bytes are all in the output *)
PointsOut ==
  {p \in 0 .. L - 1 : \E k \in DOMAIN stream : stream[k] = <<"point", p, wfmt.point>>}

(* What a call reports is what arrived at the io.Writer.  The bytesWritten  *)
(* are exact on every error path, and the advertised number of bytes if the *)
(* call succeeds; the self-check at the end of SerializeSlice never fails.  *)
(* PointsSerialized never promises a point whose bytes are not all in the   *)
(* output, and is behind by at most one point.                              *)
BytesWrittenExact ==
  /\ wret + wsub.n = Len(stream)
  /\ wpc = "panicked" /\ wcall.op = "slice" => stream = <<>>
  /\ WSucceeded =>
       Len(stream) = CASE wcall.op = "point"  -> OutputLength(wfmt)
                       [] wcall.op = "points" -> L * OutputLength(wfmt)
                       [] wcall.op = "slice"  -> SliceOutputLength(wfmt, L).ret
  /\ WFailed /\ wcall.op # "point"
       => PointsOut \in {0 .. werr.points - 1, 0 .. werr.points}

(* PartialWrite tells exactly whether the output ends in the middle of the  *)
(* data of a point, be it after an IO error or because the point itself was *)
(* refused after its header had been written (SerializeCurvePoint(s)); for  *)
(* SerializeSlice, whether anything has been written.                       *)
PartialWriteIffMisaligned ==
  WFailed =>
    (werr.partial <=> IF wcall.op = "slice" THEN stream # <<>>
                      ELSE Len(stream) \notin {k * FrameLength(wfmt) : k \in 0 .. L})
=============================================================================
