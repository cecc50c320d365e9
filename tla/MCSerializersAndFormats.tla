---------------------- MODULE MCSerializersAndFormats ----------------------
(* Small instances of LengthQueries, PointReader, PointPipe, PointWriter,    *)
(* FormatTokenizer and FormatVerdicts, apart from each other: part tells     *)
(* which of them runs.                                                       *)
EXTENDS PointPipe, LengthQueries, FormatTokenizer, FormatVerdicts

(* Empty and non-empty single-point headers and footers in all combinations, *)
(* points of one or two bytes.                                               *)
SingleFormats ==
  {f \in [singleHeader : 0 .. 1, singleFooter : 0 .. 2,
          sliceHeader : {0}, sliceFooter : {0},
          perPointHeader : {0}, perPointFooter : {0},
          point : 1 .. 2] : FormatValid(f)}

(* Headers and footers of slices; the single-point ones play no part there. *)
SliceFormats ==
  {f \in [singleHeader : {0}, singleFooter : {0},
          sliceHeader : 0 .. 1, sliceFooter : 0 .. 2,
          perPointHeader : 0 .. 1, perPointFooter : 0 .. 1,
          point : 1 .. 2] : FormatValid(f) /\ (f.point = 2 => f.sliceFooter = 0)}

MCFormats == SingleFormats \cup SliceFormats

(* A writer is alone, or a reader of the same format follows. *)
PipeFormats ==
  {f \in MCFormats : /\ f.singleFooter <= 1 /\ f.sliceFooter <= 1
                     /\ f.point = 2 => f.sliceHeader + f.perPointFooter <= 1}

AloneFormats ==
  {f \in [singleHeader : 0 .. 2, singleFooter : 0 .. 2,
          sliceHeader : {0}, sliceFooter : {0},
          perPointHeader : {0}, perPointFooter : {0}, point : 1 .. 2]
         \cup [singleHeader : {0}, singleFooter : {0},
               sliceHeader : 0 .. 2, sliceFooter : 0 .. 1,
               perPointHeader : 0 .. 1, perPointFooter : 0 .. 2, point : 1 .. 2]
     : FormatValid(f) /\ f \notin PipeFormats}

MCWriterFormats == PipeFormats \cup AloneFormats

(* Lengths up to the largest int32. *)
HeaderLengths == {0, 1, 2, MaxInt32 \div 2, MaxInt32 - 3, MaxInt32}
MCQueryFormats ==
  {f \in [singleHeader : HeaderLengths, singleFooter : {0},
          sliceHeader : HeaderLengths, sliceFooter : 0 .. 1,
          perPointHeader : HeaderLengths, perPointFooter : 0 .. 1,
          point : {1, 2, 3, 5, MaxInt32}] : FormatValid(f)}

(* Up to three points; the writer stops at one that cannot be serialized. *)
MCPointLists ==
  {ps \in UNION {[1 .. n -> PointKinds] : n \in 0 .. 3} :
     \A k \in 1 .. Len(ps) - 1 : ps[k] = "good"}

-----------------------------------------------------------------------------
(* In each mode of the parser, the literals that the later checks tell apart. *)
MCTexts ==
  [mode \in ParserModes |->
     CASE mode = "FmtString"            -> {"x%"}
       [] mode = "Condition"            -> {"m=0", "m>0", "x"}
       [] mode = "VariableName"         -> {"Foo", "!m", "x"}
       [] mode \in {"Sequence", "Error"} -> {"x"}
       [] OTHER                         -> {}]

MCParameterMaps == {<<>>, [Foo |-> "own"]}

Shows(sign) == [Fmt(sign) EXCEPT !.verb = "v", !.name = "Foo"]

(* The last passes what it is passed on to one that needs it. *)
NeedsFoo == ErrorWith(<<Shows("$")>>, FALSE, <<>>, NilError)
MCWrappedErrors ==
  {NilError, ForeignError, ErrorWith(<<Parent("$w")>>, FALSE, <<>>, NeedsFoo)}

-----------------------------------------------------------------------------
VARIABLE part   \* which of the modules runs

queryVars == <<qfmt, numPoints>>

AnyFormat == CHOOSE f \in Formats : TRUE

QueriesIdle == qfmt = AnyFormat /\ numPoints = 0

ReaderIdle ==
  /\ fmt = AnyFormat
  /\ call = [op |-> IF wcall.op = "slice" THEN "slice" ELSE "bounded",
             len |-> 0, maker |-> "existing", trusted |-> FALSE]
  /\ input = [left |-> 0, taken |-> 0, end |-> "EOF"]

WriterIdle == wfmt = AnyFormat /\ wcall = [op |-> "points", points |-> <<>>]

Apart == connected = FALSE /\ decoded = <<>>

formatStringVars == <<formatString, formatVars>>

(* Nothing is read or written by the tokenizer and the parser. *)
Alone == {"lengths", "tokenizer", "parser"}

MCInit ==
  /\ part \in {"lengths", "reader", "pipe", "writer", "tokenizer", "parser"}
  /\ IF part = "lengths" THEN QInit ELSE QueriesIdle
  /\ part \in Alone \cup {"reader"} => WriterIdle
  /\ WInit
  /\ part \in Alone \cup {"writer"} => ReaderIdle
  /\ CASE part = "pipe"   -> PInit /\ wfmt \in PipeFormats
       [] part = "writer" -> Init /\ Apart /\ wfmt \in AloneFormats
       [] OTHER           -> Init /\ Apart
  /\ TokenizerInit /\ FormatInit

SerializersNext ==
  \/ part = "lengths" /\ QNext /\ UNCHANGED pvars
  \/ part = "reader" /\ Next /\ UNCHANGED <<wvars, connected, decoded, queryVars>>
  \/ part = "pipe" /\ PNext /\ UNCHANGED queryVars
  \/ part = "writer" /\ (WriterStep \/ (WReturned /\ UNCHANGED pvars)) /\ UNCHANGED queryVars
FormatsNext ==
  \/ part = "tokenizer" /\ TokenizerNext /\ UNCHANGED formatVars
  \/ part = "parser" /\ FormatNext /\ UNCHANGED formatString
MCNext ==
  /\ \/ SerializersNext /\ UNCHANGED formatStringVars
     \/ FormatsNext /\ UNCHANGED <<pvars, queryVars>>
  /\ UNCHANGED part

MCSpec == MCInit /\ [][MCNext]_<<pvars, queryVars, formatStringVars, part>>

(* Together, a writer that may stop anywhere and the reader of its output    *)
(* keep the promise of PointTransfer.  A reader of any other stream does not.*)
RefinesTransfer ==
  /\ part = "pipe" => Transfer!TInit
  /\ [][part = "pipe" => Transfer!TNext]_Transfer!tvars
=============================================================================
