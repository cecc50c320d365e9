-------------------------- MODULE FieldSerialization --------------------------
(***************************************************************************)
(* Field elements written to and read from a stream, with up to eight      *)
(* prefix bits in the highest bits and in either byte order                *)
(* (uint256_serialize.go, field_element_serialize.go, fe_endianness.go).   *)
(*                                                                         *)
(* A word of the Uint256 is one unit of the stream, as if it had a byte:   *)
(* an element has four units, and a prefix at most the bits of one.  The   *)
(* writer may stop in an element; the reader may ask for another prefix or *)
(* byte order than was written.                                            *)
(***************************************************************************)
EXTENDS FieldElements

CONSTANTS BitHeaders,      \* the bit headers: records [length, bits]
          Foreign,       \* numbers that others write, of any size
          Written,       \* the representations that are written
          Taken,         \* how many units of one the writer may take
          MaxStream      \* the units in the stream when a call may write

MaxLengthPrefixBits == WordBits          \* a byte of the stream

\* A BitHeader is made of at most 8 bits, which fit its length.
ASSUME BitHeadersAssumption ==
  /\ BitHeaders \subseteq [length : 0..MaxLengthPrefixBits, bits : Nat]
  /\ \A p \in BitHeaders : p.bits < 2^p.length
  /\ Written \subseteq ReducedRange("c") /\ Foreign \subseteq Uints
  /\ Taken \subseteq 0..4

Orders == {"little", "big"}

StartsWithMSB(order) == order = "big"
PutUint256(order, v) ==
  LET w == ToWords(v, 4)
      little == <<w[0], w[1], w[2], w[3]>>
  IN  IF StartsWithMSB(order) THEN Reverse(little) ELSE little
Uint256(order, in) ==
  LET little == IF StartsWithMSB(order) THEN Reverse(in) ELSE in
  IN  ToInt([i \in 0..3 |-> little[i+1]])

----------------------------------------------------------------------------
(* Writing.                                                                *)

LeadingZeros64(w) == WordBits - Len64(w)
PrefixFits(v, p) == LeadingZeros64(Top(v)) >= p.length

\* The prefix bits are or-ed into the highest word, whose bits there are 0.
SerializeWithPrefix(v, p, order) ==
  PutUint256(order, v + p.bits * 2^(WordBits - p.length) * W^3)

----------------------------------------------------------------------------
(* Reading.  A call gives the number of units read, the error and the data *)
(* that comes with it, the prefix, and the number read, if any.            *)

None == -1
Failed(bytesRead, err, actuallyRead) ==
  [bytesRead |-> bytesRead, err |-> err, partialRead |-> bytesRead \notin {0, 4},
   actuallyRead |-> actuallyRead, prefix |-> None, number |-> None]
Read(in, p, number) ==
  [bytesRead |-> 4, err |-> "none", partialRead |-> FALSE,
   actuallyRead |-> in, prefix |-> p, number |-> number]

\* io.ReadFull, of four units.
ReadFullFails(in) ==
  Failed(Len(in), IF in = <<>> THEN "EOF" ELSE "UnexpectedEOF", in)

PrefixOf(v, len) == Top(v) \div 2^(WordBits - len)
WithoutPrefix(v, len) == v % (2^(WordBits - len) * W^3)

DeserializeAndGetPrefix(in, len, order) ==
  LET buf == SubSeq(in, 1, 4)
      v == Uint256(order, buf)
  IN  IF len > MaxLengthPrefixBits THEN Failed(0, "PrefixLengthInvalid", <<>>)
      ELSE IF Len(in) < 4 THEN ReadFullFails(in)
      ELSE Read(buf, PrefixOf(v, len), WithoutPrefix(v, len))

\* When the highest byte comes first, it is read and compared before the rest.
DeserializeWithExpectedPrefix(in, p, order) ==
  LET first == SubSeq(in, 1, 1)
      buf == SubSeq(in, 1, 4)
      v == Uint256(order, buf)
  IN  IF in = <<>> THEN ReadFullFails(in)
      ELSE IF StartsWithMSB(order) /\ in[1] \div 2^(WordBits - p.length) # p.bits
      THEN Failed(1, "PrefixMismatch", first)
      ELSE IF Len(in) < 4 THEN ReadFullFails(in)
      ELSE IF PrefixOf(v, p.length) # p.bits THEN Failed(4, "PrefixMismatch", buf)
      ELSE Read(buf, p.bits, WithoutPrefix(v, p.length))

(* Mutant: the prefix is left out of the bytes that are reported. *)
NonNormalizedMutant(r, p, order) ==
  IF r.number = None \/ IsReduced(r.number, "f") THEN r
  ELSE [r EXCEPT !.err = "NonNormalized", !.actuallyRead = PutUint256(order, r.number)]

\* The same for field elements.  A number that is not reduced is an error, but
\* is stored.  AndGetPrefix serializes the number again to report what it has
\* read; WithExpectedPrefix still has the bytes.
NonNormalized(r, p, order) ==
  IF r.number = None \/ IsReduced(r.number, "f") THEN r
  ELSE [r EXCEPT !.err = "NonNormalized",
                 !.actuallyRead = SerializeWithPrefix(r.number, p, order)]
FeDeserializeAndGetPrefix(in, len, order) ==
  LET r == DeserializeAndGetPrefix(in, len, order)
  IN  NonNormalized(r, [length |-> len, bits |-> r.prefix], order)
FeDeserializeWithExpectedPrefix(in, p, order) ==
  LET r == DeserializeWithExpectedPrefix(in, p, order)
  IN  IF r.number = None \/ IsReduced(r.number, "f") THEN r
      ELSE [r EXCEPT !.err = "NonNormalized"]

\* What the receiver becomes: by the methods, and by the functions for any
\* implementation of the interface.
StoredByMethod(n) ==
  ConvertToMontgomeryRepresentation_c(IF IsReduced(n, "f") THEN n ELSE Reduce_ca(n))
StoredByFunction(n) ==
  SetUint256(IF IsReduced(n, "f") THEN n ELSE Reduce_fa_optimistic(n))

----------------------------------------------------------------------------
(* One stream; elem is written to it, or the receiver of a read.  sent has *)
(* what was written and is still in the stream, while the reader is at the *)
(* start of an element.                                                    *)

VARIABLES stream, sent

serializationVars == <<elem, arg, stream, sent>>

SerializationInit ==
  /\ elem \in Written /\ arg = bsFieldElement_64_zero
  /\ stream = <<>> /\ sent = <<>>

\* The writer takes k units of the element.
Serialize ==
  \E p \in BitHeaders, order \in Orders, k \in Taken :
    LET v == ToUint256(elem)
    IN  /\ elem \in Written /\ Len(stream) <= MaxStream
        /\ PrefixFits(v, p)             \* otherwise nothing is written
        /\ stream' = stream \o SubSeq(SerializeWithPrefix(v, p, order), 1, k)
        /\ sent' = IF k = 4 /\ Len(stream) = 4 * Len(sent)
                   THEN Append(sent, [value |-> Value(elem), prefix |-> p, order |-> order])
                   ELSE sent
        /\ UNCHANGED <<elem, arg>>

\* Any number below 2^256 may be in the stream.
SerializeForeign ==
  \E n \in Foreign, order \in Orders :
    /\ stream = <<>>
    /\ stream' = PutUint256(order, n)
    /\ UNCHANGED <<elem, arg, sent>>

\* A read that ends inside an element leaves the reader there.
Receive(r) ==
  /\ stream' = SubSeq(stream, r.bytesRead + 1, Len(stream))
  /\ sent' = IF r.bytesRead = 4 /\ sent # <<>> THEN Tail(sent)
             ELSE IF r.bytesRead = 0 THEN sent ELSE <<>>
  /\ IF r.number = None THEN elem' = elem
     ELSE elem' \in {StoredByMethod(r.number), StoredByFunction(r.number)}
  /\ arg' = arg

PrefixLengths == {p.length : p \in BitHeaders} \cup {0, MaxLengthPrefixBits + 1}

GetPrefix ==
  \E len \in PrefixLengths, order \in Orders :
    Receive(FeDeserializeAndGetPrefix(stream, len, order))
ExpectPrefix ==
  \E p \in BitHeaders, order \in Orders :
    Receive(FeDeserializeWithExpectedPrefix(stream, p, order))

SerializationNext == Serialize \/ SerializeForeign \/ GetPrefix \/ ExpectPrefix

SerializationSpec == SerializationInit /\ [][SerializationNext]_serializationVars

----------------------------------------------------------------------------
(* Properties.                                                             *)

\* A deserialization reports exactly what it takes from the stream: the
\* bytes themselves (also those it has to serialize again), and a partial
\* read exactly when it stops inside an element.  It stores a number if and
\* only if there is no error or the error is that the number is not reduced:
\* then it is stored modulo the base field size, by methods and functions.
ReadReported(r) ==
  LET taken == SubSeq(stream, 1, r.bytesRead)
  IN  /\ r.actuallyRead = taken
      /\ r.partialRead <=> Len(taken) \in 1..3
      /\ r.err \in {"EOF", "PrefixLengthInvalid"} => taken = <<>>
      /\ r.err = "UnexpectedEOF" => taken = stream
      /\ r.number = None <=> r.err \notin {"none", "NonNormalized"}
      /\ r.err = "none" => IsReduced(r.number, "f")
      /\ r.number # None =>
           \A n \in {StoredByMethod(r.number), StoredByFunction(r.number)} :
             Represents(n, r.number % M)
ReadsReported ==
  \A order \in Orders :
    /\ \A len \in PrefixLengths : ReadReported(FeDeserializeAndGetPrefix(stream, len, order))
    /\ \A p \in BitHeaders : ReadReported(FeDeserializeWithExpectedPrefix(stream, p, order))

\* What was written whole is read again, whatever precedes it in the stream:
\* the value and the prefix, by a call for the same byte order and prefix
\* length; a call that expects another prefix of this length fails.
WrittenIsRead ==
  LET s == Head(sent)
      r == FeDeserializeAndGetPrefix(stream, s.prefix.length, s.order)
  IN  /\ r.err = "none" /\ r.number = s.value /\ r.prefix = s.prefix.bits
      /\ \A p \in BitHeaders :
           LET e == FeDeserializeWithExpectedPrefix(stream, p, s.order)
           IN  /\ p = s.prefix => e = r
               /\ p.length = s.prefix.length /\ p # s.prefix => e.err = "PrefixMismatch"
SerializationExact == ReadsReported /\ (sent # <<>> => WrittenIsRead)
=============================================================================
