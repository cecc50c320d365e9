# A verification project for Bandersnatch

TLA+ models of the parts of this repository that are hard to test, TLC
configurations that check them on small instances, and TLAPS proofs of results
that hold for every size of the system.

## The system

Bandersnatch is a Go library for an elliptic curve. Its parts, from the bottom up:

| component | state | operations |
|---|---|---|
| field elements (`bandersnatch/fieldElements`) | 4 words of 64 bits, in Montgomery form, possibly unreduced | arithmetic, inversion, Jacobi symbols, square roots, exponentiation, batches, byte formats |
| exponents (`bandersnatch/exponents`) | an exponent modulo twice the group order | arithmetic, views modulo the group order, GLV decomposition, signed digits |
| curve points (`bandersnatch/curvePoints`) | coordinates in one of three systems, types for the subgroup or the full curve; a package-wide handler for invalid points (NaPs) | addition, doubling, endomorphism, comparison, normalization (also of slices), points from coordinates |
| point serializers (`bandersnatch/pointserializer`) | immutable: a basic serializer and the byte strings that surround points and slices | read and write points, batches and slices of points; report lengths; make modified copies |
| errors with data (`bandersnatch/errorsWithData`) | immutable errors with a map of parameters and a parsed message; a package-wide cache of struct layouts | wrap, add and delete parameters, convert to structs, parse, validate and print messages |
| precomputed caches (`internal/testutils`) | a table of pages, each a list and a generator, behind two levels of `sync.RWMutex` | `PrepopulateCache`, `GetElements` |
| call counters (`internal/callcounters`), other helpers | a tree of counters | increment, reset, report |

How they interact: points compute with field elements and multiples of points
with exponents; a serializer calls the byte formats of field elements and the
constructors of curve points, and reports failures as errors with data: an
inner reader attaches fields (`PartialRead`, `BytesRead`), the callers override
some of them and add `PointsDeserialized`. Computations that meet a NaP call the
handler, which functions that watch for NaPs replace for a while. The tests,
which run in parallel, share precomputed caches of points.

What is hard: failures between any two reads or writes of a nested format, and
what is reported about them; lengths at the limit of int32; many goroutines on
one cache, or on the handler of NaPs; carries and unreduced values in
multi-word arithmetic; two representations of the same field element, of the
same point, and of the same element of the subgroup; the exceptional cases of
addition formulas; operands that are also receivers; and mistakes in the middle
of a nested message. PROJECT.json lists these as hazards, each at its line.

## Modules

    Uint256                      words and chains of carries
      Residues                   arithmetic modulo the base field's size
        ResidueRegister          a Uint256 under any sequence of calls
          ResidueProofs
        FieldElements            field elements, and their users
          FieldBigInt            (abstract) the reference implementation
          FieldSerialization     elements on a stream
          FieldElementProofs
        NumberAlgorithms         inverses and Jacobi symbols, step by step
        Decompositions           sliding windows and signed digits, step by step
    SquareRoot                   square roots, batches, in a small field
    Exponents                    exponents, GLV decomposition
      ExponentProofs             also of Decompositions
    CurveFormulas                the formulas of all coordinate systems, and the
                                 group they should compute in, as a table
      CurvePoints                variables of the six types of points
        PointGroup               (abstract) what such variables promise
        BatchNormalization       slices of points
      CurveRecovery              points from coordinates
    NaPHandler                   the handler of NaPs, and those who watch it
    CurvePointProofs             of BatchNormalization and NaPHandler
    SerializerLengths            lengths of formats, int32 and int64
      LengthQueries              a caller that asks for lengths
      PointReader                one deserialization call on a faulty stream
      PointWriter                one serialization call on a faulty stream
        PointPipe                a writer, its output, and a reader of it
          PointTransfer          (abstract) what the two promise together
      SerializerProofs           of all of these
    RWMutex                      sync.RWMutex, and proofs about its operations
      PrecomputedCache           the cache, with any number of goroutines
        ElementLists             (abstract) what the cache promises
        PrecomputedCacheProofs
    StructFields                 which fields of a struct become parameters
      StructQueries              a caller that asks for them
      StructLookup               the cache of the answers, with RWMutex
      ErrorParameters            errors, their maps, and users
        ImmutableErrors          (abstract) what errors promise
      ErrorsWithDataProofs       of StructLookup and ErrorParameters
    FormatTokenizer              format strings to tokens
    FormatParser                 tokens to a tree
      FormatVerdicts             checks, validation and messages
    MC*                          instances for TLC

The instances are MCFieldElements, MCNumberAlgorithms, MCErrors, MCCurveAndCache and
MCSerializersAndFormats; MCAlgorithmsAndErrors joins the second and the third. The
runs `nap_missed` and `cache_prepopulated_keys` are of NaPHandler and PrecomputedCache
themselves, with the constants given in their .cfg. Machines that have nothing to do with each other
share a run: a variable `part` of the MC module (for numbers, that one call is made at
a time) tells which of them takes steps, and the others stay in one state, so that
each is checked in all the states that it would have alone.

### Uint256, Residues, ResidueRegister

Uint256 keeps the words and the carries between them: `Add64`, `Sub64` and
`Mul64` work on single words of `WordBits` bits, and a chain loses the carry out
of its last word where the code drops it. In Residues a Uint256 is its value,
and a chain is one operation modulo the width of its target; where the code
looks at the highest word only, so does the model. `ArithmeticExact` compares
the two levels, and with plain integers. The suffixes of the methods (`_a`,
`_b`, `_c`, `_f`) are the ranges of their arguments and results.
`BaseFieldSizeAssumption` names the relations between the modulus and the word
size that the code relies on; the true values satisfy them.
In ResidueRegister one variable goes through any sequence of the calls, each
where the documented ranges allow it: `residue` and `quality` are what the
documentation of the calls so far promises.

### FieldElements, FieldBigInt, FieldSerialization

An element is a number below 2^256 − p (range c) that stands for itself divided by
2^256; small ones have two representations. `elem` and `arg` are receiver and
argument of a call, which may be the same variable; calls that only look may
normalize their operand, and then do so in the model. FieldBigInt is the
repository's own reference implementation, on integers, and the refinement maps
representations to what they stand for. In FieldSerialization a unit of the
stream is a word (as if a word had one byte), prefixes have up to the bits of a
unit, the writer may stop inside an element, others may write numbers that are not
reduced, and the reader may expect another prefix, or byte order, than was written.

### NumberAlgorithms, Decompositions, SquareRoot

One step is one pass of the code's loop. The cofactors of the inversion are kept
in five words in two's complement. In the sliding window decomposition the windows
are read off the lowest word while the number itself is shifted when the word is used
up; the other decomposition is that of `exponents/` into signed digits. SquareRoot
has the discrete logarithms by look-up tables, block by block, and the batch
inversions with the bookkeeping of zeros, over a field with 769 elements whose
2-adicity is large enough for several blocks. Elements are values there, but what is
looked up, whose words are the key, has either of its representations. The addition chain is mapped as
exponents: each of its steps adds exponents, or doubles them.

### Exponents

An Exponent is the value of its four words; sums and differences are taken modulo
their width before they are normalized, as in the code. `view` is what the variable
should be modulo 2·p253. The GLV decomposition is compared with a search through
all short vectors.

### CurveFormulas, CurvePoints, PointGroup

CurveFormulas has the formulas on coordinates, including those for NaPs, with
`FieldPrime` a small prime: the curve over it has the same structure (cyclic
of order 2q, times the points at infinity, with d/a a square), and the same
endomorphism. A variable of CurvePoints has one of three kinds of coordinates and
may be restricted to the subgroup; then it holds P as the coordinates of P or of
P + A. Every call of the interfaces on any variables, also equal ones, is an
action; changes of the representation of operands are part of it. PointGroup is the
view of a user, elements of an abstract group, and `Value` the refinement mapping.
The last part of CurveFormulas computes that group as a table from the textbook law.
`ObservationsExact` compares what comparisons, queries and coordinates answer with
the group.

### CurveRecovery, BatchNormalization

CurveRecovery is a request to make a point from one or two coordinates and a sign;
which of two square roots the field returns is left open. `Described` says which
points the request describes, by search, and `RecoveredExactly` that these are
returned, or the right error. BatchNormalization inverts a coordinate of a slice of
points in place, then finishes the points one per step, consuming the indices of
those without inverse; the handler of NaPs may panic there, after which the rest of
the slice is not normalized. `NormalizedSoFar` is exact at each step.

### NaPHandler

`SetNaPErrorHandler`, and functions that watch for NaPs by replacing the handler with
a closure that notes the call and passes it on. Goroutines run watched functions,
which meet NaPs, panic, are recovered, and watch other functions; handlers of users
return or panic. `error_handler_mutex` is held for single assignments only, which are
steps. With one goroutine (`NaPsReported`) every NaP is reported to those who watch,
and the users' handler is in force again in the end.

### SerializerLengths, LengthQueries

`Format` is the record of the lengths a serializer is made of. `FormatValid` is
what `Validate` admits, which runs whenever a serializer is created or modified.
`SliceOutputLength`, `MultiPointHeaderOverhead` and the guard of the batch
methods (`BatchLengthOK`) compute with integers that wrap like int32 and int64;
`SliceLength` and `FrameLength` are the lengths in unbounded integers.
`MaxInt32` is a parameter: the code's `math.MaxInt32` for the assumptions, a
small number in the run.

### PointReader

One call of `DeserializeCurvePoint` (`call.op = "point"`),
`DeserializeCurvePoints` (`"points"`), `DeserializeCurvePoints_Bounded`
(`"bounded"`) or `DeserializeSlice` (`"slice"`), of a `multiDeserializer` or a
`multiSerializer` (their methods are the same code). The `io.Reader` has some
bytes left and then ends or fails. Each read of the code is an action, and `pc`
is the next read; the action does everything up to the next read, so it
contains the rewriting of the error by each of the callers. The outcome `r` of
a read is any that the bytes left allow: whether a header matches, a point is
valid, and after how many bytes a basic serializer notices that it is not, is
nondeterministic. A basic serializer appears by its contract, read off the
formats in `basic_serializers.go`: it reads at most `fmt.point` bytes, sets
`PartialRead` exactly if it has read some of them but not all, writes its
output point only on success, and may panic for bad input that was declared to
be trusted. `touched` is a history variable: the elements of the caller's
buffer that have been overwritten.

### PointWriter

The same for `SerializeCurvePoint`, `SerializeCurvePoints` and
`SerializeSlice`. A `Write` may fail after any number of bytes, also after all
of them; a point may be one that the format cannot represent. The output is
kept as a sequence of labelled bytes.

### PointPipe, PointTransfer

A writer whose output is read back by a reader of the same format after the
writer has returned, or has stopped anywhere between two writes. The reader's
actions are those of PointReader, with their outcome `r` constrained by the
labelled bytes. A header is taken to differ from all other bytes, so what is
shown is that nothing is mistaken for something else under that assumption;
with headers of length zero nothing is assumed. PointTransfer is the abstract
service: points are received in order, at most as many as were sent, and fewer
are accepted only if the receiver has no more room or no more were sent; a
slice is accepted only as a whole.

### RWMutex, PrecomputedCache, ElementLists

A mutex is a value: its readers, those waiting to read, and the writer that
holds it or waits for the readers to leave, as Go's implementation blocks new
readers from then on. A goroutine's step is what it does between two mutex
operations; inside critical sections, filling, extending and copying proceed
one element at a time, so that an interleaving that the mutexes do not prevent
would show. Calling a nil `creationFun` ends in the label `"panicked"` with the
page still locked, as the code has no deferred `Unlock`. A page is named after
the key and the goroutine that allocates it: a goroutine does so at most once
for a key. An element is named by where it comes from: the n-th entry given, or
the n-th draw of the key's generator. `prepopulated` and `returned` are history
variables.

ElementLists is the service that the comment on top of the code describes: each
key stands for one list; every answer is a prefix of it.

### StructFields, StructQueries, StructLookup

errorsWithData converts between structs and maps of parameters. StructFields
is `getStructMapConversionLookup` as a function: a field is named by its index
(a path through embedded structs); `LookupFields` folds one iteration of the
code's loop, `ConsiderField`, over the indices in order of length. The order of
fields of the same depth, which the code's unstable sort leaves open, has no
influence on what is accepted and kept. StructQueries compares the result, and
the check of names in `validate.go`, with the documented rules, stated without the
order of the iteration, and with Go's own selectors (`GoFieldByName`).
`MaxNesting` bounds the depth of types.

StructLookup is the cache around that function. Reading the table, computing
and storing are separate steps of a goroutine. A slice is named by its type and
the goroutine that made it; for one type a goroutine stores at most one.

### ErrorParameters, ImmutableErrors

An error is a record of the error it wraps, its struct type (or `"any"`, or
`"plain"` for errors of other packages) and the address of its map. `heap` has
the contents of all maps, `held` the addresses that users have: maps they made
and maps that `GetData_map` returned. One action per exported way to create an
error; the variants with parameter lists and the `AddDataToError` functions
create what the modelled ones do. A call that panics creates nothing, so its
condition (`MergePanics`, `CanMakeStruct`) is a guard. Users may change their maps
at any time. `how`, `given` and `preferred` are history variables.

ImmutableErrors is the view of the documentation: every error, also a plain
one, has a map of its own from the moment of its creation, which is that of its
base with changes of one kind. The refinement mapping is `DataOf`, which
follows the chain of wrapped errors as the code does.

### FormatTokenizer, FormatParser, FormatVerdicts

The messages of errors are written in a small language. FormatTokenizer grows a
string character by character and cuts it up as the regular expression does, whose
first fitting alternative is taken; `TokenizedExactly` says what each character is
by its place in a run of backslashes or percent signs, without reading from the left.

FormatParser is `make_ast`: a step takes one token, and the mode and the stack are
those of the code (a pair of the stack, a condition and the list below it, is one
entry). A node being read is kept in `open` and added to its list when it is
complete; the code adds it first and takes it off again after a mistake. Tokens
arrive as the tokenizer can deliver them. `InLanguage` describes the language by
reduction from the inside out, `Spelled` the tokens that a tree stands for.

FormatVerdicts has the three recursions over the tree: the check of the syntax, the
validation (`Verify`, of an error as it is, or as a base whose `$` parameters
come later) and the message (`Interpolate`), through chains of errors. A message is
a sequence of kinds of pieces. `VerdictsMatchMessages` holds for all that the check
of the syntax sees: see the end of the next section.

## Runs

| run | question | bounds and why they suffice |
|---|---|---|
| `field_elements` | Do words, residues and field elements compute what the documented ranges and the reference implementation say, whatever the representation? | words of 3 bits and a modulus of 1409, which stands to its four words as the real one does (`BaseFieldSizeAssumption`); operands are at and next to the ends of the ranges and of the words, so that carries, borrows and unreduced values of all sizes occur; elements have both representations. Streams of up to four units, prefixes of none to all bits |
| `algorithms_and_errors`, numbers | Do the loops compute inverses, symbols, expansions, roots and decompositions, and do they end? | words of 4 bits and a modulus of 27367, as passes of the loops shift by whole words and the cofactors need spare bits; field of 769 with 2-adicity 8, blocks of 2, 3 and 8 bits: several tables, an incomplete one, a single one, and both representations of what is looked up; batches of up to four elements with zeros anywhere. Exponents modulo 2·859 with an endomorphism of eigenvalue 563 and basis (29, 3), two variables at and next to the edges, or one of them at every 17th number, two calls in a row; signed digits of all numbers of 8 bits with all sizes of digits; inversion and symbols of every 53rd number and of those at edges |
| `algorithms_and_errors`, errors | Which struct types are suitable, do all goroutines get the same answer, and are errors immutable, complete and as described? | all structs with up to two fields on three levels of embedding, a name may occur on each, in one branch or in two; two goroutines (both may compute at once), two suitable types and one that is not; chains of two errors and four maps, of errors and of users; two structs whose fields of one name have different types, values with and without nil. Three errors show no other kind of step, as an error is made from at most one other; the proofs cover any number |
| `curve_and_cache`, points | Are calls on points those of the group, for all coordinates, types, aliases and representations? | field of 193, the subgroup has 43 elements; two variables of all six types. Every call is made with each pair of one element of every kind (neutral, A, E1, E2; P and P with these added, −P; all sorts of NaPs, with scaled coordinates) and one of a few; two calls in a row start with points in general position. Recovery from all y and from x of each kind. Batches of up to four points. The NaP handler with one goroutine and three nested calls |
| `curve_and_cache`, cache | Is the cache an implementation of ElementLists, and does every call return? | two goroutines on one key (one may create, extend or copy while the other does), which the proofs extend to any number; keys interact only through the table; up to two elements, enough for a stale length |
| `serializers_and_formats`, serializers | What does a call report, write and consume, and do writers and readers agree? | `MaxInt32` = 10 and streams of up to 11 bytes, one more than a call may take, all sizes that a size field can hold; points of one or two bytes, headers and footers of length 0 to 2: a read or write can fail before, within and after each of its parts; up to three points, so that there is a first, a middle and a last one; buffers for none, one and three: room for fewer, as many and more points than were sent. Lengths are tried at `MaxInt32`, below and beyond |
| `serializers_and_formats`, formats | Is every character and token accounted for, are exactly the strings of the language accepted, and do verdicts agree with messages? | all strings of up to five characters for the tokenizer (two adjacent runs of backslashes or percent signs and what follows); up to eight tokens for the parser, enough for a condition within a condition; a mistake after up to six correct ones, below two open conditions if the others are their openings, and one token after it. Every tree that is parsed is validated against small maps, without a wrapped error and with one of another package or one that itself wraps one that needs a parameter |

All runs but two check for deadlock: machines whose work is done, or which are
bounded, repeat their state in an explicit final step. In the cache goroutines that
have panicked stop for good, and with them those who wait for their locks, and the
bound on calls of points ends a behaviour; so neither `curve_and_cache` nor
`cache_prepopulated_keys` does.

Eight runs with expected violations show where code and documentation disagree:

* `cache_prepopulated_keys`: with a nil `creationFun`, asking once for too many
  elements of a prepopulated key makes every later call for that key hang.
* `nap_missed`: while one goroutine runs a watched function, another installs its own
  closure in one step and the pointer to the previous handler in the next; a NaP of
  the first goroutine in between is not reported to it.
* `points_deserialized`: with a bad footer of a single point, one more element of the
  buffer has been overwritten than `PointsDeserialized` says
  (serialize_curve_points.go:143), against "We guarantee that this is equal to the
  number of buffer elements that were written to" (line 29).
* `exponent_negated`: `z.Neg(&x)` subtracts the old value of `z`, not that of `x`.
* `subgroup_view`: `ModuloP253` (exponents.go:58) swaps the operands of its
  subtraction, so that `ToBigInt_Subgroup` of a value z above p253 is 3·p253 − z.
* `struct_rules_documented`: a struct that embeds a type like `int` is refused because
  that name is not exported, although the documented rules (params_to_data.go:85, 18)
  are about names of fields that are not embedded.
* `typed_errors_data`: `NewErrorWithData_struct` with `PreferPreviousData` keeps an
  inherited parameter of another type than the field; `GetData_struct` then panics.
* `parser_panics`: a mistake in a format string below two open conditions makes the
  parser panic.

Passing properties are worded so that they hold exactly up to such cases. The
exceptions, each spelled out in the property, and what the code does there:

* `ErrorCountsWrites` allows the difference of one of `points_deserialized`, for an error
  in the footer of a single point and for no other.
* `EOFReported` leaves out `DeserializeSlice`, which returns `io.EOF`, not
  `io.ErrUnexpectedEOF`, if the stream ends before a point or footer of the slice.
* `PartialReadIffMisaligned` allows for a slice of which only the footer is missing,
  for which `PartialRead` is not set.
* `SuitableIffRulesHold` adds to the documented rules the undocumented one that
  `struct_rules_documented` is about (`EmbeddedNamesExported`);
  `AgreesWithGoUpToEmbedded` excepts a parameter with the name of an embedded
  struct, which is not the field that Go's selector of that name means.
* `OthersHaveTheirData` excepts the errors of `typed_errors_data`. `ExponentsExact`
  is checked with `Neg` in place, and of the view modulo p253 it covers the tests for
  zero and one, not `ModuloP253`, which `subgroup_view` refutes.
* `VerdictsMatchMessages` holds for conditions that the check of the syntax sees:
  `base_ast_condition.handleSyntaxConditions` does not descend below a condition,
  although formatting_interpolate.go says that it "processes the whole tree". A
  nested condition that is none makes `Error()` panic, and a nested bad name goes
  unreported. It also excepts maps shown by `%v{!m}`, whose selectors
  `VerifyParameters_passed` and `_direct` always reject (errorsWithData.go:126), and
  `%w` over another error of this kind: it hands a nil map to that error's
  `ValidateError_Params`, which panics, although plainErrorWithParams.go:250 says that
  "params_passed == nil is taken as using e's own parameters".

Other disagreements, seen while translating, that no run shows: `Deserialize_Buffer`
and `DeserializeAndGetPrefix_Buffer` (uint256_serialize.go) neither consume a long
enough buffer nor count the bytes; `IsInSubgroup` of `Point_efgh_full` and of the
subgroup types does not look for NaPs, against the note at curve_point.go:32;
a comment of bandersnatch_constants.go (line 137) has a sign wrong; `ErrNotInSubgroup`
of `YAndSignX_subgroup` has empty data; validate.go:90 checks nothing for structs
without fields; `endomorphismEigenvalueIsOdd` is inverted, and unused; a comment of
glv_transform.go subtracts twice what the code does; the replay of a
`%{}` without a name loses a brace; and `ast_condDollar` validates its child also
where errorsWithData.go:165 says that it is left for later.

## Fairness

`FairSpec` of the cache assumes that a goroutine that can take a step eventually
does (weak fairness of `OtherStep`), which the Go scheduler provides, and that a
goroutine that tries to lock for writing and again and again finds the mutex free
of other writers eventually takes it (strong fairness of `LockStep`): writers
queue in first-in-first-out order in `sync.Mutex`, on which `sync.RWMutex` is
built, and its starvation mode bounds their waiting. That readers do not starve a
writer is not assumed but modelled, in RWMutex. No goroutine is obliged to start a
call. StructLookup assumes the same of its goroutines and its mutex.

`LoopsEnd` assumes weak fairness of the loops on numbers, which are loops of one
goroutine: a call that has begun goes on. It says that none of them runs forever.

## Proofs

Every theorem holds for all values of the constants that the named assumptions of
the modules admit; the runs evaluate these assumptions. A module has an inductive
invariant for each machine, one lemma per action (or per part of the invariant), and
the properties as consequences. The provers know neither exponentiation nor induction
over data with a parameter, so modules about numbers assume the recursion equations of
the powers they use (`PowersAssumption`, `DigitPowersAssumption`, `ExponentPowersAssumption`), recursion is by
recursive functions, and inductions are by least counterexamples (`LeastElement`, from
the well-foundedness of `<`).

**Numbers** (ResidueProofs, FieldElementProofs; any word size, any odd modulus between
a third and a half of 2^256, a prime one for field elements).
`ResiduesTracked`: `ResidueTracked` is nearly inductive as it stands (`ResidueInv` adds
the values of `quality`), because the range promised by each call is what the next
relies on. What is to prove is about each call: congruences modulo the base field's
size (`Cong`); that one conditional correction by the value of the highest word is
enough (`BaseFieldSizeAssumption`); that the error of the Barrett reduction stays below
W^5, which needs W ≥ 8; and that each step of the Montgomery multiplication divides
evenly, since −1/p modulo W exists, by induction on the bits of W.
`ArithmeticIsExact`: in every register that keeps `ResidueInv`, so the chains of uint256.go
may be read as integers. `Low(z)[k]` is the number that the words of z below word k stand for;
a chain from word lo to word hi adds at each word what it should (`CarriesAre`), so the words
below hi + 1 and the carry out make the sum (`Summed`, by induction along the chain). What
is left is where each chain of the products and of the square ends: for `LongMul`, `LongMulUint64`
and `LongSquare` the sum lies below the weight of the next word, so the carry out is 0
(`Exactly`); for `Mul` what is cut off is a multiple of 2^256 (`CutOff`).
`MethodsImplementBigInt`, `ObserversCorrect`: a representation w stands for an integer n
if w is in range c and w ≡ n·2^256 (`Stands`). `RepresentationInv` only says that both
elements are in range; every method is then shown to take operands that stand for n, m to
a result that stands for what FieldBigInt computes. Inverses exist since p is a prime
(the least positive multiple of an element divides p), equality of two unreduced numbers
is decided as in the code from the highest words, exponentiation is square-and-multiply
by induction on the number of bits. `SerializationCorrect`: `SerializationInv` says that
the stream starts with the units of the elements written whole and not read yet (`Layout`);
it needs that words and numbers determine each other, in both byte orders, and that a
prefix fits into the bits that a reduced number leaves free.

**Exponents** (ExponentProofs; any word size and odd group order that fits it, any basis
with the relations that `ExponentsAssumption` names). `ExponentsCorrect` rests on
`ExponentsInv`, that every variable is the least representative modulo 2·p253 of what the
calls compute; it speaks of behaviours in which `Neg` is called with its receiver as
argument, as `exponent_negated` shows it wrong for others. `GLVOptimal`, for every integer: the coordinates of
the approximate closest vector are off by at most |2u| ≤ l + 2s and |2v| ≤ l + s (l, s the
entries of the basis), so the norm of the result is at most (l + s)/2; a vector of the
lattice that would make it shorter has coordinates −1, 0 or 1, since (l − s)(l − 2s) ≥ 0,
and those neighbours are what the code compares.
`ExpansionsCorrect`, for every word size, number, window size and length of exponents
(`DecompositionsSpec` has both loops, in any interleaving). `WindowInv`: at
`currentPos` the number is split into what the entries stand for, number mod 2^currentPos, and
the rest, number div 2^currentPos (`Read`); the rest is zCopy, shifted by another L bits while a
word is read, and z0 is what of its lowest word is left, an odd number whenever a whole
window is (`Opened`). That covers the different times at which word and number are shifted,
and the windows that do not fit a word. Positions stay below the width of a Uint256, since a
rest that is not 0 has a bit there, which bounds the number of entries. `AdicInv`: the digits
and the carry stand for the bits below `position`, a carry is never left beyond the last bit
nor for 0, and each digit takes `maxbits` + 1 positions. Both need how a number is cut at one bit and then at another
(`Cuts`), and what one entry adds to the sum, by induction along the recursive functions
`ExponentOf` and `SumOf` (`OneMore`, `OneMoreDigit`).

**Points** (CurvePointProofs; any field of more than 5 elements and curve with a and d
non-squares, −1 a square, `CurveAssumption`). `NormalizedCorrect` rests on `BatchInv`: which
points before and after the index of the loop are changed and how, and that the second
index has counted the failing indices passed (`SecondIndex`). That the code's case
analysis is complete follows from the formulas: a point with a coordinate that vanishes is
a multiple of E1 or E2 or a NaP, and only the latter is in a variable of the subgroup.
`NaPsAreReported` assumes one goroutine; with two it fails (`nap_missed`). The stack of
calls tells which closure is in force, by induction on its depth.

**Serializers** (SerializerProofs; all valid formats, buffers and streams, any width of
the integers). `LengthsCorrect`: no intermediate result leaves an int64, as it is a product
of two int32 plus at most two more. Reader and writer: that a call which succeeds has
taken the advertised length depends on what it had taken at each read before, so `RInv` and
`WInv` say at each label where in the format the call is and what is counted by then, and that
all frames fit an int32. `AInv` adds where each inner error left the stream; it gives
`PartialReadCorrect` and `EOFCorrect`. `StreamInv` describes the bytes on the stream: a prefix of
headers, points and footers, each at its place. It quantifies over all positions, so TLC
does not evaluate it. `PipeInv` joins these with what the reader finds next; from it
follow `ReadBackCorrect` and `TransferRefinement`.

**Caches** (PrecomputedCacheProofs, ErrorsWithDataProofs; any number of goroutines,
keys, elements and types). That results are prefixes of one list is not inductive: it
depends on the page being what the list of its key should be (`ListInv`), up to where the
generator has come; on the local copy being a prefix of that (`CopyInv`); on all
goroutines that work for a key working on the same page, and new pages being private
(`PageInv`); and on the mutexes keeping a writer alone with the page (`PageMutexInv`,
`TableInv`), which reduces who holds a mutex to the labels of the goroutines. From `IInv`
follow the state properties, `PagesGrow` and the refinement of ElementLists. The cache of struct
types needs less (`LInv`): whatever was returned is in the table, and an entry is only made
where there is none. What the cached function computes plays no role.

**Errors** (ErrorsWithDataProofs; any names, values, struct types, numbers of errors and maps).
`IInv` (TypeOK and `Ownership`: the map of an error is shared with no user and no other error)
gives `Immutability` and, with one lemma for each way to make sure that data is there,
`DataIsThere`, with the one exception listed above. `StructsAreKept` needs `RoundTripInv`.
`ErrorsRefinement` needs `ChainInv`, that an error wraps an older one, as `DataOf` follows the
chain; its properties are inductions along it. `StructAssumption` says what Go's type system
says of a struct: its values have its fields, with their types; `MapAssumption` that users'
maps are maps of parameters.

The theorems without a counterpart among the runs' properties are the invariants themselves and
results that follow from them (`TypeCorrect`, `ResultsCorrect`, `NoMutexLeftBehind`, `PagesGrow`,
`FinalEntries`, `GLVOptimal`, `StreamLayout`).

Only model-checked, and why:

* liveness (`CallsReturn` of both caches, `LoopsEnd`): the prover has no reasoning about ENABLED and
  fairness;
* `InverseRight`: needs bounds on the cofactors of a binary gcd over a whole loop, and
  `JacobiRight`: needs quadratic reciprocity;
* `MulFiveExact`: depends on the bits of the modulus;
* `RootsAndInversesExact`: tables of discrete logarithms, and folds of the community modules, which
  are opaque to the prover;
* `ObservationsExact` and the refinement of PointGroup: need the group law, that addition on the curve is
  associative; `RecoveredExactly`: in addition which points the table of the group has;
* `SuitableIffRulesHold` and `AgreesWithGoUpToEmbedded`: about all finite trees of types, with folds;
  `TokenizedExactly`, `ParsedExactly` and `VerdictsMatchMessages`: their definitions are recursive
  operators on trees and strings, with which the prover loses its SMT backend.

## Not modelled

* Serializer parameters (copies of serializers with changed parameters, by reflection
  over names of setters), call counters (a tree of counters for benchmarks, compiled
  in by a build tag), helpers of tests: they compute nothing that other parts
  depend on, except that modified serializers are validated, which `FormatValid` is.
* The point formats of basic serializers: PointReader and PointWriter know what they
  do to stream and errors, CurveRecovery what points the coordinates describe, and
  FieldSerialization the bytes of field elements.
* Field elements: random sampling, raw bytes, conversion from big integers outside
  the reference implementation, the deprecated reciprocal, printing. Within one
  formula a receiver that is also an operand is modelled at the level of calls,
  where operands are read before the result is assigned.
* Exponents: printing, and add128 and mul128, which nothing calls.
* Curve points: printing, Clone, `HasDecaf`, slices of points as interfaces, formulas
  that nothing uses (add_ttt, add_tta, add_taa), and two files that the build ignores
  (curve_point_impl_serialize.go, exponentiation.go).
* Errors: boxing (a wrapper that forwards everything), implementations of the
  interface outside the package, repair of invalid UTF-8 in format strings, the
  wording of messages, the printing of trees and tokens; data fields of serializer
  errors that no property uses (`ActuallyRead`, `BytesRead` of inner calls, `IoError`).
* Go's memory model is taken as sequentially consistent, which it is for programs
  that, as the caches, access shared data under mutexes only. The closures of functions
  that watch for NaPs share a pointer and a flag with other goroutines without a
  mutex; in NaPHandler a closure sets its flag and follows its pointer in one step, and
  a watching function sets the pointer and reads the flag in steps of their own.

## What could be added

A second goroutine that normalizes points which others compare; the order in which
bytes and bits of points are laid out in the formats of basic serializers; a proof that
the loops of the binary algorithms keep their invariants, with bounds on cofactors; a
theorem that formulas on coordinates respect the group, from an assumption that the
group law is associative.
