--------------------------- MODULE FormatTokenizer ---------------------------
(***************************************************************************)
(* errorsWithData/formatting_tokenize.go: a format string is cut into       *)
(* pieces by a regular expression, whose first alternative that fits is     *)
(* taken; pieces are special tokens or literals, and consecutive literals   *)
(* are merged.  Texts are sequences of characters.                          *)
(***************************************************************************)
EXTENDS Integers, SequencesExt

CONSTANTS
  Letters,   \* characters without a meaning of their own
  MaxLength  \* bound on the length of a format string

Active == {"%", "$", "{", "}"}

ASSUME TokenizerAssumption ==
  Letters \cap (Active \cup {"\\", "!", "w"}) = {} /\ MaxLength \in Nat

literalToken(s) == [special |-> FALSE, text |-> s]
specialToken(s) == [special |-> TRUE, text |-> s]

-----------------------------------------------------------------------------
(* The alternatives of re_tokenize: first those of two characters *)

EscapeSequences ==
  {<<"\\", "%">>, <<"\\", "$">>, <<"\\", "{">>, <<"\\", "}">>, <<"\\", "\\">>, <<"%", "%">>}
SpecialPairs == {<<"%", "!">>, <<"$", "!">>, <<"%", "w">>, <<"$", "w">>}

(* Up to the next character with a meaning *)
PlainRun(s) ==
  LET stops == {k \in DOMAIN s : s[k] \in Active \cup {"\\"}}
  IN  IF stops = {} THEN Len(s) ELSE Min(stops) - 1

(* Mutant: the alternative % comes before %%. *)
PieceLengthMutant(s) ==
  IF Len(s) > 1 /\ SubSeq(s, 1, 2) \in (EscapeSequences \cup SpecialPairs) \ {<<"%", "%">>} THEN 2
  ELSE IF s[1] \in Active \cup {"\\"} THEN 1 ELSE PlainRun(s)

PieceLength(s) ==
  IF Len(s) > 1 /\ SubSeq(s, 1, 2) \in EscapeSequences \cup SpecialPairs THEN 2
  ELSE IF s[1] \in Active \cup {"\\"} THEN 1 ELSE PlainRun(s)

(* An escape sequence is a literal; one that escapes nothing stays. *)
TokenOf(piece) ==
  CASE piece \in EscapeSequences                           -> literalToken(<<piece[2]>>)
    [] piece \in SpecialPairs \cup {<<c>> : c \in Active} -> specialToken(piece)
    [] OTHER                                              -> literalToken(piece)

MergedInto(list, token) ==
  IF list # <<>> /\ ~token.special /\ ~Last(list).special
    THEN Append(Front(list), literalToken(Last(list).text \o token.text))
    ELSE Append(list, token)

RECURSIVE TokensFrom(_, _)
TokensFrom(list, s) ==
  IF s = <<>> THEN list
  ELSE LET n == PieceLength(s)
       IN  TokensFrom(MergedInto(list, TokenOf(SubSeq(s, 1, n))), SubSeq(s, n + 1, Len(s)))

(* The markers of start and end are left out. *)
tokenizeInterpolationString(s) == TokensFrom(<<>>, s)

-----------------------------------------------------------------------------
VARIABLE formatString

TokenizerInit == formatString = <<>>

Type(c) == Len(formatString) < MaxLength /\ formatString' = Append(formatString, c)

TokenizerNext ==
  \/ \E c \in Letters \cup Active \cup {"\\", "!", "w"} : Type(c)
  \/ Len(formatString) = MaxLength /\ UNCHANGED formatString

-----------------------------------------------------------------------------
(* What a character is by its place: backslashes, and percent signs that no *)
(* backslash escapes, pair up from the left of a run of them.               *)

(* How many c in a row there are up to place k *)
RunOf(c, s, k) == k - Max({0} \cup {n \in 1 .. k : s[n] # c})

Escaped(s, k) == RunOf("\\", s, k - 1) % 2 = 1

BeginsPair(s, k) ==
  LET n == RunOf(s[k], s, k)
  IN  CASE s[k] = "\\" -> ~Escaped(s, k)
        [] s[k] = "%"  -> n % 2 = IF Escaped(s, k - n + 1) THEN 0 ELSE 1
        [] OTHER       -> FALSE

IsDropped(s, k) ==
  /\ k < Len(s) /\ BeginsPair(s, k)
  /\ s[k + 1] \in IF s[k] = "%" THEN {"%"} ELSE Active \cup {"\\"}

IsActive(s, k) ==
  CASE s[k] \in {"$", "{", "}"} -> ~Escaped(s, k)
    [] s[k] = "%"               -> BeginsPair(s, k) /\ ~IsDropped(s, k)
    [] OTHER                    -> FALSE

IsSpecial(s, k) ==
  \/ IsActive(s, k)
  \/ s[k] \in {"!", "w"} /\ k > 1 /\ s[k - 1] \in {"%", "$"} /\ IsActive(s, k - 1)

Characters(token) == [k \in DOMAIN token.text |-> <<token.text[k], token.special>>]

(* With a backslash before every character that may have one *)
Spelling(token) ==
  IF token.special THEN token.text
  ELSE FlattenSeq([k \in DOMAIN token.text |->
         (IF token.text[k] \in Active \cup {"\\"} THEN <<"\\">> ELSE <<>>) \o <<token.text[k]>>])

(* The tokens are those that the escape sequences leave, none lost or taken *)
(* for another, however backslashes and percent signs follow on each other. *)
(* They are as the parser assumes: literals are not empty and are merged,   *)
(* and a % is not followed by another.  Every list of tokens that there is  *)
(* can be spelled so that exactly these tokens are read.                    *)
TokenizedExactly ==
  LET s == formatString
      list == tokenizeInterpolationString(s)
      kept == SelectSeq([k \in DOMAIN s |-> k], LAMBDA k : ~IsDropped(s, k))
  IN  /\ FlattenSeq([n \in DOMAIN list |-> Characters(list[n])])
           = [n \in DOMAIN kept |-> <<s[kept[n]], IsSpecial(s, kept[n])>>]
      /\ \A n \in DOMAIN list : list[n].text # <<>>
      /\ \A n \in 1 .. Len(list) - 1 :
           /\ list[n].special \/ list[n + 1].special
           /\ list[n] = specialToken(<<"%">>) =>
                ~(list[n + 1].special /\ list[n + 1].text[1] = "%")
      /\ tokenizeInterpolationString(FlattenSeq([n \in DOMAIN list |-> Spelling(list[n])])) = list
=============================================================================
