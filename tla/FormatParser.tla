----------------------------- MODULE FormatParser -----------------------------
(***************************************************************************)
(* errorsWithData/formatting_parse.go: make_ast, the parser of the format   *)
(* strings of errors.  It takes one token after the other off the list the  *)
(* tokenizer made, and builds a tree of nodes with a stack of the lists     *)
(* that are not yet complete.                                               *)
(*                                                                          *)
(* A node that is being read is already the last of its list in the code,   *)
(* and is taken off again by an error; here it is added when it is          *)
(* complete.  A list of one node is not replaced by that node, as simplify  *)
(* does.  What an embedded message says is left out.                        *)
(***************************************************************************)
EXTENDS Integers, SequencesExt

CONSTANTS
  Texts,      \* for each mode, the literals that are read in that mode
  MaxTokens,  \* bound on the tokens of a format string ...
  MaxCorrect, \* ... on those before one that is a parse error ...
  MaxTail     \* ... and on that token and those after it

Special == {"%", "$", "%!", "$!", "{", "}", "%w", "$w"}
End == "end of format string"
ParserModes == {"Sequence", "FmtString", "Condition", "VariableName", "OpenSequence",
          "OpenVariable", "CloseVariable", "Error", "Done", "Panicked"}

ASSUME TextsAssumption ==
  /\ \A mode \in ParserModes : Texts[mode] \cap (Special \cup {End, "", "v"}) = {}
  /\ MaxTokens \in Nat /\ MaxCorrect \in Nat /\ MaxTail \in Nat

(* The nodes *)
String(tokens) == [kind |-> "string", tokens |-> SelectSeq(tokens, LAMBDA t : t # "")]
ParseError == [kind |-> "parseError"]
Parent(token) == [kind |-> "parent", sign |-> IF token = "%w" THEN "%" ELSE "$"]
Fmt(sign) == [kind |-> "fmt", sign |-> sign, verb |-> "", name |-> "", invalid |-> FALSE]
Cond(sign) == [kind |-> "cond", sign |-> sign, condition |-> "", invalid |-> 0, child |-> <<>>]

IsText(token) == token \notin Special \cup {End}

VARIABLES
  tokens,  \* those read so far
  parser,  \* the local variables of make_ast: mode, stack, open (the node being
           \* read, <<>> or a sequence of one), parseError
  tail     \* how many tokens have been read from the parse error on

formatVars == <<tokens, parser, tail>>

NoTokens == [mode |-> "Sequence", stack |-> <<[cond |-> <<>>, list |-> <<>>]>>,
             open |-> <<>>, parseError |-> FALSE]

-----------------------------------------------------------------------------
(* The stack: pairs of a condition and the list of its children so far; the *)
(* lowest pair is the root's.                                               *)

AddNodes(p, nodes) == [p EXCEPT !.stack[Len(p.stack)].list = @ \o nodes, !.open = <<>>]

Goto(p, mode) == [p EXCEPT !.mode = mode]

Open(p, node, mode) == [Goto(p, mode) EXCEPT !.open = <<node>>]

OpenChild(p) ==
  [Goto(p, "Sequence") EXCEPT
     !.stack = Append(@, [cond |-> p.open, list |-> <<>>]), !.open = <<>>]

(* The topmost list becomes the child of its condition. *)
CloseChild(p, flags) ==
  LET top == Last(p.stack)
  IN  AddNodes([p EXCEPT !.stack = Front(@)],
          <<[top.cond[1] EXCEPT !.invalid = flags, !.child = top.list]>>)

(* The loop that closes the open conditions compares its counter with the   *)
(* length of a stack that shrinks.                                          *)
RECURSIVE CloseConditions(_, _)
CloseConditions(p, i) ==
  IF i < Len(p.stack) - 1 THEN CloseConditions(CloseChild(p, 1), i + 1) ELSE p

\* Mutant: the open conditions stay on the stack.
set_parse_errorMutant(p) == [p EXCEPT !.mode = "Error", !.parseError = TRUE]

set_parse_error(p) == [CloseConditions(p, 0) EXCEPT !.mode = "Error", !.parseError = TRUE]

-----------------------------------------------------------------------------
(* What a token does in each of the modes *)

(* Only the root's list is left; everything is a string. *)
InError(p, token) ==
  IF Len(p.stack) # 1 THEN Goto(p, "Panicked")
  ELSE IF token = End THEN Goto(p, "Done")
       ELSE AddNodes(p, <<String(<<token>>)>>)

(* The node being read is replaced by nodes, and the token is read again. *)
Misread(p, nodes, token) == InError(set_parse_error(AddNodes(p, nodes)), token)

Unexpected(p) == set_parse_error(AddNodes(p, <<ParseError>>))

InSequence(p, token) ==
  CASE IsText(token)            -> AddNodes(p, <<String(<<token>>)>>)
    [] token \in {"%w", "$w"}   -> AddNodes(p, <<Parent(token)>>)
    [] token \in {"%", "$"}     -> Open(p, Fmt(token), "FmtString")
    [] token \in {"%!", "$!"}   -> Open(p, Cond(token), "Condition")
    [] token = "{"              -> Unexpected(p)
    [] token = "}"              -> IF Len(p.stack) = 1 THEN Unexpected(p) ELSE CloseChild(p, 0)
    [] token = End              -> IF Len(p.stack) = 1
                                     THEN Goto(p, "Done")
                                     ELSE InError(AddNodes(set_parse_error(p), <<ParseError>>), token)

InFmtString(p, token) ==
  CASE token = "{"   -> Goto(p, "VariableName")
    [] IsText(token) -> [Goto(p, "OpenVariable") EXCEPT !.open[1].verb = token]
    [] OTHER         -> Misread(p, <<String(<<p.open[1].sign>>), ParseError>>, token)

InCondition(p, token) ==
  IF IsText(token)
    THEN [Goto(p, "OpenSequence") EXCEPT !.open[1].condition = token]
    ELSE Misread(p, <<String(<<p.open[1].sign>>), ParseError>>, token)

InVariableName(p, token) ==
  IF IsText(token)
    THEN [Goto(p, "CloseVariable") EXCEPT !.open[1].name = token]
    ELSE Misread(p, <<String(<<p.open[1].sign, p.open[1].verb>>), ParseError>>, token)

InOpenSequence(p, token) ==
  IF token = "{"
    THEN OpenChild(p)
    ELSE Misread(p, <<String(<<p.open[1].sign>>), ParseError,
                      String(<<p.open[1].condition>>)>>, token)

InOpenVariable(p, token) ==
  IF token = "{"
    THEN Goto(p, "VariableName")
    ELSE Misread(p, <<String(<<p.open[1].sign>>), ParseError, String(<<p.open[1].verb>>)>>, token)

(* The verb is v by default. *)
InCloseVariable(p, token) ==
  LET node == p.open[1] IN
  IF token = "}"
    THEN Goto(AddNodes(p, <<[node EXCEPT !.verb = IF @ = "" THEN "v" ELSE @]>>), "Sequence")
    ELSE Misread(p, <<String(<<node.sign, node.verb, "{", node.name>>), ParseError>>, token)

-----------------------------------------------------------------------------
(* make_ast, token by token *)

FormatInit == tokens = <<>> /\ parser = NoTokens /\ tail = 0

(* What the tokenizer may deliver: it merges literals, and %% is one. *)
MayFollow(token) ==
  tokens # <<>> => /\ ~(IsText(token) /\ IsText(Last(tokens)))
                   /\ ~(Last(tokens) = "%" /\ token \in {"%", "%!", "%w"})

NextTokens ==
  {token \in Special \cup Texts[parser.mode] :
     MayFollow(token) /\ Len(tokens) < MaxTokens /\ tail < MaxTail} \cup {End}

ReadToken(token, p) ==
  /\ (p.parseError /\ ~parser.parseError /\ token # End) => Len(tokens) <= MaxCorrect
  /\ tokens' = Append(tokens, token)
  /\ parser' = p
  /\ tail' = IF p.parseError THEN tail + 1 ELSE 0

ReadSequence ==
  parser.mode = "Sequence" /\ \E token \in NextTokens : ReadToken(token, InSequence(parser, token))
ReadFmtString ==
  parser.mode = "FmtString" /\ \E token \in NextTokens : ReadToken(token, InFmtString(parser, token))
ReadCondition ==
  parser.mode = "Condition" /\ \E token \in NextTokens : ReadToken(token, InCondition(parser, token))
ReadVariableName ==
  parser.mode = "VariableName" /\ \E token \in NextTokens : ReadToken(token, InVariableName(parser, token))
ReadOpenSequence ==
  parser.mode = "OpenSequence" /\ \E token \in NextTokens : ReadToken(token, InOpenSequence(parser, token))
ReadOpenVariable ==
  parser.mode = "OpenVariable" /\ \E token \in NextTokens : ReadToken(token, InOpenVariable(parser, token))
ReadCloseVariable ==
  parser.mode = "CloseVariable" /\ \E token \in NextTokens : ReadToken(token, InCloseVariable(parser, token))
ReadError ==
  parser.mode = "Error" /\ \E token \in NextTokens : ReadToken(token, InError(parser, token))

Parsed == parser.mode \in {"Done", "Panicked"}

FormatNext ==
  \/ ReadSequence \/ ReadFmtString \/ ReadCondition \/ ReadVariableName
  \/ ReadOpenSequence \/ ReadOpenVariable \/ ReadCloseVariable \/ ReadError
  \/ (Parsed /\ UNCHANGED formatVars)

FormatSpec == FormatInit /\ [][FormatNext]_formatVars

Tree == parser.stack[1].list

-----------------------------------------------------------------------------
(* The language, by reduction: expressions are taken out from the inside,   *)
(* conditions when only literals and parents are left between their braces. *)

Plain(token) == IsText(token) \/ token \in {"%w", "$w", "expression"}

IsExpression(ts) ==
  \/ /\ Len(ts) \in {4, 5} /\ ts[1] \in {"%", "$"}
     /\ Len(ts) = 5 => IsText(ts[2])
     /\ IsText(ts[Len(ts) - 1])
     /\ ts[Len(ts) - 2] = "{" /\ ts[Len(ts)] = "}"
  \/ /\ Len(ts) >= 4 /\ ts[1] \in {"%!", "$!"}
     /\ IsText(ts[2]) /\ ts[3] = "{" /\ ts[Len(ts)] = "}"
     /\ \A k \in 4 .. Len(ts) - 1 : Plain(ts[k])

RECURSIVE Reduced(_)
Reduced(ts) ==
  LET found == {<<m, n>> \in (1 .. Len(ts)) \X (1 .. Len(ts)) :
                  m < n /\ ts[n] = "}" /\ IsExpression(SubSeq(ts, m, n))}
  IN  IF found = {} THEN ts
      ELSE LET e == CHOOSE e \in found : TRUE
           IN  Reduced(SubSeq(ts, 1, e[1] - 1) \o <<"expression">> \o SubSeq(ts, e[2] + 1, Len(ts)))

InLanguage(ts) == \A token \in ToSet(Reduced(ts)) : Plain(token)

(* The conditions that are open at the end of ts. *)
OpenConditions(ts) ==
  LET rest == Reduced(ts)
  IN  {k \in DOMAIN rest : /\ rest[k] \in {"%!", "$!"} /\ k + 2 <= Len(rest)
                           /\ IsText(rest[k + 1]) /\ rest[k + 2] = "{"}

(* The tokens a list of nodes stands for *)
RECURSIVE Spelled(_)
Spelled(list) ==
  LET Spelling(node) ==
        CASE node.kind = "string"     -> node.tokens
          [] node.kind = "parseError" -> <<>>
          [] node.kind = "parent"     -> <<node.sign \o "w">>
          [] node.kind = "fmt"        -> <<node.sign>> \o SelectSeq(<<node.verb>>, LAMBDA v : v # "v")
                                           \o <<"{", node.name, "}">>
          [] node.kind = "cond"       -> <<node.sign, node.condition, "{">> \o Spelled(node.child)
                                           \o (IF node.invalid = 0 THEN <<"}">> ELSE <<>>)
  IN  FlattenSeq([k \in DOMAIN list |-> Spelling(list[k])])

(* How many messages of parse errors a list shows whatever the conditions *)
RECURSIVE Shown(_)
Shown(list) ==
  LET ShownBy(node) ==
        CASE node.kind = "parseError" -> 1
          [] node.kind = "cond"       -> IF node.invalid = 0 THEN 0 ELSE Shown(node.child)
          [] OTHER                    -> 0
  IN  FoldSeq(LAMBDA node, n : n + ShownBy(node), 0, list)

(* A format string is parsed without an error exactly if it is in the       *)
(* language.  The tree stands for all its tokens, with or without an error: *)
(* only one brace, that the message is about, can be missing.  There is one *)
(* message, and no condition hides it.  The parser gives up only if two     *)
(* conditions are open.                                                     *)
ParsedExactly ==
  LET text == Front(tokens) IN
  /\ parser.mode = "Done" =>
       /\ parser.parseError <=> ~InLanguage(text)
       /\ \/ Spelled(Tree) = text
          \/ /\ parser.parseError
             /\ \E k \in DOMAIN text : text[k] \in {"{", "}"} /\ Spelled(Tree) = RemoveAt(text, k)
       /\ Shown(Tree) = IF parser.parseError THEN 1 ELSE 0
  /\ parser.mode = "Panicked" => Cardinality(OpenConditions(text)) >= 2

(* "NOTE: All panic(...) calls in this functions are assertions ... It is   *)
(* (supposed to be) impossible to trigger those with any input tokenList    *)
(* that is the output of tokenize" (formatting_parse.go).                   *)
ParserNeverPanics == parser.mode # "Panicked"
=============================================================================
