---------------------------- MODULE FormatVerdicts ----------------------------
(***************************************************************************)
(* What errorsWithData does with the tree of a format string               *)
(* (formatting_interpolate.go, plainErrorWithParams.go): the checks of the  *)
(* syntax, the validation against the parameters and the wrapped error, and *)
(* the interpolation of the message of an error, through chains of errors.  *)
(*                                                                         *)
(* An error is a tree with a flag for a parse error, its parameters and the *)
(* error it wraps.  A message is a sequence of pieces; only their kinds     *)
(* are told apart.                                                         *)
(***************************************************************************)
EXTENDS FormatParser

CONSTANTS
  InterpolationNames,  \* the valid names of variables: exported identifiers
  PercentVerbs,        \* the verbs that contain a %
  ParameterMaps,       \* of the error and those passed to it: functions from names
  WrappedErrors,       \* the errors that are wrapped
  NilMap               \* a nil ParamMap

validConditions == {"m=0", "m>0"}
validMapSelectors == {"!m", "!map", "!parameters", "!params"}

NilError == [kind |-> "nil"]
ForeignError == [kind |-> "plain"]   \* one that is no ErrorInterpolater
ErrorWith(tree, parseError, params, wrapped) ==
  [kind |-> "error", tree |-> tree, parseError |-> parseError, params |-> params,
   wrapped |-> wrapped]

-----------------------------------------------------------------------------
(* handleSyntaxConditions.  It does not descend below a condition.          *)

Misformed(node) ==
  \/ /\ node.kind = "fmt"
     /\ node.verb \in PercentVerbs \/ node.name \notin InterpolationNames \cup validMapSelectors
  \/ node.kind = "cond" /\ node.condition \notin validConditions

HasSyntaxError(tree) == \E k \in DOMAIN tree : Misformed(tree[k])

(* Flags 1 and 2 of a condition: ignore it, and show it. *)
Flagged(node) ==
  IF ~Misformed(node) THEN node
  ELSE [node EXCEPT !.invalid = IF node.kind = "fmt" THEN TRUE ELSE 3]

handleSyntaxConditions(tree) == [k \in DOMAIN tree |-> Flagged(tree[k])]

ValidateSyntax(e) == IF e.parseError \/ HasSyntaxError(e.tree) THEN "error" ELSE "ok"

-----------------------------------------------------------------------------
(* VerifyParameters: "ok", "error" or "panic", of the first node that is    *)
(* not all right                                                            *)

\* Mutant: the loop over the nodes goes on, and the last verdict counts.
FirstOfMutant(verdicts) == IF verdicts = <<>> THEN "ok" ELSE Last(verdicts)

FirstOf(verdicts) ==
  LET bad == {k \in DOMAIN verdicts : verdicts[k] # "ok"}
  IN  IF bad = {} THEN "ok" ELSE verdicts[Min(bad)]

Holds(condition, params) == (condition = "m=0") <=> (DOMAIN params = {})

OkIf(ok) == IF ok THEN "ok" ELSE "error"

(* passed is the map for $, or NilMap for VerifyParameters_direct, that knows  *)
(* none.                                                                    *)
RECURSIVE Verify(_, _, _, _)
RECURSIVE ValidateError_Params(_, _)
RECURSIVE ValidateError_Base(_)

Verify(tree, params, passed, wrapped) ==
  LET direct == passed = NilMap
      Unchecked(node) == node.invalid # 0 \/ node.condition \notin validConditions
      VerifyFmt(node) ==
        IF node.sign = "%" THEN OkIf(node.name \in DOMAIN params)
        ELSE OkIf(direct \/ node.name \in DOMAIN passed)
      VerifyParent(node) ==
        CASE wrapped.kind = "nil"    -> "error"
          [] wrapped.kind = "plain"  -> OkIf(node.sign = "%")
          [] wrapped.kind = "error"  ->
               CASE node.sign = "%"            -> ValidateError_Params(wrapped, NilMap)
                 [] node.sign = "$" /\ direct  -> ValidateError_Base(wrapped)
                 [] node.sign = "$" /\ ~direct -> ValidateError_Params(wrapped, passed)
      VerifyCond(node) ==
        IF node.sign = "$!" /\ direct THEN Verify(node.child, params, passed, wrapped)
        ELSE IF Unchecked(node) THEN "panic"
        ELSE IF Holds(node.condition, IF node.sign = "%!" THEN params ELSE passed)
               THEN Verify(node.child, params, passed, wrapped)
               ELSE "ok"
      VerifyNode(node) ==
        CASE node.kind \in {"string", "parseError"} -> "ok"
          [] node.kind = "fmt"    -> VerifyFmt(node)
          [] node.kind = "parent" -> VerifyParent(node)
          [] node.kind = "cond"   -> VerifyCond(node)
  IN  FirstOf([k \in DOMAIN tree |-> VerifyNode(tree[k])])

(* No map is an error of the caller. *)
ValidateError_Params(e, passed) ==
  IF passed = NilMap THEN "panic"
  ELSE IF ValidateSyntax(e) = "error" THEN "error"
  ELSE Verify(e.tree, e.params, passed, e.wrapped)

ValidateError_Base(e) ==
  IF ValidateSyntax(e) = "error" THEN "error" ELSE Verify(e.tree, e.params, NilMap, e.wrapped)

ValidateError_Final(e) == ValidateError_Params(e, e.params)

-----------------------------------------------------------------------------
(* Interpolate *)

Piece(kind) == <<[kind |-> kind]>>

(* The fmt package notes in the text that a verb is wrong. *)
Formatted(verb, kind) == Piece(IF verb \in PercentVerbs THEN "no verb" ELSE kind)

RECURSIVE Interpolate(_, _, _, _)
RECURSIVE Error_interpolate(_, _)

Interpolate(tree, params, passed, wrapped) ==
  LET InterpolateFmt(node) ==
        LET relevant == IF node.sign = "%" THEN params ELSE passed
        IN  CASE node.invalid                                     -> Piece("flagged")
              [] ~node.invalid /\ node.name \in validMapSelectors -> Formatted(node.verb, "map")
              [] ~node.invalid /\ node.name \in DOMAIN relevant   -> Formatted(node.verb, "value")
              [] OTHER                                            -> Piece("missing value")
      InterpolateParent(node) ==
        CASE wrapped.kind = "nil"   -> Piece("nil")
          [] wrapped.kind = "plain" -> IF node.sign = "%" THEN Piece("plain error")
                                       ELSE Piece("not supported") \o Piece("plain error")
          [] wrapped.kind = "error" -> Error_interpolate(wrapped, IF node.sign = "%" THEN NilMap ELSE passed)
      InterpolateCond(node) ==
        LET relevant == IF node.sign = "%!" THEN params ELSE passed
            below == Interpolate(node.child, params, passed, wrapped)
        IN  CASE node.invalid = 3 -> Piece("invalid condition") \o below
              [] node.invalid = 1 -> below
              [] node.invalid = 0 ->
                   IF node.condition \notin validConditions THEN Piece("panic")
                   ELSE IF Holds(node.condition, relevant) THEN below ELSE <<>>
      InterpolateNode(node) ==
        CASE node.kind = "string"     -> Piece("string")
          [] node.kind = "parseError" -> Piece("parse error")
          [] node.kind = "fmt"        -> InterpolateFmt(node)
          [] node.kind = "parent"     -> InterpolateParent(node)
          [] node.kind = "cond"       -> InterpolateCond(node)
  IN  FlattenSeq([k \in DOMAIN tree |-> InterpolateNode(tree[k])])

(* Errors of the syntax are followed by the wrapped error and all parameters. *)
Diagnostics(e, passed) ==
  CASE ValidateSyntax(e) = "ok" -> <<>>
    [] OTHER ->
         Piece("diagnostics")
           \o (CASE e.wrapped.kind = "nil"   -> <<>>
                 [] e.wrapped.kind = "plain" -> Piece("plain error")
                 [] e.wrapped.kind = "error" -> Error_interpolate(e.wrapped, NilMap))
           \o (IF DOMAIN e.params = {} THEN <<>> ELSE Piece("map"))
           \o (IF passed = NilMap THEN <<>> ELSE Piece("map"))

Error_interpolate(e, passed) ==
  Interpolate(handleSyntaxConditions(e.tree), e.params,
              IF passed = NilMap THEN e.params ELSE passed, e.wrapped)
    \o Diagnostics(e, passed)

-----------------------------------------------------------------------------

(* The nodes below conditions, that no check of the syntax looks at *)
RECURSIVE Below(_)
Below(tree) ==
  UNION {ToSet(tree[k].child) \cup Below(tree[k].child) :
           k \in {n \in DOMAIN tree : tree[n].kind = "cond"}}

HiddenMisformed(tree) == \E node \in Below(tree) : Misformed(node)

Complete(message) ==
  \A k \in DOMAIN message : message[k].kind \in {"string", "value", "map", "plain error"}

ShowsMap(message) == \E k \in DOMAIN message : message[k].kind = "map"

AllPassed == [name \in InterpolationNames |-> "passed"]

(* A wrapped error that is not mentioned plays no part. *)
Wrapped == IF {"%w", "$w"} \cap ToSet(tokens) = {} THEN {NilError} ELSE WrappedErrors

(* For the tree that has been parsed, as part of any error. *)
VerdictsMatch(e) ==
  LET hidden == HiddenMisformed(e.tree)
      base == ValidateError_Base(e)
      meets == e.wrapped.kind = "error" /\ "%w" \in ToSet(tokens)
  IN  /\ base = "ok" /\ ~hidden => Complete(Error_interpolate(e, AllPassed))
      /\ \A passed \in ParameterMaps :
           LET verdict == ValidateError_Params(e, passed)
               message == Error_interpolate(e, passed)
           IN  /\ verdict = "ok" /\ ~hidden => Complete(message)
               /\ verdict = "error" => ~Complete(message) \/ ShowsMap(message)
               /\ verdict = "panic" => meets \/ hidden
               /\ Piece("panic")[1] \in ToSet(message) => hidden

(* An error that is found valid has a complete message: no value is missing *)
(* and no other mistake shows; one that is valid as a base has it once all  *)
(* parameters are passed.  One that is found invalid has no such message,   *)
(* unless the message prints a parameter map, whose selector the validation *)
(* takes for a missing parameter.  This is so through chains of errors, for *)
(* all that is not hidden from the check of the syntax below a condition;   *)
(* only such a node makes Error panic, and only it or %w make validation.   *)
VerdictsMatchMessages ==
  parser.mode = "Done" =>
    \A params \in ParameterMaps, wrapped \in Wrapped :
      VerdictsMatch(ErrorWith(Tree, parser.parseError, params, wrapped))
=============================================================================
