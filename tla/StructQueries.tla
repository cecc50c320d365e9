--------------------------- MODULE StructQueries ---------------------------
(***************************************************************************)
(* Users that ask for the parameters of one struct type after the other,   *)
(* and check what they are told against the documented rules.              *)
(***************************************************************************)
EXTENDS StructFields

CONSTANTS
  QueryTypes,  \* the types asked for
  QueryNames   \* sequences of names given to CheckParametersForStruct_all

VARIABLES
  queryType,   \* the type argument
  names,       \* the argument of CheckParametersForStruct_all
  lookup       \* what is known about the type

NotAsked == [ok |-> FALSE]

QInit ==
  /\ queryType \in QueryTypes
  /\ names = <<>>
  /\ lookup = NotAsked

Ask ==
  /\ lookup = NotAsked
  /\ lookup' = LookupFields(queryType)
  /\ UNCHANGED <<queryType, names>>

Check(n) == lookup # NotAsked /\ names' = n /\ UNCHANGED <<queryType, lookup>>

QNext == Ask \/ \E n \in QueryNames : Check(n)

QSpec == QInit /\ [][QNext]_<<queryType, names, lookup>>

-----------------------------------------------------------------------------
(* The documented rules *)

Leaves(t) == {index \in Indices(t) : ~EmbedsStruct(FieldAt(t, index))}

Namesakes(t, index) ==
  {other \in Leaves(t) : FieldAt(t, other).name = FieldAt(t, index).name} \ {index}

(* Every namesake of the field is in the subtree of the struct that has it. *)
ShadowsAllNamesakes(t, index) ==
  \A other \in Namesakes(t, index) :
    IsPrefix(Front(index), other) /\ Len(index) < Len(other)

ShadowingAllowed(t) ==
  \A index \in Leaves(t) :
    \E winner \in Leaves(t) :
      /\ FieldAt(t, winner).name = FieldAt(t, index).name
      /\ ShadowsAllNamesakes(t, winner)

StructsEmbeddedByValue(t) == t.kind = "struct" /\ ~EmbeddedStructPointer(t)

NonEmbeddedNamesExported(t) ==
  \A index \in Leaves(t) : ~FieldAt(t, index).anonymous => FieldAt(t, index).exported

(* The restrictions in the documentation of StructSuitableForErrorsWithData. *)
FollowsDocumentedRules(t) ==
  StructsEmbeddedByValue(t) /\ NonEmbeddedNamesExported(t) /\ ShadowingAllowed(t)

(* Not documented: a type embedded in the struct, like int, has to be        *)
(* exported as well, unless it is a struct itself.                           *)
EmbeddedNamesExported(t) ==
  \A index \in Leaves(t) : FieldAt(t, index).anonymous => FieldAt(t, index).exported

(* A type is suitable exactly if it is a struct that embeds no struct        *)
(* pointers, shadowing fields are above the shadowed ones in one branch of   *)
(* the tree, and all names are exported, those of embedded types that are no *)
(* structs included (SuitableAsDocumented is about these).  It has one       *)
(* parameter for each name in it, and it stands for the field that shadows   *)
(* all others of that name.  A check of names passes exactly for a list of   *)
(* all names of the parameters, in any order and without repetition.         *)
SuitableIffRulesHold ==
  lookup # NotAsked =>
    /\ lookup.ok <=> FollowsDocumentedRules(queryType) /\ EmbeddedNamesExported(queryType)
    /\ lookup.ok =>
         /\ IsInjective(NamesOf(queryType, lookup))
         /\ \A index \in Leaves(queryType) :
              FieldAt(queryType, index).name \in ToSet(NamesOf(queryType, lookup))
         /\ \A index \in ToSet(lookup.fields) : ShadowsAllNamesakes(queryType, index)
    /\ CheckParametersForStruct_all(queryType, names) <=>
         /\ lookup.ok
         /\ Len(names) = Len(lookup.fields)
         /\ ToSet(names) = ToSet(NamesOf(queryType, lookup))

(* "The precise restrictions we place on StructType and check with this      *)
(* function", one of them that "all non-embedded field names must be         *)
(* exported", are all there are.  This does not hold: a struct that embeds   *)
(* an int follows them and is refused.                                       *)
SuitableAsDocumented == lookup # NotAsked => (lookup.ok <=> FollowsDocumentedRules(queryType))

(* A parameter stands for the field that the selector of the same name means  *)
(* in Go, unless an embedded struct has that name.                            *)
AgreesWithGoUpToEmbedded ==
  lookup.ok =>
    \A index \in ToSet(lookup.fields) :
      \/ GoFieldByName(queryType, FieldAt(queryType, index).name) = {index}
      \/ \E e \in Indices(queryType) :
           /\ EmbedsStruct(FieldAt(queryType, e))
           /\ FieldAt(queryType, e).name = FieldAt(queryType, index).name
=============================================================================
