---------------------------- MODULE StructFields ----------------------------
(***************************************************************************)
(* The fields of a struct type that errorsWithData converts to and from    *)
(* parameters: embedded structs are flattened, and fields may shadow each  *)
(* other within limits.                                                    *)
(*                                                                         *)
(* A type is a record with its kind and, for structs, its fields.  A field *)
(* of a struct, possibly a promoted one, is named by its index, the path   *)
(* that leads to it through embedded structs.                              *)
(***************************************************************************)
EXTENDS Naturals, FiniteSets, SequencesExt, TLC

CONSTANT MaxNesting  \* bound on how deep structs are embedded in each other

ASSUME NestingAssumption == MaxNesting \in Nat \ {0}

FieldAt(t, index) ==
  FoldLeft(LAMBDA type, i : type.fields[i].type, t, Front(index)).fields[Last(index)]

EmbedsStruct(field) == field.anonymous /\ field.type.kind = "struct"

EmbedsStructPointer(field) == field.anonymous /\ field.type.kind = "structPointer"

(* The indices of all fields, those of embedded structs included.  Here they *)
(* come one level after the other, in the code depth first; they are sorted  *)
(* by level, with a sort that need not be stable, before they are used.      *)
AllFields(t) ==
  LET top == [i \in DOMAIN t.fields |-> <<i>>]
      Inside(outer) == LET field == FieldAt(t, outer) IN
        IF EmbedsStruct(field)
          THEN [i \in DOMAIN field.type.fields |-> Append(outer, i)]
          ELSE <<>>
      OneLevelMore(found) == top \o FlattenSeq([k \in DOMAIN found |-> Inside(found[k])])
  IN FoldLeft(LAMBDA found, n : OneLevelMore(found), top, [n \in 1 .. MaxNesting - 1 |-> n])

Indices(t) == ToSet(AllFields(t))

EmbeddedStructPointer(t) == \E index \in Indices(t) : EmbedsStructPointer(FieldAt(t, index))

(* Shorter indices come first. *)
InOrder(t) == SortSeq(AllFields(t), LAMBDA p, q : Len(p) < Len(q))

(* Mutant: a shallower field in any branch of the tree is good enough. *)
ShadowsMutant(existing, new) == Len(existing) < Len(new)

(* The new field lies below the struct that has the existing one. *)
Shadows(existing, new) ==
  Len(existing) < Len(new) /\ \A i \in 1 .. Len(existing) - 1 : existing[i] = new[i]

Invalid == [ok |-> FALSE, fields |-> <<>>]

(* Mutant: the first field of a name is taken, without a test of its place. *)
ConsiderFieldMutant(t, lookup, index) ==
  LET new == FieldAt(t, index) IN
  CASE ~lookup.ok \/ EmbedsStruct(new) -> lookup
    [] lookup.ok /\ ~EmbedsStruct(new) /\ ~new.exported -> Invalid
    [] lookup.ok /\ ~EmbedsStruct(new) /\ new.exported ->
         IF \E e \in ToSet(lookup.fields) : FieldAt(t, e).name = new.name
           THEN lookup
           ELSE [lookup EXCEPT !.fields = Append(@, index)]

(* One iteration over the sorted fields; the first error ends the loop. *)
ConsiderField(t, lookup, index) ==
  LET new == FieldAt(t, index)
      namesakes == {e \in ToSet(lookup.fields) : FieldAt(t, e).name = new.name}
  IN CASE ~lookup.ok \/ EmbedsStruct(new) -> lookup
       [] lookup.ok /\ ~EmbedsStruct(new) /\ ~new.exported -> Invalid
       [] lookup.ok /\ ~EmbedsStruct(new) /\ new.exported ->
            IF namesakes = {}
              THEN [lookup EXCEPT !.fields = Append(@, index)]
              ELSE IF \A e \in namesakes : Shadows(e, index) THEN lookup ELSE Invalid

LookupFields(t) ==
  IF t.kind # "struct" \/ EmbeddedStructPointer(t)
    THEN Invalid
    ELSE FoldLeft(LAMBDA lookup, index : ConsiderField(t, lookup, index),
                  [ok |-> TRUE, fields |-> <<>>], InOrder(t))

-----------------------------------------------------------------------------
(* validate.go: does a check of the names pass, or panic? *)

NamesOf(t, lookup) == [i \in DOMAIN lookup.fields |-> FieldAt(t, lookup.fields[i]).name]

CheckParametersForStruct_all(t, fieldNames) ==
  LET lookup == LookupFields(t) IN
  /\ IsInjective(fieldNames)
  /\ lookup.ok
  /\ \A name \in ToSet(NamesOf(t, lookup)) : name \in ToSet(fieldNames)
  /\ Len(lookup.fields) = Len(fieldNames)

-----------------------------------------------------------------------------
(* Go's own rule for selectors: the shallowest field of a name counts, if   *)
(* there is only one at its depth.  Embedded structs are fields as well.    *)
(* The result is the set of indices that t.name may mean.                   *)
GoFieldByName(t, name) ==
  LET named == {index \in Indices(t) : FieldAt(t, index).name = name}
      shallowest == {p \in named : \A q \in named : Len(p) <= Len(q)}
  IN IF Cardinality(shallowest) = 1 THEN shallowest ELSE {}
=============================================================================
