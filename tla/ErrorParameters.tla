-------------------------- MODULE ErrorParameters --------------------------
(***************************************************************************)
(* errorsWithData: errors that carry parameters, the calls that create     *)
(* them, and users who hold and change maps of their own.                  *)
(*                                                                         *)
(* Go maps are references: heap holds the contents of all maps, an error   *)
(* has the address of its map, and a user the addresses of the maps it     *)
(* made or was given.  Messages and boxed errors are left out.  A call     *)
(* that panics creates nothing and is not a step.                          *)
(***************************************************************************)
EXTENDS StructFields

CONSTANTS
  StructTypes,  \* names of suitable struct types
  TypeDef,      \* TypeDef[t]: the type, as in StructFields
  Names,        \* names of parameters
  Values,       \* values, records with their dynamic type
  Data,         \* Data[t]: the values of type t, by the names of the fields
  UserMaps,     \* the contents that users give to their maps
  MaxErrors,    \* bound on the number of errors
  MaxMaps       \* bound on the number of maps

Modes == {"PreferPreviousData", "ReplacePreviousData", "AssertDataIsNotReplaced"}
MissingDataTreatments == {"MissingDataAsZero", "EnsureDataIsPresent"}

VARIABLES
  heap,      \* the contents of the maps
  errs,      \* the errors, in the order of their creation
  held,      \* addresses of the maps of users
  how,       \* history: in which way error e was made from its base
  given,     \* history: given[e] is the struct that error e was created with
  preferred  \* history: errors created from a struct with PreferPreviousData

vars == <<heap, errs, held, how, given, preferred>>
history == <<how, given, preferred>>

NilError == 0
Errors == DOMAIN errs
NoData == [n \in {} |-> n]

-----------------------------------------------------------------------------
(* Values and struct fields *)

Nil == [type |-> "nil", v |-> 0]

IsNilable(type) == type.kind \in {"error", "pointer"}

ZeroValue(type) == IF type.kind = "error" THEN Nil ELSE [type |-> type.kind, v |-> 0]

(* Only ioError implements the interface error.  Other types have to match.   *)
Fits(value, type) ==
  CASE value.type = "nil"                            -> IsNilable(type)
    [] value.type # "nil" /\ type.kind = "error"     -> value.type = "ioError"
    [] value.type # "nil" /\ type.kind # "error"     -> value.type = type.kind

(* The types of the parameters for a struct. *)
FieldTypes == [t \in StructTypes |->
  LET type == TypeDef[t]
      indices == ToSet(LookupFields(type).fields)
  IN [name \in {FieldAt(type, i).name : i \in indices} |->
        FieldAt(type, CHOOSE i \in indices : FieldAt(type, i).name = name).type]]

Maps == UNION {[S -> Values] : S \in SUBSET Names}

(* A field has a type, and structs have values that fit, in all fields; only  *)
(* a field of an interface type holds a nil without a type.  Names and Values *)
(* are all names and values that occur.                                       *)
ASSUME StructAssumption ==
  \A t \in StructTypes :
    /\ DOMAIN FieldTypes[t] \subseteq Names
    /\ \A name \in DOMAIN FieldTypes[t] :
         /\ FieldTypes[t][name].kind # "nil"
         /\ ZeroValue(FieldTypes[t][name]) \in Values
    /\ \A data \in Data[t] :
         /\ data \in [DOMAIN FieldTypes[t] -> Values]
         /\ \A name \in DOMAIN data :
              /\ Fits(data[name], FieldTypes[t][name])
              /\ data[name] = Nil => FieldTypes[t][name].kind = "error"

ASSUME MapAssumption == UserMaps \subseteq Maps

-----------------------------------------------------------------------------
(* Maps *)

Overwrite(m, n) == [name \in DOMAIN m \cup DOMAIN n |-> IF name \in DOMAIN n THEN n[name] ELSE m[name]]

Collide(m, n) == \E name \in DOMAIN m \cap DOMAIN n : m[name] # n[name]

(* mergeMaps, and fillMapFromStruct with the fields of the struct as source. *)
MergePanics(target, source, mode) == mode = "AssertDataIsNotReplaced" /\ Collide(target, source)

(* Mutant: the modes are swapped. *)
MergedMutant(target, source, mode) ==
  IF mode = "PreferPreviousData" THEN Overwrite(target, source) ELSE Overwrite(source, target)

Merged(target, source, mode) ==
  IF mode = "PreferPreviousData" THEN Overwrite(source, target) ELSE Overwrite(target, source)

(* ensureCanMakeStructFromParameters *)
CanMakeStruct(m, t, missing) ==
  \A name \in DOMAIN FieldTypes[t] :
    IF name \in DOMAIN m THEN Fits(m[name], FieldTypes[t][name]) ELSE missing = "MissingDataAsZero"

Filled(m, t) ==
  Overwrite([name \in DOMAIN FieldTypes[t] |-> ZeroValue(FieldTypes[t][name])], m)

(* makeStructFromMap; a nil becomes a nil of the type of the field. *)
MakeStructPanics(m, t) ==
  \E name \in DOMAIN FieldTypes[t] :
    name \notin DOMAIN m \/ ~Fits(m[name], FieldTypes[t][name])

MakeStruct(m, t) ==
  [name \in DOMAIN FieldTypes[t] |->
     IF m[name] = Nil THEN ZeroValue(FieldTypes[t][name]) ELSE m[name]]

(* The first error of the chain that has a map. *)
Carrier(e) ==
  LET carrier[c \in Errors \cup {NilError}] ==
        IF c = NilError \/ errs[c].map # 0 THEN c ELSE carrier[errs[c].wrapped]
  IN carrier[e]

(* GetData_map *)
DataOf(e) == LET c == Carrier(e) IN IF c = NilError THEN NoData ELSE heap[errs[c].map]

-----------------------------------------------------------------------------
Init ==
  /\ heap \in {<<m>> : m \in UserMaps}
  /\ errs = <<>>
  /\ held = {1}
  /\ how = <<>>
  /\ given = <<>>
  /\ preferred = {}

(* Mutant: the error shares the map of the error it wraps. *)
CreateMutant(base, type, m, way, data) ==
  LET c == Carrier(base)
      shared == c # NilError
  IN
  /\ Len(errs) < MaxErrors
  /\ Len(heap) < MaxMaps
  /\ heap' = IF shared THEN [heap EXCEPT ![errs[c].map] = m] ELSE Append(heap, m)
  /\ errs' = Append(errs, [wrapped |-> base, type |-> type,
                           map |-> IF shared THEN errs[c].map ELSE Len(heap) + 1])
  /\ how' = Append(how, way)
  /\ given' = Append(given, data)
  /\ UNCHANGED held

(* An error is made with a copy of the inherited map, which is then changed. *)
Create(base, type, m, way, data) ==
  /\ Len(errs) < MaxErrors
  /\ Len(heap) < MaxMaps
  /\ heap' = Append(heap, m)
  /\ errs' = Append(errs, [wrapped |-> base, type |-> type, map |-> Len(heap) + 1])
  /\ how' = Append(how, way)
  /\ given' = Append(given, data)
  /\ UNCHANGED held

Way(mode) == IF mode = "ReplacePreviousData" THEN "replace" ELSE "keep"

CreateUnnoted(base, type, m, way) ==
  Create(base, type, m, way, NoData) /\ UNCHANGED preferred

(* An error of another package, which may wrap one of ours. *)
PlainError(base) ==
  /\ Len(errs) < MaxErrors
  /\ errs' = Append(errs, [wrapped |-> base, type |-> "plain", map |-> 0])
  /\ how' = Append(how, "wrap")
  /\ given' = Append(given, NoData)
  /\ UNCHANGED <<heap, held, preferred>>

NewErrorWithData_struct(base, t, data, mode) ==
  /\ ~MergePanics(DataOf(base), data, mode)
  /\ Create(base, t, Merged(DataOf(base), data, mode), Way(mode),
            IF mode = "ReplacePreviousData" THEN data ELSE NoData)
  /\ preferred' = IF mode = "PreferPreviousData" THEN preferred \cup {Len(errs) + 1} ELSE preferred

(* Mutant: what is missing is not filled in. *)
NewErrorWithData_mapMutant(base, t, m, mode, missing) ==
  LET merged == Merged(DataOf(base), m, mode) IN
  /\ ~MergePanics(DataOf(base), m, mode)
  /\ CanMakeStruct(merged, t, missing)
  /\ CreateUnnoted(base, t, merged, Way(mode))

NewErrorWithData_map(base, t, m, mode, missing) ==
  LET merged == Merged(DataOf(base), m, mode) IN
  /\ ~MergePanics(DataOf(base), m, mode)
  /\ CanMakeStruct(merged, t, missing)
  /\ CreateUnnoted(base, t, Filled(merged, t), Way(mode))

NewErrorWithData_any_map(base, m, mode) ==
  /\ ~MergePanics(DataOf(base), m, mode)
  /\ CreateUnnoted(base, "any", Merged(DataOf(base), m, mode), Way(mode))

Without(m, name) == [n \in DOMAIN m \ {name} |-> m[n]]

DeleteParameterFromError_any(base, name) ==
  /\ base # NilError
  /\ CreateUnnoted(base, "any", Without(DataOf(base), name), "delete")

DeleteParameterFromError(base, t, name, missing) ==
  /\ base # NilError
  /\ CanMakeStruct(Without(DataOf(base), name), t, missing)
  /\ CreateUnnoted(base, t, Filled(Without(DataOf(base), name), t), "deleteAndFill")

(* If the data does not fit, an error with zeros is returned, next to ok = FALSE. *)
AsErrorWithData(base, t, missing) ==
  /\ base # NilError
  /\ IF CanMakeStruct(DataOf(base), t, missing)
       THEN CreateUnnoted(base, t, Filled(DataOf(base), t), "keep")
       ELSE CreateUnnoted(NilError, t, Filled(NoData, t), "keep")

-----------------------------------------------------------------------------
(* Users *)

GetData_map(e) ==
  /\ Len(heap) < MaxMaps
  /\ heap' = Append(heap, DataOf(e))
  /\ held' = held \cup {Len(heap) + 1}
  /\ UNCHANGED <<errs, history>>

ChangeMap(a, m) ==
  /\ heap' = [heap EXCEPT ![a] = m]
  /\ UNCHANGED <<errs, held, history>>

-----------------------------------------------------------------------------
Next ==
  \/ \E base \in Errors \cup {NilError} :
       \/ PlainError(base) \/ GetData_map(base)
       \/ \E name \in Names :
            \/ DeleteParameterFromError_any(base, name)
            \/ \E t \in StructTypes, missing \in MissingDataTreatments :
                 DeleteParameterFromError(base, t, name, missing)
       \/ \E mode \in Modes :
            \/ \E t \in StructTypes : \E data \in Data[t] :
                 NewErrorWithData_struct(base, t, data, mode)
            \/ \E a \in held :
                 \/ NewErrorWithData_any_map(base, heap[a], mode)
                 \/ \E t \in StructTypes, missing \in MissingDataTreatments :
                      NewErrorWithData_map(base, t, heap[a], mode, missing)
       \/ \E t \in StructTypes, missing \in MissingDataTreatments :
            AsErrorWithData(base, t, missing)
  \/ \E a \in held, m \in UserMaps : ChangeMap(a, m)

Spec == Init /\ [][Next]_vars

-----------------------------------------------------------------------------
(* Properties *)

Typed(e) == errs[e].type \notin {"plain", "any"}

(* "This library treat errors as (shallowly) immutable objects": whatever     *)
(* users do with the maps they passed in or were given, and whatever is       *)
(* added to or deleted from errors that wrap it, the map of an error stays.   *)
ErrorsImmutable ==
  [][\A e \in Errors :
       /\ errs'[e] = errs[e]
       /\ errs[e].map # 0 => heap'[errs[e].map] = heap[errs[e].map]]_vars

(* "Any non-nil error returned in such an interface is guaranteed to contain  *)
(* some additional data sufficient to create an instance of StructType":      *)
(* GetData_struct never panics.                                               *)
TypedErrorsHaveTheirData ==
  \A e \in Errors : Typed(e) => ~MakeStructPanics(heap[errs[e].map], errs[e].type)

(* It does not for errors that were created other than from a struct with     *)
(* PreferPreviousData.                                                        *)
OthersHaveTheirData ==
  \A e \in Errors \ preferred : Typed(e) => ~MakeStructPanics(heap[errs[e].map], errs[e].type)

(* OthersHaveTheirData is inductive together with the fact that such errors   *)
(* have maps.                                                                 *)
DataInv == OthersHaveTheirData /\ \A e \in Errors : Typed(e) => errs[e].map # 0

(* A struct that an error was created with, replacing what the base had, is   *)
(* what GetData_struct returns, at any later time.                            *)
StructsRoundTrip ==
  \A e \in Errors : given[e] # NoData => MakeStruct(heap[errs[e].map], errs[e].type) = given[e]

(* An error's map is its own: neither a user nor another error has it.        *)
Ownership ==
  \A e \in Errors :
    /\ errs[e].map \notin held
    /\ \A d \in Errors \ {e} : errs[d].map = errs[e].map => errs[e].map = 0

(* Ownership, with the types of the variables: addresses are those of maps.   *)
TypeOK ==
  /\ heap \in Seq(ToSet(heap)) /\ Len(heap) > 0
  /\ errs \in Seq([wrapped : Nat, type : StructTypes \cup {"plain", "any"}, map : Nat])
  /\ held \subseteq DOMAIN heap
  /\ \A e \in Errors : errs[e].map <= Len(heap)

IInv == TypeOK /\ Ownership

(* Errors are as ImmutableErrors says, also those of other packages, whose     *)
(* maps are found by following the chain.                                     *)
Abstract == INSTANCE ImmutableErrors WITH
  wrapped <- [e \in Errors |-> errs[e].wrapped],
  params <- [e \in Errors |-> DataOf(e)]

ImplementsImmutableErrors == Abstract!ASpec
=============================================================================
