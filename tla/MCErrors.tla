------------------------------ MODULE MCErrors ------------------------------
(* Small instances of StructQueries, StructLookup and ErrorParameters, apart *)
(* from each other: part tells which of them runs.                           *)
EXTENDS StructLookup, StructQueries, ErrorParameters

BasicType(kind) == [kind |-> kind, fields |-> <<>>]
Struct(fields) == [kind |-> "struct", fields |-> fields]

FieldOf(name, type, embedded) ==
  [name |-> name, exported |-> name \in {"X", "Y", "T"}, anonymous |-> embedded, type |-> type]

Field(name) == FieldOf(name, BasicType("int"), FALSE)
Embed(name, type) == FieldOf(name, type, TRUE)

(* All structs with up to two fields, whose names differ. *)
StructsOf(fields) ==
  {Struct(<<>>)} \cup {Struct(<<f>>) : f \in fields}
    \cup {Struct(<<f, g>>) : <<f, g>> \in {p \in fields \X fields : p[1].name # p[2].name}}

Flat == {Struct(<<>>), Struct(<<Field("X")>>), Struct(<<Field("Y"), Field("X")>>)}
Odd == {Struct(<<Field("x")>>), Struct(<<Embed("int", BasicType("int"))>>),
        Struct(<<Embed("T", BasicType("structPointer"))>>)}

(* Three levels of embedding, in two branches. *)
Nested == StructsOf({Field("X")} \cup {Embed(n, t) : n \in {"T", "X"}, t \in Flat})
            \cup StructsOf({Field("X")} \cup {Embed("u", t) : t \in Odd})

OtherBranch ==
  StructsOf({Field("X")} \cup {Embed(n, t) : n \in {"T", "X"}, t \in {Struct(<<>>), Struct(<<Field("X")>>)}})

MCQueryTypes ==
  StructsOf({Field("X")} \cup {Embed("T", t) : t \in Nested} \cup {Embed("v", t) : t \in OtherBranch})
    \cup Flat \cup Odd \cup {BasicType("int")}

MCQueryNames == {<<"X">>, <<"X", "X">>, <<"X", "Y">>, <<"Y", "X">>, <<"X", "Y", "T">>}

(* Goroutines ask for two suitable structs and an unsuitable one. *)
MCTypes == {Struct(<<Field("X")>>), Struct(<<Field("Y")>>), Struct(<<Field("x")>>)}

-----------------------------------------------------------------------------
(* The X of the second struct shadows that of the first. *)
IntStruct == Struct(<<Field("X")>>)
NestedStruct ==
  Struct(<<Embed("T", IntStruct), FieldOf("X", BasicType("pointer"), FALSE),
           FieldOf("Y", BasicType("error"), FALSE)>>)

Value(type, v) == [type |-> type, v |-> v]

MCStructTypes == {"int", "nested"}
MCTypeDef == [t \in MCStructTypes |-> IF t = "int" THEN IntStruct ELSE NestedStruct]
MCNames == {"X", "Y"}
MCValues == {Value("int", 0), Value("int", 1), Value("pointer", 0), Value("ioError", 1), Nil}

MCData ==
  [t \in MCStructTypes |->
     IF t = "int"
       THEN {[X |-> Value("int", 1)]}
       ELSE {[X |-> Value("pointer", 0), Y |-> y] : y \in {Value("ioError", 1), Nil}}]

MCUserMaps ==
  {[X |-> Value("int", 1)], [X |-> Nil, Y |-> Value("ioError", 1)]}

-----------------------------------------------------------------------------
VARIABLE part   \* which of the modules runs

queryVars == <<queryType, names, lookup>>
errorVars == <<queryVars, lookupVars, vars>>

QueriesIdle == queryType = BasicType("int") /\ names = <<>> /\ lookup = NotAsked
LookupsIdle == structType = [p \in Procs |-> Struct(<<Field("x")>>)]
ErrorsIdle  == heap = <<[X |-> Value("int", 1)]>>

(* One of the parts may begin; all are idle if none of theirs is among them. *)
ErrorsInit(parts) ==
  /\ part \in parts
  /\ IF part = "queries" THEN QInit ELSE QueriesIdle
  /\ part # "lookups" => LookupsIdle
  /\ LInit
  /\ part # "errors" => ErrorsIdle
  /\ Init

ErrorsNext ==
  /\ \/ part = "queries" /\ QNext /\ UNCHANGED <<lookupVars, vars>>
     \/ part = "lookups" /\ LNext /\ UNCHANGED <<queryVars, vars>>
     \/ part = "errors"  /\ Next /\ UNCHANGED <<queryVars, lookupVars>>
  /\ UNCHANGED part

ErrorParts == {"queries", "lookups", "errors"}
ErrorsSpec == ErrorsInit(ErrorParts) /\ [][ErrorsNext]_<<errorVars, part>> /\ Fairness
=============================================================================
