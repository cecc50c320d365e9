-------------------------- MODULE ImmutableErrors --------------------------
(***************************************************************************)
(* What errorsWithData promises, in the words of its documentation: "we    *)
(* associate to every error an immutable parameter map, where error        *)
(* wrapping defaults to copying the map".                                  *)
(***************************************************************************)
EXTENDS Naturals, Sequences

CONSTANTS Names, Values

VARIABLES
  wrapped,  \* wrapped[e]: the error that the e-th error is based on, or 0
  params,   \* params[e]: its map
  how       \* how[e]: in which way it was made

Maps == UNION {[S -> Values] : S \in SUBSET Names}

(* The map that an error inherits: that of its base, or none. *)
Inherited(base) == IF base = 0 THEN [n \in {} |-> n] ELSE params[base]

(* The new map m has the old parameters, with the same values. *)
Keeps(m, old) == DOMAIN old \subseteq DOMAIN m /\ \A n \in DOMAIN old : m[n] = old[n]

Without(m, name) == [n \in DOMAIN m \ {name} |-> m[n]]

AInit == wrapped = <<>> /\ params = <<>> /\ how = <<>>

(* A new error, and its map. *)
Made(base, way) == wrapped' = Append(wrapped, base) /\ how' = Append(how, way)
HasMap(m) == params' = Append(params, m)

Make(base, m, way) == Made(base, way) /\ HasMap(m)

Wrap(base) == Make(base, Inherited(base), "wrap")

AddKeeping(base) ==
  /\ Made(base, "keep")
  /\ \E m \in Maps : Keeps(m, Inherited(base)) /\ HasMap(m)

AddReplacing(base) ==
  /\ Made(base, "replace")
  /\ \E m \in Maps : DOMAIN Inherited(base) \subseteq DOMAIN m /\ HasMap(m)

Delete(base) == \E name \in Names : Make(base, Without(Inherited(base), name), "delete")

(* A struct may need parameters that are missing, maybe just the deleted one. *)
DeleteAndFill(base) ==
  /\ Made(base, "deleteAndFill")
  /\ \E m \in Maps, name \in Names :
       Keeps(m, Without(Inherited(base), name)) /\ HasMap(m)

ANext ==
  \E base \in 0 .. Len(params) :
    \/ Wrap(base) \/ AddKeeping(base) \/ AddReplacing(base)
    \/ Delete(base) \/ DeleteAndFill(base)

ASpec == AInit /\ [][ANext]_<<wrapped, params, how>>
=============================================================================
