------------------------ MODULE MCAlgorithmsAndErrors ------------------------
(***************************************************************************)
(* The algorithms on numbers and the errors with data, apart from each     *)
(* other, in one run.                                                      *)
(***************************************************************************)
EXTENDS MCNumberAlgorithms, MCErrors

\* No call has been made; the variables are not zero, so not fresh.
NumbersIdle ==
  /\ InverseInit /\ JacobiInit /\ WindowInit /\ RootInit /\ AdicInit
  /\ ExponentsInit /\ exponent = (e1 :> 1 @@ e2 :> 1)

MCInit ==
  \/ NumbersInit /\ ErrorsInit({"numbers"})
  \/ NumbersIdle /\ ErrorsInit(ErrorParts)
MCNext ==
  \/ part = "numbers" /\ NumbersNext /\ UNCHANGED <<errorVars, part>>
  \/ ErrorsNext /\ UNCHANGED numberVars
MCSpec ==
  MCInit /\ [][MCNext]_<<numberVars, errorVars, part>> /\ NumbersFairness /\ Fairness
=============================================================================
