-------------------------- MODULE MCNumberAlgorithms -------------------------
(***************************************************************************)
(* The algorithms on numbers side by side.  They share no variable;        *)
(* a step is a step of one of them, and one call is made at a time.        *)
(***************************************************************************)
EXTENDS NumberAlgorithms, Decompositions, SquareRoot, Exponents, TLC

CONSTANTS e1, e2   \* variables of the callers, of twelve bits

numberVars == <<inverseVars, jacobiVars, windowVars, rootVars, adicVars, exponentVars>>

NumbersInit == InverseInit /\ JacobiInit /\ WindowInit /\ RootInit /\ AdicInit /\ ExponentsInit

NoCall == inversePc = "idle" /\ jacobiPc = "idle" /\ windowPc = "idle" /\ adicPc = "idle"
NoElements == element = 0 /\ batch = <<>>
NoExponents == exponentCalls = 0 /\ \A n \in ExponentNames : exponent[n] = 0
Fresh == NoElements /\ NoExponents

InverseCalls ==
  /\ \/ NoCall /\ Fresh /\ InverseStart
     \/ InverseLoop \/ InverseReturn
  /\ UNCHANGED <<jacobiVars, windowVars, rootVars, adicVars, exponentVars>>
JacobiCalls ==
  /\ \/ NoCall /\ Fresh /\ JacobiStart
     \/ JacobiLoop \/ JacobiReturn
  /\ UNCHANGED <<inverseVars, windowVars, rootVars, adicVars, exponentVars>>
WindowCalls ==
  /\ \/ NoCall /\ Fresh /\ WindowStart
     \/ WindowLoop \/ WindowReturn
  /\ UNCHANGED <<inverseVars, jacobiVars, rootVars, adicVars, exponentVars>>
RootCalls ==
  /\ NoCall /\ NoExponents /\ RootNext /\ (element' = 0 \/ batch' = <<>>)
  /\ UNCHANGED <<inverseVars, jacobiVars, windowVars, adicVars, exponentVars>>
AdicCalls ==
  /\ \/ NoCall /\ Fresh /\ AdicStart
     \/ AdicLoop \/ AdicReturn
  /\ UNCHANGED <<inverseVars, jacobiVars, windowVars, rootVars, exponentVars>>
\* The last call has been made.
NoMoreCalls == exponentCalls = MaxExponentCalls /\ UNCHANGED exponentVars
ExponentCalls ==
  /\ NoCall /\ NoElements /\ (ExponentsNext \/ NoMoreCalls)
  /\ UNCHANGED <<inverseVars, jacobiVars, windowVars, rootVars, adicVars>>

NumbersNext == InverseCalls \/ JacobiCalls \/ WindowCalls \/ RootCalls \/ AdicCalls \/ ExponentCalls

\* One call is made at a time, and goes on to its end.
NumbersFairness ==
  WF_numberVars(\/ InverseLoop /\ UNCHANGED <<jacobiVars, windowVars, rootVars, adicVars, exponentVars>>
                \/ JacobiLoop /\ UNCHANGED <<inverseVars, windowVars, rootVars, adicVars, exponentVars>>
                \/ AdicLoop /\ UNCHANGED <<inverseVars, jacobiVars, windowVars, rootVars, exponentVars>>
                \/ WindowLoop /\ UNCHANGED <<inverseVars, jacobiVars, rootVars, adicVars, exponentVars>>)

NumbersSpec == NumbersInit /\ [][NumbersNext]_numberVars /\ NumbersFairness

----------------------------------------------------------------------------

\* MulEqFive is 5 times the element and in range c for every representation:
\* no hand-made carry of its overflows is lost.
MulFiveExact ==
  NoCall /\ Fresh =>
    \A w \in ReducedRange("c") : MulEqFive(w) \in ReducedRange("c") /\ MulEqFive(w) % M = (5 * w) % M

\* The loops end for every input, whether or not the input is reduced.
LoopsEnd ==
  inversePc = "loop" \/ jacobiPc = "loop" \/ windowPc = "word" \/ adicPc = "scan"
    ~> inversePc = "inverted" \/ jacobiPc = "done" \/ windowPc = "decomposed" \/ adicPc = "returned"

----------------------------------------------------------------------------

\* Every 53rd number and the edges of words and ranges.
Edges == {0, 1, 2, W - 1, W, W^2, W^3 - 1, W^3, M - 1, M, M + 1, 2 * M, 2 * M + 1, Two256 - 1}
MCInputs == Edges \cup {53 * i : i \in 0..Two256 \div 53}
MCWindowInputs == Edges \cup {211 * i : i \in 0..Two256 \div 211}

EdgeExponents ==
  {0, 1, 2, GroupOrder - 1, GroupOrder, GroupOrder + 1, CurveExponent - 1, ExponentWord^2 - 1}
MCInitialExponents ==
  {e1 :> x @@ e2 :> y : x, y \in EdgeExponents}
    \cup {e1 :> x @@ e2 :> GroupOrder + 1 : x \in {17 * k : k \in 0..(CurveExponent - 1) \div 17}}
ZeroExponents == {e1 :> 0 @@ e2 :> 0}
MCBigInts ==
  {-CurveExponent - 1, -GroupOrder, -4, -3, -1, 0, 1, 3, 7, GroupOrder, CurveExponent, 3 * CurveExponent + 2}
AnyReceiver == ExponentNames \X ExponentNames
InPlace == {<<n, n>> : n \in ExponentNames}
=============================================================================
