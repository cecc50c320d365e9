-------------------------- MODULE BatchNormalization --------------------------
(***************************************************************************)
(* BatchNormalizeForZ and BatchNormalizeForY of slices of xtw points: all  *)
(* z's (y's) are replaced by their inverses at once, then a pass over the  *)
(* slice finishes the points, with a second index into failingIndices,     *)
(* where the coordinate was 0.  The two methods of each of the two types   *)
(* differ in the coordinate and in what may happen at infinity.  (Slices   *)
(* of axtw points are returned as they are, with no failing index.)        *)
(***************************************************************************)
EXTENDS CurvePoints

VARIABLES batch,          \* [sub, by: "z" or "y", original: the slice at first]
          slice,          \* coordinates
          failingIndices,
          index,              \* of the loop; indices are from 0
          nextFailingIndex,
          failingIndicesProcessed,
          stage           \* "invert", "loop", "done" or "panic"

loopVars == <<index, nextFailingIndex, failingIndicesProcessed>>
batchVars == <<batch, slice, failingIndices, loopVars, stage>>

BatchInit(sub, by, original) ==
  /\ batch = [sub |-> sub, by |-> by, original |-> original]
  /\ slice = batch.original
  /\ failingIndices = <<>>
  /\ index = 0 /\ nextFailingIndex = 0 /\ failingIndicesProcessed = 0
  /\ stage = "invert"

\* The coordinate named by by, of c; all others multiplied by it, and itself 1.
Coordinate(c, by) == IF by = "z" THEN c.z ELSE c.y
WithInverted(c, by) ==
  IF by = "z" THEN [c EXCEPT !.z = Inv(@)] ELSE [c EXCEPT !.y = Inv(@)]
Finished(c, by) ==
  LET d == Scaled(c, Coordinate(c, by))
  IN  IF by = "z" THEN [d EXCEPT !.z = 1] ELSE [d EXCEPT !.y = 1]

\* MultiInvertEqSkipZeros, on pointers to the coordinates.
ZerosOf(s, by) ==
  LET zeros[n \in 0..Len(s)] ==      \* among the first n coordinates
        IF n = 0 THEN <<>>
        ELSE IF Coordinate(s[n], by) = 0 THEN Append(zeros[n-1], n - 1) ELSE zeros[n-1]
  IN  zeros[Len(s)]
InvertAll ==
  /\ stage = "invert"
  /\ slice' = [j \in DOMAIN slice |->
                 IF Coordinate(slice[j], batch.by) = 0 THEN slice[j] ELSE WithInverted(slice[j], batch.by)]
  /\ failingIndices' = ZerosOf(slice, batch.by)
  /\ nextFailingIndex' = IF failingIndices' # <<>> THEN Head(failingIndices') ELSE Len(slice)
  /\ stage' = "loop"
  /\ UNCHANGED <<batch, index, failingIndicesProcessed>>

\* A point for which index is not in failingIndices.
FinishPoint ==
  /\ stage = "loop" /\ index < Len(slice) /\ index # nextFailingIndex
  /\ slice' = [slice EXCEPT ![index+1] = Finished(@, batch.by)]
  /\ index' = index + 1
  /\ UNCHANGED <<batch, failingIndices, nextFailingIndex, failingIndicesProcessed, stage>>

(* Mutant: the second index lags behind by one. *)
NextFailingMutant(processed) ==
  IF processed = Len(failingIndices) THEN Len(slice) ELSE failingIndices[processed]

NextFailing(processed) ==
  IF processed = Len(failingIndices) THEN Len(slice) ELSE failingIndices[processed + 1]
AtInfinityInBatch(c) ==
  CASE batch.sub -> Panic
    [] ~batch.sub /\ IsE1_xtw(c) -> infinitePoint1_xtw_base
    [] ~batch.sub /\ IsE2_xtw(c) -> infinitePoint2_xtw_base
    [] OTHER -> Panic

\* The handler of NaPs returns, or panics; then the rest of the slice stays
\* as it is, with inverses in the place of the coordinates.
FailingPoint(handlerPanics) ==
  LET c == slice[index+1]
      p == IF IsNaP_xtw(c) THEN IF handlerPanics THEN Panic ELSE xtw(0, 0, 0, 0) ELSE AtInfinityInBatch(c)
  IN  /\ stage = "loop" /\ index < Len(slice) /\ index = nextFailingIndex
      /\ handlerPanics => IsNaP_xtw(c)
      /\ failingIndicesProcessed' = failingIndicesProcessed + 1
      /\ nextFailingIndex' = NextFailing(failingIndicesProcessed')
      /\ IF p = Panic THEN stage' = (IF handlerPanics THEN "handler panicked" ELSE "panic") /\ UNCHANGED <<slice, index>>
                      ELSE slice' = [slice EXCEPT ![index+1] = p] /\ index' = index + 1 /\ UNCHANGED stage
      /\ UNCHANGED <<batch, failingIndices>>

Return ==
  /\ stage = "loop" /\ index = Len(slice)
  /\ stage' = "done"
  /\ UNCHANGED <<batch, slice, failingIndices, loopVars>>

BatchNext == InvertAll \/ FinishPoint \/ (\E panics \in BOOLEAN : FailingPoint(panics)) \/ Return

\* The slices that callers have: points that are valid for the type, and NaPs.
ValidInSlice(sub, c) ==
  /\ c \in [x : Fe, y : Fe, t : Fe, z : Fe]
  /\ IsNaP_xtw(c) \/ Validate_xtw(sub, c)
BatchSpec ==
  /\ \E sub \in BOOLEAN, by \in {"z", "y"}, n \in Nat :
       \E original \in [1..n -> [x : Fe, y : Fe, t : Fe, z : Fe]] :
         /\ \A j \in 1..n : ValidInSlice(sub, original[j])
         /\ BatchInit(sub, by, original)
  /\ [][BatchNext]_batchVars

----------------------------------------------------------------------------
(* Properties.                                                             *)

\* Every point before index is as NormalizeForZ (NormalizeForY) of this point
\* leaves it, and failingIndices has exactly the indices where that would
\* fail; the exception the documentation makes is a NaP whose z is not 0: it
\* stays a NaP with z = 1.  The points from index on hold the inverse.  No
\* case for which the code panics occurs.
NormalizedSoFar ==
  /\ stage # "panic"
  /\ stage = "done" => index = Len(slice)
  /\ stage # "invert" =>
       \A j \in 0..Len(slice)-1 :
         LET c == batch.original[j+1]
             single == IF batch.by = "z" THEN NormalizeForZ_xtw(batch.sub, c)
                       ELSE NormalizeForY_xtw(batch.sub, c)
             hidden == IsNaP_xtw(c) /\ Coordinate(c, batch.by) # 0
             fails == \E k \in DOMAIN failingIndices : failingIndices[k] = j
         IN  /\ fails <=> ~single.ok /\ ~hidden
             /\ j < index => IF hidden THEN IsNaP_xtw(slice[j+1]) /\ slice[j+1].z = 1
                                   ELSE slice[j+1] = single.c
             /\ j >= index => IF fails THEN slice[j+1] = c ELSE slice[j+1] = WithInverted(c, batch.by)
===============================================================================
