---------------------------- MODULE MCCurveAndCache ---------------------------
(***************************************************************************)
(* Two variables, each of the six types, with all kinds of points; points  *)
(* recovered from field elements; slices normalized in a batch; the        *)
(* handler of NaPs under one goroutine; and a cache of such elements under *)
(* several.  The five parts are checked apart from each other, in one run. *)
(***************************************************************************)
EXTENDS CurveRecovery, BatchNormalization, NaPHandler, PrecomputedCache

MCGenerator == <<1, 116>>
MCScales == {7}
MCRandomX == {3}

CONSTANTS v1, v2,    \* the variables
          MaxPoints       \* in a batch

\* The neutral element, A, E1 and E2; P, P+A, P+E1 and -P for a point P.  For the subgroup: neutral, P and -P.
FullElements == {Neutral, A, E1, E2, <<2, 0>>, <<2 + q, 0>>, <<2, 1>>, <<2*q - 2, 0>>}
SubgroupElements == {Neutral, <<2, 0>>, <<2*q - 2, 0>>}

\* Coordinates of an element, scaled.
InForm(kind, s, m) ==
  LET a == IF s \in {E1, E2} THEN <<0, 0>> ELSE AffineCoordinates[s]
      t == mod(a[1] * a[2])
  IN  ByKind(kind,
        Scaled(IF s = E1 THEN infinitePoint1_xtw_base ELSE IF s = E2 THEN infinitePoint2_xtw_base
               ELSE xtw(a[1], a[2], t, 1), m),
        axtw(a[1], a[2], t),
        rerandomizeRepresentation_efgh(FALSE,
          IF s = E1 THEN exceptionalPoint_1_efghbase ELSE IF s = E2 THEN exceptionalPoint_2_efghbase
          ELSE efgh(a[1], 1, 1, a[2]), m, 5, FALSE))

sampleNaP(kind) ==
  ByKind(kind, {xtw(0, 0, t, z) : t \in {0, 1}, z \in {0, 9}},
               {axtw(0, 0, t) : t \in {0, 1}},
               {efgh(0, 0, 0, 0), efgh(1, 0, 1, 0), efgh(0, 0, 0, 1), efgh(0, 3, 0, 1), efgh(0, 1, 1, 0)})

oneNaP(kind) == ByKind(kind, {xtw(0, 0, 1, 9)}, {axtw(0, 0, 0)}, {efgh(0, 3, 0, 1)})

\* Points of the elements, scaled by m, and NaPs.
Points(kind, sub, members, m, NaPs(_)) ==
  {[kind |-> kind, sub |-> sub, c |-> c] :
     c \in {InForm(kind, s, m) : s \in members} \cup NaPs(kind)}
AllPoints(full, forSubgroup, m, NaPs(_)) ==
  UNION {Points(kind, TRUE, forSubgroup \cup {Plus(s, A) : s \in forSubgroup}, m, NaPs) : kind \in {"xtw", "axtw", "efgh"}}
    \cup Points("xtw", FALSE, full, m, NaPs) \cup Points("efgh", FALSE, full, m, NaPs)
    \cup Points("axtw", FALSE, full \ {E1, E2}, m, NaPs)

\* Sequences of two calls start from a few pairs.
PointsInit ==
  /\ \/ /\ \E o1 \in AllPoints(FullElements, SubgroupElements, 6, sampleNaP),
              o2 \in AllPoints({Neutral, E1, <<2, 0>>, <<2, 1>>}, {Neutral, <<2, 0>>}, 1, oneNaP) :
              points = (v1 :> o1 @@ v2 :> o2)
        /\ calls = 1
     \/ /\ \E o1, o2 \in {[kind |-> kind, sub |-> sub, c |-> InForm(kind, <<2, 1>>, 1)] :
                            kind \in {"xtw", "axtw", "efgh"}, sub \in {FALSE}} :
              points = (v1 :> o1 @@ v2 :> o2)
        /\ calls = 0
  /\ call = [op |-> "none", r |-> v1, x |-> v1, y |-> v1, answer |-> "done", got |-> NoCoordinates]

\* Batches: NaPs with and without z = 0, points at infinity, z = 1 and others.
MCBatchPoints(sub) ==
  {xtw(0, 0, 1, 0), xtw(0, 0, 0, 9), InForm("xtw", <<2, 0>>, 1), InForm("xtw", <<4 + q, 0>>, 6)}
    \cup IF sub THEN {} ELSE {InForm("xtw", E1, 6), InForm("xtw", E2, 1)}

MCXs == {0, 1, 2, AffineCoordinates[<<2, 0>>][1], AffineCoordinates[<<4 + q, 0>>][1], AffineCoordinates[<<3, 0>>][1],
         AffineCoordinates[<<2, 1>>][1], AffineCoordinates[<<5, 1>>][1]}
MCSigns == -2..2

\* part: what runs, the calls, a recovery, a batch, the handler or the cache.
VARIABLE part

curveVars == <<pointVars, recoveryVars, batchVars, handlerVars>>

NoRequest == RequestOf("XTimesSignY_subgroup", 0, 0, FALSE, 1)
PointsIdle ==
  /\ points = (v1 :> [kind |-> "axtw", sub |-> FALSE, c |-> axtw(0, 1, 0)]
               @@ v2 :> [kind |-> "axtw", sub |-> FALSE, c |-> axtw(0, 1, 0)])
  /\ calls = MaxCalls
  /\ call = [op |-> "none", r |-> v1, x |-> v1, y |-> v1, answer |-> "done", got |-> NoCoordinates]
RecoveryIdle == request = NoRequest /\ recovered = Unanswered
BatchIdle == BatchInit(FALSE, "z", <<>>)
CurveIdle == PointsIdle /\ RecoveryIdle /\ BatchIdle
CacheIdle == canCreate

MCInit ==
  /\ HandlerInit /\ Init
  /\ \/ part = "calls" /\ PointsInit /\ RecoveryIdle /\ BatchIdle /\ CacheIdle
     \/ part = "recovery" /\ PointsIdle /\ RecoveryInit /\ BatchIdle /\ CacheIdle
     \/ part = "batch" /\ PointsIdle /\ RecoveryIdle /\ CacheIdle
        /\ \E sub \in BOOLEAN, by \in {"z", "y"}, n \in 0..MaxPoints :
             \E original \in [1..n -> MCBatchPoints(sub)] : BatchInit(sub, by, original)
     \/ part = "handler" /\ CurveIdle /\ CacheIdle
     \/ part = "cache" /\ CurveIdle
MCNext ==
  /\ \/ part = "calls" /\ PointsNext /\ UNCHANGED <<recoveryVars, batchVars, handlerVars, vars>>
     \/ part = "recovery" /\ RecoveryNext /\ UNCHANGED <<pointVars, batchVars, handlerVars, vars>>
     \/ part = "batch" /\ BatchNext /\ UNCHANGED <<pointVars, recoveryVars, handlerVars, vars>>
     \/ part = "handler" /\ HandlerNext /\ UNCHANGED <<pointVars, recoveryVars, batchVars, vars>>
     \/ part = "cache" /\ Next /\ UNCHANGED curveVars
  /\ UNCHANGED part
MCSpec == MCInit /\ [][MCNext]_<<curveVars, vars, part>> /\ Fairness
=============================================================================
