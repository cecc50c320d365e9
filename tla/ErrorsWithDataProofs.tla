------------------------ MODULE ErrorsWithDataProofs ------------------------
(***************************************************************************)
(* Safety of package errorsWithData: of the look-up of struct types, for   *)
(* any number of goroutines and any set of types, and of errors and their  *)
(* parameters, for any names, values and struct types and any number of    *)
(* errors and maps.                                                        *)
(***************************************************************************)
EXTENDS StructLookup, ErrorParameters, SequenceTheorems, WellFoundedInduction, TLAPS

-----------------------------------------------------------------------------
(* StructLookup.  What LookupFields computes plays no role: it is not       *)
(* expanded.                                                                *)

(* Every call with the mutex keeps it in agreement with the labels.         *)
LEMMA LookupMutexStep ==
  ASSUME LTypeOK, MutexInv, [LNext]_lookupVars
  PROVE  MutexInv'
<1> DEFINE m == structTypeToFieldsMapMutex
<1>1. CASE UNCHANGED lookupVars
  BY <1>1 DEF lookupVars, MutexInv
<1>2. ASSUME NEW p \in Procs, NEW t \in Types, Call(p, t)
      PROVE  MutexInv'
  <2>1. /\ m \in RWMutexes /\ ~Uses(m, p) /\ m' = RLock(m, p)
        /\ pc \in [Procs -> {"idle", "lookUp", "compute", "lock", "store"}]
        /\ pc[p] = "idle" /\ pc' = [pc EXCEPT ![p] = "lookUp"]
    BY <1>2 DEF Call, GoTo, LTypeOK, MutexInv
  <2>2. m'.writer = m.writer /\ \A q : Uses(m', q) <=> Uses(m, q) \/ q = p
    BY <2>1, RLockFacts
  <2>3. QED
    BY <2>1, <2>2 DEF MutexInv
<1>3. ASSUME NEW p \in Procs, LookUp(p)
      PROVE  MutexInv'
  <2>1. /\ m \in RWMutexes /\ RLocked(m, p) /\ m' = RUnlock(m, p)
        /\ pc \in [Procs -> {"idle", "lookUp", "compute", "lock", "store"}]
        /\ pc[p] = "lookUp"
        /\ \E l \in {"idle", "compute"} : pc' = [pc EXCEPT ![p] = l]
    BY <1>3 DEF LookUp, GoTo, LTypeOK
  <2>2. m'.writer = m.writer /\ \A q : Uses(m', q) <=> Uses(m, q) /\ q # p
    BY <2>1, RUnlockFacts
  <2>3. QED
    BY <2>1, <2>2 DEF MutexInv
<1>4. ASSUME NEW p \in Procs, Compute(p)
      PROVE  MutexInv'
  BY <1>4 DEF Compute, GoTo, LTypeOK, MutexInv
<1>5. ASSUME NEW p \in Procs, LockMap(p)
      PROVE  MutexInv'
  <2>1. /\ m \in RWMutexes /\ m.writer = NoProc /\ m' = Lock(m, p)
        /\ pc \in [Procs -> {"idle", "lookUp", "compute", "lock", "store"}]
        /\ pc[p] = "lock" /\ pc' = [pc EXCEPT ![p] = "store"]
    BY <1>5 DEF LockMap, CanLock, GoTo, LTypeOK
  <2>2. m'.writer = p /\ \A q : Uses(m', q) <=> Uses(m, q)
    BY <2>1, LockFacts
  <2>3. QED
    BY <2>1, <2>2, NoProcAssumption DEF MutexInv
<1>6. ASSUME NEW p \in Procs, StoreSlice(p)
      PROVE  MutexInv'
  <2>1. /\ m \in RWMutexes /\ Locked(m, p) /\ m' = Unlock(m)
        /\ pc \in [Procs -> {"idle", "lookUp", "compute", "lock", "store"}]
        /\ pc[p] = "store" /\ pc' = [pc EXCEPT ![p] = "idle"]
    BY <1>6 DEF StoreSlice, GoTo, LTypeOK
  <2>2. /\ m.writer = p /\ m'.writer = NoProc
        /\ \A q : Uses(m', q) <=> Uses(m, q)
    BY <2>1, UnlockFacts DEF Locked
  <2>3. QED
    BY <2>1, <2>2, NoProcAssumption DEF MutexInv
<1>7. QED
  BY <1>1, <1>2, <1>3, <1>4, <1>5, <1>6 DEF LNext

(* Every step keeps the types.                                              *)
LEMMA LookupTypeStep ==
  ASSUME LTypeOK, MutexInv, [LNext]_lookupVars
  PROVE  LTypeOK'
<1> DEFINE m == structTypeToFieldsMapMutex
<1>1. m' \in RWMutexes
  <2>1. m \in RWMutexes
    BY DEF LTypeOK
  <2>2. ASSUME NEW p \in Procs, NEW t \in Types, Call(p, t)
        PROVE  m' \in RWMutexes
    BY <2>1, <2>2, RLockFacts DEF Call, MutexInv
  <2>3. ASSUME NEW p \in Procs, LookUp(p) PROVE m' \in RWMutexes
    BY <2>1, <2>3, RUnlockFacts DEF LookUp
  <2>4. ASSUME NEW p \in Procs, LockMap(p) PROVE m' \in RWMutexes
    BY <2>1, <2>4, LockFacts DEF LockMap
  <2>5. ASSUME NEW p \in Procs, StoreSlice(p) PROVE m' \in RWMutexes
    BY <2>1, <2>5, UnlockFacts DEF StoreSlice
  <2>6. QED
    BY <2>1, <2>2, <2>3, <2>4, <2>5 DEF LNext, lookupVars, Compute
<1>2. ASSUME NEW p \in Procs, NEW t \in Types, Call(p, t)
      PROVE  LTypeOK'
  BY <1>1, <1>2 DEF LTypeOK, Call, GoTo
<1>3. ASSUME NEW p \in Procs, LookUp(p)
      PROVE  LTypeOK'
  <2>1. /\ structType[p] \in Types
        /\ structTypeToFieldsMap[structType[p]] \in Slices \cup {NoSlice}
    BY DEF LTypeOK
  <2>2. QED
    BY <1>1, <1>3, <2>1 DEF LTypeOK, LookUp, GoTo, Return
<1>4. ASSUME NEW p \in Procs, Compute(p) \/ LockMap(p)
      PROVE  LTypeOK'
  BY <1>1, <1>4 DEF LTypeOK, Compute, LockMap, GoTo
<1>5. ASSUME NEW p \in Procs, StoreSlice(p)
      PROVE  LTypeOK'
  <2>1. /\ structType[p] \in Types
        /\ structTypeToFieldsMap[structType[p]] \in Slices \cup {NoSlice}
        /\ <<structType[p], p>> \in Slices
    BY DEF LTypeOK, Slices
  <2>2. QED
    BY <1>1, <1>5, <2>1 DEF LTypeOK, StoreSlice, GoTo, Return
<1>6. QED
  BY <1>2, <1>3, <1>4, <1>5 DEF LNext, lookupVars, LTypeOK

(* A slice enters the table once and is then the only one returned.         *)
LEMMA TableStep ==
  ASSUME LTypeOK, TableInv, PendingInv, [LNext]_lookupVars
  PROVE  TableInv' /\ PendingInv'
<1>1. CASE UNCHANGED lookupVars
  BY <1>1 DEF lookupVars, TableInv, PendingInv
<1>2. ASSUME NEW p \in Procs, NEW t \in Types, Call(p, t)
      PROVE  TableInv' /\ PendingInv'
  BY <1>2 DEF Call, GoTo, LTypeOK, TableInv, PendingInv
<1>3. ASSUME NEW p \in Procs, LookUp(p) \/ Compute(p) \/ LockMap(p)
      PROVE  TableInv' /\ PendingInv'
  BY <1>3 DEF LookUp, Compute, LockMap, GoTo, Return, LTypeOK, TableInv, PendingInv
<1>4. ASSUME NEW p \in Procs, StoreSlice(p)
      PROVE  TableInv' /\ PendingInv'
  <2>1. structType[p] \in Types /\ <<structType[p], p>> # NoSlice
    BY LookupAssumption DEF LTypeOK, Slices
  <2>2. QED
    BY <1>4, <2>1 DEF StoreSlice, GoTo, Return, LTypeOK, TableInv, PendingInv
<1>5. QED
  BY <1>1, <1>2, <1>3, <1>4 DEF LNext

(* LInv holds in every reachable state.                                     *)
THEOREM LookupInvariance == LSpec => []LInv
<1>1. LInit => LInv
  BY FreeFacts, NoProcAssumption DEF LInit, LInv, LTypeOK, MutexInv, TableInv, PendingInv
<1>2. LInv /\ [LNext]_lookupVars => LInv'
  BY LookupMutexStep, LookupTypeStep, TableStep DEF LInv
<1>3. QED
  BY <1>1, <1>2, PTL DEF LSpec

(* All goroutines get the same slice for a type, or all an error.           *)
THEOREM SameSlice == LSpec => []IdenticalResults
<1>1. LInv => IdenticalResults
  BY DEF LInv, LTypeOK, TableInv, IdenticalResults
<1>2. QED
  BY <1>1, LookupInvariance, PTL

(* A goroutine outside the call has nothing to do with the mutex.           *)
THEOREM NoMutexLeftBehind == LSpec => []NoMutexLeft
<1>1. LInv => NoMutexLeft
  BY DEF LInv, LTypeOK, MutexInv, NoMutexLeft, Uninvolved
<1>2. QED
  BY <1>1, LookupInvariance, PTL

(* An entry of the table never changes.                                     *)
THEOREM FinalEntries == LSpec => EntriesAreFinal
<1>1. LInv /\ [LNext]_lookupVars =>
        [\A t \in Types : structTypeToFieldsMap[t] # NoSlice =>
           structTypeToFieldsMap'[t] = structTypeToFieldsMap[t]]_lookupVars
  BY DEF LInv, LTypeOK, LNext, lookupVars, Call, LookUp, Compute, LockMap, StoreSlice, Return
<1>2. QED
  BY <1>1, LookupInvariance, PTL DEF LSpec, EntriesAreFinal

-----------------------------------------------------------------------------
(* ErrorParameters: errors are immutable, and those that promise data have  *)
(* it.                                                                      *)

ErrorRecords == [wrapped : Nat, type : StructTypes \cup {"plain", "any"}, map : Nat]

(* What a step may not do to errors and their maps. *)
MapsStay ==
  \A e \in Errors :
    /\ errs'[e] = errs[e]
    /\ errs[e].map # 0 => heap'[errs[e].map] = heap[errs[e].map]

(* A function on an initial segment of the numbers is a sequence.           *)
LEMMA FunctionIsSeq ==
  ASSUME NEW n \in Nat, NEW S, NEW f \in [1 .. n -> S]
  PROVE  f \in Seq(S)
BY SMT

(* A sequence that is appended to remains a sequence of its elements.       *)
LEMMA AppendFacts ==
  ASSUME NEW s, s \in Seq(ToSet(s)), NEW x
  PROVE  /\ Append(s, x) \in Seq(ToSet(Append(s, x)))
         /\ DOMAIN Append(s, x) = 1 .. Len(s) + 1
         /\ Len(s) \in Nat /\ Len(Append(s, x)) = Len(s) + 1
         /\ \A i \in 1 .. Len(s) : Append(s, x)[i] = s[i]
<1> DEFINE t == Append(s, x)
           S == ToSet(s) \cup {x}
<1>1. s \in Seq(S) /\ x \in S
  BY SeqMonotonic
<1>2. /\ t \in Seq(S) /\ Len(t) = Len(s) + 1
      /\ \A i \in 1 .. Len(s) : t[i] = s[i]
  BY <1>1, AppendProperties
<1>3. Len(s) \in Nat /\ Len(t) \in Nat /\ DOMAIN t = 1 .. Len(t) /\ t \in [1 .. Len(t) -> S]
  BY <1>1, <1>2, LenProperties
<1>4. t \in [1 .. Len(t) -> ToSet(t)]
  BY <1>3 DEF ToSet
<1>5. t \in Seq(ToSet(t))
  BY <1>3, <1>4, FunctionIsSeq
<1>6. QED
  BY <1>2, <1>3, <1>5

(* The last element, and the length, of any sequence that is appended to.   *)
LEMMA AppendLast ==
  ASSUME NEW S, NEW s \in Seq(S), NEW x
  PROVE  /\ Len(s) \in Nat /\ DOMAIN s = 1 .. Len(s)
         /\ DOMAIN Append(s, x) = 1 .. Len(s) + 1
         /\ Append(s, x)[Len(s) + 1] = x
<1>1. s \in Seq(S \cup {x})
  BY SeqMonotonic
<1>2. QED
  BY <1>1, AppendProperties, LenProperties

(* A new error has a map of its own, and leaves all others alone.           *)
LEMMA CreateStep ==
  ASSUME IInv,
         NEW base \in Errors \cup {NilError}, NEW type \in StructTypes \cup {"any"},
         NEW m, NEW way, NEW data, Create(base, type, m, way, data)
  PROVE  IInv' /\ MapsStay
<1> DEFINE new == [wrapped |-> base, type |-> type, map |-> Len(heap) + 1]
<1>1. /\ heap' = Append(heap, m) /\ errs' = Append(errs, new) /\ held' = held
      /\ Len(heap) \in Nat
  BY AppendFacts DEF Create, IInv, TypeOK
<1>2. /\ heap' \in Seq(ToSet(heap')) /\ DOMAIN heap' = 1 .. Len(heap) + 1
      /\ Len(heap') = Len(heap) + 1
      /\ \A a \in 1 .. Len(heap) : heap'[a] = heap[a]
  BY <1>1, AppendFacts DEF IInv, TypeOK
<1>3. /\ errs \in Seq(ErrorRecords) /\ Errors = 1 .. Len(errs) /\ Len(errs) \in Nat
      /\ new \in ErrorRecords
  BY <1>1, LenProperties DEF IInv, TypeOK, ErrorRecords, Errors, NilError
<1>4. /\ errs' \in Seq(ErrorRecords) /\ Len(errs') = Len(errs) + 1
      /\ Errors' = 1 .. Len(errs) + 1
      /\ errs'[Len(errs) + 1] = new
      /\ \A e \in Errors : errs'[e] = errs[e]
  BY <1>1, <1>3, AppendProperties, LenProperties DEF Errors
<1>5. \A e \in Errors : errs[e].map \in 0 .. Len(heap)
  <2>1. \A e \in Errors : errs[e] \in ErrorRecords
    BY <1>3, ElementOfSeq
  <2>2. QED
    BY <1>1, <2>1 DEF IInv, TypeOK, ErrorRecords
<1>6. held \subseteq 1 .. Len(heap)
  BY <1>1, LenProperties DEF IInv, TypeOK
<1>7. \A e \in Errors' : errs'[e].map <= Len(heap')
  BY <1>1, <1>2, <1>3, <1>4, <1>5
<1>8. Ownership'
  BY <1>1, <1>3, <1>4, <1>5, <1>6 DEF IInv, TypeOK, Ownership
<1>9. IInv'
  <2>1. held' \subseteq DOMAIN heap' /\ Len(heap') > 0
    BY <1>1, <1>2, <1>6
  <2>2. QED
    BY <1>2, <1>4, <1>7, <1>8, <2>1 DEF IInv, TypeOK, ErrorRecords
<1>10. MapsStay
  <2>1. \A e \in Errors : errs[e].map # 0 => errs[e].map \in 1 .. Len(heap)
    BY <1>1, <1>5
  <2>2. QED
    BY <1>2, <1>4, <2>1 DEF MapsStay
<1>11. QED
  BY <1>9, <1>10

(* An error of another package has no map.                                  *)
LEMMA PlainErrorStep ==
  ASSUME IInv, NEW base \in Errors \cup {NilError}, PlainError(base)
  PROVE  IInv' /\ MapsStay
<1> DEFINE new == [wrapped |-> base, type |-> "plain", map |-> 0]
<1>1. heap' = heap /\ errs' = Append(errs, new) /\ held' = held /\ Len(heap) \in Nat
  BY LenProperties DEF PlainError, IInv, TypeOK
<1>2. /\ errs \in Seq(ErrorRecords) /\ Errors = 1 .. Len(errs) /\ Len(errs) \in Nat
      /\ new \in ErrorRecords
  BY LenProperties DEF IInv, TypeOK, ErrorRecords, Errors, NilError
<1>3. /\ errs' \in Seq(ErrorRecords) /\ Errors' = 1 .. Len(errs) + 1
      /\ errs'[Len(errs) + 1] = new
      /\ \A e \in Errors : errs'[e] = errs[e]
  BY <1>1, <1>2, AppendProperties, LenProperties DEF Errors
<1>4. 0 \notin held /\ \A e \in Errors : errs[e].map \in Nat
  <2>1. \A e \in Errors : errs[e] \in ErrorRecords
    BY <1>2, ElementOfSeq
  <2>2. DOMAIN heap = 1 .. Len(heap)
    BY LenProperties DEF IInv, TypeOK
  <2>3. QED
    BY <1>1, <2>1, <2>2 DEF IInv, TypeOK, ErrorRecords
<1>5. \A e \in Errors' : (e \in Errors /\ errs'[e] = errs[e]) \/ errs'[e].map = 0
  BY <1>2, <1>3
<1>6. Ownership'
  <2>1. Ownership
    BY DEF IInv
  <2>2. QED
    BY <1>1, <1>4, <1>5, <2>1 DEF Ownership
<1>7. QED
  BY <1>1, <1>2, <1>3, <1>4, <1>6 DEF IInv, TypeOK, MapsStay, ErrorRecords

(* Users get maps of their own, and change no others.                       *)
LEMMA UserStep ==
  ASSUME IInv,
         \/ \E e \in Errors \cup {NilError} : GetData_map(e)
         \/ \E a \in held, m \in UserMaps : ChangeMap(a, m)
  PROVE  IInv' /\ MapsStay
<1>1. /\ errs' = errs /\ Errors' = Errors /\ Errors = 1 .. Len(errs)
      /\ Len(heap) \in Nat /\ DOMAIN heap = 1 .. Len(heap)
  BY LenProperties DEF IInv, TypeOK, GetData_map, ChangeMap, Errors
<1>2. \A e \in Errors : errs[e].map \in 0 .. Len(heap)
  <2>1. \A e \in Errors : errs[e] \in ErrorRecords
    BY <1>1, ElementOfSeq DEF IInv, TypeOK, ErrorRecords
  <2>2. QED
    BY <1>1, <2>1 DEF IInv, TypeOK, ErrorRecords
<1>3. ASSUME NEW e \in Errors \cup {NilError}, GetData_map(e)
      PROVE  IInv' /\ MapsStay
  <2>1. heap' = Append(heap, DataOf(e)) /\ held' = held \cup {Len(heap) + 1}
    BY <1>3 DEF GetData_map
  <2>2. /\ heap' \in Seq(ToSet(heap')) /\ DOMAIN heap' = 1 .. Len(heap) + 1
        /\ Len(heap') = Len(heap) + 1
        /\ \A a \in 1 .. Len(heap) : heap'[a] = heap[a]
    BY <2>1, AppendFacts DEF IInv, TypeOK
  <2>3. Ownership'
    BY <1>1, <1>2, <2>1 DEF IInv, TypeOK, Ownership
  <2>4. held' \subseteq DOMAIN heap' /\ held \subseteq DOMAIN heap /\ 0 \notin held
    BY <1>1, <2>1, <2>2 DEF IInv, TypeOK
  <2>5. TypeOK'
    BY <1>1, <1>2, <2>2, <2>4 DEF IInv, TypeOK
  <2>6. MapsStay
    BY <1>1, <1>2, <2>2, <2>4 DEF MapsStay
  <2>7. QED
    BY <2>3, <2>5, <2>6 DEF IInv
<1>4. ASSUME NEW a \in held, NEW m \in UserMaps, ChangeMap(a, m)
      PROVE  IInv' /\ MapsStay
  <2>1. heap' = [heap EXCEPT ![a] = m] /\ held' = held /\ a \in 1 .. Len(heap)
    BY <1>1, <1>4 DEF ChangeMap, IInv, TypeOK
  <2>2. heap \in Seq(ToSet(heap) \cup {m})
    BY SeqMonotonic DEF IInv, TypeOK
  <2>3. /\ heap' \in Seq(ToSet(heap) \cup {m}) /\ Len(heap') = Len(heap)
        /\ \A b \in 1 .. Len(heap) : b # a => heap'[b] = heap[b]
    BY <2>1, <2>2, ExceptSeq
  <2>4. DOMAIN heap' = 1 .. Len(heap) /\ heap' \in [1 .. Len(heap) -> ToSet(heap')]
    BY <2>3, LenProperties DEF ToSet
  <2>5. heap' \in Seq(ToSet(heap'))
    BY <1>1, <2>4, FunctionIsSeq
  <2>6. Ownership'
    BY <1>1, <2>1 DEF IInv, TypeOK, Ownership
  <2>7. QED
    BY <1>1, <1>2, <2>1, <2>3, <2>4, <2>5, <2>6 DEF IInv, TypeOK, Ownership, MapsStay
<1>5. QED
  BY <1>3, <1>4

(* All other steps create one error.                                        *)
LEMMA Step ==
  ASSUME IInv, [Next]_vars
  PROVE  IInv' /\ (MapsStay \/ UNCHANGED vars)
<1> DEFINE Bases == Errors \cup {NilError}
           Creates == \E base \in Bases, type \in StructTypes \cup {"any"} : \E m, way, data :
                        Create(base, type, m, way, data)
<1>1. CASE UNCHANGED vars
  BY <1>1 DEF vars, IInv, TypeOK, Ownership, Errors
<1>2. ASSUME NEW base \in Bases, NEW name \in Names,
             \/ DeleteParameterFromError_any(base, name)
             \/ \E t \in StructTypes, missing \in MissingDataTreatments :
                  DeleteParameterFromError(base, t, name, missing)
      PROVE  Creates
  BY <1>2 DEF DeleteParameterFromError_any, DeleteParameterFromError, CreateUnnoted
<1>3. ASSUME NEW base \in Bases, NEW mode \in Modes, NEW t \in StructTypes,
             NEW data \in Data[t], NewErrorWithData_struct(base, t, data, mode)
      PROVE  Creates
  BY <1>3 DEF NewErrorWithData_struct
<1>4. ASSUME NEW base \in Bases, NEW mode \in Modes, NEW a \in held,
             \/ NewErrorWithData_any_map(base, heap[a], mode)
             \/ \E t \in StructTypes, missing \in MissingDataTreatments :
                  NewErrorWithData_map(base, t, heap[a], mode, missing)
      PROVE  Creates
  BY <1>4 DEF NewErrorWithData_any_map, NewErrorWithData_map, CreateUnnoted
<1>5. ASSUME NEW base \in Bases, NEW t \in StructTypes, NEW missing \in MissingDataTreatments,
             AsErrorWithData(base, t, missing)
      PROVE  Creates
  BY <1>5 DEF AsErrorWithData, CreateUnnoted
<1>6. ASSUME Creates PROVE IInv' /\ MapsStay
  BY <1>6, CreateStep
<1>7. QED
  BY <1>1, <1>2, <1>3, <1>4, <1>5, <1>6, PlainErrorStep, UserStep DEF Next

-----------------------------------------------------------------------------
(* Once it is known that a struct can be made, and zeros are filled in, it    *)
(* can be made without them.                                                  *)
LEMMA FilledFits ==
  ASSUME NEW t \in StructTypes, NEW m, NEW missing, CanMakeStruct(m, t, missing)
  PROVE  ~MakeStructPanics(Filled(m, t), t)
<1> DEFINE F == FieldTypes[t]
           zeros == [name \in DOMAIN F |-> ZeroValue(F[name])]
<1>1. SUFFICES ASSUME NEW name \in DOMAIN F
               PROVE  /\ name \in DOMAIN Filled(m, t)
                      /\ Fits(Filled(m, t)[name], F[name])
  BY DEF MakeStructPanics
<1>2. DOMAIN Filled(m, t) = DOMAIN F \cup DOMAIN m
  BY DEF Filled, Overwrite
<1>3. Filled(m, t)[name] = IF name \in DOMAIN m THEN m[name] ELSE ZeroValue(F[name])
  BY DEF Filled, Overwrite
<1>4. Fits(ZeroValue(F[name]), F[name])
  BY StructAssumption DEF Fits, ZeroValue, Nil, IsNilable
<1>5. QED
  BY <1>2, <1>3, <1>4 DEF CanMakeStruct

(* A struct whose fields are not kept back by older parameters can be made.   *)
LEMMA StructFits ==
  ASSUME NEW t \in StructTypes, NEW data \in Data[t], NEW m, NEW mode \in Modes,
         mode # "PreferPreviousData"
  PROVE  ~MakeStructPanics(Merged(m, data, mode), t)
<1>1. Merged(m, data, mode) = Overwrite(m, data)
  BY DEF Merged
<1>2. /\ DOMAIN data \subseteq DOMAIN Overwrite(m, data)
      /\ \A name \in DOMAIN data : Overwrite(m, data)[name] = data[name]
  BY DEF Overwrite
<1>3. QED
  BY <1>1, <1>2, StructAssumption DEF MakeStructPanics

(* A new error has its data if the map that it is made with has.              *)
LEMMA CreateData ==
  ASSUME IInv, DataInv,
         NEW base \in Errors \cup {NilError}, NEW type \in StructTypes \cup {"any"},
         NEW m, NEW way, NEW data, Create(base, type, m, way, data),
         preferred \subseteq preferred',
         \/ type = "any"
         \/ Len(errs) + 1 \in preferred'
         \/ ~MakeStructPanics(m, type)
  PROVE  DataInv'
<1>1. IInv' /\ MapsStay
  BY CreateStep
<1>2. /\ Len(heap) \in Nat /\ Errors = 1 .. Len(errs) /\ Len(errs) \in Nat
      /\ Errors' = 1 .. Len(errs) + 1
      /\ errs'[Len(errs) + 1] = [wrapped |-> base, type |-> type, map |-> Len(heap) + 1]
      /\ heap'[Len(heap) + 1] = m
  BY AppendLast DEF Create, IInv, TypeOK, Errors
<1>3. ASSUME NEW e \in Errors, Typed(e)'
      PROVE  Typed(e) /\ errs'[e].map # 0 /\ heap'[errs'[e].map] = heap[errs[e].map]
  BY <1>1, <1>3 DEF MapsStay, Typed, DataInv
<1>4. ASSUME NEW e \in Errors', Typed(e)'
      PROVE  errs'[e].map # 0
  BY <1>2, <1>3, <1>4
<1>5. ASSUME NEW e \in Errors', e \notin preferred', Typed(e)'
      PROVE  ~MakeStructPanics(heap'[errs'[e].map], errs'[e].type)
  <2>1. CASE e \in Errors
    BY <1>1, <1>3, <1>5, <2>1 DEF MapsStay, DataInv, OthersHaveTheirData
  <2>2. CASE e = Len(errs) + 1
    BY <1>2, <1>5, <2>2 DEF Typed
  <2>3. QED
    BY <1>2, <2>1, <2>2
<1>6. QED
  BY <1>4, <1>5 DEF DataInv, OthersHaveTheirData, MakeStructPanics

(* Every other step leaves the maps of errors alone.                          *)
LEMMA DataStep ==
  ASSUME IInv, DataInv, [Next]_vars
  PROVE  DataInv'
<1> DEFINE Bases == Errors \cup {NilError}
<1>1. CASE UNCHANGED vars
  BY <1>1 DEF vars, history, DataInv, OthersHaveTheirData, Typed, MakeStructPanics, Errors
<1>2. ASSUME NEW base \in Bases, NEW name \in Names,
             DeleteParameterFromError_any(base, name)
      PROVE  DataInv'
  BY <1>2, CreateData DEF DeleteParameterFromError_any, CreateUnnoted
<1>3. ASSUME NEW base \in Bases, NEW name \in Names,
             NEW t \in StructTypes, NEW missing \in MissingDataTreatments,
             DeleteParameterFromError(base, t, name, missing)
      PROVE  DataInv'
  BY <1>3, CreateData, FilledFits DEF DeleteParameterFromError, CreateUnnoted
<1>4. ASSUME NEW base \in Bases, NEW mode \in Modes, NEW t \in StructTypes,
             NEW data \in Data[t], NewErrorWithData_struct(base, t, data, mode)
      PROVE  DataInv'
  <2>1. CASE mode = "PreferPreviousData"
    BY <1>4, <2>1, CreateData DEF NewErrorWithData_struct
  <2>2. CASE mode # "PreferPreviousData"
    BY <1>4, <2>2, CreateData, StructFits DEF NewErrorWithData_struct
  <2>3. QED
    BY <2>1, <2>2
<1>5. ASSUME NEW base \in Bases, NEW mode \in Modes, NEW a \in held,
             NewErrorWithData_any_map(base, heap[a], mode)
      PROVE  DataInv'
  BY <1>5, CreateData DEF NewErrorWithData_any_map, CreateUnnoted
<1>6. ASSUME NEW base \in Bases, NEW mode \in Modes, NEW a \in held,
             NEW t \in StructTypes, NEW missing \in MissingDataTreatments,
             NewErrorWithData_map(base, t, heap[a], mode, missing)
      PROVE  DataInv'
  BY <1>6, CreateData, FilledFits DEF NewErrorWithData_map, CreateUnnoted
<1>7. ASSUME NEW base \in Bases, NEW t \in StructTypes, NEW missing \in MissingDataTreatments,
             AsErrorWithData(base, t, missing)
      PROVE  DataInv'
  <2>1. CanMakeStruct(NoData, t, "MissingDataAsZero")
    BY DEF CanMakeStruct, NoData
  <2>2. NilError \in Bases
    OBVIOUS
  <2>3. QED
    BY <1>7, <2>1, <2>2, CreateData, FilledFits DEF AsErrorWithData, CreateUnnoted
<1>8. ASSUME NEW base \in Bases, PlainError(base)
      PROVE  DataInv'
  <2>1. MapsStay /\ heap' = heap /\ preferred' = preferred
    BY <1>8, PlainErrorStep DEF PlainError
  <2>2. /\ Errors' = Errors \cup {Len(errs) + 1}
        /\ errs'[Len(errs) + 1].type = "plain"
    BY <1>8, AppendLast DEF PlainError, IInv, TypeOK, Errors
  <2>3. QED
    BY <2>1, <2>2 DEF MapsStay, Typed, DataInv, OthersHaveTheirData, MakeStructPanics
<1>9. ASSUME \/ \E e \in Bases : GetData_map(e)
             \/ \E a \in held, m \in UserMaps : ChangeMap(a, m)
      PROVE  DataInv'
  <2>1. MapsStay /\ errs' = errs /\ preferred' = preferred
    BY <1>9, UserStep DEF GetData_map, ChangeMap, history
  <2>2. QED
    BY <2>1 DEF MapsStay, Typed, DataInv, OthersHaveTheirData, MakeStructPanics, Errors
<1>10. QED
  BY <1>1, <1>2, <1>3, <1>4, <1>5, <1>6, <1>7, <1>8, <1>9 DEF Next

-----------------------------------------------------------------------------
(* StructsRoundTrip is inductive together with the fact that errors that were *)
(* made from a struct have maps of their own.                                 *)
RoundTripInv ==
  /\ given \in Seq(ToSet(given)) /\ DOMAIN given = Errors
  /\ \A e \in Errors : given[e] # NoData => errs[e].map # 0
  /\ StructsRoundTrip

(* What replaces older parameters is what the struct is made from.  In Go a   *)
(* field has a nil without a type only if that is the zero of its type.       *)
LEMMA StructIsMadeAgain ==
  ASSUME NEW t \in StructTypes, NEW data \in Data[t], NEW m
  PROVE  MakeStruct(Merged(m, data, "ReplacePreviousData"), t) = data
<1> DEFINE F == FieldTypes[t]
           made == MakeStruct(Merged(m, data, "ReplacePreviousData"), t)
<1>1. data \in [DOMAIN F -> Values]
  BY StructAssumption
<1>2. made = [name \in DOMAIN F |-> IF data[name] = Nil THEN ZeroValue(F[name]) ELSE data[name]]
  BY <1>1 DEF MakeStruct, Merged, Overwrite
<1>3. \A name \in DOMAIN F : data[name] = Nil => ZeroValue(F[name]) = Nil
  BY <1>1, StructAssumption DEF ZeroValue
<1>4. QED
  BY <1>1, <1>2, <1>3

(* A new error keeps the promise if the struct it notes is made from its map. *)
LEMMA CreateRoundTrip ==
  ASSUME IInv, RoundTripInv,
         NEW base \in Errors \cup {NilError}, NEW type \in StructTypes \cup {"any"},
         NEW m, NEW way, NEW data, Create(base, type, m, way, data),
         data # NoData => MakeStruct(m, type) = data
  PROVE  RoundTripInv'
<1> DEFINE n == Len(errs) + 1
<1>1. IInv' /\ MapsStay
  BY CreateStep
<1>2. /\ Len(heap) \in Nat /\ Errors = 1 .. Len(errs) /\ Len(errs) \in Nat
      /\ Errors' = 1 .. n
      /\ errs'[n] = [wrapped |-> base, type |-> type, map |-> Len(heap) + 1]
      /\ heap'[Len(heap) + 1] = m
  BY AppendLast DEF Create, IInv, TypeOK, Errors
<1>3. /\ given \in Seq(ToSet(given)) /\ DOMAIN given = 1 .. Len(errs)
      /\ DOMAIN given = 1 .. Len(given) /\ Len(given) \in Nat
      /\ given' = Append(given, data)
  BY <1>2, LenProperties DEF RoundTripInv, Create
<1>4. Len(given) = Len(errs)
  BY <1>2, <1>3
<1>5. /\ given' \in Seq(ToSet(given')) /\ DOMAIN given' = 1 .. n
      /\ given'[n] = data
      /\ \A e \in 1 .. Len(errs) : given'[e] = given[e]
  BY <1>3, <1>4, AppendFacts, AppendLast
<1>6. ASSUME NEW e \in Errors', given'[e] # NoData
      PROVE  /\ errs'[e].map # 0
             /\ MakeStruct(heap'[errs'[e].map], errs'[e].type) = given'[e]
  <2>1. CASE e \in Errors
    BY <1>1, <1>2, <1>5, <1>6, <2>1 DEF MapsStay, RoundTripInv, StructsRoundTrip
  <2>2. CASE e = n
    BY <1>2, <1>5, <1>6, <2>2
  <2>3. QED
    BY <1>2, <2>1, <2>2
<1>7. QED
  BY <1>2, <1>5, <1>6 DEF RoundTripInv, StructsRoundTrip, MakeStruct

LEMMA RoundTripStep ==
  ASSUME IInv, RoundTripInv, [Next]_vars
  PROVE  RoundTripInv'
<1> DEFINE Bases == Errors \cup {NilError}
           Unnoted == \E base \in Bases, type \in StructTypes \cup {"any"} : \E m, way :
                        CreateUnnoted(base, type, m, way)
<1>1. CASE UNCHANGED vars
  BY <1>1 DEF vars, RoundTripInv, StructsRoundTrip, MakeStruct, Errors
<1>2. ASSUME NEW base \in Bases, NEW mode \in Modes, NEW t \in StructTypes,
             NEW data \in Data[t], NewErrorWithData_struct(base, t, data, mode)
      PROVE  RoundTripInv'
  <2>1. CASE mode = "ReplacePreviousData"
    BY <1>2, <2>1, CreateRoundTrip, StructIsMadeAgain DEF NewErrorWithData_struct
  <2>2. CASE mode # "ReplacePreviousData"
    BY <1>2, <2>2, CreateRoundTrip DEF NewErrorWithData_struct
  <2>3. QED
    BY <2>1, <2>2
<1>3. ASSUME NEW base \in Bases, NEW name \in Names,
             \/ DeleteParameterFromError_any(base, name)
             \/ \E t \in StructTypes, missing \in MissingDataTreatments :
                  DeleteParameterFromError(base, t, name, missing)
      PROVE  Unnoted
  BY <1>3 DEF DeleteParameterFromError_any, DeleteParameterFromError
<1>4. ASSUME NEW base \in Bases, NEW mode \in Modes, NEW a \in held,
             \/ NewErrorWithData_any_map(base, heap[a], mode)
             \/ \E t \in StructTypes, missing \in MissingDataTreatments :
                  NewErrorWithData_map(base, t, heap[a], mode, missing)
      PROVE  Unnoted
  BY <1>4 DEF NewErrorWithData_any_map, NewErrorWithData_map
<1>5. ASSUME NEW base \in Bases, NEW t \in StructTypes, NEW missing \in MissingDataTreatments,
             AsErrorWithData(base, t, missing)
      PROVE  Unnoted
  BY <1>5 DEF AsErrorWithData
<1>6. ASSUME Unnoted PROVE RoundTripInv'
  BY <1>6, CreateRoundTrip DEF CreateUnnoted
<1>7. ASSUME NEW base \in Bases, PlainError(base)
      PROVE  RoundTripInv'
  <2>1. MapsStay
    BY <1>7, PlainErrorStep
  <2>2. /\ Errors = 1 .. Len(errs) /\ Len(errs) \in Nat
        /\ Errors' = 1 .. Len(errs) + 1
    BY <1>7, AppendLast DEF PlainError, IInv, TypeOK, Errors
  <2>3. /\ given \in Seq(ToSet(given)) /\ DOMAIN given = 1 .. Len(errs)
        /\ DOMAIN given = 1 .. Len(given) /\ Len(given) \in Nat
        /\ given' = Append(given, NoData)
    BY <1>7, <2>2, LenProperties DEF RoundTripInv, PlainError
  <2>4. Len(given) = Len(errs)
    BY <2>2, <2>3
  <2>5. /\ given' \in Seq(ToSet(given')) /\ DOMAIN given' = 1 .. Len(errs) + 1
        /\ given'[Len(errs) + 1] = NoData
        /\ \A e \in 1 .. Len(errs) : given'[e] = given[e]
    BY <2>3, <2>4, AppendFacts, AppendLast
  <2>6. ASSUME NEW e \in Errors', given'[e] # NoData
        PROVE  /\ errs'[e].map # 0
               /\ MakeStruct(heap'[errs'[e].map], errs'[e].type) = given'[e]
    <3>1. e \in Errors /\ given'[e] = given[e]
      BY <2>2, <2>5, <2>6
    <3>2. QED
      BY <2>1, <2>6, <3>1 DEF MapsStay, RoundTripInv, StructsRoundTrip
  <2>7. QED
    BY <2>2, <2>5, <2>6 DEF RoundTripInv, StructsRoundTrip, MakeStruct
<1>8. ASSUME \/ \E e \in Bases : GetData_map(e)
             \/ \E a \in held, m \in UserMaps : ChangeMap(a, m)
      PROVE  RoundTripInv'
  <2>1. MapsStay /\ errs' = errs /\ given' = given
    BY <1>8, UserStep DEF GetData_map, ChangeMap, history
  <2>2. QED
    BY <2>1 DEF MapsStay, RoundTripInv, StructsRoundTrip, MakeStruct, Errors
<1>9. QED
  BY <1>1, <1>2, <1>3, <1>4, <1>5, <1>6, <1>7, <1>8 DEF Next

-----------------------------------------------------------------------------
(* Chains of errors.  An error wraps an older one, and maps have parameters.  *)
ChainInv ==
  /\ \A e \in Errors : errs[e].wrapped \in 0 .. e - 1
  /\ \A a \in DOMAIN heap : heap[a] \in Maps

(* Any set of numbers has a least element: induction along a chain is by the  *)
(* least counterexample.                                                      *)
LEMMA LeastElement ==
  ASSUME NEW T, T \subseteq Nat, T # {}
  PROVE  \E n \in T : \A k \in T : n <= k
<1> DEFINE R == OpToRel(<, Nat)
<1>1. IsWellFoundedOn(R, Nat)
  BY NatLessThanWellFounded
<1> HIDE DEF R
<1>2. PICK n \in T : \A k \in T : <<k, n>> \notin R
  BY <1>1, WFMin
<1>3. \A k \in T : ~(k < n)
  BY <1>2 DEF R, OpToRel
<1>4. QED
  BY <1>2, <1>3

(* For errors that wrap older ones, the carriers of maps are defined: there   *)
(* are functions as Carrier's for all initial segments of the errors.         *)
LEMMA CarriersExist ==
  ASSUME NEW n \in Nat, NEW s, \A e \in 1 .. n : s[e].wrapped \in 0 .. e - 1
  PROVE  \E f : f = [c \in 0 .. n |-> IF c = 0 \/ s[c].map # 0 THEN c ELSE f[s[c].wrapped]]
<1> DEFINE Is(f, k) == f = [c \in 0 .. k |-> IF c = 0 \/ s[c].map # 0 THEN c ELSE f[s[c].wrapped]]
           Defined(k) == \E f : Is(f, k)
           Bad == {k \in 0 .. n : ~Defined(k)}
<1>1. SUFFICES ASSUME Bad # {} PROVE FALSE
  OBVIOUS
<1>2. PICK k \in Bad : \A j \in Bad : k <= j
  <2>1. Bad \subseteq Nat
    OBVIOUS
  <2> HIDE DEF Bad
  <2>2. QED
    BY <1>1, <2>1, LeastElement
<1>3. CASE k = 0
  <2>1. Is([c \in 0 .. 0 |-> 0], 0)
    OBVIOUS
  <2>2. QED
    BY <1>2, <1>3, <2>1
<1>4. CASE k # 0
  <2>1. k \in Nat \ {0} /\ k <= n /\ k - 1 \notin Bad
    <3>1. k \in 0 .. n
      BY <1>2
    <3> HIDE DEF Bad
    <3>2. QED
      BY <1>2, <1>4, <3>1
  <2>2. PICK f : Is(f, k - 1)
    <3>1. k - 1 \in 0 .. n
      BY <2>1
    <3> HIDE DEF Defined
    <3>2. Defined(k - 1)
      BY <2>1, <3>1
    <3>3. QED
      BY <3>2 DEF Defined
  <2> DEFINE g == [c \in 0 .. k |-> IF c < k THEN f[c]
                                   ELSE IF s[c].map # 0 THEN c ELSE f[s[c].wrapped]]
  <2>3. ASSUME NEW c \in 0 .. k
        PROVE  g[c] = IF c = 0 \/ s[c].map # 0 THEN c ELSE g[s[c].wrapped]
    <3>1. c # 0 => s[c].wrapped \in 0 .. c - 1
      BY <2>1
    <3>2. CASE c < k
      <4>1. c \in 0 .. k - 1 /\ g[c] = f[c]
        BY <2>1, <3>2
      <4>2. f[c] = IF c = 0 \/ s[c].map # 0 THEN c ELSE f[s[c].wrapped]
        BY <2>2, <4>1
      <4>3. c # 0 => s[c].wrapped \in 0 .. k /\ s[c].wrapped < k
        BY <2>1, <3>1
      <4>4. c # 0 => g[s[c].wrapped] = f[s[c].wrapped]
        BY <4>3
      <4> HIDE DEF g
      <4>5. QED
        BY <4>1, <4>2, <4>4
    <3>3. CASE c = k
      <4>1. c # 0 /\ s[c].wrapped \in 0 .. k /\ s[c].wrapped < k
        BY <2>1, <3>1, <3>3
      <4>2. g[c] = IF s[c].map # 0 THEN c ELSE f[s[c].wrapped]
        BY <2>1, <3>3
      <4>3. g[s[c].wrapped] = f[s[c].wrapped]
        BY <4>1
      <4> HIDE DEF g
      <4>4. QED
        BY <4>1, <4>2, <4>3
    <3>4. QED
      BY <2>1, <3>2, <3>3
  <2>4. DOMAIN g = 0 .. k /\ g = [c \in 0 .. k |-> g[c]]
    OBVIOUS
  <2>5. Is(g, k)
    <3> HIDE DEF g
    <3> QED
      BY <2>3, <2>4
  <2>6. QED
    BY <1>2, <2>5
<1>5. QED
  BY <1>3, <1>4

(* What errors inherit: an error with a map has that one, and one without     *)
(* has that of the error it wraps.                                            *)
DataOfRules ==
  /\ DataOf(NilError) = NoData
  /\ \A e \in Errors :
       DataOf(e) = IF errs[e].map # 0 THEN heap[errs[e].map] ELSE DataOf(errs[e].wrapped)

LEMMA DataOfFollowsRules ==
  ASSUME Len(errs) \in Nat, Errors = 1 .. Len(errs), ChainInv
  PROVE  DataOfRules
<1> DEFINE Is(f) == f = [c \in Errors \cup {NilError} |->
                            IF c = NilError \/ errs[c].map # 0 THEN c ELSE f[errs[c].wrapped]]
           carrier == CHOOSE f : Is(f)
<1>1. Errors \cup {NilError} = 0 .. Len(errs)
  BY DEF NilError
<1>2. \E f : Is(f)
  <2>1. \E f : f = [c \in 0 .. Len(errs) |-> IF c = 0 \/ errs[c].map # 0 THEN c ELSE f[errs[c].wrapped]]
    BY CarriersExist DEF ChainInv
  <2>2. QED
    BY <1>1, <2>1 DEF NilError
<1>3. Is(carrier)
  BY <1>2
<1>4. \A e : Carrier(e) = carrier[e]
  BY DEF Carrier
<1> HIDE DEF carrier
<1>5. \A c \in Errors \cup {NilError} :
         carrier[c] = IF c = NilError \/ errs[c].map # 0 THEN c ELSE carrier[errs[c].wrapped]
  BY <1>3
<1>6. DataOf(NilError) = NoData
  BY <1>4, <1>5 DEF DataOf
<1>7. ASSUME NEW e \in Errors
      PROVE  DataOf(e) = IF errs[e].map # 0 THEN heap[errs[e].map] ELSE DataOf(errs[e].wrapped)
  <2>1. e # NilError
    BY DEF NilError
  <2>2. CASE errs[e].map # 0
    BY <1>4, <1>5, <2>1, <2>2 DEF DataOf
  <2>3. CASE errs[e].map = 0
    <3>1. Carrier(e) = Carrier(errs[e].wrapped)
      BY <1>4, <1>5, <2>1, <2>3
    <3>2. QED
      BY <2>3, <3>1 DEF DataOf
  <2>4. QED
    BY <2>2, <2>3
<1>8. QED
  BY <1>6, <1>7 DEF DataOfRules

(* Every error has a map of parameters, its own or an inherited one.          *)
LEMMA DataOfIsMap ==
  ASSUME IInv, ChainInv, DataOfRules, Len(errs) \in Nat, Errors = 1 .. Len(errs)
  PROVE  \A e \in Errors \cup {NilError} : DataOf(e) \in Maps
<1> DEFINE Bad == {e \in Errors : DataOf(e) \notin Maps}
<1>1. NoData \in Maps
  <2>1. NoData \in [{} -> Values] /\ {} \in SUBSET Names
    BY DEF NoData
  <2>2. QED
    BY <2>1 DEF Maps
<1>2. ASSUME Bad # {} PROVE FALSE
  <2>1. PICK e \in Bad : \A d \in Bad : e <= d
    <3>1. Bad \subseteq Nat
      OBVIOUS
    <3> HIDE DEF Bad
    <3>2. QED
      BY <1>2, <3>1, LeastElement
  <2>2. e \in Errors /\ DataOf(e) \notin Maps /\ errs[e].wrapped \in 0 .. e - 1
    BY <2>1 DEF ChainInv
  <2>3. errs[e].map # 0 => errs[e].map \in DOMAIN heap
    <3>1. errs[e] \in ErrorRecords
      BY <2>2, ElementOfSeq DEF IInv, TypeOK, ErrorRecords, Errors
    <3>2. QED
      BY <2>2, <3>1, LenProperties DEF IInv, TypeOK, ErrorRecords
  <2>4. errs[e].map = 0
    BY <2>2, <2>3 DEF DataOfRules, ChainInv
  <2>5. DataOf(e) = DataOf(errs[e].wrapped)
    BY <2>2, <2>4 DEF DataOfRules
  <2>6. errs[e].wrapped \in Errors
    BY <1>1, <2>2, <2>5 DEF DataOfRules, NilError
  <2>7. errs[e].wrapped \in Bad
    BY <2>2, <2>5, <2>6
  <2> HIDE DEF Bad
  <2>8. QED
    BY <2>1, <2>2, <2>6, <2>7
<1>3. QED
  BY <1>1, <1>2 DEF DataOfRules

(* What errors inherit does not change when their maps do not.                *)
LEMMA DataOfStays ==
  ASSUME ChainInv, DataOfRules, DataOfRules', MapsStay,
         Len(errs) \in Nat, Errors = 1 .. Len(errs), Errors \subseteq Errors'
  PROVE  \A e \in Errors \cup {NilError} : DataOf(e)' = DataOf(e)
<1> DEFINE Bad == {e \in Errors : DataOf(e)' # DataOf(e)}
<1>1. ASSUME Bad # {} PROVE FALSE
  <2>1. PICK e \in Bad : \A d \in Bad : e <= d
    <3>1. Bad \subseteq Nat
      OBVIOUS
    <3> HIDE DEF Bad
    <3>2. QED
      BY <1>1, <3>1, LeastElement
  <2>2. e \in Errors /\ DataOf(e)' # DataOf(e) /\ errs[e].wrapped \in 0 .. e - 1
    BY <2>1 DEF ChainInv
  <2>3. DataOf(e) = IF errs[e].map # 0 THEN heap[errs[e].map] ELSE DataOf(errs[e].wrapped)
    BY <2>2 DEF DataOfRules
  <2>4. PICK d \in 0 .. e - 1 : d = errs[e].wrapped
    BY <2>2
  <2>5. DataOf(e)' = IF errs'[e].map # 0 THEN heap'[errs'[e].map] ELSE DataOf(errs[e].wrapped)'
    BY <2>2 DEF DataOfRules
  <2>6. errs'[e] = errs[e] /\ errs[e].map = 0
    BY <2>2, <2>3, <2>5 DEF MapsStay
  <2>7. DataOf(e) = DataOf(d) /\ DataOf(e)' = DataOf(d)'
    BY <2>3, <2>4, <2>5, <2>6
  <2>8. d # NilError
    BY <2>2, <2>7 DEF DataOfRules
  <2>9. d \in Errors
    BY <2>2, <2>8 DEF NilError
  <2>10. d \in Bad
    BY <2>2, <2>7, <2>9
  <2> HIDE DEF Bad
  <2>11. QED
    BY <2>1, <2>2, <2>10
<1>2. QED
  BY <1>1 DEF DataOfRules

-----------------------------------------------------------------------------
(* The errors as ImmutableErrors sees them, and their maps.                   *)
WrappedErrors == [e \in Errors |-> errs[e].wrapped]
Params == [e \in Errors |-> DataOf(e)]

(* A function that has one more value is a sequence to which it was appended. *)
LEMMA ExtendedIsAppended ==
  ASSUME NEW n \in Nat, NEW f, NEW g, NEW x,
         f = [i \in 1 .. n |-> f[i]], g = [i \in 1 .. n + 1 |-> g[i]],
         \A i \in 1 .. n : g[i] = f[i], g[n + 1] = x
  PROVE  g = Append(f, x) /\ Len(f) = n
<1> DEFINE S == {f[i] : i \in 1 .. n} \cup {x}
<1>1. f \in Seq(S) /\ Len(f) = n
  <2>1. f \in [1 .. n -> S]
    OBVIOUS
  <2> HIDE DEF S
  <2>2. f \in Seq(S)
    BY <2>1, FunctionIsSeq
  <2>3. QED
    BY <2>1, <2>2, LenProperties
<1>2. /\ Append(f, x) \in Seq(S) /\ Len(Append(f, x)) = n + 1
      /\ \A i \in 1 .. n : Append(f, x)[i] = f[i]
      /\ Append(f, x)[n + 1] = x
  BY <1>1, AppendProperties
<1>3. DOMAIN Append(f, x) = 1 .. n + 1 /\ Append(f, x) = [i \in 1 .. n + 1 |-> Append(f, x)[i]]
  BY <1>2, LenProperties
<1>4. \A i \in 1 .. n + 1 : i \in 1 .. n \/ i = n + 1
  OBVIOUS
<1>5. \A i \in 1 .. n + 1 : g[i] = Append(f, x)[i]
  BY <1>2, <1>4
<1>6. QED
  BY <1>1, <1>3, <1>5

(* Merging, filling and deleting make maps of parameters again.               *)
LEMMA OverwrittenMaps ==
  ASSUME NEW m \in Maps, NEW n \in Maps
  PROVE  /\ Overwrite(m, n) \in Maps
         /\ Abstract!Keeps(Overwrite(m, n), n)
         /\ DOMAIN m \subseteq DOMAIN Overwrite(m, n)
         /\ ~Collide(m, n) => Abstract!Keeps(Overwrite(m, n), m)
<1>1. /\ DOMAIN m \subseteq Names /\ \A x \in DOMAIN m : m[x] \in Values
      /\ DOMAIN n \subseteq Names /\ \A x \in DOMAIN n : n[x] \in Values
  BY DEF Maps
<1>2. Overwrite(m, n) \in [DOMAIN m \cup DOMAIN n -> Values]
  BY <1>1 DEF Overwrite
<1>3. Overwrite(m, n) \in Maps
  BY <1>1, <1>2 DEF Maps
<1>4. QED
  BY <1>3 DEF Overwrite, Collide, Abstract!Keeps

LEMMA WithoutIsMap ==
  ASSUME NEW m \in Maps, NEW name
  PROVE  Without(m, name) \in Maps /\ Without(m, name) = Abstract!Without(m, name)
<1>1. DOMAIN m \subseteq Names /\ \A x \in DOMAIN m : m[x] \in Values
  BY DEF Maps
<1>2. Without(m, name) \in [DOMAIN m \ {name} -> Values]
  BY <1>1 DEF Without
<1>3. QED
  BY <1>1, <1>2 DEF Maps, Without, Abstract!Without

LEMMA FilledIsMap ==
  ASSUME NEW t \in StructTypes, NEW m \in Maps
  PROVE  Filled(m, t) \in Maps /\ Abstract!Keeps(Filled(m, t), m)
<1> DEFINE F == FieldTypes[t]
           zeros == [name \in DOMAIN F |-> ZeroValue(F[name])]
<1>1. zeros \in [DOMAIN F -> Values] /\ DOMAIN F \in SUBSET Names
  BY StructAssumption
<1>2. zeros \in Maps
  BY <1>1 DEF Maps
<1>3. Filled(m, t) = Overwrite(zeros, m)
  BY DEF Filled
<1> HIDE DEF zeros
<1>4. QED
  BY <1>2, <1>3, OverwrittenMaps

LEMMA StructIsMap ==
  ASSUME NEW t \in StructTypes, NEW data \in Data[t]
  PROVE  data \in Maps
<1>1. data \in [DOMAIN FieldTypes[t] -> Values] /\ DOMAIN FieldTypes[t] \in SUBSET Names
  BY StructAssumption
<1>2. QED
  BY <1>1 DEF Maps

(* What is merged into the map of an error keeps or replaces it.              *)
LEMMA MergedMaps ==
  ASSUME NEW m \in Maps, NEW n \in Maps, NEW mode \in Modes, ~MergePanics(m, n, mode)
  PROVE  /\ Merged(m, n, mode) \in Maps
         /\ DOMAIN m \subseteq DOMAIN Merged(m, n, mode)
         /\ mode # "ReplacePreviousData" => Abstract!Keeps(Merged(m, n, mode), m)
<1>1. CASE mode = "PreferPreviousData"
  <2>1. Merged(m, n, mode) = Overwrite(n, m)
    BY <1>1 DEF Merged
  <2>2. QED
    BY <2>1, OverwrittenMaps DEF Abstract!Keeps
<1>2. CASE mode = "ReplacePreviousData"
  <2>1. Merged(m, n, mode) = Overwrite(m, n)
    BY <1>2 DEF Merged
  <2>2. QED
    BY <1>2, <2>1, OverwrittenMaps
<1>3. CASE mode = "AssertDataIsNotReplaced"
  <2>1. Merged(m, n, mode) = Overwrite(m, n) /\ ~Collide(m, n)
    BY <1>3 DEF Merged, MergePanics
  <2>2. QED
    BY <2>1, OverwrittenMaps
<1>4. QED
  BY <1>1, <1>2, <1>3 DEF Modes

(* The facts that all steps need.                                             *)
ChainFacts ==
  /\ Len(errs) \in Nat /\ Errors = 1 .. Len(errs)
  /\ Errors \cup {NilError} = 0 .. Len(Params)
  /\ DataOfRules
  /\ \A e \in Errors \cup {NilError} :
       DataOf(e) \in Maps /\ DataOf(e) = Abstract!Inherited(e)

LEMMA ChainsHaveFacts ==
  ASSUME IInv, ChainInv
  PROVE  ChainFacts
<1>1. Len(errs) \in Nat /\ Errors = 1 .. Len(errs)
  BY LenProperties DEF IInv, TypeOK, Errors
<1>2. DataOfRules
  BY <1>1, DataOfFollowsRules
<1>3. \A e \in Errors \cup {NilError} : DataOf(e) \in Maps
  BY <1>1, <1>2, DataOfIsMap
<1>4. Len(Params) = Len(errs)
  BY <1>1, <1>3, FunctionIsSeq, LenProperties DEF Params
<1>5. \A e \in Errors \cup {NilError} : DataOf(e) = Abstract!Inherited(e)
  BY <1>2 DEF DataOfRules, NilError, NoData, Abstract!Inherited
<1>6. QED
  BY <1>1, <1>2, <1>3, <1>4, <1>5 DEF ChainFacts, NilError

(* They hold in the next state when the invariants do.                        *)
LEMMA ChainsAlwaysHaveFacts == IInv /\ ChainInv => ChainFacts
BY ChainsHaveFacts

(* An error that is made with a map of its own is made in the abstract, too.  *)
LEMMA CreateMakes ==
  ASSUME IInv, ChainInv, NEW base \in Errors \cup {NilError},
         NEW type \in StructTypes \cup {"any"}, NEW m \in Maps, NEW way, NEW data,
         Create(base, type, m, way, data)
  PROVE  ChainInv' /\ Abstract!Make(base, m, way)
<1> DEFINE n == Len(errs)
<1>1. ChainFacts /\ IInv' /\ MapsStay
  BY ChainsHaveFacts, CreateStep
<1>2. /\ n \in Nat /\ Errors = 1 .. n /\ Errors' = 1 .. n + 1
      /\ errs'[n + 1] = [wrapped |-> base, type |-> type, map |-> Len(heap) + 1]
      /\ how' = Append(how, way)
  BY <1>1, AppendLast DEF Create, IInv, TypeOK, Errors, ChainFacts
<1>3. /\ Len(heap) \in Nat /\ heap'[Len(heap) + 1] = m
      /\ DOMAIN heap = 1 .. Len(heap) /\ DOMAIN heap' = 1 .. Len(heap) + 1
      /\ \A a \in 1 .. Len(heap) : heap'[a] = heap[a]
  BY AppendFacts, AppendLast DEF Create, IInv, TypeOK
<1>4. ChainInv'
  <2>1. base \in 0 .. n
    BY <1>2 DEF NilError
  <2>2. ASSUME NEW e \in Errors' PROVE errs'[e].wrapped \in 0 .. e - 1
    <3>1. CASE e \in Errors
      BY <1>1, <3>1 DEF MapsStay, ChainInv
    <3>2. CASE e = n + 1
      BY <1>2, <2>1, <3>2
    <3>3. QED
      BY <1>2, <3>1, <3>2
  <2>3. ASSUME NEW a \in DOMAIN heap' PROVE heap'[a] \in Maps
    BY <1>3 DEF ChainInv
  <2>4. QED
    BY <2>2, <2>3 DEF ChainInv
<1>5. ChainFacts'
  BY <1>1, <1>4, ChainsAlwaysHaveFacts, PTL
<1>6. \A e \in Errors \cup {NilError} : DataOf(e)' = DataOf(e)
  <2>1. Errors \subseteq Errors'
    BY <1>2
  <2>2. QED
    BY <1>1, <1>5, <2>1, DataOfStays DEF ChainFacts
<1>7. WrappedErrors' = Append(WrappedErrors, base)
  <2>1. /\ WrappedErrors = [i \in 1 .. n |-> WrappedErrors[i]] /\ WrappedErrors' = [i \in 1 .. n + 1 |-> WrappedErrors'[i]]
        /\ \A i \in 1 .. n : WrappedErrors'[i] = WrappedErrors[i]
        /\ WrappedErrors'[n + 1] = base
    BY <1>1, <1>2 DEF WrappedErrors, MapsStay
  <2>2. QED
    BY <1>2, <2>1, ExtendedIsAppended
<1>8. Params' = Append(Params, m)
  <2>1. \A e \in Errors' :
          Params'[e] = IF errs'[e].map # 0 THEN heap'[errs'[e].map] ELSE DataOf(errs[e].wrapped)'
    BY <1>5 DEF ChainFacts, DataOfRules, Params
  <2>2. Params'[n + 1] = m
    BY <1>2, <1>3, <2>1
  <2>3. /\ Params = [i \in 1 .. n |-> Params[i]] /\ Params' = [i \in 1 .. n + 1 |-> Params'[i]]
        /\ \A i \in 1 .. n : Params'[i] = Params[i]
    BY <1>2, <1>6 DEF Params
  <2>4. QED
    BY <1>2, <2>2, <2>3, ExtendedIsAppended
<1>9. QED
  BY <1>2, <1>4, <1>7, <1>8 DEF WrappedErrors, Params, Abstract!Make, Abstract!Made, Abstract!HasMap

(* An error of another package inherits what the error that it wraps has.     *)
LEMMA PlainErrorWraps ==
  ASSUME IInv, ChainInv, NEW base \in Errors \cup {NilError}, PlainError(base)
  PROVE  ChainInv' /\ Abstract!Make(base, DataOf(base), "wrap")
<1> DEFINE n == Len(errs)
<1>1. ChainFacts /\ IInv' /\ MapsStay
  BY ChainsHaveFacts, PlainErrorStep
<1>2. /\ n \in Nat /\ Errors = 1 .. n /\ Errors' = 1 .. n + 1 /\ base \in 0 .. n
      /\ errs'[n + 1] = [wrapped |-> base, type |-> "plain", map |-> 0]
      /\ how' = Append(how, "wrap") /\ heap' = heap
  BY <1>1, AppendLast DEF PlainError, IInv, TypeOK, Errors, ChainFacts, NilError
<1>3. ChainInv'
  <2>1. ASSUME NEW e \in Errors' PROVE errs'[e].wrapped \in 0 .. e - 1
    <3>1. CASE e \in Errors
      BY <1>1, <3>1 DEF MapsStay, ChainInv
    <3>2. CASE e = n + 1
      BY <1>2, <3>2
    <3>3. QED
      BY <1>2, <3>1, <3>2
  <2>2. QED
    BY <1>2, <2>1 DEF ChainInv
<1>4. ChainFacts'
  BY <1>1, <1>3, ChainsAlwaysHaveFacts, PTL
<1>5. \A e \in Errors \cup {NilError} : DataOf(e)' = DataOf(e)
  <2>1. Errors \subseteq Errors'
    BY <1>2
  <2>2. QED
    BY <1>1, <1>4, <2>1, DataOfStays DEF ChainFacts
<1>6. WrappedErrors' = Append(WrappedErrors, base)
  <2>1. /\ WrappedErrors = [i \in 1 .. n |-> WrappedErrors[i]] /\ WrappedErrors' = [i \in 1 .. n + 1 |-> WrappedErrors'[i]]
        /\ \A i \in 1 .. n : WrappedErrors'[i] = WrappedErrors[i]
        /\ WrappedErrors'[n + 1] = base
    BY <1>1, <1>2 DEF WrappedErrors, MapsStay
  <2>2. QED
    BY <1>2, <2>1, ExtendedIsAppended
<1>7. Params' = Append(Params, DataOf(base))
  <2>1. PICK k \in Errors' : k = n + 1
    BY <1>2
  <2>2. Params'[k] = DataOf(k)'
    BY <2>1 DEF Params
  <2>3. DataOf(k)' = DataOf(base)'
    BY <1>2, <1>4, <2>1 DEF ChainFacts, DataOfRules
  <2>4. Params'[n + 1] = DataOf(base)
    BY <1>5, <2>1, <2>2, <2>3
  <2>5. /\ Params = [i \in 1 .. n |-> Params[i]] /\ Params' = [i \in 1 .. n + 1 |-> Params'[i]]
        /\ \A i \in 1 .. n : Params'[i] = Params[i]
    BY <1>2, <1>5 DEF Params
  <2>6. QED
    BY <1>2, <2>4, <2>5, ExtendedIsAppended
<1>8. QED
  BY <1>2, <1>3, <1>6, <1>7 DEF WrappedErrors, Params, Abstract!Make, Abstract!Made, Abstract!HasMap

(* Each call is one of the abstract ways of making an error.                  *)
AStep == ChainInv' /\ [Abstract!ANext]_<<WrappedErrors, Params, how>>

LEMMA WaysOfMaking ==
  ASSUME ChainFacts, ChainInv', NEW base \in Errors \cup {NilError}
  PROVE  /\ Abstract!Make(base, DataOf(base), "wrap") => AStep
         /\ \A m \in Maps :
              /\ Abstract!Keeps(m, DataOf(base)) /\ Abstract!Make(base, m, "keep") => AStep
              /\ /\ DOMAIN DataOf(base) \subseteq DOMAIN m
                 /\ Abstract!Make(base, m, "replace")
                 => AStep
         /\ \A name \in Names :
              /\ Abstract!Make(base, Without(DataOf(base), name), "delete") => AStep
              /\ \A m \in Maps :
                   /\ Abstract!Keeps(m, Without(DataOf(base), name))
                   /\ Abstract!Make(base, m, "deleteAndFill")
                   => AStep
<1>1. base \in 0 .. Len(Params) /\ DataOf(base) = Abstract!Inherited(base) /\ DataOf(base) \in Maps
  BY DEF ChainFacts
<1>2. \A name : Without(DataOf(base), name) = Abstract!Without(Abstract!Inherited(base), name)
  BY <1>1, WithoutIsMap
<1>3. Maps = Abstract!Maps
  BY DEF Maps, Abstract!Maps
<1>4. ASSUME \/ Abstract!Wrap(base) \/ Abstract!AddKeeping(base) \/ Abstract!AddReplacing(base)
             \/ Abstract!Delete(base) \/ Abstract!DeleteAndFill(base)
      PROVE  AStep
  BY <1>1, <1>4 DEF AStep, Abstract!ANext, Params
<1>5. Abstract!Make(base, DataOf(base), "wrap") => AStep
  BY <1>1, <1>4 DEF Abstract!Wrap
<1>6. ASSUME NEW m \in Maps
      PROVE  /\ Abstract!Keeps(m, DataOf(base)) /\ Abstract!Make(base, m, "keep") => AStep
             /\ /\ DOMAIN DataOf(base) \subseteq DOMAIN m
                /\ Abstract!Make(base, m, "replace")
                => AStep
  BY <1>1, <1>3, <1>4, <1>6 DEF Abstract!AddKeeping, Abstract!AddReplacing, Abstract!Make
<1>7. ASSUME NEW name \in Names
      PROVE  Abstract!Make(base, Without(DataOf(base), name), "delete") => AStep
  BY <1>2, <1>4, <1>7 DEF Abstract!Delete
<1>8. ASSUME NEW name \in Names, NEW m \in Maps
      PROVE  /\ Abstract!Keeps(m, Without(DataOf(base), name))
             /\ Abstract!Make(base, m, "deleteAndFill")
             => AStep
  BY <1>2, <1>3, <1>4, <1>8 DEF Abstract!DeleteAndFill, Abstract!Make
<1>9. QED
  BY <1>5, <1>6, <1>7, <1>8

LEMMA RefinementStep ==
  ASSUME IInv, ChainInv, [Next]_vars
  PROVE  AStep
<1> DEFINE All == Errors \cup {NilError}
<1>1. ChainFacts /\ \A base \in All : DataOf(base) \in Maps
  BY ChainsHaveFacts DEF ChainFacts
<1>2. CASE UNCHANGED vars
  <2>1. ChainInv' /\ UNCHANGED <<WrappedErrors, Params, how>>
    BY <1>2 DEF vars, history, ChainInv, WrappedErrors, Params, DataOf, Carrier, Errors
  <2>2. QED
    BY <2>1 DEF AStep
<1>3. ASSUME NEW base \in All, PlainError(base)
      PROVE  AStep
  BY <1>1, <1>3, PlainErrorWraps, WaysOfMaking
<1>4. ASSUME NEW base \in All, NEW mode \in Modes, NEW t \in StructTypes,
             NEW data \in Data[t], NewErrorWithData_struct(base, t, data, mode)
      PROVE  AStep
  <2> DEFINE m == Merged(DataOf(base), data, mode)
  <2>1. ~MergePanics(DataOf(base), data, mode)
    BY <1>4 DEF NewErrorWithData_struct
  <2>2. /\ m \in Maps /\ DOMAIN DataOf(base) \subseteq DOMAIN m
        /\ mode # "ReplacePreviousData" => Abstract!Keeps(m, DataOf(base))
    BY <1>1, <2>1, StructIsMap, MergedMaps
  <2>3. ChainInv' /\ Abstract!Make(base, m, Way(mode))
    <3>1. \E noted : Create(base, t, m, Way(mode), noted)
      BY <1>4 DEF NewErrorWithData_struct
    <3> HIDE DEF m
    <3>2. QED
      BY <2>2, <3>1, CreateMakes
  <2> HIDE DEF m
  <2>4. QED
    BY <1>1, <2>2, <2>3, WaysOfMaking DEF Way
<1>5. ASSUME NEW base \in All, NEW mode \in Modes, NEW a \in held,
             NewErrorWithData_any_map(base, heap[a], mode)
      PROVE  AStep
  <2> DEFINE m == Merged(DataOf(base), heap[a], mode)
  <2>1. ~MergePanics(DataOf(base), heap[a], mode) /\ heap[a] \in Maps
    BY <1>5 DEF NewErrorWithData_any_map, ChainInv, IInv, TypeOK
  <2>2. /\ m \in Maps /\ DOMAIN DataOf(base) \subseteq DOMAIN m
        /\ mode # "ReplacePreviousData" => Abstract!Keeps(m, DataOf(base))
    BY <1>1, <2>1, MergedMaps
  <2>3. ChainInv' /\ Abstract!Make(base, m, Way(mode))
    BY <1>5, <2>2, CreateMakes DEF NewErrorWithData_any_map, CreateUnnoted
  <2> HIDE DEF m
  <2>4. QED
    BY <1>1, <2>2, <2>3, WaysOfMaking DEF Way
<1>6. ASSUME NEW base \in All, NEW mode \in Modes, NEW a \in held,
             NEW t \in StructTypes, NEW missing \in MissingDataTreatments,
             NewErrorWithData_map(base, t, heap[a], mode, missing)
      PROVE  AStep
  <2> DEFINE merged == Merged(DataOf(base), heap[a], mode)
             m == Filled(merged, t)
  <2>1. ~MergePanics(DataOf(base), heap[a], mode) /\ heap[a] \in Maps
    BY <1>6 DEF NewErrorWithData_map, ChainInv, IInv, TypeOK
  <2>2. /\ merged \in Maps /\ DOMAIN DataOf(base) \subseteq DOMAIN merged
        /\ mode # "ReplacePreviousData" => Abstract!Keeps(merged, DataOf(base))
    BY <1>1, <2>1, MergedMaps
  <2>3. ChainInv' /\ m \in Maps /\ Abstract!Make(base, m, Way(mode))
    <3>1. CreateUnnoted(base, t, m, Way(mode))
      BY <1>6 DEF NewErrorWithData_map
    <3>2. m \in Maps
      BY <2>2, FilledIsMap
    <3> HIDE DEF m
    <3>3. QED
      BY <3>1, <3>2, CreateMakes DEF CreateUnnoted
  <2>4. Abstract!Keeps(m, merged)
    <3> HIDE DEF merged
    <3>1. QED
      BY <2>2, FilledIsMap
  <2> HIDE DEF m, merged
  <2>5. /\ DOMAIN DataOf(base) \subseteq DOMAIN m
        /\ mode # "ReplacePreviousData" => Abstract!Keeps(m, DataOf(base))
    BY <2>2, <2>4 DEF Abstract!Keeps
  <2>6. QED
    BY <1>1, <2>3, <2>5, WaysOfMaking DEF Way
<1>7. ASSUME NEW base \in All, NEW name \in Names,
             DeleteParameterFromError_any(base, name)
      PROVE  AStep
  <2>1. Without(DataOf(base), name) \in Maps
    BY <1>1, WithoutIsMap
  <2>2. ChainInv' /\ Abstract!Make(base, Without(DataOf(base), name), "delete")
    BY <1>7, <2>1, CreateMakes DEF DeleteParameterFromError_any, CreateUnnoted
  <2>3. QED
    BY <1>1, <2>2, WaysOfMaking
<1>8. ASSUME NEW base \in All, NEW name \in Names, NEW t \in StructTypes,
             NEW missing \in MissingDataTreatments,
             DeleteParameterFromError(base, t, name, missing)
      PROVE  AStep
  <2> DEFINE m == Filled(Without(DataOf(base), name), t)
  <2>1. m \in Maps /\ Abstract!Keeps(m, Without(DataOf(base), name))
    BY <1>1, WithoutIsMap, FilledIsMap
  <2>2. CreateUnnoted(base, t, m, "deleteAndFill")
    BY <1>8 DEF DeleteParameterFromError
  <2> HIDE DEF m
  <2>3. ChainInv' /\ Abstract!Make(base, m, "deleteAndFill")
    BY <2>1, <2>2, CreateMakes DEF CreateUnnoted
  <2>4. QED
    BY <1>1, <2>1, <2>3, WaysOfMaking
<1>9. ASSUME NEW base \in All, NEW t \in StructTypes, NEW missing \in MissingDataTreatments,
             AsErrorWithData(base, t, missing)
      PROVE  AStep
  <2>1. PICK b \in All : CreateUnnoted(b, t, Filled(DataOf(b), t), "keep")
    <3>1. NilError \in All /\ DataOf(NilError) = NoData
      BY <1>1 DEF ChainFacts, DataOfRules
    <3>2. QED
      BY <1>9, <3>1 DEF AsErrorWithData
  <2> DEFINE m == Filled(DataOf(b), t)
  <2>2. m \in Maps /\ Abstract!Keeps(m, DataOf(b))
    BY <1>1, FilledIsMap
  <2> HIDE DEF m
  <2>3. CreateUnnoted(b, t, m, "keep")
    BY <2>1 DEF m
  <2>4. ChainInv' /\ Abstract!Make(b, m, "keep")
    BY <2>2, <2>3, CreateMakes DEF CreateUnnoted
  <2>5. QED
    BY <1>1, <2>2, <2>4, WaysOfMaking
<1>10. ASSUME NEW e \in All, GetData_map(e)
       PROVE  AStep
  <2>1. IInv' /\ MapsStay /\ errs' = errs /\ how' = how /\ Errors' = Errors
    BY <1>10, UserStep DEF GetData_map, history, Errors
  <2>2. ChainInv'
    <3>1. /\ DOMAIN heap = 1 .. Len(heap) /\ DOMAIN heap' = 1 .. Len(heap) + 1
          /\ \A a \in 1 .. Len(heap) : heap'[a] = heap[a]
          /\ heap'[Len(heap) + 1] = DataOf(e) /\ Len(heap) \in Nat
      BY <1>10, AppendFacts, AppendLast DEF GetData_map, IInv, TypeOK
    <3>2. ASSUME NEW a \in DOMAIN heap' PROVE heap'[a] \in Maps
      BY <1>1, <3>1 DEF ChainInv
    <3>3. QED
      BY <2>1, <3>2 DEF ChainInv
  <2>3. ChainFacts'
    BY <2>1, <2>2, ChainsAlwaysHaveFacts, PTL
  <2>4. \A d \in All : DataOf(d)' = DataOf(d)
    BY <1>1, <2>1, <2>3, DataOfStays DEF ChainFacts
  <2>5. QED
    BY <2>1, <2>2, <2>4 DEF AStep, WrappedErrors, Params
<1>11. ASSUME NEW a \in held, NEW m \in UserMaps, ChangeMap(a, m)
       PROVE  AStep
  <2>1. IInv' /\ MapsStay /\ errs' = errs /\ how' = how /\ Errors' = Errors
    BY <1>11, UserStep DEF ChangeMap, history, Errors
  <2>2. ChainInv'
    BY <1>11, <2>1, MapAssumption DEF ChangeMap, ChainInv
  <2>3. ChainFacts'
    BY <2>1, <2>2, ChainsAlwaysHaveFacts, PTL
  <2>4. \A d \in All : DataOf(d)' = DataOf(d)
    BY <1>1, <2>1, <2>3, DataOfStays DEF ChainFacts
  <2>5. QED
    BY <2>1, <2>2, <2>4 DEF AStep, WrappedErrors, Params
<1>12. QED
  BY <1>2, <1>3, <1>4, <1>5, <1>6, <1>7, <1>8, <1>9, <1>10, <1>11 DEF Next

-----------------------------------------------------------------------------
(* The map of an error is its own, in every reachable state.                *)
THEOREM ErrorsInvariance == Spec => []IInv
<1>1. Init => IInv
  <2> SUFFICES ASSUME Init PROVE IInv
    OBVIOUS
  <2>1. PICK m \in UserMaps : heap = <<m>>
    BY DEF Init
  <2>2. heap \in Seq({m}) /\ Len(heap) = 1 /\ DOMAIN heap = 1 .. 1 /\ ToSet(heap) = {m}
    BY <2>1 DEF ToSet
  <2>3. errs = <<>> /\ held = {1} /\ Errors = {}
    BY DEF Init, Errors
  <2>4. QED
    BY <2>2, <2>3, EmptySeq DEF IInv, TypeOK, Ownership
<1>2. IInv /\ [Next]_vars => IInv'
  BY Step
<1>3. QED
  BY <1>1, <1>2, PTL DEF Spec

(* The map of an error is never shared.                                     *)
THEOREM MapsAreOwned == Spec => []Ownership
<1>1. IInv => Ownership
  BY DEF IInv
<1>2. QED
  BY <1>1, ErrorsInvariance, PTL

(* No step changes an error or its map, whoever takes it.                   *)
THEOREM Immutability == Spec => ErrorsImmutable
<1>1. IInv /\ [Next]_vars => [MapsStay]_vars
  BY Step
<1>2. QED
  BY <1>1, ErrorsInvariance, PTL DEF Spec, ErrorsImmutable, MapsStay

(* GetData_struct finds what it needs in all errors with a struct type, except *)
(* those made from a struct with PreferPreviousData.                           *)
THEOREM DataIsThere == Spec => []OthersHaveTheirData
<1>1. Init => DataInv
  BY DEF Init, DataInv, OthersHaveTheirData, Errors
<1>2. IInv /\ DataInv /\ [Next]_vars => DataInv'
  BY DataStep
<1>3. DataInv => OthersHaveTheirData
  BY DEF DataInv
<1>4. QED
  BY <1>1, <1>2, <1>3, ErrorsInvariance, PTL DEF Spec

(* An error made from a struct that replaced what its base had returns that    *)
(* struct from GetData_struct, whatever users do with their maps later.        *)
THEOREM StructsAreKept == Spec => []StructsRoundTrip
<1>1. Init => RoundTripInv
  <2> SUFFICES ASSUME Init PROVE RoundTripInv
    OBVIOUS
  <2>1. given = <<>> /\ Errors = {} /\ DOMAIN given = {}
    BY DEF Init, Errors
  <2>2. QED
    BY <2>1, EmptySeq DEF RoundTripInv, StructsRoundTrip
<1>2. IInv /\ RoundTripInv /\ [Next]_vars => RoundTripInv'
  BY RoundTripStep
<1>3. RoundTripInv => StructsRoundTrip
  BY DEF RoundTripInv
<1>4. QED
  BY <1>1, <1>2, <1>3, ErrorsInvariance, PTL DEF Spec

(* errorsWithData implements ImmutableErrors: whatever users do with their    *)
(* maps, every error has one map of parameters for good, which it has         *)
(* inherited from the error it wraps but for what its creation changed.       *)
THEOREM ErrorsRefinement == Spec => ImplementsImmutableErrors
<1>1. Init => ChainInv
  BY MapAssumption DEF Init, ChainInv, Errors
<1>2. Init => Abstract!AInit
  <2> SUFFICES ASSUME Init PROVE Abstract!AInit
    OBVIOUS
  <2>1. Errors = {} /\ how = <<>>
    BY DEF Init, Errors
  <2>2. WrappedErrors = <<>> /\ Params = <<>>
    BY <2>1 DEF WrappedErrors, Params
  <2>3. QED
    BY <2>1, <2>2 DEF Abstract!AInit, WrappedErrors, Params
<1>3. IInv /\ ChainInv /\ [Next]_vars => ChainInv' /\ [Abstract!ANext]_<<WrappedErrors, Params, how>>
  BY RefinementStep DEF AStep
<1>4. QED
  BY <1>1, <1>2, <1>3, ErrorsInvariance, PTL DEF Spec, ImplementsImmutableErrors, Abstract!ASpec, WrappedErrors, Params
=============================================================================
