---------------------------- MODULE StructLookup ----------------------------
(***************************************************************************)
(* errorsWithData.getStructMapConversionLookup, called by any number of    *)
(* goroutines: what StructFields computes for a type is kept in a global   *)
(* table behind an RWMutex.  The fields are computed without the mutex, so *)
(* several goroutines may do so for one type.                              *)
(*                                                                         *)
(* A slice of fields is named by its type and the goroutine that made it,  *)
(* which for one type happens once: afterwards the table has an entry.     *)
(***************************************************************************)
EXTENDS RWMutex, StructFields

CONSTANTS
  Types,    \* the types asked for
  NoSlice   \* no entry in the table

Slices == Types \X Procs

(* The types for which the loops over the fields meet no error. *)
SuitableTypes == {t \in Types : LookupFields(t).ok}

ASSUME LookupAssumption == NoSlice \notin Slices

VARIABLES
  structTypeToFieldsMap,       \* the table
  structTypeToFieldsMapMutex,
  pc, structType,              \* locals of the goroutines
  returned,                    \* returned[t]: the slices returned for t
  refused                      \* the types for which an error was returned

lookupVars == <<structTypeToFieldsMap, structTypeToFieldsMapMutex, pc, structType, returned, refused>>

GoTo(p, label) == pc' = [pc EXCEPT ![p] = label]

Return(t, slice) == returned' = [returned EXCEPT ![t] = @ \cup {slice}] /\ UNCHANGED refused

-----------------------------------------------------------------------------
LInit ==
  /\ structTypeToFieldsMap = [t \in Types |-> NoSlice]
  /\ structTypeToFieldsMapMutex = Free
  /\ pc = [p \in Procs |-> "idle"]
  /\ structType \in [Procs -> Types]
  /\ returned = [t \in Types |-> {}]
  /\ refused = {}

Call(p, t) ==
  /\ pc[p] = "idle"
  /\ structType' = [structType EXCEPT ![p] = t]
  /\ structTypeToFieldsMapMutex' = RLock(structTypeToFieldsMapMutex, p)
  /\ GoTo(p, "lookUp")
  /\ UNCHANGED <<structTypeToFieldsMap, returned, refused>>

LookUp(p) ==
  LET found == structTypeToFieldsMap[structType[p]] IN
  /\ pc[p] = "lookUp"
  /\ RLocked(structTypeToFieldsMapMutex, p)
  /\ structTypeToFieldsMapMutex' = RUnlock(structTypeToFieldsMapMutex, p)
  /\ IF found = NoSlice
       THEN GoTo(p, "compute") /\ UNCHANGED <<returned, refused>>
       ELSE GoTo(p, "idle") /\ Return(structType[p], found)
  /\ UNCHANGED <<structTypeToFieldsMap, structType>>

Compute(p) ==
  /\ pc[p] = "compute"
  /\ IF structType[p] \in SuitableTypes
       THEN GoTo(p, "lock") /\ UNCHANGED refused
       ELSE GoTo(p, "idle") /\ refused' = refused \cup {structType[p]}
  /\ UNCHANGED <<structTypeToFieldsMap, structTypeToFieldsMapMutex, structType, returned>>

LockMap(p) ==
  /\ pc[p] = "lock"
  /\ CanLock(structTypeToFieldsMapMutex)
  /\ structTypeToFieldsMapMutex' = Lock(structTypeToFieldsMapMutex, p)
  /\ GoTo(p, "store")
  /\ UNCHANGED <<structTypeToFieldsMap, structType, returned, refused>>

(* Mutants: the table is not looked up again; a goroutine that was not the    *)
(* first tries again.                                                         *)
StoreMutant(p) ==
  LET t == structType[p] IN
  /\ pc[p] = "store"
  /\ Locked(structTypeToFieldsMapMutex, p)
  /\ structTypeToFieldsMap' = [structTypeToFieldsMap EXCEPT ![t] = <<t, p>>]
  /\ Return(t, <<t, p>>)
  /\ structTypeToFieldsMapMutex' = Unlock(structTypeToFieldsMapMutex)
  /\ GoTo(p, "idle")
  /\ UNCHANGED structType

StoreAgainMutant(p) ==
  LET t == structType[p] IN
  /\ pc[p] = "store"
  /\ Locked(structTypeToFieldsMapMutex, p)
  /\ IF structTypeToFieldsMap[t] = NoSlice
       THEN /\ structTypeToFieldsMap' = [structTypeToFieldsMap EXCEPT ![t] = <<t, p>>]
            /\ Return(t, <<t, p>>)
            /\ GoTo(p, "idle")
       ELSE GoTo(p, "lock") /\ UNCHANGED <<structTypeToFieldsMap, returned, refused>>
  /\ structTypeToFieldsMapMutex' = Unlock(structTypeToFieldsMapMutex)
  /\ UNCHANGED structType

(* "use the value already in the map, to give consistently identical (not    *)
(* just equal) results"                                                      *)
StoreSlice(p) ==
  LET t == structType[p]
      kept == structTypeToFieldsMap[t]
  IN
  /\ pc[p] = "store"
  /\ Locked(structTypeToFieldsMapMutex, p)
  /\ IF kept = NoSlice
       THEN /\ structTypeToFieldsMap' = [structTypeToFieldsMap EXCEPT ![t] = <<t, p>>]
            /\ Return(t, <<t, p>>)
       ELSE UNCHANGED structTypeToFieldsMap /\ Return(t, kept)
  /\ structTypeToFieldsMapMutex' = Unlock(structTypeToFieldsMapMutex)
  /\ GoTo(p, "idle")
  /\ UNCHANGED structType

-----------------------------------------------------------------------------
LNext == \E p \in Procs :
  (\E t \in Types : Call(p, t)) \/ LookUp(p) \/ Compute(p) \/ LockMap(p) \/ StoreSlice(p)

LSpec == LInit /\ [][LNext]_lookupVars

(* As for the cache of pages: goroutines are scheduled, writers do not starve. *)
Fairness ==
  \A p \in Procs : WF_lookupVars(LookUp(p) \/ Compute(p) \/ StoreSlice(p)) /\ SF_lookupVars(LockMap(p))

LFairSpec == LSpec /\ Fairness

-----------------------------------------------------------------------------
(* Properties *)

(* The variables keep their types. *)
LTypeOK ==
  /\ structTypeToFieldsMap \in [Types -> Slices \cup {NoSlice}]
  /\ structTypeToFieldsMapMutex \in RWMutexes
  /\ pc \in [Procs -> {"idle", "lookUp", "compute", "lock", "store"}]
  /\ structType \in [Procs -> Types]
  /\ returned \in [Types -> SUBSET Slices]
  /\ refused \subseteq Types

(* "Repeated calls with the same argument give identical results (slice with *)
(* same backing array)", by whichever goroutines, also if several of them    *)
(* computed the fields at once; and no type is both accepted and refused.    *)
IdenticalResults ==
  \A t \in Types :
    /\ \A a, b \in returned[t] : a = b
    /\ t \in refused => returned[t] = {}

(* A goroutine outside the call holds no lock and waits for none.            *)
NoMutexLeft == \A p \in Procs : pc[p] = "idle" => Uninvolved(structTypeToFieldsMapMutex, p)

(* Once a type is in the table, its entry never changes.                     *)
EntriesAreFinal ==
  [][\A t \in Types : structTypeToFieldsMap[t] # NoSlice =>
       structTypeToFieldsMap'[t] = structTypeToFieldsMap[t]]_lookupVars

(* Every call returns, whatever the others do.                               *)
CallsReturn == \A p \in Procs : pc[p] # "idle" ~> pc[p] = "idle"

-----------------------------------------------------------------------------
(* An inductive invariant *)

(* Who holds the mutex, or waits for it, can be told from the labels. *)
MutexInv ==
  \A p \in Procs :
    /\ structTypeToFieldsMapMutex.writer = p <=> pc[p] = "store"
    /\ Uses(structTypeToFieldsMapMutex, p) <=> pc[p] = "lookUp"

(* Whatever was returned is in the table; entries belong to suitable types.  *)
TableInv ==
  \A t \in Types :
    /\ returned[t] \subseteq {structTypeToFieldsMap[t]} \ {NoSlice}
    /\ structTypeToFieldsMap[t] # NoSlice => t \in SuitableTypes
    /\ t \in refused => t \notin SuitableTypes

(* Only slices of suitable types get as far as the table.                    *)
PendingInv ==
  \A p \in Procs : pc[p] \in {"lock", "store"} => structType[p] \in SuitableTypes

LInv == LTypeOK /\ MutexInv /\ TableInv /\ PendingInv
=============================================================================
