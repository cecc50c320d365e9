------------------------------ MODULE RWMutex ------------------------------
(***************************************************************************)
(* Go's sync.RWMutex, as the value of a variable.  A writer first becomes  *)
(* the only one waiting for or holding the lock; from then on new readers  *)
(* have to wait, and the writer holds the lock once the old readers are    *)
(* gone.  Its Unlock lets in all readers that waited.                      *)
(***************************************************************************)
EXTENDS TLAPS

CONSTANTS
  Procs,   \* the goroutines
  NoProc   \* not a goroutine

ASSUME NoProcAssumption == NoProc \notin Procs

RWMutexes ==
  {m \in [readers : SUBSET Procs, waiting : SUBSET Procs, writer : Procs \cup {NoProc}] :
     m.readers \cap m.waiting = {}}

Free == [readers |-> {}, waiting |-> {}, writer |-> NoProc]

(* RLock is called; it returns as soon as RLocked holds. *)
RLock(m, p) ==
  IF m.writer = NoProc
    THEN [m EXCEPT !.readers = @ \cup {p}]
    ELSE [m EXCEPT !.waiting = @ \cup {p}]

RLocked(m, p) == p \in m.readers

RUnlock(m, p) == [m EXCEPT !.readers = @ \ {p}]

(* Lock is called and gets past the other writers, which needs CanLock; it  *)
(* returns as soon as Locked holds.                                         *)
CanLock(m) == m.writer = NoProc

Lock(m, p) == [m EXCEPT !.writer = p]

Locked(m, p) == m.writer = p /\ m.readers = {}

Unlock(m) == [readers |-> m.waiting, waiting |-> {}, writer |-> NoProc]

(* p reads or waits to read; p has nothing to do with the mutex. *)
Uses(m, p) == p \in m.readers \cup m.waiting

Uninvolved(m, p) == m.writer # p /\ ~Uses(m, p)

-----------------------------------------------------------------------------
(* What the operations do to the writer and to the readers *)

(* A new mutex is well-formed and no goroutine has to do with it. *)
LEMMA FreeFacts ==
  /\ Free \in RWMutexes
  /\ Free.writer = NoProc
  /\ \A p : ~Uses(Free, p)
BY DEF Free, RWMutexes, Uses

(* RLock adds one reader, at once or later, and leaves the writer alone. *)
LEMMA RLockFacts ==
  ASSUME NEW m \in RWMutexes, NEW p \in Procs, ~Uses(m, p)
  PROVE  /\ RLock(m, p) \in RWMutexes
         /\ RLock(m, p).writer = m.writer
         /\ \A q : Uses(RLock(m, p), q) <=> Uses(m, q) \/ q = p
BY DEF RLock, RWMutexes, Uses

(* RUnlock removes one reader and leaves the writer alone. *)
LEMMA RUnlockFacts ==
  ASSUME NEW m \in RWMutexes, NEW p \in Procs, RLocked(m, p)
  PROVE  /\ RUnlock(m, p) \in RWMutexes
         /\ RUnlock(m, p).writer = m.writer
         /\ \A q : Uses(RUnlock(m, p), q) <=> Uses(m, q) /\ q # p
BY DEF RUnlock, RLocked, RWMutexes, Uses

(* Lock replaces the writer and leaves the readers alone. *)
LEMMA LockFacts ==
  ASSUME NEW m \in RWMutexes, NEW p \in Procs
  PROVE  /\ Lock(m, p) \in RWMutexes
         /\ Lock(m, p).writer = p
         /\ \A q : Uses(Lock(m, p), q) <=> Uses(m, q)
BY DEF Lock, RWMutexes, Uses

(* Unlock removes the writer; those who waited still read or wait. *)
LEMMA UnlockFacts ==
  ASSUME NEW m \in RWMutexes, NEW p \in Procs, Locked(m, p)
  PROVE  /\ Unlock(m) \in RWMutexes
         /\ Unlock(m).writer = NoProc
         /\ \A q : Uses(Unlock(m), q) <=> Uses(m, q)
BY NoProcAssumption DEF Unlock, Locked, RWMutexes, Uses
=============================================================================
