-------------------------- MODULE PrecomputedCache --------------------------
(***************************************************************************)
(* internal/testutils.PrecomputedCache, used by any number of goroutines.  *)
(*                                                                         *)
(* The cache maps each key to a page, guarded by tableMutex; a page holds  *)
(* the elements created so far and the state of the random generator that  *)
(* extends them, guarded by the mutex of the page.  A read lock cannot be  *)
(* upgraded, so both levels look, unlock, lock and look again.             *)
(*                                                                         *)
(* A step of a goroutine is what it does between two operations on a       *)
(* mutex; elements are created, appended and copied one at a time.         *)
(***************************************************************************)
EXTENDS RWMutex, Naturals, Sequences

CONSTANTS
  Keys,
  MaxAmount,  \* bound on the number of elements asked for or prepopulated
  NoPage      \* the nil pointer

(* A goroutine allocates at most one page for a key, which is named so. *)
Pages == Keys \X Procs

ASSUME CacheAssumption ==
  /\ MaxAmount \in Nat
  /\ NoPage \notin Pages

VARIABLES
  canCreate,   \* creationFun of the cache is not nil
  data,        \* the table
  tableMutex,
  pageMutex,
  elements,    \* elements[pg]: the list of page pg
  drawn,       \* drawn[pg]: rng state, as the number of elements created from it
  pc, key, amount, page, ret,  \* locals of the goroutines
  prepopulated,                \* prepopulated[k]: entries given for key k
  returned                     \* returned[k]: the results of GetElements(k, _)

vars == <<canCreate, data, tableMutex, pageMutex, elements, drawn,
          pc, key, amount, page, ret, prepopulated, returned>>

locals == <<key, amount, page, ret>>
history == <<prepopulated, returned>>
contents == <<data, elements, drawn>>

(* An element is an entry given by the user or a result of creationFun. *)
Elements == Keys \X {"entry", "draw"} \X Nat

GoTo(p, label) == pc' = [pc EXCEPT ![p] = label]

OnTable(m) == tableMutex' = m /\ UNCHANGED pageMutex
OnPage(pg, m) == pageMutex' = [pageMutex EXCEPT ![pg] = m] /\ UNCHANGED tableMutex

-----------------------------------------------------------------------------
Init ==
  /\ canCreate \in BOOLEAN
  /\ data = [k \in Keys |-> NoPage]
  /\ tableMutex = Free
  /\ pageMutex = [pg \in Pages |-> Free]
  /\ elements = [pg \in Pages |-> <<>>]
  /\ drawn = [pg \in Pages |-> 0]
  /\ pc = [p \in Procs |-> "idle"]
  /\ key \in [Procs -> Keys]
  /\ amount = [p \in Procs |-> 0]
  /\ page = [p \in Procs |-> NoPage]
  /\ ret = [p \in Procs |-> <<>>]
  /\ prepopulated = [k \in Keys |-> 0]
  /\ returned = [k \in Keys |-> {}]

Call(p, k, n) ==
  /\ key' = [key EXCEPT ![p] = k]
  /\ amount' = [amount EXCEPT ![p] = n]
  /\ page' = [page EXCEPT ![p] = NoPage]
  /\ ret' = [ret EXCEPT ![p] = <<>>]

(* newCachePage *)
NewCachePage(p, pg) ==
  /\ page' = [page EXCEPT ![p] = pg]
  /\ elements' = [elements EXCEPT ![pg] = <<>>]
  /\ drawn' = [drawn EXCEPT ![pg] = 0]

-----------------------------------------------------------------------------
(* PrepopulateCache *)

StartPopulate(p, k, n) ==
  /\ pc[p] = "idle"
  /\ Call(p, k, n)
  /\ GoTo(p, "lockToPopulate")
  /\ UNCHANGED <<contents, tableMutex, pageMutex, history>>

LockToPopulate(p) ==
  /\ pc[p] = "lockToPopulate"
  /\ CanLock(tableMutex)
  /\ OnTable(Lock(tableMutex, p))
  /\ GoTo(p, "populate")
  /\ UNCHANGED <<contents, locals, history>>

(* If the key is in use the call panics, after unlocking the table. *)
RefuseToPopulate(p) ==
  /\ pc[p] = "populate"
  /\ Locked(tableMutex, p)
  /\ data[key[p]] # NoPage
  /\ OnTable(Unlock(tableMutex))
  /\ GoTo(p, "idle")
  /\ UNCHANGED <<contents, locals, history>>

(* Mutant: a key that is in use is populated again. *)
PopulateMutant(p) ==
  LET pg == <<key[p], p>> IN
  /\ pc[p] = "populate"
  /\ Locked(tableMutex, p)
  /\ NewCachePage(p, pg)
  /\ data' = [data EXCEPT ![key[p]] = pg]
  /\ pageMutex' = [pageMutex EXCEPT ![pg] = Lock(@, p)]
  /\ tableMutex' = Unlock(tableMutex)
  /\ prepopulated' = [prepopulated EXCEPT ![key[p]] = amount[p]]
  /\ GoTo(p, "fill")
  /\ UNCHANGED <<key, amount, ret, returned>>

(* The page is locked before anyone can see it. *)
PopulatePage(p) ==
  LET pg == <<key[p], p>> IN
  /\ pc[p] = "populate"
  /\ Locked(tableMutex, p)
  /\ data[key[p]] = NoPage
  /\ NewCachePage(p, pg)
  /\ data' = [data EXCEPT ![key[p]] = pg]
  /\ pageMutex' = [pageMutex EXCEPT ![pg] = Lock(@, p)]
  /\ tableMutex' = Unlock(tableMutex)
  /\ prepopulated' = [prepopulated EXCEPT ![key[p]] = amount[p]]
  /\ GoTo(p, "fill")
  /\ UNCHANGED <<key, amount, ret, returned>>

FillPage(p) ==
  LET pg == page[p]
      n  == Len(elements[pg])
  IN
  /\ pc[p] = "fill"
  /\ Locked(pageMutex[pg], p)
  /\ n < amount[p]
  /\ elements' = [elements EXCEPT ![pg] = Append(@, <<key[p], "entry", n + 1>>)]
  /\ UNCHANGED <<data, drawn, tableMutex, pageMutex, pc, locals, history>>

ReturnFromPopulate(p) ==
  /\ pc[p] = "fill"
  /\ Locked(pageMutex[page[p]], p)
  /\ Len(elements[page[p]]) >= amount[p]
  /\ OnPage(page[p], Unlock(pageMutex[page[p]]))
  /\ GoTo(p, "idle")
  /\ UNCHANGED <<contents, locals, history>>

-----------------------------------------------------------------------------
(* GetElements *)

GetNothing(p, k) ==
  /\ pc[p] = "idle"
  /\ returned' = [returned EXCEPT ![k] = @ \cup {<<>>}]
  /\ UNCHANGED <<contents, tableMutex, pageMutex, pc, locals, prepopulated>>

StartGet(p, k, n) ==
  /\ pc[p] = "idle"
  /\ n > 0
  /\ Call(p, k, n)
  /\ OnTable(RLock(tableMutex, p))
  /\ GoTo(p, "lookUp")
  /\ UNCHANGED <<contents, history>>

LookUp(p) ==
  /\ pc[p] = "lookUp"
  /\ RLocked(tableMutex, p)
  /\ OnTable(RUnlock(tableMutex, p))
  /\ page' = [page EXCEPT ![p] = data[key[p]]]
  /\ GoTo(p, IF data[key[p]] # NoPage THEN "rlockPage" ELSE "newPage")
  /\ UNCHANGED <<contents, key, amount, ret, history>>

CreatePage(p) ==
  /\ pc[p] = "newPage"
  /\ NewCachePage(p, <<key[p], p>>)
  /\ GoTo(p, "lockTable")
  /\ UNCHANGED <<data, tableMutex, pageMutex, key, amount, ret, history>>

LockTable(p) ==
  /\ pc[p] = "lockTable"
  /\ CanLock(tableMutex)
  /\ OnTable(Lock(tableMutex, p))
  /\ GoTo(p, "insert")
  /\ UNCHANGED <<contents, locals, history>>

(* The first goroutine to write wins. *)
Insert(p) ==
  /\ pc[p] = "insert"
  /\ Locked(tableMutex, p)
  /\ IF data[key[p]] # NoPage
       THEN page' = [page EXCEPT ![p] = data[key[p]]] /\ UNCHANGED data
       ELSE data' = [data EXCEPT ![key[p]] = page[p]] /\ UNCHANGED page
  /\ OnTable(Unlock(tableMutex))
  /\ GoTo(p, "rlockPage")
  /\ UNCHANGED <<elements, drawn, key, amount, ret, history>>

-----------------------------------------------------------------------------
(* getElements of a page *)

RLockPage(p) ==
  /\ pc[p] = "rlockPage"
  /\ OnPage(page[p], RLock(pageMutex[page[p]], p))
  /\ GoTo(p, "checkLength")
  /\ UNCHANGED <<contents, locals, history>>

EnoughElements(p) ==
  /\ pc[p] = "checkLength"
  /\ RLocked(pageMutex[page[p]], p)
  /\ Len(elements[page[p]]) >= amount[p]
  /\ GoTo(p, "copy")
  /\ UNCHANGED <<contents, tableMutex, pageMutex, locals, history>>

TooFewElements(p) ==
  /\ pc[p] = "checkLength"
  /\ RLocked(pageMutex[page[p]], p)
  /\ Len(elements[page[p]]) < amount[p]
  /\ OnPage(page[p], RUnlock(pageMutex[page[p]], p))
  /\ GoTo(p, "lockPage")
  /\ UNCHANGED <<contents, locals, history>>

LockPage(p) ==
  /\ pc[p] = "lockPage"
  /\ CanLock(pageMutex[page[p]])
  /\ OnPage(page[p], Lock(pageMutex[page[p]], p))
  /\ GoTo(p, "extend")
  /\ UNCHANGED <<contents, locals, history>>

(* creationFun(rng, key) advances the rng; its result is then appended. *)
CreateElement(p) ==
  /\ pc[p] = "extend"
  /\ Locked(pageMutex[page[p]], p)
  /\ Len(elements[page[p]]) < amount[p]
  /\ canCreate
  /\ drawn' = [drawn EXCEPT ![page[p]] = @ + 1]
  /\ GoTo(p, "append")
  /\ UNCHANGED <<data, elements, tableMutex, pageMutex, locals, history>>

AppendElement(p) ==
  LET pg == page[p] IN
  /\ pc[p] = "append"
  /\ elements' = [elements EXCEPT ![pg] = Append(@, <<key[p], "draw", drawn[pg]>>)]
  /\ GoTo(p, "extend")
  /\ UNCHANGED <<data, drawn, tableMutex, pageMutex, locals, history>>

(* Calling a nil creationFun panics and leaves the page locked. *)
CannotCreateElement(p) ==
  /\ pc[p] = "extend"
  /\ Locked(pageMutex[page[p]], p)
  /\ Len(elements[page[p]]) < amount[p]
  /\ ~canCreate
  /\ GoTo(p, "panicked")
  /\ UNCHANGED <<contents, tableMutex, pageMutex, locals, history>>

(* Mutant: the page is locked and unlocked over and over. *)
LockAgainMutant(p) ==
  /\ pc[p] = "extend"
  /\ Locked(pageMutex[page[p]], p)
  /\ Len(elements[page[p]]) >= amount[p]
  /\ OnPage(page[p], Unlock(pageMutex[page[p]]))
  /\ GoTo(p, "lockPage")
  /\ UNCHANGED <<contents, locals, history>>

UnlockPage(p) ==
  /\ pc[p] = "extend"
  /\ Locked(pageMutex[page[p]], p)
  /\ Len(elements[page[p]]) >= amount[p]
  /\ OnPage(page[p], Unlock(pageMutex[page[p]]))
  /\ GoTo(p, "rlockAgain")
  /\ UNCHANGED <<contents, locals, history>>

RLockAgain(p) ==
  /\ pc[p] = "rlockAgain"
  /\ OnPage(page[p], RLock(pageMutex[page[p]], p))
  /\ GoTo(p, "copy")
  /\ UNCHANGED <<contents, locals, history>>

CopyElement(p) ==
  /\ pc[p] = "copy"
  /\ RLocked(pageMutex[page[p]], p)
  /\ Len(ret[p]) < amount[p]
  /\ ret' = [ret EXCEPT ![p] = Append(@, elements[page[p]][Len(@) + 1])]
  /\ UNCHANGED <<contents, tableMutex, pageMutex, pc, key, amount, page, history>>

ReturnElements(p) ==
  /\ pc[p] = "copy"
  /\ RLocked(pageMutex[page[p]], p)
  /\ Len(ret[p]) >= amount[p]
  /\ OnPage(page[p], RUnlock(pageMutex[page[p]], p))
  /\ returned' = [returned EXCEPT ![key[p]] = @ \cup {ret[p]}]
  /\ GoTo(p, "idle")
  /\ UNCHANGED <<contents, locals, prepopulated>>

-----------------------------------------------------------------------------
StartCall(p) ==
  /\ \E k \in Keys, n \in 0 .. MaxAmount :
       StartPopulate(p, k, n) \/ StartGet(p, k, n) \/ GetNothing(p, k)
  /\ UNCHANGED canCreate

(* The steps that may have to wait for other writers of a mutex. *)
LockStep(p) ==
  /\ LockToPopulate(p) \/ LockTable(p) \/ LockPage(p)
  /\ UNCHANGED canCreate

OtherStep(p) ==
  /\ \/ RefuseToPopulate(p) \/ PopulatePage(p) \/ FillPage(p) \/ ReturnFromPopulate(p)
     \/ LookUp(p) \/ CreatePage(p) \/ Insert(p)
     \/ RLockPage(p) \/ EnoughElements(p) \/ TooFewElements(p)
     \/ CreateElement(p) \/ AppendElement(p) \/ CannotCreateElement(p)
     \/ UnlockPage(p) \/ RLockAgain(p) \/ CopyElement(p) \/ ReturnElements(p)
  /\ UNCHANGED canCreate

Next == \E p \in Procs : StartCall(p) \/ LockStep(p) \/ OtherStep(p)

Spec == Init /\ [][Next]_vars

(* The scheduler runs every goroutine; a mutex does not starve a writer. *)
Fairness == \A p \in Procs : WF_vars(OtherStep(p)) /\ SF_vars(LockStep(p))

FairSpec == Spec /\ Fairness

-----------------------------------------------------------------------------
(* Properties *)

Labels ==
  {"idle", "lockToPopulate", "populate", "fill", "lookUp", "newPage", "lockTable",
   "insert", "rlockPage", "checkLength", "lockPage", "extend", "append",
   "rlockAgain", "copy", "panicked"}

(* The variables keep their types.                                          *)
TypeOK ==
  /\ data \in [Keys -> Pages \cup {NoPage}]
  /\ tableMutex \in RWMutexes
  /\ pageMutex \in [Pages -> RWMutexes]
  /\ elements \in [Pages -> Seq(Elements)]
  /\ drawn \in [Pages -> Nat]
  /\ pc \in [Procs -> Labels]
  /\ key \in [Procs -> Keys]
  /\ amount \in [Procs -> 0 .. MaxAmount]
  /\ page \in [Procs -> Pages \cup {NoPage}]
  /\ ret \in [Procs -> Seq(Elements)]
  /\ prepopulated \in [Keys -> 0 .. MaxAmount]
  /\ returned \in [Keys -> SUBSET Seq(Elements)]

(* "one list is a prefix of the other": all results for a key are prefixes  *)
(* of one list, which begins with the prepopulated entries and continues    *)
(* with the draws of the key's generator, none skipped or used twice,       *)
(* however the goroutines that extend the page are interleaved.             *)
ListElement(k, n) ==
  IF n <= prepopulated[k]
    THEN <<k, "entry", n>>
    ELSE <<k, "draw", n - prepopulated[k]>>

ResultsArePrefixes ==
  \A k \in Keys : \A s \in returned[k] : \A n \in 1 .. Len(s) : s[n] = ListElement(k, n)

(* A goroutine that is not inside a call holds no mutex and waits for none, *)
(* whichever way its last call ended.                                       *)
NoMutexLeft ==
  \A p \in Procs : pc[p] = "idle" =>
    /\ Uninvolved(tableMutex, p)
    /\ \A pg \in Pages : Uninvolved(pageMutex[pg], p)

(* "Once an entry data[key] has been created, this entry (i.e. the pointer) *)
(* never changes, even though what is pointed to may": the elements of a    *)
(* page in the table are only ever appended to.                             *)
IsPrefixOf(s, t) == Len(s) <= Len(t) /\ \A n \in 1 .. Len(s) : s[n] = t[n]

PagesOnlyGrow ==
  [][\A k \in Keys : data[k] # NoPage =>
       /\ data'[k] = data[k]
       /\ IsPrefixOf(elements[data[k]], elements'[data[k]])]_vars

(* Every call returns, whatever the others do, if creationFun is not nil.   *)
CallsReturn == \A p \in Procs : canCreate /\ pc[p] # "idle" ~> pc[p] = "idle"

(* "if the creationFun function is nil, we cannot randomly sample and only  *)
(* prepoulated keys work": for these, elements that are there can be had.   *)
PrepopulatedKeysWork ==
  \A p \in Procs :
    pc[p] = "rlockPage" /\ amount[p] <= prepopulated[key[p]] ~> pc[p] = "idle"

(* The cache implements the abstract service ElementLists.                  *)
Lists == INSTANCE ElementLists WITH
  used    <- {k \in Keys : data[k] # NoPage},
  entries <- prepopulated,
  answers <- returned

ImplementsLists == Lists!LSpec
-----------------------------------------------------------------------------
(* An inductive invariant *)

TableWriting == {"populate", "insert"}
PageWriting  == {"fill", "extend", "append", "panicked"}
PageReading  == {"checkLength", "copy"}
HavePage     == PageWriting \cup PageReading \cup {"rlockPage", "lockPage", "rlockAgain"}
Creating     == {"newPage", "lockTable", "insert"}

(* Who holds which mutex, or waits for it, can be told from the labels. *)
TableInv ==
  \A p \in Procs :
    /\ tableMutex.writer = p <=> pc[p] \in TableWriting
    /\ Uses(tableMutex, p) <=> pc[p] = "lookUp"

PageMutexInv ==
  \A p \in Procs, pg \in Pages :
    /\ pageMutex[pg].writer = p <=> page[p] = pg /\ pc[p] \in PageWriting
    /\ Uses(pageMutex[pg], p) <=> page[p] = pg /\ pc[p] \in PageReading

(* A page is private until it is in the table, and then the key's only page. *)
PageInv ==
  /\ \A k \in Keys : data[k] # NoPage => data[k][1] = k
  /\ \A k \in Keys : data[k] = NoPage => prepopulated[k] = 0 /\ returned[k] \subseteq {<<>>}
  /\ \A p \in Procs :
       /\ pc[p] \in HavePage => page[p] # NoPage /\ data[key[p]] = page[p]
       /\ pc[p] \in Creating => data[key[p]] # <<key[p], p>>
       /\ pc[p] \in {"lockTable", "insert"} =>
            /\ page[p] = <<key[p], p>>
            /\ elements[page[p]] = <<>>
            /\ drawn[page[p]] = 0

(* A page holds the list of its key up to where the generator has come; an  *)
(* element that has been created, but not appended, is in between.          *)
BusyFilling(pg) ==
  \E p \in Procs : page[p] = pg /\ pc[p] \in {"fill", "append"}

ListInv ==
  /\ \A k \in Keys : data[k] # NoPage =>
       /\ \A n \in 1 .. Len(elements[data[k]]) : elements[data[k]][n] = ListElement(k, n)
       /\ ~BusyFilling(data[k]) =>
            drawn[data[k]] + prepopulated[k] = Len(elements[data[k]])
  /\ \A p \in Procs :
       /\ pc[p] = "append" =>
            /\ drawn[page[p]] > 0
            /\ drawn[page[p]] + prepopulated[key[p]] = Len(elements[page[p]]) + 1
       /\ pc[p] = "fill" =>
            /\ drawn[page[p]] = 0
            /\ amount[p] = prepopulated[key[p]]
            /\ Len(elements[page[p]]) <= amount[p]

(* What has been copied so far is a prefix of the list. *)
CopyInv ==
  \A p \in Procs :
    /\ pc[p] \in {"rlockAgain", "copy"} => amount[p] <= Len(elements[page[p]])
    /\ pc[p] # "idle" => Len(ret[p]) <= amount[p]
    /\ pc[p] \notin {"idle", "copy"} => ret[p] = <<>>
    /\ pc[p] = "copy" => \A n \in 1 .. Len(ret[p]) : ret[p][n] = ListElement(key[p], n)

IInv ==
  /\ TypeOK /\ TableInv /\ PageMutexInv /\ PageInv
  /\ ListInv /\ CopyInv /\ ResultsArePrefixes
=============================================================================
