----------------------- MODULE PrecomputedCacheProofs -----------------------
(***************************************************************************)
(* Safety of PrecomputedCache for any number of goroutines, keys and       *)
(* elements.  The inductive invariant is IInv; each of its parts is shown  *)
(* to be preserved by every action in a lemma of its own (TypeStep to      *)
(* ResultsStep), from the parts that the argument needs.                   *)
(***************************************************************************)
EXTENDS PrecomputedCache, SequenceTheorems

-----------------------------------------------------------------------------
(* Mutexes *)

(* Locking and unlocking the table keep TableInv if the label follows suit. *)
LEMMA TableLocked ==
  ASSUME TypeOK, TableInv, NEW p \in Procs, NEW l \in TableWriting,
         pc[p] \notin TableWriting \cup {"lookUp"}, pc' = [pc EXCEPT ![p] = l],
         CanLock(tableMutex), tableMutex' = Lock(tableMutex, p)
  PROVE  TableInv'
<1>1. tableMutex \in RWMutexes /\ pc \in [Procs -> Labels]
  BY DEF TypeOK
<1>2. tableMutex'.writer = p /\ \A q : Uses(tableMutex', q) <=> Uses(tableMutex, q)
  BY <1>1, LockFacts
<1>3. QED
  BY <1>1, <1>2, NoProcAssumption DEF TableInv, TableWriting, CanLock

LEMMA TableUnlocked ==
  ASSUME TypeOK, TableInv, NEW p \in Procs,
  NEW l \in Labels \ (TableWriting \cup {"lookUp"}),
         pc[p] \in TableWriting, pc' = [pc EXCEPT ![p] = l],
         Locked(tableMutex, p), tableMutex' = Unlock(tableMutex)
  PROVE  TableInv'
<1>1. tableMutex \in RWMutexes /\ tableMutex.writer = p /\ pc \in [Procs -> Labels]
  BY DEF TypeOK, Locked
<1>2. tableMutex'.writer = NoProc /\ \A q : Uses(tableMutex', q) <=> Uses(tableMutex, q)
  BY <1>1, UnlockFacts
<1>3. QED
  BY <1>1, <1>2, NoProcAssumption DEF TableInv, TableWriting

(* The same for the mutex of the page a goroutine works on. *)
LEMMA PageLocked ==
  ASSUME TypeOK, PageMutexInv, NEW p \in Procs, NEW pg \in Pages, NEW l \in PageWriting,
         pc[p] \notin PageWriting \cup PageReading, pc' = [pc EXCEPT ![p] = l],
         page' = [page EXCEPT ![p] = pg], CanLock(pageMutex[pg]),
         pageMutex' = [pageMutex EXCEPT ![pg] = Lock(pageMutex[pg], p)]
  PROVE  PageMutexInv'
<1>1. /\ pageMutex \in [Pages -> RWMutexes] /\ pageMutex[pg] \in RWMutexes
      /\ pc \in [Procs -> Labels] /\ page \in [Procs -> Pages \cup {NoPage}]
  BY DEF TypeOK
<1>2. /\ pageMutex'[pg].writer = p
      /\ \A q : Uses(pageMutex'[pg], q) <=> Uses(pageMutex[pg], q)
  BY <1>1, LockFacts
<1>3. QED
  BY <1>1, <1>2, NoProcAssumption DEF PageMutexInv, PageWriting, PageReading, CanLock

LEMMA PageUnlocked ==
  ASSUME TypeOK, PageMutexInv, NEW p \in Procs, page[p] \in Pages,
         NEW l \in Labels \ (PageWriting \cup PageReading),
         pc[p] \in PageWriting, pc' = [pc EXCEPT ![p] = l], page' = page,
         Locked(pageMutex[page[p]], p),
         pageMutex' = [pageMutex EXCEPT ![page[p]] = Unlock(pageMutex[page[p]])]
  PROVE  PageMutexInv'
<1>1. /\ pageMutex \in [Pages -> RWMutexes] /\ pageMutex[page[p]] \in RWMutexes
      /\ pageMutex[page[p]].writer = p /\ pc \in [Procs -> Labels]
  BY DEF TypeOK, Locked
<1>2. /\ pageMutex'[page[p]].writer = NoProc
      /\ \A q : Uses(pageMutex'[page[p]], q) <=> Uses(pageMutex[page[p]], q)
  BY <1>1, UnlockFacts
<1>3. QED
  BY <1>1, <1>2, NoProcAssumption DEF PageMutexInv, PageWriting, PageReading

LEMMA PageRLocked ==
  ASSUME TypeOK, PageMutexInv, NEW p \in Procs, page[p] \in Pages,
         NEW l \in PageReading, pc[p] \notin PageWriting \cup PageReading,
         pc' = [pc EXCEPT ![p] = l], page' = page,
         pageMutex' = [pageMutex EXCEPT ![page[p]] = RLock(pageMutex[page[p]], p)]
  PROVE  PageMutexInv'
<1>1. /\ pageMutex \in [Pages -> RWMutexes] /\ pageMutex[page[p]] \in RWMutexes
      /\ pc \in [Procs -> Labels]
      /\ ~Uses(pageMutex[page[p]], p)
  BY DEF TypeOK, PageMutexInv
<1>2. /\ pageMutex'[page[p]].writer = pageMutex[page[p]].writer
      /\ \A q : Uses(pageMutex'[page[p]], q) <=> Uses(pageMutex[page[p]], q) \/ q = p
  BY <1>1, RLockFacts
<1>3. QED
  BY <1>1, <1>2 DEF PageMutexInv, PageWriting, PageReading

LEMMA PageRUnlocked ==
  ASSUME TypeOK, PageMutexInv, NEW p \in Procs, page[p] \in Pages,
         NEW l \in Labels \ (PageWriting \cup PageReading),
         pc[p] \in PageReading, pc' = [pc EXCEPT ![p] = l], page' = page,
         RLocked(pageMutex[page[p]], p),
         pageMutex' = [pageMutex EXCEPT ![page[p]] = RUnlock(pageMutex[page[p]], p)]
  PROVE  PageMutexInv'
<1>1. /\ pageMutex \in [Pages -> RWMutexes] /\ pageMutex[page[p]] \in RWMutexes
      /\ pc \in [Procs -> Labels]
  BY DEF TypeOK
<1>2. /\ pageMutex'[page[p]].writer = pageMutex[page[p]].writer
      /\ \A q : Uses(pageMutex'[page[p]], q) <=> Uses(pageMutex[page[p]], q) /\ q # p
  BY <1>1, RUnlockFacts
<1>3. QED
  BY <1>1, <1>2 DEF PageMutexInv, PageWriting, PageReading

(* Every step keeps the labels and the mutex of the table in agreement. *)
LEMMA TableStep ==
  ASSUME TypeOK, TableInv, [Next]_vars
  PROVE  TableInv'
<1>1. CASE UNCHANGED vars
  BY <1>1 DEF vars, TableInv
<1>2. ASSUME NEW p \in Procs,
             \/ (\E k \in Keys, n \in 0 .. MaxAmount : StartPopulate(p, k, n))
             \/ (\E k \in Keys, n \in 0 .. MaxAmount : GetNothing(p, k)) \/ FillPage(p)
             \/ ReturnFromPopulate(p) \/ CreatePage(p) \/ RLockPage(p)
             \/ EnoughElements(p) \/ TooFewElements(p) \/ LockPage(p) \/ CreateElement(p)
             \/ AppendElement(p) \/ CannotCreateElement(p) \/ UnlockPage(p)
             \/ RLockAgain(p) \/ CopyElement(p) \/ ReturnElements(p)
      PROVE  TableInv'
  BY <1>2 DEF StartPopulate, GetNothing, FillPage, ReturnFromPopulate, CreatePage,
     RLockPage, EnoughElements, TooFewElements, LockPage, CreateElement,
     AppendElement, CannotCreateElement, UnlockPage, RLockAgain, CopyElement,
     ReturnElements, Call, NewCachePage, GoTo, OnPage, locals, contents, history,
     CanLock, TypeOK, TableInv, TableWriting
<1>3. ASSUME NEW p \in Procs, NEW k \in Keys, NEW n \in 0 .. MaxAmount, StartGet(p, k, n)
      PROVE  TableInv'
  <2>1. /\ tableMutex \in RWMutexes /\ ~Uses(tableMutex, p)
        /\ pc \in [Procs -> Labels] /\ pc' = [pc EXCEPT ![p] = "lookUp"]
        /\ pc[p] = "idle" /\ tableMutex' = RLock(tableMutex, p)
    BY <1>3 DEF StartGet, GoTo, OnTable, TypeOK, TableInv
  <2>2. /\ tableMutex'.writer = tableMutex.writer
        /\ \A q : Uses(tableMutex', q) <=> Uses(tableMutex, q) \/ q = p
    BY <2>1, RLockFacts
  <2>3. QED
    BY <2>1, <2>2 DEF TableInv, TableWriting
<1>4. ASSUME NEW p \in Procs, LockToPopulate(p)
      PROVE  TableInv'
  BY <1>4, TableLocked DEF LockToPopulate, GoTo, OnTable, TableWriting
<1>5. ASSUME NEW p \in Procs, RefuseToPopulate(p)
      PROVE  TableInv'
  BY <1>5, TableUnlocked DEF RefuseToPopulate, GoTo, OnTable, TableWriting, Labels
<1>6. ASSUME NEW p \in Procs, PopulatePage(p)
      PROVE  TableInv'
  BY <1>6, TableUnlocked DEF PopulatePage, GoTo, OnTable, TableWriting, Labels
<1>7. ASSUME NEW p \in Procs, LookUp(p)
      PROVE  TableInv'
  <2>1. /\ tableMutex \in RWMutexes /\ RLocked(tableMutex, p)
        /\ pc \in [Procs -> Labels] /\ pc[p] = "lookUp"
        /\ pc' = [pc EXCEPT ![p] = pc'[p]] /\ pc'[p] \in {"rlockPage", "newPage"}
        /\ tableMutex' = RUnlock(tableMutex, p)
    BY <1>7 DEF LookUp, GoTo, OnTable, TypeOK
  <2>2. /\ tableMutex'.writer = tableMutex.writer
        /\ \A q : Uses(tableMutex', q) <=> Uses(tableMutex, q) /\ q # p
    BY <2>1, RUnlockFacts
  <2>3. QED
    BY <2>1, <2>2 DEF TableInv, TableWriting
<1>8. ASSUME NEW p \in Procs, LockTable(p)
      PROVE  TableInv'
  BY <1>8, TableLocked DEF LockTable, GoTo, OnTable, TableWriting
<1>9. ASSUME NEW p \in Procs, Insert(p)
      PROVE  TableInv'
  BY <1>9, TableUnlocked DEF Insert, GoTo, OnTable, TableWriting, Labels
<1>10. QED
  BY <1>1, <1>2, <1>3, <1>4, <1>5, <1>6, <1>7, <1>8, <1>9 DEF Next, StartCall,
     LockStep, OtherStep

(* Every step keeps the labels and the mutexes of the pages in agreement. *)
LEMMA PageMutexStep ==
  ASSUME TypeOK, PageMutexInv, PageInv, [Next]_vars
  PROVE  PageMutexInv'
<1>1. CASE UNCHANGED vars
  BY <1>1 DEF vars, locals, PageMutexInv
<1>2. ASSUME NEW p \in Procs,
             \/ (\E k \in Keys, n \in 0 .. MaxAmount : StartPopulate(p, k, n))
             \/ (\E k \in Keys, n \in 0 .. MaxAmount : StartGet(p, k, n))
             \/ (\E k \in Keys, n \in 0 .. MaxAmount : GetNothing(p, k))
             \/ LockToPopulate(p) \/ RefuseToPopulate(p) \/ FillPage(p) \/ LookUp(p)
      PROVE  PageMutexInv'
  <2>1. /\ pageMutex' = pageMutex
        /\ \A q \in Procs :
             /\ pc'[q] \in PageWriting <=> pc[q] \in PageWriting
             /\ pc'[q] \in PageReading <=> pc[q] \in PageReading
             /\ pc[q] \in PageWriting \cup PageReading => page'[q] = page[q]
    BY <1>2 DEF StartPopulate, StartGet, GetNothing, LockToPopulate,
       RefuseToPopulate, FillPage, LookUp, Call, GoTo, OnTable, locals, contents,
       history, CanLock, TypeOK, PageWriting, PageReading
  <2>2. QED
    BY <2>1 DEF PageMutexInv
<1>3. ASSUME NEW p \in Procs,
             \/ CreatePage(p) \/ LockTable(p) \/ Insert(p) \/ EnoughElements(p)
             \/ CreateElement(p) \/ AppendElement(p) \/ CannotCreateElement(p)
             \/ CopyElement(p)
      PROVE  PageMutexInv'
  <2>1. /\ pageMutex' = pageMutex
        /\ \A q \in Procs :
             /\ pc'[q] \in PageWriting <=> pc[q] \in PageWriting
             /\ pc'[q] \in PageReading <=> pc[q] \in PageReading
             /\ pc[q] \in PageWriting \cup PageReading => page'[q] = page[q]
    BY <1>3 DEF CreatePage, LockTable, Insert, EnoughElements, CreateElement,
       AppendElement, CannotCreateElement, CopyElement, NewCachePage, GoTo, OnTable,
       locals, contents, history, CanLock, TypeOK, PageWriting, PageReading
  <2>2. QED
    BY <2>1 DEF PageMutexInv
<1>4. ASSUME NEW p \in Procs, PopulatePage(p)
      PROVE  PageMutexInv'
  <2> DEFINE pg == <<key[p], p>>
  <2>1. pg \in Pages /\ pageMutex[pg].writer \in Procs \cup {NoProc}
    BY DEF TypeOK, Pages, RWMutexes
  <2>2. ASSUME NEW q \in Procs, pageMutex[pg].writer = q
        PROVE  FALSE
    <3>1. page[q] = pg /\ pc[q] \in HavePage
      BY <2>1, <2>2 DEF PageMutexInv, HavePage
    <3>2. data[key[q]] = pg /\ key[q] \in Keys /\ pg[1] = key[p]
      BY <3>1 DEF PageInv, TypeOK
    <3>3. key[q] = key[p]
      BY <2>1, <3>2, CacheAssumption DEF PageInv
    <3>4. QED
      BY <1>4, <2>1, <3>2, <3>3, CacheAssumption DEF PopulatePage
  <2>3. CanLock(pageMutex[pg])
    BY <2>1, <2>2 DEF CanLock
  <2>4. QED
    BY <1>4, <2>1, <2>3, PageLocked
    DEF PopulatePage, NewCachePage, GoTo, PageWriting, PageReading
<1>5. ASSUME NEW p \in Procs, ReturnFromPopulate(p)
      PROVE  PageMutexInv'
  <2>1. page[p] \in Pages
    BY <1>5 DEF ReturnFromPopulate, TypeOK, PageInv, HavePage, PageWriting, PageReading
  <2>2. QED
    BY <1>5, <2>1, PageUnlocked DEF ReturnFromPopulate, GoTo, OnPage, locals,
       PageWriting, PageReading, Labels
<1>6. ASSUME NEW p \in Procs, RLockPage(p)
      PROVE  PageMutexInv'
  <2>1. page[p] \in Pages
    BY <1>6 DEF RLockPage, TypeOK, PageInv, HavePage, PageWriting, PageReading
  <2>2. QED
    BY <1>6, <2>1, PageRLocked DEF RLockPage, GoTo, OnPage, locals, PageWriting,
       PageReading, Labels
<1>7. ASSUME NEW p \in Procs, TooFewElements(p)
      PROVE  PageMutexInv'
  <2>1. page[p] \in Pages
    BY <1>7 DEF TooFewElements, TypeOK, PageInv, HavePage, PageWriting, PageReading
  <2>2. QED
    BY <1>7, <2>1, PageRUnlocked DEF TooFewElements, GoTo, OnPage, locals,
       PageWriting, PageReading, Labels
<1>8. ASSUME NEW p \in Procs, LockPage(p)
      PROVE  PageMutexInv'
  <2>1. page[p] \in Pages /\ page \in [Procs -> Pages \cup {NoPage}]
    BY <1>8 DEF LockPage, TypeOK, PageInv, HavePage
  <2>2. page' = [page EXCEPT ![p] = page[p]]
    BY <1>8, <2>1 DEF LockPage, locals
  <2>3. QED
    BY <1>8, <2>1, <2>2, PageLocked DEF LockPage, GoTo, OnPage, PageWriting, PageReading
<1>9. ASSUME NEW p \in Procs, UnlockPage(p)
      PROVE  PageMutexInv'
  <2>1. page[p] \in Pages
    BY <1>9 DEF UnlockPage, TypeOK, PageInv, HavePage, PageWriting, PageReading
  <2>2. QED
    BY <1>9, <2>1, PageUnlocked DEF UnlockPage, GoTo, OnPage, locals, PageWriting,
       PageReading, Labels
<1>10. ASSUME NEW p \in Procs, RLockAgain(p)
      PROVE  PageMutexInv'
  <2>1. page[p] \in Pages
    BY <1>10 DEF RLockAgain, TypeOK, PageInv, HavePage, PageWriting, PageReading
  <2>2. QED
    BY <1>10, <2>1, PageRLocked DEF RLockAgain, GoTo, OnPage, locals, PageWriting,
       PageReading, Labels
<1>11. ASSUME NEW p \in Procs, ReturnElements(p)
      PROVE  PageMutexInv'
  <2>1. page[p] \in Pages
    BY <1>11 DEF ReturnElements, TypeOK, PageInv, HavePage, PageWriting, PageReading
  <2>2. QED
    BY <1>11, <2>1, PageRUnlocked DEF ReturnElements, GoTo, OnPage, locals,
       PageWriting, PageReading, Labels
<1>12. QED
  BY <1>1, <1>2, <1>3, <1>4, <1>5, <1>6, <1>7, <1>8, <1>9, <1>10, <1>11 DEF Next,
     StartCall, LockStep, OtherStep
-----------------------------------------------------------------------------
(* Pages *)

(* A page that is being created is not in the table, under any key. *)
LEMMA NewPageNotInTable ==
  ASSUME TypeOK, PageInv, NEW q \in Procs, pc[q] \in Creating, NEW k \in Keys
  PROVE  data[k] # <<key[q], q>>
<1>1. <<key[q], q>> \in Pages /\ <<key[q], q>>[1] = key[q]
  BY DEF TypeOK, Pages
<1>2. ASSUME data[k] = <<key[q], q>> PROVE k = key[q]
  BY <1>1, <1>2, CacheAssumption DEF PageInv
<1>3. QED
  BY <1>2 DEF PageInv

(* So nobody else works on it. *)
LEMMA NewPageIsPrivate ==
  ASSUME TypeOK, PageInv, NEW p \in Procs, NEW q \in Procs,
         pc[p] \in HavePage, pc[q] \in Creating
  PROVE  page[p] \in Pages /\ page[p] # <<key[q], q>>
<1>1. page[p] \in Pages /\ data[key[p]] = page[p] /\ key[p] \in Keys
  BY DEF PageInv, TypeOK
<1>2. QED
  BY <1>1, NewPageNotInTable

(* A page that a goroutine works on belongs to its key, and only to that. *)
LEMMA PageOfKey ==
  ASSUME TypeOK, PageInv, NEW p \in Procs, pc[p] \in HavePage
  PROVE  /\ page[p] \in Pages /\ key[p] \in Keys /\ data[key[p]] = page[p]
         /\ \A k \in Keys : data[k] = page[p] => k = key[p]
<1>1. page[p] \in Pages /\ key[p] \in Keys /\ data[key[p]] = page[p]
  BY DEF PageInv, TypeOK
<1>2. ASSUME NEW k \in Keys, data[k] = page[p] PROVE k = key[p]
  BY <1>1, <1>2, CacheAssumption DEF PageInv
<1>3. QED
  BY <1>1, <1>2

(* Every step keeps the types of the variables. *)
LEMMA TypeStep ==
  ASSUME TypeOK, PageInv, TableInv, PageMutexInv, CopyInv, [Next]_vars
  PROVE  TypeOK'
<1>1. CASE UNCHANGED vars
  BY <1>1 DEF vars, TypeOK, locals, contents, history
<1>2. ASSUME NEW p \in Procs,
             \/ (\E k \in Keys, n \in 0 .. MaxAmount : StartPopulate(p, k, n))
             \/ EnoughElements(p) \/ CannotCreateElement(p)
      PROVE  TypeOK'
  <2>1. ASSUME NEW k \in Keys, NEW n \in 0 .. MaxAmount, StartPopulate(p, k, n)
        PROVE  TypeOK'
    BY <2>1 DEF StartPopulate, Call, GoTo, contents, history, TypeOK, Labels
  <2>2. CASE EnoughElements(p) \/ CannotCreateElement(p)
    BY <2>2 DEF EnoughElements, CannotCreateElement, GoTo, locals, contents, history,
       TypeOK, Labels
  <2>3. QED
    BY <1>2, <2>1, <2>2
<1>3. ASSUME NEW p \in Procs, NEW k \in Keys, NEW n \in 0 .. MaxAmount, StartGet(p, k, n)
      PROVE  TypeOK'
  <2>1. tableMutex \in RWMutexes /\ ~Uses(tableMutex, p)
    BY <1>3 DEF StartGet, TypeOK, TableInv
  <2>2. RLock(tableMutex, p) \in RWMutexes
    BY <2>1, RLockFacts
  <2>3. QED
    BY <1>3, <2>2 DEF StartGet, Call, GoTo, OnTable, contents, history, TypeOK, Labels
<1>4. ASSUME NEW p \in Procs, NEW k \in Keys, GetNothing(p, k)
      PROVE  TypeOK'
  <2>1. <<>> \in Seq(Elements)
    OBVIOUS
  <2>2. QED
    BY <1>4, <2>1 DEF GetNothing, locals, contents, TypeOK
<1>5. ASSUME NEW p \in Procs, LockToPopulate(p)
      PROVE  TypeOK'
  <2>1. Lock(tableMutex, p) \in RWMutexes
    BY LockFacts DEF TypeOK
  <2>2. QED
    BY <1>5, <2>1 DEF LockToPopulate, GoTo, OnTable, locals, contents, history,
       TypeOK, Labels
<1>6. ASSUME NEW p \in Procs, RefuseToPopulate(p)
      PROVE  TypeOK'
  <2>1. Unlock(tableMutex) \in RWMutexes
    BY <1>6, UnlockFacts DEF RefuseToPopulate, TypeOK
  <2>2. QED
    BY <1>6, <2>1 DEF RefuseToPopulate, GoTo, OnTable, locals, contents, history,
       TypeOK, Labels
<1>7. ASSUME NEW p \in Procs, PopulatePage(p)
      PROVE  TypeOK'
  <2> DEFINE pg == <<key[p], p>>
  <2>1. pg \in Pages /\ <<>> \in Seq(Elements)
    BY DEF TypeOK, Pages
  <2>2. Unlock(tableMutex) \in RWMutexes /\ Lock(pageMutex[pg], p) \in RWMutexes
    BY <1>7, <2>1, UnlockFacts, LockFacts DEF PopulatePage, TypeOK
  <2>3. QED
    BY <1>7, <2>1, <2>2 DEF PopulatePage, NewCachePage, GoTo, TypeOK, Labels
<1>8. ASSUME NEW p \in Procs, FillPage(p)
      PROVE  TypeOK'
  <2>1. page[p] \in Pages
    BY <1>8 DEF FillPage, TypeOK, PageInv, HavePage, PageWriting, PageReading
  <2>2. <<key[p], "entry", Len(elements[page[p]]) + 1>> \in Elements
    BY <2>1 DEF TypeOK, Elements
  <2>3. Append(elements[page[p]], <<key[p], "entry", Len(elements[page[p]]) + 1>>)
          \in Seq(Elements)
    BY <2>1, <2>2 DEF TypeOK
  <2>4. QED
    BY <1>8, <2>3 DEF FillPage, locals, history, TypeOK
<1>9. ASSUME NEW p \in Procs, ReturnFromPopulate(p)
      PROVE  TypeOK'
  <2>1. page[p] \in Pages
    BY <1>9 DEF ReturnFromPopulate, TypeOK, PageInv, HavePage, PageWriting, PageReading
  <2>2. Unlock(pageMutex[page[p]]) \in RWMutexes
    BY <1>9, <2>1, UnlockFacts DEF ReturnFromPopulate, TypeOK
  <2>3. QED
    BY <1>9, <2>2 DEF ReturnFromPopulate, GoTo, OnPage, contents, locals, history,
       TypeOK, Labels
<1>10. ASSUME NEW p \in Procs, LookUp(p)
      PROVE  TypeOK'
  <2>1. RUnlock(tableMutex, p) \in RWMutexes
    BY <1>10, RUnlockFacts DEF LookUp, TypeOK
  <2>2. QED
    BY <1>10, <2>1 DEF LookUp, GoTo, OnTable, contents, history, TypeOK, Labels
<1>11. ASSUME NEW p \in Procs, CreatePage(p)
      PROVE  TypeOK'
  <2>1. <<key[p], p>> \in Pages /\ <<>> \in Seq(Elements)
    BY DEF TypeOK, Pages
  <2>2. QED
    BY <1>11, <2>1 DEF CreatePage, NewCachePage, GoTo, history, TypeOK, Labels
<1>12. ASSUME NEW p \in Procs, LockTable(p)
      PROVE  TypeOK'
  <2>1. Lock(tableMutex, p) \in RWMutexes
    BY LockFacts DEF TypeOK
  <2>2. QED
    BY <1>12, <2>1 DEF LockTable, GoTo, OnTable, locals, contents, history, TypeOK, Labels
<1>13. ASSUME NEW p \in Procs, Insert(p)
      PROVE  TypeOK'
  <2>1. Unlock(tableMutex) \in RWMutexes
    BY <1>13, UnlockFacts DEF Insert, TypeOK
  <2>2. QED
    BY <1>13, <2>1 DEF Insert, GoTo, OnTable, history, TypeOK, Labels
<1>14. ASSUME NEW p \in Procs, RLockPage(p)
      PROVE  TypeOK'
  <2>1. page[p] \in Pages
    BY <1>14 DEF RLockPage, TypeOK, PageInv, HavePage, PageWriting, PageReading
  <2>2. ~Uses(pageMutex[page[p]], p)
    BY <1>14, <2>1 DEF RLockPage, PageMutexInv, PageReading
  <2>3. RLock(pageMutex[page[p]], p) \in RWMutexes
    BY <2>1, <2>2, RLockFacts DEF TypeOK
  <2>4. QED
    BY <1>14, <2>3 DEF RLockPage, GoTo, OnPage, locals, contents, history, TypeOK, Labels
<1>15. ASSUME NEW p \in Procs, TooFewElements(p)
      PROVE  TypeOK'
  <2>1. page[p] \in Pages
    BY <1>15 DEF TooFewElements, TypeOK, PageInv, HavePage, PageWriting, PageReading
  <2>2. RUnlock(pageMutex[page[p]], p) \in RWMutexes
    BY <1>15, <2>1, RUnlockFacts DEF TooFewElements, TypeOK
  <2>3. QED
    BY <1>15, <2>2 DEF TooFewElements, GoTo, OnPage, contents, locals, history,
       TypeOK, Labels
<1>16. ASSUME NEW p \in Procs, LockPage(p)
      PROVE  TypeOK'
  <2>1. page[p] \in Pages
    BY <1>16 DEF LockPage, TypeOK, PageInv, HavePage, PageWriting, PageReading
  <2>2. Lock(pageMutex[page[p]], p) \in RWMutexes
    BY <1>16, <2>1, LockFacts DEF LockPage, TypeOK
  <2>3. QED
    BY <1>16, <2>2 DEF LockPage, GoTo, OnPage, contents, locals, history, TypeOK, Labels
<1>17. ASSUME NEW p \in Procs, CreateElement(p)
      PROVE  TypeOK'
  <2>1. page[p] \in Pages
    BY <1>17 DEF CreateElement, TypeOK, PageInv, HavePage, PageWriting, PageReading
  <2>2. QED
    BY <1>17, <2>1 DEF CreateElement, GoTo, locals, history, TypeOK, Labels
<1>18. ASSUME NEW p \in Procs, AppendElement(p)
      PROVE  TypeOK'
  <2>1. page[p] \in Pages
    BY <1>18 DEF AppendElement, TypeOK, PageInv, HavePage, PageWriting, PageReading
  <2>2. <<key[p], "draw", drawn[page[p]]>> \in Elements
    BY <2>1 DEF TypeOK, Elements
  <2>3. Append(elements[page[p]], <<key[p], "draw", drawn[page[p]]>>) \in Seq(Elements)
    BY <2>1, <2>2 DEF TypeOK
  <2>4. QED
    BY <1>18, <2>3 DEF AppendElement, GoTo, locals, history, TypeOK, Labels
<1>19. ASSUME NEW p \in Procs, UnlockPage(p)
      PROVE  TypeOK'
  <2>1. page[p] \in Pages
    BY <1>19 DEF UnlockPage, TypeOK, PageInv, HavePage, PageWriting, PageReading
  <2>2. Unlock(pageMutex[page[p]]) \in RWMutexes
    BY <1>19, <2>1, UnlockFacts DEF UnlockPage, TypeOK
  <2>3. QED
    BY <1>19, <2>2 DEF UnlockPage, GoTo, OnPage, contents, locals, history, TypeOK, Labels
<1>20. ASSUME NEW p \in Procs, RLockAgain(p)
      PROVE  TypeOK'
  <2>1. page[p] \in Pages
    BY <1>20 DEF RLockAgain, TypeOK, PageInv, HavePage, PageWriting, PageReading
  <2>2. ~Uses(pageMutex[page[p]], p)
    BY <1>20, <2>1 DEF RLockAgain, PageMutexInv, PageReading
  <2>3. RLock(pageMutex[page[p]], p) \in RWMutexes
    BY <2>1, <2>2, RLockFacts DEF TypeOK
  <2>4. QED
    BY <1>20, <2>3 DEF RLockAgain, GoTo, OnPage, locals, contents, history, TypeOK, Labels
<1>21. ASSUME NEW p \in Procs, CopyElement(p)
      PROVE  TypeOK'
  <2>1. page[p] \in Pages
    BY <1>21 DEF CopyElement, TypeOK, PageInv, HavePage, PageWriting, PageReading
  <2>2. Len(ret[p]) + 1 \in 1 .. Len(elements[page[p]])
    BY <1>21, <2>1 DEF CopyElement, TypeOK, CopyInv
  <2>3. Append(ret[p], elements[page[p]][Len(ret[p]) + 1]) \in Seq(Elements)
    BY <2>1, <2>2 DEF TypeOK
  <2>4. QED
    BY <1>21, <2>3 DEF CopyElement, contents, history, TypeOK
<1>22. ASSUME NEW p \in Procs, ReturnElements(p)
      PROVE  TypeOK'
  <2>1. page[p] \in Pages
    BY <1>22 DEF ReturnElements, TypeOK, PageInv, HavePage, PageWriting, PageReading
  <2>2. RUnlock(pageMutex[page[p]], p) \in RWMutexes
    BY <1>22, <2>1, RUnlockFacts DEF ReturnElements, TypeOK
  <2>3. returned' \in [Keys -> SUBSET Seq(Elements)]
    BY <1>22 DEF ReturnElements, TypeOK
  <2>4. pageMutex' \in [Pages -> RWMutexes] /\ pc' \in [Procs -> Labels]
    BY <1>22, <2>2 DEF ReturnElements, OnPage, GoTo, TypeOK, Labels
  <2>5. QED
    BY <1>22, <2>3, <2>4 DEF ReturnElements, OnPage, locals, contents, TypeOK
<1>23. QED
  BY <1>1, <1>2, <1>3, <1>4, <1>5, <1>6, <1>7, <1>8, <1>9, <1>10, <1>11, <1>12,
     <1>13, <1>14, <1>15, <1>16, <1>17, <1>18, <1>19, <1>20, <1>21, <1>22 DEF Next,
     StartCall, LockStep, OtherStep

(* Every step keeps new pages private and the others at their keys. *)
LEMMA PageStep ==
  ASSUME TypeOK, PageInv, [Next]_vars
  PROVE  PageInv'
<1>1. CASE UNCHANGED vars
  BY <1>1 DEF vars, PageInv, locals, contents, history
<1>2. ASSUME NEW p \in Procs,
             \/ (\E k \in Keys, n \in 0 .. MaxAmount : StartPopulate(p, k, n))
             \/ (\E k \in Keys, n \in 0 .. MaxAmount : StartGet(p, k, n))
             \/ (\E k \in Keys, n \in 0 .. MaxAmount : GetNothing(p, k))
             \/ LockToPopulate(p) \/ RefuseToPopulate(p) \/ ReturnFromPopulate(p)
             \/ LockTable(p) \/ RLockPage(p) \/ EnoughElements(p) \/ TooFewElements(p)
             \/ LockPage(p)
      PROVE  PageInv'
  <2>1. /\ UNCHANGED <<data, elements, drawn, prepopulated>>
        /\ \A k \in Keys : data[k] = NoPage => returned'[k] \subseteq returned[k] \cup {<<>>}
        /\ \A q \in Procs :
             /\ pc'[q] \in HavePage \cup Creating => key'[q] = key[q] /\ page'[q] = page[q]
             /\ pc'[q] \in HavePage => pc[q] \in HavePage
             /\ pc'[q] \in Creating => pc[q] \in Creating
             /\ pc'[q] \in {"lockTable", "insert"} => pc[q] \in {"lockTable", "insert"}
    <3>1. CASE \E k \in Keys, n \in 0 .. MaxAmount :
                 StartPopulate(p, k, n) \/ StartGet(p, k, n) \/ GetNothing(p, k)
      BY <3>1 DEF StartPopulate, StartGet, GetNothing, Call, GoTo, OnTable, locals,
         contents, history, TypeOK, HavePage, PageWriting, PageReading, Creating
    <3>2. CASE LockToPopulate(p) \/ RefuseToPopulate(p) \/ ReturnFromPopulate(p)
               \/ LockTable(p)
      BY <3>2 DEF LockToPopulate, RefuseToPopulate, ReturnFromPopulate, LockTable, GoTo,
         OnTable, OnPage, locals, contents, history, TypeOK, HavePage, PageWriting,
         PageReading, Creating
    <3>3. CASE RLockPage(p) \/ EnoughElements(p) \/ TooFewElements(p) \/ LockPage(p)
      BY <3>3 DEF RLockPage, EnoughElements, TooFewElements, LockPage, GoTo, OnPage,
         locals, contents, history, TypeOK, HavePage, PageWriting, PageReading, Creating
    <3>4. QED
      BY <1>2, <3>1, <3>2, <3>3
  <2>2. QED
    BY <2>1 DEF PageInv, Creating
<1>3. ASSUME NEW p \in Procs,
             \/ CannotCreateElement(p) \/ UnlockPage(p) \/ RLockAgain(p)
             \/ CopyElement(p)
      PROVE  PageInv'
  <2>1. /\ UNCHANGED <<data, elements, drawn, prepopulated>>
        /\ \A k \in Keys : data[k] = NoPage => returned'[k] \subseteq returned[k] \cup {<<>>}
        /\ \A q \in Procs :
             /\ pc'[q] \in HavePage \cup Creating => key'[q] = key[q] /\ page'[q] = page[q]
             /\ pc'[q] \in HavePage => pc[q] \in HavePage
             /\ pc'[q] \in Creating => pc[q] \in Creating
             /\ pc'[q] \in {"lockTable", "insert"} => pc[q] \in {"lockTable", "insert"}
    BY <1>3 DEF CannotCreateElement, UnlockPage, RLockAgain, CopyElement, GoTo,
       OnPage, locals, contents, history, TypeOK, HavePage, PageWriting, PageReading,
       Creating
  <2>2. QED
    BY <2>1 DEF PageInv, Creating
<1>4. ASSUME NEW p \in Procs, PopulatePage(p)
      PROVE  PageInv'
  <2> DEFINE pg == <<key[p], p>>
  <2>1. pg \in Pages /\ pg[1] = key[p] /\ key[p] \in Keys
    BY DEF TypeOK, Pages
  <2>2. /\ page' = [page EXCEPT ![p] = pg] /\ pc' = [pc EXCEPT ![p] = "fill"]
        /\ elements' = [elements EXCEPT ![pg] = <<>>] /\ drawn' = [drawn EXCEPT ![pg] = 0]
        /\ data' = [data EXCEPT ![key[p]] = pg]
        /\ prepopulated' = [prepopulated EXCEPT ![key[p]] = amount[p]]
        /\ UNCHANGED <<key, returned>>
    BY <1>4 DEF PopulatePage, NewCachePage, GoTo
  <2>3. data[key[p]] = NoPage
    BY <1>4 DEF PopulatePage
  <2>4. /\ \A k \in Keys : data'[k] # NoPage => data'[k][1] = k
        /\ \A k \in Keys : data'[k] = NoPage =>
             prepopulated'[k] = 0 /\ returned'[k] \subseteq {<<>>}
    BY <2>1, <2>2, <2>3, CacheAssumption DEF PageInv, TypeOK
  <2>5. ASSUME NEW q \in Procs
        PROVE  /\ pc'[q] \in HavePage => page'[q] # NoPage /\ data'[key'[q]] = page'[q]
               /\ pc'[q] \in Creating => data'[key'[q]] # <<key'[q], q>>
    <3>1. CASE q = p
      BY <2>1, <2>2, <2>3, <3>1, CacheAssumption DEF PageInv, TypeOK,
         HavePage, PageWriting, PageReading, Creating
    <3>2. CASE q # p
      <4>1. pc'[q] = pc[q] /\ page'[q] = page[q] /\ key'[q] = key[q] /\ key[q] \in Keys
        BY <2>2, <3>2 DEF TypeOK
      <4>2. pg # <<key[q], q>>
        BY <3>2
      <4>3. data[key[q]] # NoPage => data'[key[q]] = data[key[q]]
        BY <2>2, <2>3, <4>1 DEF TypeOK
      <4>4. data'[key[q]] \in {data[key[q]], pg}
        BY <2>2, <2>3, <4>1 DEF TypeOK
      <4>5. QED
        BY <4>1, <4>2, <4>3, <4>4 DEF PageInv
    <3>3. QED
      BY <3>1, <3>2
  <2>6. ASSUME NEW q \in Procs, pc'[q] \in {"lockTable", "insert"}
        PROVE  /\ page'[q] = <<key'[q], q>>
               /\ elements'[page'[q]] = <<>> /\ drawn'[page'[q]] = 0
    <3>1. q # p /\ pc'[q] = pc[q] /\ page'[q] = page[q] /\ key'[q] = key[q]
      BY <2>2, <2>6 DEF TypeOK
    <3>2. page[q] = <<key[q], q>> /\ key[q] \in Keys
      BY <2>6, <3>1 DEF PageInv, TypeOK
    <3>3. pg # <<key[q], q>>
      BY <3>1
    <3>4. QED
      BY <2>1, <2>2, <2>6, <3>1, <3>2, <3>3 DEF PageInv, TypeOK, Pages
  <2>7. QED
    BY <2>4, <2>5, <2>6 DEF PageInv
<1>5. ASSUME NEW p \in Procs, FillPage(p)
      PROVE  PageInv'
  <2>1. page[p] \in Pages /\ pc[p] \in HavePage
    BY <1>5, PageOfKey DEF FillPage, HavePage, PageWriting
  <2>2. \A q \in Procs : pc[q] \in {"lockTable", "insert"} => page[q] # page[p]
    BY <2>1, NewPageIsPrivate DEF PageInv, Creating
  <2>3. QED
    BY <1>5, <2>1, <2>2 DEF FillPage, locals, history, TypeOK, PageInv,
       HavePage, PageWriting, PageReading, Creating
<1>6. ASSUME NEW p \in Procs, LookUp(p)
      PROVE  PageInv'
  <2>1. NoPage # <<key[p], p>> /\ NoPage \notin Pages
    BY CacheAssumption DEF TypeOK, Pages
  <2>2. QED
    BY <1>6, <2>1 DEF LookUp, GoTo, contents, history, TypeOK, PageInv,
       HavePage, PageWriting, PageReading, Creating
<1>7. ASSUME NEW p \in Procs, CreatePage(p)
      PROVE  PageInv'
  <2> DEFINE pg == <<key[p], p>>
  <2>1. pg \in Pages /\ pc[p] \in Creating
    BY <1>7 DEF CreatePage, TypeOK, Pages, Creating
  <2>2. /\ page' = [page EXCEPT ![p] = pg] /\ pc' = [pc EXCEPT ![p] = "lockTable"]
        /\ elements' = [elements EXCEPT ![pg] = <<>>] /\ drawn' = [drawn EXCEPT ![pg] = 0]
        /\ UNCHANGED <<data, key, prepopulated, returned>>
    BY <1>7 DEF CreatePage, NewCachePage, GoTo, history
  <2>3. /\ \A k \in Keys : data'[k] # NoPage => data'[k][1] = k
        /\ \A k \in Keys : data'[k] = NoPage =>
             prepopulated'[k] = 0 /\ returned'[k] \subseteq {<<>>}
    BY <2>2 DEF PageInv
  <2>4. ASSUME NEW q \in Procs
        PROVE  /\ pc'[q] \in HavePage => page'[q] # NoPage /\ data'[key'[q]] = page'[q]
               /\ pc'[q] \in Creating => data'[key'[q]] # <<key'[q], q>>
    BY <1>7, <2>1, <2>2 DEF CreatePage, PageInv, TypeOK,
       HavePage, PageWriting, PageReading, Creating
  <2>5. ASSUME NEW q \in Procs, pc'[q] \in {"lockTable", "insert"}
        PROVE  /\ page'[q] = <<key'[q], q>>
               /\ elements'[page'[q]] = <<>> /\ drawn'[page'[q]] = 0
    <3>1. CASE q = p
      BY <2>1, <2>2, <3>1 DEF TypeOK
    <3>2. CASE q # p
      <4>1. page[q] = <<key[q], q>> /\ pc[q] \in {"lockTable", "insert"} /\ page'[q] = page[q]
        BY <2>2, <2>5, <3>2 DEF PageInv, TypeOK
      <4>2. page[q] # pg /\ page[q] \in Pages
        BY <3>2, <4>1 DEF TypeOK, Pages
      <4>3. QED
        BY <2>1, <2>2, <4>1, <4>2 DEF PageInv, TypeOK
    <3>3. QED
      BY <3>1, <3>2
  <2>6. QED
    BY <2>3, <2>4, <2>5 DEF PageInv
<1>8. ASSUME NEW p \in Procs, Insert(p)
      PROVE  PageInv'
  <2>1. CASE data[key[p]] # NoPage
    BY <1>8, <2>1 DEF Insert, GoTo, history, TypeOK, PageInv,
       HavePage, PageWriting, PageReading, Creating
  <2>2. CASE data[key[p]] = NoPage
    <3> DEFINE pg == <<key[p], p>>
    <3>1. pg \in Pages /\ pg[1] = key[p] /\ key[p] \in Keys
      BY DEF TypeOK, Pages
    <3>2. /\ page[p] = pg /\ page' = page /\ pc' = [pc EXCEPT ![p] = "rlockPage"]
          /\ data' = [data EXCEPT ![key[p]] = pg]
          /\ UNCHANGED <<key, elements, drawn, prepopulated, returned>>
      BY <1>8, <2>2 DEF Insert, GoTo, history, PageInv
    <3>3. data[key[p]] = NoPage
      BY <2>2
    <3>4. /\ \A k \in Keys : data'[k] # NoPage => data'[k][1] = k
          /\ \A k \in Keys : data'[k] = NoPage =>
               prepopulated'[k] = 0 /\ returned'[k] \subseteq {<<>>}
      BY <3>1, <3>2, <3>3, CacheAssumption DEF PageInv, TypeOK
    <3>5. ASSUME NEW q \in Procs
          PROVE  /\ pc'[q] \in HavePage => page'[q] # NoPage /\ data'[key'[q]] = page'[q]
                 /\ pc'[q] \in Creating => data'[key'[q]] # <<key'[q], q>>
      <4>1. CASE q = p
        <5>1. pc'[p] \notin Creating
          BY <3>2 DEF TypeOK, Creating
        <5>2. page'[p] = pg /\ pg # NoPage /\ key'[p] = key[p]
          BY <3>1, <3>2, CacheAssumption
        <5>3. data'[key[p]] = pg
          BY <3>1, <3>2 DEF TypeOK
        <5>4. QED
          BY <4>1, <5>1, <5>2, <5>3
      <4>2. CASE q # p
        <5>1. pc'[q] = pc[q] /\ page'[q] = page[q] /\ key'[q] = key[q] /\ key[q] \in Keys
          BY <3>2, <4>2 DEF TypeOK
        <5>2. pg # <<key[q], q>>
          BY <4>2
        <5>3. data[key[q]] # NoPage => data'[key[q]] = data[key[q]]
          BY <3>2, <3>3, <5>1 DEF TypeOK
        <5>4. data'[key[q]] \in {data[key[q]], pg}
          BY <3>2, <3>3, <5>1 DEF TypeOK
        <5>5. QED
          BY <5>1, <5>2, <5>3, <5>4 DEF PageInv
      <4>3. QED
        BY <4>1, <4>2
    <3>6. ASSUME NEW q \in Procs, pc'[q] \in {"lockTable", "insert"}
          PROVE  /\ page'[q] = <<key'[q], q>>
                 /\ elements'[page'[q]] = <<>> /\ drawn'[page'[q]] = 0
      <4>1. q # p /\ pc'[q] = pc[q] /\ page'[q] = page[q] /\ key'[q] = key[q]
        BY <3>2, <3>6 DEF TypeOK
      <4>2. page[q] = <<key[q], q>> /\ key[q] \in Keys
        BY <3>6, <4>1 DEF PageInv, TypeOK
      <4>3. pg # <<key[q], q>>
        BY <4>1
      <4>4. QED
        BY <3>1, <3>2, <3>6, <4>1, <4>2, <4>3 DEF PageInv, TypeOK, Pages
    <3>7. QED
      BY <3>4, <3>5, <3>6 DEF PageInv
  <2>3. QED
    BY <2>1, <2>2
<1>9. ASSUME NEW p \in Procs, CreateElement(p)
      PROVE  PageInv'
  <2>1. page[p] \in Pages /\ pc[p] \in HavePage
    BY <1>9, PageOfKey DEF CreateElement, HavePage, PageWriting
  <2>2. \A q \in Procs : pc[q] \in {"lockTable", "insert"} => page[q] # page[p]
    BY <2>1, NewPageIsPrivate DEF PageInv, Creating
  <2>3. QED
    BY <1>9, <2>1, <2>2 DEF CreateElement, GoTo, locals, history, TypeOK, PageInv,
       HavePage, PageWriting, PageReading, Creating
<1>10. ASSUME NEW p \in Procs, AppendElement(p)
      PROVE  PageInv'
  <2>1. page[p] \in Pages /\ pc[p] \in HavePage
    BY <1>10, PageOfKey DEF AppendElement, HavePage, PageWriting
  <2>2. \A q \in Procs : pc[q] \in {"lockTable", "insert"} => page[q] # page[p]
    BY <2>1, NewPageIsPrivate DEF PageInv, Creating
  <2>3. QED
    BY <1>10, <2>1, <2>2 DEF AppendElement, GoTo, locals, history, TypeOK, PageInv,
       HavePage, PageWriting, PageReading, Creating
<1>11. ASSUME NEW p \in Procs, ReturnElements(p)
      PROVE  PageInv'
  <2>1. data[key[p]] # NoPage /\ key[p] \in Keys
    BY <1>11, CacheAssumption, PageOfKey DEF ReturnElements, HavePage, PageReading
  <2>2. /\ pc' = [pc EXCEPT ![p] = "idle"] /\ returned' = [returned EXCEPT ![key[p]] = @ \cup {ret[p]}]
        /\ UNCHANGED <<data, elements, drawn, key, page, prepopulated>>
    BY <1>11 DEF ReturnElements, GoTo, contents, locals
  <2>3. \A k \in Keys : data[k] = NoPage => returned'[k] = returned[k]
    BY <2>1, <2>2 DEF TypeOK
  <2>4. \A q \in Procs : pc'[q] = pc[q] \/ pc'[q] = "idle"
    BY <2>2 DEF TypeOK
  <2>5. QED
    BY <2>2, <2>3, <2>4 DEF PageInv, HavePage, PageWriting, PageReading, Creating
<1>12. QED
  BY <1>1, <1>2, <1>3, <1>4, <1>5, <1>6, <1>7, <1>8, <1>9, <1>10, <1>11 DEF Next,
     StartCall, LockStep, OtherStep
-----------------------------------------------------------------------------
(* Lists *)

(* A page has at most one goroutine that changes it. *)
LEMMA OneWriter ==
  ASSUME TypeOK, PageInv, PageMutexInv, NEW p \in Procs, NEW q \in Procs,
         pc[p] \in PageWriting, pc[q] \in PageWriting, page[p] = page[q]
  PROVE  p = q
<1>1. page[p] \in Pages
  BY DEF PageInv, TypeOK, HavePage
<1>2. QED
  BY <1>1 DEF PageMutexInv

(* A goroutine that is about to extend a page finds it complete. *)
LEMMA CompleteUnlessBusy ==
  ASSUME TypeOK, PageInv, PageMutexInv, ListInv, NEW p \in Procs, pc[p] = "extend"
  PROVE  drawn[page[p]] + prepopulated[key[p]] = Len(elements[page[p]])
<1>1. page[p] \in Pages /\ key[p] \in Keys /\ data[key[p]] = page[p]
  BY PageOfKey DEF HavePage, PageWriting
<1>2. ~BusyFilling(page[p])
  BY OneWriter DEF BusyFilling, PageWriting
<1>3. QED
  BY <1>1, <1>2, CacheAssumption DEF ListInv

(* Every step keeps the pages in step with their generators. *)
LEMMA ListStep ==
  ASSUME TypeOK, PageInv, PageMutexInv, ListInv, [Next]_vars
  PROVE  ListInv'
<1>1. CASE UNCHANGED vars
  BY <1>1 DEF vars, ListInv, BusyFilling, ListElement, locals, contents, history
<1>2. ASSUME NEW p \in Procs,
             \/ (\E k \in Keys, n \in 0 .. MaxAmount : StartPopulate(p, k, n))
             \/ (\E k \in Keys, n \in 0 .. MaxAmount : StartGet(p, k, n))
             \/ (\E k \in Keys, n \in 0 .. MaxAmount : GetNothing(p, k))
             \/ LockToPopulate(p) \/ RefuseToPopulate(p) \/ LookUp(p)
      PROVE  ListInv'
  <2>1. /\ UNCHANGED <<data, elements, drawn, prepopulated>>
        /\ \A q \in Procs : /\ pc'[q] = "append" <=> pc[q] = "append"
                            /\ pc'[q] = "fill" <=> pc[q] = "fill"
                            /\ pc[q] \in {"append", "fill"} =>
                                 key'[q] = key[q] /\ page'[q] = page[q] /\ amount'[q] = amount[q]
    BY <1>2 DEF StartPopulate, StartGet, GetNothing, LockToPopulate,
       RefuseToPopulate, LookUp, Call, GoTo, OnTable, locals, contents, history,
       CanLock, TypeOK
  <2>2. QED
    BY <2>1 DEF ListInv, BusyFilling, ListElement
<1>3. ASSUME NEW p \in Procs,
             \/ LockTable(p) \/ RLockPage(p) \/ EnoughElements(p) \/ TooFewElements(p)
             \/ LockPage(p)
      PROVE  ListInv'
  <2>1. /\ UNCHANGED <<data, elements, drawn, prepopulated>>
        /\ \A q \in Procs : /\ pc'[q] = "append" <=> pc[q] = "append"
                            /\ pc'[q] = "fill" <=> pc[q] = "fill"
                            /\ pc[q] \in {"append", "fill"} =>
                                 key'[q] = key[q] /\ page'[q] = page[q] /\ amount'[q] = amount[q]
    BY <1>3 DEF LockTable, RLockPage, EnoughElements, TooFewElements, LockPage, GoTo,
       OnTable, OnPage, locals, contents, history, CanLock, TypeOK
  <2>2. QED
    BY <2>1 DEF ListInv, BusyFilling, ListElement
<1>4. ASSUME NEW p \in Procs,
             \/ CannotCreateElement(p) \/ UnlockPage(p) \/ RLockAgain(p)
             \/ CopyElement(p) \/ ReturnElements(p)
      PROVE  ListInv'
  <2>1. /\ UNCHANGED <<data, elements, drawn, prepopulated>>
        /\ \A q \in Procs : /\ pc'[q] = "append" <=> pc[q] = "append"
                            /\ pc'[q] = "fill" <=> pc[q] = "fill"
                            /\ pc[q] \in {"append", "fill"} =>
                                 key'[q] = key[q] /\ page'[q] = page[q] /\ amount'[q] = amount[q]
    BY <1>4 DEF CannotCreateElement, UnlockPage, RLockAgain, CopyElement,
       ReturnElements, GoTo, OnPage, locals, contents, history, TypeOK
  <2>2. QED
    BY <2>1 DEF ListInv, BusyFilling, ListElement
<1>5. ASSUME NEW p \in Procs, PopulatePage(p)
      PROVE  ListInv'
  <2> DEFINE pg == <<key[p], p>>
  <2>1. /\ pg \in Pages /\ pg[1] = key[p] /\ key[p] \in Keys /\ data[key[p]] = NoPage
        /\ pc[p] = "populate" /\ amount[p] \in Nat
    BY <1>5 DEF PopulatePage, TypeOK, Pages
  <2>2. /\ page' = [page EXCEPT ![p] = pg] /\ pc' = [pc EXCEPT ![p] = "fill"]
        /\ elements' = [elements EXCEPT ![pg] = <<>>] /\ drawn' = [drawn EXCEPT ![pg] = 0]
        /\ data' = [data EXCEPT ![key[p]] = pg]
        /\ prepopulated' = [prepopulated EXCEPT ![key[p]] = amount[p]]
        /\ UNCHANGED <<key, amount>>
    BY <1>5 DEF PopulatePage, NewCachePage, GoTo
  <2>3. /\ page'[p] = pg /\ pc'[p] = "fill" /\ elements'[pg] = <<>> /\ drawn'[pg] = 0
        /\ data'[key[p]] = pg /\ prepopulated'[key[p]] = amount[p]
    BY <2>1, <2>2 DEF TypeOK
  <2>4. \A k \in Keys : data[k] # pg
    BY <2>1, CacheAssumption DEF PageInv
  <2>5. ASSUME NEW k \in Keys, k # key[p], data[k] # NoPage
        PROVE  /\ data'[k] = data[k] /\ prepopulated'[k] = prepopulated[k]
               /\ elements'[data[k]] = elements[data[k]] /\ drawn'[data[k]] = drawn[data[k]]
               /\ ~BusyFilling(data[k])' => ~BusyFilling(data[k])
    BY <2>1, <2>2, <2>4, <2>5 DEF BusyFilling, TypeOK
  <2>6. ASSUME NEW q \in Procs, q # p, pc'[q] \in {"append", "fill"}
        PROVE  /\ pc[q] = pc'[q] /\ page'[q] = page[q]
               /\ elements'[page[q]] = elements[page[q]] /\ drawn'[page[q]] = drawn[page[q]]
               /\ prepopulated'[key[q]] = prepopulated[key[q]]
    <3>1. pc[q] = pc'[q] /\ page'[q] = page[q]
      BY <2>2, <2>6 DEF TypeOK
    <3>2. page[q] \in Pages /\ key[q] \in Keys /\ data[key[q]] = page[q]
      BY <2>6, <3>1, PageOfKey DEF HavePage, PageWriting
    <3>3. key[q] # key[p] /\ page[q] # pg
      BY <2>1, <2>4, <3>2, CacheAssumption
    <3>4. QED
      BY <2>2, <3>1, <3>2, <3>3 DEF TypeOK
  <2>7. ASSUME NEW k \in Keys, data'[k] # NoPage
        PROVE  /\ \A n \in 1 .. Len(elements'[data'[k]]) :
                    elements'[data'[k]][n] = ListElement(k, n)'
               /\ ~BusyFilling(data[k])' =>
                    drawn'[data'[k]] + prepopulated'[k] = Len(elements'[data'[k]])
    <3>1. CASE k = key[p]
      <4>1. BusyFilling(data[k])'
        BY <2>3, <3>1 DEF BusyFilling
      <4>2. QED
        BY <2>3, <3>1, <4>1
    <3>2. CASE k # key[p]
      <4>1. data[k] # NoPage /\ data'[k] = data[k]
        BY <2>2, <2>7, <3>2 DEF TypeOK
      <4>2. QED
        BY <2>5, <3>2, <4>1 DEF ListInv, ListElement
    <3>3. QED
      BY <3>1, <3>2
  <2>8. ASSUME NEW q \in Procs
        PROVE  /\ pc'[q] = "append" =>
                    /\ drawn'[page'[q]] > 0
                    /\ drawn'[page'[q]] + prepopulated'[key[q]] = Len(elements'[page'[q]]) + 1
               /\ pc'[q] = "fill" =>
                    /\ drawn'[page'[q]] = 0
                    /\ amount[q] = prepopulated'[key[q]]
                    /\ Len(elements'[page'[q]]) <= amount[q]
    <3>1. CASE q = p
      BY <2>1, <2>3, <3>1
    <3>2. CASE q # p
      BY <2>6, <3>2 DEF ListInv
    <3>3. QED
      BY <3>1, <3>2
  <2>9. QED
    BY <2>2, <2>7, <2>8 DEF ListInv
<1>6. ASSUME NEW p \in Procs, FillPage(p)
      PROVE  ListInv'
  <2>1. /\ page[p] \in Pages /\ key[p] \in Keys /\ data[key[p]] = page[p]
        /\ \A k \in Keys : data[k] = page[p] => k = key[p]
    BY <1>6, PageOfKey DEF FillPage, HavePage, PageWriting
  <2>2. \A q \in Procs : pc[q] \in {"fill", "append"} /\ q # p =>
          page[q] \in Pages /\ page[q] # page[p]
    BY <1>6, OneWriter, PageOfKey DEF FillPage, HavePage, PageWriting
  <2> DEFINE s == elements[page[p]]
             e == <<key[p], "entry", Len(s) + 1>>
  <2>3. /\ Len(s) < amount[p] /\ amount[p] = prepopulated[key[p]] /\ drawn[page[p]] = 0
        /\ s \in Seq(Elements) /\ prepopulated[key[p]] \in Nat /\ pc[p] = "fill"
    BY <1>6, <2>1 DEF FillPage, ListInv, TypeOK
  <2>4. e = ListElement(key[p], Len(s) + 1)
    <3>1. Len(s) + 1 <= prepopulated[key[p]]
      BY <2>3
    <3>2. QED
      BY <3>1 DEF ListElement
  <2>5. /\ elements' = [elements EXCEPT ![page[p]] = Append(s, e)]
        /\ UNCHANGED <<data, drawn, pc, key, amount, page, prepopulated>>
    BY <1>6 DEF FillPage, locals, history
  <2>6. elements'[page[p]] = Append(s, e)
    BY <2>1, <2>5 DEF TypeOK
  <2>7. \A n \in 1 .. Len(s) : s[n] = ListElement(key[p], n)
    BY <2>1, CacheAssumption DEF ListInv
  <2>8. /\ Len(elements'[page[p]]) = Len(s) + 1
        /\ \A n \in 1 .. Len(s) + 1 : elements'[page[p]][n] = ListElement(key[p], n)
    <3> HIDE DEF e
    <3>1. QED
      BY <2>3, <2>4, <2>6, <2>7
  <2>9. ASSUME NEW k \in Keys, data[k] # NoPage
        PROVE  /\ \A n \in 1 .. Len(elements'[data[k]]) :
                    elements'[data[k]][n] = ListElement(k, n)
               /\ ~BusyFilling(data[k])' =>
                    drawn[data[k]] + prepopulated[k] = Len(elements'[data[k]])
    <3>1. CASE data[k] = page[p]
      <4>1. BusyFilling(data[k])'
        BY <2>3, <2>5, <3>1 DEF BusyFilling
      <4>2. QED
        BY <2>1, <2>8, <3>1, <4>1
    <3>2. CASE data[k] # page[p]
      <4>1. elements'[data[k]] = elements[data[k]]
        BY <2>5, <3>2 DEF TypeOK
      <4>2. ~BusyFilling(data[k])' => ~BusyFilling(data[k])
        BY <2>5 DEF BusyFilling
      <4>3. QED
        BY <2>9, <4>1, <4>2 DEF ListInv
    <3>3. QED
      BY <3>1, <3>2
  <2>10. ASSUME NEW q \in Procs, pc[q] \in {"append", "fill"}, q # p
         PROVE  elements'[page[q]] = elements[page[q]]
    BY <2>2, <2>5, <2>10 DEF TypeOK
  <2>11. ASSUME NEW q \in Procs
         PROVE  /\ pc[q] = "append" =>
                     /\ drawn[page[q]] > 0
                     /\ drawn[page[q]] + prepopulated[key[q]] = Len(elements'[page[q]]) + 1
                /\ pc[q] = "fill" =>
                     /\ drawn[page[q]] = 0
                     /\ amount[q] = prepopulated[key[q]]
                     /\ Len(elements'[page[q]]) <= amount[q]
    <3>1. CASE q = p
      BY <2>3, <2>8, <3>1
    <3>2. CASE q # p
      BY <2>10, <3>2 DEF ListInv
    <3>3. QED
      BY <3>1, <3>2
  <2>12. \A k \in Keys, n \in Nat : ListElement(k, n)' = ListElement(k, n)
    BY <2>5 DEF ListElement
  <2>13. /\ data' = data /\ drawn' = drawn /\ page' = page /\ key' = key /\ pc' = pc
         /\ amount' = amount /\ prepopulated' = prepopulated
    BY <2>5
  <2>14. QED
    BY <2>9, <2>11, <2>12, <2>13 DEF ListInv
<1>7. ASSUME NEW p \in Procs, ReturnFromPopulate(p)
      PROVE  ListInv'
  <2>1. /\ page[p] \in Pages /\ key[p] \in Keys
        /\ \A k \in Keys : data[k] = page[p] => k = key[p]
    BY <1>7, PageOfKey DEF ReturnFromPopulate, HavePage, PageWriting
  <2>2. /\ pc \in [Procs -> Labels] /\ pc[p] = "fill" /\ pc' = [pc EXCEPT ![p] = "idle"]
        /\ UNCHANGED <<data, elements, drawn, key, amount, page, prepopulated>>
    BY <1>7 DEF ReturnFromPopulate, GoTo, contents, locals, history, TypeOK
  <2>3. drawn[page[p]] + prepopulated[key[p]] = Len(elements[page[p]])
    BY <1>7, <2>1 DEF ReturnFromPopulate, ListInv, TypeOK
  <2>4. ASSUME NEW k \in Keys, data[k] # NoPage, ~BusyFilling(data[k])'
        PROVE  drawn[data[k]] + prepopulated[k] = Len(elements[data[k]])
    <3>1. CASE data[k] = page[p]
      BY <2>1, <2>3, <3>1
    <3>2. CASE data[k] # page[p]
      BY <2>2, <2>4, <3>2 DEF ListInv, BusyFilling
    <3>3. QED
      BY <3>1, <3>2
  <2>5. QED
    BY <2>2, <2>4 DEF ListInv, ListElement
<1>8. ASSUME NEW p \in Procs, CreatePage(p)
      PROVE  ListInv'
  <2> DEFINE pg == <<key[p], p>>
  <2>1. /\ \A k \in Keys : data[k] # pg
        /\ \A q \in Procs : pc[q] \in {"fill", "append"} => page[q] \in Pages /\ page[q] # pg
    BY <1>8, NewPageNotInTable, NewPageIsPrivate
    DEF CreatePage, Creating, HavePage, PageWriting
  <2>2. /\ page' = [page EXCEPT ![p] = pg] /\ pc' = [pc EXCEPT ![p] = "lockTable"]
        /\ elements' = [elements EXCEPT ![pg] = <<>>] /\ drawn' = [drawn EXCEPT ![pg] = 0]
        /\ UNCHANGED <<data, key, amount, prepopulated>>
    BY <1>8 DEF CreatePage, NewCachePage, GoTo, history
  <2>3. ASSUME NEW k \in Keys, data[k] # NoPage
        PROVE  /\ elements'[data[k]] = elements[data[k]] /\ drawn'[data[k]] = drawn[data[k]]
               /\ ~BusyFilling(data[k])' => ~BusyFilling(data[k])
    BY <1>8, <2>1, <2>2, <2>3 DEF CreatePage, BusyFilling, TypeOK
  <2>4. ASSUME NEW q \in Procs, pc'[q] \in {"append", "fill"}
        PROVE  /\ pc[q] = pc'[q] /\ page'[q] = page[q]
               /\ elements'[page[q]] = elements[page[q]] /\ drawn'[page[q]] = drawn[page[q]]
    BY <2>1, <2>2, <2>4 DEF TypeOK
  <2>5. QED
    BY <2>2, <2>3, <2>4 DEF ListInv, ListElement
<1>9. ASSUME NEW p \in Procs, Insert(p)
      PROVE  ListInv'
  <2>1. CASE data[key[p]] # NoPage
    <3>1. /\ pc' = [pc EXCEPT ![p] = "rlockPage"] /\ page' = [page EXCEPT ![p] = data[key[p]]]
          /\ pc[p] = "insert"
          /\ UNCHANGED <<data, elements, drawn, key, amount, prepopulated>>
      BY <1>9, <2>1 DEF Insert, GoTo, history
    <3>2. QED
      BY <3>1 DEF ListInv, ListElement, BusyFilling, TypeOK
  <2>2. CASE data[key[p]] = NoPage
    <3>1. /\ page[p] \in Pages /\ elements[page[p]] = <<>> /\ drawn[page[p]] = 0
          /\ prepopulated[key[p]] = 0 /\ key[p] \in Keys
      <4>1. page[p] = <<key[p], p>> /\ elements[page[p]] = <<>> /\ drawn[page[p]] = 0
        BY <1>9 DEF Insert, PageInv
      <4>2. key[p] \in Keys /\ page[p] \in Pages
        BY <4>1 DEF TypeOK, Pages
      <4>3. QED
        BY <2>2, <4>1, <4>2 DEF PageInv
    <3>2. /\ pc' = [pc EXCEPT ![p] = "rlockPage"] /\ data' = [data EXCEPT ![key[p]] = page[p]]
          /\ UNCHANGED <<elements, drawn, key, amount, page, prepopulated>>
      BY <1>9, <2>2 DEF Insert, GoTo, history
    <3>3. ASSUME NEW k \in Keys, data'[k] # NoPage
          PROVE  /\ \A n \in 1 .. Len(elements[data'[k]]) :
                      elements[data'[k]][n] = ListElement(k, n)
                 /\ ~BusyFilling(data[k])' =>
                      drawn[data'[k]] + prepopulated[k] = Len(elements[data'[k]])
      <4>1. CASE k = key[p]
        BY <3>1, <3>2, <4>1 DEF TypeOK
      <4>2. CASE k # key[p]
        <5>1. data'[k] = data[k]
          BY <3>2, <4>2 DEF TypeOK
        <5>2. ~BusyFilling(data[k])' => ~BusyFilling(data[k])
          BY <1>9, <3>2, <5>1 DEF Insert, BusyFilling, TypeOK
        <5>3. QED
          BY <3>3, <5>1, <5>2 DEF ListInv
      <4>3. QED
        BY <4>1, <4>2
    <3>4. \A q \in Procs : pc'[q] \in {"append", "fill"} => pc'[q] = pc[q]
      BY <3>2 DEF TypeOK
    <3>5. ASSUME NEW q \in Procs
          PROVE  /\ pc'[q] = "append" =>
                      /\ drawn[page[q]] > 0
                      /\ drawn[page[q]] + prepopulated[key[q]] = Len(elements[page[q]]) + 1
                 /\ pc'[q] = "fill" =>
                      /\ drawn[page[q]] = 0
                      /\ amount[q] = prepopulated[key[q]]
                      /\ Len(elements[page[q]]) <= amount[q]
      BY <3>4 DEF ListInv
    <3>6. QED
      BY <3>2, <3>3, <3>5 DEF ListInv, ListElement
  <2>3. QED
    BY <2>1, <2>2
<1>10. ASSUME NEW p \in Procs, CreateElement(p)
      PROVE  ListInv'
  <2>1. /\ page[p] \in Pages /\ key[p] \in Keys /\ data[key[p]] = page[p]
        /\ \A k \in Keys : data[k] = page[p] => k = key[p]
    BY <1>10, PageOfKey DEF CreateElement, HavePage, PageWriting
  <2>2. \A q \in Procs : pc[q] \in {"fill", "append"} /\ q # p =>
          page[q] \in Pages /\ page[q] # page[p]
    BY <1>10, OneWriter, PageOfKey DEF CreateElement, HavePage, PageWriting
  <2>3. drawn[page[p]] + prepopulated[key[p]] = Len(elements[page[p]])
    BY <1>10, CompleteUnlessBusy DEF CreateElement
  <2>4. /\ pc' = [pc EXCEPT ![p] = "append"]
        /\ drawn' = [drawn EXCEPT ![page[p]] = @ + 1]
        /\ UNCHANGED <<data, elements, key, amount, page, prepopulated>>
    BY <1>10 DEF CreateElement, GoTo, locals, history
  <2>5. ASSUME NEW k \in Keys, data[k] # NoPage, ~BusyFilling(data[k])'
        PROVE  drawn'[data[k]] + prepopulated[k] = Len(elements[data[k]])
    <3>1. data[k] # page[p]
      BY <2>4, <2>5 DEF BusyFilling, TypeOK
    <3>2. ~BusyFilling(data[k])
      BY <1>10, <2>4, <2>5 DEF BusyFilling, TypeOK, CreateElement
    <3>3. QED
      BY <2>4, <2>5, <3>1, <3>2 DEF ListInv, TypeOK
  <2>6. ASSUME NEW q \in Procs
        PROVE  /\ pc'[q] = "append" =>
                    /\ drawn'[page[q]] > 0
                    /\ drawn'[page[q]] + prepopulated[key[q]] = Len(elements[page[q]]) + 1
               /\ pc'[q] = "fill" =>
                    /\ drawn'[page[q]] = 0
                    /\ amount[q] = prepopulated[key[q]]
                    /\ Len(elements[page[q]]) <= amount[q]
    <3>1. CASE q = p
      BY <2>1, <2>3, <2>4, <3>1 DEF TypeOK
    <3>2. CASE q # p
      BY <2>2, <2>4, <3>2 DEF ListInv, TypeOK
    <3>3. QED
      BY <3>1, <3>2
  <2>7. QED
    BY <2>4, <2>5, <2>6 DEF ListInv, ListElement
<1>11. ASSUME NEW p \in Procs, AppendElement(p)
      PROVE  ListInv'
  <2>1. /\ page[p] \in Pages /\ key[p] \in Keys /\ data[key[p]] = page[p]
        /\ \A k \in Keys : data[k] = page[p] => k = key[p]
    BY <1>11, PageOfKey DEF AppendElement, HavePage, PageWriting
  <2>2. \A q \in Procs : pc[q] \in {"fill", "append"} /\ q # p =>
          page[q] \in Pages /\ page[q] # page[p]
    BY <1>11, OneWriter, PageOfKey DEF AppendElement, HavePage, PageWriting
  <2> DEFINE e == <<key[p], "draw", drawn[page[p]]>>
             s == elements[page[p]]
  <2>3. /\ drawn[page[p]] > 0 /\ drawn[page[p]] + prepopulated[key[p]] = Len(s) + 1
        /\ s \in Seq(Elements) /\ drawn[page[p]] \in Nat /\ prepopulated[key[p]] \in Nat
    BY <1>11, <2>1 DEF AppendElement, ListInv, TypeOK
  <2>4. e = ListElement(key[p], Len(s) + 1)
    <3>1. /\ ~(Len(s) + 1 <= prepopulated[key[p]])
          /\ Len(s) + 1 - prepopulated[key[p]] = drawn[page[p]]
      BY <2>3
    <3>2. QED
      BY <2>3, <3>1 DEF ListElement
  <2>5. /\ pc' = [pc EXCEPT ![p] = "extend"]
        /\ elements' = [elements EXCEPT ![page[p]] = Append(s, e)]
        /\ UNCHANGED <<data, drawn, key, amount, page, prepopulated>>
    BY <1>11 DEF AppendElement, GoTo, locals, history
  <2>6. elements'[page[p]] = Append(s, e)
    BY <2>1, <2>5 DEF TypeOK
  <2>7. \A n \in 1 .. Len(s) : s[n] = ListElement(key[p], n)
    BY <2>1, CacheAssumption DEF ListInv
  <2>8. /\ Len(elements'[page[p]]) = Len(s) + 1
        /\ \A n \in 1 .. Len(s) + 1 : elements'[page[p]][n] = ListElement(key[p], n)
    <3> HIDE DEF e
    <3>1. QED
      BY <2>3, <2>4, <2>6, <2>7
  <2>9. ASSUME NEW k \in Keys, data[k] # NoPage
        PROVE  /\ \A n \in 1 .. Len(elements'[data[k]]) :
                    elements'[data[k]][n] = ListElement(k, n)
               /\ ~BusyFilling(data[k])' =>
                    drawn[data[k]] + prepopulated[k] = Len(elements'[data[k]])
    <3>1. CASE data[k] = page[p]
      BY <2>1, <2>3, <2>8, <3>1
    <3>2. CASE data[k] # page[p]
      <4>1. elements'[data[k]] = elements[data[k]]
        BY <2>5, <3>2 DEF TypeOK
      <4>2. ~BusyFilling(data[k])' => ~BusyFilling(data[k])
        BY <2>5, <3>2 DEF BusyFilling, TypeOK
      <4>3. QED
        BY <2>9, <4>1, <4>2 DEF ListInv
    <3>3. QED
      BY <3>1, <3>2
  <2>10. ASSUME NEW q \in Procs, pc'[q] \in {"append", "fill"}
         PROVE  q # p /\ pc[q] = pc'[q] /\ elements'[page[q]] = elements[page[q]]
    BY <2>2, <2>5, <2>10 DEF TypeOK
  <2>11. ASSUME NEW q \in Procs
         PROVE  /\ pc'[q] = "append" =>
                     /\ drawn[page[q]] > 0
                     /\ drawn[page[q]] + prepopulated[key[q]] = Len(elements'[page[q]]) + 1
                /\ pc'[q] = "fill" =>
                     /\ drawn[page[q]] = 0
                     /\ amount[q] = prepopulated[key[q]]
                     /\ Len(elements'[page[q]]) <= amount[q]
    BY <2>10 DEF ListInv
  <2>12. \A k \in Keys, n \in Nat : ListElement(k, n)' = ListElement(k, n)
    BY <2>5 DEF ListElement
  <2>13. /\ data' = data /\ drawn' = drawn /\ page' = page /\ key' = key
         /\ amount' = amount /\ prepopulated' = prepopulated
    BY <2>5
  <2>14. QED
    BY <2>9, <2>11, <2>12, <2>13 DEF ListInv
<1>12. QED
  BY <1>1, <1>2, <1>3, <1>4, <1>5, <1>6, <1>7, <1>8, <1>9, <1>10, <1>11 DEF Next,
     StartCall, LockStep, OtherStep

(* Every step keeps what has been copied a prefix of the list. *)
LEMMA CopyStep ==
  ASSUME TypeOK, PageInv, ListInv, CopyInv, [Next]_vars
  PROVE  CopyInv'
<1>1. CASE UNCHANGED vars
  BY <1>1 DEF vars, CopyInv, ListElement, locals, contents, history
<1>2. ASSUME NEW p \in Procs,
             \/ (\E k \in Keys, n \in 0 .. MaxAmount : StartPopulate(p, k, n))
             \/ (\E k \in Keys, n \in 0 .. MaxAmount : StartGet(p, k, n))
             \/ (\E k \in Keys, n \in 0 .. MaxAmount : GetNothing(p, k))
             \/ LockToPopulate(p) \/ RefuseToPopulate(p) \/ FillPage(p)
             \/ ReturnFromPopulate(p) \/ LookUp(p)
      PROVE  CopyInv'
  <2>1. ASSUME NEW k \in Keys, NEW n \in 0 .. MaxAmount, StartPopulate(p, k, n) PROVE CopyInv'
    BY <2>1 DEF StartPopulate, Call, GoTo, contents, history, TypeOK, CopyInv, ListElement
  <2>2. ASSUME NEW k \in Keys, NEW n \in 0 .. MaxAmount, StartGet(p, k, n) PROVE CopyInv'
    BY <2>2 DEF StartGet, Call, GoTo, OnTable, contents, history, TypeOK, CopyInv,
       ListElement
  <2>3. ASSUME NEW k \in Keys, GetNothing(p, k) PROVE CopyInv'
    BY <2>3 DEF GetNothing, locals, contents, TypeOK, CopyInv, ListElement
  <2>4. CASE LockToPopulate(p)
    BY <2>4 DEF LockToPopulate, GoTo, OnTable, locals, contents, history, TypeOK,
       CopyInv, ListElement
  <2>5. CASE RefuseToPopulate(p)
    BY <2>5 DEF RefuseToPopulate, GoTo, OnTable, locals, contents, history, TypeOK,
       CopyInv, ListElement
  <2>6. CASE FillPage(p)
    BY <2>6 DEF FillPage, GoTo, OnPage, locals, contents, history, TypeOK, CopyInv,
       ListElement
  <2>7. CASE ReturnFromPopulate(p)
    BY <2>7 DEF ReturnFromPopulate, GoTo, OnPage, locals, contents, history, TypeOK,
       CopyInv, ListElement
  <2>8. CASE LookUp(p)
    BY <2>8 DEF LookUp, GoTo, OnTable, locals, contents, history, TypeOK, CopyInv,
       ListElement
  <2>9. QED
    BY <1>2, <2>1, <2>2, <2>3, <2>4, <2>5, <2>6, <2>7, <2>8
<1>3. ASSUME NEW p \in Procs,
             \/ LockTable(p) \/ Insert(p) \/ RLockPage(p) \/ EnoughElements(p)
             \/ TooFewElements(p) \/ LockPage(p)
      PROVE  CopyInv'
  <2>1. CASE LockTable(p)
    BY <2>1 DEF LockTable, GoTo, OnTable, locals, contents, history, TypeOK, CopyInv,
       ListElement
  <2>2. CASE Insert(p)
    BY <2>2 DEF Insert, GoTo, OnTable, locals, contents, history, TypeOK, CopyInv,
       ListElement
  <2>3. CASE RLockPage(p)
    BY <2>3 DEF RLockPage, GoTo, OnPage, locals, contents, history, TypeOK, CopyInv,
       ListElement
  <2>4. CASE EnoughElements(p)
    BY <2>4 DEF EnoughElements, GoTo, OnPage, locals, contents, history, TypeOK,
       CopyInv, ListElement
  <2>5. CASE TooFewElements(p)
    BY <2>5 DEF TooFewElements, GoTo, OnPage, locals, contents, history, TypeOK,
       CopyInv, ListElement
  <2>6. CASE LockPage(p)
    BY <2>6 DEF LockPage, GoTo, OnPage, locals, contents, history, TypeOK, CopyInv,
       ListElement
  <2>7. QED
    BY <1>3, <2>1, <2>2, <2>3, <2>4, <2>5, <2>6
<1>4. ASSUME NEW p \in Procs,
             \/ CreateElement(p) \/ AppendElement(p) \/ CannotCreateElement(p)
             \/ UnlockPage(p) \/ RLockAgain(p) \/ ReturnElements(p)
      PROVE  CopyInv'
  <2>1. CASE CreateElement(p)
    BY <2>1 DEF CreateElement, GoTo, OnPage, locals, contents, history, TypeOK, CopyInv,
       ListElement
  <2>2. CASE AppendElement(p)
    BY <2>2 DEF AppendElement, GoTo, OnPage, locals, contents, history, TypeOK, CopyInv,
       ListElement
  <2>3. CASE CannotCreateElement(p)
    BY <2>3 DEF CannotCreateElement, GoTo, OnPage, locals, contents, history, TypeOK,
       CopyInv, ListElement
  <2>4. CASE UnlockPage(p)
    BY <2>4 DEF UnlockPage, GoTo, OnPage, locals, contents, history, TypeOK, CopyInv,
       ListElement
  <2>5. CASE RLockAgain(p)
    BY <2>5 DEF RLockAgain, GoTo, OnPage, locals, contents, history, TypeOK, CopyInv,
       ListElement
  <2>6. CASE ReturnElements(p)
    BY <2>6 DEF ReturnElements, GoTo, OnPage, locals, contents, history, TypeOK,
       CopyInv, ListElement
  <2>7. QED
    BY <1>4, <2>1, <2>2, <2>3, <2>4, <2>5, <2>6
<1>5. ASSUME NEW p \in Procs, PopulatePage(p)
      PROVE  CopyInv'
  <2> DEFINE pg == <<key[p], p>>
  <2>1. /\ page' = [page EXCEPT ![p] = pg] /\ pc' = [pc EXCEPT ![p] = "fill"]
        /\ elements' = [elements EXCEPT ![pg] = <<>>]
        /\ prepopulated' = [prepopulated EXCEPT ![key[p]] = amount[p]]
        /\ UNCHANGED <<key, amount, ret>> /\ pc[p] = "populate" /\ data[key[p]] = NoPage
    BY <1>5 DEF PopulatePage, NewCachePage, GoTo
  <2>2. pg \in Pages /\ pg[1] = key[p]
    BY DEF Pages, TypeOK
  <2>3. ASSUME NEW q \in Procs, pc'[q] \in {"rlockAgain", "copy"}
        PROVE  /\ pc'[q] = pc[q]
               /\ elements'[page'[q]] = elements[page[q]]
               /\ prepopulated'[key[q]] = prepopulated[key[q]]
    <3>1. q # p /\ pc'[q] = pc[q] /\ page'[q] = page[q]
      BY <2>1, <2>3 DEF TypeOK
    <3>2. page[q] \in Pages /\ key[q] \in Keys /\ data[key[q]] = page[q]
      BY <2>3, <3>1, PageOfKey DEF HavePage, PageReading
    <3>3. key[q] # key[p]
      BY <2>1, <3>2, CacheAssumption
    <3>4. page[q] # pg
      BY <2>2, <3>2, <3>3, CacheAssumption DEF PageInv
    <3>5. QED
      BY <2>1, <3>1, <3>2, <3>3, <3>4 DEF TypeOK
  <2>4. \A q \in Procs : /\ pc'[q] # "idle" => pc[q] # "idle"
                        /\ pc'[q] \notin {"idle", "copy"} => pc[q] \notin {"idle", "copy"}
    BY <2>1 DEF TypeOK
  <2>5. ASSUME NEW q \in Procs, pc'[q] = "copy"
        PROVE  \A n \in 1 .. Len(ret[q]) : ret[q][n] = ListElement(key[q], n)'
    BY <2>1, <2>3, <2>5 DEF CopyInv, ListElement
  <2>6. QED
    BY <2>1, <2>3, <2>4, <2>5 DEF CopyInv
<1>6. ASSUME NEW p \in Procs, CreatePage(p)
      PROVE  CopyInv'
  <2> DEFINE pg == <<key[p], p>>
  <2>1. \A q \in Procs : pc[q] \in {"rlockAgain", "copy"} => page[q] \in Pages /\ page[q] # pg
    BY <1>6, NewPageIsPrivate DEF CreatePage, Creating, HavePage, PageReading
  <2>2. /\ page' = [page EXCEPT ![p] = pg] /\ pc' = [pc EXCEPT ![p] = "lockTable"]
        /\ elements' = [elements EXCEPT ![pg] = <<>>] /\ pc[p] = "newPage"
        /\ UNCHANGED <<key, amount, ret, prepopulated>>
    BY <1>6 DEF CreatePage, NewCachePage, GoTo, history
  <2>3. ASSUME NEW q \in Procs, pc'[q] \in {"rlockAgain", "copy"}
        PROVE  elements'[page'[q]] = elements[page[q]]
    BY <2>1, <2>2, <2>3 DEF TypeOK
  <2>4. QED
    BY <2>2, <2>3 DEF CopyInv, ListElement, TypeOK
<1>7. ASSUME NEW p \in Procs, CopyElement(p)
      PROVE  CopyInv'
  <2>1. /\ page[p] \in Pages /\ key[p] \in Keys /\ data[key[p]] = page[p]
        /\ Len(ret[p]) < amount[p] /\ amount[p] <= Len(elements[page[p]])
        /\ pc[p] = "copy" /\ ret[p] \in Seq(Elements) /\ amount[p] \in Nat
        /\ elements[page[p]] \in Seq(Elements)
    BY <1>7, PageOfKey DEF CopyElement, CopyInv, TypeOK, HavePage, PageReading
  <2>2. elements[page[p]][Len(ret[p]) + 1] = ListElement(key[p], Len(ret[p]) + 1)
    BY <2>1, CacheAssumption DEF ListInv
  <2>3. /\ ret' = [ret EXCEPT ![p] = Append(@, elements[page[p]][Len(@) + 1])]
        /\ UNCHANGED <<pc, key, amount, page, elements, prepopulated>>
    BY <1>7 DEF CopyElement, contents, history
  <2>4. ret'[p] = Append(ret[p], ListElement(key[p], Len(ret[p]) + 1))
    BY <2>2, <2>3 DEF TypeOK
  <2>5. /\ Len(ret'[p]) <= amount[p]
        /\ \A n \in 1 .. Len(ret'[p]) : ret'[p][n] = ListElement(key[p], n)
    BY <2>1, <2>4 DEF CopyInv
  <2>6. \A q \in Procs : q # p => ret'[q] = ret[q]
    BY <2>3 DEF TypeOK
  <2>7. \A q \in Procs, n \in Nat : ListElement(key[q], n)' = ListElement(key[q], n)
    BY <2>3 DEF ListElement
  <2>8. \A n \in 1 .. Len(ret'[p]) : ret'[p][n] = ListElement(key[p], n)'
    BY <2>5, <2>7
  <2>9. ASSUME NEW q \in Procs, q # p, pc[q] = "copy"
        PROVE  \A n \in 1 .. Len(ret'[q]) : ret'[q][n] = ListElement(key[q], n)'
    BY <2>6, <2>7, <2>9 DEF CopyInv
  <2>10. QED
    BY <2>1, <2>3, <2>5, <2>6, <2>8, <2>9 DEF CopyInv
<1>8. QED
  BY <1>1, <1>2, <1>3, <1>4, <1>5, <1>6, <1>7 DEF Next, StartCall, LockStep, OtherStep

(* Every step keeps all results prefixes of the list. *)
LEMMA ResultsStep ==
  ASSUME TypeOK, PageInv, CopyInv, ResultsArePrefixes, [Next]_vars
  PROVE  ResultsArePrefixes'
<1>1. CASE UNCHANGED vars
  BY <1>1 DEF vars, ResultsArePrefixes, ListElement, locals, contents, history
<1>2. ASSUME NEW p \in Procs,
             \/ (\E k \in Keys, n \in 0 .. MaxAmount : StartPopulate(p, k, n))
             \/ (\E k \in Keys, n \in 0 .. MaxAmount : StartGet(p, k, n))
             \/ LockToPopulate(p) \/ RefuseToPopulate(p) \/ FillPage(p)
             \/ ReturnFromPopulate(p) \/ LookUp(p) \/ CreatePage(p) \/ LockTable(p)
             \/ Insert(p) \/ RLockPage(p) \/ EnoughElements(p) \/ TooFewElements(p)
             \/ LockPage(p) \/ CreateElement(p) \/ AppendElement(p)
             \/ CannotCreateElement(p) \/ UnlockPage(p) \/ RLockAgain(p)
             \/ CopyElement(p)
      PROVE  ResultsArePrefixes'
  BY <1>2 DEF StartPopulate, StartGet, LockToPopulate, RefuseToPopulate, FillPage,
     ReturnFromPopulate, LookUp, CreatePage, LockTable, Insert, RLockPage,
     EnoughElements, TooFewElements, LockPage, CreateElement, AppendElement,
     CannotCreateElement, UnlockPage, RLockAgain, CopyElement, Call, NewCachePage, GoTo,
     OnTable, OnPage, locals, contents, history, CanLock, TypeOK, ResultsArePrefixes,
     ListElement
<1>3. ASSUME NEW p \in Procs, NEW k \in Keys, GetNothing(p, k)
      PROVE  ResultsArePrefixes'
  <2>1. returned' = [returned EXCEPT ![k] = @ \cup {<<>>}] /\ prepopulated' = prepopulated
    BY <1>3 DEF GetNothing
  <2>2. ASSUME NEW l \in Keys, NEW s \in returned'[l], NEW n \in 1 .. Len(s)
        PROVE  s \in returned[l]
    <3>1. CASE s = <<>>
      <4>1. n \in 1 .. 0
        BY <3>1
      <4>2. QED
        BY <4>1
    <3>2. CASE s # <<>>
      BY <2>1, <3>2 DEF TypeOK
    <3>3. QED
      BY <3>1, <3>2
  <2>3. QED
    BY <2>1, <2>2 DEF ResultsArePrefixes, ListElement
<1>4. ASSUME NEW p \in Procs, PopulatePage(p)
      PROVE  ResultsArePrefixes'
  <2>1. /\ prepopulated' = [prepopulated EXCEPT ![key[p]] = amount[p]]
        /\ returned' = returned /\ key[p] \in Keys /\ returned[key[p]] \subseteq {<<>>}
    BY <1>4 DEF PopulatePage, PageInv, TypeOK
  <2>2. ASSUME NEW k \in Keys, NEW s \in returned[k], NEW n \in 1 .. Len(s)
        PROVE  s[n] = ListElement(k, n)'
    <3>1. CASE k = key[p]
      BY <2>1, <2>2, <3>1
    <3>2. CASE k # key[p]
      BY <2>1, <2>2, <3>2 DEF ResultsArePrefixes, ListElement, TypeOK
    <3>3. QED
      BY <3>1, <3>2
  <2>3. QED
    BY <2>1, <2>2 DEF ResultsArePrefixes
<1>5. ASSUME NEW p \in Procs, ReturnElements(p)
      PROVE  ResultsArePrefixes'
  <2>1. /\ returned' = [returned EXCEPT ![key[p]] = @ \cup {ret[p]}]
        /\ prepopulated' = prepopulated
    BY <1>5 DEF ReturnElements
  <2>2. \A n \in 1 .. Len(ret[p]) : ret[p][n] = ListElement(key[p], n)
    BY <1>5 DEF ReturnElements, CopyInv
  <2>3. QED
    BY <2>1, <2>2 DEF ResultsArePrefixes, ListElement, TypeOK
<1>6. QED
  BY <1>1, <1>2, <1>3, <1>4, <1>5 DEF Next, StartCall, LockStep, OtherStep
-----------------------------------------------------------------------------
(* The invariant *)

LEMMA InitIInv == Init => IInv
<1> SUFFICES ASSUME Init PROVE IInv
  OBVIOUS
<1>1. TypeOK
  <2>1. <<>> \in Seq(Elements)
    OBVIOUS
  <2>2. QED
    BY <2>1, FreeFacts, CacheAssumption DEF Init, TypeOK, Labels
<1>2. TableInv
  BY FreeFacts, NoProcAssumption DEF Init, TableInv, TableWriting
<1>3. PageMutexInv
  BY FreeFacts, NoProcAssumption DEF Init, PageMutexInv, PageWriting, PageReading
<1>4. PageInv
  BY DEF Init, PageInv, HavePage, PageWriting, PageReading, Creating
<1>5. ListInv /\ CopyInv /\ ResultsArePrefixes
  BY DEF Init, ListInv, CopyInv, ResultsArePrefixes
<1>6. QED
  BY <1>1, <1>2, <1>3, <1>4, <1>5 DEF IInv

(* The state predicates of IInv hold in every reachable state, for any      *)
(* number of goroutines, keys and elements.                                 *)
THEOREM Invariance == Spec => []IInv
<1>1. IInv /\ [Next]_vars => IInv'
  BY TypeStep, TableStep, PageMutexStep, PageStep, ListStep, CopyStep, ResultsStep
     DEF IInv
<1>2. QED
  BY InitIInv, <1>1, PTL DEF Spec

(* The variables of the cache and of the goroutines keep their types.       *)
THEOREM TypeCorrect == Spec => []TypeOK
<1>1. IInv => TypeOK
  BY DEF IInv
<1>2. QED
  BY Invariance, <1>1, PTL

(* All results of GetElements for a key are prefixes of one list.           *)
THEOREM ResultsCorrect == Spec => []ResultsArePrefixes
<1>1. IInv => ResultsArePrefixes
  BY DEF IInv
<1>2. QED
  BY Invariance, <1>1, PTL

(* A goroutine outside of a call neither holds a mutex nor waits for one.   *)
THEOREM NoMutexLeftBehind == Spec => []NoMutexLeft
<1>1. IInv => NoMutexLeft
  BY DEF IInv, NoMutexLeft, TableInv, PageMutexInv, Uninvolved,
     TableWriting, PageWriting, PageReading
<1>2. QED
  BY Invariance, <1>1, PTL

-----------------------------------------------------------------------------
(* What steps may do *)

LEMMA GrowStep ==
  ASSUME IInv, [Next]_vars, NEW k \in Keys, data[k] # NoPage
  PROVE  data'[k] = data[k] /\ IsPrefixOf(elements[data[k]], elements'[data[k]])
<1> DEFINE Goal == data'[k] = data[k] /\ IsPrefixOf(elements[data[k]], elements'[data[k]])
<1> USE DEF IInv
<1>1. data[k] \in Pages /\ elements[data[k]] \in Seq(Elements)
  BY DEF TypeOK
<1>2. ASSUME data' = data, elements' = elements PROVE Goal
  BY <1>1, <1>2 DEF IsPrefixOf
<1>3. ASSUME NEW p \in Procs, PopulatePage(p) PROVE Goal
  <2>1. key[p] # k /\ key[p] \in Keys
    BY <1>3 DEF PopulatePage, TypeOK
  <2>2. data[k] # <<key[p], p>>
    BY <1>1, <2>1 DEF PageInv
  <2>3. data'[k] = data[k] /\ elements'[data[k]] = elements[data[k]]
    BY <1>1, <1>3, <2>1, <2>2 DEF PopulatePage, NewCachePage, TypeOK
  <2>4. QED
    BY <1>1, <2>3 DEF IsPrefixOf
<1>4. ASSUME NEW p \in Procs, FillPage(p) PROVE Goal
  BY <1>1, <1>4 DEF FillPage, IsPrefixOf, TypeOK
<1>5. ASSUME NEW p \in Procs, CreatePage(p) PROVE Goal
  <2>1. data[k] # <<key[p], p>>
    BY <1>5, NewPageNotInTable DEF CreatePage, Creating
  <2>2. data' = data /\ elements'[data[k]] = elements[data[k]]
    BY <1>1, <1>5, <2>1 DEF CreatePage, NewCachePage, TypeOK
  <2>3. QED
    BY <1>1, <2>2 DEF IsPrefixOf
<1>6. ASSUME NEW p \in Procs, Insert(p) PROVE Goal
  <2>1. data'[k] = data[k] /\ elements' = elements
    BY <1>6 DEF Insert, TypeOK
  <2>2. QED
    BY <1>1, <2>1 DEF IsPrefixOf
<1>7. ASSUME NEW p \in Procs, AppendElement(p) PROVE Goal
  BY <1>1, <1>7 DEF AppendElement, IsPrefixOf, TypeOK
<1>8. CASE UNCHANGED vars
  BY <1>2, <1>8 DEF vars, contents
<1>9. ASSUME NEW p \in Procs, StartCall(p) \/ LockStep(p) \/ OtherStep(p)
      PROVE  Goal
  <2>1. \/ data' = data /\ elements' = elements
        \/ PopulatePage(p) \/ FillPage(p) \/ CreatePage(p) \/ Insert(p) \/ AppendElement(p)
    BY <1>9 DEF StartCall, LockStep, OtherStep, contents, StartPopulate, StartGet,
       GetNothing, LockToPopulate, RefuseToPopulate, ReturnFromPopulate, LookUp,
       LockTable, RLockPage, EnoughElements, TooFewElements, LockPage, CreateElement,
       CannotCreateElement, UnlockPage, RLockAgain, CopyElement, ReturnElements
  <2>2. QED
    BY <1>2, <1>3, <1>4, <1>5, <1>6, <1>7, <2>1
<1>10. QED
  BY <1>8, <1>9 DEF Next

(* The entry of a key never changes, and its list is only appended to.      *)
THEOREM PagesGrow == Spec => PagesOnlyGrow
<1> DEFINE A == \A k \in Keys : data[k] # NoPage =>
                  /\ data'[k] = data[k]
                  /\ IsPrefixOf(elements[data[k]], elements'[data[k]])
<1>1. IInv /\ [Next]_vars => A
  BY GrowStep
<1>2. IInv /\ [Next]_vars => [A]_vars
  BY <1>1
<1>3. QED
  BY Invariance, <1>2, PTL DEF Spec, PagesOnlyGrow

-----------------------------------------------------------------------------
(* Refinement *)

(* A sequence is the function that a prefix of a list is defined as.        *)
LEMMA ResultIsPrefix ==
  ASSUME NEW k \in Keys, NEW s \in Seq(Elements),
         \A n \in 1 .. Len(s) : s[n] = ListElement(k, n)
  PROVE  s = Lists!Prefix(k, Len(s))
<1>1. s \in [1 .. Len(s) -> Elements] /\ DOMAIN s = 1 .. Len(s)
  BY LenProperties
<1>2. s = [n \in 1 .. Len(s) |-> s[n]]
  BY <1>1
<1>3. [n \in 1 .. Len(s) |-> s[n]] = [n \in 1 .. Len(s) |-> ListElement(k, n)]
  OBVIOUS
<1>4. QED
  BY <1>2, <1>3 DEF Lists!Prefix, Lists!Element, ListElement

LEMMA InitRefines == Init => Lists!LInit
BY DEF Init, Lists!LInit

LEMMA NextRefines ==
  ASSUME IInv, [Next]_vars
  PROVE  [Lists!LNext]_(Lists!lvars)
<1> USE DEF IInv
<1> DEFINE used == {k \in Keys : data[k] # NoPage}
           Stutter == data' = data /\ prepopulated' = prepopulated /\ returned' = returned
<1>1. ASSUME Stutter PROVE UNCHANGED Lists!lvars
  BY <1>1 DEF Lists!lvars
<1>2. ASSUME NEW p \in Procs, PopulatePage(p) PROVE Lists!LNext
  <2>1. PICK k \in Keys, n \in 0 .. MaxAmount : k = key[p] /\ n = amount[p]
    BY DEF TypeOK
  <2>2. <<k, p>> \in Pages /\ <<k, p>> # NoPage
    BY CacheAssumption DEF Pages
  <2>3. /\ data[k] = NoPage /\ data' = [data EXCEPT ![k] = <<k, p>>]
        /\ prepopulated' = [prepopulated EXCEPT ![k] = n]
        /\ returned' = returned
    BY <1>2, <2>1 DEF PopulatePage
  <2>4. used' = used \cup {k} /\ k \notin used
    BY <2>2, <2>3 DEF TypeOK
  <2>5. Lists!Populate(k, n)
    BY <2>3, <2>4 DEF Lists!Populate
  <2>6. QED
    BY <2>5 DEF Lists!LNext
<1>3. ASSUME NEW p \in Procs, Insert(p) PROVE Stutter \/ Lists!LNext
  <2>1. CASE data[key[p]] # NoPage
    BY <1>3, <2>1 DEF Insert, history
  <2>2. CASE data[key[p]] = NoPage
    <3>1. PICK k \in Keys, n \in 0 .. MaxAmount : k = key[p]
      BY DEF TypeOK
    <3>2. page[p] = <<k, p>> /\ <<k, p>> \in Pages /\ <<k, p>> # NoPage
      BY <1>3, <3>1, CacheAssumption DEF Insert, PageInv, Pages
    <3>3. /\ data[k] = NoPage /\ data' = [data EXCEPT ![k] = page[p]]
          /\ prepopulated' = prepopulated /\ returned' = returned
      BY <1>3, <2>2, <3>1 DEF Insert, history
    <3>4. used' = used \cup {k} /\ k \notin used
      BY <3>2, <3>3 DEF TypeOK
    <3>5. Lists!Use(k)
      BY <3>3, <3>4 DEF Lists!Use
    <3>6. QED
      BY <3>5 DEF Lists!LNext
  <2>3. QED
    BY <2>1, <2>2
<1>4. ASSUME NEW p \in Procs, NEW k \in Keys, GetNothing(p, k) PROVE Lists!LNext
  <2>1. <<>> \in Seq(Elements) /\ Len(<<>>) = 0
    BY EmptySeq
  <2>2. <<>> = Lists!Prefix(k, 0)
    <3>1. \A n \in 1 .. Len(<<>>) : <<>>[n] = ListElement(k, n)
      BY <2>1
    <3>2. QED
      BY <2>1, <3>1, ResultIsPrefix
  <2>3. Lists!Answer(k, 0)
    BY <1>4, <2>2 DEF GetNothing, contents, Lists!Answer
  <2>4. 0 \in 0 .. MaxAmount
    BY CacheAssumption
  <2>5. QED
    BY <2>3, <2>4 DEF Lists!LNext
<1>5. ASSUME NEW p \in Procs, ReturnElements(p) PROVE Lists!LNext
  <2>1. /\ key[p] \in Keys /\ data[key[p]] = page[p] /\ page[p] \in Pages
        /\ amount[p] \in 0 .. MaxAmount /\ ret[p] \in Seq(Elements)
        /\ Len(ret[p]) >= amount[p] /\ Len(ret[p]) <= amount[p]
    BY <1>5, PageOfKey DEF ReturnElements, TypeOK, CopyInv, HavePage, PageReading
  <2>2. Len(ret[p]) = amount[p]
    BY <2>1
  <2>3. \A n \in 1 .. Len(ret[p]) : ret[p][n] = ListElement(key[p], n)
    BY <1>5 DEF ReturnElements, CopyInv
  <2>4. ret[p] = Lists!Prefix(key[p], amount[p])
    BY <2>1, <2>2, <2>3, ResultIsPrefix
  <2>5. key[p] \in used
    BY <2>1, CacheAssumption
  <2>6. Lists!Answer(key[p], amount[p])
    BY <1>5, <2>4, <2>5 DEF ReturnElements, contents, Lists!Answer
  <2>7. QED
    BY <2>1, <2>6 DEF Lists!LNext
<1>6. CASE UNCHANGED vars
  BY <1>1, <1>6 DEF vars, contents, history
<1>7. ASSUME NEW p \in Procs, StartCall(p) \/ LockStep(p) \/ OtherStep(p)
      PROVE  Stutter \/ Lists!LNext
  <2>1. \/ Stutter
        \/ PopulatePage(p) \/ Insert(p) \/ ReturnElements(p)
        \/ \E k \in Keys : GetNothing(p, k)
    BY <1>7 DEF StartCall, LockStep, OtherStep, contents, history, StartPopulate,
       StartGet, LockToPopulate, RefuseToPopulate, FillPage, ReturnFromPopulate, LookUp,
       CreatePage, LockTable, RLockPage, EnoughElements, TooFewElements, LockPage,
       CreateElement, AppendElement, CannotCreateElement, UnlockPage, RLockAgain,
       CopyElement
  <2>2. QED
    BY <1>2, <1>3, <1>4, <1>5, <2>1
<1>8. QED
  BY <1>1, <1>6, <1>7 DEF Next

(* The cache implements the service that serves prefixes of fixed lists.    *)
THEOREM Refinement == Spec => ImplementsLists
<1>1. IInv /\ [Next]_vars => [Lists!LNext]_(Lists!lvars)
  BY NextRefines
<1>2. QED
  BY InitRefines, Invariance, <1>1, PTL DEF Spec, ImplementsLists, Lists!LSpec
=============================================================================
