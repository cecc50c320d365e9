---------------------------- MODULE ElementLists ----------------------------
(***************************************************************************)
(* What a PrecomputedCache promises: every key stands for one list that    *)
(* never changes.  It begins with the entries the key was prepopulated     *)
(* with, if it was before its first use, and continues with the successive *)
(* draws of the generator seeded by the key.  Every answer is a prefix.    *)
(***************************************************************************)
EXTENDS Naturals

CONSTANTS Keys, MaxAmount

VARIABLES
  used,     \* the keys whose list has been fixed
  entries,  \* entries[k]: number of prepopulated elements
  answers   \* answers[k]: the lists handed out for key k

lvars == <<used, entries, answers>>

(* The n-th element of the list of key k. *)
Element(k, n) ==
  IF n <= entries[k] THEN <<k, "entry", n>> ELSE <<k, "draw", n - entries[k]>>

Prefix(k, n) == [m \in 1 .. n |-> Element(k, m)]

LInit ==
  /\ used = {}
  /\ entries = [k \in Keys |-> 0]
  /\ answers = [k \in Keys |-> {}]

Populate(k, n) ==
  /\ k \notin used
  /\ used' = used \cup {k}
  /\ entries' = [entries EXCEPT ![k] = n]
  /\ UNCHANGED answers

Use(k) ==
  /\ k \notin used
  /\ used' = used \cup {k}
  /\ UNCHANGED <<entries, answers>>

(* Asking for no elements at all does not use the key. *)
Answer(k, n) ==
  /\ k \in used \/ n = 0
  /\ answers' = [answers EXCEPT ![k] = @ \cup {Prefix(k, n)}]
  /\ UNCHANGED <<used, entries>>

LNext ==
  \E k \in Keys, n \in 0 .. MaxAmount : Populate(k, n) \/ Use(k) \/ Answer(k, n)

LSpec == LInit /\ [][LNext]_lvars
=============================================================================
