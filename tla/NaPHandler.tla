------------------------------ MODULE NaPHandler ------------------------------
(***************************************************************************)
(* The global handler of NaPs (error_handler.go) and the calls that watch  *)
(* it: wasInvalidPointEncountered and guardForInvalidPoints replace it by  *)
(* a closure that notes the call and calls the handler replaced, run a     *)
(* function and put the old handler back.  The function may meet NaPs,     *)
(* panic, and watch other functions.                                       *)
(*                                                                         *)
(* A closure is named by its frame, 1, 2, ...; users' handlers return or   *)
(* panic.  error_handler_mutex is held for single assignments only and is  *)
(* part of the steps.                                                      *)
(***************************************************************************)
EXTENDS Integers, Sequences, SequencesExt

CONSTANTS Goroutines,
          MaxFrames       \* bound of the model: the calls that watch

Returns == 0
Panics == -1
UserHandlers == {Returns, Panics}
Nil == -2              \* no pointer
None == -3             \* no handler runs
Panicking == -4        \* instead of a handler: the goroutine panics

VARIABLES current_error_handler,
          frames,         \* [old, old_handler_ptr, error_bit, result, met] each
          nested,         \* the frames of a goroutine, innermost last
          handling,       \* the handler that a goroutine runs
          installed       \* the handler that users installed last

handlerVars == <<current_error_handler, frames, nested, handling, installed>>

HandlerInit ==
  /\ current_error_handler = Returns /\ installed = Returns
  /\ frames = <<>>
  /\ nested = [g \in Goroutines |-> <<>>]
  /\ handling = [g \in Goroutines |-> None]

Runs(g) == handling[g] = None
Innermost(g) == Last(nested[g])
\* The function that a frame watches runs: the pointer is set, and no result
\* has been taken.
Watching(f) == frames[f].old_handler_ptr # Nil /\ frames[f].result = "none"

\* By users, while nobody watches.
SetNaPErrorHandler(g, h) ==
  /\ Runs(g) /\ (\A k \in Goroutines : nested[k] = <<>>) /\ h # current_error_handler
  /\ current_error_handler' = h /\ installed' = h
  /\ UNCHANGED <<frames, nested, handling>>

\* The closure is installed before its pointer to the old handler is set.
Install(g) ==
  /\ Runs(g) /\ Len(frames) < MaxFrames
  /\ nested[g] # <<>> => Watching(Innermost(g))
  /\ current_error_handler' = Len(frames) + 1
  /\ frames' = Append(frames, [old |-> current_error_handler, old_handler_ptr |-> Nil,
                               error_bit |-> FALSE, result |-> "none", met |-> FALSE])
  /\ nested' = [nested EXCEPT ![g] = Append(@, Len(frames) + 1)]
  /\ UNCHANGED <<handling, installed>>

SetPointer(g) ==
  /\ Runs(g) /\ nested[g] # <<>> /\ frames[Innermost(g)].old_handler_ptr = Nil
  /\ frames' = [frames EXCEPT ![Innermost(g)].old_handler_ptr = frames[Innermost(g)].old]
  /\ UNCHANGED <<current_error_handler, nested, handling, installed>>

\* napEncountered takes a copy of the handler and calls it later.  met notes
\* it for every frame whose function is running.
NapEncountered(g) ==
  /\ Runs(g) /\ (nested[g] # <<>> => Watching(Innermost(g)))
  /\ handling' = [handling EXCEPT ![g] = current_error_handler]
  /\ frames' = [f \in DOMAIN frames |->
                  IF f \in ToSet(nested[g]) THEN [frames[f] EXCEPT !.met = TRUE] ELSE frames[f]]
  /\ UNCHANGED <<current_error_handler, nested, installed>>

\* A closure sets its bit and calls what its pointer points to.
CallHandler(g) ==
  LET h == handling[g]
  IN  /\ h \notin {None, Panicking}
      /\ IF h \in UserHandlers
         THEN handling' = [handling EXCEPT ![g] = IF h = Panics THEN Panicking ELSE None] /\ UNCHANGED frames
         ELSE /\ frames' = [frames EXCEPT ![h].error_bit = TRUE]
              /\ handling' = [handling EXCEPT ![g] = IF frames[h].old_handler_ptr = Nil THEN Panicking
                                                     ELSE frames[h].old_handler_ptr]
      /\ UNCHANGED <<current_error_handler, nested, installed>>

\* The function that is watched panics for a reason of its own.
FunPanics(g) ==
  /\ Runs(g) /\ nested[g] # <<>> /\ Watching(Innermost(g))
  /\ handling' = [handling EXCEPT ![g] = Panicking]
  /\ UNCHANGED <<current_error_handler, frames, nested, installed>>

\* The result is taken first, then the deferred call restores the handler.
TakeResult(g) ==
  /\ Runs(g) /\ nested[g] # <<>> /\ Watching(Innermost(g))
  /\ frames' = [frames EXCEPT ![Innermost(g)].result = IF frames[Innermost(g)].error_bit THEN "true" ELSE "false"]
  /\ UNCHANGED <<current_error_handler, nested, handling, installed>>

(* Mutant: the handler is restored without a deferred call. *)
RestoreMutant(g) ==
  /\ nested[g] # <<>>
  /\ handling[g] = Panicking \/ (Runs(g) /\ frames[Innermost(g)].result # "none")
  /\ current_error_handler' = IF Runs(g) THEN frames[Innermost(g)].old ELSE current_error_handler
  /\ nested' = [nested EXCEPT ![g] = Front(@)]
  /\ UNCHANGED <<frames, handling, installed>>

Restore(g) ==
  /\ nested[g] # <<>>
  /\ handling[g] = Panicking \/ (Runs(g) /\ frames[Innermost(g)].result # "none")
  /\ current_error_handler' = frames[Innermost(g)].old
  /\ nested' = [nested EXCEPT ![g] = Front(@)]
  /\ UNCHANGED <<frames, handling, installed>>

\* The caller of the function that panicked recovers.
RecoverFromPanic(g) ==
  /\ handling[g] = Panicking
  /\ handling' = [handling EXCEPT ![g] = None]
  /\ UNCHANGED <<current_error_handler, frames, nested, installed>>

HandlerNext ==
  \E g \in Goroutines :
    \/ \E h \in UserHandlers : SetNaPErrorHandler(g, h)
    \/ Install(g) \/ SetPointer(g) \/ NapEncountered(g) \/ CallHandler(g) \/ FunPanics(g)
    \/ TakeResult(g) \/ Restore(g) \/ RecoverFromPanic(g)

HandlerSpec == HandlerInit /\ [][HandlerNext]_handlerVars

----------------------------------------------------------------------------
(* Properties.                                                             *)

\* Watching, by one goroutine: every frame that returns has noted exactly
\* whether its function met a NaP, however deep in other frames and whatever
\* panicked and was recovered on the way; no NaP reaches a closure without its
\* pointer or of a call that is over; and the users' handler is in force again
\* when all calls are over.
NaPsReported ==
  /\ \A f \in DOMAIN frames : frames[f].result # "none" => (frames[f].result = "true" <=> frames[f].met)
  /\ \A g \in Goroutines :
       /\ handling[g] \notin UserHandlers \cup {None, Panicking} =>
            handling[g] \in ToSet(nested[g]) /\ frames[handling[g]].old_handler_ptr # Nil
       /\ nested[g] = <<>> => current_error_handler = installed

\* wasInvalidPointEncountered returns whether the handler was triggered
\* during the execution of its function: also if another goroutine watches a
\* function at the same time.
NaPsNotMissed ==
  \A f \in DOMAIN frames : frames[f].met => frames[f].result # "false"
=============================================================================
