------------------------------- MODULE RWMutex -------------------------------
(***************************************************************************)
(* The dual-mode lock every container of garray embeds (the field          *)
(* mu *rwmutex.RWMutex, created by rwmutex.New(unsafe...)).  The package   *)
(* internal/rwmutex is not among the repository's sources; this module    *)
(* follows spec section 4.1: in safe mode a sync.RWMutex (any number of    *)
(* shared holders, or one exclusive holder, never both), in unsafe mode    *)
(* four no-ops.  The mode is fixed for the container's lifetime.           *)
(*                                                                         *)
(* Each operator is an action fragment on the lock state mu, to be         *)
(* conjoined with the caller's own updates.  Releasing a lock that is not  *)
(* held is a contract violation the containers never commit, so it is not *)
(* modelled.                                                               *)
(***************************************************************************)
CONSTANTS
  Threads,   \* goroutines that call the container
  Safe,      \* TRUE: rwmutex.New(false), FALSE: rwmutex.New(true)
  NoThread   \* model value: no exclusive holder

VARIABLE mu  \* [writer |-> holder of Lock or NoThread, readers |-> holders of RLock]

Unlocked == [writer |-> NoThread, readers |-> {}]

\* IsSafe() reports the mode chosen at construction.
IsSafe == Safe

\* Lock() blocks until there is neither an exclusive nor a shared holder.
Lock(t) ==
  IF Safe
  THEN /\ mu.writer = NoThread
       /\ mu.readers = {}
       /\ mu' = [mu EXCEPT !.writer = t]
  ELSE UNCHANGED mu

\* Mutant of Unlock: the release forgotten.
UnlockForgotten(t) == UNCHANGED mu

Unlock(t) ==
  IF Safe THEN mu' = [mu EXCEPT !.writer = NoThread] ELSE UNCHANGED mu

\* RLock() blocks while an exclusive holder exists.
RLock(t) ==
  IF Safe
  THEN /\ mu.writer = NoThread
       /\ mu' = [mu EXCEPT !.readers = @ \cup {t}]
  ELSE UNCHANGED mu

\* Mutant of RUnlock: the shared hold never released.
RUnlockForgotten(t) == UNCHANGED mu

RUnlock(t) ==
  IF Safe THEN mu' = [mu EXCEPT !.readers = @ \ {t}] ELSE UNCHANGED mu

TypeOK ==
  /\ mu.writer \in Threads \cup {NoThread}
  /\ mu.readers \subseteq Threads
  /\ Safe => (mu.writer # NoThread => mu.readers = {})
=============================================================================
