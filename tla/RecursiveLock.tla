--------------------------- MODULE RecursiveLock ---------------------------
(***************************************************************************)
(* The recursive mutex of utils/lightlock.c.  A lock is a value: the       *)
(* thread that owns it (or Nobody) and how often that thread has locked    *)
(* it.  A thread that already owns the mutex may lock it again; any other  *)
(* thread waits, which a specification writes as a guard.                  *)
(***************************************************************************)
EXTENDS Naturals

CONSTANT Nobody    \* the owner of a mutex no thread holds

LockState(Threads) == [owner : Threads \cup {Nobody}, depth : Nat]

\* lightlock_init: a fresh mutex, owned by nobody.
Unlocked == [owner |-> Nobody, depth |-> 0]

Holds(lock, t) == lock.owner = t

\* lightlock_lock returns to thread t only in such a state.
CanLock(lock, t) == lock.owner \in {Nobody, t}

LockedBy(lock, t) == [owner |-> t, depth |-> lock.depth + 1]

\* lightlock_unlock by the owner: the mutex is free when the outermost call ends.
Released(lock) ==
  IF lock.depth = 1 THEN Unlocked
  ELSE [lock EXCEPT !.depth = lock.depth - 1]

=============================================================================
