---------------------------- MODULE ScopeLocker ----------------------------
(***************************************************************************)
(* The mutex of common/locker.h and the scope guard around it, as actions  *)
(* on the futex word of a default (non-checking) pthread mutex.  A guard   *)
(* sets m_is_lock in its constructor and never clears it, so the test in   *)
(* unlock() is always true, and the destructor unlocks whatever unlock()   *)
(* did before: a scope that calls unlock() releases the word twice, and    *)
(* the second release does not ask who holds it.                           *)
(***************************************************************************)
VARIABLE word       \* TRUE while the mutex is held

\* ScopeLocker(mutex): blocks until the word is free, then takes it.
Construct == ~word /\ word' = TRUE

\* ScopeLocker::unlock(), m_is_lock being TRUE.
Unlock == word' = FALSE

\* ~ScopeLocker(): an unconditional release.
Destruct == word' = FALSE
=============================================================================
