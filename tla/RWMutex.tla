------------------------------- MODULE RWMutex -------------------------------
(***************************************************************************)
(* Go's sync.RWMutex, as the code of mod/ uses it.  A writer first shuts   *)
(* the door: from then on RLock blocks, also in a goroutine that already   *)
(* has a read lock, until the writer has had its turn.  Unlock lets in all *)
(* the readers that wait.                                                  *)
(***************************************************************************)
EXTENDS Naturals

CONSTANTS
    Procs,      \* goroutines that use the mutex
    NoProc      \* no goroutine

ASSUME NoProcAssumption == NoProc \notin Procs

VARIABLES
    readers,    \* the read locks each goroutine has
    blocked,    \* goroutines whose RLock waits for the writer to leave
    writer      \* the goroutine that shut the door, or NoProc

lockVars == <<readers, blocked, writer>>

LockTypeOK ==
    /\ readers \in [Procs -> Nat]
    /\ blocked \subseteq Procs
    /\ writer \in Procs \cup {NoProc}

LockInit ==
    /\ readers = [p \in Procs |-> 0]
    /\ blocked = {}
    /\ writer = NoProc

\* RLock begins; it has returned when p is not blocked.
RLock(p) ==
    /\ \/ /\ writer = NoProc
          /\ readers' = [readers EXCEPT ![p] = @ + 1]
          /\ UNCHANGED blocked
       \/ /\ writer # NoProc
          /\ blocked' = blocked \cup {p}
          /\ UNCHANGED readers
    /\ UNCHANGED writer

\* RUnlock n times.
RUnlock(p, n) ==
    /\ readers' = [readers EXCEPT ![p] = @ - n]
    /\ UNCHANGED <<blocked, writer>>

\* Lock begins; it has returned when Holds(p).
Announce(p) ==
    /\ writer = NoProc
    /\ writer' = p
    /\ UNCHANGED <<readers, blocked>>

Holds(p) == writer = p /\ \A q \in Procs : readers[q] = 0

Unlock(p) ==
    /\ readers' = [q \in Procs |-> IF q \in blocked THEN readers[q] + 1 ELSE readers[q]]
    /\ blocked' = {}
    /\ writer' = NoProc

==============================================================================
