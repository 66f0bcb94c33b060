------------------------------ MODULE RWMutex ------------------------------
(***************************************************************************)
(* Go's sync.RWMutex, as the in-memory stores use it (package sync is not   *)
(* part of the repository).  A writer first takes the writers' own mutex,   *)
(* which announces it, and then waits for the readers that are already in.  *)
(* A reader that arrives after the announcement waits, and is let in as one *)
(* batch when the writer unlocks, ahead of the next writer.                 *)
(***************************************************************************)
CONSTANTS Client,   \* the goroutines that call the store
          NoClient  \* nobody

ASSUME NoClientAssumption == NoClient \notin Client

VARIABLE mu  \* w: the announced writer, r: the readers inside, q: the readers waiting

MutexType == [w : Client \cup {NoClient}, r : SUBSET Client, q : SUBSET Client]

\* Nobody waits for a lock it is inside of.
MutexOK == mu.r \cap mu.q = {} /\ mu.w \notin mu.r \cup mu.q

Unlocked == [w |-> NoClient, r |-> {}, q |-> {}]

RLock(c) ==
  IF mu.w = NoClient
  THEN mu' = [mu EXCEPT !.r = mu.r \cup {c}]
  ELSE mu' = [mu EXCEPT !.q = mu.q \cup {c}]

RUnlock(c) == mu' = [mu EXCEPT !.r = mu.r \ {c}]

\* A writer that does not wait for the writer before it.
MutLock(c) == mu' = [mu EXCEPT !.w = c]

\* The announcement; the writer is inside once HoldsWrite is true.
Lock(c) ==
  /\ mu.w = NoClient
  /\ mu' = [mu EXCEPT !.w = c]

Unlock(c) == mu' = [w |-> NoClient, r |-> mu.r \cup mu.q, q |-> {}]

HoldsRead(c) == c \in mu.r

\* A writer that does not wait for the readers that are inside.
MutHoldsWrite(c) == mu.w = c

HoldsWrite(c) == mu.w = c /\ mu.r = {}
=============================================================================
