---------------------------- MODULE MemoryStore ----------------------------
(***************************************************************************)
(* What the three stores of src/storage/memory share: goroutines that call  *)
(* Get and Put at any time, the RWMutex each store guards its data with,    *)
(* and the deferred unlock.  A store EXTENDS this module with its data and  *)
(* with the steps between the lock and the answer.                          *)
(***************************************************************************)
EXTENDS RWMutex

CONSTANTS Key, Dest, NotFound, Nil, NoReq

ASSUME ResultAssumption == {NotFound, Nil} \cap Dest = {} /\ NotFound # Nil

VARIABLES pc,   \* "idle", "call", "lock", the steps of the store, "done"
          req,  \* the arguments of the call in progress
          ret   \* its result

callVars == <<mu, pc, req, ret>>

Request ==
  [op : {"Get"}, key : Key] \cup [op : {"Put"}, key : Key, dest : Dest]

ASSUME RequestAssumption == NoReq \notin Request

CallTypeOK(steps) ==
  /\ mu \in MutexType
  /\ pc \in [Client -> {"idle", "call", "lock", "done"} \cup steps]
  /\ req \in [Client -> Request \cup {NoReq}]
  /\ ret \in [Client -> Dest \cup {NotFound, Nil}]

CallInit ==
  /\ mu = Unlocked
  /\ pc = [c \in Client |-> "idle"]
  /\ req = [c \in Client |-> NoReq]
  /\ ret = [c \in Client |-> Nil]

Invoke(c) ==
  /\ pc[c] = "idle"
  /\ \E r \in Request : req' = [req EXCEPT ![c] = r]
  /\ pc' = [pc EXCEPT ![c] = "call"]
  /\ UNCHANGED <<mu, ret>>

GetLock(c) ==
  /\ pc[c] = "call"
  /\ req[c].op = "Get"
  /\ RLock(c)
  /\ pc' = [pc EXCEPT ![c] = "lock"]
  /\ UNCHANGED <<req, ret>>

PutLock(c) ==
  /\ pc[c] = "call"
  /\ req[c].op = "Put"
  /\ Lock(c)
  /\ pc' = [pc EXCEPT ![c] = "lock"]
  /\ UNCHANGED <<req, ret>>

\* c is inside the lock and about to run the body of op.
Entered(c, op) ==
  /\ pc[c] = "lock"
  /\ req[c].op = op
  /\ IF op = "Get" THEN HoldsRead(c) ELSE HoldsWrite(c)

Answer(c, result) ==
  /\ pc' = [pc EXCEPT ![c] = "done"]
  /\ ret' = [ret EXCEPT ![c] = result]
  /\ UNCHANGED <<mu, req>>

\* A return that forgets the deferred unlock.
MutReturn(c) ==
  /\ pc[c] = "done"
  /\ mu' = mu
  /\ pc' = [pc EXCEPT ![c] = "idle"]
  /\ req' = [req EXCEPT ![c] = NoReq]
  /\ ret' = [ret EXCEPT ![c] = Nil]

\* The deferred unlock, and the return to the caller.
Return(c) ==
  /\ pc[c] = "done"
  /\ IF req[c].op = "Get" THEN RUnlock(c) ELSE Unlock(c)
  /\ pc' = [pc EXCEPT ![c] = "idle"]
  /\ req' = [req EXCEPT ![c] = NoReq]
  /\ ret' = [ret EXCEPT ![c] = Nil]

-----------------------------------------------------------------------------
\* A call that waits in Lock or RLock, for the announced writer or for the readers inside.
Blocked(c) ==
  \/ pc[c] = "call" /\ req[c].op = "Put" /\ mu.w # NoClient
  \/ pc[c] = "lock" /\ req[c].op = "Get" /\ ~ HoldsRead(c)
  \/ pc[c] = "lock" /\ req[c].op = "Put" /\ ~ HoldsWrite(c)

\* Those a blocked call waits for.
Blockers(c) == IF pc[c] = "lock" /\ req[c].op = "Put" THEN mu.r ELSE {mu.w}

\* A call between its lock and its unlock, which needs nobody else to go on.
Inside(c) == pc[c] \notin {"idle", "call"} /\ ~ Blocked(c)

\* The deferred unlocks of both stores (binary_search.go:70-71, 84-85, hash_table.go:31-32,
\* 44-45) leave nobody waiting for a call that has returned, or in a circle: whoever waits,
\* waits for calls inside the lock, or for the one writer that waits for those.
NobodyStuck ==
  \A c \in Client : Blocked(c) =>
    /\ Blockers(c) # {}
    /\ \A d \in Blockers(c) :
         /\ d \in Client \ {c}
         /\ Inside(d) \/ (Blocked(d) /\ Blockers(d) # {} /\ \A e \in Blockers(d) : Inside(e))
=============================================================================
