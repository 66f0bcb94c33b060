----------------------------- MODULE HashTable -----------------------------
(***************************************************************************)
(* src/storage/memory/hash_table.go: the in-memory store `serve` offers     *)
(* (--storage.hash-map) and the YAML store loads its file into.  A Go map   *)
(* is not safe for concurrent writes: a reader that meets a writer inside   *)
(* the map, or a writer that meets anyone, stops the program.  Reading and  *)
(* writing the map are therefore two steps each, entering and leaving it.   *)
(***************************************************************************)
EXTENDS MemoryStore

VARIABLE table  \* the map: a destination, or NotFound for an absent key

vars == <<mu, pc, req, ret, table>>

Init ==
  /\ CallInit
  /\ table = [k \in Key |-> NotFound]

Enter(c) ==
  /\ Entered(c, "Get") \/ Entered(c, "Put")
  /\ pc' = [pc EXCEPT ![c] = "map"]
  /\ UNCHANGED <<mu, req, ret, table>>

MapRead(c) ==
  /\ pc[c] = "map"
  /\ req[c].op = "Get"
  /\ Answer(c, table[req[c].key])
  /\ UNCHANGED table

\* A write that keeps the destination the key already has.
MutMapWrite(c) ==
  /\ pc[c] = "map"
  /\ req[c].op = "Put"
  /\ IF table[req[c].key] = NotFound
     THEN table' = [table EXCEPT ![req[c].key] = req[c].dest]
     ELSE table' = table
  /\ Answer(c, Nil)

MapWrite(c) ==
  /\ pc[c] = "map"
  /\ req[c].op = "Put"
  /\ table' = [table EXCEPT ![req[c].key] = req[c].dest]
  /\ Answer(c, Nil)

Work(c) == Enter(c) \/ MapRead(c) \/ MapWrite(c)

Call(c) == (Invoke(c) \/ GetLock(c) \/ PutLock(c) \/ Return(c)) /\ UNCHANGED table

Next == \E c \in Client : Call(c) \/ Work(c)

Spec == Init /\ [][Next]_vars

\* As in BinarySearch: every goroutine runs, and sync.Mutex does not starve a writer.
FairSpec ==
  /\ Spec
  /\ \A c \in Client :
       /\ WF_vars(GetLock(c) /\ UNCHANGED table)
       /\ SF_vars(PutLock(c) /\ UNCHANGED table)
       /\ WF_vars(Work(c))
       /\ WF_vars(Return(c) /\ UNCHANGED table)

-----------------------------------------------------------------------------
\* The variables hold values of their types, and the lock is in a legal state.
TypeOK ==
  /\ CallTypeOK({"map"})
  /\ MutexOK
  /\ table \in [Key -> Dest \cup {NotFound}]

\* Nobody is inside the map beside a writer ("fatal error: concurrent map read and
\* map write"): what the RWMutex of hash_table.go:31 and 44 is for.
NoConcurrentMapAccess ==
  \A c, d \in Client :
    (pc[c] = "map" /\ pc[d] = "map" /\ req[c].op = "Put") => c = d

Store == INSTANCE LinkStore WITH
  links <- table,
  pc <- [c \in Client |-> IF pc[c] \in {"idle", "done"} THEN pc[c] ELSE "call"]

\* The store keeps the promise of storage.Storer, to any number of goroutines.
Linearizable == Store!Spec

\* A goroutine that asks for the lock gets it: new readers do not keep a writer out,
\* nor writers a reader, and the call returns.
CallsReturn == \A c \in Client : pc[c] = "call" ~> pc[c] = "idle"
=============================================================================
