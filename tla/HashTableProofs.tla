-------------------------- MODULE HashTableProofs --------------------------
(***************************************************************************)
(* For every set of goroutines, keys and destinations: the Go map of        *)
(* HashTable is never read or written beside a write to it, and the store   *)
(* implements LinkStore.  A step only enters the map holding the lock, so   *)
(* the invariant the proofs need says which lock a call holds where.        *)
(***************************************************************************)
EXTENDS HashTable, MemoryStoreProofs

IInv == TypeOK /\ LockInv

LEMMA IInvTypes == IInv => CallTypes
BY DEF IInv, TypeOK, CallTypeOK, CallTypes

LEMMA InitIInv == Init => IInv
<1> SUFFICES ASSUME Init PROVE IInv
  OBVIOUS
<1>1. TypeOK
  BY NoClientAssumption
  DEF Init, CallInit, TypeOK, CallTypeOK, MutexType, MutexOK, Unlocked
<1>2. LockInv
  BY InitLockInv DEF Init
<1>3. QED
  BY <1>1, <1>2 DEF IInv

\* The steps that invoke, lock and return leave the map alone.
LEMMA CallKeepsIInv ==
  ASSUME IInv, NEW c \in Client, Call(c)
  PROVE  IInv'
<1>1. CallTypeOK({"map"})' /\ table' \in [Key -> Dest \cup {NotFound}]
  BY NoClientAssumption
  DEF IInv, Call, TypeOK, CallTypeOK, MutexType, Invoke, GetLock, PutLock, Return, RLock, Lock,
      RUnlock, Unlock
<1>2. LockInv'
  BY IInvTypes, CallKeepsLockInv DEF IInv, Call
<1>3. MutexOK'
  BY <1>1, <1>2, NoClientAssumption
  DEF CallTypeOK, LockInv, Holding, MutexType, MutexOK
<1>4. QED
  BY <1>1, <1>2, <1>3 DEF IInv, TypeOK

\* The steps inside the lock do not touch it.
LEMMA WorkStepsInside ==
  ASSUME IInv, NEW c \in Client, Work(c)
  PROVE  StepsInside(c, "map") \/ StepsInside(c, "done")
BY DEF StepsInside, Work, Enter, Entered, MapRead, MapWrite, Answer

LEMMA WorkKeepsIInv ==
  ASSUME IInv, NEW c \in Client, Work(c)
  PROVE  IInv'
<1>1. Holding(c) /\ req[c] \in Request
  BY DEF IInv, LockInv, Holding, Work, Enter, Entered, MapRead, MapWrite
<1>2. /\ req[c].key \in Key
      /\ req[c].op = "Put" => req[c].dest \in Dest
  BY <1>1, RequestFacts
<1>3. TypeOK'
  BY <1>2 DEF IInv, TypeOK, CallTypeOK, MutexOK, Work, Enter, MapRead, MapWrite, Answer
<1>4. LockInv'
  BY WorkStepsInside, IInvTypes, WorkKeepsLockInv DEF IInv
<1>5. QED
  BY <1>3, <1>4 DEF IInv

LEMMA NextIInv == IInv /\ [Next]_vars => IInv'
<1> SUFFICES ASSUME IInv, [Next]_vars PROVE IInv'
  OBVIOUS
<1>1. ASSUME NEW c \in Client, Call(c) PROVE IInv'
  BY <1>1, CallKeepsIInv
<1>2. ASSUME NEW c \in Client, Work(c) PROVE IInv'
  BY <1>2, WorkKeepsIInv
<1>3. CASE UNCHANGED vars
  BY <1>3, StutterKeepsLockInv DEF vars, IInv, TypeOK, CallTypeOK, MutexOK
<1>4. QED
  BY <1>1, <1>2, <1>3 DEF Next

LEMMA Invariant == Spec => []IInv
BY InitIInv, NextIInv, PTL DEF Spec

\* The variables hold values of their types, and the lock is in a legal state.
THEOREM TypeCorrect == Spec => []TypeOK
<1>1. IInv => TypeOK
  BY DEF IInv
<1>2. QED
  BY <1>1, Invariant, PTL

\* No goroutine is inside the map beside a writer, however many call (hash_table.go:31,
\* 44): the program is never stopped by "concurrent map read and map write".
THEOREM MapAccessExcludes == Spec => []NoConcurrentMapAccess
<1>1. IInv => NoConcurrentMapAccess
  BY DEF IInv, LockInv, Holding, HoldsRead, HoldsWrite, NoConcurrentMapAccess
<1>2. QED
  BY <1>1, Invariant, PTL

\* A call of the hash table that waits, waits for calls that are inside and can go on, or
\* for the writer that waits for those: no set of goroutines, however large, blocks itself.
THEOREM WaitingEnds == Spec => []NobodyStuck
<1>1. IInv => NobodyStuck
  BY IInvTypes, LockInvNobodyStuck DEF IInv
<1>2. QED
  BY <1>1, Invariant, PTL

(***************************************************************************)
(* Refinement of LinkStore: a call takes effect when it leaves the map.     *)
(***************************************************************************)
absPc == [c \in Client |-> IF pc[c] \in {"idle", "done"} THEN pc[c] ELSE "call"]

LEMMA CallRefines ==
  ASSUME IInv, NEW c \in Client, Call(c)
  PROVE  [Store!Next]_(Store!storeVars)
<1> USE DEF Call, IInv, TypeOK, CallTypeOK
<1>1. CASE Invoke(c)
  <2>1. PICK r \in Request : req' = [req EXCEPT ![c] = r]
    BY <1>1 DEF Invoke
  <2>2. absPc[c] = "idle" /\ absPc' = [absPc EXCEPT ![c] = "call"] /\ ret' = ret
    BY <1>1 DEF Invoke, absPc
  <2>3. r \in Store!Request
    BY <2>1 DEF Request, Store!Request
  <2>4. Store!Invoke(c)
    BY <2>1, <2>2, <2>3 DEF Store!Invoke, absPc
  <2>5. QED
    BY <2>4 DEF Store!Next
<1>2. CASE GetLock(c) \/ PutLock(c)
  <2>1. absPc' = absPc /\ req' = req /\ ret' = ret
    BY <1>2 DEF GetLock, PutLock, absPc
  <2>2. QED
    BY <2>1 DEF Store!storeVars, absPc
<1>3. CASE Return(c)
  <2>1. absPc[c] = "done" /\ absPc' = [absPc EXCEPT ![c] = "idle"]
    BY <1>3 DEF Return, absPc
  <2>2. Store!Return(c)
    BY <1>3, <2>1 DEF Return, Store!Return, absPc
  <2>3. QED
    BY <2>2 DEF Store!Next
<1>4. QED
  BY <1>1, <1>2, <1>3

LEMMA WorkRefines ==
  ASSUME IInv, NEW c \in Client, Work(c)
  PROVE  [Store!Next]_(Store!storeVars)
<1> USE DEF IInv, TypeOK, CallTypeOK
<1>1. CASE Enter(c)
  <2>1. absPc' = absPc /\ UNCHANGED <<table, req, ret>>
    BY <1>1 DEF Enter, Entered, absPc
  <2>2. QED
    BY <2>1 DEF Store!storeVars, absPc
<1>2. CASE MapRead(c)
  <2>1. absPc[c] = "call" /\ absPc' = [absPc EXCEPT ![c] = "done"]
    BY <1>2 DEF MapRead, Answer, absPc
  <2>2. Store!DoGet(c)
    BY <1>2, <2>1 DEF MapRead, Answer, Store!DoGet, absPc
  <2>3. QED
    BY <2>2 DEF Store!Next
<1>3. CASE MapWrite(c)
  <2>1. absPc[c] = "call" /\ absPc' = [absPc EXCEPT ![c] = "done"]
    BY <1>3 DEF MapWrite, Answer, absPc
  <2>2. Store!DoPut(c)
    BY <1>3, <2>1 DEF MapWrite, Answer, Store!DoPut, absPc
  <2>3. QED
    BY <2>2 DEF Store!Next
<1>4. QED
  BY <1>1, <1>2, <1>3 DEF Work

\* The map keeps the promise of storage.Storer: whatever the interleaving, each Get and
\* Put takes effect at one instant between its call and its return.
THEOREM ImplementsLinkStore == Spec => Linearizable
<1>1. Init => Store!Init
  BY DEF Init, CallInit, Store!Init
<1>2. IInv /\ [Next]_vars => [Store!Next]_(Store!storeVars)
  <2> SUFFICES ASSUME IInv, [Next]_vars PROVE [Store!Next]_(Store!storeVars)
    OBVIOUS
  <2>1. ASSUME NEW c \in Client, Call(c) PROVE [Store!Next]_(Store!storeVars)
    BY <2>1, CallRefines
  <2>2. ASSUME NEW c \in Client, Work(c) PROVE [Store!Next]_(Store!storeVars)
    BY <2>2, WorkRefines
  <2>3. CASE UNCHANGED vars
    BY <2>3 DEF vars, Store!storeVars
  <2>4. QED
    BY <2>1, <2>2, <2>3 DEF Next
<1>3. QED
  BY <1>1, <1>2, Invariant, PTL DEF Spec, Linearizable, Store!Spec
=============================================================================
