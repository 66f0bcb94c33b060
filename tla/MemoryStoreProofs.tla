------------------------- MODULE MemoryStoreProofs -------------------------
(***************************************************************************)
(* What both memory stores rely on of the lock, for every set of            *)
(* goroutines: who has it, who waits for it, and that the calls that invoke, *)
(* lock and return keep it so, whatever steps a store has in between.       *)
(***************************************************************************)
EXTENDS MemoryStore, TLAPS

\* What is known of the arguments of a call.
LEMMA RequestFacts ==
  ASSUME NEW r \in Request
  PROVE  /\ r.op \in {"Get", "Put"}
         /\ r.key \in Key
         /\ r.op = "Put" => r.dest \in Dest
         /\ r # NoReq
BY RequestAssumption DEF Request

\* What c has of the lock, from the call of RLock or Lock to the deferred unlock.
Holding(c) ==
  /\ pc[c] # "idle" => req[c] \in Request
  /\ mu.w = c => pc[c] \notin {"idle", "call"} /\ req[c].op = "Put"
  /\ c \in mu.r => pc[c] \notin {"idle", "call"} /\ req[c].op = "Get"
  /\ c \in mu.q => pc[c] = "lock" /\ req[c].op = "Get" /\ c \notin mu.r
  /\ pc[c] = "lock" => IF req[c].op = "Get" THEN c \in mu.r \cup mu.q ELSE mu.w = c
  /\ pc[c] \notin {"idle", "call", "lock"} =>
       IF req[c].op = "Get" THEN HoldsRead(c) ELSE HoldsWrite(c)

\* Readers wait for a writer alone.
QueueHasCause == mu.q # {} => mu.w # NoClient

LockInv == QueueHasCause /\ \A c \in Client : Holding(c)

CallTypes ==
  /\ mu \in MutexType
  /\ DOMAIN pc = Client
  /\ DOMAIN req = Client
  /\ pc = [c \in Client |-> pc[c]]
  /\ req = [c \in Client |-> req[c]]

LEMMA InitLockInv == CallInit => LockInv
BY NoClientAssumption DEF CallInit, LockInv, QueueHasCause, Holding, Unlocked

\* The steps that take the lock, wait for it and give it back.
LEMMA CallKeepsLockInv ==
  ASSUME LockInv, CallTypes, NEW c \in Client,
         Invoke(c) \/ GetLock(c) \/ PutLock(c) \/ Return(c)
  PROVE  LockInv'
<1> USE NoClientAssumption DEF CallTypes, MutexType
<1>0. Holding(c)
  BY DEF LockInv
<1>1. QueueHasCause'
  BY <1>0 DEF LockInv, QueueHasCause, Holding, Invoke, GetLock, PutLock, Return, RLock, Lock,
              RUnlock, Unlock
<1>2. ASSUME NEW d \in Client PROVE Holding(d)'
  <2> USE DEF Holding, HoldsRead, HoldsWrite
  <2>0. Holding(d)
    BY DEF LockInv
  <2>1. CASE Invoke(c)
    BY <1>0, <2>0, <2>1 DEF Invoke
  <2>2. CASE GetLock(c)
    BY <1>0, <2>0, <2>2 DEF GetLock, RLock
  <2>3. CASE PutLock(c)
    <3>1. req[c] \in Request /\ req[c].op = "Put" /\ pc[c] = "call" /\ mu.w = NoClient
      BY <1>0, <2>3 DEF PutLock, Lock
    <3>2. mu' = [mu EXCEPT !.w = c] /\ pc' = [pc EXCEPT ![c] = "lock"] /\ req' = req
      BY <2>3 DEF PutLock, Lock
    <3>3. QED
      BY <1>0, <2>0, <3>1, <3>2
  <2>4. CASE Return(c)
    <3>1. req[c].op \in {"Get", "Put"}
      BY <1>0, <2>4, RequestFacts DEF Return
    <3>2. CASE req[c].op = "Get"
      <4>1. HoldsRead(c) /\ mu' = [mu EXCEPT !.r = mu.r \ {c}]
        BY <1>0, <2>4, <3>2 DEF Return, RUnlock
      <4>2. mu'.w = mu.w /\ mu'.r = mu.r \ {c} /\ mu'.q = mu.q
        BY <4>1
      <4>3. mu.w # c /\ c \notin mu.q
        BY <1>0, <2>4, <3>2 DEF Return
      <4>4. QED
        BY <2>0, <2>4, <4>2, <4>3 DEF Return
    <3>3. CASE req[c].op = "Put"
      <4>1. mu.w = c /\ mu.r = {} /\ mu' = [w |-> NoClient, r |-> mu.r \cup mu.q, q |-> {}]
        BY <1>0, <2>4, <3>3 DEF Return, Unlock
      <4>2. mu'.w = NoClient /\ mu'.r = mu.q /\ mu'.q = {}
        BY <4>1
      <4>3. c \notin mu.q
        BY <1>0, <2>4, <3>3 DEF Return
      <4>4. QED
        BY <2>0, <2>4, <4>1, <4>2, <4>3 DEF Return
    <3>4. QED
      BY <3>1, <3>2, <3>3
  <2>5. QED
    BY <2>1, <2>2, <2>3, <2>4
<1>3. QED
  BY <1>1, <1>2 DEF LockInv

\* A step of a call that is inside the lock, from the lock to the answer.
StepsInside(c, step) ==
  /\ UNCHANGED <<mu, req>>
  /\ pc[c] = "lock" => IF req[c].op = "Get" THEN HoldsRead(c) ELSE HoldsWrite(c)
  /\ pc[c] \notin {"idle", "call"}
  /\ pc' = [pc EXCEPT ![c] = step]
  /\ step \notin {"idle", "call", "lock"}

LEMMA WorkKeepsLockInv ==
  ASSUME LockInv, CallTypes, NEW c \in Client, NEW step, StepsInside(c, step)
  PROVE  LockInv'
<1>1. QueueHasCause'
  BY DEF LockInv, QueueHasCause, StepsInside
<1>2. ASSUME NEW d \in Client PROVE Holding(d)'
  <2>1. Holding(c) /\ Holding(d)
    BY DEF LockInv
  <2>2. QED
    BY <2>1, NoClientAssumption
    DEF StepsInside, CallTypes, MutexType, Holding, HoldsRead, HoldsWrite
<1>3. QED
  BY <1>1, <1>2 DEF LockInv

LEMMA StutterKeepsLockInv == LockInv /\ UNCHANGED <<mu, pc, req>> => LockInv'
BY DEF LockInv, QueueHasCause, Holding, HoldsRead, HoldsWrite

\* Nobody waits for a lock it is inside of.
LEMMA LockInvMutexOK == LockInv /\ CallTypes => MutexOK
BY NoClientAssumption DEF LockInv, Holding, CallTypes, MutexType, MutexOK

\* Whoever is a reader inside needs nobody to go on.
LEMMA ReadersAreInside ==
  ASSUME LockInv, NEW d \in Client, d \in mu.r
  PROVE  Inside(d)
BY DEF LockInv, Holding, Inside, Blocked, HoldsRead

\* The announced writer is inside, or waits for readers that are.
LEMMA WriterIsInsideOrWaits ==
  ASSUME LockInv, CallTypes, NEW d \in Client, mu.w = d
  PROVE  Inside(d) \/ (Blocked(d) /\ Blockers(d) # {} /\ \A e \in Blockers(d) : Inside(e))
<1>1. Holding(d)
  BY DEF LockInv
<1>2. CASE pc[d] = "lock" /\ mu.r # {}
  <2>1. Blocked(d) /\ Blockers(d) = mu.r
    BY <1>1, <1>2 DEF Holding, Blocked, Blockers, HoldsWrite
  <2>2. QED
    BY <1>2, <2>1, ReadersAreInside DEF CallTypes, MutexType
<1>3. CASE ~ (pc[d] = "lock" /\ mu.r # {})
  BY <1>1, <1>3 DEF Holding, Inside, Blocked, HoldsWrite
<1>4. QED
  BY <1>2, <1>3

\* The lock's waiting is well founded: no circle, and nobody who has gone.
LEMMA LockInvNobodyStuck ==
  ASSUME LockInv, CallTypes
  PROVE  NobodyStuck
<1> SUFFICES ASSUME NEW c \in Client, Blocked(c)
             PROVE  /\ Blockers(c) # {}
                    /\ \A d \in Blockers(c) :
                         /\ d \in Client \ {c}
                         /\ \/ Inside(d)
                            \/ Blocked(d) /\ Blockers(d) # {} /\ \A e \in Blockers(d) : Inside(e)
  BY DEF NobodyStuck
<1>1. Holding(c)
  BY DEF LockInv
<1>2. CASE pc[c] = "lock" /\ req[c].op = "Put"
  <2>1. Blockers(c) = mu.r /\ mu.r # {} /\ c \notin mu.r
    BY <1>1, <1>2 DEF Blockers, Blocked, Holding, HoldsWrite
  <2>2. QED
    BY <2>1, ReadersAreInside DEF CallTypes, MutexType
<1>3. CASE ~ (pc[c] = "lock" /\ req[c].op = "Put")
  <2>1. Blockers(c) = {mu.w}
    BY <1>3 DEF Blockers
  <2>2. mu.w \in Client \ {c}
    BY <1>1, <1>3, NoClientAssumption
    DEF LockInv, QueueHasCause, Holding, Blocked, HoldsRead, CallTypes, MutexType
  <2>3. QED
    BY <2>1, <2>2, WriterIsInsideOrWaits
<1>4. QED
  BY <1>2, <1>3
=============================================================================
