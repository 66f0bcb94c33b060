------------------------- MODULE BinarySearchProofs -------------------------
(***************************************************************************)
(* For every set of goroutines, keys and destinations: BinarySearch keeps   *)
(* its invariants, and it implements LinkStore.                             *)
(***************************************************************************)
EXTENDS BinarySearch, MemoryStoreProofs, SequenceTheorems

\* What InsertAt of SequencesExt returns: the new element at its position, the
\* elements from there on shifted by one.
LEMMA InsertAtFacts ==
  ASSUME NEW S, NEW q \in Seq(S), NEW p \in 1 .. Len(q) + 1, NEW e \in S
  PROVE  /\ InsertAt(q, p, e) \in Seq(S)
         /\ Len(InsertAt(q, p, e)) = Len(q) + 1
         /\ \A i \in 1 .. Len(q) + 1 :
              InsertAt(q, p, e)[i] = IF i < p THEN q[i] ELSE IF i = p THEN e ELSE q[i - 1]
<1> DEFINE l == SubSeq(q, 1, p - 1)
           r == SubSeq(q, p, Len(q))
           m == <<e>>
<1>1. l \in Seq(S) /\ Len(l) = p - 1 /\ \A i \in 1 .. p - 1 : l[i] = q[i]
  OBVIOUS
<1>2. /\ r \in Seq(S)
      /\ Len(r) = Len(q) - p + 1
      /\ \A i \in 1 .. Len(q) - p + 1 : r[i] = q[p + i - 1]
  OBVIOUS
<1>3. m \in Seq(S) /\ Len(m) = 1 /\ m[1] = e
  OBVIOUS
<1>4. InsertAt(q, p, e) = (l \o m) \o r
  BY DEF InsertAt
<1> HIDE DEF l, m, r
<1>5. /\ l \o m \in Seq(S)
      /\ Len(l \o m) = Len(l) + Len(m)
      /\ \A i \in 1 .. Len(l) + Len(m) :
           (l \o m)[i] = IF i <= Len(l) THEN l[i] ELSE m[i - Len(l)]
  <2> l \in Seq(S) /\ m \in Seq(S)
    BY <1>1, <1>3
  <2> QED
    BY ONLY l \in Seq(S), m \in Seq(S), ConcatProperties
<1>6. \A i \in 1 .. p : (l \o m)[i] = IF i < p THEN q[i] ELSE e
  <2> Len(l \o m) = p
    BY <1>1, <1>3, <1>5
  <2> QED
    BY <1>1, <1>3, <1>5
<1>7. /\ (l \o m) \o r \in Seq(S)
      /\ Len((l \o m) \o r) = Len(l \o m) + Len(r)
      /\ \A i \in 1 .. Len(l \o m) + Len(r) :
           ((l \o m) \o r)[i] = IF i <= Len(l \o m) THEN (l \o m)[i] ELSE r[i - Len(l \o m)]
  <2> l \o m \in Seq(S) /\ r \in Seq(S)
    BY <1>2, <1>5
  <2> QED
    BY ONLY l \o m \in Seq(S), r \in Seq(S), ConcatProperties
<1>8. \A i \in 1 .. Len(q) + 1 :
        ((l \o m) \o r)[i] = IF i < p THEN q[i] ELSE IF i = p THEN e ELSE q[i - 1]
  <2> SUFFICES ASSUME NEW i \in 1 .. Len(q) + 1
               PROVE  ((l \o m) \o r)[i]
                        = IF i < p THEN q[i] ELSE IF i = p THEN e ELSE q[i - 1]
    OBVIOUS
  <2>0. Len(l \o m) = p
    BY <1>1, <1>3, <1>5
  <2>1. CASE i <= p
    BY <2>0, <2>1, <1>2, <1>6, <1>7
  <2>2. CASE i > p
    <3>1. r[i - p] = q[i - 1]
      BY <2>2, <1>2
    <3>2. QED
      BY <2>0, <2>2, <3>1, <1>2, <1>7
  <2>3. i <= p \/ i > p
    OBVIOUS
  <2>4. QED
    BY ONLY <2>1, <2>2, <2>3
<1>9. QED
  BY <1>1, <1>2, <1>3, <1>5, <1>4, <1>7, <1>8

\* What is known of the records.
LEMMA RecordsFacts ==
  ASSUME NEW q \in Seq(Record)
  PROVE  /\ Len(q) \in Nat
         /\ \A i \in 1 .. Len(q) :
              q[i] \in Record /\ q[i].from \in Key /\ q[i].from \in Int /\ q[i].to \in Dest
<1>1. Len(q) \in Nat /\ \A i \in 1 .. Len(q) : q[i] \in Record
  OBVIOUS
<1>2. QED
  BY <1>1, KeyAssumption DEF Record

\* Halving an interval longer than one leaves two shorter, nonempty parts, and the
\* upper part of the one is not below the middle.
LEMMA HalfFacts ==
  ASSUME NEW lo \in Nat, NEW up \in Nat, lo < up, up - lo # 1
  PROVE  /\ (up - lo) \div 2 \in Nat
         /\ (up - lo) \div 2 >= 1
         /\ 2 * ((up - lo) \div 2) <= up - lo
OBVIOUS

\* The middle of an interval lies in it.
LEMMA MiddleFacts ==
  ASSUME NEW lo \in Nat, NEW up \in Nat, lo < up
  PROVE  /\ lo + (up - lo) \div 2 \in Nat
         /\ lo <= lo + (up - lo) \div 2
         /\ lo + (up - lo) \div 2 < up
OBVIOUS

\* One round of find's loop (binary_search.go:57-64): if the records are ordered and
\* the bounds bracket the key, so do the halved bounds.
LEMMA HalvedBrackets ==
  ASSUME NEW q \in Seq(Record), Ordered(q), NEW b \in Search, NEW k \in Int,
         Brackets(q, b, k), b.upper - b.lower # 1, q[b.next + 1].from # k
  PROVE  LET b2 == Halved(b, k > q[b.next + 1].from)
         IN  b2 \in Search /\ Brackets(q, b2, k)
<1> DEFINE lo == b.lower
           up == b.upper
           half == (up - lo) \div 2
           nx == lo + half
           b2 == Halved(b, k > q[b.next + 1].from)
<1>1. /\ lo \in Nat /\ up \in Nat /\ lo < up /\ up <= Len(q)
      /\ b.next = nx
      /\ q[nx + 1].from # k
      /\ \A i \in 1 .. Len(q) :
           /\ i <= lo => q[i].from < k
           /\ i > up => q[i].from > k
  BY DEF Search, Brackets
<1>2. b2 = IF k > q[nx + 1].from THEN Bounds(nx, up) ELSE Bounds(lo, up - half)
  BY <1>1 DEF Halved
<1>3. lo \in Nat /\ up \in Nat /\ lo < up /\ up - lo # 1
  BY <1>1
<1>4. half \in Nat /\ half >= 1 /\ 2 * half <= up - lo
  BY <1>3, HalfFacts
<1>5. Len(q) \in Nat /\ \A i \in 1 .. Len(q) : q[i].from \in Int
  BY RecordsFacts
<1> HIDE DEF lo, up, half, b2
<1>6. nx \in Nat /\ nx + 1 \in 1 .. Len(q) /\ lo < nx /\ nx < up /\ nx <= up - half
  BY <1>1, <1>4, <1>5
<1> HIDE DEF nx
<1>7. CASE k > q[nx + 1].from
  <2>1. \A i \in 1 .. Len(q) : i <= nx => q[i].from < k
    BY <1>5, <1>6, <1>7 DEF Ordered
  <2>2. nx + (up - nx) \div 2 \in Nat
    BY <1>3, <1>6, MiddleFacts
  <2>3. b2 = Bounds(nx, up)
    BY <1>2, <1>7
  <2>4. b2 \in Search
    BY <1>3, <1>6, <2>2, <2>3 DEF Bounds, Search
  <2>5. Brackets(q, b2, k)
    BY <1>1, <1>6, <2>1, <2>3 DEF Bounds, Brackets
  <2>6. QED
    BY <2>4, <2>5 DEF b2
<1>8. CASE ~ (k > q[nx + 1].from)
  <2> DEFINE u == up - half
  <2>1. u \in Nat /\ lo < u /\ u < up /\ nx <= u
    BY <1>1, <1>4, <1>6
  <2>2. b2 = Bounds(lo, u)
    BY <1>2, <1>8
  <2> HIDE DEF u
  <2>3. \A i \in 1 .. Len(q) : i > u => q[i].from > k
    <3>1. q[nx + 1].from > k
      BY <1>1, <1>5, <1>6, <1>8
    <3>2. QED
      BY <1>5, <1>6, <2>1, <3>1 DEF Ordered
  <2>4. lo + (u - lo) \div 2 \in Nat
    BY <1>3, <2>1, MiddleFacts
  <2>5. b2 \in Search
    BY <1>3, <2>1, <2>2, <2>4 DEF Bounds, Search
  <2>6. Brackets(q, b2, k)
    BY <1>1, <2>1, <2>2, <2>3 DEF Bounds, Brackets
  <2>7. QED
    BY <2>5, <2>6 DEF b2
<1>9. QED
  BY <1>7, <1>8

\* The inductive invariant.  LockHeld gives a search the slice for itself, Sorted
\* and BoundsKeepKey then make bisection right, and TypeOK needs the bounds.
IInv == TypeOK /\ Sorted /\ BoundsKeepKey /\ LockHeld

LEMMA InitIInv == Init => IInv
<1> SUFFICES ASSUME Init PROVE IInv
  OBVIOUS
<1> USE NoClientAssumption DEF Init, CallInit
<1>1. TypeOK
  BY DEF TypeOK, CallTypeOK, MutexType, Unlocked, NoSearch, Search
<1>2. Sorted
  BY DEF Sorted, Ordered
<1>3. BoundsKeepKey
  BY DEF BoundsKeepKey
<1>4. LockHeld
  BY DEF LockHeld, LockOK, Unlocked
<1>5. QED
  BY <1>1, <1>2, <1>3, <1>4 DEF IInv

\* A writer inside the lock is the only one inside (sync.RWMutex as LockHeld uses it).
LEMMA WriterAlone ==
  ASSUME LockHeld, NEW c \in Client, HoldsWrite(c), NEW d \in Client, pc[d] \in {"find", "done"}
  PROVE  d = c
BY DEF LockHeld, LockOK, HoldsWrite, HoldsRead

\* The steps that invoke, lock and return leave the records alone.
LEMMA CallKeepsIInv ==
  ASSUME IInv, NEW c \in Client, Call(c)
  PROVE  IInv'
<1> USE DEF IInv, Call
<1>1. TypeOK'
  <2>1. idx' \in Seq(Record) /\ s' \in [Client -> Search]
    BY DEF TypeOK
  <2>2. CallTypeOK({"find"})'
    BY NoClientAssumption
    DEF TypeOK, CallTypeOK, MutexType, Invoke, GetLock, PutLock, Return, RLock, Lock, RUnlock, Unlock
  <2>3. QED
    BY <2>1, <2>2 DEF TypeOK
<1>2. Sorted'
  BY DEF Sorted, Ordered
<1>3. BoundsKeepKey'
  BY DEF BoundsKeepKey, Invoke, GetLock, PutLock, Return, TypeOK, CallTypeOK
<1>4. LockHeld'
  <2> SUFFICES ASSUME NEW d \in Client PROVE LockOK(d)'
    BY DEF LockHeld
  <2> USE NoClientAssumption DEF LockOK, HoldsRead, HoldsWrite, TypeOK, CallTypeOK, MutexType
  <2>0. LockOK(d) /\ LockOK(c)
    BY DEF LockHeld
  <2>1. CASE Invoke(c)
    BY <2>0, <2>1 DEF Invoke
  <2>2. CASE GetLock(c)
    BY <2>0, <2>2 DEF GetLock, RLock
  <2>3. CASE PutLock(c)
    BY <2>0, <2>3 DEF PutLock, Lock
  <2>4. CASE Return(c)
    <3>1. req[c].op \in {"Get", "Put"}
      BY <2>0, <2>4, RequestFacts DEF Return
    <3>2. CASE req[c].op = "Get"
      BY <2>0, <2>4, <3>2 DEF Return, RUnlock
    <3>3. CASE req[c].op = "Put"
      BY <2>0, <2>4, <3>3 DEF Return, Unlock
    <3>4. QED
      BY <3>1, <3>2, <3>3
  <2>5. QED
    BY <2>1, <2>2, <2>3, <2>4
<1>5. QED
  BY <1>1, <1>2, <1>3, <1>4

\* The steps that leave the slice alone: a Get's answer, and find itself.
LEMMA FindKeepsIInv ==
  ASSUME IInv, NEW c \in Client,
         GetEmpty(c) \/ FindStart(c) \/ FindStep(c) \/ GetHit(c) \/ GetMiss(c)
  PROVE  IInv'
<1> USE DEF IInv
<1>0. /\ idx' = idx /\ mu' = mu /\ req' = req
      /\ pc' \in [Client -> {"idle", "call", "lock", "done", "find"}]
      /\ \A d \in Client \ {c} : pc'[d] = pc[d] /\ s'[d] = s[d]
      /\ pc[c] \in {"lock", "find"} /\ pc'[c] \in {"find", "done"}
      /\ pc'[c] = "find" => FindStart(c) \/ FindStep(c)
      /\ req[c] \in Request
      /\ IF req[c].op = "Get" THEN HoldsRead(c) ELSE HoldsWrite(c)
  BY DEF TypeOK, CallTypeOK, LockHeld, LockOK, Answer, Entered, Hit, Miss,
         GetEmpty, FindStart, FindStep, GetHit, GetMiss
<1>1. Sorted'
  BY <1>0 DEF Sorted, Ordered
<1>2. LockHeld'
  BY <1>0 DEF LockHeld, LockOK, HoldsRead, HoldsWrite, TypeOK, CallTypeOK, MutexType
<1>3. CASE FindStart(c)
  <2>1. /\ s' = [s EXCEPT ![c] = Bounds(0, Len(idx))]
        /\ Len(idx) \in Nat \ {0}
        /\ ret' = ret
    BY <1>3, EmptySeq DEF FindStart, TypeOK
  <2>2. TypeOK'
    BY <1>0, <2>1 DEF TypeOK, CallTypeOK, Search, Bounds
  <2>3. Brackets(idx, s'[c], req[c].key)
    BY <1>0, <2>1 DEF Brackets, Bounds, TypeOK
  <2>4. BoundsKeepKey'
    BY <1>0, <1>3, <2>3 DEF FindStart, BoundsKeepKey
  <2>5. QED
    BY <1>1, <1>2, <2>2, <2>4
<1>4. CASE FindStep(c)
  <2> DEFINE b == s[c]
             k == req[c].key
             b2 == Halved(b, k > idx[b.next + 1].from)
  <2>1. b \in Search /\ Brackets(idx, b, k) /\ k \in Int
    BY <1>0, <1>4, KeyAssumption, RequestFacts DEF FindStep, TypeOK, BoundsKeepKey
  <2>2. /\ idx[b.next + 1].from # k
        /\ b.upper - b.lower # 1
        /\ s' = [s EXCEPT ![c] = b2]
        /\ ret' = ret /\ pc' = pc
    BY <1>4 DEF FindStep, Hit, Miss, At
  <2>3. b2 \in Search /\ Brackets(idx, b2, k)
    <3>1. idx \in Seq(Record) /\ Ordered(idx)
      BY DEF TypeOK, Sorted
    <3> HIDE DEF b, k
    <3>2. QED
      BY <2>1, <2>2, <3>1, HalvedBrackets
  <2> HIDE DEF b2
  <2>4. s'[c] = b2 /\ s' \in [Client -> Search]
    BY <2>2, <2>3 DEF TypeOK
  <2>5. TypeOK'
    BY <1>0, <2>2, <2>4 DEF TypeOK, CallTypeOK
  <2>6. BoundsKeepKey'
    <3> SUFFICES ASSUME NEW d \in Client, pc[d] = "find"
                 PROVE  Brackets(idx, s'[d], req[d].key)
      BY <1>0, <2>2 DEF BoundsKeepKey
    <3>1. CASE d = c
      BY <2>3, <2>4, <3>1
    <3>2. CASE d # c
      BY <1>0, <3>2 DEF BoundsKeepKey
    <3>3. QED
      BY <3>1, <3>2
  <2>7. QED
    BY <1>1, <1>2, <2>5, <2>6
<1>5. CASE GetEmpty(c) \/ GetHit(c) \/ GetMiss(c)
  <2>1. s' \in [Client -> Search] /\ pc'[c] = "done"
    BY <1>5 DEF GetEmpty, GetHit, GetMiss, Answer, TypeOK, CallTypeOK, NoSearch, Search
  <2>2. ret' \in [Client -> Dest \cup {NotFound, Nil}]
    <3>1. CASE GetHit(c)
      <4>1. s[c].next + 1 \in 1 .. Len(idx)
        BY <3>1 DEF GetHit, Hit, BoundsKeepKey, Brackets, TypeOK, Search
      <4>2. idx[s[c].next + 1].to \in Dest
        BY <4>1, RecordsFacts DEF TypeOK
      <4>3. QED
        BY <3>1, <4>2 DEF GetHit, Answer, At, TypeOK, CallTypeOK
    <3>2. QED
      BY <1>5, <3>1 DEF GetEmpty, GetMiss, Answer, TypeOK, CallTypeOK
  <2>3. TypeOK'
    BY <1>0, <2>1, <2>2 DEF TypeOK, CallTypeOK
  <2>4. BoundsKeepKey'
    BY <1>0, <2>1 DEF BoundsKeepKey
  <2>5. QED
    BY <1>1, <1>2, <2>3, <2>4
<1>6. QED
  BY <1>3, <1>4, <1>5

\* A Put with the lock to itself that answers leaves every part of the invariant but
\* the order of the records untouched, whatever it wrote.
LEMMA AnsweredPut ==
  ASSUME IInv, NEW c \in Client, pc[c] \in {"lock", "find"}, req[c].op = "Put", HoldsWrite(c),
         Answer(c, Nil), s' = s \/ s' = [s EXCEPT ![c] = NoSearch],
         idx' \in Seq(Record), Ordered(idx')
  PROVE  IInv'
<1> USE DEF IInv
<1>1. /\ mu' = mu /\ req' = req
      /\ pc' = [pc EXCEPT ![c] = "done"]
      /\ ret' = [ret EXCEPT ![c] = Nil]
  BY DEF Answer
<1>2. TypeOK'
  <2>1. s' \in [Client -> Search]
    <3>1. NoSearch \in Search /\ s \in [Client -> Search]
      BY DEF TypeOK, NoSearch, Search
    <3>2. CASE s' = s
      BY <3>1, <3>2
    <3>3. CASE s' = [s EXCEPT ![c] = NoSearch]
      BY <3>1, <3>3
    <3>4. QED
      BY <3>2, <3>3
  <2>2. CallTypeOK({"find"})'
    BY <1>1 DEF TypeOK, CallTypeOK
  <2>3. QED
    BY <2>1, <2>2 DEF TypeOK
<1>3. Sorted'
  BY DEF Sorted
<1>4. BoundsKeepKey'
  <2>1. \A d \in Client : pc'[d] # "find"
    <3> SUFFICES ASSUME NEW d \in Client, d # c, pc[d] = "find" PROVE FALSE
      BY <1>1 DEF TypeOK, CallTypeOK
    <3> QED
      BY WriterAlone
  <2>2. QED
    BY <2>1 DEF BoundsKeepKey
<1>5. LockHeld'
  BY <1>1 DEF LockHeld, LockOK, HoldsRead, HoldsWrite, TypeOK, CallTypeOK, MutexType
<1>6. QED
  BY <1>2, <1>3, <1>4, <1>5

\* The position PutMiss inserts at: everything before it is smaller than the key,
\* everything from it on is larger.
LEMMA InsertPosFacts ==
  ASSUME IInv, NEW c \in Client, Miss(c)
  PROVE  /\ InsertPos(c) \in 0 .. Len(idx)
         /\ \A i \in 1 .. Len(idx) :
              IF i <= InsertPos(c) THEN idx[i].from < req[c].key ELSE idx[i].from > req[c].key
<1> DEFINE lo == s[c].lower
           k == req[c].key
           pos == InsertPos(c)
<1>1. /\ s[c] \in Search
      /\ Brackets(idx, s[c], k)
      /\ s[c].upper - lo = 1
      /\ idx[s[c].next + 1].from # k
      /\ k \in Int
  BY KeyAssumption, RequestFacts
  DEF IInv, Miss, At, TypeOK, BoundsKeepKey, LockHeld, LockOK
<1>2. /\ lo \in Nat /\ lo + 1 \in 1 .. Len(idx)
      /\ s[c].upper = lo + 1
      /\ s[c].next = lo
      /\ \A i \in 1 .. Len(idx) :
           /\ i <= lo => idx[i].from < k
           /\ i > lo + 1 => idx[i].from > k
  <2>1. lo \in Nat /\ s[c].upper \in Nat /\ s[c].upper = lo + 1
    BY <1>1 DEF Search
  <2>2. Len(idx) \in Nat
    BY DEF IInv, TypeOK
  <2>3. s[c].next = lo
    BY <1>1, <2>1 DEF Brackets
  <2>4. QED
    BY <1>1, <2>1, <2>2, <2>3 DEF Brackets
<1>3. Len(idx) \in Nat /\ \A i \in 1 .. Len(idx) : idx[i].from \in Int
  BY RecordsFacts DEF IInv, TypeOK
<1>4. idx[lo + 1].from # k
  BY <1>1, <1>2
<1>5. pos = IF k > idx[lo + 1].from THEN lo + 1 ELSE lo
  BY DEF InsertPos, At
<1> HIDE DEF lo, k, pos
<1>6. CASE k > idx[lo + 1].from
  <2>1. pos = lo + 1
    BY <1>5, <1>6
  <2>2. \A i \in 1 .. Len(idx) : IF i <= pos THEN idx[i].from < k ELSE idx[i].from > k
    BY <1>1, <1>2, <1>3, <1>6, <2>1
  <2>3. QED
    BY <1>2, <1>3, <2>1, <2>2 DEF pos, k
<1>7. CASE ~ (k > idx[lo + 1].from)
  <2>1. pos = lo
    BY <1>5, <1>7
  <2>2. idx[lo + 1].from > k
    BY <1>1, <1>2, <1>3, <1>4, <1>7
  <2>3. \A i \in 1 .. Len(idx) : IF i <= pos THEN idx[i].from < k ELSE idx[i].from > k
    BY <1>1, <1>2, <1>3, <2>1, <2>2
  <2>4. QED
    BY <1>2, <1>3, <2>1, <2>3 DEF pos, k
<1>8. QED
  BY <1>6, <1>7

\* Inserting a record between the smaller and the larger ones keeps the order.
LEMMA InsertKeepsOrder ==
  ASSUME NEW q \in Seq(Record), Ordered(q), NEW p \in 0 .. Len(q), NEW r \in Record,
         \A i \in 1 .. Len(q) : IF i <= p THEN q[i].from < r.from ELSE q[i].from > r.from
  PROVE  InsertAt(q, p + 1, r) \in Seq(Record) /\ Ordered(InsertAt(q, p + 1, r))
<1> DEFINE k == p + 1
           n == InsertAt(q, k, r)
<1>0. Len(q) \in Nat /\ k \in 1 .. Len(q) + 1 /\ k = p + 1
  OBVIOUS
<1> HIDE DEF k
<1>1. /\ n \in Seq(Record)
      /\ Len(n) = Len(q) + 1
      /\ \A i \in 1 .. Len(q) + 1 : n[i] = IF i < k THEN q[i] ELSE IF i = k THEN r ELSE q[i - 1]
  <2>1. q \in Seq(Record) /\ r \in Record /\ k \in 1 .. Len(q) + 1
    BY <1>0
  <2>2. /\ InsertAt(q, k, r) \in Seq(Record)
        /\ Len(InsertAt(q, k, r)) = Len(q) + 1
        /\ \A i \in 1 .. Len(q) + 1 :
             InsertAt(q, k, r)[i] = IF i < k THEN q[i] ELSE IF i = k THEN r ELSE q[i - 1]
    BY ONLY <2>1, InsertAtFacts
  <2>3. QED
    BY <2>2
<1>2. r.from \in Int /\ \A i \in 1 .. Len(q) : q[i].from \in Int
  BY RecordsFacts, KeyAssumption DEF Record
<1> HIDE DEF n, k
<1>3. Ordered(n)
  <2> SUFFICES ASSUME NEW i \in 1 .. Len(q) + 1, NEW j \in 1 .. Len(q) + 1, i < j
               PROVE  n[i].from < n[j].from
    BY <1>1 DEF Ordered
  <2>1. CASE j < k
    <3>1. n[i] = q[i] /\ n[j] = q[j] /\ i \in 1 .. Len(q) /\ j \in 1 .. Len(q)
      BY <1>0, <1>1, <2>1
    <3>2. QED
      BY <3>1 DEF Ordered
  <2>2. CASE j = k
    BY <1>0, <1>1, <2>2
  <2>3. CASE j > k
    <3>1. n[j] = q[j - 1] /\ j - 1 \in 1 .. Len(q) /\ ~ (j - 1 <= p)
      BY <1>0, <1>1, <2>3
    <3>2. CASE i < k
      <4>1. n[i] = q[i] /\ i \in 1 .. Len(q) /\ i < j - 1
        BY <1>0, <1>1, <3>1, <3>2
      <4>2. QED
        BY <3>1, <4>1 DEF Ordered
    <3>3. CASE i = k
      BY <1>0, <1>1, <1>2, <3>1, <3>3
    <3>4. CASE i > k
      <4>1. n[i] = q[i - 1] /\ i - 1 \in 1 .. Len(q) /\ i - 1 < j - 1
        BY <1>0, <1>1, <3>4
      <4>2. QED
        BY <3>1, <4>1 DEF Ordered
    <3>5. QED
      BY <1>0, <3>2, <3>3, <3>4
  <2>4. QED
    BY <1>0, <2>1, <2>2, <2>3
<1>4. QED
  BY <1>1, <1>3 DEF n, k

\* The steps that write the slice.
LEMMA PutKeepsIInv ==
  ASSUME IInv, NEW c \in Client, PutEmpty(c) \/ PutHit(c) \/ PutMiss(c)
  PROVE  IInv'
<1>1. /\ pc[c] \in {"lock", "find"} /\ req[c].op = "Put" /\ HoldsWrite(c)
      /\ req[c] \in Request
      /\ Answer(c, Nil) /\ (s' = s \/ s' = [s EXCEPT ![c] = NoSearch])
  BY DEF IInv, LockHeld, LockOK, Entered, Hit, Miss, PutEmpty, PutHit, PutMiss
<1>2. [from |-> req[c].key, to |-> req[c].dest] \in Record
  BY <1>1, RequestFacts DEF Record
<1>3. idx \in Seq(Record) /\ Ordered(idx)
  BY DEF IInv, TypeOK, Sorted
<1>4. idx' \in Seq(Record) /\ Ordered(idx')
  <2>1. CASE PutEmpty(c)
    <3>1. idx' = <<[from |-> req[c].key, to |-> req[c].dest]>>
      BY <2>1 DEF PutEmpty
    <3>2. QED
      BY <1>2, <3>1 DEF Ordered
  <2>2. CASE PutHit(c)
    <3> DEFINE n == s[c].next + 1
               r == [idx[n] EXCEPT !.to = req[c].dest]
    <3>1. n \in 1 .. Len(idx)
      BY <2>2 DEF IInv, PutHit, Hit, BoundsKeepKey, Brackets, TypeOK, Search
    <3>2. idx' = [idx EXCEPT ![n] = r]
      BY <2>2 DEF PutHit
    <3>3. r \in Record /\ r.from = idx[n].from
      BY <1>1, <1>3, <3>1, RequestFacts, RecordsFacts DEF Record
    <3>4. /\ idx' \in Seq(Record)
          /\ Len(idx') = Len(idx)
          /\ \A i \in 1 .. Len(idx) : idx'[i].from = idx[i].from
      BY <1>3, <3>1, <3>2, <3>3, ExceptSeq
    <3>5. QED
      BY <1>3, <3>4 DEF Ordered
  <2>3. CASE PutMiss(c)
    <3>1. Miss(c) /\ idx' = InsertAt(idx, InsertPos(c) + 1, [from |-> req[c].key, to |-> req[c].dest])
      BY <2>3 DEF PutMiss
    <3>2. QED
      BY <1>2, <1>3, <3>1, InsertPosFacts, InsertKeepsOrder
  <2>4. QED
    BY <2>1, <2>2, <2>3
<1>5. QED
  BY <1>1, <1>4, AnsweredPut

\* Every step keeps the inductive invariant.
LEMMA NextIInv == IInv /\ [Next]_vars => IInv'
<1> SUFFICES ASSUME IInv, [Next]_vars PROVE IInv'
  OBVIOUS
<1>1. ASSUME NEW c \in Client, Call(c) PROVE IInv'
  BY <1>1, CallKeepsIInv
<1>2. ASSUME NEW c \in Client, Work(c) PROVE IInv'
  BY <1>2, FindKeepsIInv, PutKeepsIInv DEF Work
<1>3. CASE UNCHANGED vars
  BY <1>3 DEF vars, IInv, TypeOK, CallTypeOK, Sorted, BoundsKeepKey, LockHeld, LockOK,
              HoldsRead, HoldsWrite
<1>4. QED
  BY <1>1, <1>2, <1>3 DEF Next

\* The invariant the theorems below are parts of.
LEMMA Invariant == Spec => []IInv
BY InitIInv, NextIInv, PTL DEF Spec

\* The variables keep their types, and a search's numbers never go below 0.
THEOREM TypeCorrect == Spec => []TypeOK
<1>1. IInv => TypeOK
  BY DEF IInv
<1>2. QED
  BY <1>1, Invariant, PTL

\* The slice stays strictly ordered by source (binary_search.go:82-83).
THEOREM SliceSorted == Spec => []Sorted
<1>1. IInv => Sorted
  BY DEF IInv
<1>2. QED
  BY <1>1, Invariant, PTL

\* The bounds of every search under way enclose the place of its key
\* (binary_search.go:44-65).
THEOREM SearchBrackets == Spec => []BoundsKeepKey
<1>1. IInv => BoundsKeepKey
  BY DEF IInv
<1>2. QED
  BY <1>1, Invariant, PTL

\* A writer is never inside the lock beside another call (binary_search.go:70, 84).
THEOREM MutualExclusion == Spec => []LockHeld
<1>1. IInv => LockHeld
  BY DEF IInv
<1>2. QED
  BY <1>1, Invariant, PTL

\* The halves of a bracket that a round leaves: not empty, smaller, and a half each but for
\* a record.
LEMMA HalvedShrinks ==
  ASSUME NEW b \in Search, b.lower < b.upper, b.next = b.lower + (b.upper - b.lower) \div 2,
         b.upper - b.lower # 1, NEW right \in BOOLEAN
  PROVE  LET w == Width(Halved(b, right))
         IN  0 < w /\ w < Width(b) /\ 2 * w <= Width(b) + 1
<1> DEFINE lo == b.lower
           up == b.upper
           half == (up - lo) \div 2
<1>1. lo \in Nat /\ up \in Nat /\ lo < up /\ up - lo # 1
  BY DEF Search
<1>2. half \in Nat /\ half >= 1 /\ 2 * half <= up - lo /\ up - lo <= 2 * half + 1
  BY <1>1
<1>3. /\ Width(b) = up - lo
      /\ Width(Halved(b, right)) = IF right THEN up - (lo + half) ELSE (up - half) - lo
  BY DEF Width, Halved, Bounds
<1> HIDE DEF lo, up, half
<1>4. Width(Halved(b, right)) = up - lo - half
  BY <1>1, <1>2, <1>3
<1>5. QED
  BY <1>1, <1>2, <1>3, <1>4

\* find ends for a slice of any length: binary_search.go:57-64 never goes round with the
\* bracket it had, and halves it each time.
THEOREM FindEnds == Spec => []SearchEnds
<1>1. IInv => SearchEnds
  <2> SUFFICES ASSUME IInv, NEW c \in Client, pc[c] = "find", ~ Hit(c), ~ Miss(c),
                      NEW right \in BOOLEAN
               PROVE  LET w == Width(Halved(s[c], right))
                      IN  0 < w /\ w < Width(s[c]) /\ 2 * w <= Width(s[c]) + 1
    BY DEF SearchEnds
  <2>1. /\ s[c] \in Search
        /\ s[c].lower < s[c].upper
        /\ s[c].next = s[c].lower + (s[c].upper - s[c].lower) \div 2
        /\ s[c].upper - s[c].lower # 1
    BY DEF IInv, TypeOK, BoundsKeepKey, Brackets, Hit, Miss
  <2>2. QED
    BY <2>1, HalvedShrinks
<1>2. QED
  BY <1>1, Invariant, PTL

\* Every step of find and of the exits is one inside the lock.
LEMMA WorkStepsInside ==
  ASSUME NEW c \in Client, Work(c)
  PROVE  UNCHANGED <<mu, pc, req>> \/ StepsInside(c, "find") \/ StepsInside(c, "done")
BY DEF StepsInside, Work, Entered, Answer, Hit, Miss, GetEmpty, PutEmpty, FindStart, FindStep,
       GetHit, GetMiss, PutHit, PutMiss

LEMMA NextLockInv == IInv /\ LockInv /\ [Next]_vars => LockInv'
<1> SUFFICES ASSUME IInv, LockInv, [Next]_vars PROVE LockInv'
  OBVIOUS
<1>1. CallTypes
  BY DEF IInv, TypeOK, CallTypeOK, CallTypes
<1>2. ASSUME NEW c \in Client, Call(c) PROVE LockInv'
  BY <1>1, <1>2, CallKeepsLockInv DEF Call
<1>3. ASSUME NEW c \in Client, Work(c) PROVE LockInv'
  BY <1>1, <1>3, WorkStepsInside, WorkKeepsLockInv, StutterKeepsLockInv
<1>4. CASE UNCHANGED vars
  BY <1>4, StutterKeepsLockInv DEF vars
<1>5. QED
  BY <1>2, <1>3, <1>4 DEF Next

\* A call of the sorted slice that waits, waits for calls that are inside, whose searches
\* end, or for the writer that waits for those: no set of goroutines blocks itself.
THEOREM WaitingEnds == Spec => []NobodyStuck
<1>1. Init => LockInv
  BY InitLockInv DEF Init
<1>2. IInv /\ LockInv => NobodyStuck
  BY LockInvNobodyStuck DEF IInv, TypeOK, CallTypeOK, CallTypes
<1>3. QED
  BY <1>1, <1>2, NextLockInv, Invariant, PTL DEF Spec

(***************************************************************************)
(* Refinement of LinkStore.                                                 *)
(***************************************************************************)
\* What the refinement mapping of Store makes of the state.
absLinks == [k \in Key |-> Lookup(idx, k)]

absPc == [c \in Client |-> IF pc[c] \in {"idle", "done"} THEN pc[c] ELSE "call"]

\* In ordered records the record of a key is the only one.
LEMMA LookupFound ==
  ASSUME NEW q \in Seq(Record), Ordered(q), NEW i \in 1 .. Len(q)
  PROVE  Lookup(q, q[i].from) = q[i].to
<1>1. Len(q) \in Nat /\ \A j \in 1 .. Len(q) : q[j].from \in Int
  BY RecordsFacts
<1>2. \A j \in 1 .. Len(q) : q[j].from = q[i].from => j = i
  BY <1>1 DEF Ordered
<1>3. QED
  BY <1>2 DEF Lookup

\* find returns false only for a key without a record (binary_search.go:51-53).
LEMMA LookupMissed ==
  ASSUME IInv, NEW c \in Client, Miss(c)
  PROVE  Lookup(idx, req[c].key) = NotFound
<1>1. /\ InsertPos(c) \in 0 .. Len(idx)
      /\ \A i \in 1 .. Len(idx) :
           IF i <= InsertPos(c) THEN idx[i].from < req[c].key ELSE idx[i].from > req[c].key
  BY InsertPosFacts
<1>2. /\ Len(idx) \in Nat /\ req[c].key \in Int
      /\ \A j \in 1 .. Len(idx) : idx[j].from \in Int
  BY RecordsFacts, RequestFacts, KeyAssumption DEF IInv, TypeOK, Miss, LockHeld, LockOK
<1>3. \A i \in 1 .. Len(idx) : idx[i].from # req[c].key
  BY <1>1, <1>2
<1>4. QED
  BY <1>3 DEF Lookup

\* Records that differ in the record of one key only map every other key alike.
LEMMA LookupChanged ==
  ASSUME NEW q \in Seq(Record), Ordered(q), NEW q2 \in Seq(Record), Ordered(q2),
         NEW r \in Record,
         \E j \in 1 .. Len(q2) : q2[j] = r,
         \A j \in 1 .. Len(q2) : q2[j] = r \/ \E i \in 1 .. Len(q) : q[i] = q2[j],
         \A i \in 1 .. Len(q) : q[i].from = r.from \/ \E j \in 1 .. Len(q2) : q2[j] = q[i]
  PROVE  \A k : Lookup(q2, k) = IF k = r.from THEN r.to ELSE Lookup(q, k)
<1>1. Lookup(q2, r.from) = r.to
  BY LookupFound
<1>2. ASSUME NEW k, k # r.from PROVE Lookup(q2, k) = Lookup(q, k)
  <2>1. CASE \E j \in 1 .. Len(q2) : q2[j].from = k
    <3>1. PICK j \in 1 .. Len(q2) : q2[j].from = k
      BY <2>1
    <3>2. PICK i \in 1 .. Len(q) : q[i] = q2[j]
      BY <1>2, <3>1
    <3>3. Lookup(q2, k) = q2[j].to /\ Lookup(q, k) = q[i].to
      BY <3>1, <3>2, LookupFound
    <3>4. QED
      BY <3>2, <3>3
  <2>2. CASE ~ \E j \in 1 .. Len(q2) : q2[j].from = k
    <3>1. ~ \E i \in 1 .. Len(q) : q[i].from = k
      BY <1>2, <2>2
    <3>2. QED
      BY <2>2, <3>1 DEF Lookup
  <2>3. QED
    BY <2>1, <2>2
<1>3. QED
  BY <1>1, <1>2

\* A Put that writes the slice updates the map at its key, and nowhere else.
LEMMA PutUpdatesLinks ==
  ASSUME IInv, IInv', NEW c \in Client, PutEmpty(c) \/ PutHit(c) \/ PutMiss(c)
  PROVE  absLinks' = [absLinks EXCEPT ![req[c].key] = req[c].dest]
<1> DEFINE r == [from |-> req[c].key, to |-> req[c].dest]
<1>1. req[c] \in Request /\ req[c].op = "Put"
  BY DEF IInv, LockHeld, LockOK, Entered, Hit, Miss, PutEmpty, PutHit, PutMiss
<1>2. r \in Record /\ r.from = req[c].key /\ r.to = req[c].dest
  BY <1>1, RequestFacts DEF Record
<1>3. idx \in Seq(Record) /\ Ordered(idx) /\ idx' \in Seq(Record) /\ Ordered(idx')
  BY DEF IInv, TypeOK, Sorted
<1>4. /\ \E j \in 1 .. Len(idx') : idx'[j] = r
      /\ \A j \in 1 .. Len(idx') : idx'[j] = r \/ \E i \in 1 .. Len(idx) : idx[i] = idx'[j]
      /\ \A i \in 1 .. Len(idx) : idx[i].from = r.from \/ \E j \in 1 .. Len(idx') : idx'[j] = idx[i]
  <2>1. CASE PutEmpty(c)
    <3>1. idx = << >> /\ idx' = <<r>>
      BY <2>1 DEF PutEmpty
    <3> HIDE DEF r
    <3>2. Len(idx) = 0 /\ Len(idx') = 1 /\ idx'[1] = r
      BY <3>1
    <3>3. QED
      BY <3>2
  <2>2. CASE PutHit(c)
    <3> DEFINE n == s[c].next + 1
    <3>1. n \in 1 .. Len(idx) /\ idx[n].from = r.from
      BY <2>2 DEF IInv, PutHit, Hit, At, BoundsKeepKey, Brackets, TypeOK, Search
    <3>2. [idx[n] EXCEPT !.to = req[c].dest] = r
      <4>1. \A x \in Record : \A d : [x EXCEPT !.to = d] = [from |-> x.from, to |-> d]
        BY DEF Record
      <4>2. idx[n] \in Record
        BY <1>3, <3>1, RecordsFacts
      <4>3. QED
        BY <3>1, <4>1, <4>2
    <3>3. idx' = [idx EXCEPT ![n] = r]
      BY <2>2, <3>2 DEF PutHit
    <3> HIDE DEF n, r
    <3>4. /\ Len(idx') = Len(idx)
          /\ \A j \in 1 .. Len(idx) : idx'[j] = IF j = n THEN r ELSE idx[j]
      BY <1>2, <1>3, <3>1, <3>3, ExceptSeq
    <3>5. QED
      BY <3>1, <3>4
  <2>3. CASE PutMiss(c)
    <3> DEFINE p == InsertPos(c) + 1
    <3>1. p \in 1 .. Len(idx) + 1 /\ Len(idx) \in Nat
      BY <1>3, <2>3, InsertPosFacts DEF PutMiss
    <3>2. idx' = InsertAt(idx, p, r)
      BY <2>3 DEF PutMiss
    <3> HIDE DEF p, r
    <3>3. /\ Len(idx') = Len(idx) + 1
          /\ \A j \in 1 .. Len(idx) + 1 :
               idx'[j] = IF j < p THEN idx[j] ELSE IF j = p THEN r ELSE idx[j - 1]
      <4>1. r \in Record /\ idx \in Seq(Record)
        BY <1>2, <1>3
      <4>2. /\ Len(InsertAt(idx, p, r)) = Len(idx) + 1
            /\ \A j \in 1 .. Len(idx) + 1 :
                 InsertAt(idx, p, r)[j]
                   = IF j < p THEN idx[j] ELSE IF j = p THEN r ELSE idx[j - 1]
        BY ONLY <3>1, <4>1, InsertAtFacts
      <4>3. QED
        BY <3>2, <4>2
    <3>4. \E j \in 1 .. Len(idx') : idx'[j] = r
      BY <3>1, <3>3
    <3>5. \A j \in 1 .. Len(idx') : idx'[j] = r \/ \E i \in 1 .. Len(idx) : idx[i] = idx'[j]
      <4> SUFFICES ASSUME NEW j \in 1 .. Len(idx'), j # p
                   PROVE  \E i \in 1 .. Len(idx) : idx[i] = idx'[j]
        BY <3>1, <3>3
      <4>1. CASE j < p
        BY <3>1, <3>3, <4>1
      <4>2. CASE j > p
        <5>1. j - 1 \in 1 .. Len(idx) /\ idx'[j] = idx[j - 1]
          BY <3>1, <3>3, <4>2
        <5>2. QED
          BY <5>1
      <4>3. QED
        BY <3>1, <4>1, <4>2
    <3>6. \A i \in 1 .. Len(idx) : \E j \in 1 .. Len(idx') : idx'[j] = idx[i]
      <4> TAKE i \in 1 .. Len(idx)
      <4>1. CASE i < p
        BY <3>1, <3>3, <4>1
      <4>2. CASE i >= p
        <5>1. i + 1 \in 1 .. Len(idx') /\ idx'[i + 1] = idx[i]
          BY <3>1, <3>3, <4>2
        <5>2. QED
          BY <5>1
      <4>3. QED
        BY <3>1, <4>1, <4>2
    <3>7. QED
      BY <3>4, <3>5, <3>6
  <2>4. QED
    BY <2>1, <2>2, <2>3
<1>5. \A k : Lookup(idx', k) = IF k = req[c].key THEN req[c].dest ELSE Lookup(idx, k)
  <2> HIDE DEF r
  <2>1. \A k : Lookup(idx', k) = IF k = r.from THEN r.to ELSE Lookup(idx, k)
    BY <1>2, <1>3, <1>4, LookupChanged
  <2>2. QED
    BY <1>2, <2>1
<1>6. QED
  BY <1>1, <1>5, RequestFacts DEF absLinks

\* A step of BinarySearch is a step of LinkStore, or leaves its variables alone.
LEMMA CallRefines ==
  ASSUME IInv, NEW c \in Client, Call(c)
  PROVE  [Store!Next]_(Store!storeVars)
<1> USE DEF Call, IInv, TypeOK, CallTypeOK
<1>0. absLinks' = absLinks
  BY DEF absLinks, Lookup
<1>1. CASE Invoke(c)
  <2>1. PICK r \in Request : req' = [req EXCEPT ![c] = r]
    BY <1>1 DEF Invoke
  <2>2. absPc[c] = "idle" /\ absPc' = [absPc EXCEPT ![c] = "call"] /\ ret' = ret
    BY <1>1 DEF Invoke, absPc
  <2>3. r \in Store!Request
    BY <2>1 DEF Request, Store!Request
  <2>4. Store!Invoke(c)
    BY <1>0, <2>1, <2>2, <2>3 DEF Store!Invoke, absLinks, absPc
  <2>5. QED
    BY <2>4 DEF Store!Next
<1>2. CASE GetLock(c) \/ PutLock(c)
  <2>1. absPc' = absPc /\ req' = req /\ ret' = ret
    BY <1>2 DEF GetLock, PutLock, absPc
  <2>2. QED
    BY <1>0, <2>1 DEF Store!storeVars, absLinks, absPc
<1>3. CASE Return(c)
  <2>1. absPc[c] = "done" /\ absPc' = [absPc EXCEPT ![c] = "idle"]
    BY <1>3 DEF Return, absPc
  <2>2. Store!Return(c)
    BY <1>0, <1>3, <2>1 DEF Return, Store!Return, absLinks, absPc
  <2>3. QED
    BY <2>2 DEF Store!Next
<1>4. QED
  BY <1>1, <1>2, <1>3

LEMMA WorkRefines ==
  ASSUME IInv, IInv', NEW c \in Client, Work(c)
  PROVE  [Store!Next]_(Store!storeVars)
<1>0. /\ pc \in [Client -> {"idle", "call", "lock", "done", "find"}]
      /\ ret \in [Client -> Dest \cup {NotFound, Nil}]
      /\ idx \in Seq(Record) /\ Ordered(idx) /\ req[c] \in Request
  BY DEF IInv, TypeOK, CallTypeOK, Sorted, LockHeld, LockOK,
         Work, Entered, Hit, Miss, GetEmpty, PutEmpty, FindStart, FindStep,
         GetHit, GetMiss, PutHit, PutMiss
<1>1. CASE FindStart(c) \/ FindStep(c)
  <2>1. absPc' = absPc /\ idx' = idx /\ req' = req /\ ret' = ret
    BY <1>0, <1>1 DEF FindStart, FindStep, Entered, absPc
  <2>2. QED
    BY <2>1 DEF Store!storeVars, absPc
<1>2. CASE GetEmpty(c) \/ GetHit(c) \/ GetMiss(c)
  <2>1. /\ req[c].op = "Get" /\ idx' = idx /\ req' = req
        /\ absPc[c] = "call" /\ absPc' = [absPc EXCEPT ![c] = "done"]
    BY <1>0, <1>2 DEF GetEmpty, GetHit, GetMiss, Entered, Hit, Miss, Answer, absPc
  <2>2. ret' = [ret EXCEPT ![c] = Lookup(idx, req[c].key)]
    <3>1. CASE GetEmpty(c)
      BY <3>1 DEF GetEmpty, Answer, Lookup
    <3>2. CASE GetMiss(c)
      BY <3>2, LookupMissed DEF GetMiss, Answer
    <3>3. CASE GetHit(c)
      <4> DEFINE n == s[c].next + 1
      <4>1. n \in 1 .. Len(idx) /\ idx[n].from = req[c].key
        BY <3>3 DEF IInv, GetHit, Hit, At, BoundsKeepKey, Brackets, TypeOK, Search
      <4>2. ret' = [ret EXCEPT ![c] = idx[n].to]
        BY <3>3 DEF GetHit, Answer, At
      <4> HIDE DEF n
      <4>3. Lookup(idx, idx[n].from) = idx[n].to
        BY <1>0, <4>1, LookupFound
      <4>4. QED
        BY <4>1, <4>2, <4>3
    <3>4. QED
      BY <1>2, <3>1, <3>2, <3>3
  <2>3. absLinks' = absLinks /\ absLinks[req[c].key] = Lookup(idx, req[c].key)
    BY <1>0, <2>1, RequestFacts DEF absLinks
  <2>4. Store!DoGet(c)
    BY <2>1, <2>2, <2>3 DEF Store!DoGet, absLinks, absPc
  <2>5. QED
    BY <2>4 DEF Store!Next
<1>3. CASE PutEmpty(c) \/ PutHit(c) \/ PutMiss(c)
  <2>1. /\ req[c].op = "Put" /\ req' = req /\ ret' = [ret EXCEPT ![c] = Nil]
        /\ absPc[c] = "call" /\ absPc' = [absPc EXCEPT ![c] = "done"]
    BY <1>0, <1>3 DEF PutEmpty, PutHit, PutMiss, Entered, Hit, Miss, Answer, absPc
  <2>2. absLinks' = [absLinks EXCEPT ![req[c].key] = req[c].dest]
    BY <1>3, PutUpdatesLinks
  <2>3. Store!DoPut(c)
    BY <2>1, <2>2 DEF Store!DoPut, absLinks, absPc
  <2>4. QED
    BY <2>3 DEF Store!Next
<1>4. QED
  BY <1>1, <1>2, <1>3 DEF Work

\* The store implements the map of storage.Storer: whatever the interleaving, each
\* Get and Put takes effect at one instant between its call and its return.
THEOREM ImplementsLinkStore == Spec => Linearizable
<1>1. Init => Store!Init
  BY DEF Init, CallInit, Store!Init, Lookup
<1>2. IInv /\ IInv' /\ [Next]_vars => [Store!Next]_(Store!storeVars)
  <2> SUFFICES ASSUME IInv, IInv', [Next]_vars PROVE [Store!Next]_(Store!storeVars)
    OBVIOUS
  <2>1. ASSUME NEW c \in Client, Call(c) PROVE [Store!Next]_(Store!storeVars)
    BY <2>1, CallRefines
  <2>2. ASSUME NEW c \in Client, Work(c) PROVE [Store!Next]_(Store!storeVars)
    BY <2>2, WorkRefines
  <2>3. CASE UNCHANGED vars
    BY <2>3 DEF vars, Store!storeVars
  <2>4. QED
    BY <2>1, <2>2, <2>3 DEF Next
<1>3. QED
  BY <1>1, <1>2, Invariant, PTL DEF Spec, Linearizable, Store!Spec
=============================================================================
