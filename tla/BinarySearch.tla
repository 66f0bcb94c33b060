---------------------------- MODULE BinarySearch ----------------------------
(***************************************************************************)
(* src/storage/memory/binary_search.go: a store that keeps its records in a *)
(* slice ordered by source URL, finds them by bisection and copies the      *)
(* slice to insert.  URLs are compared as strings, of which only the order  *)
(* matters: a key is an integer.  Positions count from 0 as in the source;  *)
(* every iteration of find's loop is a step of its own.                     *)
(***************************************************************************)
EXTENDS MemoryStore, Integers, Sequences, SequencesExt

ASSUME KeyAssumption == Key \subseteq Int

VARIABLES idx,  \* the ordered records
          s     \* find's locals: the bounds lower and upper, and next

vars == <<mu, pc, req, ret, idx, s>>

Record == [from : Key, to : Dest]

NoSearch == [lower |-> 0, upper |-> 0, next |-> 0]

Search == [lower : Nat, upper : Nat, next : Nat]

Init ==
  /\ CallInit
  /\ idx = << >>
  /\ s = [c \in Client |-> NoSearch]

At(i) == idx[i + 1]

\* A search between two bounds looks at the middle.
Bounds(lower, upper) ==
  [lower |-> lower, upper |-> upper, next |-> lower + (upper - lower) \div 2]

-----------------------------------------------------------------------------
\* An empty slice: find returns at once, and Put starts the slice.
GetEmpty(c) ==
  /\ Entered(c, "Get")
  /\ idx = << >>
  /\ Answer(c, NotFound)
  /\ UNCHANGED <<idx, s>>

PutEmpty(c) ==
  /\ Entered(c, "Put")
  /\ idx = << >>
  /\ idx' = <<[from |-> req[c].key, to |-> req[c].dest]>>
  /\ Answer(c, Nil)
  /\ UNCHANGED s

FindStart(c) ==
  /\ Entered(c, "Get") \/ Entered(c, "Put")
  /\ idx # << >>
  /\ s' = [s EXCEPT ![c] = Bounds(0, Len(idx))]
  /\ pc' = [pc EXCEPT ![c] = "find"]
  /\ UNCHANGED <<mu, req, ret, idx>>

\* The two exits of the loop: the key is at next, or the bounds have met.
Hit(c) == pc[c] = "find" /\ At(s[c].next).from = req[c].key

\* A loop that stops one comparison early, and one that runs until the bounds are
\* equal.
MutMissEarly(c) ==
  /\ pc[c] = "find"
  /\ At(s[c].next).from # req[c].key
  /\ s[c].upper - s[c].lower <= 2

MutMissLate(c) ==
  /\ pc[c] = "find"
  /\ At(s[c].next).from # req[c].key
  /\ s[c].upper = s[c].lower

Miss(c) ==
  /\ pc[c] = "find"
  /\ At(s[c].next).from # req[c].key
  /\ s[c].upper - s[c].lower = 1

\* The bounds of a textbook bisection, whose upper bound is included.
MutHalved(b, right) ==
  IF right THEN Bounds(b.next, b.upper) ELSE Bounds(b.lower, b.next - 1)

\* Half of the way up, or half of the way down.
Halved(b, right) ==
  LET half == (b.upper - b.lower) \div 2
  IN  IF right THEN Bounds(b.lower + half, b.upper) ELSE Bounds(b.lower, b.upper - half)

FindStep(c) ==
  /\ pc[c] = "find"
  /\ ~ Hit(c)
  /\ ~ Miss(c)
  /\ s' = [s EXCEPT ![c] = Halved(s[c], req[c].key > At(s[c].next).from)]
  /\ UNCHANGED <<mu, pc, req, ret, idx>>

GetHit(c) ==
  /\ Hit(c)
  /\ req[c].op = "Get"
  /\ Answer(c, At(s[c].next).to)
  /\ s' = [s EXCEPT ![c] = NoSearch]
  /\ UNCHANGED idx

GetMiss(c) ==
  /\ Miss(c)
  /\ req[c].op = "Get"
  /\ Answer(c, NotFound)
  /\ s' = [s EXCEPT ![c] = NoSearch]
  /\ UNCHANGED idx

PutHit(c) ==
  /\ Hit(c)
  /\ req[c].op = "Put"
  /\ idx' = [idx EXCEPT ![s[c].next + 1].to = req[c].dest]
  /\ Answer(c, Nil)
  /\ s' = [s EXCEPT ![c] = NoSearch]

\* An insertion that never steps to the right of the nearest record.
MutInsertPos(c) == s[c].lower

\* To the right of the nearest record when the key is larger.
InsertPos(c) ==
  IF req[c].key > At(s[c].lower).from THEN s[c].lower + 1 ELSE s[c].lower

PutMiss(c) ==
  /\ Miss(c)
  /\ req[c].op = "Put"
  /\ idx' = InsertAt(idx, InsertPos(c) + 1, [from |-> req[c].key, to |-> req[c].dest])
  /\ Answer(c, Nil)
  /\ s' = [s EXCEPT ![c] = NoSearch]

-----------------------------------------------------------------------------
Work(c) ==
  \/ GetEmpty(c)
  \/ PutEmpty(c)
  \/ FindStart(c)
  \/ FindStep(c)
  \/ GetHit(c)
  \/ GetMiss(c)
  \/ PutHit(c)
  \/ PutMiss(c)

Call(c) == (Invoke(c) \/ GetLock(c) \/ PutLock(c) \/ Return(c)) /\ UNCHANGED <<idx, s>>

Next == \E c \in Client : Call(c) \/ Work(c)

Spec == Init /\ [][Next]_vars

(***************************************************************************)
(* The scheduler runs every goroutine that can run.  The writers' part of   *)
(* an RWMutex is a sync.Mutex, which in its starvation mode is handed to a  *)
(* waiter of over a millisecond: a writer that finds it free again and      *)
(* again takes it.                                                          *)
(***************************************************************************)
FairSpec ==
  /\ Spec
  /\ \A c \in Client :
       /\ WF_vars(GetLock(c) /\ UNCHANGED <<idx, s>>)
       /\ SF_vars(PutLock(c) /\ UNCHANGED <<idx, s>>)
       /\ WF_vars(Work(c))
       /\ WF_vars(Return(c) /\ UNCHANGED <<idx, s>>)

-----------------------------------------------------------------------------
\* The variables hold values of their types: the slice holds records, and find's
\* indices are never negative (where they may be is for BoundsKeepKey).
TypeOK ==
  /\ CallTypeOK({"find"})
  /\ idx \in Seq(Record)
  /\ s \in [Client -> Search]

\* "... so that the underlying set retains order" (binary_search.go:82): the
\* records stay strictly ordered whatever order the Puts come in, hence no
\* source has two records.
Ordered(records) ==
  \A i, j \in 1 .. Len(records) : i < j => records[i].from < records[j].from

Sorted == Ordered(idx)

\* Inside find (binary_search.go:44-65) the bounds never leave the slice, never
\* meet, and never close on the wrong half: all the records below lower are
\* smaller than the key searched for and all those from upper on are larger.  It
\* needs the lock: a Put that shifted the records would break a search under way.
Brackets(records, b, key) ==
  /\ b.lower < b.upper
  /\ b.upper <= Len(records)
  /\ b.next = b.lower + (b.upper - b.lower) \div 2
  /\ \A i \in 1 .. Len(records) :
       /\ i <= b.lower => records[i].from < key
       /\ i > b.upper => records[i].from > key

BoundsKeepKey ==
  \A c \in Client : pc[c] = "find" => Brackets(idx, s[c], req[c].key)

Width(b) == b.upper - b.lower

\* find's loop (binary_search.go:57-64) ends, on a slice of any length and for a key that is
\* there or not: a round that does not end it leaves a bracket that is not empty and that is
\* smaller, by half but for a record, whichever way it goes.
SearchEnds ==
  \A c \in Client :
    pc[c] = "find" /\ ~ Hit(c) /\ ~ Miss(c) =>
      \A right \in BOOLEAN :
        LET w == Width(Halved(s[c], right))
        IN  0 < w /\ w < Width(s[c]) /\ 2 * w <= Width(s[c]) + 1

\* A call holds its lock from the moment it enters the body until it returns
\* (binary_search.go:70-71, 84-85), and nobody else's: no writer is inside
\* together with a reader or with another writer.
LockOK(c) ==
  /\ pc[c] # "idle" => req[c] \in Request
  /\ mu.w = c => pc[c] \in {"lock", "find", "done"} /\ req[c].op = "Put"
  /\ c \in mu.r => pc[c] \in {"lock", "find", "done"} /\ req[c].op = "Get"
  /\ c \in mu.q => pc[c] = "lock" /\ req[c].op = "Get" /\ c \notin mu.r
  /\ pc[c] \in {"find", "done"} =>
       IF req[c].op = "Get" THEN HoldsRead(c) ELSE HoldsWrite(c)

LockHeld == \A c \in Client : LockOK(c)

\* The destination records hold for key, if there is one.
Lookup(records, key) ==
  IF \E i \in 1 .. Len(records) : records[i].from = key
  THEN records[CHOOSE i \in 1 .. Len(records) : records[i].from = key].to
  ELSE NotFound

Store == INSTANCE LinkStore WITH
  links <- [k \in Key |-> Lookup(idx, k)],
  pc <- [c \in Client |-> IF pc[c] \in {"idle", "done"} THEN pc[c] ELSE "call"]

\* The store keeps the promise of storage.Storer: every interleaving of searches and
\* insertions answers as if each call took effect at once.
Linearizable == Store!Spec

\* Every Get and Put that was called returns, so the lock is always released and
\* find's loop ends.
CallsReturn == \A c \in Client : pc[c] = "call" ~> pc[c] = "idle"
=============================================================================
