-------------------------- MODULE FirestoreProofs --------------------------
(***************************************************************************)
(* For any number of handlers, agents and documents: the types hold, and a  *)
(* settled document stays with its owner.                                   *)
(***************************************************************************)
EXTENDS Firestore, TLAPS

\* What a handler that is not idle knows of its call.
LEMMA BusyFacts ==
  ASSUME TypeOK, NEW i \in Handler, h[i].at # "idle"
  PROVE  /\ h[i] \in Busy
         /\ h[i].call \in Call
         /\ h[i].call.op = "Get" => h[i].call.scheme \in Scheme
         /\ h[i].call.op = "Put" => h[i].call.agent \in Owner /\ h[i].call.to \in Dest
BY DEF TypeOK, Busy, Idle, Call

\* Moving a handler on keeps it well typed.
LEMMA MoveFacts ==
  ASSUME TypeOK, NEW i \in Handler, h[i].at # "idle",
         NEW step \in {"read", "set", "stored", "late", "orphan", "done"}, NEW r \in Result
  PROVE  /\ [h EXCEPT ![i].at = step] \in [Handler -> Busy \cup {Idle}]
         /\ [h EXCEPT ![i].at = step][i].call = h[i].call
         /\ [h EXCEPT ![i].at = step, ![i].ret = r] \in [Handler -> Busy \cup {Idle}]
<1>1. h[i] \in Busy
  BY BusyFacts
<1>2. [h[i] EXCEPT !.at = step] \in Busy /\ [h[i] EXCEPT !.at = step].call = h[i].call
  BY <1>1 DEF Busy
<1>3. [h[i] EXCEPT !.at = step, !.ret = r] \in Busy
  BY <1>1 DEF Busy
<1>4. QED
  BY <1>2, <1>3 DEF TypeOK

LEMMA InitType == Init => TypeOK
BY MissingAssumption DEF Init, TypeOK, Idle, Document, Owner, OnItsWay, At

\* Every step keeps the types.
LEMMA NextType == TypeOK /\ [Next]_vars => TypeOK'
<1> SUFFICES ASSUME TypeOK, [Next]_vars PROVE TypeOK'
  OBVIOUS
<1>1. ASSUME NEW i \in Handler, Invoke(i) PROVE TypeOK'
  BY <1>1 DEF Invoke, TypeOK, Busy, Idle, Result, OnItsWay, At
<1>2. ASSUME NEW i \in Handler, NEW r \in Result,
             h[i].at # "idle", Answers(i, r), docs' = docs
      PROVE  TypeOK'
  <2>1. h' \in [Handler -> Busy \cup {Idle}]
    BY <1>2, MoveFacts DEF Answers
  <2>2. h'[i].at = "done" /\ \A j \in Handler \ {i} : h'[j] = h[j]
    BY <1>2, BusyFacts DEF Answers, TypeOK, Busy
  <2>3. QED
    BY <1>2, <2>1, <2>2 DEF TypeOK, OnItsWay, At
<1>3. ASSUME NEW i \in Handler, NEW step \in {"set", "stored", "late", "orphan", "done"},
             h[i].at # "idle", Goes(i, step), docs' \in [Doc -> Document \cup {Missing}],
             h[i].call.op = "Put", h[i].call.doc \in Doc
      PROVE  TypeOK'
  <2>1. h' \in [Handler -> Busy \cup {Idle}] /\ h'[i].call = h[i].call
    <3>1. "none" \in Result /\ step \in {"read", "set", "stored", "late", "orphan", "done"}
      BY DEF Result
    <3>2. /\ [h EXCEPT ![i].at = step] \in [Handler -> Busy \cup {Idle}]
          /\ [h EXCEPT ![i].at = step][i].call = h[i].call
      BY <1>3, <3>1, MoveFacts
    <3>3. QED
      BY <1>3, <3>2 DEF Goes
  <2>2. \A j \in Handler \ {i} : h'[j] = h[j]
    BY <1>3 DEF Goes, TypeOK
  <2>3. QED
    BY <1>3, <2>1, <2>2 DEF TypeOK, OnItsWay, At
<1>4. ASSUME NEW i \in Handler, h' = [h EXCEPT ![i] = Idle],
             docs' \in [Doc -> Document \cup {Missing}]
      PROVE  TypeOK'
  BY <1>4 DEF TypeOK, Idle, OnItsWay, At
<1>5. ASSUME NEW i \in Handler, NEW step \in {"late", "orphan"}, NEW r \in Result, OnItsWay(i),
              h' = [h EXCEPT ![i].at = step, ![i].ret = r], docs' = docs
       PROVE  TypeOK'
  <2>1. h[i].at # "idle" /\ h[i].call.op = "Put" /\ h[i].call.doc \in Doc
    BY <1>5 DEF OnItsWay, TypeOK
  <2>2. h' \in [Handler -> Busy \cup {Idle}]
    BY <1>5, <2>1, MoveFacts
  <2>3. h'[i].call = h[i].call /\ \A j \in Handler \ {i} : h'[j] = h[j]
    BY <1>5, <2>1, BusyFacts DEF TypeOK, Busy
  <2>4. QED
    BY <1>5, <2>1, <2>2, <2>3 DEF TypeOK, OnItsWay, At
<1>6. ASSUME NEW i \in Handler, ReadFails(i) PROVE TypeOK'
  BY <1>2, <1>6 DEF ReadFails, Reads, At, Result, Error
<1>7. ASSUME NEW i \in Handler, GetReads(i) PROVE TypeOK'
  <2>1. CASE Absent(i) /\ Answers(i, "ErrNotFound")
    BY <1>2, <1>7, <2>1 DEF GetReads, Reads, At, Result, Error
  <2>2. CASE Exists(i) /\ Answers(i, ResolveReference(h[i].call.scheme, Found(i).to))
    <3>1. Found(i).to \in Dest
      BY <2>2 DEF Exists, Found, TypeOK, Document
    <3>2. h[i].at # "idle" /\ h[i].call.scheme \in Scheme
      BY <1>7, BusyFacts DEF GetReads, Reads, At
    <3>3. ResolveReference(h[i].call.scheme, Found(i).to) \in Result
      BY <3>1, <3>2, ResolveAssumption DEF Result
    <3>4. QED
      BY <1>2, <1>7, <2>2, <3>2, <3>3 DEF GetReads
  <2>3. CASE Exists(i) /\ Answers(i, "ErrCorrupt")
    BY <1>2, <1>7, <2>3 DEF GetReads, Reads, At, Result, Error
  <2>4. QED
    BY <1>7, <2>1, <2>2, <2>3 DEF GetReads
<1>8. ASSUME NEW i \in Handler, OwnsReads(i) PROVE TypeOK'
  <2>1. h[i].at # "idle" /\ docs' = docs /\ (Answers(i, "true") \/ Answers(i, "false"))
    BY <1>8 DEF OwnsReads, Reads, At
  <2>2. QED
    BY <1>2, <2>1 DEF Result
<1>9. ASSUME NEW i \in Handler, PutReads(i) PROVE TypeOK'
  <2>1. CASE Answers(i, "ErrUnauthorized")
    BY <1>2, <1>9, <2>1 DEF PutReads, Reads, At, Result, Error
  <2>2. CASE MayPut(i) /\ Goes(i, "set")
    BY <1>3, <1>9, <2>2 DEF PutReads, Reads, At, MayPut, Absent, Exists, TypeOK
  <2>3. QED
    BY <1>9, <2>1, <2>2 DEF PutReads
<1>10. ASSUME NEW i \in Handler, SetTakesEffect(i) PROVE TypeOK'
  <2>1. h[i].at # "idle" /\ h[i].call.op = "Put" /\ h[i].call.doc \in Doc
    BY <1>10 DEF SetTakesEffect, OnItsWay, At, TypeOK
  <2>2. docs' \in [Doc -> Document \cup {Missing}]
    BY <1>10, <2>1, BusyFacts DEF SetTakesEffect, Written, Document, TypeOK
  <2>3. CASE Goes(i, "stored") \/ Goes(i, "done")
    BY <1>3, <2>1, <2>2, <2>3
  <2>4. CASE h' = [h EXCEPT ![i] = Idle]
    BY <1>4, <2>2, <2>4
  <2>5. QED
    BY <1>10, <2>3, <2>4 DEF SetTakesEffect
<1>11. ASSUME NEW i \in Handler, SetAnswers(i) \/ SetFails(i) PROVE TypeOK'
  <2>1. CASE h[i].at = "stored" /\ docs' = docs /\ (Answers(i, "nil") \/ Answers(i, "SetError"))
    BY <1>2, <2>1 DEF Result, Error
  <2>2. CASE At(i, "set") /\ docs' = docs /\ h' = [h EXCEPT ![i].at = "late", ![i].ret = "SetError"]
    BY <1>5, <2>2 DEF Result, Error, OnItsWay, At
  <2>3. QED
    BY <1>11, <2>1, <2>2 DEF SetAnswers, SetFails, At
<1>12. ASSUME NEW i \in Handler, SetLost(i) PROVE TypeOK'
  <2>1. CASE At(i, "late") /\ Goes(i, "done")
    BY <1>3, <1>12, <2>1 DEF SetLost, TypeOK, OnItsWay, At
  <2>2. CASE h' = [h EXCEPT ![i] = Idle]
    BY <1>4, <1>12, <2>2 DEF SetLost, TypeOK
  <2>3. QED
    BY <1>12, <2>1, <2>2 DEF SetLost
<1>13. ASSUME NEW i \in Handler, Return(i) \/ Crash(i) PROVE TypeOK'
  <2>1. Leaves(i) /\ docs' = docs
    BY <1>13 DEF Return, Crash
  <2>2. CASE h' = [h EXCEPT ![i] = Idle]
    BY <1>4, <2>1, <2>2 DEF TypeOK
  <2>3. CASE OnItsWay(i) /\ h' = [h EXCEPT ![i].at = "orphan", ![i].ret = "none"]
    BY <1>5, <2>1, <2>3 DEF Result
  <2>4. QED
    BY <2>1, <2>2, <2>3 DEF Leaves
<1>14. CASE UNCHANGED vars
  BY <1>14 DEF vars, TypeOK, OnItsWay, At
<1>15. QED
  BY <1>1, <1>6, <1>7, <1>8, <1>9, <1>10, <1>11, <1>12, <1>13, <1>14 DEF Next, Progress

\* The types hold, and every set on its way is of a Put of a real document.
THEOREM TypeCorrect == Spec => []TypeOK
BY InitType, NextType, PTL DEF Spec

\* One step from a settled document leads to a settled document of the same owner.
LEMMA SettledStep ==
  ASSUME TypeOK, TypeOK', [Next]_vars, NEW d \in Doc, Settled(d)
  PROVE  Settled(d)' /\ docs'[d].owner = docs[d].owner
<1> DEFINE mine(i) == h[i].call.agent = docs[d].owner
<1>1. docs[d] # Missing /\ \A i \in Handler : i \in Writing(d) => mine(i)
  BY DEF Settled, Writing
<1>2. ASSUME docs'[d] # Missing, docs'[d].owner = docs[d].owner,
             \A i \in Handler : i \in Writing(d)' => h'[i].call.agent = docs[d].owner
      PROVE  Settled(d)' /\ docs'[d].owner = docs[d].owner
  BY <1>2 DEF Settled, Writing
<1>3. ASSUME NEW i \in Handler,
             \A j \in Handler \ {i} : h'[j] = h[j],
             i \in Writing(d)' => h'[i].call.agent = docs[d].owner,
             docs'[d] = docs[d]
      PROVE  Settled(d)' /\ docs'[d].owner = docs[d].owner
  BY <1>1, <1>2, <1>3 DEF Writing, OnItsWay
<1>4. ASSUME NEW i \in Handler, Invoke(i) \/ SetLost(i)
      PROVE  Settled(d)' /\ docs'[d].owner = docs[d].owner
  <2>1. h'[i].at \notin {"set", "late", "orphan"} /\ \A j \in Handler \ {i} : h'[j] = h[j]
    BY <1>4, BusyFacts DEF Invoke, SetLost, Goes, At, TypeOK, Idle, Busy
  <2>2. docs'[d] = docs[d] /\ ~ (i \in Writing(d)')
    BY <1>4, <2>1 DEF Invoke, SetLost, Writing, OnItsWay
  <2>3. QED
    BY <1>3, <2>1, <2>2
<1>5. ASSUME NEW i \in Handler, NEW r, h[i].at # "idle", Answers(i, r), docs' = docs
      PROVE  Settled(d)' /\ docs'[d].owner = docs[d].owner
  <2>1. h'[i].at \notin {"set", "late", "orphan"} /\ \A j \in Handler \ {i} : h'[j] = h[j]
    BY <1>5, BusyFacts DEF Answers, TypeOK, Busy
  <2>2. docs'[d] = docs[d] /\ ~ (i \in Writing(d)')
    BY <1>5, <2>1 DEF Writing, OnItsWay
  <2>3. QED
    BY <1>3, <2>1, <2>2
<1>6. ASSUME NEW i \in Handler, ReadFails(i) \/ GetReads(i) \/ OwnsReads(i) \/ SetAnswers(i)
      PROVE  Settled(d)' /\ docs'[d].owner = docs[d].owner
  BY <1>5, <1>6 DEF ReadFails, GetReads, OwnsReads, SetAnswers, Reads, At
<1>7. ASSUME NEW i \in Handler, PutReads(i)
      PROVE  Settled(d)' /\ docs'[d].owner = docs[d].owner
  <2>1. h[i].at # "idle" /\ docs' = docs
    BY <1>7 DEF PutReads, Reads, At
  <2>2. CASE Answers(i, "ErrUnauthorized")
    BY <1>5, <2>1, <2>2
  <2>3. CASE MayPut(i) /\ Goes(i, "set")
    <3>1. h'[i].call = h[i].call /\ \A j \in Handler \ {i} : h'[j] = h[j]
      BY <2>1, <2>3, BusyFacts DEF Goes, TypeOK, Busy
    <3>2. h[i].call.doc = d => h[i].call.agent = docs[d].owner
      BY <1>1, <2>3 DEF MayPut, Absent, Exists, Found
    <3>3. i \in Writing(d)' => h'[i].call.agent = docs[d].owner
      BY <3>1, <3>2 DEF Writing
    <3>4. QED
      BY <1>3, <2>1, <3>1, <3>3
  <2>4. QED
    BY <1>7, <2>2, <2>3 DEF PutReads
<1>8. ASSUME NEW i \in Handler, SetTakesEffect(i)
      PROVE  Settled(d)' /\ docs'[d].owner = docs[d].owner
  <2>1. /\ h[i].at \in {"set", "late", "orphan"}
        /\ docs' = [docs EXCEPT ![h[i].call.doc] = Written(i)]
        /\ \/ h' = [h EXCEPT ![i].at = "stored"]
           \/ h' = [h EXCEPT ![i].at = "done"]
           \/ h' = [h EXCEPT ![i] = Idle]
    BY <1>8 DEF SetTakesEffect, OnItsWay, At, Goes
  <2>2. h'[i].at \notin {"set", "late", "orphan"} /\ \A j \in Handler \ {i} : h'[j] = h[j]
    BY <2>1, BusyFacts DEF TypeOK, Busy, Idle
  <2>3. docs'[d].owner = docs[d].owner /\ docs'[d] # Missing
    <3>1. CASE h[i].call.doc = d
      <4>1. h[i].call.agent = docs[d].owner
        BY <1>1, <2>1, <3>1 DEF Writing, OnItsWay
      <4>2. docs'[d] = Written(i)
        BY <2>1, <3>1 DEF TypeOK
      <4>3. Written(i).owner = h[i].call.agent /\ Written(i) # Missing
        <5>1. h[i].call.op = "Put" /\ h[i].at # "idle"
          BY <2>1 DEF TypeOK, OnItsWay, At
        <5>2. Written(i) \in Document
          BY <5>1, BusyFacts DEF Written, Document
        <5>3. QED
          BY <5>2, MissingAssumption DEF Written, Document, Owner
      <4>4. QED
        BY <4>1, <4>2, <4>3
    <3>2. CASE h[i].call.doc # d
      BY <1>1, <2>1, <3>2 DEF TypeOK
    <3>3. QED
      BY <3>1, <3>2
  <2>4. \A j \in Handler : j \in Writing(d)' => h'[j].call.agent = docs[d].owner
    BY <1>1, <2>2 DEF Writing, OnItsWay
  <2>5. QED
    BY <1>2, <2>3, <2>4
<1>9. ASSUME NEW i \in Handler, OnItsWay(i), docs' = docs,
             NEW step \in {"late", "orphan"}, NEW r,
             h' = [h EXCEPT ![i].at = step, ![i].ret = r]
      PROVE  Settled(d)' /\ docs'[d].owner = docs[d].owner
  <2>1. h'[i].call = h[i].call /\ \A j \in Handler \ {i} : h'[j] = h[j]
    BY <1>9, BusyFacts DEF OnItsWay, TypeOK, Busy
  <2>2. h[i].call.doc = d => i \in Writing(d)
    BY <1>9 DEF Writing
  <2>3. i \in Writing(d)' => h'[i].call.agent = docs[d].owner
    BY <1>1, <2>1, <2>2 DEF Writing
  <2>4. QED
    BY <1>3, <1>9, <2>1, <2>3
<1>10. ASSUME NEW i \in Handler, SetFails(i)
       PROVE  Settled(d)' /\ docs'[d].owner = docs[d].owner
  BY <1>5, <1>9, <1>10 DEF SetFails, OnItsWay, At
<1>11. ASSUME NEW i \in Handler, Return(i) \/ Crash(i)
       PROVE  Settled(d)' /\ docs'[d].owner = docs[d].owner
  <2>1. docs' = docs /\ Leaves(i)
    BY <1>11 DEF Return, Crash
  <2>2. CASE OnItsWay(i)
    BY <1>9, <2>1, <2>2 DEF Leaves
  <2>3. CASE h' = [h EXCEPT ![i] = Idle]
    <3>1. h'[i].at \notin {"set", "late", "orphan"} /\ \A j \in Handler \ {i} : h'[j] = h[j]
      BY <2>3 DEF TypeOK, Idle
    <3>2. ~ (i \in Writing(d)')
      BY <3>1 DEF Writing, OnItsWay
    <3>3. QED
      BY <1>3, <2>1, <3>1, <3>2
  <2>4. QED
    BY <2>1, <2>2, <2>3 DEF Leaves
<1>12. CASE UNCHANGED vars
  BY <1>1, <1>2, <1>12 DEF vars, Writing, OnItsWay
<1>13. QED
  BY <1>4, <1>6, <1>7, <1>8, <1>12, <1>10, <1>11 DEF Next, Progress

\* Whatever fails, is killed or arrives late: once no set of another agent is on its way
\* to a document, it stays its owner's, and no Put of another agent gets past the check
\* (firestore.go:66-82).
THEOREM SettledForGood == Spec => OwnerSettles
<1>1. TypeOK /\ TypeOK' /\ [Next]_vars =>
        [\A d \in Doc : Settled(d) => Settled(d)' /\ docs'[d].owner = docs[d].owner]_vars
  BY SettledStep
<1>2. QED
  BY <1>1, TypeCorrect, PTL DEF Spec, OwnerSettles
=============================================================================
