------------------------- MODULE LinkServiceProofs -------------------------
(***************************************************************************)
(* For any users, handlers, links and number of tries: the service runs the *)
(* store of module Firestore, and so inherits what is proved of it, and its *)
(* users find what they were told.  The invariant follows a try from the    *)
(* user to the document: it is in one place at a time, and what the user    *)
(* knows of it agrees with the place.                                       *)
(***************************************************************************)
EXTENDS LinkService, FirestoreProofs

Ans(t) == ans[t[1]][t[2]]

Serves(i) == h[i].call.to

\* The user of t has not been answered.
Unanswered(t) ==
  t \in Try /\ t[2] \in DOMAIN ans[t[1]] /\ Ans(t).told \in {"waiting", "gaveUp"}

\* The user of t has not been told what became of it.
Open(t) ==
  t \in Try /\ t[2] \in DOMAIN ans[t[1]] /\ Ans(t).told \notin {"link", "PermissionDenied"}

\* The set of i has taken effect, as far as i knows.
Stored(i) == At(i, "stored") \/ (At(i, "done") /\ h[i].ret = "nil")

MayBeStored(i) == At(i, "stored") \/ (At(i, "done") /\ h[i].ret \in {"nil", "SetError"})

\* Handlers and messages are of tries that were made and not answered, but for the sets
\* whose handlers are gone.
HandlersServe ==
  \A i \in Handler : ~ At(i, "idle") =>
    /\ h[i].call.op = "Put"
    /\ h[i].call.doc \in Ref
    /\ h[i].call.agent = Serves(i)[1]
    /\ Open(Serves(i))
    /\ At(i, "orphan") \/ Unanswered(Serves(i))
    /\ At(i, "late") => h[i].ret = "SetError"
    /\ Stored(i) => h[i].call.doc \in Doc

MessagesServe == \A r \in net : Unanswered(r.try)

\* A try is in one place.
OnePlace ==
  /\ \A r, s \in net : r.try = s.try => r = s
  /\ \A r \in net, i \in Handler : ~ At(i, "idle") => Serves(i) # r.try
  /\ \A i, j \in Handler : ~ At(i, "idle") /\ ~ At(j, "idle") /\ Serves(i) = Serves(j) => i = j

\* A document is of a try that was made, not refused, and has been served.
DocsServed ==
  \A d \in Doc : docs[d] # Missing =>
    /\ docs[d].to \in Try
    /\ docs[d].owner = docs[d].to[1]
    /\ docs[d].to[2] \in DOMAIN ans[docs[d].to[1]]
    /\ Ans(docs[d].to).told # "PermissionDenied"
    /\ \A r \in net : r.try # docs[d].to
    /\ \A i \in Handler : ~ At(i, "idle") /\ Serves(i) = docs[d].to =>
         h[i].call.doc = d /\ MayBeStored(i)

StoredThere == \A i \in Handler : Stored(i) => docs[h[i].call.doc] # Missing

LastWaits ==
  \A a \in Agent : \A n \in DOMAIN ans[a] : ans[a][n].told = "waiting" => n = Len(ans[a])

\* The user has not given up, and knows what each run has done but for the last.
Attentive(a) == \A n \in DOMAIN ans[a] : ans[a][n].told \in {"link", "PermissionDenied", "waiting"}

\* Nobody's own set comes between a set of an attentive user and its answer.
StoredLast ==
  \A i \in Handler :
    Stored(i) /\ Attentive(Serves(i)[1]) /\ docs[h[i].call.doc].owner = Serves(i)[1] =>
      docs[h[i].call.doc].to = Serves(i)

\* What an attentive user owns is as the last run that printed it, or as one that waits.
OwnStand ==
  \A d \in Doc : docs[d] # Missing /\ Attentive(docs[d].owner) =>
    /\ Ans(docs[d].to) = Printed(d) \/ Ans(docs[d].to).told = "waiting"
    /\ \A m \in DOMAIN ans[docs[d].owner] :
         m > docs[d].to[2] => ans[docs[d].owner][m] # Printed(d)

ServiceInv ==
  /\ ServiceTypeOK
  /\ HandlersServe
  /\ MessagesServe
  /\ OnePlace
  /\ DocsServed
  /\ StoredOnce
  /\ StoredThere
  /\ AnsweredLives
  /\ LastWaits
  /\ StoredLast
  /\ OwnStand

\* Handler i moves on within its call, and learns of a set only from the set.
LEMMA MoveKeeps ==
  ASSUME ServiceInv, ServiceTypeOK', UNCHANGED <<docs, clients>>,
         NEW i \in Handler, ~ At(i, "idle"), ~ At(i, "idle")',
         \A j \in Handler : j # i => h'[j] = h[j],
         h'[i].call = h[i].call,
         Stored(i)' => Stored(i),
         MayBeStored(i) => MayBeStored(i)',
         At(i, "orphan") => At(i, "orphan")',
         At(i, "late")' => h'[i].ret = "SetError"
  PROVE  ServiceInv'
<1> USE DEF ServiceInv, At, Serves
<1>0. \A j \in Handler : h'[j].call = h[j].call /\ (h'[j].at = "idle" <=> h[j].at = "idle")
  OBVIOUS
<1>1. UNCHANGED <<docs, net, ans>>
  BY DEF clients
<1>2. HandlersServe'
  <2> SUFFICES ASSUME NEW j \in Handler, h'[j].at # "idle"
               PROVE  /\ h'[j].call.op = "Put"
                      /\ h'[j].call.doc \in Ref
                      /\ h'[j].call.agent = h'[j].call.to[1]
                      /\ Open(Serves(j))'
                      /\ h'[j].at = "orphan" \/ Unanswered(Serves(j))'
                      /\ h'[j].at = "late" => h'[j].ret = "SetError"
                      /\ Stored(j)' => h'[j].call.doc \in Doc
    BY DEF HandlersServe, Ref
  <2>1. h'[j].call = h[j].call /\ h[j].at # "idle" /\ (Stored(j)' => Stored(j))
    BY <1>0 DEF Stored
  <2>2. /\ Open(Serves(j)) <=> Open(Serves(j))'
        /\ Unanswered(Serves(j)) <=> Unanswered(Serves(j))'
    BY <1>1, <2>1 DEF Open, Unanswered, Ans
  <2>3. QED
    BY <2>1, <2>2 DEF HandlersServe
<1>3. MessagesServe'
  BY <1>1 DEF MessagesServe, Unanswered, Ans
<1>4. OnePlace'
  BY <1>0, <1>1 DEF OnePlace
<1>5. \A j \in Handler : (Stored(j)' => Stored(j)) /\ (MayBeStored(j) => MayBeStored(j)')
  BY DEF Stored, MayBeStored
<1>6. DocsServed'
  BY <1>0, <1>1, <1>5 DEF DocsServed, Ans
<1>7. StoredThere'
  BY <1>0, <1>1, <1>5 DEF StoredThere
<1>8. StoredLast'
  BY <1>0, <1>1, <1>5 DEF StoredLast, Attentive
<1>9. StoredOnce' /\ AnsweredLives' /\ LastWaits' /\ OwnStand'
  BY <1>1 DEF StoredOnce, AnsweredLives, LastWaits, OwnStand, Attentive, Ans
<1>10. QED
  BY <1>2, <1>3, <1>4, <1>6, <1>7, <1>8, <1>9

\* Handler i is gone, without an answer.
LEMMA DropKeeps ==
  ASSUME ServiceInv, ServiceTypeOK', UNCHANGED <<docs, clients>>,
         NEW i \in Handler, At(i, "idle")',
         \A j \in Handler : j # i => h'[j] = h[j]
  PROVE  ServiceInv'
<1> USE DEF ServiceInv, At, Serves
<1>1. UNCHANGED <<docs, net, ans>>
  BY DEF clients
<1>2. HandlersServe' /\ MessagesServe'
  <2>1. \A s : (Unanswered(s) => Unanswered(s)') /\ (Open(s) => Open(s)')
    BY <1>1 DEF Unanswered, Open, Ans
  <2>2. MessagesServe'
    BY <1>1, <2>1 DEF MessagesServe
  <2>3. ASSUME NEW j \in Handler, ~ At(j, "idle")' PROVE j # i /\ h'[j] = h[j] /\ Serves(j)' = Serves(j)
    BY <2>3
  <2>4. HandlersServe'
    BY <2>1, <2>3 DEF HandlersServe, Stored
  <2>5. QED
    BY <2>2, <2>4
<1>3. OnePlace'
  BY <1>1 DEF OnePlace
<1>4. DocsServed'
  BY <1>1 DEF DocsServed, MayBeStored, Ans
<1>5. StoredThere' /\ StoredLast'
  BY <1>1 DEF StoredThere, StoredLast, Stored, Attentive
<1>6. StoredOnce' /\ AnsweredLives' /\ LastWaits' /\ OwnStand'
  BY <1>1 DEF StoredOnce, AnsweredLives, LastWaits, OwnStand, Attentive, Ans
<1>7. QED
  BY <1>2, <1>3, <1>4, <1>5, <1>6

\* One element of a sequence is replaced.
LEMMA ReplacedSeq ==
  ASSUME NEW S, NEW q \in Seq(S), NEW k \in Nat, NEW e \in S
  PROVE  [q EXCEPT ![k] = e] \in Seq(S) /\ Len([q EXCEPT ![k] = e]) = Len(q)
<1>1. Len(q) \in Nat /\ DOMAIN q = 1 .. Len(q) /\ \A n \in 1 .. Len(q) : q[n] \in S
  OBVIOUS
<1>2. [q EXCEPT ![k] = e] \in [1 .. Len(q) -> S]
  BY <1>1
<1>3. QED
  BY <1>1, <1>2

\* An answer reaches the run it is for, if that waits, and no other.
LEMMA ReplyFacts ==
  ASSUME ServiceTypeOK, NEW t \in Try, NEW e \in Ending, ans' = Reply(t, e)
  PROVE  /\ ans' \in [Agent -> Seq(Ending)]
         /\ \A a \in Agent : Len(ans'[a]) = Len(ans[a]) /\ DOMAIN ans'[a] = DOMAIN ans[a]
         /\ \A a \in Agent : \A n \in DOMAIN ans[a] :
              ans'[a][n] = IF a = t[1] /\ n = t[2] /\ ans[a][n].told = "waiting" THEN e ELSE ans[a][n]
<1>1. t[1] \in Agent /\ t[2] \in Nat
  BY TryAssumption DEF Try
<1>2. ans \in [Agent -> Seq(Ending)]
  BY DEF ServiceTypeOK
<1>3. CASE Ans(t).told = "waiting"
  <2>1. ans' = [ans EXCEPT ![t[1]] = [ans[t[1]] EXCEPT ![t[2]] = e]]
    BY <1>3 DEF Reply, Ans
  <2>2. /\ [ans[t[1]] EXCEPT ![t[2]] = e] \in Seq(Ending)
        /\ Len([ans[t[1]] EXCEPT ![t[2]] = e]) = Len(ans[t[1]])
    <3>1. ans[t[1]] \in Seq(Ending)
      BY <1>1, <1>2
    <3>2. QED
      BY <1>1, <3>1, ReplacedSeq
  <2>3. /\ DOMAIN [ans[t[1]] EXCEPT ![t[2]] = e] = DOMAIN ans[t[1]]
        /\ \A n \in DOMAIN ans[t[1]] :
             [ans[t[1]] EXCEPT ![t[2]] = e][n] = IF n = t[2] THEN e ELSE ans[t[1]][n]
    OBVIOUS
  <2>4. /\ ans'[t[1]] = [ans[t[1]] EXCEPT ![t[2]] = e]
        /\ \A a \in Agent : a # t[1] => ans'[a] = ans[a]
        /\ ans' \in [Agent -> Seq(Ending)]
    BY <1>1, <1>2, <2>1, <2>2
  <2>5. ans[t[1]][t[2]].told = "waiting"
    BY <1>3 DEF Ans
  <2>6. QED
    BY <1>1, <2>2, <2>3, <2>4, <2>5
<1>4. CASE Ans(t).told # "waiting"
  <2>1. ans' = ans
    BY <1>4 DEF Reply, Ans
  <2>2. QED
    BY <1>2, <1>4, <2>1 DEF Ans
<1>5. QED
  BY <1>3, <1>4

\* What New may answer.
LEMMA AnswerType ==
  ASSUME NEW ret, NEW doc, ret = "nil" => doc \in Doc
  PROVE  /\ Answer(ret, doc) \in Ending
         /\ Answer(ret, doc).told \in {"link", "PermissionDenied", "Internal"}
         /\ Answer(ret, doc).told = "link" <=> ret = "nil"
         /\ Answer(ret, doc).told = "PermissionDenied" <=> ret = "ErrUnauthorized"
         /\ ret = "nil" => Answer(ret, doc) = Printed(doc)
         /\ \A d \in Doc : Answer(ret, doc) = Printed(d) => d = doc /\ ret = "nil"
BY DEF Answer, Told, Printed, Ending

\* Handler i returns, and leaves a set behind.
Abandons(i) == At(i, "late") /\ At(i, "orphan")' /\ h'[i].call = h[i].call

\* A user's run ends, with what its handler says or with a failure before any handler.
LEMMA EndKeeps ==
  ASSUME ServiceInv, ServiceTypeOK', UNCHANGED docs, net' \subseteq net,
         NEW t \in Try, NEW e \in Ending, ans' = Reply(t, e),
         Unanswered(t),
         e.told \in {"link", "PermissionDenied", "Internal"},
         \A r \in net' : r.try # t,
         \A i \in Handler : h'[i].at # "idle" =>
           \/ h'[i] = h[i] /\ Serves(i) # t
           \/ Abandons(i) /\ Serves(i) = t /\ e.told = "Internal",
         e.told = "link" => \E i \in Handler : Stored(i) /\ Serves(i) = t /\ e = Printed(h[i].call.doc),
         e.told = "PermissionDenied" => \A d \in Doc : docs[d] # Missing => docs[d].to # t
  PROVE  ServiceInv'
<1> USE DEF ServiceInv, At, Serves
<1>1. t[1] \in Agent /\ t[2] \in DOMAIN ans[t[1]]
  BY DEF Unanswered, Try
<1>2. /\ \A a \in Agent : Len(ans'[a]) = Len(ans[a]) /\ DOMAIN ans'[a] = DOMAIN ans[a]
      /\ \A a \in Agent : \A n \in DOMAIN ans[a] :
           ans'[a][n] = IF a = t[1] /\ n = t[2] /\ ans[a][n].told = "waiting" THEN e ELSE ans[a][n]
  BY ReplyFacts
<1>3. ASSUME NEW s, Unanswered(s), s # t PROVE Unanswered(s)'
  <2>1. s[1] \in Agent /\ s[2] \in DOMAIN ans[s[1]] /\ ~ (s[1] = t[1] /\ s[2] = t[2])
    BY <1>3 DEF Unanswered, Try
  <2>2. QED
    BY <1>2, <1>3, <2>1 DEF Unanswered, Ans
<1>4. HandlersServe'
  <2> SUFFICES ASSUME NEW i \in Handler, h'[i].at # "idle"
               PROVE  /\ h'[i].call.op = "Put"
                      /\ h'[i].call.doc \in Ref
                      /\ h'[i].call.agent = h'[i].call.to[1]
                      /\ Open(Serves(i))'
                      /\ h'[i].at = "orphan" \/ Unanswered(Serves(i))'
                      /\ h'[i].at = "late" => h'[i].ret = "SetError"
                      /\ Stored(i)' => h'[i].call.doc \in Doc
    BY DEF HandlersServe
  <2>1. h'[i].call = h[i].call /\ h[i].at # "idle"
    BY DEF Abandons
  <2>2. CASE h'[i] = h[i] /\ Serves(i) # t
    <3>1. Open(Serves(i))'
      <4>1. /\ Serves(i)[1] \in Agent /\ Serves(i)[2] \in DOMAIN ans[Serves(i)[1]]
            /\ ~ (Serves(i)[1] = t[1] /\ Serves(i)[2] = t[2])
        BY <2>1, <2>2 DEF HandlersServe, Open, Try
      <4>2. QED
        BY <1>2, <2>1, <2>2, <4>1 DEF HandlersServe, Open, Ans
    <3>2. /\ h[i].call.op = "Put" /\ h[i].call.doc \in Ref /\ h[i].call.agent = Serves(i)[1]
          /\ h[i].at = "orphan" \/ Unanswered(Serves(i))
          /\ h[i].at = "late" => h[i].ret = "SetError"
          /\ Stored(i) => h[i].call.doc \in Doc
      BY <2>1 DEF HandlersServe
    <3>3. h[i].at = "orphan" \/ Unanswered(Serves(i))'
      BY <1>3, <2>2, <3>2
    <3>4. Stored(i)' = Stored(i)
      BY <2>2 DEF Stored
    <3>5. QED
      BY <2>2, <3>1, <3>2, <3>3, <3>4
  <2>3. CASE Abandons(i) /\ Serves(i) = t /\ e.told = "Internal"
    <3>1. Open(t)'
      BY <1>1, <1>2, <2>3 DEF Unanswered, Open, Ans
    <3>2. QED
      BY <2>1, <2>3, <3>1 DEF Abandons, HandlersServe, Stored
  <2>4. QED
    BY <2>2, <2>3
<1>5. MessagesServe'
  BY <1>3 DEF MessagesServe
<1>6. OnePlace'
  BY DEF OnePlace, Abandons
<1>7. DocsServed'
  <2> SUFFICES ASSUME NEW d \in Doc, docs[d] # Missing
               PROVE  /\ docs[d].to \in Try
                      /\ docs[d].owner = docs[d].to[1]
                      /\ docs[d].to[2] \in DOMAIN ans'[docs[d].to[1]]
                      /\ Ans(docs[d].to)'.told # "PermissionDenied"
                      /\ \A r \in net' : r.try # docs[d].to
                      /\ \A i \in Handler : h'[i].at # "idle" /\ h'[i].call.to = docs[d].to =>
                           h'[i].call.doc = d /\ MayBeStored(i)'
    BY DEF DocsServed
  <2>1. /\ docs[d].to \in Try
        /\ docs[d].owner = docs[d].to[1]
        /\ docs[d].to[2] \in DOMAIN ans[docs[d].to[1]]
        /\ Ans(docs[d].to).told # "PermissionDenied"
        /\ \A r \in net : r.try # docs[d].to
        /\ \A i \in Handler : h[i].at # "idle" /\ h[i].call.to = docs[d].to =>
             h[i].call.doc = d /\ MayBeStored(i)
    BY DEF DocsServed
  <2>2. docs[d].to[1] \in Agent
    BY <2>1 DEF Try
  <2>3. docs[d].to[2] \in DOMAIN ans'[docs[d].to[1]]
    BY <1>2, <2>1, <2>2
  <2>4. Ans(docs[d].to)'.told # "PermissionDenied"
    <3>1. CASE docs[d].to = t
      BY <1>2, <2>1, <2>2, <3>1 DEF Ans
    <3>2. CASE docs[d].to # t
      <4>1. ~ (docs[d].to[1] = t[1] /\ docs[d].to[2] = t[2])
        BY <2>1, <3>2 DEF Try
      <4>2. QED
        BY <1>2, <2>1, <2>2, <4>1 DEF Ans
    <3>3. QED
      BY <3>1, <3>2
  <2>5. \A i \in Handler : h'[i].at # "idle" /\ h'[i].call.to = docs[d].to =>
          h'[i].call.doc = d /\ MayBeStored(i)'
    BY <2>1 DEF MayBeStored, Abandons
  <2>6. QED
    BY <2>1, <2>3, <2>4, <2>5
<1>8. StoredThere' /\ StoredOnce'
  BY DEF StoredThere, StoredOnce, Stored, Abandons
<1>9. AnsweredLives'
  BY <1>1, <1>2 DEF AnsweredLives, StoredThere, Printed
<1>10. LastWaits'
  BY <1>2 DEF LastWaits
<1>11. \A a \in Agent : Attentive(a)' => Attentive(a)
  BY <1>2 DEF Attentive
<1>12. StoredLast'
  BY <1>11 DEF StoredLast, HandlersServe, Open, Try, Stored, Abandons
<1>13. OwnStand'
  <2> SUFFICES ASSUME NEW d \in Doc, docs[d] # Missing, Attentive(docs[d].owner)'
               PROVE  /\ Ans(docs[d].to)' = Printed(d) \/ Ans(docs[d].to)'.told = "waiting"
                      /\ \A m \in DOMAIN ans'[docs[d].owner] :
                           m > docs[d].to[2] => ans'[docs[d].owner][m] # Printed(d)
    BY DEF OwnStand
  <2> DEFINE a == docs[d].to[1]
             n == docs[d].to[2]
  <2>1. /\ a \in Agent /\ docs[d].owner = a /\ n \in DOMAIN ans[a] /\ n \in Nat
        /\ docs[d].to = <<a, n>>
    BY TryAssumption DEF DocsServed, Try
  <2>2. Attentive(a)
    BY <1>11, <2>1
  <2>3. /\ ans[a][n] = Printed(d) \/ ans[a][n].told = "waiting"
        /\ \A m \in DOMAIN ans[a] : m > n => ans[a][m] # Printed(d)
    BY <2>1, <2>2 DEF OwnStand, Ans
  <2>4. ans'[a][n] = Printed(d) \/ ans'[a][n].told = "waiting"
    <3>1. CASE a = t[1] /\ n = t[2] /\ ans[a][n].told = "waiting"
      <4>1. t = docs[d].to /\ ans'[a][n] = e
        BY <1>2, <2>1, <3>1 DEF Try
      <4>2. e.told # "Internal"
        <5>1. e.told \in {"link", "PermissionDenied", "waiting"}
          BY <1>2, <2>1, <4>1 DEF Attentive
        <5>2. QED
          BY <5>1
      <4>3. e.told = "link"
        BY <4>1, <4>2
      <4>4. PICK i \in Handler : Stored(i) /\ Serves(i) = t /\ e = Printed(h[i].call.doc)
        BY <4>3
      <4>5. h[i].call.doc = d
        BY <4>1, <4>4 DEF DocsServed, Stored
      <4>6. QED
        BY <4>1, <4>4, <4>5
    <3>2. CASE ~ (a = t[1] /\ n = t[2] /\ ans[a][n].told = "waiting")
      <4>1. ans'[a][n] = ans[a][n]
        BY <1>2, <2>1, <3>2
      <4>2. QED
        BY <2>3, <4>1
    <3>3. QED
      BY <3>1, <3>2
  <2>5. ASSUME NEW m \in DOMAIN ans[a], m > n PROVE ans'[a][m] # Printed(d)
    <3>1. CASE a = t[1] /\ m = t[2] /\ ans[a][m].told = "waiting"
      <4> SUFFICES ASSUME e = Printed(d) PROVE FALSE
        BY <1>2, <2>1, <3>1
      <4>1. e.told = "link"
        BY DEF Printed
      <4>2. PICK i \in Handler : Stored(i) /\ Serves(i) = t /\ e = Printed(h[i].call.doc)
        BY <4>1
      <4>3. h[i].call.doc = d
        BY <4>2 DEF Printed
      <4>4. docs[d].to = t
        BY <2>1, <2>2, <3>1, <4>2, <4>3 DEF StoredLast
      <4>5. QED
        BY <2>5, <3>1, <4>4, <2>1
    <3>2. CASE ~ (a = t[1] /\ m = t[2] /\ ans[a][m].told = "waiting")
      BY <1>2, <2>1, <2>3, <2>5, <3>2
    <3>3. QED
      BY <3>1, <3>2
  <2>6. QED
    BY <1>2, <2>1, <2>4, <2>5 DEF Ans
<1>14. QED
  BY <1>4, <1>5, <1>6, <1>7, <1>8, <1>9, <1>10, <1>12, <1>13

\* A set of handler i takes effect; i may be gone.
LEMMA SetKeeps ==
  ASSUME ServiceInv, ServiceTypeOK', NEW i \in Handler, SetTakesEffect(i), UNCHANGED clients
  PROVE  ServiceInv'
<1> USE DEF ServiceInv, At, Serves
<1> DEFINE t == Serves(i)
           d == h[i].call.doc
<1>1. UNCHANGED <<net, ans>> /\ h[i].at \in {"set", "late", "orphan"}
  BY DEF clients, SetTakesEffect, OnItsWay
<1>2. /\ d \in Doc
      /\ h[i].call.agent = t[1]
      /\ t[1] \in Agent /\ t \in Try /\ t[2] \in DOMAIN ans[t[1]]
      /\ Ans(t).told \notin {"link", "PermissionDenied"}
  BY <1>1 DEF HandlersServe, Open, Try, ServiceTypeOK, TypeOK, OnItsWay
<1>3. docs'[d] = [to |-> t, owner |-> t[1]] /\ \A e \in Doc : e # d => docs'[e] = docs[e]
  BY <1>2 DEF SetTakesEffect, Written, ServiceTypeOK, TypeOK
<1>4. docs'[d] # Missing
  BY <1>2, <1>3, MissingAssumption, TryAssumption
<1>5. /\ \/ h'[i].at = "idle"
         \/ h'[i].at = "stored" /\ h'[i].call = h[i].call /\ h[i].at = "set"
         \/ h'[i].at = "done" /\ h'[i].call = h[i].call /\ h[i].at = "late" /\ h'[i].ret = "SetError"
      /\ \A j \in Handler : j # i => h'[j] = h[j]
  <2>1. h \in [Handler -> Busy \cup {Idle}] /\ h[i] \in Busy
    BY <1>1, BusyFacts DEF ServiceTypeOK, TypeOK
  <2>2. CASE h' = [h EXCEPT ![i] = Idle]
    BY <2>1, <2>2 DEF Idle
  <2>3. CASE h[i].at = "set" /\ h' = [h EXCEPT ![i].at = "stored"]
    BY <2>1, <2>3 DEF Busy
  <2>4. CASE h[i].at = "late" /\ h' = [h EXCEPT ![i].at = "done"]
    <3>1. h[i].ret = "SetError"
      BY <2>4 DEF HandlersServe
    <3>2. QED
      BY <2>1, <2>4, <3>1 DEF Busy
  <2>5. QED
    BY <2>2, <2>3, <2>4 DEF SetTakesEffect, Goes
<1>6. \A j \in Handler : j # i /\ h[j].at # "idle" => h[j].call.to # t
  BY <1>1 DEF OnePlace
<1>7. Attentive(t[1]) => Ans(t).told = "waiting" /\ t[2] = Len(ans[t[1]])
  BY <1>2 DEF Attentive, LastWaits, Ans
<1> HIDE DEF t, d
<1>8. HandlersServe'
  <2> SUFFICES ASSUME NEW j \in Handler, h'[j].at # "idle"
               PROVE  /\ h'[j].call.op = "Put"
                      /\ h'[j].call.doc \in Ref
                      /\ h'[j].call.agent = h'[j].call.to[1]
                      /\ Open(Serves(j))'
                      /\ h'[j].at = "orphan" \/ Unanswered(Serves(j))'
                      /\ h'[j].at = "late" => h'[j].ret = "SetError"
                      /\ Stored(j)' => h'[j].call.doc \in Doc
    BY DEF HandlersServe, Ref
  <2>1. h'[j].call = h[j].call /\ h[j].at # "idle" /\ (h'[j].at # "orphan" => h[j].at # "orphan")
    BY <1>1, <1>5
  <2>2. /\ Open(Serves(j)) <=> Open(Serves(j))'
        /\ Unanswered(Serves(j)) <=> Unanswered(Serves(j))'
    BY <1>1, <2>1 DEF Open, Unanswered, Ans
  <2>3. /\ h'[j].at = "late" => h'[j].ret = "SetError"
        /\ Stored(j)' => h'[j].call.doc \in Doc
    BY <1>2, <1>5 DEF HandlersServe, Stored, d
  <2>4. QED
    BY <2>1, <2>2, <2>3 DEF HandlersServe
<1>9. MessagesServe'
  BY <1>1 DEF MessagesServe, Unanswered, Ans
<1>10. OnePlace'
  BY <1>1, <1>5 DEF OnePlace
<1>11. DocsServed'
  <2> SUFFICES ASSUME NEW e \in Doc, docs'[e] # Missing
               PROVE  /\ docs'[e].to \in Try
                      /\ docs'[e].owner = docs'[e].to[1]
                      /\ docs'[e].to[2] \in DOMAIN ans[docs'[e].to[1]]
                      /\ Ans(docs'[e].to).told # "PermissionDenied"
                      /\ \A r \in net : r.try # docs'[e].to
                      /\ \A j \in Handler : h'[j].at # "idle" /\ h'[j].call.to = docs'[e].to =>
                           h'[j].call.doc = e /\ MayBeStored(j)'
    BY <1>1 DEF DocsServed, Ans
  <2>1. CASE e = d
    <3>1. docs'[e].to = t /\ docs'[e].owner = t[1]
      BY <1>3, <2>1
    <3>2. \A r \in net : r.try # t
      BY <1>1 DEF OnePlace, t
    <3>3. ASSUME NEW j \in Handler, h'[j].at # "idle", h'[j].call.to = t
          PROVE  h'[j].call.doc = e /\ MayBeStored(j)'
      <4>1. j = i
        BY <1>5, <1>6, <3>3
      <4>2. QED
        BY <1>5, <2>1, <3>3, <4>1 DEF MayBeStored, d
    <3>4. QED
      BY <1>2, <3>1, <3>2, <3>3
  <2>2. CASE e # d
    <3>1. docs'[e] = docs[e]
      BY <1>3, <2>2
    <3>2. h[i].call.to # docs[e].to
      BY <1>1, <3>1 DEF DocsServed, MayBeStored
    <3>3. QED
      BY <1>5, <3>1, <3>2 DEF DocsServed, MayBeStored
  <2>3. QED
    BY <2>1, <2>2
<1>12. StoredOnce'
  <2>1. \A e \in Doc : docs[e] # Missing => docs[e].to # t
    BY <1>1 DEF DocsServed, MayBeStored, t
  <2>2. \A e \in Doc : e # d /\ docs'[e] # Missing => docs'[e] # docs'[d]
    <3> SUFFICES ASSUME NEW e \in Doc, e # d, docs'[e] # Missing, docs'[e] = docs'[d] PROVE FALSE
      OBVIOUS
    <3>1. docs[e] # Missing /\ docs[e].to = t
      BY <1>3
    <3>2. QED
      BY <2>1, <3>1
  <2>3. \A e \in Doc : e # d => docs'[e] = docs[e]
    BY <1>3
  <2>4. QED
    BY <2>2, <2>3 DEF StoredOnce
<1>13. StoredThere'
  <2> SUFFICES ASSUME NEW j \in Handler, Stored(j)' PROVE docs'[h'[j].call.doc] # Missing
    BY DEF StoredThere
  <2>1. h'[j].call.doc \in Doc /\ (h'[j].call.doc = d \/ Stored(j))
    BY <1>2, <1>5 DEF Stored, HandlersServe, d
  <2>2. QED
    BY <1>3, <1>4, <1>5, <2>1 DEF Stored, StoredThere
<1>14. AnsweredLives' /\ LastWaits'
  <2>1. ASSUME NEW a \in Agent, NEW n \in DOMAIN ans[a], ans[a][n].told = "link"
        PROVE  docs'[ans[a][n].doc] # Missing
    <3>1. ans[a] \in Seq(Ending)
      BY DEF ServiceTypeOK
    <3>2. ans[a][n] \in Ending
      BY <3>1
    <3>3. ans[a][n].doc \in Doc
      BY <2>1, <3>2 DEF Ending, Told, Printed
    <3>4. docs[ans[a][n].doc] # Missing
      BY <2>1 DEF AnsweredLives
    <3>5. QED
      BY <1>3, <1>4, <3>3, <3>4
  <2>2. QED
    BY <1>1, <2>1 DEF AnsweredLives, LastWaits
<1>15. StoredLast'
  <2> SUFFICES ASSUME NEW j \in Handler, Stored(j)', Attentive(h[j].call.to[1])',
                      docs'[h'[j].call.doc].owner = h'[j].call.to[1]
               PROVE  docs'[h'[j].call.doc].to = h'[j].call.to
    BY DEF StoredLast
  <2>1. CASE j = i
    BY <1>3, <1>5, <2>1 DEF Stored, t, d
  <2>2. CASE j # i
    <3>1. h'[j] = h[j] /\ Stored(j) /\ Attentive(h[j].call.to[1]) /\ h[j].call.doc \in Doc
      BY <1>1, <1>5, <2>2 DEF Stored, Attentive, HandlersServe
    <3>2. CASE h[j].call.doc # d
      BY <1>3, <3>1, <3>2 DEF StoredLast
    <3>3. CASE h[j].call.doc = d
      <4>1. h[j].call.to[1] = t[1]
        BY <1>3, <3>1, <3>3
      <4>2. Unanswered(h[j].call.to)
        BY <3>1 DEF HandlersServe, Stored
      <4>3. Ans(h[j].call.to).told = "waiting" /\ h[j].call.to[2] = Len(ans[t[1]])
        BY <1>2, <3>1, <4>1, <4>2 DEF Unanswered, Attentive, LastWaits, Ans
      <4>4. h[j].call.to = t
        BY <1>2, <1>7, <3>1, <4>1, <4>2, <4>3 DEF Unanswered, Try
      <4>5. QED
        BY <1>6, <2>2, <3>1, <4>4 DEF Stored
    <3>4. QED
      BY <3>2, <3>3
  <2>3. QED
    BY <2>1, <2>2
<1>16. OwnStand'
  <2> SUFFICES ASSUME NEW e \in Doc, docs'[e] # Missing, Attentive(docs'[e].owner)
               PROVE  /\ Ans(docs'[e].to) = Printed(e) \/ Ans(docs'[e].to).told = "waiting"
                      /\ \A m \in DOMAIN ans[docs'[e].owner] :
                           m > docs'[e].to[2] => ans[docs'[e].owner][m] # Printed(e)
    BY <1>1 DEF OwnStand, Attentive, Ans
  <2>1. CASE e = d
    <3>1. docs'[e].to = t /\ docs'[e].owner = t[1]
      BY <1>3, <2>1
    <3>2. Ans(t).told = "waiting" /\ t[2] = Len(ans[t[1]])
      BY <1>7, <3>1
    <3>3. ans[t[1]] \in Seq(Ending)
      BY <1>2 DEF ServiceTypeOK
    <3>4. QED
      BY <3>1, <3>2, <3>3
  <2>2. CASE e # d
    BY <1>3, <2>2 DEF OwnStand
  <2>3. QED
    BY <2>1, <2>2
<1>17. QED
  BY <1>8, <1>9, <1>10, <1>11, <1>12, <1>13, <1>14, <1>15, <1>16

\* A handler starts on a message, which is gone.
LEMMA ReceiveKeeps ==
  ASSUME ServiceInv, ServiceTypeOK', NEW i \in Handler, NEW req \in net, Receive(i, req)
  PROVE  ServiceInv'
<1> USE DEF ServiceInv, At, Serves
<1>1. UNCHANGED <<docs, ans>> /\ net' = net \ {req} /\ h[i].at = "idle"
  BY DEF Receive
<1>2. req \in Request /\ req.on \in On /\ Unanswered(req.try)
  BY DEF ServiceTypeOK, Request, MessagesServe
<1>3. PICK doc \in LinkDocs(req.on) :
        h' = [h EXCEPT ![i] =
               [at |-> "read", ret |-> "none",
                call |-> [op |-> "Put", doc |-> doc, agent |-> req.try[1], to |-> req.try]]]
  BY DEF Receive
<1>4. doc \in Ref
  BY <1>2, LinkAssumption
<1>5. /\ \A j \in Handler : j # i => h'[j] = h[j]
      /\ h'[i].at = "read" /\ h'[i].call.op = "Put" /\ h'[i].call.doc = doc
      /\ h'[i].call.agent = req.try[1] /\ h'[i].call.to = req.try
  BY <1>3 DEF ServiceTypeOK, TypeOK
<1>6. HandlersServe'
  <2>1. Open(req.try)
    BY <1>2 DEF Unanswered, Open
  <2>2. \A t : (Open(t) <=> Open(t)') /\ (Unanswered(t) <=> Unanswered(t)')
    BY <1>1 DEF Open, Unanswered, Ans
  <2>3. QED
    BY <1>2, <1>4, <1>5, <2>1, <2>2 DEF HandlersServe, Stored, Ref
<1>7. MessagesServe'
  BY <1>1 DEF MessagesServe, Unanswered, Ans
<1>8. OnePlace'
  BY <1>1, <1>5 DEF OnePlace
<1>9. DocsServed'
  BY <1>1, <1>5 DEF DocsServed, MayBeStored, Ans
<1>10. StoredThere' /\ StoredLast'
  BY <1>1, <1>5 DEF StoredThere, StoredLast, Stored, Attentive
<1>11. StoredOnce' /\ AnsweredLives' /\ LastWaits' /\ OwnStand'
  BY <1>1 DEF StoredOnce, AnsweredLives, LastWaits, OwnStand, Attentive, Ans
<1>12. QED
  BY <1>6, <1>7, <1>8, <1>9, <1>10, <1>11

\* A message is lost.
LEMMA LoseKeeps ==
  ASSUME ServiceInv, ServiceTypeOK', NEW req \in net, Lose(req)
  PROVE  ServiceInv'
<1>1. UNCHANGED <<docs, h, ans>> /\ net' \subseteq net
  BY DEF Lose, vars
<1>2. MessagesServe' /\ OnePlace'
  BY <1>1 DEF ServiceInv, MessagesServe, OnePlace, Unanswered, Ans, At, Serves
<1>3. DocsServed'
  BY <1>1 DEF ServiceInv, DocsServed, MayBeStored, Ans, At, Serves
<1>4. HandlersServe' /\ StoredThere' /\ StoredLast'
  BY <1>1 DEF ServiceInv, HandlersServe, StoredThere, StoredLast, Stored, Attentive, Unanswered, Open,
              Ans, At, Serves
<1>5. StoredOnce' /\ AnsweredLives' /\ LastWaits' /\ OwnStand'
  BY <1>1 DEF ServiceInv, StoredOnce, AnsweredLives, LastWaits, OwnStand, Attentive, Ans
<1>6. QED
  BY <1>2, <1>3, <1>4, <1>5 DEF ServiceInv

\* A user runs `@` once more: a try that nothing in the service knows of yet.
LEMMA AskKeeps ==
  ASSUME ServiceInv, ServiceTypeOK', NEW a \in Agent, Ask(a)
  PROVE  ServiceInv'
<1> USE DEF ServiceInv, At, Serves
<1>0. PICK k \in Nat : k = Len(ans[a]) + 1
  BY DEF ServiceTypeOK
<1> DEFINE t == <<a, k>>
<1>1. UNCHANGED <<docs, h>> /\ ~ Waiting(a) /\ Len(ans[a]) < MaxTries
  BY DEF Ask, vars
<1>2. PICK on \in On : net' = net \cup {[try |-> t, on |-> on]}
  BY <1>0 DEF Ask
<1>3. ans \in [Agent -> Seq(Ending)] /\ Len(ans[a]) \in Nat /\ Told("waiting") \in Ending
  BY DEF ServiceTypeOK, Ending
<1>4. /\ \A b \in Agent : b # a => ans'[b] = ans[b]
      /\ Len(ans'[a]) = k /\ DOMAIN ans'[a] = 1 .. k /\ DOMAIN ans[a] = 1 .. k - 1
      /\ \A n \in 1 .. k - 1 : ans'[a][n] = ans[a][n]
      /\ ans'[a][k] = Told("waiting")
  <2>1. ans' = [ans EXCEPT ![a] = Append(@, Told("waiting"))]
    BY DEF Ask
  <2>2. ans[a] \in Seq(Ending)
    BY <1>3
  <2>3. ans'[a] = Append(ans[a], Told("waiting")) /\ \A b \in Agent : b # a => ans'[b] = ans[b]
    BY <1>3, <2>1
  <2>4. QED
    BY <1>0, <1>3, <2>2, <2>3
<1>5. t \in Try
  BY <1>0, <1>1, <1>3, TryAssumption DEF Try
<1>6. Unanswered(t)'
  BY <1>0, <1>4, <1>5 DEF Unanswered, Ans, Told
<1>7. ASSUME NEW s \in Try, s[2] \in DOMAIN ans[s[1]]
      PROVE  s[1] \in Agent /\ s # t /\ s[2] \in DOMAIN ans'[s[1]] /\ Ans(s)' = Ans(s)
  <2>1. s[1] \in Agent
    BY DEF Try
  <2>2. CASE s[1] = a
    BY <1>3, <1>4, <1>7, <2>2 DEF Ans
  <2>3. CASE s[1] # a
    BY <1>4, <1>7, <2>1, <2>3 DEF Ans
  <2>4. QED
    BY <2>1, <2>2, <2>3
<1>8. \A s : (Unanswered(s) => Unanswered(s)' /\ s # t) /\ (Open(s) => Open(s)' /\ s # t)
  BY <1>7 DEF Unanswered, Open
<1> HIDE DEF t
<1>9. HandlersServe'
  BY <1>1, <1>8 DEF HandlersServe, Stored
<1>10. MessagesServe'
  BY <1>2, <1>6, <1>8 DEF MessagesServe
<1>11. OnePlace'
  BY <1>1, <1>2, <1>8 DEF OnePlace, MessagesServe, HandlersServe
<1>12. DocsServed'
  BY <1>1, <1>2, <1>7 DEF DocsServed, MayBeStored
<1>13. StoredOnce' /\ StoredThere'
  BY <1>1 DEF StoredOnce, StoredThere, Stored
<1>14. AnsweredLives'
  <2> SUFFICES ASSUME NEW b \in Agent, NEW n \in DOMAIN ans'[b], ans'[b][n].told = "link"
               PROVE  docs[ans'[b][n].doc] # Missing
    BY <1>1 DEF AnsweredLives
  <2>1. n \in DOMAIN ans[b] /\ ans'[b][n] = ans[b][n]
    BY <1>3, <1>4 DEF Told
  <2>2. QED
    BY <2>1 DEF AnsweredLives
<1>15. LastWaits'
  BY <1>1, <1>3, <1>4 DEF LastWaits, Waiting
<1>16. \A b \in Agent : Attentive(b)' => Attentive(b)
  BY <1>3, <1>4 DEF Attentive
<1>17. StoredLast'
  BY <1>1, <1>7, <1>16 DEF StoredLast, Stored, HandlersServe, Open
<1>18. OwnStand'
  <2> SUFFICES ASSUME NEW d \in Doc, docs[d] # Missing, NEW b \in Agent, docs[d].owner = b, Attentive(b)'
               PROVE  /\ ans'[docs[d].to[1]][docs[d].to[2]] = Printed(d)
                           \/ ans'[docs[d].to[1]][docs[d].to[2]].told = "waiting"
                      /\ \A m \in DOMAIN ans'[b] : m > docs[d].to[2] => ans'[b][m] # Printed(d)
    BY <1>1 DEF OwnStand, Ans, DocsServed, Try, Attentive
  <2>1. docs[d].to \in Try /\ b = docs[d].to[1] /\ docs[d].to[2] \in DOMAIN ans[b]
    BY DEF DocsServed
  <2>2. ans'[docs[d].to[1]][docs[d].to[2]] = Ans(docs[d].to)
    BY <1>7, <2>1 DEF Ans
  <2>3. Attentive(b)
    BY <1>16
  <2>4. ASSUME NEW m \in DOMAIN ans'[b], m > docs[d].to[2]
        PROVE  ans'[b][m] # Printed(d)
    <3>1. CASE b = a /\ m = k
      BY <1>4, <3>1 DEF Told, Printed
    <3>2. CASE ~ (b = a /\ m = k)
      <4>1. m \in DOMAIN ans[b] /\ ans'[b][m] = ans[b][m]
        BY <1>0, <1>4, <2>4, <3>2
      <4>2. QED
        BY <2>3, <2>4, <4>1 DEF OwnStand
    <3>3. QED
      BY <3>1, <3>2
  <2>5. QED
    BY <2>2, <2>3, <2>4 DEF OwnStand
<1>19. QED
  BY <1>9, <1>10, <1>11, <1>12, <1>13, <1>14, <1>15, <1>17, <1>18

\* A user gives up, and is not attentive any more.
LEMMA GiveUpKeeps ==
  ASSUME ServiceInv, ServiceTypeOK', NEW a \in Agent, GiveUp(a)
  PROVE  ServiceInv'
<1> USE DEF ServiceInv, At, Serves
<1>1. UNCHANGED <<docs, h, net>>
  BY DEF GiveUp, vars
<1>2. PICK k \in DOMAIN ans[a] : ans[a][k].told = "waiting" /\ ans' = [ans EXCEPT ![a][k] = Told("gaveUp")]
  BY DEF GiveUp
<1>3. ans \in [Agent -> Seq(Ending)]
  BY DEF ServiceTypeOK
<1>4. /\ \A b \in Agent : b # a => ans'[b] = ans[b]
      /\ DOMAIN ans'[a] = DOMAIN ans[a] /\ Len(ans'[a]) = Len(ans[a])
      /\ \A n \in DOMAIN ans[a] : n # k => ans'[a][n] = ans[a][n]
      /\ ans'[a][k] = Told("gaveUp")
  <2>1. ans'[a] = [ans[a] EXCEPT ![k] = Told("gaveUp")] /\ \A b \in Agent : b # a => ans'[b] = ans[b]
    BY <1>2, <1>3
  <2>2. ans[a] \in Seq(Ending) /\ k \in Nat /\ Told("gaveUp") \in Ending
    BY <1>2, <1>3 DEF Ending
  <2>3. Len(ans'[a]) = Len(ans[a])
    BY <2>1, <2>2, ReplacedSeq
  <2>4. QED
    BY <1>2, <2>1, <2>3
<1>5. ASSUME NEW s \in Try, s[2] \in DOMAIN ans[s[1]]
      PROVE  /\ s[1] \in Agent /\ s[2] \in DOMAIN ans'[s[1]]
             /\ Ans(s)' = Ans(s) \/ (s[1] = a /\ Ans(s)'.told = "gaveUp")
  <2>1. s[1] \in Agent
    BY DEF Try
  <2>2. QED
    BY <1>4, <1>5, <2>1 DEF Ans, Told
<1>6. \A s : (Unanswered(s) => Unanswered(s)') /\ (Open(s) => Open(s)')
  BY <1>5 DEF Unanswered, Open
<1>7. HandlersServe' /\ MessagesServe' /\ OnePlace'
  BY <1>1, <1>6 DEF HandlersServe, MessagesServe, OnePlace, Stored
<1>8. DocsServed'
  BY <1>1, <1>5 DEF DocsServed, MayBeStored
<1>9. StoredOnce' /\ StoredThere'
  BY <1>1 DEF StoredOnce, StoredThere, Stored
<1>10. AnsweredLives' /\ LastWaits'
  BY <1>1, <1>4 DEF AnsweredLives, LastWaits, Told
<1>11. ~ Attentive(a)' /\ \A b \in Agent : b # a /\ Attentive(b)' => Attentive(b)
  BY <1>4 DEF Attentive, Told
<1>12. StoredLast'
  BY <1>1, <1>11 DEF StoredLast, Stored, HandlersServe, Open, Try
<1>13. OwnStand'
  <2> SUFFICES ASSUME NEW d \in Doc, docs[d] # Missing, NEW b \in Agent, docs[d].owner = b, Attentive(b)'
               PROVE  /\ ans'[docs[d].to[1]][docs[d].to[2]] = Printed(d)
                           \/ ans'[docs[d].to[1]][docs[d].to[2]].told = "waiting"
                      /\ \A m \in DOMAIN ans'[b] : m > docs[d].to[2] => ans'[b][m] # Printed(d)
    BY <1>1 DEF OwnStand, Ans, DocsServed, Try, Attentive
  <2>1. docs[d].to \in Try /\ b = docs[d].to[1]
    BY DEF DocsServed
  <2>2. b # a /\ Attentive(b) /\ ans'[b] = ans[b]
    BY <1>4, <1>11
  <2>3. QED
    BY <2>1, <2>2 DEF OwnStand, Ans
<1>14. QED
  BY <1>7, <1>8, <1>9, <1>10, <1>12, <1>13

\* What a step of the service is to the store: one of its steps, or none.
LEMMA StepIsStep ==
  ASSUME ServiceInv, [ServiceNext]_serviceVars
  PROVE  [Next]_vars
<1>1. ASSUME NEW req \in net, NEW i \in Handler, Receive(i, req) PROVE Invoke(i)
  <2>1. req.try \in Try /\ req.on \in On
    BY DEF ServiceInv, ServiceTypeOK, Request
  <2>2. PICK doc \in LinkDocs(req.on) :
          h' = [h EXCEPT ![i] =
                 [at |-> "read", ret |-> "none",
                  call |-> [op |-> "Put", doc |-> doc, agent |-> req.try[1], to |-> req.try]]]
    BY <1>1 DEF Receive
  <2> DEFINE call == [op |-> "Put", doc |-> doc, agent |-> req.try[1], to |-> req.try]
  <2>3. doc \in Ref /\ req.try[1] \in Agent /\ req.try \in Dest
    BY <2>1, LinkAssumption, TryAssumption DEF Try
  <2>4. call \in Call
    BY <2>3 DEF Call, Owner
  <2>5. h' = [h EXCEPT ![i] = [at |-> "read", call |-> call, ret |-> "none"]]
    BY <2>2
  <2> HIDE DEF call
  <2>6. At(i, "idle") /\ UNCHANGED docs
    BY <1>1 DEF Receive
  <2>7. QED
    BY <2>4, <2>5, <2>6 DEF Invoke
<1>2. ASSUME NEW i \in Handler, Respond(i) PROVE Progress(i)
  BY <1>2 DEF Respond, Progress
<1>3. ASSUME NEW i \in Handler, Puts(i) PROVE Progress(i) \/ Crash(i)
  BY <1>3 DEF Puts, Progress
<1>4. ASSUME NEW a \in Agent, Ask(a) \/ GiveUp(a) PROVE UNCHANGED vars
  BY <1>4 DEF Ask, GiveUp
<1>5. ASSUME NEW req \in net, Lose(req) \/ EnrichFails(req) PROVE UNCHANGED vars
  BY <1>5 DEF Lose, EnrichFails
<1>6. CASE UNCHANGED serviceVars
  BY <1>6 DEF serviceVars
<1>7. QED
  BY <1>1, <1>2, <1>3, <1>4, <1>5, <1>6 DEF ServiceNext, Next

\* Types are kept.
LEMMA ServiceTypes ==
  ASSUME ServiceInv, [ServiceNext]_serviceVars
  PROVE  ServiceTypeOK'
<1> USE DEF ServiceInv
<1>1. TypeOK'
  BY StepIsStep, NextType DEF ServiceTypeOK
<1>2. CASE net' \subseteq net /\ ans' = ans
  BY <1>1, <1>2 DEF ServiceTypeOK
<1>3. ASSUME NEW t \in Try, NEW e \in Ending, net' \subseteq net, ans' = Reply(t, e)
      PROVE  ServiceTypeOK'
  <2>1. ans' \in [Agent -> Seq(Ending)] /\ \A a \in Agent : Len(ans'[a]) = Len(ans[a])
    BY <1>3, ReplyFacts
  <2>2. QED
    BY <1>1, <1>3, <2>1 DEF ServiceTypeOK
<1>4. ASSUME NEW a \in Agent, Ask(a) PROVE ServiceTypeOK'
  <2>1. ans[a] \in Seq(Ending) /\ Told("waiting") \in Ending /\ Len(ans[a]) < MaxTries
    BY <1>4 DEF Ask, ServiceTypeOK, Ending
  <2>2. /\ Append(ans[a], Told("waiting")) \in Seq(Ending)
        /\ Len(Append(ans[a], Told("waiting"))) = Len(ans[a]) + 1
        /\ Len(ans[a]) + 1 \in 1 .. MaxTries
    BY <2>1, TryAssumption
  <2>3. ans' \in [Agent -> Seq(Ending)] /\ \A b \in Agent : Len(ans'[b]) <= MaxTries
    BY <1>4, <2>2 DEF Ask, ServiceTypeOK
  <2>4. net' \subseteq Request
    BY <1>4, <2>2 DEF Ask, ServiceTypeOK, Request, Try
  <2>5. QED
    BY <1>1, <2>3, <2>4 DEF ServiceTypeOK
<1>5. ASSUME NEW a \in Agent, GiveUp(a) PROVE ServiceTypeOK'
  <2>1. PICK k \in DOMAIN ans[a] : ans' = [ans EXCEPT ![a][k] = Told("gaveUp")]
    BY <1>5 DEF GiveUp
  <2>2. ans[a] \in Seq(Ending) /\ k \in Nat /\ Told("gaveUp") \in Ending
    BY <2>1 DEF ServiceTypeOK, Ending
  <2>3. /\ [ans[a] EXCEPT ![k] = Told("gaveUp")] \in Seq(Ending)
        /\ Len([ans[a] EXCEPT ![k] = Told("gaveUp")]) = Len(ans[a])
    BY <2>2, ReplacedSeq
  <2>4. ans' \in [Agent -> Seq(Ending)] /\ \A b \in Agent : Len(ans'[b]) <= MaxTries
    BY <2>1, <2>3 DEF ServiceTypeOK
  <2>5. net' = net
    BY <1>5 DEF GiveUp
  <2>6. QED
    BY <1>1, <2>4, <2>5 DEF ServiceTypeOK
<1>6. ASSUME NEW req \in net, Lose(req) PROVE ServiceTypeOK'
  BY <1>2, <1>6 DEF Lose
<1>7. ASSUME NEW req \in net, EnrichFails(req) PROVE ServiceTypeOK'
  <2>1. req.try \in Try /\ Told("Internal") \in Ending
    BY DEF ServiceTypeOK, Request, Ending
  <2>2. QED
    BY <1>3, <1>7, <2>1 DEF EnrichFails
<1>8. ASSUME NEW req \in net, NEW i \in Handler, Receive(i, req) PROVE ServiceTypeOK'
  BY <1>2, <1>8 DEF Receive
<1>9. ASSUME NEW i \in Handler, Respond(i) PROVE ServiceTypeOK'
  <2>1. h[i].call.to \in Try /\ (h[i].ret = "nil" => h[i].call.doc \in Doc)
    BY <1>9 DEF Respond, Return, HandlersServe, Open, Stored, Serves, At
  <2>2. Answer(h[i].ret, h[i].call.doc) \in Ending
    BY <2>1, AnswerType
  <2>3. QED
    BY <1>3, <1>9, <2>1, <2>2 DEF Respond
<1>10. ASSUME NEW i \in Handler, Puts(i) PROVE ServiceTypeOK'
  BY <1>2, <1>10 DEF Puts, clients
<1>11. CASE UNCHANGED serviceVars
  BY <1>2, <1>11 DEF serviceVars, clients
<1>12. QED
  BY <1>4, <1>5, <1>6, <1>7, <1>8, <1>9, <1>10, <1>11 DEF ServiceNext

\* The steps of Put.
LEMMA PutsKeep ==
  ASSUME ServiceInv, ServiceTypeOK', NEW i \in Handler, Puts(i)
  PROVE  ServiceInv'
<1>1. UNCHANGED clients
  BY DEF Puts
<1>2. h \in [Handler -> Busy \cup {Idle}]
  BY DEF ServiceInv, ServiceTypeOK, TypeOK
<1>3. ASSUME NEW r, h[i].at # "idle", Answers(i, r), docs' = docs,
             r = "nil" => h[i].at = "stored",
             h[i].at = "stored" => r \in {"nil", "SetError"},
             h[i].at \in {"read", "stored"}
      PROVE  ServiceInv'
  <2>1. /\ h'[i].at = "done" /\ h'[i].ret = r /\ h'[i].call = h[i].call
        /\ \A j \in Handler : j # i => h'[j] = h[j]
    BY <1>2, <1>3 DEF Answers, Busy, Idle
  <2>2. (Stored(i)' => Stored(i)) /\ (MayBeStored(i) => MayBeStored(i)')
    BY <1>3, <2>1 DEF Stored, MayBeStored, At
  <2>3. /\ ~ At(i, "idle") /\ ~ At(i, "idle")' /\ UNCHANGED <<docs, clients>>
        /\ ~ At(i, "orphan") /\ ~ At(i, "late")'
    BY <1>1, <1>3, <2>1 DEF At
  <2>4. QED
    BY <2>1, <2>2, <2>3, MoveKeeps
<1>4. ASSUME h[i].at \in {"read", "set", "late"}, h'[i].at \in {"set", "late", "orphan", "done"},
             h'[i].call = h[i].call, \A j \in Handler : j # i => h'[j] = h[j], docs' = docs,
             h'[i].at = "done" => h'[i].ret # "nil", h'[i].at = "late" => h'[i].ret = "SetError"
      PROVE  ServiceInv'
  <2>2. (Stored(i)' => Stored(i)) /\ (MayBeStored(i) => MayBeStored(i)')
    BY <1>4 DEF Stored, MayBeStored, At
  <2>3. /\ ~ At(i, "idle") /\ ~ At(i, "idle")' /\ UNCHANGED <<docs, clients>>
        /\ ~ At(i, "orphan") /\ (At(i, "late")' => h'[i].ret = "SetError")
    BY <1>1, <1>4 DEF At
  <2>4. QED
    BY <1>4, <2>2, <2>3, MoveKeeps
<1>5. ASSUME h' = [h EXCEPT ![i] = Idle], docs' = docs PROVE ServiceInv'
  <2>1. At(i, "idle")' /\ \A j \in Handler : j # i => h'[j] = h[j]
    BY <1>2, <1>5 DEF Idle, At
  <2>2. QED
    BY <1>1, <1>5, <2>1, DropKeeps
<1>6. CASE ReadFails(i)
  <2>1. h[i].at = "read" /\ docs' = docs
    BY <1>6 DEF ReadFails, Reads, At
  <2>2. h[i].call.op = "Put"
    BY <2>1 DEF ServiceInv, HandlersServe, At
  <2>3. Answers(i, "ErrFailed")
    BY <1>6, <2>2 DEF ReadFails, Reads
  <2>4. QED
    BY <1>3, <2>1, <2>3
<1>7. CASE PutReads(i)
  <2>1. h[i].at = "read" /\ docs' = docs
    BY <1>7 DEF PutReads, Reads, At
  <2>2. CASE Goes(i, "set")
    <3>1. h'[i].at = "set" /\ h'[i].call = h[i].call /\ \A j \in Handler : j # i => h'[j] = h[j]
      BY <1>2, <2>1, <2>2 DEF Goes, Busy, Idle
    <3>2. QED
      BY <1>4, <2>1, <3>1
  <2>3. CASE Answers(i, "ErrUnauthorized")
    BY <1>3, <2>1, <2>3
  <2>4. QED
    BY <1>7, <2>2, <2>3 DEF PutReads
<1>8. CASE SetTakesEffect(i)
  BY <1>1, <1>8, SetKeeps
<1>9. CASE SetAnswers(i) \/ SetFails(i)
  <2>1. docs' = docs
    BY <1>9 DEF SetAnswers, SetFails
  <2>2. CASE h[i].at = "stored" /\ (Answers(i, "nil") \/ Answers(i, "SetError"))
    BY <1>3, <2>1, <2>2
  <2>3. CASE h[i].at = "set" /\ h' = [h EXCEPT ![i].at = "late", ![i].ret = "SetError"]
    <3>1. /\ h'[i].at = "late" /\ h'[i].ret = "SetError" /\ h'[i].call = h[i].call
          /\ \A j \in Handler : j # i => h'[j] = h[j]
      BY <1>2, <2>3 DEF Busy, Idle
    <3>2. QED
      BY <1>4, <2>1, <2>3, <3>1
  <2>4. QED
    BY <1>9, <2>2, <2>3 DEF SetAnswers, SetFails, At
<1>10. CASE SetLost(i)
  <2>1. CASE h[i].at = "late" /\ Goes(i, "done")
    <3>1. h[i] \in Busy /\ h[i].ret = "SetError"
      BY <1>2, <2>1 DEF Idle, ServiceInv, HandlersServe, At
    <3>2. /\ h'[i].at = "done" /\ h'[i].ret = "SetError" /\ h'[i].call = h[i].call
          /\ \A j \in Handler : j # i => h'[j] = h[j]
      BY <1>2, <2>1, <3>1 DEF Goes, Busy
    <3>3. docs' = docs
      BY <1>10 DEF SetLost
    <3>4. QED
      BY <1>4, <2>1, <3>2, <3>3
  <2>2. QED
    BY <1>5, <1>10, <2>1 DEF SetLost, At
<1>11. CASE Crash(i)
  <2>1. CASE OnItsWay(i)
    <3>1. /\ h[i].at \in {"set", "late"} /\ h'[i].at = "orphan" /\ h'[i].call = h[i].call
          /\ \A j \in Handler : j # i => h'[j] = h[j]
      BY <1>2, <1>11, <2>1 DEF Crash, Leaves, OnItsWay, At, Busy, Idle
    <3>2. docs' = docs
      BY <1>11 DEF Crash
    <3>3. QED
      BY <1>4, <3>1, <3>2
  <2>2. CASE ~ OnItsWay(i)
    BY <1>5, <1>11, <2>2 DEF Crash, Leaves
  <2>3. QED
    BY <2>1, <2>2
<1>12. QED
  BY <1>6, <1>7, <1>8, <1>9, <1>10, <1>11 DEF Puts

\* The answer of a handler.
LEMMA RespondKeeps ==
  ASSUME ServiceInv, ServiceTypeOK', NEW i \in Handler, Respond(i)
  PROVE  ServiceInv'
<1> USE DEF ServiceInv, At, Serves
<1> DEFINE t == h[i].call.to
           d == h[i].call.doc
           e == Answer(h[i].ret, d)
<1>1. h[i].at \in {"done", "late"} /\ UNCHANGED docs /\ net' = net /\ ans' = Reply(t, e) /\ Leaves(i)
  BY DEF Respond, Return
<1>2. Unanswered(t) /\ t \in Try
  BY <1>1 DEF HandlersServe, Unanswered
<1>3. /\ e \in Ending /\ e.told \in {"link", "PermissionDenied", "Internal"}
      /\ e.told = "link" => h[i].ret = "nil" /\ e = Printed(d)
      /\ e.told = "PermissionDenied" => h[i].ret = "ErrUnauthorized"
      /\ h[i].at = "late" => h[i].ret = "SetError" /\ e.told = "Internal"
  <2>1. h[i].ret = "nil" => d \in Doc
    BY <1>1 DEF HandlersServe, Stored
  <2>2. h[i].at = "late" => h[i].ret = "SetError"
    BY DEF HandlersServe
  <2>3. h[i].ret = "SetError" => e.told = "Internal"
    BY DEF Answer, Told
  <2>4. QED
    BY <2>1, <2>2, <2>3, AnswerType
<1>4. \A r \in net' : r.try # t
  BY <1>1 DEF OnePlace
<1>5. \A j \in Handler : h'[j].at # "idle" =>
        \/ h'[j] = h[j] /\ Serves(j) # t
        \/ Abandons(j) /\ Serves(j) = t /\ e.told = "Internal"
  <2>1. h \in [Handler -> Busy \cup {Idle}] /\ h[i] \in Busy
    BY <1>1, BusyFacts DEF ServiceTypeOK, TypeOK
  <2>2. \A j \in Handler : j # i => h'[j] = h[j]
    BY <1>1, <2>1 DEF Leaves
  <2>3. \A j \in Handler : j # i /\ h[j].at # "idle" => Serves(j) # t
    BY <1>1 DEF OnePlace
  <2>4. CASE h[i].at = "done"
    <3>1. h'[i].at = "idle"
      BY <1>1, <2>1, <2>4 DEF Leaves, OnItsWay, Idle
    <3>2. QED
      BY <2>2, <2>3, <3>1
  <2>5. CASE h[i].at = "late"
    <3>1. h'[i].at = "orphan" /\ h'[i].call = h[i].call
      BY <1>1, <2>1, <2>5 DEF Leaves, OnItsWay, Busy
    <3>2. Abandons(i) /\ Serves(i) = t /\ e.told = "Internal"
      BY <1>3, <2>5, <3>1 DEF Abandons
    <3>3. QED
      BY <2>2, <2>3, <3>2
  <2>6. QED
    BY <1>1, <2>4, <2>5
<1>6. e.told = "link" => Stored(i) /\ Serves(i) = t /\ e = Printed(h[i].call.doc)
  BY <1>1, <1>3 DEF Stored
<1>7. e.told = "PermissionDenied" => \A f \in Doc : docs[f] # Missing => docs[f].to # t
  BY <1>1, <1>3 DEF DocsServed, MayBeStored
<1> HIDE DEF t, e, d
<1>8. QED
  BY <1>1, <1>2, <1>3, <1>4, <1>5, <1>6, <1>7, EndKeeps

\* No identifier could be made for a request.
LEMMA EnrichFailsKeeps ==
  ASSUME ServiceInv, ServiceTypeOK', NEW req \in net, EnrichFails(req)
  PROVE  ServiceInv'
<1> USE DEF ServiceInv, At, Serves
<1> DEFINE t == req.try
           e == Told("Internal")
<1>1. net' = net \ {req} /\ UNCHANGED <<docs, h>> /\ ans' = Reply(t, e)
  BY DEF EnrichFails, vars
<1>2. Unanswered(t) /\ t \in Try
  BY DEF MessagesServe, Unanswered
<1>3. e \in Ending /\ e.told = "Internal"
  BY DEF Ending, Told
<1>4. \A r \in net' : r.try # t
  BY <1>1 DEF OnePlace
<1>5. \A j \in Handler : h'[j].at # "idle" => h'[j] = h[j] /\ Serves(j) # t
  BY <1>1 DEF OnePlace
<1> HIDE DEF t, e
<1>6. QED
  BY <1>1, <1>2, <1>3, <1>4, <1>5, EndKeeps

LEMMA ServiceInitInv == ServiceInit => ServiceInv
<1> SUFFICES ASSUME ServiceInit PROVE ServiceInv
  OBVIOUS
<1>1. TypeOK
  BY InitType DEF ServiceInit
<1>2. net = {} /\ ans = [a \in Agent |-> << >>]
  BY DEF ServiceInit
<1>3. ServiceTypeOK /\ LastWaits /\ AnsweredLives
  BY <1>1, <1>2, TryAssumption DEF ServiceTypeOK, LastWaits, AnsweredLives
<1>4. (\A d \in Doc : docs[d] = Missing) /\ \A i \in Handler : h[i].at = "idle"
  BY DEF ServiceInit, Init, Idle
<1>5. HandlersServe /\ MessagesServe /\ OnePlace /\ StoredThere /\ StoredLast
  BY <1>2, <1>4 DEF HandlersServe, MessagesServe, OnePlace, StoredThere, StoredLast, Stored, At
<1>6. DocsServed /\ StoredOnce /\ OwnStand
  BY <1>4 DEF DocsServed, StoredOnce, OwnStand
<1>7. QED
  BY <1>3, <1>5, <1>6 DEF ServiceInv

LEMMA ServiceNextInv == ServiceInv /\ [ServiceNext]_serviceVars => ServiceInv'
<1> SUFFICES ASSUME ServiceInv, [ServiceNext]_serviceVars PROVE ServiceInv'
  OBVIOUS
<1>1. ServiceTypeOK'
  BY ServiceTypes
<1>2. ASSUME NEW a \in Agent, Ask(a) \/ GiveUp(a) PROVE ServiceInv'
  BY <1>1, <1>2, AskKeeps, GiveUpKeeps
<1>3. ASSUME NEW req \in net, Lose(req) \/ EnrichFails(req) PROVE ServiceInv'
  BY <1>1, <1>3, LoseKeeps, EnrichFailsKeeps
<1>4. ASSUME NEW req \in net, NEW i \in Handler, Receive(i, req) PROVE ServiceInv'
  BY <1>1, <1>4, ReceiveKeeps
<1>5. ASSUME NEW i \in Handler, Respond(i) \/ Puts(i) PROVE ServiceInv'
  BY <1>1, <1>5, RespondKeeps, PutsKeep
<1>6. CASE UNCHANGED serviceVars
  <2>1. UNCHANGED <<docs, h, net, ans>>
    BY <1>6 DEF serviceVars, vars, clients
  <2>2. MessagesServe' /\ OnePlace' /\ DocsServed'
    BY <2>1 DEF ServiceInv, MessagesServe, OnePlace, DocsServed, MayBeStored,
                Unanswered, Ans, At, Serves
  <2>3. StoredOnce' /\ StoredThere' /\ AnsweredLives' /\ LastWaits' /\ StoredLast' /\ OwnStand'
    BY <2>1 DEF ServiceInv, StoredOnce, StoredThere, AnsweredLives, LastWaits, StoredLast, OwnStand,
                Stored, Attentive, Ans, At, Serves
  <2>4. HandlersServe'
    <3>1. /\ \A t : (Open(t) <=> Open(t)') /\ (Unanswered(t) <=> Unanswered(t)')
          /\ \A i \in Handler : Stored(i)' <=> Stored(i)
      BY <2>1 DEF Open, Unanswered, Ans, Stored, At
    <3>2. QED
      BY <2>1, <3>1 DEF ServiceInv, HandlersServe, At, Serves, Ref
  <2>5. QED
    BY <1>1, <2>2, <2>3, <2>4 DEF ServiceInv
<1>7. QED
  BY <1>2, <1>3, <1>4, <1>5, <1>6 DEF ServiceNext

LEMMA ServiceInvariant == ServiceSpec => []ServiceInv
BY ServiceInitInv, ServiceNextInv, PTL DEF ServiceSpec

\* Types of the service.
THEOREM ServiceTypeCorrect == ServiceSpec => []ServiceTypeOK
BY ServiceInvariant, PTL DEF ServiceInv

\* The service implements its store: every step of clients, messages and handlers is a
\* step of the handlers of Firestore, or none (url.go:94, cli/main.go:167-174).
THEOREM ServiceImplementsStore == ServiceSpec => ImplementsStore
<1>1. ServiceInit => Init
  BY DEF ServiceInit
<1>2. ServiceInv /\ [ServiceNext]_serviceVars => [Next]_vars
  BY StepIsStep
<1>3. QED
  BY <1>1, <1>2, ServiceInvariant, PTL DEF ServiceSpec, ImplementsStore, Spec

\* What is proved of the store holds of the service: users that retry, give up and are
\* answered late take no settled document from its owner (firestore.go:66-82).
THEOREM ServiceSettles == ServiceSpec => OwnerSettles
BY ServiceImplementsStore, SettledForGood, PTL DEF ImplementsStore

\* The document of a link that `@` has printed exists, for good.
THEOREM PrintedLives == ServiceSpec => []AnsweredLives
BY ServiceInvariant, PTL DEF ServiceInv

\* A document is what its owner asked for, in a try that was not refused.
THEOREM DocsAsked == ServiceSpec => []OnlyAsked
<1>1. ServiceInv => OnlyAsked
  BY DEF ServiceInv, DocsServed, OnlyAsked, Ans
<1>2. QED
  BY <1>1, ServiceInvariant, PTL

\* A try makes one link at most.
THEOREM TriesStoreOnce == ServiceSpec => []StoredOnce
BY ServiceInvariant, PTL DEF ServiceInv

\* A user that never gave up and was always told what became of a run finds its documents
\* as its last run about each has left them.
THEOREM OwnWritesLast == ServiceSpec => []OwnWritesStand
<1>1. ASSUME ServiceInv PROVE OwnWritesStand
  <2> SUFFICES ASSUME NEW a \in Agent, Orderly(a), NEW d \in Doc, docs[d] # Missing, docs[d].owner = a
               PROVE  \E n \in DOMAIN ans[a] :
                        /\ docs[d].to = <<a, n>>
                        /\ ans[a][n] = Printed(d)
                        /\ \A m \in DOMAIN ans[a] : m > n => ans[a][m] # Printed(d)
    BY DEF OwnWritesStand
  <2>1. /\ docs[d].to \in Try /\ docs[d].to[1] = a
        /\ docs[d].to[2] \in DOMAIN ans[a]
    BY <1>1 DEF ServiceInv, DocsServed
  <2>2. docs[d].to = <<a, docs[d].to[2]>>
    BY <2>1 DEF Try
  <2>3. Attentive(a)
    BY DEF Orderly, Attentive
  <2>4. /\ ans[a][docs[d].to[2]] = Printed(d) \/ ans[a][docs[d].to[2]].told = "waiting"
        /\ \A m \in DOMAIN ans[a] : m > docs[d].to[2] => ans[a][m] # Printed(d)
    BY <1>1, <2>1, <2>3 DEF ServiceInv, OwnStand, Ans
  <2>5. ans[a][docs[d].to[2]] = Printed(d)
    BY <2>1, <2>4 DEF Orderly
  <2>6. QED
    BY <2>1, <2>2, <2>4, <2>5
<1>2. QED
  BY <1>1, ServiceInvariant, PTL

Ordinary(segment) == segment \notin {<< >>, <<".">>, <<".", ".">>}

\* path.Join only adds what is ordinary.
LEMMA ThenAdds ==
  ASSUME NEW S, NEW done \in Seq(S), NEW segment \in S, Ordinary(segment)
  PROVE  /\ Then(done, segment) \in Seq(S)
         /\ Len(Then(done, segment)) = Len(done) + 1
         /\ Then(done, segment)[Len(done) + 1] = segment
<1>1. Then(done, segment) = Append(done, segment)
  BY DEF Then, Ordinary
<1>2. QED
  BY <1>1

LEMMA ThenKeeps ==
  ASSUME NEW S, NEW done \in Seq(S), NEW segment \in S, Ordinary(segment), NEW k \in 1 .. Len(done)
  PROVE  Then(done, segment)[k] = done[k]
<1>1. Then(done, segment) = Append(done, segment)
  BY DEF Then, Ordinary
<1>2. QED
  BY <1>1

\* What a URL may have after its host.
Rooted(path) == path # << >> => path[1] = "/"

\* Two links of URLs, whose hosts are not empty, . or .., have one document only if they are
\* one, when no path has a + in it: the paths of URLs with a host, as `@` sends them, are empty
\* or begin with /, so that path.Join has nothing to clean, and urlToPath changes no character
\* but the / (firestore.go:129-138).
THEOREM PathsApart ==
  ASSUME NEW Char, "+" \notin Char,
         NEW host \in Seq(Char), NEW path \in Seq(Char), Ordinary(host), Rooted(path),
         NEW host2 \in Seq(Char), NEW path2 \in Seq(Char), Ordinary(host2), Rooted(path2),
         DocOf(host, path) = DocOf(host2, path2)
  PROVE  host = host2 /\ path = path2 /\ DocOf(host, path) = Segments(host, path)
<1>1. ASSUME NEW g \in Seq(Char), NEW p \in Seq(Char), Ordinary(g), Rooted(p)
      PROVE  /\ p = << >> => Len(Segments(g, p)) = 2
             /\ p # << >> => Len(Segments(g, p)) = 4 /\ Segments(g, p)[4] = Plus(p)
             /\ Segments(g, p)[2] = g
             /\ DocOf(g, p) = Segments(g, p)
  <2> DEFINE S == {<<"links">>, <<"id">>, g, Plus(p)}
             one == Then(<< <<"links">> >>, g)
             two == Then(one, <<"id">>)
  <2>1. one \in Seq(S) /\ Len(one) = 2 /\ one[2] = g
    <3>1. PICK links : links = << <<"links">> >>
      OBVIOUS
    <3>2. links \in Seq(S) /\ Len(links) = 1
      BY <3>1
    <3>3. one = Then(links, g) /\ g \in S
      BY <3>1
    <3> HIDE DEF one, S
    <3>4. one \in Seq(S) /\ Len(one) = Len(links) + 1 /\ one[Len(links) + 1] = g
      BY <1>1, <3>2, <3>3, ThenAdds
    <3>5. QED
      BY <3>2, <3>4
  <2>2. two \in Seq(S) /\ Len(two) = 3 /\ two[2] = g
    <3>1. PICK id \in S : id = <<"id">> /\ Ordinary(id)
      BY DEF Ordinary
    <3>2. two = Then(one, id)
      BY <3>1
    <3> HIDE DEF one, two, S
    <3>3. two \in Seq(S) /\ Len(two) = Len(one) + 1
      BY <2>1, <3>1, <3>2, ThenAdds
    <3>4. two[2] = one[2]
      <4>1. 2 \in 1 .. Len(one)
        BY <2>1
      <4>2. QED
        BY <2>1, <3>1, <3>2, <4>1, ThenKeeps
    <3>5. QED
      BY <2>1, <3>3, <3>4
  <2>3. ASSUME p # << >>
        PROVE  Len(Segments(g, p)) = 4 /\ Segments(g, p)[4] = Plus(p) /\ Segments(g, p)[2] = g
    <3>1. 1 \in DOMAIN p /\ p[1] = "/"
      BY <1>1, <2>3 DEF Rooted
    <3>2. 1 \in DOMAIN Plus(p) /\ Plus(p)[1] = "+"
      BY <3>1 DEF Plus
    <3>3. PICK last \in S : last = Plus(p) /\ Ordinary(last)
      BY <3>2 DEF Ordinary
    <3> DEFINE whole == Then(two, last)
    <3>4. Segments(g, p) = whole
      BY <2>3, <3>3 DEF Segments
    <3> HIDE DEF two, S
    <3>5. Len(whole) = Len(two) + 1 /\ whole[Len(two) + 1] = last
      BY <2>2, <3>3, ThenAdds
    <3>6. whole[2] = two[2]
      <4>1. 2 \in 1 .. Len(two)
        BY <2>2
      <4>2. QED
        BY <2>2, <3>3, <4>1, ThenKeeps
    <3> HIDE DEF whole
    <3>7. Len(whole) = 4 /\ whole[4] = Plus(p) /\ whole[2] = g
      BY <2>2, <3>3, <3>5, <3>6
    <3>8. QED
      BY <3>4, <3>7
  <2>4. ASSUME p = << >> PROVE Segments(g, p) = one
    BY <2>4 DEF Segments
  <2> HIDE DEF one, two, S
  <2>5. Len(Segments(g, p)) \in {2, 4}
    BY <2>1, <2>3, <2>4
  <2>6. QED
    BY <2>1, <2>3, <2>4, <2>5 DEF DocOf
<1>2. DocOf(host, path) = Segments(host, path) /\ Segments(host, path) = Segments(host2, path2)
  BY <1>1
<1>3. host = host2 /\ (path = << >> <=> path2 = << >>) /\ (path # << >> => Plus(path) = Plus(path2))
  <2> DEFINE one == Segments(host, path)
             two == Segments(host2, path2)
  <2>1. one = two /\ one[2] = host /\ two[2] = host2
    BY <1>1, <1>2
  <2>2. /\ path = << >> => Len(one) = 2
        /\ path # << >> => Len(one) = 4 /\ one[4] = Plus(path)
        /\ path2 = << >> => Len(two) = 2
        /\ path2 # << >> => Len(two) = 4 /\ two[4] = Plus(path2)
    BY <1>1
  <2> HIDE DEF one, two
  <2>3. QED
    BY <2>1, <2>2
<1>4. CASE path # << >>
  <2>1. DOMAIN path = DOMAIN path2
    BY <1>3, <1>4 DEF Plus
  <2>2. \A k \in DOMAIN path : path[k] = path2[k]
    <3> SUFFICES ASSUME NEW k \in DOMAIN path PROVE path[k] = path2[k]
      OBVIOUS
    <3>1. path[k] \in Char /\ path2[k] \in Char
      BY <2>1
    <3>2. Plus(path)[k] = Plus(path2)[k] /\ k \in DOMAIN path2
      BY <1>3, <1>4, <2>1
    <3>3. QED
      BY <3>1, <3>2 DEF Plus
  <2>3. QED
    BY <1>2, <1>3, <2>1, <2>2
<1>5. QED
  BY <1>2, <1>3, <1>4
=============================================================================
