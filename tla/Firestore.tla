----------------------------- MODULE Firestore -----------------------------
(***************************************************************************)
(* src/storage/firestore/firestore.go, the store of the production          *)
(* deployment (deploy/prod/cr/service.yaml: up to 3 instances of 1000       *)
(* concurrent requests each).  Get, Put and Owns run in any number of       *)
(* request handlers over the same documents.  Put reads the document, then  *)
(* sets it: two calls to the database with nothing between them to exclude  *)
(* another handler.  A call may fail; a set that fails may have taken       *)
(* effect, or take it when Put has long returned; an instance that is       *)
(* killed loses its handlers, while a set it has sent may still arrive.     *)
(***************************************************************************)
CONSTANTS Handler,    \* requests in progress, over all instances
          Agent,      \* the subjects of the tokens (storage.CtxKeyAgent)
          Anonymous,  \* no agent in the context: the owner ""
          Doc,        \* the documents, by path
          NilDoc,     \* a path Client.Doc answers nil for (an empty host)
          Scheme,     \* of the URLs by which links are asked for; "" for none
          Dest,
          ResolveReference(_, _), \* net/url: a destination, seen from a URL of a scheme
          Missing     \* the document does not exist

ASSUME AgentAssumption == Anonymous \notin Agent
ASSUME DocAssumption == NilDoc \notin Doc
ASSUME ResolveAssumption ==
  \A scheme \in Scheme, to \in Dest : ResolveReference(scheme, to) \in Dest
ASSUME MissingAssumption == Missing \notin Dest \cup [to : Dest, owner : Agent \cup {Anonymous}]

VARIABLES docs,  \* the collection "links"
          h      \* the handlers

vars == <<docs, h>>

Owner == Agent \cup {Anonymous}

Document == [to : Dest, owner : Owner]

Ref == Doc \cup {NilDoc}

\* What a call returns: nil, true and false, one of the errors, or a destination.
Error == {"ErrNotFound", "ErrFailed", "ErrUnauthorized", "ErrCorrupt", "SetError"}

Result == {"none", "nil", "true", "false"} \cup Error \cup Dest

Call ==
  [op : {"Get"}, doc : Ref, scheme : Scheme] \cup
  [op : {"Owns"}, doc : Ref, agent : Owner] \cup
  [op : {"Put"}, doc : Ref, agent : Owner, to : Dest]

\* "read": before the read of the document; "set": the set is on its way; "stored": it
\* has taken effect and its answer is on its way; "late": it is on its way and its call has
\* failed; "orphan": it is on its way and its handler is gone; "done": the call has its
\* result, and nothing else is to come of it.
Idle == [at |-> "idle"]

Busy == [at : {"read", "set", "stored", "late", "orphan", "done"}, call : Call, ret : Result]

Init ==
  /\ docs = [d \in Doc |-> Missing]
  /\ h = [i \in Handler |-> Idle]

At(i, step) == h[i].at = step

Goes(i, step) == h' = [h EXCEPT ![i].at = step]

Answers(i, result) == h' = [h EXCEPT ![i].at = "done", ![i].ret = result]

-----------------------------------------------------------------------------
Invoke(i) ==
  /\ At(i, "idle")
  /\ \E call \in Call : h' = [h EXCEPT ![i] = [at |-> "read", call |-> call, ret |-> "none"]]
  /\ UNCHANGED docs

Reads(i, op) == At(i, "read") /\ h[i].call.op = op

\* A Put whose read cannot be given up.
MutReadFails(i) ==
  /\ \/ Reads(i, "Get") /\ Answers(i, "ErrFailed")
     \/ Reads(i, "Owns") /\ Answers(i, "false")
  /\ UNCHANGED docs

\* fs.doc: any read may fail, by its 30 s timeout or an error of the database; the
\* read of a nil reference always does.
ReadFails(i) ==
  /\ \/ Reads(i, "Get") /\ Answers(i, "ErrFailed")
     \/ Reads(i, "Put") /\ Answers(i, "ErrFailed")
     \/ Reads(i, "Owns") /\ Answers(i, "false")
  /\ UNCHANGED docs

Exists(i) == h[i].call.doc \in Doc /\ docs[h[i].call.doc] # Missing

Absent(i) == h[i].call.doc \in Doc /\ docs[h[i].call.doc] = Missing

Found(i) == docs[h[i].call.doc]

\* What is stored is a reference to the URL that was asked for (firestore.go:45: url.Parse is
\* the method of the parameter url), unless it is none at all, which Put does not write.
GetReads(i) ==
  /\ Reads(i, "Get")
  /\ \/ Exists(i) /\ Answers(i, ResolveReference(h[i].call.scheme, Found(i).to))
     \/ Exists(i) /\ Answers(i, "ErrCorrupt")
     \/ Absent(i) /\ Answers(i, "ErrNotFound")
  /\ UNCHANGED docs

\* An anonymous caller owns nothing, and no document is read for it.
OwnsReads(i) ==
  /\ Reads(i, "Owns")
  /\ \/ h[i].call.agent = Anonymous /\ Answers(i, "false")
     \/ /\ h[i].call.agent # Anonymous
        /\ \/ Exists(i) /\ Answers(i, IF Found(i).owner = h[i].call.agent THEN "true" ELSE "false")
           \/ Absent(i) /\ Answers(i, "false")
  /\ UNCHANGED docs

\* A check that takes every document without an owner for a free one.
MutMayPut(i) ==
  Absent(i) \/ (Exists(i) /\ Found(i).owner \in {h[i].call.agent, Anonymous})

\* A check that takes a reference it cannot read for a missing document.
MutMayPutUnread(i) == Exists(i) => Found(i).owner = h[i].call.agent

\* firestore.go:70-76: the document does not exist, or is the caller's.
MayPut(i) == Absent(i) \/ (Exists(i) /\ Found(i).owner = h[i].call.agent)

PutReads(i) ==
  /\ Reads(i, "Put")
  /\ \/ MayPut(i) /\ Goes(i, "set")
     \/ Exists(i) /\ ~ MayPut(i) /\ Answers(i, "ErrUnauthorized")
  /\ UNCHANGED docs

\* The document as the set writes it, the owner included.
Written(i) == [to |-> h[i].call.to, owner |-> h[i].call.agent]

OnItsWay(i) == h[i].at \in {"set", "late", "orphan"}

\* The set takes effect in the database.
SetTakesEffect(i) ==
  /\ OnItsWay(i)
  /\ docs' = [docs EXCEPT ![h[i].call.doc] = Written(i)]
  /\ \/ At(i, "set") /\ Goes(i, "stored")
     \/ At(i, "late") /\ Goes(i, "done")
     \/ At(i, "orphan") /\ h' = [h EXCEPT ![i] = Idle]

SetAnswers(i) ==
  /\ At(i, "stored")
  /\ Answers(i, "nil")
  /\ UNCHANGED docs

\* An error of the set says nothing of whether it took effect, or will: its context is
\* nobody's (firestore.go:79), and what was sent is not called back.
SetFails(i) ==
  /\ \/ At(i, "stored") /\ Answers(i, "SetError")
     \/ At(i, "set") /\ h' = [h EXCEPT ![i].at = "late", ![i].ret = "SetError"]
  /\ UNCHANGED docs

\* The handler is gone, and leaves behind a set that is on its way.
Leaves(i) ==
  IF OnItsWay(i)
  THEN h' = [h EXCEPT ![i].at = "orphan", ![i].ret = "none"] ELSE h' = [h EXCEPT ![i] = Idle]

Return(i) ==
  /\ At(i, "done") \/ At(i, "late")
  /\ Leaves(i)
  /\ UNCHANGED docs

\* The instance is killed.  A set on its way survives it.
Crash(i) ==
  /\ ~ At(i, "idle")
  /\ ~ At(i, "orphan")
  /\ Leaves(i)
  /\ UNCHANGED docs

\* A set that was given up on, or whose handler is gone, never arrives.
SetLost(i) ==
  /\ \/ At(i, "late") /\ Goes(i, "done")
     \/ At(i, "orphan") /\ h' = [h EXCEPT ![i] = Idle]
  /\ UNCHANGED docs

Progress(i) ==
  \/ ReadFails(i)
  \/ GetReads(i)
  \/ OwnsReads(i)
  \/ PutReads(i)
  \/ SetTakesEffect(i)
  \/ SetAnswers(i)
  \/ SetFails(i)
  \/ Return(i)
  \/ SetLost(i)

Next == \E i \in Handler : Invoke(i) \/ Progress(i) \/ Crash(i)

Spec == Init /\ [][Next]_vars

\* Every call ends: fs.doc has a timeout, the client library gives up on a set, and a
\* message is delivered or lost.
FairSpec == Spec /\ \A i \in Handler : WF_vars(Progress(i))

-----------------------------------------------------------------------------
\* The variables hold values of their types, and only a Put of a real document has a
\* set on its way.
TypeOK ==
  /\ docs \in [Doc -> Document \cup {Missing}]
  /\ h \in [Handler -> Busy \cup {Idle}]
  /\ \A i \in Handler : OnItsWay(i) \/ At(i, "stored") =>
       h[i].call.op = "Put" /\ h[i].call.doc \in Doc

\* The sets on their way to d.
Writing(d) == {i \in Handler : OnItsWay(i) /\ h[i].call.doc = d}

\* d exists, and nobody but its owner is about to write it.
Settled(d) == docs[d] # Missing /\ \A i \in Writing(d) : h[i].call.agent = docs[d].owner

\* The ownership check of Put (firestore.go:74-76) works once the writers that read the
\* document before its owner's Put are gone: from then on d keeps its owner, and no
\* Put of anybody else gets past the check, whatever fails, is killed or arrives late.
OwnerSettles ==
  [][\A d \in Doc : Settled(d) => Settled(d)' /\ docs'[d].owner = docs[d].owner]_vars

\* A document never changes hands: an attempt to "update the record as the thief" is an
\* ErrUnauthorized (storage_external_test.go:175-180).
KeepsOwner ==
  [][\A d \in Doc : docs[d] # Missing => docs'[d].owner = docs[d].owner]_vars

\* A call ends, with a result or with the instance that ran it.
CallsEnd == \A i \in Handler : At(i, "read") ~> At(i, "idle")
=============================================================================
