---------------------------- MODULE LinkService ----------------------------
(***************************************************************************)
(* The way of a new link: a run of `@` (src/cli/main.go) asks the API for   *)
(* it, New (src/api/dev/url.go) fills in what is missing and Puts it in the *)
(* Firestore store, whose steps are those of module Firestore.  A run gives *)
(* up after ten seconds, by its deadline or an error of the connection, and *)
(* so learns nothing of what becomes of its request, which may be lost,     *)
(* arrive late, or be served to its end: the store works with contexts of   *)
(* its own.  The user may then run `@` again.                               *)
(***************************************************************************)
EXTENDS Firestore, Naturals, Sequences

CONSTANTS MaxTries,  \* bound: runs of `@` of each user
          Domain,    \* the host of a link that names none
          On,        \* what users ask for: a host (of a URL, so without /) and a path, each
                     \* perhaps empty
          Id         \* what the generator may return

\* The runs of `@`.  Each asks for a destination of its own, so that it can be told apart.
Try == Agent \X (1 .. MaxTries)

ASSUME TryAssumption == MaxTries \in Nat /\ Dest = Try

VARIABLES net,  \* the requests on their way
          ans   \* what each user's runs of `@` have ended with

clients == <<net, ans>>

serviceVars == <<vars, clients>>

\* urlToPath: the document of a link, by the segments of its path.  Hosts and paths are the
\* sequences of their characters.
Plus(path) == [k \in DOMAIN path |-> IF path[k] = "/" THEN "+" ELSE path[k]]

\* path.Join, which also cleans: a segment more, none, or one less.
Then(done, segment) ==
  IF segment \in {<< >>, <<".">>} THEN done
  ELSE IF segment = <<".", ".">> THEN SubSeq(done, 1, Len(done) - 1)
  ELSE Append(done, segment)

Segments(host, path) ==
  LET links == Then(<< <<"links">> >>, host)
  IN  IF path = << >> THEN links ELSE Then(Then(links, <<"id">>), Plus(path))

\* Client.Doc: collections and documents take turns.
DocOf(host, path) ==
  LET s == Segments(host, path) IN IF Len(s) \in {2, 4} THEN s ELSE NilDoc

\* URLEnricher.Enrich: the links that a request may become.
Hosted(on) == IF on.host = << >> THEN Domain ELSE on.host

Paths(on) == IF on.path # << >> THEN {on.path} ELSE {<<"/">> \o id : id \in Id}

LinkDocs(on) == {DocOf(Hosted(on), path) : path \in Paths(on)}

ASSUME LinkAssumption ==
  \A on \in On : LinkDocs(on) \subseteq Ref /\ \A k \in DOMAIN on.host : on.host[k] # "/"

\* What a run of `@` has come to: "waiting", "gaveUp", an error, or a link, by its document.
Told(what) == [told |-> what]

Printed(doc) == [told |-> "link", doc |-> doc]

Ending ==
  {Told(what) : what \in {"waiting", "gaveUp", "PermissionDenied", "Internal"}} \cup
  {Printed(doc) : doc \in Doc}

ServiceInit ==
  /\ Init
  /\ net = {}
  /\ ans = [a \in Agent |-> << >>]

-----------------------------------------------------------------------------
Waiting(a) == \E n \in DOMAIN ans[a] : ans[a][n].told = "waiting"

\* A user runs `@`, when the last run has ended.
Ask(a) ==
  /\ ~ Waiting(a)
  /\ Len(ans[a]) < MaxTries
  /\ ans' = [ans EXCEPT ![a] = Append(@, Told("waiting"))]
  /\ \E on \in On : net' = net \cup {[try |-> <<a, Len(ans[a]) + 1>>, on |-> on]}
  /\ UNCHANGED vars

\* A run that takes its answer even when it is over.
MutReply(try, ending) == [ans EXCEPT ![try[1]][try[2]] = ending]

\* An answer, for a run that waits for it.
Reply(try, ending) ==
  IF ans[try[1]][try[2]].told = "waiting" THEN [ans EXCEPT ![try[1]][try[2]] = ending] ELSE ans

\* The deadline of DoURL, or a connection that breaks: nothing says what the server does.
GiveUp(a) ==
  /\ \E n \in DOMAIN ans[a] :
       ans[a][n].told = "waiting" /\ ans' = [ans EXCEPT ![a][n] = Told("gaveUp")]
  /\ UNCHANGED <<vars, net>>

\* A request that never arrives.
Lose(req) ==
  /\ net' = net \ {req}
  /\ UNCHANGED <<vars, ans>>

\* A handler that starts at the set.
MutReceive(i, req) ==
  /\ At(i, "idle")
  /\ net' = net \ {req}
  /\ \E doc \in LinkDocs(req.on) :
       h' = [h EXCEPT ![i] =
              [at |-> "set", ret |-> "none",
               call |-> [op |-> "Put", doc |-> doc, agent |-> req.try[1], to |-> req.try]]]
  /\ UNCHANGED <<docs, ans>>

\* A request that is served each time it arrives.
MutReceiveAgain(i, req) ==
  /\ At(i, "idle")
  /\ \E doc \in LinkDocs(req.on) :
       h' = [h EXCEPT ![i] =
              [at |-> "read", ret |-> "none",
               call |-> [op |-> "Put", doc |-> doc, agent |-> req.try[1], to |-> req.try]]]
  /\ UNCHANGED <<docs, net, ans>>

\* New, up to its call of Put; the agent is the subject of the token.
Receive(i, req) ==
  /\ At(i, "idle")
  /\ net' = net \ {req}
  /\ \E doc \in LinkDocs(req.on) :
       h' = [h EXCEPT ![i] =
              [at |-> "read", ret |-> "none",
               call |-> [op |-> "Put", doc |-> doc, agent |-> req.try[1], to |-> req.try]]]
  /\ UNCHANGED <<docs, ans>>

\* New without an identifier: the random numbers of Rand fail.
EnrichFails(req) ==
  /\ req.on.path = << >>
  /\ net' = net \ {req}
  /\ ans' = Reply(req.try, Told("Internal"))
  /\ UNCHANGED vars

\* An error that has no status.
MutAnswer(ret, doc) ==
  IF ret = "nil" THEN Printed(doc)
  ELSE IF ret = "ErrUnauthorized" THEN Told("PermissionDenied") ELSE Told(ret)

\* An error of the set is not looked at.
MutAnswerSet(ret, doc) ==
  IF ret \in {"nil", "SetError"} THEN Printed(doc)
  ELSE IF ret = "ErrUnauthorized" THEN Told("PermissionDenied") ELSE Told("Internal")

\* Every error is one of permission.
MutAnswerDenied(ret, doc) == IF ret = "nil" THEN Printed(doc) ELSE Told("PermissionDenied")

\* New, after Put.
Answer(ret, doc) ==
  IF ret = "nil" THEN Printed(doc)
  ELSE IF ret = "ErrUnauthorized" THEN Told("PermissionDenied") ELSE Told("Internal")

Respond(i) ==
  /\ Return(i)
  /\ ans' = Reply(h[i].call.to, Answer(h[i].ret, h[i].call.doc))
  /\ net' = net

\* Put, and what becomes of it.
Puts(i) ==
  /\ \/ ReadFails(i)
     \/ PutReads(i)
     \/ SetTakesEffect(i)
     \/ SetAnswers(i)
     \/ SetFails(i)
     \/ SetLost(i)
     \/ Crash(i)
  /\ UNCHANGED clients

ServiceNext ==
  \/ \E a \in Agent : Ask(a) \/ GiveUp(a)
  \/ \E req \in net : Lose(req) \/ EnrichFails(req) \/ \E i \in Handler : Receive(i, req)
  \/ \E i \in Handler : Respond(i) \/ Puts(i)

ServiceSpec == ServiceInit /\ [][ServiceNext]_serviceVars

-----------------------------------------------------------------------------
Request == [try : Try, on : On]

\* The types of what is on its way and of what runs have ended with.
ServiceTypeOK ==
  /\ TypeOK
  /\ net \subseteq Request
  /\ ans \in [Agent -> Seq(Ending)]
  /\ \A a \in Agent : Len(ans[a]) <= MaxTries

\* A link that `@` has printed is there: whatever else fails, is killed, arrives late or is
\* tried again, its document exists from then on.
AnsweredLives ==
  \A a \in Agent : \A n \in DOMAIN ans[a] : ans[a][n].told = "link" => docs[ans[a][n].doc] # Missing

\* A document says what some run asked for, under the name of the user who made it, and not
\* what a run asked for that was told PermissionDenied.
OnlyAsked ==
  \A d \in Doc :
    docs[d] # Missing =>
      LET try == docs[d].to
      IN  /\ docs[d].owner = try[1]
          /\ try[2] \in DOMAIN ans[try[1]]
          /\ ans[try[1]][try[2]].told # "PermissionDenied"

\* A run makes one link at most, though its user gave up and its request arrived late, or
\* the instance that served it was killed.
StoredOnce ==
  \A d, e \in Doc : docs[d] # Missing /\ docs[d] = docs[e] => d = e

\* The user knows what every run has done, which an Internal does not say.
Orderly(a) == \A n \in DOMAIN ans[a] : ans[a][n].told \in {"link", "PermissionDenied"}

\* A user whose runs all ended with a link or with PermissionDenied finds each document it
\* owns as the last of them that printed its link has left it.  (A run it gave up on, or whose
\* set was answered with an error, may still undo a later one.)
OwnWritesStand ==
  \A a \in Agent : Orderly(a) =>
    \A d \in Doc :
      docs[d] # Missing /\ docs[d].owner = a =>
        \E n \in DOMAIN ans[a] :
          /\ docs[d].to = <<a, n>>
          /\ ans[a][n] = Printed(d)
          /\ \A m \in DOMAIN ans[a] : m > n => ans[a][m] # Printed(d)

\* The store under the API, with clients that retry and give up, is still the store of
\* module Firestore, so that what holds of every use of it holds here.
ImplementsStore == Spec
=============================================================================
