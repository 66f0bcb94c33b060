------------------------------- MODULE Serve -------------------------------
(***************************************************************************)
(* The command `x40.link serve`: how a process is wired from its flags, and *)
(* the requests it then answers.  server.ResolveOptions wires the gRPC API  *)
(* first, with a store and an interceptor of its own, and then the HTTP     *)
(* redirect, with a second call of WireStorage.  Every process has two      *)
(* stores therefore: for a hash map two maps, for a BoltDB file two opens   *)
(* of one file that is locked while it is open.  A store call is one step   *)
(* here; BinarySearch, HashTable and Firestore look inside.                 *)
(***************************************************************************)
EXTENDS FiniteSets

CONSTANTS Proc,         \* processes of serve, on the same files and project
          Link,         \* host and path of a short link
          Site,         \* the hosts of destinations
          NoHost,       \* the host of a destination that is only a path
          SourceScheme, \* the schemes of sources, in the YAML file and from New
          Dest,         \* the destinations in use
          Subject,      \* the users tokens are issued to
          Missing,      \* nothing is stored
          Unreadable,   \* a file that does not open, or is not what it should be
          Nobody,       \* no lock, no token, no agent
          Forged        \* a token that fails the parser

\* The schemes of URLs; "" for none.
Scheme == {"", "http", "https"}

\* A destination is where it leads and with what scheme; the page there is left out.  New
\* asks for neither scheme nor host (url.go:77).
URL == [scheme : Scheme, at : Site \cup Link \cup {NoHost}]

ASSUME ServeAssumption ==
  /\ Dest \subseteq URL
  /\ Missing \notin URL
  /\ NoHost \notin Link
  /\ "" \in SourceScheme /\ SourceScheme \subseteq Scheme
  /\ Nobody \notin Subject \cup Proc
  /\ Forged # Nobody

\* The storage flag that is set: exactly one is (serve.go:67-68), though perhaps to its
\* zero value.
Kind == {"hash-map", "yaml", "boltdb", "firestore", "zero"}

\* "x40": --auth.x40.  "claims": any of the JWT options; the expiration is one, and on by
\* default.  "off": it is turned off and no other is set.
Auth == {"x40", "claims", "off"}

Config == [kind : Kind, auth : Auth]

NoConfig == [kind |-> "zero", auth |-> "off"]

Role == {"api", "http"}

\* url.String() of a source: with its scheme, if the URL has one.
Key == SourceScheme \X Link

Table == [Key -> Dest \cup {Missing}]

ASSUME UnreadableAssumption == Unreadable \notin Table

Empty == [k \in Key |-> Missing]

Document == [to : Dest, owner : Subject \cup {Nobody}]

\* No token, one the parser refuses, or a valid one with or without New's scope.
Token == {Nobody, Forged} \cup [sub : Subject, may : BOOLEAN]

VARIABLES cfg,      \* the flags of each process
          stage,    \* what RunServe wires next
          icept,    \* its interceptor: "none", or its table of permissions
          mem,      \* the maps of its two stores
          rows,     \* the YAML file
          bolt,     \* the contents of the BoltDB file
          lock,     \* the process that holds the file's lock
          cloud,    \* the documents of the Firestore project
          accepted, \* the New the last step let through: its process' flags and its token
          torn      \* history: the processes whose YAML file changed between their two reads

proc == <<cfg, stage, icept, mem, torn>>

data == <<rows, bolt, lock, cloud>>

vars == <<proc, data, accepted>>

Init ==
  /\ cfg = [p \in Proc |-> NoConfig]
  /\ stage = [p \in Proc |-> "off"]
  /\ icept = [p \in Proc |-> "none"]
  /\ mem = [p \in Proc |-> [r \in Role |-> Empty]]
  /\ rows \in Table \cup {Unreadable}
  /\ bolt \in {Empty, Unreadable}
  /\ lock = Nobody
  /\ cloud = [l \in Link |-> Missing]
  /\ accepted = Nobody
  /\ torn = {}

-----------------------------------------------------------------------------
Start(p) ==
  /\ stage[p] \in {"off", "failed"}
  /\ \E c \in Config : cfg' = [cfg EXCEPT ![p] = c]
  /\ stage' = [stage EXCEPT ![p] = "api"]
  /\ UNCHANGED <<icept, mem, data, torn>>
  /\ accepted' = Nobody

Loads(p, r, table) == mem' = [mem EXCEPT ![p][r] = table]

\* A store of YAML rows that does not look at the error of the decoder.
MutWired(p, r) ==
  \/ cfg[p].kind = "hash-map" /\ Loads(p, r, Empty) /\ UNCHANGED lock
  \/ cfg[p].kind = "yaml" /\ Loads(p, r, rows) /\ UNCHANGED lock
  \/ /\ cfg[p].kind = "boltdb" /\ bolt # Unreadable /\ lock = Nobody
     /\ lock' = p /\ UNCHANGED mem
  \/ cfg[p].kind = "firestore" /\ UNCHANGED <<mem, lock>>

\* WireStorage: a new map, a new map loaded from the file, the open file, or a client.
Wired(p, r) ==
  \/ cfg[p].kind = "hash-map" /\ Loads(p, r, Empty) /\ UNCHANGED lock
  \/ cfg[p].kind = "yaml" /\ rows # Unreadable /\ Loads(p, r, rows) /\ UNCHANGED lock
  \/ /\ cfg[p].kind = "boltdb" /\ bolt # Unreadable /\ lock = Nobody
     /\ lock' = p /\ UNCHANGED mem
  \/ cfg[p].kind = "firestore" /\ UNCHANGED <<mem, lock>>

\* An open that waits for the lock of the file as long as it takes.
MutNotWired(p) ==
  \/ cfg[p].kind = "zero"
  \/ cfg[p].kind = "yaml" /\ rows = Unreadable
  \/ cfg[p].kind = "boltdb" /\ bolt = Unreadable
  \/ cfg[p].kind = "firestore"

\* WireStorage fails: no flag has a value, the YAML file cannot be read, the BoltDB file
\* cannot be opened or is no database, its lock is not free within a second, or there is no
\* client for the project.
NotWired(p) ==
  \/ cfg[p].kind = "zero"
  \/ cfg[p].kind = "yaml" /\ rows = Unreadable
  \/ cfg[p].kind = "boltdb" /\ (bolt = Unreadable \/ lock # Nobody)
  \/ cfg[p].kind = "firestore"

WireStore(p, r, next) ==
  /\ stage[p] = r
  /\ Wired(p, r)
  /\ stage' = [stage EXCEPT ![p] = next]
  /\ UNCHANGED <<cfg, icept, rows, bolt, cloud, torn>>
  /\ accepted' = Nobody

\* The process is gone, with its maps and its lock.
Exits(p, next) ==
  /\ stage' = [stage EXCEPT ![p] = next]
  /\ cfg' = [cfg EXCEPT ![p] = NoConfig]
  /\ icept' = [icept EXCEPT ![p] = "none"]
  /\ mem' = [mem EXCEPT ![p] = [r \in Role |-> Empty]]
  /\ lock' = IF lock = p THEN Nobody ELSE lock
  /\ torn' = torn \ {p}
  /\ UNCHANGED <<rows, bolt, cloud>>
  /\ accepted' = Nobody

StoreFails(p) ==
  /\ stage[p] \in Role
  /\ NotWired(p)
  /\ Exits(p, "failed")

\* The interceptor jwts.WireServerInterceptor makes of the flags, and OptsFromViper does
\* without when it is told that options are missing.
Interceptor(auth) ==
  CASE auth = "x40" -> "scopes"
    [] auth = "claims" -> "empty"
    [] auth = "off" -> "none"

WireAuth(p) ==
  /\ stage[p] = "auth"
  /\ icept' = [icept EXCEPT ![p] = Interceptor(cfg[p].auth)]
  /\ stage' = [stage EXCEPT ![p] = "http"]
  /\ UNCHANGED <<cfg, mem, data, torn>>
  /\ accepted' = Nobody

\* keyfunc.NewDefault fails: --auth.jwks.url is not a URL.
AuthFails(p) ==
  /\ stage[p] = "auth"
  /\ cfg[p].auth = "claims"
  /\ Exits(p, "failed")

Startup(p) ==
  \/ WireStore(p, "api", "auth")
  \/ WireAuth(p)
  \/ WireStore(p, "http", "serving")
  \/ StoreFails(p)
  \/ AuthFails(p)

Stop(p) == stage[p] \notin {"off", "failed"} /\ Exits(p, "off")

-----------------------------------------------------------------------------
\* The scopes of the methods the interceptor knows.
Permissions(i) ==
  IF i = "scopes" THEN [m \in {"Get", "New"} |-> IF m = "New" THEN "scope" ELSE ""] ELSE << >>

\* A table in which a method that is not listed is public.
MutValidate(i, method, token) ==
  CASE i = "none" -> "OK"
    [] i # "none" /\ method \notin DOMAIN Permissions(i) -> "OK"
    [] OTHER ->
         CASE Permissions(i)[method] = "" -> "OK"
           [] Permissions(i)[method] # "" /\ token = Nobody -> "InvalidArgument"
           [] OTHER -> IF token # Forged /\ token.may THEN "OK" ELSE "Unauthenticated"

\* ValidateCtx: "OK", or the code the request is refused with.
Validate(i, method, token) ==
  CASE i = "none" -> "OK"
    [] i # "none" /\ method \notin DOMAIN Permissions(i) -> "FailedPrecondition"
    [] OTHER ->
         CASE Permissions(i)[method] = "" -> "OK"
           [] Permissions(i)[method] # "" /\ token = Nobody -> "InvalidArgument"
           [] OTHER -> IF token # Forged /\ token.may THEN "OK" ELSE "Unauthenticated"

\* The agent Validate leaves in the context of a New it lets through.
Agent(i, token) == IF i = "scopes" THEN token.sub ELSE Nobody

\* A YAML store that hands its writes to the map it wraps.
MutPut(p, l, d, agent) ==
  \/ /\ cfg[p].kind \in {"hash-map", "yaml"}
     /\ mem' = [mem EXCEPT ![p]["api"][<<"", l>>] = d]
     /\ UNCHANGED <<bolt, cloud>>
  \/ /\ cfg[p].kind = "boltdb"
     /\ bolt' = [bolt EXCEPT ![<<"", l>>] = d]
     /\ UNCHANGED <<mem, cloud>>
  \/ /\ cfg[p].kind = "firestore"
     /\ IF cloud[l] = Missing \/ cloud[l].owner = agent
        THEN cloud' = [cloud EXCEPT ![l] = [to |-> d, owner |-> agent]]
        ELSE UNCHANGED cloud
     /\ UNCHANGED <<mem, bolt>>

\* Put by the API's store, of a source that has no scheme.  A YAML store refuses, and
\* Firestore unless the document is the agent's or new; New answers an error then.
Put(p, l, d, agent) ==
  \/ /\ cfg[p].kind = "hash-map"
     /\ mem' = [mem EXCEPT ![p]["api"][<<"", l>>] = d]
     /\ UNCHANGED <<bolt, cloud>>
  \/ /\ cfg[p].kind = "yaml"
     /\ UNCHANGED <<mem, bolt, cloud>>
  \/ /\ cfg[p].kind = "boltdb"
     /\ bolt' = [bolt EXCEPT ![<<"", l>>] = d]
     /\ UNCHANGED <<mem, cloud>>
  \/ /\ cfg[p].kind = "firestore"
     /\ IF cloud[l] = Missing \/ cloud[l].owner = agent
        THEN cloud' = [cloud EXCEPT ![l] = [to |-> d, owner |-> agent]]
        ELSE UNCHANGED cloud
     /\ UNCHANGED <<mem, bolt>>

\* A New of a given link, or of one with a generated path, which may be any.
New(p, token, l, d) ==
  /\ stage[p] = "serving"
  /\ Validate(icept[p], "New", token) = "OK"
  /\ Put(p, l, d, Agent(icept[p], token))
  /\ accepted' = [auth |-> cfg[p].auth, token |-> token]
  /\ UNCHANGED <<cfg, stage, icept, rows, lock, torn>>

\* A reference, seen from the URL key: what it does not name is that URL's.
ResolveReference(key, ref) ==
  IF ref.scheme # "" THEN ref
  ELSE [scheme |-> key[1], at |-> IF ref.at = NoHost THEN key[2] ELSE ref.at]

\* A Get that returns what was stored.
MutFound(key, document) == document.to

\* Firestore's Get: its parameter, url, hides the package of that name, so that url.Parse
\* is the method of the URL asked for, and what is stored is a reference to it.
Found(key, document) == ResolveReference(key, document.to)

\* What the store of role r of p answers to a Get.  Firestore's paths have no scheme.
Lookup(p, r, key) ==
  CASE cfg[p].kind \in {"hash-map", "yaml"} -> mem[p][r][key]
    [] cfg[p].kind = "boltdb" -> bolt[key]
    [] OTHER -> IF cloud[key[2]] = Missing THEN Missing ELSE Found(key, cloud[key[2]])

\* The answers of a serving process, which change nothing: the Location of an HTTP GET of l,
\* and the answer to the RPC Get of a URL.
RedirectAnswer(p, l) == Lookup(p, "http", <<"", l>>)

GetAnswer(p, token, key) ==
  LET code == Validate(icept[p], "Get", token)
  IN  IF code = "OK" THEN Lookup(p, "api", key) ELSE [refused |-> code]

\* `@ resolve` sends no token, and puts https:// before a URL without a scheme.
Typed(scheme) == IF scheme = "" THEN "https" ELSE scheme

ResolveAnswer(p, scheme, l) == GetAnswer(p, Nobody, <<Typed(scheme), l>>)

\* Where a visitor who opens the URL key gets by a Location.
Follow(key, location) ==
  IF location = Missing THEN Missing ELSE ResolveReference(key, location)

\* The administrator replaces the YAML file.
EditRows ==
  /\ rows' \in Table \cup {Unreadable}
  /\ rows' # rows
  /\ torn' = torn \cup {p \in Proc : cfg[p].kind = "yaml" /\ stage[p] \in {"auth", "http"}}
  /\ UNCHANGED <<cfg, stage, icept, mem, bolt, lock, cloud>>
  /\ accepted' = Nobody

Next ==
  \/ \E p \in Proc : Start(p) \/ Startup(p) \/ Stop(p)
  \/ \E p \in Proc, token \in Token, l \in Link, d \in Dest : New(p, token, l, d)
  \/ EditRows

Spec == Init /\ [][Next]_vars

\* RunServe runs on: its steps do not wait, but for a lock and then for a second.
FairSpec == Spec /\ \A p \in Proc : WF_vars(Startup(p))

-----------------------------------------------------------------------------
\* The variables hold values of their types, and the lock of the BoltDB file is that of a
\* live process.
TypeOK ==
  /\ cfg \in [Proc -> Config]
  /\ stage \in [Proc -> Role \cup {"off", "auth", "serving", "failed"}]
  /\ icept \in [Proc -> {"none", "empty", "scopes"}]
  /\ mem \in [Proc -> [Role -> Table]]
  /\ rows \in Table \cup {Unreadable}
  /\ bolt \in Table \cup {Unreadable}
  /\ lock \in Proc \cup {Nobody}
  /\ cloud \in [Link -> Document \cup {Missing}]
  /\ accepted \in [auth : Auth, token : Token] \cup {Nobody}
  /\ torn \in SUBSET Proc
  /\ \A p \in Proc : lock = p => cfg[p].kind = "boltdb" /\ stage[p] \notin {"off", "failed"}

\* A process that was given any authentication option (api/di/viper.go:20-31 treats the
\* interceptor as a dependency that may be missing) writes no link for a caller without
\* New's scope.
AuthProtects ==
  accepted # Nobody =>
    accepted.auth = "off" \/ (accepted.token \notin {Nobody, Forged} /\ accepted.token.may)

\* serve comes up or gives up: no process waits for a lock for ever, not even for its own
\* (boltdb.go:39-41: "so it does not lock forever").
StartEnds == \A p \in Proc : stage[p] = "api" ~> stage[p] \in {"serving", "failed", "off"}

\* A process that serves a YAML file reads it twice (wire_gen.go:50, 57), once for the API
\* and once for the redirect.  Unless the file changed between the two, they speak of the
\* same links, for as long as the process lives: the API's store "rejects any writes"
\* (yaml.go:18-19), and no later edit reaches only one of them.
YamlStoresAgree ==
  \A p \in Proc :
    (stage[p] = "serving" /\ cfg[p].kind = "yaml" /\ p \notin torn)
      => mem[p]["api"] = mem[p]["http"]

\* Get tells nothing that "the HTTP redirect handler ... already discloses" not
\* (url.proto:40-42): a link the API has, the redirect of the same process has too.
RedirectDiscloses ==
  \A p \in Proc, l \in Link :
    (stage[p] = "serving" /\ GetAnswer(p, Nobody, <<"", l>>) \in URL)
      => RedirectAnswer(p, l) = GetAnswer(p, Nobody, <<"", l>>)

\* `@ resolve` prints "the URL it redirects to" (cli/main.go:113) over Firestore, unless
\* the interceptor was made of claims alone: it is where a visitor gets who opens the URL that
\* was typed.  The Location of a destination without a scheme has none, and is followed with
\* the visitor's; Get has the scheme that resolve asks with.  (The stores that compare
\* URL.String() do not find a link under a scheme.)
ResolveWorks ==
  \A p \in Proc, l \in Link, scheme \in Scheme :
    (stage[p] = "serving" /\ cfg[p].kind = "firestore" /\ cfg[p].auth # "claims")
      => ResolveAnswer(p, scheme, l) = Follow(<<Typed(scheme), l>>, RedirectAnswer(p, l))

\* The file of --storage.boltdb.file is "the source file to use with boldDB backed URL
\* storage" (cfg.go:100): a process that has it open does not fail to open it for its
\* redirect.
BoltServes ==
  [][\A p \in Proc :
       (cfg[p].kind = "boltdb" /\ stage[p] = "http" /\ stage'[p] = "failed")
         => lock # p]_vars
=============================================================================
