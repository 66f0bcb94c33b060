---------------------------- MODULE ServeProofs ----------------------------
(***************************************************************************)
(* Proofs about Serve, for any processes, links, users and destinations:    *)
(* the types, that a process that was given an authentication option lets   *)
(* no New through without its scope, that the two stores of a YAML file     *)
(* agree, and that no process ever serves a BoltDB file.  The invariants    *)
(* tie what a process has to the flags it was started with and to how far   *)
(* it has been wired.                                                       *)
(***************************************************************************)
EXTENDS Serve, TLAPS

Stages == Role \cup {"off", "auth", "serving", "failed"}

\* The interceptor is the one of the flags once WireAuth has run, and none before.
Wiring ==
  \A p \in Proc :
    icept[p] = IF stage[p] \in {"http", "serving"} THEN Interceptor(cfg[p].auth) ELSE "none"

\* A process that has opened its BoltDB file has one that can be opened.
Opened ==
  \A p \in Proc :
    cfg[p].kind = "boltdb" /\ stage[p] \in {"auth", "http", "serving"} => bolt # Unreadable

IInv == TypeOK /\ Wiring /\ Opened /\ AuthProtects

\* The interceptors there are.
LEMMA InterceptorType ==
  ASSUME NEW auth \in Auth
  PROVE  Interceptor(auth) \in {"none", "empty", "scopes"}
BY DEF Interceptor, Auth

\* The requests the interceptors let through (server_interceptor.go:149-227): without one
\* all of them, with the empty table none, and with that of X40 a New with the scope.
LEMMA ValidateNew ==
  ASSUME NEW auth \in Auth, NEW token \in Token, Validate(Interceptor(auth), "New", token) = "OK"
  PROVE  auth = "off" \/ (token \notin {Nobody, Forged} /\ token.may)
<1>1. CASE auth = "off"
  BY <1>1
<1>2. CASE auth = "claims"
  <2>1. Interceptor(auth) = "empty"
    BY <1>2 DEF Interceptor
  <2>2. "New" \notin DOMAIN Permissions("empty")
    BY DEF Permissions
  <2>3. Validate("empty", "New", token) = "FailedPrecondition"
    BY <2>2 DEF Validate
  <2>4. QED
    BY <2>1, <2>3
<1>3. CASE auth = "x40"
  <2>1. Interceptor(auth) = "scopes"
    BY <1>3 DEF Interceptor
  <2>2. "New" \in DOMAIN Permissions("scopes") /\ Permissions("scopes")["New"] = "scope"
    BY DEF Permissions
  <2>3. Validate("scopes", "New", token)
          = IF token = Nobody THEN "InvalidArgument"
            ELSE IF token # Forged /\ token.may THEN "OK" ELSE "Unauthenticated"
    BY <2>2 DEF Validate
  <2>4. QED
    BY <2>1, <2>3
<1>4. QED
  BY <1>1, <1>2, <1>3 DEF Auth

\* A store that is loaded is one map of one process.
LEMMA LoadsType ==
  ASSUME TypeOK, NEW p \in Proc, NEW r \in Role, NEW table \in Table, Loads(p, r, table)
  PROVE  mem' \in [Proc -> [Role -> Table]] /\ \A q \in Proc : q # p => mem'[q] = mem[q]
BY DEF Loads, TypeOK

\* A hash map starts empty.
LEMMA EmptyType == Empty \in Table
BY DEF Empty, Table

\* What Exits leaves is a process that holds nothing: no store, no lock, no interceptor.
LEMMA ExitsKeeps ==
  ASSUME IInv, NEW p \in Proc, NEW next \in {"off", "failed"}, Exits(p, next)
  PROVE  IInv'
<1>1. TypeOK'
  <2>1. /\ cfg' \in [Proc -> Config]
        /\ cfg'[p] = NoConfig
        /\ \A q \in Proc : q # p => cfg'[q] = cfg[q]
    BY DEF IInv, TypeOK, Exits, NoConfig, Config, Kind, Auth
  <2>2. stage' \in [Proc -> Stages] /\ stage'[p] = next /\ \A q \in Proc : q # p => stage'[q] = stage[q]
    BY DEF IInv, TypeOK, Exits, Stages
  <2>3. icept' \in [Proc -> {"none", "empty", "scopes"}]
    BY DEF IInv, TypeOK, Exits
  <2>4. mem' \in [Proc -> [Role -> Table]]
    BY EmptyType DEF IInv, TypeOK, Exits
  <2>5. /\ rows' \in Table \cup {Unreadable}
        /\ bolt' \in Table \cup {Unreadable}
        /\ cloud' \in [Link -> Document \cup {Missing}]
        /\ accepted' = Nobody
        /\ torn' \in SUBSET Proc
    BY DEF IInv, TypeOK, Exits
  <2>6. lock' \in Proc \cup {Nobody} /\ lock' # p /\ (lock' # Nobody => lock' = lock)
    BY ServeAssumption DEF IInv, TypeOK, Exits
  <2>7. \A q \in Proc : lock' = q => cfg'[q].kind = "boltdb" /\ stage'[q] \notin {"off", "failed"}
    <3> SUFFICES ASSUME NEW q \in Proc, lock' = q
                 PROVE  cfg'[q].kind = "boltdb" /\ stage'[q] \notin {"off", "failed"}
      OBVIOUS
    <3>1. q # p /\ lock = q
      BY <2>6, ServeAssumption
    <3>2. cfg[q].kind = "boltdb" /\ stage[q] \notin {"off", "failed"}
      BY <3>1 DEF IInv, TypeOK
    <3>3. QED
      BY <2>1, <2>2, <3>1, <3>2
  <2>8. QED
    BY <2>1, <2>2, <2>3, <2>4, <2>5, <2>6, <2>7 DEF TypeOK, Stages
<1>2. Wiring'
  BY DEF IInv, TypeOK, Wiring, Exits
<1>3. Opened'
  BY DEF IInv, TypeOK, Opened, Exits
<1>4. AuthProtects'
  BY DEF Exits, AuthProtects
<1>5. QED
  BY <1>1, <1>2, <1>3, <1>4 DEF IInv

\* Wiring a store loads a map, takes the lock or does neither, and moves one process on.
LEMMA WireStoreKeeps ==
  ASSUME IInv, NEW p \in Proc, NEW r \in Role, NEW next \in {"auth", "serving"},
         r = "api" <=> next = "auth", WireStore(p, r, next)
  PROVE  IInv'
<1>1. TypeOK'
  <2>1. stage' \in [Proc -> Stages] /\ stage'[p] = next /\ \A q \in Proc : q # p => stage'[q] = stage[q]
    BY DEF IInv, TypeOK, WireStore, Stages
  <2>2. mem' \in [Proc -> [Role -> Table]]
    BY EmptyType, LoadsType DEF IInv, TypeOK, WireStore, Wired
  <2>3. lock' \in Proc \cup {Nobody} /\ (lock' = lock \/ (lock' = p /\ cfg[p].kind = "boltdb"))
    BY DEF IInv, TypeOK, WireStore, Wired
  <2>4. \A q \in Proc : lock' = q => cfg[q].kind = "boltdb" /\ stage'[q] \notin {"off", "failed"}
    BY <2>1, <2>3 DEF IInv, TypeOK
  <2>5. QED
    BY <2>1, <2>2, <2>3, <2>4 DEF IInv, TypeOK, WireStore, Stages
<1>2. Wiring'
  <2>1. UNCHANGED <<cfg, icept>> /\ stage[p] = r /\ stage' = [stage EXCEPT ![p] = next]
    BY DEF WireStore
  <2>2. QED
    BY <2>1 DEF IInv, TypeOK, Wiring, Role
<1>3. Opened'
  <2>1. UNCHANGED <<cfg, bolt>> /\ stage' = [stage EXCEPT ![p] = next]
    BY DEF WireStore
  <2>2. cfg[p].kind = "boltdb" => bolt # Unreadable
    BY DEF WireStore, Wired
  <2>3. QED
    BY <2>1, <2>2 DEF IInv, TypeOK, Opened
<1>4. AuthProtects'
  BY DEF WireStore, AuthProtects
<1>5. QED
  BY <1>1, <1>2, <1>3, <1>4 DEF IInv

\* WireAuth puts the interceptor of the flags in place.
LEMMA WireAuthKeeps ==
  ASSUME IInv, NEW p \in Proc, WireAuth(p)
  PROVE  IInv'
<1>1. cfg[p].auth \in Auth
  BY DEF IInv, TypeOK, Config
<1>2. TypeOK'
  BY <1>1, InterceptorType DEF IInv, TypeOK, WireAuth, data, Role
<1>3. Wiring'
  BY DEF IInv, TypeOK, Wiring, WireAuth
<1>4. Opened'
  BY DEF IInv, TypeOK, Opened, WireAuth, data
<1>5. AuthProtects'
  BY DEF WireAuth, AuthProtects
<1>6. QED
  BY <1>2, <1>3, <1>4, <1>5 DEF IInv

\* A process that starts has its flags and nothing else.
LEMMA StartKeeps ==
  ASSUME IInv, NEW p \in Proc, Start(p)
  PROVE  IInv'
<1>1. PICK c \in Config : cfg' = [cfg EXCEPT ![p] = c]
  BY DEF Start
<1>2. stage[p] \in {"off", "failed"} /\ stage' = [stage EXCEPT ![p] = "api"]
  BY DEF Start
<1>3. UNCHANGED <<icept, mem, rows, bolt, lock, cloud, torn>> /\ accepted' = Nobody
  BY DEF Start, data
<1>4. TypeOK'
  BY <1>1, <1>2, <1>3 DEF IInv, TypeOK, Role
<1>5. Wiring'
  BY <1>1, <1>2, <1>3 DEF IInv, TypeOK, Wiring
<1>6. Opened'
  BY <1>1, <1>2, <1>3 DEF IInv, TypeOK, Opened
<1>7. AuthProtects'
  BY <1>3 DEF AuthProtects
<1>8. QED
  BY <1>4, <1>5, <1>6, <1>7 DEF IInv

\* A New that is let through writes one entry of one store.
LEMMA PutType ==
  ASSUME TypeOK, NEW p \in Proc, NEW l \in Link, NEW d \in Dest,
         NEW agent \in Subject \cup {Nobody}, Put(p, l, d, agent),
         cfg[p].kind = "boltdb" => bolt # Unreadable
  PROVE  /\ mem' \in [Proc -> [Role -> Table]]
         /\ bolt' \in Table \cup {Unreadable}
         /\ bolt = Unreadable => bolt' = Unreadable
         /\ bolt # Unreadable => bolt' \in Table
         /\ cloud' \in [Link -> Document \cup {Missing}]
<1> DEFINE key == <<"", l>>
<1>1. key \in Key
  BY ServeAssumption DEF Key
<1> HIDE DEF key
<1>2. CASE cfg[p].kind = "hash-map" /\ mem' = [mem EXCEPT ![p]["api"][key] = d] /\ UNCHANGED <<bolt, cloud>>
  BY <1>1, <1>2 DEF TypeOK, Table, Role
<1>3. CASE UNCHANGED <<mem, bolt, cloud>>
  BY <1>3 DEF TypeOK
<1>4. CASE bolt # Unreadable /\ bolt' = [bolt EXCEPT ![key] = d] /\ UNCHANGED <<mem, cloud>>
  <2>1. bolt \in Table
    BY <1>4 DEF TypeOK
  <2>2. QED
    BY <1>1, <1>4, <2>1 DEF TypeOK, Table
<1>5. CASE UNCHANGED <<mem, bolt>> /\ cloud' = [cloud EXCEPT ![l] = [to |-> d, owner |-> agent]]
  BY <1>5 DEF TypeOK, Document
<1>6. QED
  BY <1>2, <1>3, <1>4, <1>5 DEF Put, key

\* The agent of a New that is let through is the subject of its token, or nobody.
LEMMA AgentType ==
  ASSUME NEW i, NEW token \in Token, token # Forged, i = "scopes" => token # Nobody
  PROVE  Agent(i, token) \in Subject \cup {Nobody}
BY DEF Agent, Token

\* A New is let through with New's scope, or by a process without authentication.
LEMMA NewKeeps ==
  ASSUME IInv, NEW p \in Proc, NEW token \in Token, NEW l \in Link, NEW d \in Dest,
         New(p, token, l, d)
  PROVE  IInv'
<1> DEFINE auth == cfg[p].auth
<1>1. auth \in Auth /\ icept[p] = Interceptor(auth)
  BY DEF IInv, TypeOK, Wiring, New, Config
<1>2. Validate(Interceptor(auth), "New", token) = "OK"
  BY <1>1 DEF New
<1>3. accepted' = [auth |-> auth, token |-> token]
  BY DEF New
<1>4. UNCHANGED <<cfg, stage, icept, rows, lock, torn>>
  BY DEF New
<1> HIDE DEF auth
<1>5. auth = "off" \/ (token \notin {Nobody, Forged} /\ token.may)
  BY ONLY <1>1, <1>2, ValidateNew, token \in Token
<1>6. Agent(icept[p], token) \in Subject \cup {Nobody}
  <2>1. CASE auth = "off"
    <3>1. Interceptor(auth) = "none"
      BY <2>1 DEF Interceptor
    <3>2. QED
      BY <1>1, <3>1 DEF Agent
  <2>2. CASE token \notin {Nobody, Forged}
    BY <2>2, AgentType
  <2>3. QED
    BY <1>5, <2>1, <2>2
<1>7. /\ mem' \in [Proc -> [Role -> Table]]
      /\ bolt' \in Table \cup {Unreadable}
      /\ bolt # Unreadable => bolt' \in Table
      /\ cloud' \in [Link -> Document \cup {Missing}]
  <2>1. cfg[p].kind = "boltdb" => bolt # Unreadable
    BY DEF IInv, Opened, New
  <2>2. QED
    BY <1>6, <2>1, PutType DEF IInv, New
<1>8. TypeOK'
  BY <1>1, <1>3, <1>4, <1>7 DEF IInv, TypeOK
<1>9. Wiring'
  BY <1>4 DEF IInv, Wiring
<1>10. Opened'
  BY <1>4, <1>7, UnreadableAssumption DEF IInv, Opened
<1>11. AuthProtects'
  BY <1>3, <1>5 DEF AuthProtects
<1>12. QED
  BY <1>8, <1>9, <1>10, <1>11 DEF IInv

LEMMA InitIInv == Init => IInv
<1> SUFFICES ASSUME Init PROVE IInv
  OBVIOUS
<1>1. TypeOK
  BY EmptyType, ServeAssumption DEF Init, TypeOK, Config, NoConfig, Kind, Auth
<1>2. Wiring
  BY DEF Init, Wiring
<1>3. Opened
  BY DEF Init, Opened
<1>4. AuthProtects
  BY DEF Init, AuthProtects
<1>5. QED
  BY <1>1, <1>2, <1>3, <1>4 DEF IInv

LEMMA NextIInv == IInv /\ [Next]_vars => IInv'
<1> SUFFICES ASSUME IInv, [Next]_vars PROVE IInv'
  OBVIOUS
<1>1. ASSUME NEW p \in Proc, Start(p) PROVE IInv'
  BY <1>1, StartKeeps
<1>2. ASSUME NEW p \in Proc, Startup(p) PROVE IInv'
  <2>1. CASE WireStore(p, "api", "auth")
    BY <2>1, WireStoreKeeps DEF Role
  <2>2. CASE WireAuth(p)
    BY <2>2, WireAuthKeeps
  <2>3. CASE WireStore(p, "http", "serving")
    BY <2>3, WireStoreKeeps DEF Role
  <2>4. CASE StoreFails(p)
    BY <2>4, ExitsKeeps DEF StoreFails
  <2>5. CASE AuthFails(p)
    BY <2>5, ExitsKeeps DEF AuthFails
  <2>6. QED
    BY <1>2, <2>1, <2>2, <2>3, <2>4, <2>5 DEF Startup
<1>3. ASSUME NEW p \in Proc, Stop(p) PROVE IInv'
  BY <1>3, ExitsKeeps DEF Stop
<1>4. ASSUME NEW p \in Proc, NEW token \in Token, NEW l \in Link, NEW d \in Dest, New(p, token, l, d)
      PROVE IInv'
  BY <1>4, NewKeeps
<1>5. CASE EditRows
  <2>1. UNCHANGED <<cfg, stage, icept, mem, bolt, lock, cloud>> /\ accepted' = Nobody
    BY <1>5 DEF EditRows
  <2>2. rows' \in Table \cup {Unreadable}
    BY <1>5 DEF EditRows
  <2>3. torn' \in SUBSET Proc
    BY <1>5 DEF EditRows, IInv, TypeOK
  <2>4. QED
    BY <2>1, <2>2, <2>3 DEF IInv, TypeOK, Wiring, Opened, AuthProtects
<1>6. CASE UNCHANGED vars
  BY <1>6 DEF IInv, TypeOK, Wiring, Opened, AuthProtects, vars, proc, data
<1>7. QED
  BY <1>1, <1>2, <1>3, <1>4, <1>5, <1>6 DEF Next

\* The variables of any number of processes hold values of their types, and a BoltDB file
\* is locked by a live process only.
THEOREM TypeCorrect == Spec => []TypeOK
<1>1. IInv => TypeOK
  BY DEF IInv
<1>2. QED
  BY InitIInv, NextIInv, <1>1, PTL DEF Spec

\* A process that was given any authentication option lets no caller write a link
\* without New's scope, whatever the processes, flags and tokens (api/di/viper.go:16-34).
THEOREM AuthHolds == Spec => []AuthProtects
<1>1. IInv => AuthProtects
  BY DEF IInv
<1>2. QED
  BY InitIInv, NextIInv, <1>1, PTL DEF Spec

\* The RPC Get needs no token where there is no interceptor or that of X40
\* (server_interceptor.go:165-178).
LEMMA ValidateGet ==
  ASSUME NEW auth \in Auth, auth # "claims"
  PROVE  Validate(Interceptor(auth), "Get", Nobody) = "OK"
<1>1. CASE auth = "off"
  <2>1. Interceptor(auth) = "none"
    BY <1>1 DEF Interceptor
  <2>2. Validate("none", "Get", Nobody) = "OK"
    BY DEF Validate
  <2>3. QED
    BY <2>1, <2>2
<1>2. CASE auth = "x40"
  <2>1. Interceptor(auth) = "scopes"
    BY <1>2 DEF Interceptor
  <2>2. "Get" \in DOMAIN Permissions("scopes") /\ Permissions("scopes")["Get"] = ""
    BY DEF Permissions
  <2>3. Validate("scopes", "Get", Nobody) = "OK"
    BY <2>2 DEF Validate
  <2>4. QED
    BY <2>1, <2>3
<1>3. QED
  BY <1>1, <1>2 DEF Auth

\* A reference that was resolved once leads, from an address with a scheme, to where it
\* leads directly: what the first URL, without a scheme, left open is what the second fills.
LEMMA ResolveTwice ==
  ASSUME NEW scheme \in Scheme \ {""}, NEW l \in Link, NEW ref \in URL
  PROVE  /\ ResolveReference(<<scheme, l>>, ResolveReference(<<"", l>>, ref))
              = ResolveReference(<<scheme, l>>, ref)
         /\ ResolveReference(<<"", l>>, ref) # Missing
<1>1. CASE ref.scheme # ""
  BY <1>1, ServeAssumption DEF ResolveReference
<1>2. CASE ref.scheme = ""
  <2> DEFINE at == IF ref.at = NoHost THEN l ELSE ref.at
  <2>1. at # NoHost /\ at \in Site \cup Link
    BY ServeAssumption DEF URL
  <2>2. ResolveReference(<<scheme, l>>, ref) = [scheme |-> scheme, at |-> at]
    BY <1>2 DEF ResolveReference
  <2>3. ResolveReference(<<"", l>>, ref) = [scheme |-> "", at |-> at]
    BY <1>2 DEF ResolveReference
  <2> HIDE DEF at
  <2>4. ResolveReference(<<scheme, l>>, [scheme |-> "", at |-> at]) = [scheme |-> scheme, at |-> at]
    BY <2>1 DEF ResolveReference
  <2>5. [scheme |-> "", at |-> at] \in URL
    BY <2>1 DEF URL, Scheme
  <2>6. QED
    BY <2>2, <2>3, <2>4, <2>5, ServeAssumption
<1>3. QED
  BY <1>1, <1>2

\* Over Firestore what `@ resolve` prints is where a visitor gets who opens the address that
\* was typed, whatever the processes, flags, links and destinations (cli/main.go:113).  Get
\* resolves what is stored against an https URL and Redirect against one without a scheme
\* (firestore.go:45, server/storage.go:18-21), so that a destination without a scheme, or
\* without a host, is given to the one and to the other as different URLs: they lead to the
\* same place all the same.
THEOREM ResolveAgrees == Spec => []ResolveWorks
<1>1. IInv => ResolveWorks
  <2> SUFFICES ASSUME IInv, NEW p \in Proc, NEW l \in Link, NEW scheme \in Scheme,
                      stage[p] = "serving", cfg[p].kind = "firestore", cfg[p].auth # "claims"
               PROVE  ResolveAnswer(p, scheme, l) = Follow(<<Typed(scheme), l>>, RedirectAnswer(p, l))
    BY DEF ResolveWorks
  <2> DEFINE typed == Typed(scheme)
             Held(key) == IF cloud[l] = Missing THEN Missing ELSE ResolveReference(key, cloud[l].to)
  <2>1. ASSUME NEW r, NEW s PROVE Lookup(p, r, <<s, l>>) = Held(<<s, l>>)
    <3>1. <<s, l>>[2] = l
      OBVIOUS
    <3>2. Lookup(p, r, <<s, l>>)
            = IF cloud[<<s, l>>[2]] = Missing THEN Missing ELSE Found(<<s, l>>, cloud[<<s, l>>[2]])
      BY DEF Lookup
    <3>3. Found(<<s, l>>, cloud[l]) = ResolveReference(<<s, l>>, cloud[l].to)
      BY DEF Found
    <3>4. QED
      BY <3>1, <3>2, <3>3
  <2>2. typed \in Scheme \ {""}
    BY DEF Typed, Scheme
  <2>3. icept[p] = Interceptor(cfg[p].auth) /\ cfg[p].auth \in Auth
    BY DEF IInv, TypeOK, Wiring, Config
  <2>4. Validate(icept[p], "Get", Nobody) = "OK"
    BY <2>3, ValidateGet
  <2>5. ResolveAnswer(p, scheme, l) = Held(<<typed, l>>)
    BY <2>1, <2>4 DEF ResolveAnswer, GetAnswer
  <2>6. RedirectAnswer(p, l) = Held(<<"", l>>)
    BY <2>1 DEF RedirectAnswer
  <2> HIDE DEF typed
  <2>7. CASE cloud[l] = Missing
    BY <2>5, <2>6, <2>7 DEF Follow, typed
  <2>8. CASE cloud[l] # Missing
    <3>1. cloud[l].to \in URL
      BY <2>8, ServeAssumption DEF IInv, TypeOK, Document
    <3> DEFINE to == cloud[l].to
               location == ResolveReference(<<"", l>>, to)
    <3>2. Held(<<typed, l>>) = ResolveReference(<<typed, l>>, to) /\ Held(<<"", l>>) = location
      BY <2>8
    <3>3. ResolveReference(<<typed, l>>, location) = ResolveReference(<<typed, l>>, to) /\ location # Missing
      BY <2>2, <3>1, ResolveTwice
    <3>4. Follow(<<typed, l>>, location) = ResolveReference(<<typed, l>>, location)
      BY <3>3 DEF Follow
    <3> HIDE DEF to, location
    <3>5. QED
      BY <2>5, <2>6, <3>2, <3>3, <3>4 DEF typed
  <2>9. QED
    BY <2>7, <2>8
<1>2. QED
  BY InitIInv, NextIInv, <1>1, PTL DEF Spec

-----------------------------------------------------------------------------
\* What the stores of a process that reads a YAML file hold: once it has read the file for
\* its API, the rows of the file, and once for its redirect too, twice the same.
YamlLoaded(p) ==
  cfg[p].kind = "yaml" /\ p \notin torn =>
    /\ stage[p] \in {"auth", "http"} => mem[p]["api"] = rows
    /\ stage[p] = "serving" => mem[p]["api"] = mem[p]["http"]

Loaded == \A p \in Proc : YamlLoaded(p)

\* A step of process q that keeps the file and the history of others is none of theirs.
LEMMA OthersLoaded ==
  ASSUME Loaded, NEW q \in Proc, NEW p \in Proc \ {q},
         cfg'[p] = cfg[p], stage'[p] = stage[p], mem'[p] = mem[p], rows' = rows,
         p \in torn' <=> p \in torn
  PROVE  YamlLoaded(p)'
BY DEF Loaded, YamlLoaded

LEMMA ExitsLoaded ==
  ASSUME IInv, Loaded, NEW q \in Proc, NEW next \in {"off", "failed"}, Exits(q, next)
  PROVE  Loaded'
<1>1. ASSUME NEW p \in Proc \ {q} PROVE YamlLoaded(p)'
  BY OthersLoaded DEF IInv, TypeOK, Exits
<1>2. YamlLoaded(q)'
  <2>1. stage'[q] = next
    BY DEF IInv, TypeOK, Exits
  <2>2. QED
    BY <2>1 DEF YamlLoaded
<1>3. QED
  BY <1>1, <1>2 DEF Loaded

\* The first read loads the rows, and the second the rows that the first one found.
LEMMA WireStoreLoaded ==
  ASSUME IInv, Loaded, NEW q \in Proc,
         WireStore(q, "api", "auth") \/ WireStore(q, "http", "serving")
  PROVE  Loaded'
<1>1. /\ cfg' = cfg /\ rows' = rows /\ torn' = torn
      /\ \A p \in Proc \ {q} : stage'[p] = stage[p]
  BY DEF IInv, TypeOK, WireStore
<1>2. mem \in [Proc -> [Role -> Table]]
  BY DEF IInv, TypeOK
<1>3. \A p \in Proc \ {q} : mem'[p] = mem[p]
  BY <1>2 DEF WireStore, Wired, Loads
<1>4. ASSUME NEW p \in Proc \ {q} PROVE YamlLoaded(p)'
  BY <1>1, <1>3, OthersLoaded
<1>5. YamlLoaded(q)'
  <2> SUFFICES ASSUME cfg[q].kind = "yaml", q \notin torn
               PROVE  YamlLoaded(q)'
    BY <1>1 DEF YamlLoaded
  <2>1. CASE WireStore(q, "api", "auth")
    <3>1. Loads(q, "api", rows) /\ stage'[q] = "auth"
      BY <2>1 DEF WireStore, Wired, IInv, TypeOK
    <3>2. mem'[q]["api"] = rows
      BY <1>2, <3>1 DEF Loads, Role
    <3>3. QED
      BY <1>1, <3>1, <3>2 DEF YamlLoaded
  <2>2. CASE WireStore(q, "http", "serving")
    <3>1. Loads(q, "http", rows) /\ stage'[q] = "serving" /\ stage[q] = "http"
      BY <2>2 DEF WireStore, Wired, IInv, TypeOK
    <3>2. mem'[q]["http"] = rows /\ mem'[q]["api"] = mem[q]["api"]
      BY <1>2, <3>1 DEF Loads, Role
    <3>3. mem[q]["api"] = rows
      BY <3>1 DEF Loaded, YamlLoaded
    <3>4. QED
      BY <3>1, <3>2, <3>3 DEF YamlLoaded
  <2>3. QED
    BY <2>1, <2>2
<1>6. QED
  BY <1>4, <1>5 DEF Loaded

\* A New of a YAML store writes nothing, and one of another store nothing of this process.
LEMMA NewLoaded ==
  ASSUME IInv, Loaded, NEW q \in Proc, NEW token \in Token, NEW l \in Link, NEW d \in Dest,
         New(q, token, l, d)
  PROVE  Loaded'
<1>1. UNCHANGED <<cfg, stage, rows, torn>> /\ Put(q, l, d, Agent(icept[q], token))
  BY DEF New
<1>2. mem \in [Proc -> [Role -> Table]]
  BY DEF IInv, TypeOK
<1>3. \A p \in Proc \ {q} : mem'[p] = mem[p]
  BY <1>1, <1>2 DEF Put
<1>4. cfg[q].kind = "yaml" => mem' = mem
  BY <1>1 DEF Put
<1>5. ASSUME NEW p \in Proc \ {q} PROVE YamlLoaded(p)'
  BY <1>1, <1>3, <1>5, OthersLoaded
<1>6. YamlLoaded(q)'
  BY <1>1, <1>4 DEF Loaded, YamlLoaded
<1>7. QED
  BY <1>5, <1>6 DEF Loaded

LEMMA NextLoaded == IInv /\ Loaded /\ [Next]_vars => Loaded'
<1> SUFFICES ASSUME IInv, Loaded, [Next]_vars PROVE Loaded'
  OBVIOUS
<1>1. ASSUME NEW q \in Proc, Start(q) PROVE Loaded'
  <2>1. ASSUME NEW p \in Proc \ {q} PROVE YamlLoaded(p)'
    BY <1>1, <2>1, OthersLoaded DEF IInv, TypeOK, Start, data
  <2>2. stage'[q] = "api"
    BY <1>1 DEF IInv, TypeOK, Start
  <2>3. YamlLoaded(q)'
    BY <2>2 DEF YamlLoaded
  <2>4. QED
    BY <2>1, <2>3 DEF Loaded
<1>2. ASSUME NEW q \in Proc, Startup(q) \/ Stop(q) PROVE Loaded'
  <2>1. CASE StoreFails(q) \/ AuthFails(q) \/ Stop(q)
    BY <2>1, ExitsLoaded DEF StoreFails, AuthFails, Stop
  <2>2. CASE WireAuth(q)
    <3>1. UNCHANGED <<cfg, mem, rows, torn>> /\ stage[q] = "auth" /\ stage'[q] = "http"
      BY <2>2 DEF IInv, TypeOK, WireAuth, data
    <3>2. ASSUME NEW p \in Proc \ {q} PROVE YamlLoaded(p)'
      <4>1. stage'[p] = stage[p]
        BY <2>2 DEF IInv, TypeOK, WireAuth
      <4>2. QED
        BY <3>1, <4>1, OthersLoaded
    <3>3. YamlLoaded(q)'
      BY <3>1 DEF Loaded, YamlLoaded
    <3>4. QED
      BY <3>2, <3>3 DEF Loaded
  <2>3. CASE WireStore(q, "api", "auth") \/ WireStore(q, "http", "serving")
    BY <2>3, WireStoreLoaded
  <2>4. QED
    BY <1>2, <2>1, <2>2, <2>3 DEF Startup
<1>3. ASSUME NEW q \in Proc, NEW token \in Token, NEW l \in Link, NEW d \in Dest,
             New(q, token, l, d)
      PROVE  Loaded'
  BY <1>3, NewLoaded
<1>4. CASE EditRows
  <2> SUFFICES ASSUME NEW p \in Proc PROVE YamlLoaded(p)'
    BY DEF Loaded
  <2>1. UNCHANGED <<cfg, stage, mem>>
    BY <1>4 DEF EditRows
  <2>2. p \in torn' <=> p \in torn \/ (cfg[p].kind = "yaml" /\ stage[p] \in {"auth", "http"})
    BY <1>4 DEF EditRows
  <2>3. QED
    BY <2>1, <2>2 DEF Loaded, YamlLoaded
<1>5. CASE UNCHANGED vars
  BY <1>5 DEF Loaded, YamlLoaded, vars, proc, data
<1>6. QED
  BY <1>1, <1>2, <1>3, <1>4, <1>5 DEF Next

\* The API and the redirect of a process that serves a YAML file have the same links, unless
\* the file changed between the two reads of its start-up, for any processes, files and
\* editors (yaml.go:18-19, wire_gen.go:50-57).
THEOREM YamlStoresSame == Spec => []YamlStoresAgree
<1>1. Init => Loaded
  BY DEF Init, Loaded, YamlLoaded
<1>2. Loaded => YamlStoresAgree
  BY DEF Loaded, YamlLoaded, YamlStoresAgree
<1>3. QED
  BY InitIInv, NextIInv, NextLoaded, <1>1, <1>2, PTL DEF Spec

-----------------------------------------------------------------------------
\* A process that wires a BoltDB store for the redirect holds the file's lock already, from
\* wiring the one of the API, and nothing was ever stored in the file.
BoltLocked ==
  /\ bolt \in {Empty, Unreadable}
  /\ \A p \in Proc :
       cfg[p].kind = "boltdb" =>
         /\ stage[p] # "serving"
         /\ stage[p] \in {"auth", "http"} => lock = p

\* Of the other processes none is the worse for the exit of one.
LEMMA ExitsBolt ==
  ASSUME IInv, BoltLocked, NEW q \in Proc, NEW next \in {"off", "failed"}, Exits(q, next)
  PROVE  BoltLocked'
<1>1. /\ cfg \in [Proc -> Config] /\ stage \in [Proc -> Stages]
      /\ bolt' = bolt
      /\ cfg' = [cfg EXCEPT ![q] = NoConfig]
      /\ stage' = [stage EXCEPT ![q] = next]
      /\ lock' = IF lock = q THEN Nobody ELSE lock
  BY DEF IInv, TypeOK, Stages, Exits
<1>2. ASSUME NEW p \in Proc, cfg'[p].kind = "boltdb"
      PROVE  stage'[p] # "serving" /\ (stage'[p] \in {"auth", "http"} => lock' = p)
  <2>1. CASE p = q
    BY <1>1, <2>1
  <2>2. CASE p # q
    BY <1>1, <1>2, <2>2 DEF BoltLocked
  <2>3. QED
    BY <2>1, <2>2
<1>3. QED
  BY <1>1, <1>2 DEF BoltLocked, Empty

LEMMA WireStoreBolt ==
  ASSUME IInv, BoltLocked, NEW q \in Proc,
         WireStore(q, "api", "auth") \/ WireStore(q, "http", "serving")
  PROVE  BoltLocked'
<1>1. /\ cfg \in [Proc -> Config] /\ stage \in [Proc -> Stages]
      /\ UNCHANGED <<cfg, bolt>>
  BY DEF IInv, TypeOK, Stages, WireStore
<1>2. \/ stage[q] = "api" /\ stage' = [stage EXCEPT ![q] = "auth"]
      \/ stage[q] = "http" /\ stage' = [stage EXCEPT ![q] = "serving"]
  BY DEF WireStore
<1>3. \/ cfg[q].kind = "boltdb" /\ lock = Nobody /\ lock' = q
      \/ cfg[q].kind # "boltdb" /\ lock' = lock
  BY DEF WireStore, Wired
<1>4. Nobody \notin Proc
  BY ServeAssumption
<1>5. ASSUME NEW p \in Proc, cfg[p].kind = "boltdb"
      PROVE  stage'[p] # "serving" /\ (stage'[p] \in {"auth", "http"} => lock' = p)
  <2>1. CASE p = q
    BY <1>1, <1>2, <1>3, <1>4, <1>5, <2>1 DEF BoltLocked
  <2>2. CASE p # q
    BY <1>1, <1>2, <1>3, <1>4, <1>5, <2>2 DEF BoltLocked
  <2>3. QED
    BY <2>1, <2>2
<1>6. QED
  BY <1>1, <1>5 DEF BoltLocked, Empty

LEMMA NextBolt == IInv /\ BoltLocked /\ [Next]_vars => BoltLocked'
<1> SUFFICES ASSUME IInv, BoltLocked, [Next]_vars PROVE BoltLocked'
  OBVIOUS
<1>0. cfg \in [Proc -> Config] /\ stage \in [Proc -> Stages]
  BY DEF IInv, TypeOK, Stages
<1>1. ASSUME NEW q \in Proc, Start(q) PROVE BoltLocked'
  <2>1. PICK c \in Config : cfg' = [cfg EXCEPT ![q] = c]
    BY <1>1 DEF Start
  <2>2. stage' = [stage EXCEPT ![q] = "api"] /\ bolt' = bolt /\ lock' = lock
    BY <1>1 DEF Start, data
  <2>3. QED
    BY <1>0, <2>1, <2>2 DEF BoltLocked, Empty
<1>2. ASSUME NEW q \in Proc, Startup(q) \/ Stop(q) PROVE BoltLocked'
  <2>1. CASE StoreFails(q) \/ AuthFails(q) \/ Stop(q)
    BY <2>1, ExitsBolt DEF StoreFails, AuthFails, Stop
  <2>2. CASE WireAuth(q)
    <3>1. /\ stage[q] = "auth" /\ stage' = [stage EXCEPT ![q] = "http"]
          /\ cfg' = cfg /\ bolt' = bolt /\ lock' = lock
      BY <2>2 DEF WireAuth, data
    <3>2. QED
      BY <1>0, <3>1 DEF BoltLocked, Empty
  <2>3. CASE WireStore(q, "api", "auth") \/ WireStore(q, "http", "serving")
    BY <2>3, WireStoreBolt
  <2>4. QED
    BY <1>2, <2>1, <2>2, <2>3 DEF Startup
<1>3. ASSUME NEW q \in Proc, NEW token \in Token, NEW l \in Link, NEW d \in Dest,
             New(q, token, l, d)
      PROVE  BoltLocked'
  <2>1. stage[q] = "serving" /\ UNCHANGED <<cfg, stage, lock>>
    BY <1>3 DEF New
  <2>2. cfg[q].kind # "boltdb"
    BY <2>1 DEF BoltLocked
  <2>3. bolt' = bolt
    BY <1>3, <2>2 DEF New, Put
  <2>4. QED
    BY <2>1, <2>3 DEF BoltLocked, Empty
<1>4. CASE EditRows \/ UNCHANGED vars
  BY <1>4 DEF EditRows, proc, data, vars, BoltLocked, Empty
<1>5. QED
  BY <1>1, <1>2, <1>3, <1>4 DEF Next

\* `serve --storage.boltdb.file` never serves, however many processes there are, whatever
\* their other flags, and however often they are started: the second WireStorage
\* (wire_gen.go:57) finds the lock of the first (wire_gen.go:50), and no link is ever stored
\* in the file.  TLC finds one such start (BoltServes); this is all of them.
THEOREM BoltNeverServes ==
  Spec => [](bolt \in {Empty, Unreadable} /\ \A p \in Proc : cfg[p].kind = "boltdb" => stage[p] # "serving")
<1>1. Init => BoltLocked
  BY DEF Init, BoltLocked, NoConfig
<1>2. BoltLocked
        => bolt \in {Empty, Unreadable} /\ \A p \in Proc : cfg[p].kind = "boltdb" => stage[p] # "serving"
  BY DEF BoltLocked
<1>3. QED
  BY InitIInv, NextIInv, NextBolt, <1>1, <1>2, PTL DEF Spec
=============================================================================
