# x40.link: verification project

TLA+ models of the short link service in this repository, the TLC runs that check
them, and TLAPS proofs about them. Source paths are relative to `src/`.

    tlc -config BinarySearch.cfg MCBinarySearch.tla     # one run; PROJECT.json lists all
    tlapm BinarySearchProofs.tla                        # the proofs of one module

## 1. The system

`x40.link serve` redirects HTTP requests for short links and offers a gRPC API to
create and look up links. `@` is its command line client. A link maps a source (host
and path) to a destination.

| component | state | operations | interacts with |
|---|---|---|---|
| storage contract, `storage/storage.go` | a map | `Get`, `Put`, `Owns` | everything that stores |
| memory stores, `storage/memory` | a sorted slice, a Go map or a list, and a `sync.RWMutex` | `Get`, `Put` | called from many goroutines |
| Firestore, `storage/firestore` | documents with an owner, in a database shared by all instances | `Get`, `Put`, `Owns` | remote calls that fail, time out, arrive late |
| BoltDB, `storage/boltdb` | a file, locked while it is open | `New`, `Get`, `Put` | other opens of the file, of any process |
| YAML, `storage/yaml` | a map loaded once | `New`, `Get`, a refused `Put` | the file's editors |
| selection and wiring, `storage/di`, `api/di`, `server/wire_gen.go`, `cmd/serve.go` | flags; what a process ended up with | start-up | all stores, the interceptor |
| HTTP server, `server` | the router; per connection a shared routing context, per request its context | `New` and its options, request matching, `Redirect`, errors | its store, the gRPC server, h2c |
| gRPC API, `api/dev`, `api` | none | `New`, `Get` | its store, `uid`, the interceptor |
| interceptor, `api/auth/jwts` | the table of permissions | `ValidateCtx` | tokens; sets the agent that `Put` records as owner |
| identifiers, `uid` | none | `ID` | `New` |
| token cache, `api/auth/tokens` | the token in memory, a file and a swap file | `NewCachingSource`, `Token`, `File.Read`, `File.Write` | other runs of `@`, the OAuth2 server |
| client, `cli` | none | `@`, `@ resolve` | the API, the token cache |

What is hard, and what makes each part correct:

- *Memory stores.* Goroutines interleave inside a search that moves two bounds over a
  slice another call replaces. Correct: the answers are those of a map each call
  reads or writes at one instant; every call returns.
- *Firestore.* `Put` reads the owner and sets the document in two remote calls; either
  may fail, the process may die between them, and a set outlives its caller. Correct:
  nobody but the owner changes a link.
- *Start-up.* A process is put together from flags, twice per store; an absent option
  and a failed dependency look alike. Correct: it comes up with what was asked for, or
  not at all, and the API and the redirect speak of the same links.
- *Tokens.* The server takes a refresh token once, so a crash between the refresh and
  the save loses the login; the swap file outlives crashes. Correct: the file always
  holds one whole token, the newest, and a user is asked to log in only when it is of
  no use.
- *Requests.* Redirects, RPCs and HTTP/2 connections come in on one port and walk one
  chain of middlewares, and an error travels up that chain in a context. Correct: every
  request gets one answer, the one the store gave, from the handler it is for.
- *Identifiers and retries.* Generated paths can collide, and a client that timed out
  tries again while its first request is under way. Correct: what a user was told of a
  link is true, and stays true until somebody with a right to it changes the link.

## 2. The modules

| module | models | state | actions |
|---|---|---|---|
| `LinkStore` | the promise of `storage.Storer` (abstract) | `links`, and per caller `pc`, `req`, `ret` | `Invoke`, `DoGet`, `DoPut`, `Return` |
| `TokenCell` | the promise of `tokens/storage.Storage` to runs that do not overlap (abstract) | `cell`, the newest token saved; `issued`; `kept`, whether runs have not overlapped | `Issue`, `Save`, `Overlap` |
| `Responder` | what `server` promises of a request (abstract) | per request `phase`, `verdict`, `answer` | `Ask`, `Decide`, `Send`, `Forget` |
| `RWMutex` | Go's `sync.RWMutex` (external) | `mu`: announced writer, readers inside, readers queued | operators that a store's actions use |
| `MemoryStore` | calls, lock and deferred unlock, shared by the memory stores | `pc`, `req`, `ret` | `Invoke`, `GetLock`, `PutLock`, `Return` |
| `BinarySearch` | `binary_search.go` | `idx`, the slice; `s`, the locals of `find` | one per iteration and per exit of `find`, and per branch of `Put` |
| `HashTable` | `hash_table.go` | `table` | `Enter`, `MapRead`, `MapWrite` |
| `Firestore` | `firestore.go` | `docs`; `h`, the request handlers | the read, the check, the set, its effect and its answer, each failure, of which that of a set leaves it on its way, `Crash` |
| `Serve` | wiring and requests of `serve` | flags, stage of start-up, interceptor and the two stores of each process; the YAML and BoltDB files, the Firestore project; which processes' YAML file changed between their two reads | `Start`, `WireStore`, `WireAuth`, failures, `Stop`, `New`, `EditRows`; the read-only requests are operators that give the answer |
| `TokenCache` | `tokens/source.go` over `tokens/storage/storage.go` | files and their bytes, the server's view of each token, the runs of `@` | each system call of `Read` and `Write`, the decision to log in, the asking and the login, refresh, every failure, a kill |
| `HttpServer` | `server.go`, `interceptor.go`, `error.go`, `storage.go`, and what chi, h2c and net/http do around them | flags, options left to apply and the router; the connection, its routing context, and per request its place in the chain, the problem in its context and what was written | `ApplyOption`, `ListenAndServe`; `Arrive`, each handler on the way down and up, `Recover`, `Finish`, `Sent`, `Close` |
| `LinkService` | `DoURL` of `cli/main.go`, `New` of `api/dev/url.go`, `urlToPath`, over the steps of `Firestore` | `net`, the requests on their way; `ans`, what each run of `@` has ended with | `Ask`, `GiveUp`, `Lose`, `Receive`, `EnrichFails`, `Respond`, and every step of `Put` |
| `MCBinarySearch`, `MCFirestore`, `MCServe`, `MCLinkService` | keys, destinations, links and identifiers for TLC | | |
| `MemoryStoreProofs`, `BinarySearchProofs`, `HashTableProofs`, `FirestoreProofs`, `ServeProofs`, `HttpServerProofs`, `LinkServiceProofs`, `TokenCacheProofs` | theorems | | |

`BinarySearch` and `HashTable` extend `MemoryStore`, which extends `RWMutex`; both are
shown to implement `LinkStore` (`Store == INSTANCE LinkStore WITH links <- ...`,
checked as the property `Linearizable`). `Serve` takes a store call as one step, which
that refinement allows for the memory stores; for Firestore it is a simplification,
and `Firestore` is where its steps are. `LinkService` extends `Firestore`: its users are
the callers, and what a `Put` writes is the run of `@` that asked for it, so that every
document tells where it comes from. It is shown to implement `Firestore`
(`ImplementsStore`), which makes whatever holds of every use of the store hold of this
one. `HttpServer` takes the answer of the store as one choice, made when `Redirect` asks;
seen from outside the chain it implements `Responder` (`ImplementsResponder`): where the
handlers are, the shared routing context and the problem in the context disappear, and what
is left of a request is that one handler decides and the decision is what is sent.
`TokenCache` implements `TokenCell` (`ImplementsCell`): a `Rename` is the one step in which
the cell changes, and files, swap files, failures and kills are steps that leave it alone.
Once runs have overlapped (or tokens are of two lengths) the cell promises nothing, since
the run `token_swap` shows that there is nothing to promise.

Abstractions. A URL is an integer in `BinarySearch` (only its order matters) and a model
value elsewhere. In `Serve` a source is a link with or without a scheme, because the code
disagrees with itself about the scheme, and a destination is a scheme and a place, each of
which it may lack, because `New` asks for neither (`url.go:77`) and what it lacks is taken
from another URL: by a browser that follows a `Location`, and by Firestore's `Get`, whose
parameter `url` hides the package, so that `url.Parse` in `firestore.go:45` is the method
of the URL asked for. `Firestore` has the same conversion as the parameter
`ResolveReference`. A token is its number and, in a file, two bytes or, if it is a longer
one, three. Signatures, claims and scopes are a token's being refused, or valid with or
without the scope of `New`. A request is what the matchers and the router look at. A path
is its characters in `LinkService`, where `urlToPath` is about them: `Plus` is the
replacement, `Then` what `path.Join` does with a segment, `.` and `..` included, and
`DocOf` the document, if it is one. An identifier is a member of a set. Wording, logging and rendering are left out.

## 3. What the runs check

| run | instance | shows |
|---|---|---|
| `binary_search` | 2 goroutines, 4 keys, 2 destinations | `Sorted`, `BoundsKeepKey`, `LockHeld`, `SearchEnds`, `NobodyStuck`, `Linearizable`, `CallsReturn` |
| `hash_table` | 3 goroutines, 1 key, 2 destinations | `NoConcurrentMapAccess`, `NobodyStuck`, `Linearizable`, `CallsReturn` |
| `firestore` | 2 handlers, 2 users and anonymous callers, 1 document, 2 destinations | `OwnerSettles`, `CallsEnd` |
| `serve` | 2 processes, every combination of flags, 1 link, 1 destination | `AuthProtects`, `ResolveWorks`, `YamlStoresAgree`, `StartEnds` |
| `tokens` | 2 runs, 3 tokens of one length | `WholeAlone`, `SavedWhenSent`, `LoginOnlyIfNeeded`, `ImplementsCell` |
| `http` | every combination of flags (an API host that is not named, the one of the requests, or another), 3 requests or streams | `StartsUp`, `AnsweredOnce`, `TellsTheTruth`, `RPCsApart`, `Answered`, `WalkEnds`, `ImplementsResponder` |
| `links` | 2 users of 2 runs each, 2 handlers, 2 documents | `AnsweredLives`, `OnlyAsked`, `StoredOnce`, `OwnWritesStand`, `ImplementsStore` |

Each run also checks the type invariant of its module.

Bounds. Four keys make slices of length 0 to 4: `find` halves odd and even intervals,
goes both ways, and inserts at both ends and between; a reader and a writer suffice for
each pair of steps. Three goroutines let a reader queue behind a writer while another
reads, the case in which an RWMutex can starve somebody. Two handlers of two users make
every race for a document, since a document has one owner. One process meets its own lock
and a second one somebody else's. Two runs of `@` and three tokens give a login, a refresh
and a second refresh, with a crash anywhere; four files are one for each run and the two
names. The tokens of the run `tokens` are two bytes, so that a write can fail half way; in
`token_swap` one is longer. In the run `serve` the only destination is one that is just a
path, the reference that takes most from the URL it is seen from, and sources have no
scheme (`SourceScheme`): destinations of every other shape, and sources with a scheme, are
in the theorems `ResolveAgrees` and `YamlStoresSame`. Three requests are the one that becomes an HTTP/2 connection and two streams of
it, which meet in the router at any step of each other. Two runs for each user are a try
and the next, the first of which may be on its way, in a handler, or orphaned in the store
while the second is made; with two paths, one of which may also be generated, users meet
on one document or not at all, and with a third, `.`, there is none. `MaxTokens` bounds the tokens issued and `MaxTries` the runs
of a user; no other counter needs a bound. The run `links` does not check for deadlock:
when every user has made its tries, nothing is left to do. Its handlers and its users are
interchangeable (`Symmetry`), which is sound because all its properties, the refinement
included, are of safety.

Five runs expect a violation. Each is a disagreement between the code and a statement
in the repository, quoted in `PROJECT.json` under `findings`:

| run | what happens |
|---|---|
| `firestore_race` | two users create one link at once; the second takes it from the first |
| `serve_bolt` | `serve --storage.boltdb.file` waits for its own lock, and fails to start |
| `serve_split` | with `--storage.hash-map` the redirect does not know the links the API stores |
| `token_swap` | a left or shared swap file is not truncated: the cache becomes a mix of two tokens |
| `http_h2c` | the streams of an HTTP/2 connection share one routing context: after a POST, every GET is a 405 |

Other disagreements came up that no run is spent on:

- `@ resolve` puts `https://` before its argument, and `Get` looks the link up with it. The
  hash map, the YAML store and BoltDB compare whole URLs and do not find what `New` has
  stored without a scheme. `ResolveWorks` is therefore about Firestore.
- Over Firestore, a destination that was stored without a scheme is answered with the scheme
  of the URL asked for (`firestore.go:36,45`): `//site/page` is `https://site/page` to
  `@ resolve` and still `//site/page` in the redirect's `Location`. `ResolveWorks` says that
  the two lead to one place; they are not one text. A destination that is only a path leads
  both back to the host of the link.
- An edit of the YAML file between the two reads of a start-up leaves a process whose API and
  redirect speak of different links. `YamlStoresAgree` states that nothing else does.
- Without `--auth.x40`, the default of `--auth.jwt.expiration` (`cfg/cfg.go:80`) still makes
  an interceptor, one with an empty table of permissions, which refuses every method, the
  public `Get` (`api/dev/url.proto:42-44`) too. `ResolveWorks` excludes that set of flags.
- A cached token with a refresh token the server no longer takes is kept for ever: every run
  of `@` fails in `Token`, and no run logs the user in again (`source.go:41-43` says it
  does). The same is left by a kill between the server's rotation of a refresh token and the
  save of the new one. `LoginOnlyIfNeeded` states the other half, that nobody logs in without
  need.
- Of two runs of `@` that overlap, one may ask its user to log in when the other has just
  saved a token: what `NewCachingSource` decided is old by then, and nothing locks the file.
  `LoginOnlyIfNeeded` is about runs that do not overlap.
- `--server.api.grpc.host` says that `*` means all (`cfg/cfg.go:94`), and `IsHost` compares
  it to the host of the request like any other, so that no call reaches the API. `RPCsApart`
  promises nothing of that value, and the flags of the run `http` leave it out; what the
  theorems say besides holds of it too.
- A path of `..` or `.` in an API request is cleaned away by `path.Join` (`firestore.go:137`):
  the first is the document of the empty path, the second no document, which is an Internal.
- An API request for a path without its slash is stored under a key the redirect never
  asks for, and answered with a link that has the slash.

## 4. Fairness

- Memory stores: weak fairness of each goroutine's own steps (the Go scheduler runs what
  can run) and of `RLock`, which waits only once and is then in; strong fairness of
  `Lock`, because the writers' part of an RWMutex is a `sync.Mutex`, whose starvation
  mode hands it over to a waiter that has waited for a millisecond.
- `Firestore`: weak fairness of a handler's progress: `doc` has a timeout, the client
  library ends a set, and a message on its way arrives or is lost, a set that failed too.
- `Serve`: weak fairness of start-up, which waits for nothing but a file lock, and for
  that a second.
- `HttpServer`: weak fairness of `New` and of each request's steps through the chain: each
  runs in a goroutine of its own, and nothing in the chain waits. None for the end of a
  connection, which is the client's: a request that has become one is answered for
  (`Answered`) when it is held.
- `LinkService` states safety alone: a network that may lose every request promises nothing.
- Nobody is assumed to make a request, to stop, or to fail.

## 5. What is proved

For every value of the constants (under the named assumptions of the modules: `NoClient`
is nobody, results and requests are told apart, keys are integers):

`BinarySearchProofs`: `TypeCorrect`, `SliceSorted`, `SearchBrackets`, `MutualExclusion`,
`ImplementsLinkStore`, `FindEnds` and `WaitingEnds`. None of the four invariants is inductive alone. The slice
stays sorted because `PutMiss` inserts at the position the bounds leave (`BoundsKeepKey`
when the bounds have met); the bounds stay right because nobody changes the slice during
a search (`LockHeld`); the lock works because calls are where their `pc` says (`TypeOK`).
The inductive invariant is the conjunction of the four, and every action is a step of its
preservation proof. The refinement maps `idx` to the function that looks a key up in it;
the lemmas say what `InsertAt` and an update in place do to that function when the slice
is sorted, and that a search that ends without a hit proves the key absent. `FindEnds` is
arithmetic over the same bounds: a round that ends neither in a hit nor in a miss leaves a
bracket that is not empty and no wider than half of the last one, rounded up, whichever
half it takes.

`MemoryStoreProofs` holds what both memory stores need to show that nobody blocks for ever
by the lock itself (`WaitingEnds` of each, which states `NobodyStuck`). Its invariant
`LockInv` says for every goroutine what it has of the lock at its `pc`, and that the queues
hold nobody else: readers queue only while a writer is announced, and a writer that is
announced is either inside or waits for readers that are. Hence a chain of waiting is at
most two long and ends in a call that needs nobody. `CallKeepsLockInv` proves the steps that
call and return, `WorkKeepsLockInv` every step of a body, which leaves the lock alone, so
that each store only has to say which of its steps are which.

`FirestoreProofs`: `TypeCorrect` and `SettledForGood`. A document is settled when it
exists and every set on its way to it, of a call that failed or a handler that was killed
too, is its owner's. The proof goes action by action:
only `PutReads` adds a set, and its check lets the owner alone pass when the document
exists; only `SetTakesEffect` changes a document, and then to the owner it has.

`HashTableProofs`: `TypeCorrect`, `MapAccessExcludes`, `ImplementsLinkStore` and
`WaitingEnds`. The inductive invariant adds to the types what each goroutine has of the lock at each `pc`
(`Holding`): that whoever is inside the map holds a read or the write lock is what keeps
the others out, and what makes the map's content at `MapRead` and `MapWrite` the instant of
effect that the contract asks for.

`ServeProofs`: `TypeCorrect`, `AuthHolds`, `YamlStoresSame`, `ResolveAgrees` and
`BoltNeverServes`.
`AuthProtects` is about a request and the flags of its process, and start-up puts several
steps between the two; the inductive invariant adds `Wiring`: the interceptor is the one of
the flags from `WireAuth` on, and none before. `ValidateNew` and `ValidateGet` are the
decision itself, for each kind of interceptor. `YamlStoresSame` follows a process from the
first of its reads to its end: `Loaded` says what its stores hold at each stage, the rows of
the file as they are while nobody has edited it, and from then on twice the same, which an
edit, a `New` and the steps of other processes leave alone. `ResolveAgrees` rests on
`ResolveTwice`: a destination that was resolved against a URL without a scheme, and is then
followed from one with a scheme, leads to where it leads from the latter at once. It is proved
for every shape of destination. `BoltNeverServes` makes the finding of `serve_bolt`
one about every start of every process. Its invariant, `BoltLocked`, says that a process
with that flag that has opened its API's store holds the lock of the file (which could be
opened, `Opened`), and that none is serving: to get there one would have to open the file again, which its own lock keeps it
from. The file, which is written only by a process that serves, stays empty.

`HttpServerProofs`: `TypeCorrect`, `NewReturns`, `OneAnswer`, `StatusIsTrue`,
`RPCsReachTheirServer`, `ChainIsLeft` and `ServerIsResponder`. Two facts carry the proof. `Assembled`: what `New` has applied and
what it has left are the two ends of the options of the flags, so that the route is last
and a server that serves has a chain that begins with Recoverer and Error and holds the
gRPC interceptor exactly when the API was wired (`Chain`). `Fits`: where a request is in
that chain decides what can have been written for it. On the way down nothing has been; on
the way up somebody has answered, or has left a problem that Error, the second handler,
writes when the request passes it (`Problem`); a panic leaves nothing behind until
Recoverer, the first. Every step of a request is shown to take it from one of these shapes
to another, whatever the other streams do. `ChainIsLeft` follows a request's `Distance` to
its end, which only its own steps change: each goes one handler down, turns round, or goes one
handler up, a panic too, and Recoverer and the end of the chain are above all of them. `ServerIsResponder` maps every step
to one of `Responder` or a stutter; what it adds is that a request is decided once
(whoever has taken it keeps it, and Error and Recoverer take none), and that a request
leaves the chain with the answer to what was decided, which is where `Fits` is used.

`LinkServiceProofs`: one invariant, `ServiceInv`, gives `PrintedLives`, `DocsAsked`,
`TriesStoreOnce` and `OwnWritesLast`. It follows a try from its user to the document: it is
in one place at a time (`OnePlace`), a handler or a message that carries it means its user
was not answered (`HandlersServe`, `MessagesServe`), and a document of it is the one its
handler has set (`DocsServed`). `OwnWritesLast` needs `StoredLast` and `OwnStand`: a user
who waits for each answer has no other set under way, so that the set that was answered is
the last one. `ServiceImplementsStore` maps every step of the service to a step of
`Firestore` or a stutter, and `ServiceSettles` carries `OwnerSettles` over. A set whose
call was answered with an error may still arrive (`Open`), which is why `OwnWritesLast` is
about users whose runs all ended with a link or with PermissionDenied: those answered
Internal are left out with those that were given up. `PathsApart` says for which links
`urlToPath` is injective, with all that `path.Join` does, and gives a document: hosts that
are neither empty nor `.` nor `..`, and paths that are empty or begin with `/` and hold no
`+`. Each segment is then one that `path.Join` only adds (`ThenAdds`, `ThenKeeps`).

`TokenCacheProofs`: `TypeCorrect`, `WholeIfAlone`, `SavedFirst`, `NoNeedlessLogin` and
`FileIsCell`. The
invariant `Alone` says what a run relies on between its system calls: the file it has open
is still the swap file, the swap file holds one token when it renames it, and the token
file holds the token it is about to send. `OverShort` is why a swap file that a killed run
left does no harm when tokens are of one length. `NoNeedlessLogin` has no such condition
on the tokens, but one on the runs: `Decided` says that what a run has read is what the file
holds when it decides, and that what it has decided is still so when it asks its user, because
no other run has written in between, the server only takes tokens back, and two tokens never
have the same bytes (`HeldOnce`).
`FileIsCell` maps the file to the token it holds. A rename is a `Save` because of `Newest`:
a run that is about to rename, while it is alone, has the last token issued, and the file
holds an older one or none. Every other step leaves the file as it is, because of `Alone`:
nobody writes to the file that `path` names.

The assumptions are those the modules name: who is nobody is none of the clients, users or
files; results, requests and markers are told apart; the hosts of requests are not
empty; what a destination resolves to is a destination; bounds are numbers; the links users
ask for are among the documents, or are none, and no host has a `/` in it.

## 6. What is only model-checked

Liveness (`CallsReturn`, `CallsEnd`, `StartEnds`, `Answered`), because the provers have no
rule for fairness or `ENABLED`. The part of it that is safety is proved: a search narrows
(`SearchEnds`), waiting ends in somebody who can go on (`NobodyStuck`), a request gets
nearer to its answer with each of its steps (`WalkEnds`). What is left to TLC is that these
steps are taken under the fairness of section 4. Every other property of a passing run is
proved as well.
Induction over data and `RECURSIVE` operators are out of reach of the installed provers: no
module here needs them, since `find`'s loop is a sequence of steps and not a recursive
function. That an identifier is the number of its bytes in base 62, and so injective, would
need such an induction; `LinkService` assumes nothing of the kind and lets identifiers
collide.

## 7. What is not modelled

The linear store (tests and benchmarks only; an update appends, and is not seen). The
number in base 62 of an identifier. XML and JSON rendering of an error, and Error's panic
for a context value that is not an error, which nothing in the repository stores. Header
values other than the content type of gRPC and the emptiness that `IsH2C` asks for. How
BoltDB, Firestore, chi, h2c and net/http work inside; what the code relies on of them is
marked external. Arguments that do not parse, exit codes, and how a flag gets its value. The
test doubles, generated code, infrastructure and documentation. A kill is the end of a
process, not of the machine: what the disk loses in a power cut is left out.

## 8. What could come next

1. The stages of `Firestore` in `Serve`: start-up and interceptor over a store with failing
   reads and late sets, instead of one step.
2. `ID` as a number in base 62, checked against a reference definition over small numbers.
