----------------------------- MODULE HttpServer -----------------------------
(***************************************************************************)
(* src/server: how a server is put together from options, and the way of a  *)
(* request through it.  The router of chi is a chain of middlewares before  *)
(* a route; a request walks down the chain until one of its handlers        *)
(* answers, and back up, where Error renders what Redirect left in the      *)
(* context.  A connection that opens with the HTTP/2 preface is handed to   *)
(* h2c, which sends each of its streams down the same router.               *)
(***************************************************************************)
EXTENDS Naturals, Sequences

CONSTANTS Stream,   \* requests in progress on a connection
          Host,     \* the hosts that requests name
          ApiHost   \* the values of --server.api.grpc.host

ASSUME HostAssumption == "" \notin Host

\* The flags: --server.protocol.h2c.enabled, an API that could be wired, and
\* --server.api.grpc.host, where "" is no restriction.
Flags == [h2c : BOOLEAN, api : BOOLEAN, grpcHost : ApiHost]

\* A request, as far as a matcher, the router or a handler looks at it.
Request ==
  [method : {"GET", "POST"}, proto : {"HTTP/1.1", "HTTP/2.0"}, path : {"/"}, type : {"", "grpc"},
   host : Host]

\* PRI * HTTP/2.0, which has no headers.
Preface ==
  [method |-> "PRI", proto |-> "HTTP/2.0", path |-> "*", type |-> "", host |-> ""]

Idle == [at |-> "idle"]

VARIABLES flags,  \* of the process
          todo,   \* the options New has yet to apply
          mux,    \* the router: its middlewares, and whether it has a route
          life,   \* "building", "serving" or "panicked"
          conn,   \* "http1", or "h2" after a preface
          route,  \* RouteMethod of the routing context the requests share; "" if unset
          rq      \* the requests

server == <<flags, todo, mux, life>>

vars == <<server, conn, route, rq>>

\* Options whose order lets a route come before a middleware.
MutOptions(f) ==
  <<"Recoverer", "Error", "Storage">>
    \o (IF f.h2c THEN <<"H2C">> ELSE << >>)
    \o (IF f.api THEN <<"GRPC">> ELSE << >>)

\* defaultOptions, and those of ResolveOptions; the ones that only set the address are left
\* out.
Options(f) ==
  <<"Recoverer", "Error">>
    \o (IF f.h2c THEN <<"H2C">> ELSE << >>)
    \o (IF f.api THEN <<"GRPC">> ELSE << >>)
    \o <<"Storage">>

Init ==
  /\ flags \in Flags
  /\ todo = Options(flags)
  /\ mux = [uses |-> << >>, routed |-> FALSE]
  /\ life = "building"
  /\ conn = "http1"
  /\ route = ""
  /\ rq = [s \in Stream |-> Idle]

-----------------------------------------------------------------------------
\* WithMiddleware, WithH2C and WithGRPC call Use, which panics once the router has a
\* route; WithStorage calls Get.
ApplyOption ==
  /\ life = "building"
  /\ todo # << >>
  /\ todo' = Tail(todo)
  /\ \/ /\ Head(todo) = "Storage"
        /\ mux' = [mux EXCEPT !.routed = TRUE]
        /\ life' = life
     \/ /\ Head(todo) # "Storage"
        /\ ~ mux.routed
        /\ mux' = [mux EXCEPT !.uses = Append(@, Head(todo))]
        /\ life' = life
     \/ /\ Head(todo) # "Storage"
        /\ mux.routed
        /\ life' = "panicked"
        /\ mux' = mux
  /\ UNCHANGED <<flags, conn, route, rq>>

ListenAndServe ==
  /\ life = "building"
  /\ todo = << >>
  /\ life' = "serving"
  /\ UNCHANGED <<flags, todo, mux, conn, route, rq>>

-----------------------------------------------------------------------------
IsH2C(r) == r.method = "PRI" /\ r.type = "" /\ r.path = "*" /\ r.proto = "HTTP/2.0"

IsGRPC(r) == r.type = "grpc" /\ r.proto = "HTTP/2.0"

\* A matcher that looks at the host alone.
MutToGRPC(r) == flags.grpcHost \in {"", r.host}

\* The filters of WithGRPC.
ToGRPC(r) == IsGRPC(r) /\ (flags.grpcHost # "" => r.host = flags.grpcHost)

\* at: "down" or "up" the chain at handler pos, "held" by the connection it became, "find"
\* in the router, "panic" unwinding, "done".  err: the problem in the context.  wrote: the
\* statuses written.  looked: what the store said.  by: the handler that took the request.
Started(r) ==
  [at |-> "down", pos |-> 1, r |-> r, err |-> 0, wrote |-> << >>, looked |-> "no", by |-> "none"]

Busy(s) == rq[s].at \notin {"idle", "done"}

\* A connection speaks HTTP/1.1, one request after the other, until a preface; then its
\* streams are concurrent.
Arrive(s) ==
  /\ life = "serving"
  /\ rq[s].at = "idle"
  /\ \/ /\ \A t \in Stream : rq[t].at = "idle"
        /\ \E r \in Request \cup {Preface} :
             (r = Preface \/ r.proto = "HTTP/1.1") /\ rq' = [rq EXCEPT ![s] = Started(r)]
     \/ /\ conn = "h2"
        /\ \E r \in Request : r.proto = "HTTP/2.0" /\ rq' = [rq EXCEPT ![s] = Started(r)]
  /\ UNCHANGED <<server, conn, route>>

At(s, at) == Busy(s) /\ rq[s].at = at

\* The next handler of s on its way down or up.
Handler(s) == IF rq[s].pos \in 1 .. Len(mux.uses) THEN mux.uses[rq[s].pos] ELSE "Route"

Moves(s, state) == rq' = [rq EXCEPT ![s] = state]

\* A handler answers with a status and returns.
Answers(s, status, by) ==
  Moves(s, [rq[s] EXCEPT !.at = "up", !.pos = @ - 1, !.wrote = Append(@, status), !.by = by])

\* Recoverer and Error call the next handler, and so does Intercept for a request that does
\* not match.
Passes(s) ==
  /\ At(s, "down")
  /\ \/ Handler(s) \in {"Recoverer", "Error"}
     \/ Handler(s) = "H2C" /\ ~ IsH2C(rq[s].r)
     \/ Handler(s) = "GRPC" /\ ~ ToGRPC(rq[s].r)
  /\ Moves(s, [rq[s] EXCEPT !.pos = @ + 1])
  /\ UNCHANGED <<server, conn, route>>

\* h2c takes the connection over, writes no answer, and returns when the connection ends.
\* The requests of its streams inherit the context of this one, and with it one routing
\* context.
InterceptH2C(s) ==
  /\ At(s, "down")
  /\ Handler(s) = "H2C" /\ IsH2C(rq[s].r)
  /\ Moves(s, [rq[s] EXCEPT !.at = "held", !.by = "h2c"])
  /\ conn' = "h2"
  /\ UNCHANGED <<server, route>>

\* The gRPC server answers calls, which are POSTs.
InterceptGRPC(s) ==
  /\ At(s, "down")
  /\ Handler(s) = "GRPC" /\ ToGRPC(rq[s].r)
  /\ Answers(s, IF rq[s].r.method = "POST" THEN 200 ELSE 405, "grpc")
  /\ UNCHANGED <<server, conn, route>>

\* A routing context that one request has to itself.
MutTakeMethod(s) ==
  /\ At(s, "down")
  /\ Handler(s) = "Route"
  /\ \A t \in Stream \ {s} : ~ Busy(t)
  /\ Moves(s, [rq[s] EXCEPT !.at = "find"])
  /\ route' = rq[s].r.method
  /\ UNCHANGED <<server, conn>>

\* The router takes the method of a request, unless its routing context already has one.
\* Streams that do so at the same time do not exclude each other.
TakeMethod(s) ==
  /\ At(s, "down")
  /\ Handler(s) = "Route"
  /\ Moves(s, [rq[s] EXCEPT !.at = "find"])
  /\ \/ route = "" /\ route' = rq[s].r.method
     \/ route # "" /\ route' = route
     \/ (\E t \in Stream \ {s} : At(t, "find")) /\ route' = rq[s].r.method
  /\ UNCHANGED <<server, conn>>

\* The only route is that of GET.
NotAllowed(s) ==
  /\ At(s, "find")
  /\ route # "GET"
  /\ Answers(s, 405, "router")
  /\ UNCHANGED <<server, conn, route>>

Returns(s, looked) ==
  [rq[s] EXCEPT !.at = "up", !.pos = @ - 1, !.by = "redirect", !.looked = looked]

\* Whatever the store's error is, the link is not there.
MutRedirectFails(s) ==
  /\ At(s, "find")
  /\ route = "GET"
  /\ \/ Moves(s, [Returns(s, "missing") EXCEPT !.err = 404])
     \/ Moves(s, [Returns(s, "failed") EXCEPT !.err = 404])
  /\ UNCHANGED <<server, conn, route>>

\* Redirect of a link that is not there, or that the store fails to read: the problem goes
\* into the context of the request.
RedirectFails(s) ==
  /\ At(s, "find")
  /\ route = "GET"
  /\ \/ Moves(s, [Returns(s, "missing") EXCEPT !.err = 404])
     \/ Moves(s, [Returns(s, "failed") EXCEPT !.err = 500])
  /\ UNCHANGED <<server, conn, route>>

\* A permanent redirect, which a browser does not ask for again.
MutRedirectFinds(s) ==
  /\ At(s, "find")
  /\ route = "GET"
  /\ Moves(s, [Returns(s, "found") EXCEPT !.wrote = Append(@, 308)])
  /\ UNCHANGED <<server, conn, route>>

\* Redirect of a link that is there.
RedirectFinds(s) ==
  /\ At(s, "find")
  /\ route = "GET"
  /\ Moves(s, [Returns(s, "found") EXCEPT !.wrote = Append(@, 307)])
  /\ UNCHANGED <<server, conn, route>>

\* The store panics.
RedirectPanics(s) ==
  /\ At(s, "find")
  /\ route = "GET"
  /\ Moves(s, [Returns(s, "panicked") EXCEPT !.at = "panic"])
  /\ UNCHANGED <<server, conn, route>>

\* Error, after the handlers below it: a problem in the context is written.
MutRenderError(s) ==
  /\ At(s, "up")
  /\ Handler(s) = "Error"
  /\ Moves(s, [rq[s] EXCEPT !.pos = @ - 1, !.wrote = Append(@, IF rq[s].err # 0 THEN rq[s].err ELSE 200)])
  /\ UNCHANGED <<server, conn, route>>

RenderError(s) ==
  /\ At(s, "up")
  /\ Handler(s) = "Error"
  /\ Moves(s, [rq[s] EXCEPT !.pos = @ - 1,
                            !.wrote = IF rq[s].err # 0 THEN Append(@, rq[s].err) ELSE @])
  /\ UNCHANGED <<server, conn, route>>

\* A Recoverer that tries the handlers below it once more.
MutRecover(s) ==
  /\ At(s, "panic")
  /\ Handler(s) = "Recoverer"
  /\ Moves(s, [rq[s] EXCEPT !.at = "down", !.looked = "no", !.by = "none"])
  /\ UNCHANGED <<server, conn, route>>

\* Recoverer, when something below it has panicked.
Recover(s) ==
  /\ At(s, "panic")
  /\ Handler(s) = "Recoverer"
  /\ Answers(s, 500, rq[s].by)
  /\ UNCHANGED <<server, conn, route>>

\* The other handlers do nothing after the next one, and nothing in a panic.
Unwinds(s) ==
  /\ \/ At(s, "up") /\ Handler(s) \in {"Recoverer", "H2C", "GRPC"}
     \/ At(s, "panic") /\ Handler(s) # "Recoverer"
  /\ rq[s].pos > 0
  /\ Moves(s, [rq[s] EXCEPT !.pos = @ - 1])
  /\ UNCHANGED <<server, conn, route>>

\* The chain is left, and net/http sends what was written.
Finish(s) ==
  /\ At(s, "up") \/ At(s, "panic")
  /\ rq[s].pos = 0
  /\ Moves(s, [rq[s] EXCEPT !.at = "done"])
  /\ UNCHANGED <<server, conn, route>>

\* The routing context of an HTTP/1.1 request goes back to its pool.
Sent(s) ==
  /\ rq[s].at = "done"
  /\ Moves(s, Idle)
  /\ route' = IF conn = "http1" THEN "" ELSE route
  /\ UNCHANGED <<server, conn>>

\* An HTTP/2 connection ends, its streams before it.
Close(s) ==
  /\ At(s, "held")
  /\ \A t \in Stream \ {s} : rq[t].at = "idle"
  /\ Moves(s, [rq[s] EXCEPT !.at = "up", !.pos = @ - 1])
  /\ conn' = "http1"
  /\ route' = ""
  /\ UNCHANGED server

Step(s) ==
  \/ Passes(s)
  \/ InterceptH2C(s)
  \/ InterceptGRPC(s)
  \/ TakeMethod(s)
  \/ NotAllowed(s)
  \/ RedirectFails(s)
  \/ RedirectFinds(s)
  \/ RedirectPanics(s)
  \/ RenderError(s)
  \/ Recover(s)
  \/ Unwinds(s)
  \/ Finish(s)

Build == ApplyOption \/ ListenAndServe

Next == Build \/ \E s \in Stream : Arrive(s) \/ Step(s) \/ Sent(s) \/ Close(s)

Spec == Init /\ [][Next]_vars

\* A goroutine that can run does: New, and the handlers of each request.  Nobody has to
\* send a request, or to end a connection.
FairSpec == Spec /\ WF_vars(Build) /\ \A s \in Stream : WF_vars(Step(s))

-----------------------------------------------------------------------------
InFlight ==
  [at : {"down", "up", "held", "find", "panic", "done"}, pos : Nat, r : Request \cup {Preface},
   err : {0, 404, 500}, wrote : Seq({200, 307, 404, 405, 500}),
   looked : {"no", "found", "missing", "failed", "panicked"},
   by : {"none", "h2c", "grpc", "router", "redirect"}]

\* The types of the state of server.New and of the requests on a connection; no handler
\* writes a status but the five, among which the redirect is a temporary one.
TypeOK ==
  /\ flags \in Flags
  /\ todo \in Seq({"Recoverer", "Error", "H2C", "GRPC", "Storage"})
  /\ mux \in [uses : Seq({"Recoverer", "Error", "H2C", "GRPC"}), routed : BOOLEAN]
  /\ life \in {"building", "serving", "panicked"}
  /\ conn \in {"http1", "h2"}
  /\ route \in {"", "GET", "POST", "PRI"}
  /\ rq \in [Stream -> {Idle} \cup InFlight]

\* New never panics: chi's Use refuses a middleware once WithStorage has added the route,
\* and the options of ResolveOptions and defaultOptions never come to that, whatever the
\* flags.
StartsUp == life # "panicked"

\* Every request gets one answer: Recoverer, Error, the router, the gRPC server and Redirect
\* all write to the same response, and what one leaves in the request's context another
\* has to find; nobody writes a second status, and nobody's answer is left out.
AnsweredOnce ==
  \A s \in Stream :
    Busy(s) \/ rq[s].at = "done" =>
      /\ Len(rq[s].wrote) <= 1
      /\ rq[s].at = "done" /\ rq[s].by # "h2c" => Len(rq[s].wrote) = 1

\* The answer is what the store said: a redirect for a link it has, 404 only for one it does
\* not have, and 500 when it failed or panicked.  Redirect itself knows; Error and Recoverer,
\* up the chain, write.
TellsTheTruth ==
  \A s \in Stream :
    rq[s].at = "done" =>
      /\ rq[s].looked = "found" => rq[s].wrote = <<307>>
      /\ rq[s].looked = "missing" <=> rq[s].wrote = <<404>>
      /\ rq[s].looked \in {"failed", "panicked"} <=> rq[s].wrote = <<500>>

\* The way of a request says what it was: WithGRPC's server gets HTTP/2 requests of gRPC's
\* type for its host alone, and what it should get is not looked up as a link, whether or
\* not there are other middlewares and other streams on the connection.  The host of the
\* flag is a name: `*`, which its usage says means all (cfg.go:94), and which IsHost
\* compares like any other, is left out of what is promised.
RPCsApart ==
  \A s \in Stream :
    rq[s].at = "done" /\ flags.grpcHost # "*" =>
      ( rq[s].by = "grpc" <=>
          /\ flags.api
          /\ flags.h2c
          /\ rq[s].r.type = "grpc"
          /\ rq[s].r.proto = "HTTP/2.0"
          /\ flags.grpcHost \in {"", rq[s].r.host} )

\* New comes to an end, and so does every request, unless it has become the connection that
\* carries the others: no handler of the chain waits for another request.
Answered ==
  /\ life = "building" ~> life = "serving"
  /\ \A s \in Stream :
       Busy(s) ~> rq[s].at = "done" \/ (rq[s].at = "held" /\ conn = "h2")

\* What a request looks like from outside the chain.
PhaseOf(q) == IF q.at = "idle" THEN "idle" ELSE IF q.at = "done" THEN "sent" ELSE "asked"

VerdictOf(q) ==
  IF q.at = "idle" THEN "none"
  ELSE IF q.by # "redirect" THEN q.by
  ELSE IF q.looked = "panicked" THEN "failed"
  ELSE q.looked

AnswerOf(q) == IF q.at = "done" THEN q.wrote ELSE << >>

Outside == INSTANCE Responder WITH
  phase <- [s \in Stream |-> PhaseOf(rq[s])],
  verdict <- [s \in Stream |-> VerdictOf(rq[s])],
  answer <- [s \in Stream |-> AnswerOf(rq[s])]

\* A request is decided once, by one handler, and the answer that is sent is the one that
\* was decided (server.go:28-31: Recoverer and Error stay out of what the others do), with
\* any streams beside it, on a connection they share.
ImplementsResponder == Outside!Spec

\* How far a request is from its answer: down the rest of the chain, to the router, and all
\* the way up.
Distance(q) ==
  IF q.at = "down" THEN 2 * Len(mux.uses) + 4 - q.pos
  ELSE IF q.at = "find" THEN Len(mux.uses) + 2
  ELSE IF q.at = "done" THEN 0
  ELSE q.pos + 1

\* Whatever the handlers do, a step of a request takes it nearer to its end: none calls the
\* next one twice or starts the chain over, not even after a panic (error.go:35-76,
\* interceptor.go:83-98), and none leaves the chain at a handler it has not entered.
WalkEnds ==
  [][\A s \in Stream :
       Busy(s) /\ rq'[s] # rq[s] => Distance(rq[s])' \in 0 .. Distance(rq[s]) - 1]_vars

\* Every GET that the router gets is looked up by Redirect: server.go:78 routes GET /* to it,
\* and storage.go:16 says that it "receives a request, and if it matches a storage,
\* responds".
GetsLookedUp ==
  \A s \in Stream : rq[s].at = "done" /\ rq[s].r.method = "GET" => rq[s].by # "router"
=============================================================================
