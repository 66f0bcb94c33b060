-------------------------- MODULE HttpServerProofs --------------------------
(***************************************************************************)
(* For any requests and hosts: server.New never panics, and every request   *)
(* is answered once, with what the store said, by the handler it is for.    *)
(* The options New applies fix the order of the handlers (Assembled); where *)
(* a request is in that chain fixes what may have been written of its       *)
(* answer (Fits).                                                           *)
(***************************************************************************)
EXTENDS HttpServer, SequenceTheorems, TLAPS

Middleware == {"Recoverer", "Error", "H2C", "GRPC"}

\* A chain of handlers that Recoverer and Error come before the interceptors of.
Chain(f, u) ==
  /\ u \in Seq(Middleware)
  /\ Len(u) >= 2
  /\ \A i \in 1 .. Len(u) :
       /\ u[i] = "Recoverer" <=> i = 1
       /\ u[i] = "Error" <=> i = 2
       /\ u[i] = "H2C" => f.h2c
  /\ f.api => \E i \in 1 .. Len(u) : u[i] = "GRPC"
  /\ \A i \in 1 .. Len(u) : u[i] = "GRPC" => f.api

\* How far New is: the options it has applied are a part of the chain, in order, and those
\* left are the others.
Assembled ==
  LET o == Options(flags)
  IN  /\ life \in {"building", "serving"}
      /\ life = "serving" => todo = << >>
      /\ mux.routed <=> todo = << >>
      /\ Len(mux.uses) + Len(todo) = IF mux.routed THEN Len(o) - 1 ELSE Len(o)
      /\ \A i \in 1 .. Len(mux.uses) : mux.uses[i] = o[i]
      /\ \A i \in 1 .. Len(todo) : todo[i] = o[Len(o) - Len(todo) + i]

\* A call of the API, as WithGRPC's filters see it.
RPC(f, r) == IsGRPC(r) /\ (f.grpcHost # "" => r.host = f.grpcHost)

\* On the way down nothing is written, and no handler above has taken the request.
Down(f, u, q) ==
  /\ q.at \in {"down", "find"}
  /\ q.pos \in 1 .. Len(u) + 1
  /\ q.at = "find" => q.pos = Len(u) + 1
  /\ q.err = 0 /\ q.wrote = << >> /\ q.looked = "no" /\ q.by = "none"
  /\ \A i \in 1 .. q.pos - 1 : u[i] = "GRPC" => ~ RPC(f, q.r)

\* A connection was taken over.
Held(u, q) ==
  /\ q.at = "held"
  /\ q.pos \in 1 .. Len(u)
  /\ q.err = 0 /\ q.wrote = << >> /\ q.looked = "no" /\ q.by = "h2c"
  /\ q.r.type = ""

\* A panic has yet to reach Recoverer, the first of the chain.
Panicking(f, u, q) ==
  /\ q.at = "panic"
  /\ q.pos \in 1 .. Len(u)
  /\ q.err = 0 /\ q.wrote = << >> /\ q.looked = "panicked" /\ q.by = "redirect"
  /\ ~ (f.api /\ RPC(f, q.r))

\* A problem in the context is written by Error, the second of the chain.
Problem(q, status) ==
  /\ q.by = "redirect"
  /\ q.err = status
  /\ q.wrote = IF q.pos >= 2 THEN << >> ELSE <<status>>

\* On the way up somebody has taken the request.
Up(f, u, q) ==
  /\ q.at \in {"up", "done"}
  /\ q.pos \in 0 .. Len(u)
  /\ q.at = "done" => q.pos = 0
  /\ q.by = "grpc" <=> f.api /\ RPC(f, q.r)
  /\ \/ q.by = "h2c" /\ q.err = 0 /\ q.wrote = << >> /\ q.looked = "no"
     \/ q.by = "grpc" /\ q.err = 0 /\ q.wrote \in {<<200>>, <<405>>} /\ q.looked = "no"
     \/ q.by = "router" /\ q.err = 0 /\ q.wrote = <<405>> /\ q.looked = "no"
     \/ q.by = "redirect" /\ q.err = 0 /\ q.wrote = <<307>> /\ q.looked = "found"
     \/ Problem(q, 404) /\ q.looked = "missing"
     \/ Problem(q, 500) /\ q.looked = "failed"
     \/ q.by = "redirect" /\ q.err = 0 /\ q.wrote = <<500>> /\ q.looked = "panicked" /\ q.pos = 0

Fits(f, u, q) ==
  /\ q \in InFlight
  /\ q.r.type = "grpc" /\ q.r.proto = "HTTP/2.0" => f.h2c
  /\ Down(f, u, q) \/ Held(u, q) \/ Panicking(f, u, q) \/ Up(f, u, q)

Walking ==
  \A s \in Stream : rq[s] = Idle \/ (life = "serving" /\ Fits(flags, mux.uses, rq[s]))

IInv == TypeOK /\ Assembled /\ (conn = "h2" => flags.h2c) /\ Walking

-----------------------------------------------------------------------------
\* One more option at the end of some.
LEMMA Joined ==
  ASSUME NEW S, NEW q \in Seq(S), NEW e \in S
  PROVE  /\ q \o <<e>> \in Seq(S)
         /\ Len(q \o <<e>>) = Len(q) + 1
         /\ \A i \in 1 .. Len(q) : (q \o <<e>>)[i] = q[i]
         /\ (q \o <<e>>)[Len(q) + 1] = e
BY AppendIsConcat, AppendProperties

\* The options of every setting of the flags: WithStorage is the last.
LEMMA OptionsFacts ==
  ASSUME NEW f \in Flags
  PROVE  LET o == Options(f)
         IN  /\ o \in Seq(Middleware \cup {"Storage"})
             /\ Len(o) >= 3
             /\ o[1] = "Recoverer" /\ o[2] = "Error" /\ o[Len(o)] = "Storage"
             /\ \A i \in 3 .. Len(o) - 1 :
                  /\ o[i] \in {"H2C", "GRPC"}
                  /\ o[i] = "H2C" => f.h2c
                  /\ o[i] = "GRPC" => f.api
             /\ f.api => \E i \in 3 .. Len(o) - 1 : o[i] = "GRPC"
<1> DEFINE S == Middleware \cup {"Storage"}
           defaults == <<"Recoverer", "Error">>
           h2c == IF f.h2c THEN <<"H2C">> ELSE << >>
           grpc == IF f.api THEN <<"GRPC">> ELSE << >>
           x == defaults \o h2c
           y == x \o grpc
<1>1. {"Recoverer", "Error", "H2C", "GRPC", "Storage"} \subseteq S
  BY DEF Middleware
<1>2. defaults \in Seq(S) /\ Len(defaults) = 2 /\ defaults[1] = "Recoverer" /\ defaults[2] = "Error"
  BY <1>1
<1>3. Options(f) = y \o <<"Storage">>
  BY DEF Options
<1>4. (f.h2c => h2c = <<"H2C">>) /\ (~ f.h2c => h2c = << >>)
  OBVIOUS
<1>5. (f.api => grpc = <<"GRPC">>) /\ (~ f.api => grpc = << >>)
  OBVIOUS
<1> HIDE DEF S, defaults, h2c, grpc
<1>6. /\ x \in Seq(S) /\ Len(x) >= 2
      /\ x[1] = "Recoverer" /\ x[2] = "Error"
      /\ \A i \in 3 .. Len(x) : x[i] = "H2C" /\ f.h2c
  <2>1. CASE f.h2c
    <3> DEFINE j == defaults \o <<"H2C">>
    <3>0. defaults \in Seq(S) /\ "H2C" \in S
      BY <1>1, <1>2
    <3>1. /\ j \in Seq(S) /\ Len(j) = Len(defaults) + 1 /\ j[Len(defaults) + 1] = "H2C"
          /\ \A i \in 1 .. Len(defaults) : j[i] = defaults[i]
      BY ONLY <3>0, Joined
    <3>2. x = j
      BY <1>4, <2>1
    <3> HIDE DEF j
    <3>3. QED
      BY <1>2, <2>1, <3>1, <3>2
  <2>2. CASE ~ f.h2c
    <3>1. defaults \o << >> = defaults
      BY ONLY <1>2, ConcatEmptySeq
    <3>2. x = defaults
      BY ONLY <1>4, <2>2, <3>1
    <3>3. QED
      BY <1>2, <3>2
  <2>3. QED
    BY <2>1, <2>2
<1> HIDE DEF x
<1>7. /\ y \in Seq(S) /\ Len(y) >= 2
      /\ y[1] = "Recoverer" /\ y[2] = "Error"
      /\ \A i \in 3 .. Len(y) :
           /\ y[i] \in {"H2C", "GRPC"}
           /\ y[i] = "H2C" => f.h2c
           /\ y[i] = "GRPC" => f.api
      /\ f.api => Len(y) >= 3 /\ y[Len(y)] = "GRPC"
  <2>1. CASE f.api
    <3> DEFINE j == x \o <<"GRPC">>
    <3>1. /\ j \in Seq(S) /\ Len(j) = Len(x) + 1 /\ j[Len(x) + 1] = "GRPC"
          /\ \A i \in 1 .. Len(x) : j[i] = x[i]
      BY <1>1, <1>6, Joined
    <3>2. y = j
      BY <1>5, <2>1
    <3> HIDE DEF j
    <3>3. QED
      BY <1>6, <2>1, <3>1, <3>2
  <2>2. CASE ~ f.api
    <3>1. x \o << >> = x
      BY ONLY <1>6, ConcatEmptySeq
    <3>2. y = x
      BY ONLY <1>5, <2>2, <3>1
    <3>3. QED
      BY <1>6, <2>2, <3>2
  <2>3. QED
    BY <2>1, <2>2
<1> HIDE DEF y
<1>8. /\ y \o <<"Storage">> \in Seq(S)
      /\ Len(y \o <<"Storage">>) = Len(y) + 1
      /\ \A i \in 1 .. Len(y) : (y \o <<"Storage">>)[i] = y[i]
      /\ (y \o <<"Storage">>)[Len(y) + 1] = "Storage"
  BY <1>1, <1>7, Joined
<1> DEFINE o == Options(f)
<1>9. /\ o \in Seq(S) /\ Len(o) = Len(y) + 1 /\ o[Len(y) + 1] = "Storage"
      /\ \A i \in 1 .. Len(y) : o[i] = y[i]
  BY <1>3, <1>8
<1> HIDE DEF o
<1>10. Len(y) \in Nat
  BY <1>7
<1>11. QED
  BY <1>7, <1>9, <1>10 DEF o, S

\* The chain of a server that serves.
LEMMA ServingChain ==
  ASSUME TypeOK, Assembled, life = "serving"
  PROVE  Chain(flags, mux.uses)
<1> DEFINE o == Options(flags)
           u == mux.uses
<1>1. u \in Seq(Middleware) /\ flags \in Flags
  BY DEF TypeOK, Middleware
<1>2. /\ Len(o) >= 3 /\ Len(o) \in Nat
      /\ o[1] = "Recoverer" /\ o[2] = "Error"
      /\ \A i \in 3 .. Len(o) - 1 :
           /\ o[i] \in {"H2C", "GRPC"}
           /\ o[i] = "H2C" => flags.h2c
           /\ o[i] = "GRPC" => flags.api
      /\ flags.api => \E i \in 3 .. Len(o) - 1 : o[i] = "GRPC"
  BY <1>1, OptionsFacts
<1>3. todo = << >> /\ mux.routed /\ Len(u) + Len(todo) = Len(o) - 1
  BY DEF Assembled
<1>4. \A i \in 1 .. Len(u) : u[i] = o[i]
  BY DEF Assembled
<1> HIDE DEF o, u
<1>5. Len(u) \in Nat /\ Len(u) = Len(o) - 1
  BY <1>1, <1>2, <1>3
<1>6. u[1] = "Recoverer" /\ u[2] = "Error" /\ \A i \in 3 .. Len(u) : u[i] = o[i]
  BY <1>2, <1>4, <1>5
<1>7. ASSUME NEW i \in 1 .. Len(u)
      PROVE  /\ u[i] = "Recoverer" <=> i = 1
             /\ u[i] = "Error" <=> i = 2
             /\ u[i] = "H2C" => flags.h2c
             /\ u[i] = "GRPC" => flags.api
  <2>1. CASE i \in {1, 2}
    BY <1>6, <2>1
  <2>2. CASE i \in 3 .. Len(u)
    BY <1>2, <1>5, <1>6, <2>2
  <2>3. QED
    BY <1>5, <2>1, <2>2
<1>8. flags.api => \E i \in 1 .. Len(u) : u[i] = "GRPC"
  BY <1>2, <1>5, <1>6
<1>9. QED
  BY <1>1, <1>2, <1>5, <1>7, <1>8 DEF Chain, u

-----------------------------------------------------------------------------
\* A sequence that is not empty, and what is left of it behind its first element.
LEMMA Rest ==
  ASSUME NEW S, NEW q \in Seq(S), q # << >>
  PROVE  /\ Len(q) \in Nat
         /\ Len(q) >= 1
         /\ Head(q) = q[1]
         /\ Tail(q) \in Seq(S)
         /\ Len(Tail(q)) = Len(q) - 1
         /\ \A i \in 1 .. Len(q) - 1 : Tail(q)[i] = q[i + 1]
         /\ Tail(q) = << >> <=> Len(q) = 1
<1>1. Len(q) \in Nat /\ Len(q) >= 1
  BY EmptySeq
<1>2. Tail(q) \in Seq(S) /\ Len(Tail(q)) = Len(q) - 1
  BY HeadTailProperties
<1>3. \A i \in 1 .. Len(q) - 1 : Tail(q)[i] = q[i + 1]
  BY <1>2, HeadTailProperties
<1>4. Tail(q) = << >> <=> Len(Tail(q)) = 0
  BY <1>2, EmptySeq
<1>5. QED
  BY <1>1, <1>2, <1>3, <1>4

LEMMA InitIInv == Init => IInv
<1> SUFFICES ASSUME Init PROVE IInv
  OBVIOUS
<1> DEFINE o == Options(flags)
<1>1. flags \in Flags /\ todo = o /\ life = "building" /\ conn = "http1" /\ route = ""
  BY DEF Init
<1>2. mux = [uses |-> << >>, routed |-> FALSE] /\ rq = [s \in Stream |-> Idle]
  BY DEF Init
<1>3. o \in Seq(Middleware \cup {"Storage"}) /\ Len(o) >= 3
  BY <1>1, OptionsFacts
<1> HIDE DEF o
<1>4. o \in Seq({"Recoverer", "Error", "H2C", "GRPC", "Storage"})
  <2>1. Middleware \cup {"Storage"} = {"Recoverer", "Error", "H2C", "GRPC", "Storage"}
    BY DEF Middleware
  <2>2. QED
    BY ONLY <1>3, <2>1
<1>5. << >> \in Seq({"Recoverer", "Error", "H2C", "GRPC"})
  BY EmptySeq
<1>6. TypeOK
  BY <1>1, <1>2, <1>4, <1>5 DEF TypeOK
<1>7. Assembled
  <2>1. mux.uses = << >> /\ ~ mux.routed /\ Len(mux.uses) = 0
    BY <1>2
  <2>2. Len(o) \in Nat
    BY ONLY <1>3, LenProperties
  <2>3. o # << >>
    <3>1. Len(<< >>) = 0
      OBVIOUS
    <3>2. QED
      BY ONLY <1>3, <3>1
  <2>4. \A i \in 1 .. Len(todo) : todo[i] = o[Len(o) - Len(todo) + i]
    <3>1. \A i \in 1 .. Len(o) : Len(o) - Len(o) + i = i
      BY <2>2
    <3>2. QED
      BY <1>1, <3>1
  <2>5. Len(mux.uses) + Len(todo) = Len(o)
    <3>1. Len(todo) = Len(o)
      BY <1>1
    <3>2. QED
      BY ONLY <2>1, <2>2, <3>1
  <2>6. \A i \in 1 .. Len(mux.uses) : mux.uses[i] = o[i]
    BY <2>1
  <2>7. QED
    BY <1>1, <2>1, <2>3, <2>4, <2>5, <2>6 DEF Assembled, o
<1>8. Walking
  BY <1>2 DEF Walking
<1>9. QED
  BY <1>1, <1>6, <1>7, <1>8 DEF IInv

\* New applies the next option; the last one, and no other, adds the route.
LEMMA ApplyOptionKeeps ==
  ASSUME IInv, ApplyOption
  PROVE  IInv'
<1> DEFINE o == Options(flags)
           Opt == Middleware \cup {"Storage"}
           n == Len(todo)
<1>1. /\ flags' = flags /\ conn' = conn /\ route' = route /\ rq' = rq /\ life = "building"
      /\ todo # << >> /\ todo' = Tail(todo)
  BY DEF ApplyOption
<1>2. flags \in Flags /\ todo \in Seq(Opt)
  BY DEF IInv, TypeOK, Middleware
<1>3. /\ mux \in [uses : Seq(Middleware), routed : BOOLEAN]
      /\ mux.uses \in Seq(Middleware)
      /\ Len(mux.uses) \in Nat
  <2>1. mux \in [uses : Seq(Middleware), routed : BOOLEAN]
    BY DEF IInv, TypeOK, Middleware
  <2>2. mux.uses \in Seq(Middleware)
    BY <2>1
  <2>3. QED
    BY <2>1, <2>2, LenProperties
<1>4. /\ Len(o) \in Nat /\ o[Len(o)] = "Storage"
      /\ \A i \in 1 .. Len(o) - 1 : o[i] # "Storage"
  <2>1. /\ o \in Seq(Opt) /\ Len(o) >= 3 /\ o[Len(o)] = "Storage"
        /\ o[1] = "Recoverer" /\ o[2] = "Error"
        /\ \A i \in 3 .. Len(o) - 1 : o[i] \in {"H2C", "GRPC"}
    BY <1>2, OptionsFacts
  <2> HIDE DEF o
  <2>2. QED
    BY <2>1
<1> HIDE DEF Opt
<1>5. /\ ~ mux.routed
      /\ Len(mux.uses) + n = Len(o)
      /\ \A i \in 1 .. Len(mux.uses) : mux.uses[i] = o[i]
      /\ \A i \in 1 .. n : todo[i] = o[Len(o) - n + i]
  BY <1>1 DEF IInv, Assembled
<1> HIDE DEF o
<1>6. /\ n \in Nat /\ n >= 1 /\ Head(todo) = todo[1]
      /\ todo' \in Seq(Opt) /\ Len(todo') = n - 1
      /\ \A i \in 1 .. n - 1 : todo'[i] = todo[i + 1]
      /\ todo' = << >> <=> n = 1
  BY <1>1, <1>2, Rest
<1> HIDE DEF n
<1>7. Head(todo) = o[Len(o) - n + 1]
  BY <1>5, <1>6
<1>8. Head(todo) = "Storage" <=> n = 1
  <2>1. CASE n = 1
    BY <1>4, <1>7, <2>1
  <2>2. CASE n # 1
    <3>1. Len(o) - n + 1 \in 1 .. Len(o) - 1
      BY <1>3, <1>4, <1>5, <1>6, <2>2
    <3>2. QED
      BY <1>4, <1>7, <2>2, <3>1
  <2>3. QED
    BY <2>1, <2>2
<1>9. \A i \in 1 .. n - 1 : todo'[i] = o[Len(o) - (n - 1) + i]
  <2> TAKE i \in 1 .. n - 1
  <2>1. i + 1 \in 1 .. n /\ Len(o) - (n - 1) + i = Len(o) - n + (i + 1)
    BY <1>4, <1>6
  <2>2. QED
    BY <1>5, <1>6, <2>1
<1> DEFINE Longer(l) ==
             /\ mux' \in [uses : Seq(Middleware), routed : BOOLEAN]
             /\ mux'.routed <=> n = 1
             /\ Len(mux'.uses) = l
             /\ \A i \in 1 .. l : mux'.uses[i] = o[i]
<1>10. life' = "building" /\ Longer(IF n = 1 THEN Len(o) - 1 ELSE Len(o) - n + 1)
  <2>1. CASE n = 1
    <3>1. mux' = [mux EXCEPT !.routed = TRUE] /\ life' = life
      BY <1>8, <2>1 DEF ApplyOption
    <3>2. /\ mux' \in [uses : Seq(Middleware), routed : BOOLEAN]
          /\ mux'.uses = mux.uses /\ mux'.routed
      BY <1>3, <3>1
    <3>3. Len(mux.uses) = Len(o) - 1
      BY <1>3, <1>4, <1>5, <2>1
    <3>4. QED
      BY <1>1, <1>5, <2>1, <3>1, <3>2, <3>3
  <2>2. CASE n # 1
    <3> DEFINE l == Len(mux.uses)
               longer == Append(mux.uses, Head(todo))
    <3>1. mux' = [mux EXCEPT !.uses = longer] /\ life' = life
      BY <1>5, <1>8, <2>2 DEF ApplyOption
    <3>2. Head(todo) \in Middleware
      <4>1. Head(todo) \in Opt
        BY <1>1, <1>2, HeadTailProperties
      <4>2. QED
        BY <1>8, <2>2, <4>1 DEF Opt
    <3>3. /\ longer \in Seq(Middleware) /\ Len(longer) = l + 1
          /\ longer[l + 1] = Head(todo)
          /\ \A i \in 1 .. l : longer[i] = mux.uses[i]
      BY <1>3, <3>2, AppendProperties
    <3> HIDE DEF longer
    <3>4. mux' \in [uses : Seq(Middleware), routed : BOOLEAN] /\ mux'.uses = longer /\ mux'.routed = mux.routed
      BY <1>3, <3>1, <3>3
    <3>5. l + 1 = Len(o) - n + 1 /\ l \in Nat
      <4>1. l \in Nat /\ n \in Nat /\ l + n = Len(o)
        BY <1>3, <1>5, <1>6
      <4> HIDE DEF l
      <4>2. QED
        BY ONLY <4>1
    <3>6. \A i \in 1 .. l + 1 : longer[i] = o[i]
      <4> TAKE i \in 1 .. l + 1
      <4>1. CASE i = l + 1
        BY <1>7, <3>3, <3>5, <4>1
      <4>2. CASE i \in 1 .. l
        BY <1>5, <3>3, <4>2
      <4>3. QED
        BY <3>5, <4>1, <4>2
    <3> HIDE DEF l
    <3>7. Longer(Len(o) - n + 1)
      BY <1>5, <2>2, <3>3, <3>4, <3>5, <3>6
    <3>8. QED
      BY <1>1, <2>2, <3>1, <3>7
  <2>3. QED
    BY <2>1, <2>2
<1>11. Assembled'
  <2>1. flags' = flags /\ Options(flags)' = o /\ Len(todo') = n - 1
    BY <1>1, <1>6 DEF o
  <2>2. mux'.routed <=> todo' = << >>
    BY <1>6, <1>10
  <2>3. Len(mux'.uses) + Len(todo') = IF mux'.routed THEN Len(o) - 1 ELSE Len(o)
    BY <1>4, <1>6, <1>10
  <2>4. \A i \in 1 .. Len(mux'.uses) : mux'.uses[i] = o[i]
    BY <1>10
  <2>5. \A i \in 1 .. Len(todo') : todo'[i] = o[Len(o) - Len(todo') + i]
    BY <1>9, <2>1
  <2>6. QED
    BY <1>10, <2>1, <2>2, <2>3, <2>4, <2>5 DEF Assembled
<1>12. TypeOK'
  BY <1>1, <1>6, <1>10 DEF IInv, TypeOK, Middleware, Opt
<1>13. Walking'
  <2>1. \A s \in Stream : rq[s] = Idle
    BY <1>1 DEF IInv, Walking
  <2>2. QED
    BY <1>1, <2>1 DEF Walking
<1>14. QED
  BY <1>1, <1>11, <1>12, <1>13 DEF IInv

\* The server serves once New has returned.
LEMMA ListenAndServeKeeps ==
  ASSUME IInv, ListenAndServe
  PROVE  IInv'
<1>1. TypeOK' /\ (conn' = "h2" => flags'.h2c)
  BY DEF IInv, TypeOK, ListenAndServe
<1>2. Assembled'
  BY DEF IInv, Assembled, ListenAndServe
<1>3. Walking'
  BY DEF IInv, Walking, ListenAndServe
<1>4. QED
  BY <1>1, <1>2, <1>3 DEF IInv

-----------------------------------------------------------------------------
LEMMA AppendEmpty ==
  ASSUME NEW e
  PROVE  Append(<< >>, e) = <<e>>
OBVIOUS

-----------------------------------------------------------------------------
\* The fields of a request.
Place == {"down", "up", "held", "find", "panic", "done"}
Err == {0, 404, 500}
Status == {200, 307, 404, 405, 500}
Look == {"no", "found", "missing", "failed", "panicked"}
Taker == {"none", "h2c", "grpc", "router", "redirect"}

LEMMA InFlightFields ==
  InFlight = [at : Place, pos : Nat, r : Request \cup {Preface}, err : Err, wrote : Seq(Status),
              looked : Look, by : Taker]
BY DEF InFlight, Place, Err, Status, Look, Taker

\* n is a request with the r of q, and with these other fields.
Shape(n, q, at, pos, err, wrote, looked, by) ==
  /\ n \in InFlight
  /\ n.r = q.r
  /\ n.at = at /\ n.pos = pos /\ n.err = err
  /\ n.wrote = wrote /\ n.looked = looked /\ n.by = by

LEMMA Types ==
  ASSUME NEW q \in InFlight
  PROVE  /\ q.at \in Place /\ q.pos \in Nat /\ q.err \in Err
         /\ q.wrote \in Seq(Status) /\ q.looked \in Look /\ q.by \in Taker
BY InFlightFields

\* A request with one field changed.
LEMMA EditAt ==
  ASSUME NEW q \in InFlight, NEW x \in Place
  PROVE  [q EXCEPT !.at = x] \in InFlight
BY InFlightFields

LEMMA EditPos ==
  ASSUME NEW q \in InFlight, NEW x \in Nat
  PROVE  [q EXCEPT !.pos = x] \in InFlight
BY InFlightFields

LEMMA EditWrote ==
  ASSUME NEW q \in InFlight, NEW x \in Seq(Status)
  PROVE  [q EXCEPT !.wrote = x] \in InFlight
BY InFlightFields

LEMMA EditBy ==
  ASSUME NEW q \in InFlight, NEW x \in Taker
  PROVE  [q EXCEPT !.by = x] \in InFlight
BY InFlightFields

LEMMA EditLooked ==
  ASSUME NEW q \in InFlight, NEW x \in Look
  PROVE  [q EXCEPT !.looked = x] \in InFlight
BY InFlightFields

LEMMA EditErr ==
  ASSUME NEW q \in InFlight, NEW x \in Err
  PROVE  [q EXCEPT !.err = x] \in InFlight
BY InFlightFields

\* A request with several.
LEMMA ShapePos ==
  ASSUME NEW q \in InFlight, NEW pos \in Nat
  PROVE  Shape([q EXCEPT !.pos = pos],
               q, q.at, pos, q.err, q.wrote, q.looked, q.by)
<1> DEFINE n == [q EXCEPT !.pos = pos]
           q1 == [q EXCEPT !.pos = pos]
<1>1. n = q1
  OBVIOUS
<1>2. q1 \in InFlight
  BY EditPos
<1> HIDE DEF q1
<1>3. n \in InFlight
  BY <1>1, <1>2
<1>4. /\ n.r = q.r
      /\ n.at = q.at /\ n.pos = pos /\ n.err = q.err
      /\ n.wrote = q.wrote /\ n.looked = q.looked /\ n.by = q.by
  BY InFlightFields
<1> HIDE DEF n
<1>5. Shape(n, q, q.at, pos, q.err, q.wrote, q.looked, q.by)
  BY <1>3, <1>4 DEF Shape
<1>6. QED
  BY <1>5 DEF n

LEMMA ShapeAt ==
  ASSUME NEW q \in InFlight, NEW at \in Place
  PROVE  Shape([q EXCEPT !.at = at],
               q, at, q.pos, q.err, q.wrote, q.looked, q.by)
<1> DEFINE n == [q EXCEPT !.at = at]
           q1 == [q EXCEPT !.at = at]
<1>1. n = q1
  OBVIOUS
<1>2. q1 \in InFlight
  BY EditAt
<1> HIDE DEF q1
<1>3. n \in InFlight
  BY <1>1, <1>2
<1>4. /\ n.r = q.r
      /\ n.at = at /\ n.pos = q.pos /\ n.err = q.err
      /\ n.wrote = q.wrote /\ n.looked = q.looked /\ n.by = q.by
  BY InFlightFields
<1> HIDE DEF n
<1>5. Shape(n, q, at, q.pos, q.err, q.wrote, q.looked, q.by)
  BY <1>3, <1>4 DEF Shape
<1>6. QED
  BY <1>5 DEF n

LEMMA ShapeAtBy ==
  ASSUME NEW q \in InFlight, NEW at \in Place, NEW by \in Taker
  PROVE  Shape([q EXCEPT !.at = at, !.by = by],
               q, at, q.pos, q.err, q.wrote, q.looked, by)
<1> DEFINE n == [q EXCEPT !.at = at, !.by = by]
           q1 == [q EXCEPT !.at = at]
           q2 == [q1 EXCEPT !.by = by]
<1>1. n = q2
  OBVIOUS
<1>2. q1 \in InFlight
  BY EditAt
<1> HIDE DEF q1
<1>3. q2 \in InFlight
  BY <1>2, EditBy
<1> HIDE DEF q2
<1>4. n \in InFlight
  BY <1>1, <1>3
<1>5. /\ n.r = q.r
      /\ n.at = at /\ n.pos = q.pos /\ n.err = q.err
      /\ n.wrote = q.wrote /\ n.looked = q.looked /\ n.by = by
  BY InFlightFields
<1> HIDE DEF n
<1>6. Shape(n, q, at, q.pos, q.err, q.wrote, q.looked, by)
  BY <1>4, <1>5 DEF Shape
<1>7. QED
  BY <1>6 DEF n

LEMMA ShapeAtPos ==
  ASSUME NEW q \in InFlight, NEW at \in Place, NEW pos \in Nat
  PROVE  Shape([q EXCEPT !.at = at, !.pos = pos],
               q, at, pos, q.err, q.wrote, q.looked, q.by)
<1> DEFINE n == [q EXCEPT !.at = at, !.pos = pos]
           q1 == [q EXCEPT !.at = at]
           q2 == [q1 EXCEPT !.pos = pos]
<1>1. n = q2
  OBVIOUS
<1>2. q1 \in InFlight
  BY EditAt
<1> HIDE DEF q1
<1>3. q2 \in InFlight
  BY <1>2, EditPos
<1> HIDE DEF q2
<1>4. n \in InFlight
  BY <1>1, <1>3
<1>5. /\ n.r = q.r
      /\ n.at = at /\ n.pos = pos /\ n.err = q.err
      /\ n.wrote = q.wrote /\ n.looked = q.looked /\ n.by = q.by
  BY InFlightFields
<1> HIDE DEF n
<1>6. Shape(n, q, at, pos, q.err, q.wrote, q.looked, q.by)
  BY <1>4, <1>5 DEF Shape
<1>7. QED
  BY <1>6 DEF n

LEMMA ShapePosWrote ==
  ASSUME NEW q \in InFlight, NEW pos \in Nat, NEW wrote \in Seq(Status)
  PROVE  Shape([q EXCEPT !.pos = pos, !.wrote = wrote],
               q, q.at, pos, q.err, wrote, q.looked, q.by)
<1> DEFINE n == [q EXCEPT !.pos = pos, !.wrote = wrote]
           q1 == [q EXCEPT !.pos = pos]
           q2 == [q1 EXCEPT !.wrote = wrote]
<1>1. n = q2
  OBVIOUS
<1>2. q1 \in InFlight
  BY EditPos
<1> HIDE DEF q1
<1>3. q2 \in InFlight
  BY <1>2, EditWrote
<1> HIDE DEF q2
<1>4. n \in InFlight
  BY <1>1, <1>3
<1>5. /\ n.r = q.r
      /\ n.at = q.at /\ n.pos = pos /\ n.err = q.err
      /\ n.wrote = wrote /\ n.looked = q.looked /\ n.by = q.by
  BY InFlightFields
<1> HIDE DEF n
<1>6. Shape(n, q, q.at, pos, q.err, wrote, q.looked, q.by)
  BY <1>4, <1>5 DEF Shape
<1>7. QED
  BY <1>6 DEF n

LEMMA ShapeAnswers ==
  ASSUME NEW q \in InFlight, NEW at \in Place, NEW pos \in Nat, NEW wrote \in Seq(Status), NEW by \in Taker
  PROVE  Shape([q EXCEPT !.at = at, !.pos = pos, !.wrote = wrote, !.by = by],
               q, at, pos, q.err, wrote, q.looked, by)
<1> DEFINE n == [q EXCEPT !.at = at, !.pos = pos, !.wrote = wrote, !.by = by]
           q1 == [q EXCEPT !.at = at]
           q2 == [q1 EXCEPT !.pos = pos]
           q3 == [q2 EXCEPT !.wrote = wrote]
           q4 == [q3 EXCEPT !.by = by]
<1>1. n = q4
  OBVIOUS
<1>2. q1 \in InFlight
  BY EditAt
<1> HIDE DEF q1
<1>3. q2 \in InFlight
  BY <1>2, EditPos
<1> HIDE DEF q2
<1>4. q3 \in InFlight
  BY <1>3, EditWrote
<1> HIDE DEF q3
<1>5. q4 \in InFlight
  BY <1>4, EditBy
<1> HIDE DEF q4
<1>6. n \in InFlight
  BY <1>1, <1>5
<1>7. /\ n.r = q.r
      /\ n.at = at /\ n.pos = pos /\ n.err = q.err
      /\ n.wrote = wrote /\ n.looked = q.looked /\ n.by = by
  BY InFlightFields
<1> HIDE DEF n
<1>8. Shape(n, q, at, pos, q.err, wrote, q.looked, by)
  BY <1>6, <1>7 DEF Shape
<1>9. QED
  BY <1>8 DEF n

LEMMA ShapeReturns ==
  ASSUME NEW q \in InFlight, NEW at \in Place, NEW pos \in Nat, NEW by \in Taker, NEW looked \in Look
  PROVE  Shape([q EXCEPT !.at = at, !.pos = pos, !.by = by, !.looked = looked],
               q, at, pos, q.err, q.wrote, looked, by)
<1> DEFINE n == [q EXCEPT !.at = at, !.pos = pos, !.by = by, !.looked = looked]
           q1 == [q EXCEPT !.at = at]
           q2 == [q1 EXCEPT !.pos = pos]
           q3 == [q2 EXCEPT !.by = by]
           q4 == [q3 EXCEPT !.looked = looked]
<1>1. n = q4
  OBVIOUS
<1>2. q1 \in InFlight
  BY EditAt
<1> HIDE DEF q1
<1>3. q2 \in InFlight
  BY <1>2, EditPos
<1> HIDE DEF q2
<1>4. q3 \in InFlight
  BY <1>3, EditBy
<1> HIDE DEF q3
<1>5. q4 \in InFlight
  BY <1>4, EditLooked
<1> HIDE DEF q4
<1>6. n \in InFlight
  BY <1>1, <1>5
<1>7. /\ n.r = q.r
      /\ n.at = at /\ n.pos = pos /\ n.err = q.err
      /\ n.wrote = q.wrote /\ n.looked = looked /\ n.by = by
  BY InFlightFields
<1> HIDE DEF n
<1>8. Shape(n, q, at, pos, q.err, q.wrote, looked, by)
  BY <1>6, <1>7 DEF Shape
<1>9. QED
  BY <1>8 DEF n

LEMMA ShapeErr ==
  ASSUME NEW q \in InFlight, NEW err \in Err
  PROVE  Shape([q EXCEPT !.err = err],
               q, q.at, q.pos, err, q.wrote, q.looked, q.by)
<1> DEFINE n == [q EXCEPT !.err = err]
           q1 == [q EXCEPT !.err = err]
<1>1. n = q1
  OBVIOUS
<1>2. q1 \in InFlight
  BY EditErr
<1> HIDE DEF q1
<1>3. n \in InFlight
  BY <1>1, <1>2
<1>4. /\ n.r = q.r
      /\ n.at = q.at /\ n.pos = q.pos /\ n.err = err
      /\ n.wrote = q.wrote /\ n.looked = q.looked /\ n.by = q.by
  BY InFlightFields
<1> HIDE DEF n
<1>5. Shape(n, q, q.at, q.pos, err, q.wrote, q.looked, q.by)
  BY <1>3, <1>4 DEF Shape
<1>6. QED
  BY <1>5 DEF n

LEMMA ShapeWrote ==
  ASSUME NEW q \in InFlight, NEW wrote \in Seq(Status)
  PROVE  Shape([q EXCEPT !.wrote = wrote],
               q, q.at, q.pos, q.err, wrote, q.looked, q.by)
<1> DEFINE n == [q EXCEPT !.wrote = wrote]
           q1 == [q EXCEPT !.wrote = wrote]
<1>1. n = q1
  OBVIOUS
<1>2. q1 \in InFlight
  BY EditWrote
<1> HIDE DEF q1
<1>3. n \in InFlight
  BY <1>1, <1>2
<1>4. /\ n.r = q.r
      /\ n.at = q.at /\ n.pos = q.pos /\ n.err = q.err
      /\ n.wrote = wrote /\ n.looked = q.looked /\ n.by = q.by
  BY InFlightFields
<1> HIDE DEF n
<1>5. Shape(n, q, q.at, q.pos, q.err, wrote, q.looked, q.by)
  BY <1>3, <1>4 DEF Shape
<1>6. QED
  BY <1>5 DEF n

-----------------------------------------------------------------------------
\* The moves of a request q of a server with flags f and chain u.
\* On the way down, at the router and in a panic there is one way to fit.
LEMMA ByPlace ==
  ASSUME NEW f, NEW u, NEW q, Chain(f, u), Fits(f, u, q)
  PROVE  /\ q.at = "down" => Down(f, u, q)
         /\ q.at = "find" => Down(f, u, q) /\ q.pos = Len(u) + 1 /\ ~ (f.api /\ RPC(f, q.r))
         /\ q.at = "panic" => Panicking(f, u, q)
         /\ q.at = "held" => Held(u, q)
         /\ q.at \in {"up", "done"} => Up(f, u, q)
<1>1. /\ q.at \in {"down", "find"} => Down(f, u, q)
      /\ q.at = "panic" => Panicking(f, u, q)
      /\ q.at = "held" => Held(u, q)
      /\ q.at \in {"up", "done"} => Up(f, u, q)
  BY DEF Fits, Down, Held, Panicking, Up
<1>2. ASSUME q.at = "find"
      PROVE  q.pos = Len(u) + 1 /\ ~ (f.api /\ RPC(f, q.r))
  <2>1. q.pos = Len(u) + 1 /\ Len(u) \in Nat
    BY <1>1, <1>2 DEF Down, Chain
  <2>2. \A k \in 1 .. Len(u) : u[k] = "GRPC" => ~ RPC(f, q.r)
    BY <1>1, <1>2, <2>1 DEF Down
  <2>3. QED
    BY <2>1, <2>2 DEF Chain
<1>3. QED
  BY <1>1, <1>2

\* A handler calls the next one.
LEMMA PassesFits ==
  ASSUME NEW f, NEW u, NEW q, Chain(f, u), Fits(f, u, q),
         q.at = "down",
         q.pos \in 1 .. Len(u),
         u[q.pos] = "GRPC" => ~ RPC(f, q.r),
         NEW n, Shape(n, q, q.at, q.pos + 1, q.err, q.wrote, q.looked, q.by)
  PROVE  Fits(f, u, n)
<1>1. q \in InFlight /\ Len(u) \in Nat
  BY ONLY Chain(f, u), Fits(f, u, q) DEF Fits, Chain
<1>2. Down(f, u, q)
  BY ByPlace
<1>3. /\ n \in InFlight
      /\ n.r = q.r
      /\ n.at = q.at /\ n.pos = q.pos + 1 /\ n.err = q.err
      /\ n.wrote = q.wrote /\ n.looked = q.looked /\ n.by = q.by
  BY DEF Shape
<1>4. \A k \in 1 .. n.pos - 1 : u[k] = "GRPC" => ~ RPC(f, n.r)
  BY <1>1, <1>2, <1>3 DEF Down
<1>5. Down(f, u, n)
  BY <1>1, <1>2, <1>3, <1>4 DEF Down
<1>6. QED
  BY <1>3, <1>5 DEF Fits

\* h2c takes the connection of a request over.
LEMMA HeldFits ==
  ASSUME NEW f, NEW u, NEW q, Chain(f, u), Fits(f, u, q),
         q.at = "down",
         q.pos \in 1 .. Len(u),
         q.r.type = "",
         NEW n, Shape(n, q, "held", q.pos, q.err, q.wrote, q.looked, "h2c")
  PROVE  Fits(f, u, n)
<1>1. q \in InFlight /\ Len(u) \in Nat
  BY ONLY Chain(f, u), Fits(f, u, q) DEF Fits, Chain
<1>2. Down(f, u, q)
  BY ByPlace
<1>3. /\ n \in InFlight
      /\ n.r = q.r
      /\ n.at = "held" /\ n.pos = q.pos /\ n.err = q.err
      /\ n.wrote = q.wrote /\ n.looked = q.looked /\ n.by = "h2c"
  BY DEF Shape
<1>4. Held(u, n)
  BY <1>2, <1>3 DEF Down, Held
<1>5. QED
  BY <1>3, <1>4 DEF Fits

\* The gRPC server answers the calls of the API.
LEMMA RPCAnswerFits ==
  ASSUME NEW f, NEW u, NEW q, Chain(f, u), Fits(f, u, q), NEW status \in {200, 405},
         q.at = "down",
         q.pos \in 1 .. Len(u),
         u[q.pos] = "GRPC",
         RPC(f, q.r),
         NEW n, Shape(n, q, "up", q.pos - 1, q.err, <<status>>, q.looked, "grpc")
  PROVE  Fits(f, u, n)
<1>1. q \in InFlight /\ Len(u) \in Nat
  BY ONLY Chain(f, u), Fits(f, u, q) DEF Fits, Chain
<1>2. Down(f, u, q)
  BY ByPlace
<1>3. /\ n \in InFlight
      /\ n.r = q.r
      /\ n.at = "up" /\ n.pos = q.pos - 1 /\ n.err = q.err
      /\ n.wrote = <<status>> /\ n.looked = q.looked /\ n.by = "grpc"
  BY DEF Shape
<1>4. Up(f, u, n)
  BY <1>1, <1>2, <1>3 DEF Down, Up, Chain
<1>5. QED
  BY <1>3, <1>4 DEF Fits

\* The router answers a request that is no GET.
LEMMA NotAllowedFits ==
  ASSUME NEW f, NEW u, NEW q, Chain(f, u), Fits(f, u, q),
         q.at = "find",
         NEW n, Shape(n, q, "up", q.pos - 1, q.err, << 405 >>, q.looked, "router")
  PROVE  Fits(f, u, n)
<1>1. q \in InFlight /\ Len(u) \in Nat
  BY ONLY Chain(f, u), Fits(f, u, q) DEF Fits, Chain
<1>2. Down(f, u, q) /\ q.pos = Len(u) + 1 /\ ~ (f.api /\ RPC(f, q.r))
     
  BY ByPlace
<1>3. /\ n \in InFlight
      /\ n.r = q.r
      /\ n.at = "up" /\ n.pos = q.pos - 1 /\ n.err = q.err
      /\ n.wrote = <<405>> /\ n.looked = q.looked /\ n.by = "router"
  BY DEF Shape
<1>4. Up(f, u, n)
  BY <1>1, <1>2, <1>3 DEF Down, Up
<1>5. QED
  BY <1>3, <1>4 DEF Fits

\* Recoverer answers a request whose handler has panicked.
LEMMA RecoverFits ==
  ASSUME NEW f, NEW u, NEW q, Chain(f, u), Fits(f, u, q),
         q.at = "panic",
         q.pos = 1,
         NEW n, Shape(n, q, "up", q.pos - 1, q.err, << 500 >>, q.looked, q.by)
  PROVE  Fits(f, u, n)
<1>1. q \in InFlight /\ Len(u) \in Nat
  BY ONLY Chain(f, u), Fits(f, u, q) DEF Fits, Chain
<1>2. Panicking(f, u, q)
  BY ByPlace
<1>3. /\ n \in InFlight
      /\ n.r = q.r
      /\ n.at = "up" /\ n.pos = q.pos - 1 /\ n.err = q.err
      /\ n.wrote = <<500>> /\ n.looked = q.looked /\ n.by = q.by
  BY DEF Shape
<1>4. Up(f, u, n)
  BY <1>1, <1>2, <1>3 DEF Panicking, Up
<1>5. QED
  BY <1>3, <1>4 DEF Fits

\* A request comes to the router.
LEMMA FindFits ==
  ASSUME NEW f, NEW u, NEW q, Chain(f, u), Fits(f, u, q),
         q.at = "down",
         q.pos \notin 1 .. Len(u),
         NEW n, Shape(n, q, "find", q.pos, q.err, q.wrote, q.looked, q.by)
  PROVE  Fits(f, u, n)
<1>1. q \in InFlight /\ Len(u) \in Nat
  BY ONLY Chain(f, u), Fits(f, u, q) DEF Fits, Chain
<1>2. Down(f, u, q)
  BY ByPlace
<1>3. /\ n \in InFlight
      /\ n.r = q.r
      /\ n.at = "find" /\ n.pos = q.pos /\ n.err = q.err
      /\ n.wrote = q.wrote /\ n.looked = q.looked /\ n.by = q.by
  BY DEF Shape
<1>4. n.pos = Len(u) + 1
  BY <1>1, <1>2, <1>3 DEF Down
<1>5. Down(f, u, n)
  BY <1>2, <1>3, <1>4 DEF Down
<1>6. QED
  BY <1>3, <1>5 DEF Fits

\* Redirect leaves a problem in the context.
LEMMA FailsFits ==
  ASSUME NEW f, NEW u, NEW q, Chain(f, u), Fits(f, u, q), NEW looked, NEW err,
         q.at = "find",
         (looked = "missing" /\ err = 404) \/ (looked = "failed" /\ err = 500),
         NEW n, Shape(n, q, "up", q.pos - 1, err, q.wrote, looked, "redirect")
  PROVE  Fits(f, u, n)
<1>1. q \in InFlight /\ Len(u) \in Nat
  BY ONLY Chain(f, u), Fits(f, u, q) DEF Fits, Chain
<1>2. Down(f, u, q) /\ q.pos = Len(u) + 1 /\ ~ (f.api /\ RPC(f, q.r))
     
  BY ByPlace
<1>3. /\ n \in InFlight
      /\ n.r = q.r
      /\ n.at = "up" /\ n.pos = q.pos - 1 /\ n.err = err
      /\ n.wrote = q.wrote /\ n.looked = looked /\ n.by = "redirect"
  BY DEF Shape
<1>4. n.pos >= 2
  BY <1>1, <1>2, <1>3 DEF Chain
<1>5. (Problem(n, 404) /\ n.looked = "missing") \/ (Problem(n, 500) /\ n.looked = "failed")
  BY <1>2, <1>3, <1>4 DEF Down, Problem
<1>6. Up(f, u, n)
  BY <1>1, <1>2, <1>3, <1>5 DEF Up
<1>7. QED
  BY <1>3, <1>6 DEF Fits

\* Redirect redirects.
LEMMA FindsFits ==
  ASSUME NEW f, NEW u, NEW q, Chain(f, u), Fits(f, u, q),
         q.at = "find",
         NEW n, Shape(n, q, "up", q.pos - 1, q.err, << 307 >>, "found", "redirect")
  PROVE  Fits(f, u, n)
<1>1. q \in InFlight /\ Len(u) \in Nat
  BY ONLY Chain(f, u), Fits(f, u, q) DEF Fits, Chain
<1>2. Down(f, u, q) /\ q.pos = Len(u) + 1 /\ ~ (f.api /\ RPC(f, q.r))
     
  BY ByPlace
<1>3. /\ n \in InFlight
      /\ n.r = q.r
      /\ n.at = "up" /\ n.pos = q.pos - 1 /\ n.err = q.err
      /\ n.wrote = <<307>> /\ n.looked = "found" /\ n.by = "redirect"
  BY DEF Shape
<1>4. Up(f, u, n)
  BY <1>1, <1>2, <1>3 DEF Up, Down
<1>5. QED
  BY <1>3, <1>4 DEF Fits

\* The store panics.
LEMMA PanicsFits ==
  ASSUME NEW f, NEW u, NEW q, Chain(f, u), Fits(f, u, q),
         q.at = "find",
         NEW n, Shape(n, q, "panic", q.pos - 1, q.err, q.wrote, "panicked", "redirect")
  PROVE  Fits(f, u, n)
<1>1. q \in InFlight /\ Len(u) \in Nat
  BY ONLY Chain(f, u), Fits(f, u, q) DEF Fits, Chain
<1>2. Down(f, u, q) /\ q.pos = Len(u) + 1 /\ ~ (f.api /\ RPC(f, q.r))
     
  BY ByPlace
<1>3. /\ n \in InFlight
      /\ n.r = q.r
      /\ n.at = "panic" /\ n.pos = q.pos - 1 /\ n.err = q.err
      /\ n.wrote = q.wrote /\ n.looked = "panicked" /\ n.by = "redirect"
  BY DEF Shape
<1>4. n.pos \in 1 .. Len(u)
  BY <1>1, <1>2, <1>3 DEF Chain
<1>5. Panicking(f, u, n)
  BY <1>2, <1>3, <1>4 DEF Panicking, Down
<1>6. QED
  BY <1>3, <1>5 DEF Fits

\* Error writes the problem it finds in the context, or nothing.
LEMMA RenderFits ==
  ASSUME NEW f, NEW u, NEW q, Chain(f, u), Fits(f, u, q), NEW wrote,
         q.at = "up",
         q.pos = 2,
         (q.err # 0 /\ wrote = Append(q.wrote, q.err)) \/ (q.err = 0 /\ wrote = q.wrote),
         NEW n, Shape(n, q, q.at, q.pos - 1, q.err, wrote, q.looked, q.by)
  PROVE  Fits(f, u, n)
<1>1. q \in InFlight /\ Len(u) \in Nat
  BY ONLY Chain(f, u), Fits(f, u, q) DEF Fits, Chain
<1>2. /\ Up(f, u, q)
      /\ q.err # 0 => wrote = <<q.err>>
  <2>1. Up(f, u, q)
    BY ByPlace
  <2>2. q.err # 0 => q.err \in {404, 500} /\ q.wrote = << >>
    BY <2>1 DEF Up, Problem
  <2>3. q.err # 0 => wrote = <<q.err>>
    BY <2>2, AppendEmpty
  <2>4. q.wrote \in Seq({200, 307, 404, 405, 500})
    BY <1>1 DEF InFlight
  <2>5. QED
    BY <2>1, <2>2, <2>3, <2>4
<1>3. /\ n \in InFlight
      /\ n.r = q.r
      /\ n.at = q.at /\ n.pos = q.pos - 1 /\ n.err = q.err
      /\ n.wrote = wrote /\ n.looked = q.looked /\ n.by = q.by
  BY DEF Shape
<1>4. Up(f, u, n)
  <2>1. /\ n.at = "up" /\ n.pos = 1 /\ n.by = q.by /\ n.r = q.r /\ n.looked = q.looked
        /\ n.err = q.err
        /\ q.err # 0 => n.wrote = <<q.err>>
        /\ q.err = 0 => n.wrote = q.wrote
    BY <1>2, <1>3
  <2>2. n.pos \in 0 .. Len(u)
    BY <1>1, <2>1 DEF Chain
  <2>3. Up(f, u, q) /\ q.pos = 2
    BY <1>2
  <2>4. QED
    BY <2>1, <2>2, <2>3 DEF Up, Problem
<1>5. QED
  BY <1>3, <1>4 DEF Fits

\* The other handlers do nothing on the way up, or in a panic.
LEMMA UnwindsFits ==
  ASSUME NEW f, NEW u, NEW q, Chain(f, u), Fits(f, u, q),
         \/ q.at = "up" /\ q.pos >= 1 /\ q.pos # 2
         \/ q.at = "panic" /\ q.pos >= 2,
         NEW n, Shape(n, q, q.at, q.pos - 1, q.err, q.wrote, q.looked, q.by)
  PROVE  Fits(f, u, n)
<1>1. q \in InFlight /\ Len(u) \in Nat
  BY ONLY Chain(f, u), Fits(f, u, q) DEF Fits, Chain
<1>2. /\ q.pos \in Nat
      /\ q.at = "up" => Up(f, u, q)
      /\ q.at = "panic" => Panicking(f, u, q)
  <2>1. q.pos \in Nat
    BY <1>1 DEF InFlight
  <2>2. QED
    BY <2>1, ByPlace
<1>3. /\ n \in InFlight
      /\ n.r = q.r
      /\ n.at = q.at /\ n.pos = q.pos - 1 /\ n.err = q.err
      /\ n.wrote = q.wrote /\ n.looked = q.looked /\ n.by = q.by
  BY DEF Shape
<1>4. CASE q.at = "up"
  <2>1. n.pos >= 2 <=> q.pos >= 2
    BY <1>2, <1>3, <1>4
  <2>2. n.pos \in 0 .. Len(u)
    BY <1>1, <1>2, <1>3, <1>4 DEF Up
  <2>3. q.pos # 0
    BY <1>4
  <2>4. Up(f, u, n)
    BY <1>2, <1>3, <1>4, <2>1, <2>2, <2>3 DEF Up, Problem
  <2>5. QED
    BY <1>3, <2>4 DEF Fits
<1>5. CASE q.at = "panic"
  <2>1. Panicking(f, u, n)
    BY <1>1, <1>2, <1>3, <1>5 DEF Panicking
  <2>2. QED
    BY <1>3, <2>1 DEF Fits
<1>6. QED
  BY <1>4, <1>5

\* A request that has left the chain is done.
LEMMA FinishFits ==
  ASSUME NEW f, NEW u, NEW q, Chain(f, u), Fits(f, u, q),
         q.at \in {"up", "panic"},
         q.pos = 0,
         NEW n, Shape(n, q, "done", q.pos, q.err, q.wrote, q.looked, q.by)
  PROVE  Fits(f, u, n)
<1>1. q \in InFlight /\ Len(u) \in Nat
  BY ONLY Chain(f, u), Fits(f, u, q) DEF Fits, Chain
<1>2. Up(f, u, q)
  BY ByPlace DEF Panicking
<1>3. /\ n \in InFlight
      /\ n.r = q.r
      /\ n.at = "done" /\ n.pos = q.pos /\ n.err = q.err
      /\ n.wrote = q.wrote /\ n.looked = q.looked /\ n.by = q.by
  BY DEF Shape
<1>4. Up(f, u, n)
  BY <1>2, <1>3 DEF Up, Problem
<1>5. QED
  BY <1>3, <1>4 DEF Fits

\* The connection a request had become ends.
LEMMA CloseFits ==
  ASSUME NEW f, NEW u, NEW q, Chain(f, u), Fits(f, u, q),
         q.at = "held",
         NEW n, Shape(n, q, "up", q.pos - 1, q.err, q.wrote, q.looked, q.by)
  PROVE  Fits(f, u, n)
<1>1. q \in InFlight /\ Len(u) \in Nat
  BY ONLY Chain(f, u), Fits(f, u, q) DEF Fits, Chain
<1>2. Held(u, q) /\ q.pos \in 1 .. Len(u)
  BY ByPlace DEF Held
<1>3. /\ n \in InFlight
      /\ n.r = q.r
      /\ n.at = "up" /\ n.pos = q.pos - 1 /\ n.err = q.err
      /\ n.wrote = q.wrote /\ n.looked = q.looked /\ n.by = q.by
  BY DEF Shape
<1>4. Up(f, u, n)
  <2>1. ~ RPC(f, n.r) /\ n.err = 0 /\ n.wrote = << >> /\ n.looked = "no" /\ n.by = "h2c"
    <3>1. q.r.type = "" /\ n.r = q.r
      BY <1>2, <1>3 DEF Held
    <3>2. ~ RPC(f, n.r)
      BY ONLY <3>1 DEF RPC, IsGRPC
    <3>3. QED
      BY <1>2, <1>3, <3>2 DEF Held
  <2>2. n.at = "up" /\ n.pos \in 0 .. Len(u)
    BY <1>1, <1>2, <1>3
  <2>3. QED
    BY ONLY <2>1, <2>2 DEF Up
<1>5. QED
  BY <1>3, <1>4 DEF Fits

-----------------------------------------------------------------------------
\* What is known of a request in progress.
LEMMA Walks ==
  ASSUME IInv, NEW s \in Stream, rq[s] # Idle
  PROVE  /\ life = "serving"
         /\ Chain(flags, mux.uses)
         /\ Fits(flags, mux.uses, rq[s])
         /\ rq[s] \in InFlight
BY ServingChain DEF IInv, Walking, Fits

LEMMA Going ==
  ASSUME NEW s \in Stream, NEW at, At(s, at)
  PROVE  rq[s] # Idle /\ rq[s].at = at
BY DEF At, Busy, Idle

\* A step of one request keeps the invariant if the request fits behind it.
LEMMA Moved ==
  ASSUME IInv, NEW s \in Stream, NEW n, Moves(s, n), UNCHANGED server,
         n = Idle \/ (life = "serving" /\ Fits(flags, mux.uses, n)),
         conn' \in {"http1", "h2"}, route' \in {"", "GET", "POST", "PRI"}, conn' = "h2" => flags.h2c
  PROVE  IInv'
<1>1. flags' = flags /\ todo' = todo /\ mux' = mux /\ life' = life
  BY DEF server
<1>2. rq \in [Stream -> {Idle} \cup InFlight] /\ rq' = [rq EXCEPT ![s] = n]
  BY DEF IInv, TypeOK, Moves
<1>3. n \in {Idle} \cup InFlight
  BY DEF Fits
<1>4. TypeOK'
  <2>1. rq' \in [Stream -> {Idle} \cup InFlight]
    BY <1>2, <1>3
  <2>2. QED
    BY <1>1, <2>1 DEF IInv, TypeOK
<1>5. Assembled'
  BY <1>1 DEF IInv, Assembled
<1>6. Walking'
  BY <1>1, <1>2 DEF IInv, Walking
<1>7. QED
  BY <1>1, <1>4, <1>5, <1>6 DEF IInv

\* The same, of a step that leaves the connection and the routing context alone.
LEMMA MovedAlone ==
  ASSUME IInv, NEW s \in Stream, NEW n, Moves(s, n), UNCHANGED <<server, conn, route>>,
         life = "serving", Fits(flags, mux.uses, n)
  PROVE  IInv'
BY Moved DEF IInv, TypeOK

\* The handler a request is at.
LEMMA HandlerFacts ==
  ASSUME IInv, NEW s \in Stream, rq[s] # Idle
  PROVE  /\ Handler(s) # "Route" =>
              rq[s].pos \in 1 .. Len(mux.uses) /\ mux.uses[rq[s].pos] = Handler(s)
         /\ Handler(s) = "Route" => rq[s].pos \notin 1 .. Len(mux.uses)
         /\ Handler(s) = "Recoverer" => rq[s].pos = 1
         /\ Handler(s) = "Error" => rq[s].pos = 2
         /\ Handler(s) = "H2C" => flags.h2c
<1>1. Chain(flags, mux.uses)
  BY Walks
<1>2. \A k \in 1 .. Len(mux.uses) : mux.uses[k] # "Route"
  BY <1>1 DEF Chain, Middleware
<1>3. QED
  BY <1>1, <1>2 DEF Handler, Chain

LEMMA ToGRPCIsRPC ==
  ASSUME NEW r
  PROVE  ToGRPC(r) <=> RPC(flags, r)
BY DEF ToGRPC, RPC

LEMMA ArriveKeeps ==
  ASSUME IInv, NEW s \in Stream, Arrive(s)
  PROVE  IInv'
<1>1. PICK r \in Request \cup {Preface} :
        /\ rq' = [rq EXCEPT ![s] = Started(r)]
        /\ r = Preface \/ r.proto = "HTTP/1.1" \/ (r.proto = "HTTP/2.0" /\ conn = "h2")
  BY DEF Arrive
<1>2. life = "serving" /\ UNCHANGED <<server, conn, route>>
  BY DEF Arrive
<1>3. Chain(flags, mux.uses)
  BY <1>2, ServingChain DEF IInv
<1> DEFINE n == Started(r)
<1>4. /\ n \in InFlight /\ n.r = r
      /\ n.at = "down" /\ n.pos = 1 /\ n.err = 0
      /\ n.wrote = << >> /\ n.looked = "no" /\ n.by = "none"
  BY DEF Started, InFlight
<1>5. r.type = "grpc" /\ r.proto = "HTTP/2.0" => flags.h2c
  <2>1. CASE r = Preface
    BY <2>1 DEF Preface
  <2>2. CASE r.proto = "HTTP/1.1"
    BY <2>2
  <2>3. CASE conn = "h2"
    BY <2>3 DEF IInv
  <2>4. QED
    BY <1>1, <2>1, <2>2, <2>3
<1> HIDE DEF n
<1>6. Down(flags, mux.uses, n)
  BY <1>3, <1>4 DEF Down, Chain
<1>7. Fits(flags, mux.uses, n)
  BY <1>4, <1>5, <1>6 DEF Fits
<1>8. Moves(s, n)
  BY <1>1 DEF Moves, n
<1>9. QED
  BY <1>2, <1>7, <1>8, MovedAlone

LEMMA SentKeeps ==
  ASSUME IInv, NEW s \in Stream, Sent(s)
  PROVE  IInv'
<1>1. Moves(s, Idle) /\ UNCHANGED <<server, conn>> /\ route' = IF conn = "http1" THEN "" ELSE route
  BY DEF Sent
<1>2. conn' \in {"http1", "h2"} /\ route' \in {"", "GET", "POST", "PRI"} /\ (conn' = "h2" => flags.h2c)
  BY <1>1 DEF IInv, TypeOK
<1>3. UNCHANGED server
  BY <1>1
<1>4. QED
  BY <1>1, <1>2, <1>3, Moved

\* Every step of a request keeps the invariant.
LEMMA PassesKeeps ==
  ASSUME IInv, NEW s \in Stream, Passes(s)
  PROVE  IInv'
<1> DEFINE q == rq[s]
           n == [q EXCEPT !.pos = q.pos + 1]
<1>1. q # Idle /\ q.at = "down" /\ UNCHANGED <<server, conn, route>> /\ Moves(s, n)
  BY Going DEF Passes
<1>2. /\ life = "serving" /\ Chain(flags, mux.uses) /\ Fits(flags, mux.uses, q)
      /\ q \in InFlight
  BY <1>1, Walks
<1>3. Handler(s) # "Route" /\ (Handler(s) = "GRPC" => ~ RPC(flags, q.r))
  BY ToGRPCIsRPC DEF Passes
<1>4. q.pos \in 1 .. Len(mux.uses) /\ mux.uses[q.pos] = Handler(s)
  BY <1>1, <1>3, HandlerFacts
<1> HIDE DEF q
<1>5. q.pos + 1 \in Nat
  BY <1>2, Types
<1>6. Shape(n, q, q.at, q.pos + 1, q.err, q.wrote, q.looked, q.by)
  BY <1>2, <1>5, ShapePos
<1> HIDE DEF n
<1>7. Fits(flags, mux.uses, n)
  BY <1>1, <1>2, <1>3, <1>4, <1>6, PassesFits
<1>8. QED
  BY <1>1, <1>2, <1>7, MovedAlone

LEMMA InterceptH2CKeeps ==
  ASSUME IInv, NEW s \in Stream, InterceptH2C(s)
  PROVE  IInv'
<1> DEFINE q == rq[s]
           n == [q EXCEPT !.at = "held", !.by = "h2c"]
<1>1. /\ q # Idle /\ q.at = "down" /\ UNCHANGED <<server, route>> /\ Moves(s, n)
      /\ conn' = "h2" /\ Handler(s) = "H2C" /\ q.r.type = ""
  BY Going DEF InterceptH2C, IsH2C
<1>2. /\ life = "serving" /\ Chain(flags, mux.uses) /\ Fits(flags, mux.uses, q)
      /\ q \in InFlight
  BY <1>1, Walks
<1>3. q.pos \in 1 .. Len(mux.uses) /\ flags.h2c
  BY <1>1, HandlerFacts
<1> HIDE DEF q
<1>4. Shape(n, q, "held", q.pos, q.err, q.wrote, q.looked, "h2c")
  BY <1>2, ShapeAtBy DEF Place, Taker
<1> HIDE DEF n
<1>5. Fits(flags, mux.uses, n)
  BY <1>1, <1>2, <1>3, <1>4, HeldFits
<1>6. UNCHANGED server /\ route' \in {"", "GET", "POST", "PRI"}
  BY <1>1 DEF IInv, TypeOK
<1>7. QED
  BY <1>1, <1>2, <1>3, <1>5, <1>6, Moved

LEMMA InterceptGRPCKeeps ==
  ASSUME IInv, NEW s \in Stream, InterceptGRPC(s)
  PROVE  IInv'
<1> DEFINE q == rq[s]
           status == IF q.r.method = "POST" THEN 200 ELSE 405
           n == [q EXCEPT !.at = "up", !.pos = q.pos - 1, !.wrote = Append(q.wrote, status), !.by = "grpc"]
<1>1. /\ q # Idle /\ q.at = "down" /\ UNCHANGED <<server, conn, route>> /\ Moves(s, n)
      /\ Handler(s) = "GRPC" /\ RPC(flags, q.r)
  BY Going, ToGRPCIsRPC DEF InterceptGRPC, Answers
<1>2. /\ life = "serving" /\ Chain(flags, mux.uses) /\ Fits(flags, mux.uses, q)
      /\ q \in InFlight
  BY <1>1, Walks
<1>3. q.pos \in 1 .. Len(mux.uses) /\ mux.uses[q.pos] = "GRPC"
  BY <1>1, HandlerFacts
<1>4. status \in {200, 405}
  OBVIOUS
<1> HIDE DEF q, status
<1>5. Append(q.wrote, status) = <<status>> /\ q.pos - 1 \in Nat
  <2>1. Down(flags, mux.uses, q)
    BY <1>1, <1>2, ByPlace
  <2>2. q.wrote = << >>
    BY <2>1 DEF Down
  <2>3. QED
    BY <1>3, <2>2, AppendEmpty
<1>6. <<status>> \in Seq(Status)
  BY <1>4 DEF Status
<1>7. Shape(n, q, "up", q.pos - 1, q.err, <<status>>, q.looked, "grpc")
  BY <1>2, <1>5, <1>6, ShapeAnswers DEF Place, Taker
<1> HIDE DEF n
<1>8. Fits(flags, mux.uses, n)
  BY <1>1, <1>2, <1>3, <1>4, <1>7, RPCAnswerFits
<1>9. QED
  BY <1>1, <1>2, <1>8, MovedAlone

LEMMA TakeMethodKeeps ==
  ASSUME IInv, NEW s \in Stream, TakeMethod(s)
  PROVE  IInv'
<1> DEFINE q == rq[s]
           n == [q EXCEPT !.at = "find"]
<1>1. /\ q # Idle /\ q.at = "down" /\ UNCHANGED <<server, conn>> /\ Moves(s, n)
      /\ Handler(s) = "Route" /\ route' \in {route, q.r.method}
  BY Going DEF TakeMethod
<1>2. /\ life = "serving" /\ Chain(flags, mux.uses) /\ Fits(flags, mux.uses, q)
      /\ q \in InFlight
  BY <1>1, Walks
<1>3. q.pos \notin 1 .. Len(mux.uses)
  BY <1>1, HandlerFacts
<1>4. route' \in {"", "GET", "POST", "PRI"}
  <2>1. q.r \in Request \cup {Preface}
    BY <1>2 DEF InFlight
  <2>2. q.r = Preface => q.r.method = "PRI"
    <3>1. Preface.method = "PRI"
      BY DEF Preface
    <3>2. QED
      BY <3>1
  <2>3. q.r \in Request => q.r.method \in {"GET", "POST"}
    BY DEF Request
  <2>4. QED
    BY <1>1, <2>1, <2>2, <2>3 DEF IInv, TypeOK
<1> HIDE DEF q
<1>5. Shape(n, q, "find", q.pos, q.err, q.wrote, q.looked, q.by)
  BY <1>2, ShapeAt DEF Place
<1> HIDE DEF n
<1>6. Fits(flags, mux.uses, n)
  BY <1>1, <1>2, <1>3, <1>5, FindFits
<1>7. UNCHANGED server /\ conn' \in {"http1", "h2"} /\ (conn' = "h2" => flags.h2c)
  BY <1>1 DEF IInv, TypeOK
<1>8. QED
  BY <1>1, <1>2, <1>4, <1>6, <1>7, Moved

LEMMA NotAllowedKeeps ==
  ASSUME IInv, NEW s \in Stream, NotAllowed(s)
  PROVE  IInv'
<1> DEFINE q == rq[s]
           n == [q EXCEPT !.at = "up", !.pos = q.pos - 1, !.wrote = Append(q.wrote, 405), !.by = "router"]
<1>1. q # Idle /\ q.at = "find" /\ UNCHANGED <<server, conn, route>> /\ Moves(s, n)
  BY Going DEF NotAllowed, Answers
<1>2. /\ life = "serving" /\ Chain(flags, mux.uses) /\ Fits(flags, mux.uses, q)
      /\ q \in InFlight
  BY <1>1, Walks
<1> HIDE DEF q
<1>3. Down(flags, mux.uses, q)
  BY <1>1, <1>2, ByPlace
<1>4. Append(q.wrote, 405) = <<405>> /\ q.pos - 1 \in Nat /\ <<405>> \in Seq(Status)
  BY <1>3, AppendEmpty DEF Down, Status
<1>5. Shape(n, q, "up", q.pos - 1, q.err, <<405>>, q.looked, "router")
  <2>1. "up" \in Place /\ "router" \in Taker
    BY DEF Place, Taker
  <2> DEFINE w == Append(q.wrote, 405)
  <2>2. w = <<405>>
    BY <1>4
  <2>3. q \in InFlight /\ q.pos - 1 \in Nat /\ w \in Seq(Status)
    BY <1>2, <1>4
  <2>4. n = [q EXCEPT !.at = "up", !.pos = q.pos - 1, !.wrote = w, !.by = "router"]
    OBVIOUS
  <2> HIDE DEF w, n
  <2>5. Shape([q EXCEPT !.at = "up", !.pos = q.pos - 1, !.wrote = w, !.by = "router"],
              q, "up", q.pos - 1, q.err, w, q.looked, "router")
    BY ONLY <2>1, <2>3, ShapeAnswers
  <2>6. QED
    BY <2>2, <2>4, <2>5
<1> HIDE DEF n
<1>6. Fits(flags, mux.uses, n)
  BY <1>1, <1>2, <1>5, NotAllowedFits
<1>7. QED
  BY <1>1, <1>2, <1>6, MovedAlone

LEMMA RecoverKeeps ==
  ASSUME IInv, NEW s \in Stream, Recover(s)
  PROVE  IInv'
<1> DEFINE q == rq[s]
           n == [q EXCEPT !.at = "up", !.pos = q.pos - 1, !.wrote = Append(q.wrote, 500), !.by = q.by]
<1>1. /\ q # Idle /\ q.at = "panic" /\ UNCHANGED <<server, conn, route>> /\ Moves(s, n)
      /\ Handler(s) = "Recoverer"
  BY Going DEF Recover, Answers
<1>2. /\ life = "serving" /\ Chain(flags, mux.uses) /\ Fits(flags, mux.uses, q)
      /\ q \in InFlight
  BY <1>1, Walks
<1>3. q.pos = 1
  BY <1>1, HandlerFacts
<1> HIDE DEF q
<1>4. Panicking(flags, mux.uses, q)
  BY <1>1, <1>2, ByPlace
<1>5. Append(q.wrote, 500) = <<500>> /\ q.pos - 1 \in Nat /\ <<500>> \in Seq(Status)
  BY <1>3, <1>4, AppendEmpty DEF Panicking, Status
<1>6. Shape(n, q, "up", q.pos - 1, q.err, <<500>>, q.looked, q.by)
  <2>1. "up" \in Place /\ q.by \in Taker
    BY <1>2, Types DEF Place
  <2> DEFINE w == Append(q.wrote, 500)
  <2>2. w = <<500>>
    BY <1>5
  <2>3. q \in InFlight /\ q.pos - 1 \in Nat /\ w \in Seq(Status)
    BY <1>2, <1>5
  <2>4. n = [q EXCEPT !.at = "up", !.pos = q.pos - 1, !.wrote = w, !.by = q.by]
    OBVIOUS
  <2> HIDE DEF w, n
  <2>5. Shape([q EXCEPT !.at = "up", !.pos = q.pos - 1, !.wrote = w, !.by = q.by],
              q, "up", q.pos - 1, q.err, w, q.looked, q.by)
    BY ONLY <2>1, <2>3, ShapeAnswers
  <2>6. QED
    BY <2>2, <2>4, <2>5
<1> HIDE DEF n
<1>7. Fits(flags, mux.uses, n)
  BY <1>1, <1>2, <1>3, <1>6, RecoverFits
<1>8. QED
  BY <1>1, <1>2, <1>7, MovedAlone

\* What Redirect makes of a request, before it returns.
LEMMA ReturnsShape ==
  ASSUME NEW s \in Stream, rq[s] \in InFlight, rq[s].pos - 1 \in Nat, NEW looked \in Look
  PROVE  Shape(Returns(s, looked), rq[s], "up", rq[s].pos - 1, rq[s].err, rq[s].wrote, looked,
               "redirect")
<1>1. "up" \in Place /\ "redirect" \in Taker
  BY DEF Place, Taker
<1> DEFINE q == rq[s]
<1>2. Returns(s, looked)
        = [q EXCEPT !.at = "up", !.pos = q.pos - 1, !.by = "redirect", !.looked = looked]
  BY DEF Returns
<1>3. q \in InFlight /\ q.pos - 1 \in Nat
  OBVIOUS
<1> HIDE DEF q
<1>4. Shape([q EXCEPT !.at = "up", !.pos = q.pos - 1, !.by = "redirect", !.looked = looked],
            q, "up", q.pos - 1, q.err, q.wrote, looked, "redirect")
  BY ONLY <1>1, <1>3, looked \in Look, ShapeReturns
<1>5. QED
  BY <1>2, <1>4 DEF q

LEMMA RedirectFailsKeeps ==
  ASSUME IInv, NEW s \in Stream, RedirectFails(s)
  PROVE  IInv'
<1> DEFINE q == rq[s]
<1>1. q # Idle /\ q.at = "find" /\ UNCHANGED <<server, conn, route>>
  BY Going DEF RedirectFails
<1>2. /\ life = "serving" /\ Chain(flags, mux.uses) /\ Fits(flags, mux.uses, q)
      /\ q \in InFlight
  BY <1>1, Walks
<1>3. PICK looked \in Look, err \in Err :
        /\ (looked = "missing" /\ err = 404) \/ (looked = "failed" /\ err = 500)
        /\ Moves(s, [Returns(s, looked) EXCEPT !.err = err])
  BY DEF RedirectFails, Look, Err
<1>4. q.pos - 1 \in Nat
  BY <1>1, <1>2, ByPlace DEF Down
<1> DEFINE m == Returns(s, looked)
           n == [m EXCEPT !.err = err]
<1>5. Shape(m, q, "up", q.pos - 1, q.err, q.wrote, looked, "redirect")
  BY <1>2, <1>4, ReturnsShape
<1> HIDE DEF m, q
<1>6. Shape(n, m, m.at, m.pos, err, m.wrote, m.looked, m.by)
  BY <1>5, ShapeErr DEF Shape
<1> HIDE DEF n
<1>7. Shape(n, q, "up", q.pos - 1, err, q.wrote, looked, "redirect")
  BY <1>5, <1>6 DEF Shape
<1>8. Fits(flags, mux.uses, n)
  BY <1>1, <1>2, <1>3, <1>7, FailsFits
<1>9. Moves(s, n)
  BY <1>3 DEF n, m
<1>10. QED
  BY <1>1, <1>2, <1>8, <1>9, MovedAlone

LEMMA RedirectFindsKeeps ==
  ASSUME IInv, NEW s \in Stream, RedirectFinds(s)
  PROVE  IInv'
<1> DEFINE q == rq[s]
           m == Returns(s, "found")
<1>1. /\ q # Idle /\ q.at = "find" /\ UNCHANGED <<server, conn, route>>
      /\ Moves(s, [m EXCEPT !.wrote = Append(m.wrote, 307)])
  BY Going DEF RedirectFinds
<1>2. /\ life = "serving" /\ Chain(flags, mux.uses) /\ Fits(flags, mux.uses, q)
      /\ q \in InFlight
  BY <1>1, Walks
<1>3. Down(flags, mux.uses, q)
  BY <1>1, <1>2, ByPlace
<1>4. q.pos - 1 \in Nat /\ q.wrote = << >> /\ "found" \in Look /\ <<307>> \in Seq(Status)
  BY <1>3 DEF Down, Look, Status
<1>5. Shape(m, q, "up", q.pos - 1, q.err, q.wrote, "found", "redirect")
  BY <1>2, <1>4, ReturnsShape
<1> HIDE DEF m, q
<1>6. m \in InFlight /\ Append(m.wrote, 307) = <<307>>
  BY <1>4, <1>5, AppendEmpty DEF Shape
<1> DEFINE n == [m EXCEPT !.wrote = <<307>>]
<1>7. Shape(n, m, m.at, m.pos, m.err, <<307>>, m.looked, m.by)
  BY <1>4, <1>6, ShapeWrote
<1>8. Moves(s, n)
  BY <1>1, <1>6
<1> HIDE DEF n
<1>9. Shape(n, q, "up", q.pos - 1, q.err, <<307>>, "found", "redirect")
  BY <1>5, <1>7 DEF Shape
<1>10. Fits(flags, mux.uses, n)
  BY <1>1, <1>2, <1>9, FindsFits
<1>11. QED
  BY <1>1, <1>2, <1>8, <1>10, MovedAlone

LEMMA RedirectPanicsKeeps ==
  ASSUME IInv, NEW s \in Stream, RedirectPanics(s)
  PROVE  IInv'
<1> DEFINE q == rq[s]
           m == Returns(s, "panicked")
           n == [m EXCEPT !.at = "panic"]
<1>1. /\ q # Idle /\ q.at = "find" /\ UNCHANGED <<server, conn, route>> /\ Moves(s, n)
  BY Going DEF RedirectPanics
<1>2. /\ life = "serving" /\ Chain(flags, mux.uses) /\ Fits(flags, mux.uses, q)
      /\ q \in InFlight
  BY <1>1, Walks
<1>3. Down(flags, mux.uses, q)
  BY <1>1, <1>2, ByPlace
<1>4. q.pos - 1 \in Nat /\ "panicked" \in Look /\ "panic" \in Place
  BY <1>3 DEF Down, Look, Place
<1>5. Shape(m, q, "up", q.pos - 1, q.err, q.wrote, "panicked", "redirect")
  BY <1>2, <1>4, ReturnsShape
<1> HIDE DEF m, q
<1>6. Shape(n, m, "panic", m.pos, m.err, m.wrote, m.looked, m.by)
  BY <1>4, <1>5, ShapeAt DEF Shape
<1> HIDE DEF n
<1>7. Shape(n, q, "panic", q.pos - 1, q.err, q.wrote, "panicked", "redirect")
  BY <1>5, <1>6 DEF Shape
<1>8. Fits(flags, mux.uses, n)
  BY <1>1, <1>2, <1>7, PanicsFits
<1>9. QED
  BY <1>1, <1>2, <1>8, MovedAlone

LEMMA RenderErrorKeeps ==
  ASSUME IInv, NEW s \in Stream, RenderError(s)
  PROVE  IInv'
<1> DEFINE q == rq[s]
           wrote == IF q.err # 0 THEN Append(q.wrote, q.err) ELSE q.wrote
           n == [q EXCEPT !.pos = q.pos - 1, !.wrote = wrote]
<1>1. /\ q # Idle /\ q.at = "up" /\ UNCHANGED <<server, conn, route>> /\ Moves(s, n)
      /\ Handler(s) = "Error"
  BY Going DEF RenderError
<1>2. /\ life = "serving" /\ Chain(flags, mux.uses) /\ Fits(flags, mux.uses, q)
      /\ q \in InFlight
  BY <1>1, Walks
<1>3. q.pos = 2
  BY <1>1, HandlerFacts
<1>4. (q.err # 0 /\ wrote = Append(q.wrote, q.err)) \/ (q.err = 0 /\ wrote = q.wrote)
  OBVIOUS
<1> HIDE DEF q, wrote
<1>5. q.wrote \in Seq(Status) /\ (q.err # 0 => q.err \in Status)
  BY <1>2, Types DEF Err, Status
<1>6. wrote \in Seq(Status) /\ q.pos - 1 \in Nat
  BY <1>3, <1>4, <1>5, AppendProperties
<1>7. Shape(n, q, q.at, q.pos - 1, q.err, wrote, q.looked, q.by)
  BY <1>2, <1>6, ShapePosWrote
<1> HIDE DEF n
<1>8. Fits(flags, mux.uses, n)
  BY ONLY <1>1, <1>2, <1>3, <1>4, <1>7, RenderFits
<1>9. QED
  BY <1>1, <1>2, <1>8, MovedAlone

LEMMA UnwindsKeeps ==
  ASSUME IInv, NEW s \in Stream, Unwinds(s)
  PROVE  IInv'
<1> DEFINE q == rq[s]
           n == [q EXCEPT !.pos = q.pos - 1]
<1>1. /\ q # Idle /\ UNCHANGED <<server, conn, route>> /\ Moves(s, n) /\ q.pos > 0
      /\ \/ q.at = "up" /\ Handler(s) \in {"Recoverer", "H2C", "GRPC"}
         \/ q.at = "panic" /\ Handler(s) # "Recoverer"
  BY Going DEF Unwinds
<1>2. /\ life = "serving" /\ Chain(flags, mux.uses) /\ Fits(flags, mux.uses, q)
      /\ q \in InFlight
  BY <1>1, Walks
<1>3. q.pos \in Nat /\ q.pos >= 1
  BY <1>1, <1>2, Types
<1>4. (q.at = "up" /\ q.pos # 2) \/ (q.at = "panic" /\ q.pos >= 2)
  <2>1. /\ q.pos \in 1 .. Len(mux.uses) => Handler(s) = mux.uses[q.pos]
        /\ Len(mux.uses) >= 2 /\ mux.uses[1] = "Recoverer" /\ mux.uses[2] = "Error"
    BY <1>2 DEF Handler, Chain
  <2>2. CASE q.at = "up"
    BY <1>1, <1>3, <2>1, <2>2
  <2>3. CASE q.at = "panic"
    BY <1>1, <1>3, <2>1, <2>3
  <2>4. QED
    BY <1>1, <2>2, <2>3
<1> HIDE DEF q
<1>5. Shape(n, q, q.at, q.pos - 1, q.err, q.wrote, q.looked, q.by)
  BY <1>2, <1>3, ShapePos
<1> HIDE DEF n
<1>6. Fits(flags, mux.uses, n)
  BY <1>2, <1>3, <1>4, <1>5, UnwindsFits
<1>7. QED
  BY <1>1, <1>2, <1>6, MovedAlone

LEMMA FinishKeeps ==
  ASSUME IInv, NEW s \in Stream, Finish(s)
  PROVE  IInv'
<1> DEFINE q == rq[s]
           n == [q EXCEPT !.at = "done"]
<1>1. /\ q # Idle /\ UNCHANGED <<server, conn, route>> /\ Moves(s, n) /\ q.pos = 0
      /\ q.at \in {"up", "panic"}
  BY Going DEF Finish
<1>2. /\ life = "serving" /\ Chain(flags, mux.uses) /\ Fits(flags, mux.uses, q)
      /\ q \in InFlight
  BY <1>1, Walks
<1> HIDE DEF q
<1>3. Shape(n, q, "done", q.pos, q.err, q.wrote, q.looked, q.by)
  BY <1>2, ShapeAt DEF Place
<1> HIDE DEF n
<1>4. Fits(flags, mux.uses, n)
  BY <1>1, <1>2, <1>3, FinishFits
<1>5. QED
  BY <1>1, <1>2, <1>4, MovedAlone

LEMMA CloseKeeps ==
  ASSUME IInv, NEW s \in Stream, Close(s)
  PROVE  IInv'
<1> DEFINE q == rq[s]
           n == [q EXCEPT !.at = "up", !.pos = q.pos - 1]
<1>1. /\ q # Idle /\ q.at = "held" /\ UNCHANGED server /\ Moves(s, n)
      /\ conn' = "http1" /\ route' = ""
  BY Going DEF Close
<1>2. /\ life = "serving" /\ Chain(flags, mux.uses) /\ Fits(flags, mux.uses, q)
      /\ q \in InFlight
  BY <1>1, Walks
<1> HIDE DEF q
<1>3. q.pos - 1 \in Nat
  <2>1. Held(mux.uses, q)
    BY <1>1, <1>2, ByPlace
  <2>2. q.pos \in 1 .. Len(mux.uses)
    BY <2>1 DEF Held
  <2>3. QED
    BY <2>2
<1>4. Shape(n, q, "up", q.pos - 1, q.err, q.wrote, q.looked, q.by)
  BY <1>2, <1>3, ShapeAtPos DEF Place
<1> HIDE DEF n
<1>5. Fits(flags, mux.uses, n)
  BY <1>1, <1>2, <1>4, CloseFits
<1>6. QED
  BY <1>1, <1>2, <1>5, Moved

LEMMA NextIInv == IInv /\ [Next]_vars => IInv'
<1> SUFFICES ASSUME IInv, [Next]_vars PROVE IInv'
  OBVIOUS
<1>1. CASE Build
  BY <1>1, ApplyOptionKeeps, ListenAndServeKeeps DEF Build
<1>2. ASSUME NEW s \in Stream, Step(s) PROVE IInv'
  BY <1>2, PassesKeeps, InterceptH2CKeeps, InterceptGRPCKeeps, TakeMethodKeeps, NotAllowedKeeps,
     RedirectFailsKeeps, RedirectFindsKeeps, RedirectPanicsKeeps, RenderErrorKeeps, RecoverKeeps,
     UnwindsKeeps, FinishKeeps
  DEF Step
<1>3. ASSUME NEW s \in Stream, Arrive(s) \/ Sent(s) \/ Close(s) PROVE IInv'
  BY <1>3, ArriveKeeps, SentKeeps, CloseKeeps
<1>4. CASE UNCHANGED vars
  <2>1. flags' = flags /\ todo' = todo /\ mux' = mux /\ life' = life /\ conn' = conn /\ route' = route /\ rq' = rq
    BY <1>4 DEF vars, server
  <2>2. QED
    BY <2>1 DEF IInv, TypeOK, Assembled, Walking
<1>5. QED
  BY <1>1, <1>2, <1>3, <1>4 DEF Next

LEMMA Invariant == Spec => []IInv
BY InitIInv, NextIInv, PTL DEF Spec

-----------------------------------------------------------------------------
\* The state of server.New and of any requests on a connection keeps its types.
THEOREM TypeCorrect == Spec => []TypeOK
<1>1. IInv => TypeOK
  BY DEF IInv
<1>2. QED
  BY <1>1, Invariant, PTL

\* No setting of the flags makes server.New add a middleware behind the route, and panic
\* (server.go:54, wire_gen.go:37-65).
THEOREM NewReturns == Spec => []StartsUp
<1>1. IInv => StartsUp
  BY DEF IInv, Assembled, StartsUp
<1>2. QED
  BY <1>1, Invariant, PTL

\* However many streams there are and whichever handler takes a request: one status is
\* written, and never a second (server.go:28-31, error.go:35-76).
THEOREM OneAnswer == Spec => []AnsweredOnce
<1>1. IInv => AnsweredOnce
  <2> SUFFICES ASSUME IInv, NEW s \in Stream, rq[s] # Idle
               PROVE  /\ Len(rq[s].wrote) <= 1
                      /\ rq[s].at = "done" /\ rq[s].by # "h2c" => Len(rq[s].wrote) = 1
    BY DEF AnsweredOnce, Busy, Idle
  <2>1. Fits(flags, mux.uses, rq[s])
    BY Walks
  <2>2. /\ Len(<< >>) = 0
        /\ Len(<<200>>) = 1 /\ Len(<<307>>) = 1 /\ Len(<<404>>) = 1
        /\ Len(<<405>>) = 1 /\ Len(<<500>>) = 1
    OBVIOUS
  <2> DEFINE q == rq[s]
  <2> HIDE DEF q
  <2>3. CASE q.wrote = << >> /\ (q.at = "done" => q.by = "h2c")
    BY <2>2, <2>3 DEF q
  <2>4. CASE q.wrote \in {<<200>>, <<307>>, <<404>>, <<405>>, <<500>>}
    <3>1. \A x \in {<<200>>, <<307>>, <<404>>, <<405>>, <<500>>} : Len(x) = 1
      BY <2>2
    <3>2. Len(q.wrote) = 1
      BY <2>4, <3>1
    <3>3. QED
      BY <3>2 DEF q
  <2>5. Down(flags, mux.uses, q) \/ Held(mux.uses, q) \/ Panicking(flags, mux.uses, q)
          \/ Up(flags, mux.uses, q)
    BY <2>1 DEF Fits, q
  <2>6. CASE Down(flags, mux.uses, q)
    BY <2>3, <2>6 DEF Down
  <2>7. CASE Held(mux.uses, q)
    BY <2>3, <2>7 DEF Held
  <2>8. CASE Panicking(flags, mux.uses, q)
    BY <2>3, <2>8 DEF Panicking
  <2>9. CASE Up(flags, mux.uses, q)
    <3>1. CASE q.by = "h2c"
      <4>1. q.wrote = << >>
        BY <2>9, <3>1 DEF Up, Problem
      <4>2. QED
        BY <2>3, <3>1, <4>1
    <3>2. CASE q.by # "h2c" /\ q.wrote # << >>
      <4>1. q.wrote \in {<<200>>, <<307>>, <<404>>, <<405>>, <<500>>}
        BY <2>9, <3>2 DEF Up, Problem
      <4>2. QED
        BY <2>4, <4>1
    <3>3. CASE q.wrote = << >> /\ q.by # "h2c"
      <4>1. <<200>> # << >> /\ <<307>> # << >> /\ <<404>> # << >> /\ <<405>> # << >>
            /\ <<500>> # << >>
        OBVIOUS
      <4>2. q.pos >= 2
        BY <2>9, <3>3, <4>1 DEF Up, Problem
      <4>3. q.at # "done"
        BY <2>9, <4>2 DEF Up
      <4>4. QED
        BY <2>3, <3>3, <4>3
    <3>4. QED
      BY <3>1, <3>2, <3>3
  <2>10. QED
    BY <2>5, <2>6, <2>7, <2>8, <2>9
<1>2. QED
  BY <1>1, Invariant, PTL

\* The status is the one the store's answer asks for, whoever writes it (storage.go:17-45).
THEOREM StatusIsTrue == Spec => []TellsTheTruth
<1>1. IInv => TellsTheTruth
  <2> SUFFICES ASSUME IInv, NEW s \in Stream, rq[s].at = "done"
               PROVE  /\ rq[s].looked = "found" => rq[s].wrote = <<307>>
                      /\ rq[s].looked = "missing" <=> rq[s].wrote = <<404>>
                      /\ rq[s].looked \in {"failed", "panicked"} <=> rq[s].wrote = <<500>>
    BY DEF TellsTheTruth
  <2>1. rq[s] # Idle
    BY DEF Idle
  <2>2. Up(flags, mux.uses, rq[s])
    BY <2>1, Walks, ByPlace
  <2>3. QED
    BY <2>2 DEF Up, Problem
<1>2. QED
  BY <1>1, Invariant, PTL

\* A call of the API reaches the gRPC server, and nothing else does, for any host that
\* --server.api.grpc.host names and any requests (interceptor.go:37-98, server.go:100-117).
THEOREM RPCsReachTheirServer == Spec => []RPCsApart
<1>1. IInv => RPCsApart
  <2> SUFFICES ASSUME IInv, NEW s \in Stream, rq[s].at = "done", flags.grpcHost # "*"
               PROVE  rq[s].by = "grpc" <=>
                        /\ flags.api
                        /\ flags.h2c
                        /\ rq[s].r.type = "grpc"
                        /\ rq[s].r.proto = "HTTP/2.0"
                        /\ flags.grpcHost \in {"", rq[s].r.host}
    BY DEF RPCsApart
  <2>1. rq[s] # Idle
    BY DEF Idle
  <2>2. Fits(flags, mux.uses, rq[s]) /\ Up(flags, mux.uses, rq[s])
    BY <2>1, Walks, ByPlace
  <2>3. rq[s].by = "grpc" <=> flags.api /\ RPC(flags, rq[s].r)
    BY <2>2 DEF Up
  <2>4. rq[s].r.type = "grpc" /\ rq[s].r.proto = "HTTP/2.0" => flags.h2c
    BY <2>2 DEF Fits
  <2>5. QED
    BY <2>3, <2>4 DEF RPC, IsGRPC
<1>2. QED
  BY <1>1, Invariant, PTL
-----------------------------------------------------------------------------
\* What a step may make of a request q: n is one handler further, or back, or elsewhere on
\* the only way there is.
Stride(q, n) ==
  \/ q.at = "down" /\ n.at \in {"down", "find", "held"}
       /\ n.pos = IF n.at = "down" THEN q.pos + 1 ELSE q.pos
  \/ q.at # "done" /\ n.at \in {"up", "panic"} /\ n.pos = q.pos - 1
  \/ q.at \in {"up", "panic"} /\ n.at = "done"

\* The place of a request that has been edited.
LEMMA EditPlace ==
  ASSUME NEW q \in InFlight
  PROVE  /\ \A x : [q EXCEPT !.pos = x].at = q.at /\ [q EXCEPT !.pos = x].pos = x
         /\ \A x : [q EXCEPT !.at = x].at = x /\ [q EXCEPT !.at = x].pos = q.pos
         /\ \A x, y : LET n == [q EXCEPT !.at = x, !.by = y]
                      IN  n.at = x /\ n.pos = q.pos
         /\ \A x, y : LET n == [q EXCEPT !.at = x, !.pos = y]
                      IN  n.at = x /\ n.pos = y
         /\ \A x, y : LET n == [q EXCEPT !.pos = x, !.wrote = y]
                      IN  n.at = q.at /\ n.pos = x
         /\ \A x, y, w, b : LET n == [q EXCEPT !.at = x, !.pos = y, !.wrote = w, !.by = b]
                            IN  n.at = x /\ n.pos = y
BY DEF InFlight

\* What Redirect returns.
LEMMA ReturnsPlace ==
  ASSUME NEW s \in Stream, rq[s] \in InFlight, NEW looked
  PROVE  LET m == Returns(s, looked)
         IN  /\ m.at = "up" /\ m.pos = rq[s].pos - 1
             /\ \A x : [m EXCEPT !.err = x].at = m.at /\ [m EXCEPT !.err = x].pos = m.pos
             /\ \A x : [m EXCEPT !.wrote = x].at = m.at /\ [m EXCEPT !.wrote = x].pos = m.pos
             /\ \A x : [m EXCEPT !.at = x].at = x /\ [m EXCEPT !.at = x].pos = m.pos
BY DEF Returns, InFlight

\* The distance of a request that is at place at and handler pos of l.
Far(l, at, pos) ==
  IF at = "down" THEN 2 * l + 4 - pos
  ELSE IF at = "find" THEN l + 2
  ELSE IF at = "done" THEN 0
  ELSE pos + 1

\* A stride takes a request nearer to its end.
LEMMA StrideNearer ==
  ASSUME NEW f, NEW u, Len(u) \in Nat, NEW q, NEW n, Fits(f, u, q), Stride(q, n)
  PROVE  Far(Len(u), n.at, n.pos) \in 0 .. Far(Len(u), q.at, q.pos) - 1
<1> DEFINE l == Len(u)
           a == q.at
           b == n.at
           p == q.pos
           m == n.pos
<1>1. p \in Nat /\ a \in {"down", "up", "held", "find", "panic"}
  BY DEF Fits, InFlight, Stride
<1>2. /\ a = "down" => p \in 1 .. l + 1
      /\ a = "find" => p = l + 1
  <2>1. a \in {"down", "find"} => Down(f, u, q)
    BY DEF Fits, Down, Held, Panicking, Up
  <2>2. QED
    BY <2>1 DEF Down
<1>3. \/ a = "down" /\ b = "down" /\ m = p + 1
      \/ a = "down" /\ b \in {"find", "held"} /\ m = p
      \/ b \in {"up", "panic"} /\ m = p - 1
      \/ a \in {"up", "panic"} /\ b = "done"
  BY DEF Stride
<1> HIDE DEF l, a, b, p, m
<1>4. l \in Nat
  BY DEF l
<1>5. Far(l, b, m) \in 0 .. Far(l, a, p) - 1
  <2>1. CASE a = "down"
    BY <1>1, <1>2, <1>3, <1>4, <2>1 DEF Far
  <2>2. CASE a = "find"
    BY <1>1, <1>2, <1>3, <1>4, <2>2 DEF Far
  <2>3. CASE a \in {"up", "held", "panic"}
    BY <1>1, <1>3, <1>4, <2>3 DEF Far
  <2>4. QED
    BY <1>1, <2>1, <2>2, <2>3
<1>6. QED
  BY <1>5 DEF l, a, b, p, m

\* Every step of a request is a stride of it.
LEMMA StepStrides ==
  ASSUME IInv, NEW s \in Stream, Step(s) \/ Close(s)
  PROVE  /\ rq[s] # Idle /\ mux' = mux
         /\ Stride(rq[s], rq'[s])
         /\ \A t \in Stream \ {s} : rq'[t] = rq[t]
<1> DEFINE q == rq[s]
<1>1. q # Idle /\ mux' = mux
  BY Going DEF Step, Passes, InterceptH2C, InterceptGRPC, TakeMethod, NotAllowed, RedirectFails,
               RedirectFinds, RedirectPanics, RenderError, Recover, Unwinds, Finish, Close, server
<1>2. q \in InFlight /\ rq \in [Stream -> {Idle} \cup InFlight]
  BY <1>1, Walks DEF IInv, TypeOK
<1>3. ASSUME NEW n, Moves(s, n), Stride(q, n)
      PROVE  Stride(rq[s], rq'[s]) /\ \A t \in Stream \ {s} : rq'[t] = rq[t]
  BY <1>2, <1>3 DEF Moves
<1>4. CASE Passes(s)
  <2> DEFINE n == [q EXCEPT !.pos = q.pos + 1]
  <2>1. Moves(s, n) /\ q.at = "down"
    BY <1>4 DEF Passes, At
  <2>2. n.at = q.at /\ n.pos = q.pos + 1
    BY <1>2, EditPlace
  <2> HIDE DEF n, q
  <2>3. Stride(q, n)
    BY <2>1, <2>2 DEF Stride
  <2>4. QED
    BY <1>1, <1>3, <2>1, <2>3 DEF q
<1>5. CASE InterceptH2C(s)
  <2> DEFINE n == [q EXCEPT !.at = "held", !.by = "h2c"]
  <2>1. Moves(s, n) /\ q.at = "down"
    BY <1>5 DEF InterceptH2C, At
  <2>2. n.at = "held" /\ n.pos = q.pos
    BY <1>2, EditPlace
  <2> HIDE DEF n, q
  <2>3. Stride(q, n)
    BY <2>1, <2>2 DEF Stride
  <2>4. QED
    BY <1>1, <1>3, <2>1, <2>3 DEF q
<1>6. CASE TakeMethod(s)
  <2> DEFINE n == [q EXCEPT !.at = "find"]
  <2>1. Moves(s, n) /\ q.at = "down"
    BY <1>6 DEF TakeMethod, At
  <2>2. n.at = "find" /\ n.pos = q.pos
    BY <1>2, EditPlace
  <2> HIDE DEF n, q
  <2>3. Stride(q, n)
    BY <2>1, <2>2 DEF Stride
  <2>4. QED
    BY <1>1, <1>3, <2>1, <2>3 DEF q
<1>7. CASE InterceptGRPC(s) \/ NotAllowed(s) \/ Recover(s)
  <2>1. PICK status, b :
          q.at \in {"down", "find", "panic"} /\ Answers(s, status, b)
    <3>1. CASE InterceptGRPC(s)
      BY <3>1 DEF InterceptGRPC, At
    <3>2. CASE NotAllowed(s)
      BY <3>2 DEF NotAllowed, At
    <3>3. CASE Recover(s)
      BY <3>3 DEF Recover, At
    <3>4. QED
      BY <1>7, <3>1, <3>2, <3>3
  <2> DEFINE w == Append(q.wrote, status)
             n == [q EXCEPT !.at = "up", !.pos = q.pos - 1, !.wrote = w, !.by = b]
  <2>2. n.at = "up" /\ n.pos = q.pos - 1
    BY <1>2, EditPlace
  <2>3. Moves(s, n)
    BY <2>1 DEF Answers
  <2> HIDE DEF n, q
  <2>4. Stride(q, n)
    BY <2>1, <2>2 DEF Stride
  <2>5. QED
    BY <1>1, <1>3, <2>3, <2>4 DEF q
<1>8. ASSUME q.at = "find", NEW n, Moves(s, n), n.at \in {"up", "panic"}, n.pos = q.pos - 1
      PROVE  Stride(rq[s], rq'[s]) /\ \A t \in Stream \ {s} : rq'[t] = rq[t]
  <2> HIDE DEF q
  <2>1. Stride(q, n)
    BY <1>8 DEF Stride
  <2>2. QED
    BY <1>3, <1>8, <2>1
<1>9. CASE RedirectFails(s)
  <2>1. PICK looked, err : Moves(s, [Returns(s, looked) EXCEPT !.err = err])
    BY <1>9 DEF RedirectFails
  <2>2. q.at = "find"
    BY <1>9 DEF RedirectFails, At
  <2> DEFINE n == [Returns(s, looked) EXCEPT !.err = err]
  <2>3. n.at = "up" /\ n.pos = q.pos - 1
    BY <1>2, ReturnsPlace
  <2>4. Moves(s, n)
    BY <2>1
  <2> HIDE DEF n, q
  <2>5. QED
    BY <1>1, <1>8, <2>2, <2>3, <2>4 DEF q
<1>10. CASE RedirectFinds(s)
  <2>1. PICK w : Moves(s, [Returns(s, "found") EXCEPT !.wrote = w])
    BY <1>10 DEF RedirectFinds
  <2>2. q.at = "find"
    BY <1>10 DEF RedirectFinds, At
  <2> DEFINE n == [Returns(s, "found") EXCEPT !.wrote = w]
  <2>3. n.at = "up" /\ n.pos = q.pos - 1
    BY <1>2, ReturnsPlace
  <2>4. Moves(s, n)
    BY <2>1
  <2> HIDE DEF n, q
  <2>5. QED
    BY <1>1, <1>8, <2>2, <2>3, <2>4 DEF q
<1>11. CASE RedirectPanics(s)
  <2> DEFINE n == [Returns(s, "panicked") EXCEPT !.at = "panic"]
  <2>1. Moves(s, n) /\ q.at = "find"
    BY <1>11 DEF RedirectPanics, At
  <2>2. n.at = "panic" /\ n.pos = q.pos - 1
    BY <1>2, ReturnsPlace
  <2> HIDE DEF n, q
  <2>3. QED
    BY <1>1, <1>8, <2>1, <2>2 DEF q
<1>12. CASE RenderError(s)
  <2>1. PICK w : q.at = "up" /\ Moves(s, [q EXCEPT !.pos = q.pos - 1, !.wrote = w])
    BY <1>12 DEF RenderError, At
  <2> DEFINE n == [q EXCEPT !.pos = q.pos - 1, !.wrote = w]
  <2>2. n.at = q.at /\ n.pos = q.pos - 1
    BY <1>2, EditPlace
  <2>3. Moves(s, n)
    BY <2>1
  <2> HIDE DEF n, q
  <2>4. Stride(q, n)
    BY <2>1, <2>2 DEF Stride
  <2>5. QED
    BY <1>1, <1>3, <2>3, <2>4 DEF q
<1>13. CASE Unwinds(s)
  <2> DEFINE n == [q EXCEPT !.pos = q.pos - 1]
  <2>1. Moves(s, n) /\ q.at \in {"up", "panic"}
    BY <1>13 DEF Unwinds, At
  <2>2. n.at = q.at /\ n.pos = q.pos - 1
    BY <1>2, EditPlace
  <2> HIDE DEF n, q
  <2>3. Stride(q, n)
    BY <2>1, <2>2 DEF Stride
  <2>4. QED
    BY <1>1, <1>3, <2>1, <2>3 DEF q
<1>14. CASE Finish(s)
  <2> DEFINE n == [q EXCEPT !.at = "done"]
  <2>1. Moves(s, n) /\ q.at \in {"up", "panic"}
    BY <1>14 DEF Finish, At
  <2>2. n.at = "done"
    BY <1>2, EditPlace
  <2> HIDE DEF n, q
  <2>3. Stride(q, n)
    BY <2>1, <2>2 DEF Stride
  <2>4. QED
    BY <1>1, <1>3, <2>1, <2>3 DEF q
<1>15. CASE Close(s)
  <2> DEFINE n == [q EXCEPT !.at = "up", !.pos = q.pos - 1]
  <2>1. Moves(s, n) /\ q.at = "held"
    BY <1>15 DEF Close, At
  <2>2. n.at = "up" /\ n.pos = q.pos - 1
    BY <1>2, EditPlace
  <2> HIDE DEF n, q
  <2>3. Stride(q, n)
    BY <2>1, <2>2 DEF Stride
  <2>4. QED
    BY <1>1, <1>3, <2>1, <2>3 DEF q
<1>16. Stride(rq[s], rq'[s]) /\ \A t \in Stream \ {s} : rq'[t] = rq[t]
  BY <1>4, <1>5, <1>6, <1>7, <1>9, <1>10, <1>11, <1>12, <1>13, <1>14, <1>15 DEF Step
<1>17. QED
  BY <1>1, <1>16

\* For any number of streams: each step of a request takes it nearer to its answer
\* (server.go:28-31, error.go:36-76, interceptor.go:83-98).
THEOREM ChainIsLeft == Spec => WalkEnds
<1> DEFINE Nearer == \A s \in Stream :
                       Busy(s) /\ rq'[s] # rq[s] => Distance(rq[s])' \in 0 .. Distance(rq[s]) - 1
<1>1. ASSUME IInv, NEW s \in Stream, Busy(s), rq'[s] # rq[s], [Next]_vars
      PROVE  Distance(rq[s])' \in 0 .. Distance(rq[s]) - 1
  <2>1. rq[s] # Idle
    BY <1>1 DEF Busy, Idle
  <2>2. Step(s) \/ Close(s)
    <3>1. rq \in [Stream -> {Idle} \cup InFlight]
      BY <1>1 DEF IInv, TypeOK
    <3>2. rq' # rq /\ ~ UNCHANGED vars /\ ~ Build
      BY <1>1 DEF vars, Build, ApplyOption, ListenAndServe
    <3>3. PICK t \in Stream : Arrive(t) \/ Step(t) \/ Sent(t) \/ Close(t)
      BY <1>1, <3>2 DEF Next
    <3>4. CASE t # s /\ (Step(t) \/ Close(t))
      BY <1>1, <3>4, StepStrides
    <3>5. CASE t # s /\ (Arrive(t) \/ Sent(t))
      <4>1. PICK n : rq' = [rq EXCEPT ![t] = n]
        BY <3>5 DEF Arrive, Sent, Moves
      <4>2. QED
        BY <1>1, <3>1, <3>5, <4>1
    <3>6. CASE t = s /\ (Arrive(t) \/ Sent(t))
      <4>1. rq[s].at \in {"idle", "done"}
        BY <3>6 DEF Arrive, Sent
      <4>2. QED
        BY <1>1, <4>1 DEF Busy
    <3>7. QED
      BY <3>3, <3>4, <3>5, <3>6
  <2>3. mux' = mux /\ Stride(rq[s], rq'[s])
    BY <1>1, <2>2, StepStrides
  <2>4. Fits(flags, mux.uses, rq[s]) /\ Len(mux.uses) \in Nat
    BY <1>1, <2>1, Walks DEF Chain
  <2>5. Far(Len(mux.uses), rq'[s].at, rq'[s].pos)
          \in 0 .. Far(Len(mux.uses), rq[s].at, rq[s].pos) - 1
    BY <2>3, <2>4, StrideNearer
  <2>6. Distance(rq[s])' = Far(Len(mux.uses), rq'[s].at, rq'[s].pos)
    BY <2>3 DEF Distance, Far
  <2>7. Distance(rq[s]) = Far(Len(mux.uses), rq[s].at, rq[s].pos)
    BY DEF Distance, Far
  <2>8. QED
    BY <2>5, <2>6, <2>7
<1>2. IInv /\ [Next]_vars => [Nearer]_vars
  BY <1>1
<1> HIDE DEF Nearer
<1>3. Spec => [][Nearer]_vars
  BY <1>2, Invariant, PTL DEF Spec
<1>4. QED
  BY <1>3 DEF Nearer, WalkEnds
(***************************************************************************)
(* Refinement of Responder: a request is decided when a handler takes it or *)
(* Redirect returns, and its answer is sent when it leaves the chain.       *)
(***************************************************************************)
absPhase == [s \in Stream |-> PhaseOf(rq[s])]

absVerdict == [s \in Stream |-> VerdictOf(rq[s])]

absAnswer == [s \in Stream |-> AnswerOf(rq[s])]

\* What a step may show of a request q that it makes n: nothing, what was decided, or the
\* answer to that.
Unchanged(q, n) == n.at \notin {"idle", "done"} /\ n.by = q.by /\ n.looked = q.looked

Decided(q, n) ==
  /\ n.at \notin {"idle", "done"}
  /\ q.by = "none"
  /\ VerdictOf(n) \in Outside!Verdict

Finished(q, n) == n.at = "done" /\ n.by = q.by /\ n.looked = q.looked

\* What a request that has been edited shows.
LEMMA EditShows ==
  ASSUME NEW q \in InFlight
  PROVE  /\ \A x : [q EXCEPT !.pos = x].by = q.by /\ [q EXCEPT !.pos = x].looked = q.looked
         /\ \A x : [q EXCEPT !.at = x].by = q.by /\ [q EXCEPT !.at = x].looked = q.looked
         /\ \A x, y : LET n == [q EXCEPT !.at = x, !.by = y]
                      IN  n.at = x /\ n.by = y
         /\ \A x, y : LET n == [q EXCEPT !.at = x, !.pos = y]
                      IN  n.by = q.by /\ n.looked = q.looked
         /\ \A x, y : LET n == [q EXCEPT !.pos = x, !.wrote = y]
                      IN  n.by = q.by /\ n.looked = q.looked
         /\ \A x, y, w, b : LET n == [q EXCEPT !.at = x, !.pos = y, !.wrote = w, !.by = b]
                            IN  n.by = b /\ n.looked = q.looked
BY DEF InFlight

\* What Redirect has said of one.
LEMMA ReturnsShows ==
  ASSUME NEW s \in Stream, rq[s] \in InFlight, NEW looked
  PROVE  LET m == Returns(s, looked)
         IN  /\ m.by = "redirect" /\ m.looked = looked
             /\ \A x : [m EXCEPT !.err = x].by = m.by /\ [m EXCEPT !.err = x].looked = m.looked
             /\ \A x : [m EXCEPT !.wrote = x].by = m.by /\ [m EXCEPT !.wrote = x].looked = m.looked
             /\ \A x : [m EXCEPT !.at = x].by = m.by /\ [m EXCEPT !.at = x].looked = m.looked
BY DEF Returns, InFlight

\* A step of one request is a step of what it shows.
LEMMA ShownOne ==
  ASSUME IInv, NEW s \in Stream, NEW n, Moves(s, n)
  PROVE  /\ absPhase' = [absPhase EXCEPT ![s] = PhaseOf(n)]
         /\ absVerdict' = [absVerdict EXCEPT ![s] = VerdictOf(n)]
         /\ absAnswer' = [absAnswer EXCEPT ![s] = AnswerOf(n)]
<1>1. rq \in [Stream -> {Idle} \cup InFlight] /\ rq' = [rq EXCEPT ![s] = n]
  BY DEF IInv, TypeOK, Moves
<1>2. /\ PhaseOf(rq'[s]) = PhaseOf(n) /\ VerdictOf(rq'[s]) = VerdictOf(n)
      /\ AnswerOf(rq'[s]) = AnswerOf(n)
      /\ \A t \in Stream \ {s} : rq'[t] = rq[t]
  BY <1>1
<1>3. /\ absPhase' = [t \in Stream |-> PhaseOf(rq'[t])]
      /\ absVerdict' = [t \in Stream |-> VerdictOf(rq'[t])]
      /\ absAnswer' = [t \in Stream |-> AnswerOf(rq'[t])]
  BY DEF absPhase, absVerdict, absAnswer, PhaseOf, VerdictOf, AnswerOf
<1>4. QED
  BY <1>2, <1>3 DEF absPhase, absVerdict, absAnswer

\* The answer of a request that has left the chain is one to what was decided of it.
LEMMA AnswerFits ==
  ASSUME NEW f, NEW u, NEW q, Chain(f, u), Fits(f, u, q), q.at = "done"
  PROVE  VerdictOf(q) # "none" /\ q.wrote \in Outside!Answers(VerdictOf(q))
<1>1. Up(f, u, q)
  BY ByPlace
<1>2. QED
  BY <1>1 DEF Up, Problem, VerdictOf, Outside!Answers

\* A function given the value it has at a point is the function it was.
LEMMA SameAgain ==
  ASSUME NEW S, NEW f, f = [y \in S |-> f[y]], NEW x
  PROVE  [f EXCEPT ![x] = f[x]] = f
OBVIOUS

\* What a step of a request shows is a step of Responder.
LEMMA ShownRefines ==
  ASSUME IInv, IInv', NEW s \in Stream, rq[s] # Idle, rq[s].at # "done",
         NEW n, n \in InFlight, Moves(s, n), mux' = mux, flags' = flags,
         Unchanged(rq[s], n) \/ Decided(rq[s], n) \/ Finished(rq[s], n)
  PROVE  [Outside!Next]_(Outside!responderVars)
<1> DEFINE q == rq[s]
<1>1. /\ absPhase' = [absPhase EXCEPT ![s] = PhaseOf(n)]
      /\ absVerdict' = [absVerdict EXCEPT ![s] = VerdictOf(n)]
      /\ absAnswer' = [absAnswer EXCEPT ![s] = AnswerOf(n)]
  BY ShownOne
<1>2. q \in InFlight /\ q.at \notin {"idle", "done"} /\ n.at # "idle"
  <2>1. q \in InFlight
    BY Walks
  <2>2. \A m \in InFlight : m.at # "idle"
    BY DEF InFlight
  <2>3. QED
    BY <2>1, <2>2
<1>3. absPhase[s] = "asked" /\ absVerdict[s] = VerdictOf(q) /\ absAnswer[s] = << >>
  BY <1>2 DEF absPhase, absVerdict, absAnswer, PhaseOf, AnswerOf
<1>4. CASE Unchanged(q, n)
  <2>1. PhaseOf(n) = "asked" /\ AnswerOf(n) = << >> /\ VerdictOf(n) = VerdictOf(q)
    BY <1>2, <1>4 DEF Unchanged, PhaseOf, AnswerOf, VerdictOf
  <2>2. /\ absPhase' = [absPhase EXCEPT ![s] = absPhase[s]]
        /\ absVerdict' = [absVerdict EXCEPT ![s] = absVerdict[s]]
        /\ absAnswer' = [absAnswer EXCEPT ![s] = absAnswer[s]]
    BY <1>1, <1>3, <2>1
  <2>3. absPhase' = absPhase
    BY <2>2, SameAgain DEF absPhase
  <2>4. absVerdict' = absVerdict
    BY <2>2, SameAgain DEF absVerdict
  <2>5. absAnswer' = absAnswer
    BY <2>2, SameAgain DEF absAnswer
  <2>6. QED
    BY <2>3, <2>4, <2>5 DEF Outside!responderVars, absPhase, absVerdict, absAnswer
<1>5. CASE Decided(q, n)
  <2>1. PhaseOf(n) = "asked" /\ AnswerOf(n) = << >> /\ VerdictOf(n) \in Outside!Verdict
    BY <1>2, <1>5 DEF Decided, PhaseOf, AnswerOf
  <2>2. VerdictOf(q) = "none"
    BY <1>2, <1>5 DEF Decided, VerdictOf
  <2>3. absPhase' = absPhase /\ absAnswer' = absAnswer
    <3>1. /\ absPhase' = [absPhase EXCEPT ![s] = absPhase[s]]
          /\ absAnswer' = [absAnswer EXCEPT ![s] = absAnswer[s]]
      BY <1>1, <1>3, <2>1
    <3>2. absPhase' = absPhase
      BY <3>1, SameAgain DEF absPhase
    <3>3. absAnswer' = absAnswer
      BY <3>1, SameAgain DEF absAnswer
    <3>4. QED
      BY <3>2, <3>3
  <2>4. Outside!Decide(s)
    BY <1>1, <1>3, <2>1, <2>2, <2>3 DEF Outside!Decide, absPhase, absVerdict, absAnswer
  <2>5. QED
    BY <2>4 DEF Outside!Next
<1>6. CASE Finished(q, n)
  <2>1. PhaseOf(n) = "sent" /\ AnswerOf(n) = n.wrote /\ VerdictOf(n) = VerdictOf(q)
    BY <1>2, <1>6 DEF Finished, PhaseOf, AnswerOf, VerdictOf
  <2>2. VerdictOf(n) # "none" /\ n.wrote \in Outside!Answers(VerdictOf(n))
    <3>1. rq'[s] = n
      BY DEF IInv, TypeOK, Moves
    <3>2. Chain(flags, mux.uses)
      BY Walks
    <3>3. Fits(flags, mux.uses, n)
      <4>1. n # Idle
        BY <1>2 DEF Idle
      <4>2. QED
        BY <3>1, <4>1 DEF IInv, Walking
    <3>4. QED
      BY <1>6, <3>2, <3>3, AnswerFits DEF Finished
  <2>3. absVerdict' = absVerdict
    BY <1>1, <1>3, <2>1 DEF absVerdict
  <2>4. Outside!Send(s)
    BY <1>1, <1>3, <2>1, <2>2, <2>3 DEF Outside!Send, absPhase, absVerdict, absAnswer
  <2>5. QED
    BY <2>4 DEF Outside!Next
<1>7. QED
  BY <1>4, <1>5, <1>6
\* Every step of a request shows nothing, a decision or an answer.
LEMMA StepShows ==
  ASSUME IInv, IInv', NEW s \in Stream, Step(s) \/ Close(s)
  PROVE  [Outside!Next]_(Outside!responderVars)
<1> DEFINE q == rq[s]
<1>1. /\ q # Idle /\ q.at # "done" /\ mux' = mux /\ flags' = flags
      /\ q.at \in {"down", "find"} => q.by = "none"
  <2>1. q # Idle /\ mux' = mux /\ flags' = flags
    BY Going DEF Step, Passes, InterceptH2C, InterceptGRPC, TakeMethod, NotAllowed, RedirectFails,
                 RedirectFinds, RedirectPanics, RenderError, Recover, Unwinds, Finish, Close, server
  <2>2. q.at # "done"
    BY DEF At, Busy, Step, Passes, InterceptH2C, InterceptGRPC, TakeMethod, NotAllowed,
           RedirectFails, RedirectFinds, RedirectPanics, RenderError, Recover, Unwinds, Finish, Close
  <2>3. q.at \in {"down", "find"} => Down(flags, mux.uses, q)
    BY <2>1, Walks, ByPlace
  <2>4. QED
    BY <2>1, <2>2, <2>3 DEF Down
<1>2. q \in InFlight /\ q.at # "idle"
  <2>1. q \in InFlight
    BY <1>1, Walks
  <2>2. \A m \in InFlight : m.at # "idle"
    BY DEF InFlight
  <2>3. QED
    BY <2>1, <2>2
<1>3. ASSUME NEW n, Moves(s, n), n.at # "idle", Unchanged(q, n) \/ Decided(q, n) \/ Finished(q, n)
      PROVE  [Outside!Next]_(Outside!responderVars)
  <2>1. rq'[s] = n
    BY <1>3 DEF IInv, TypeOK, Moves
  <2>2. n \in {Idle} \cup InFlight
    BY <2>1 DEF IInv, TypeOK
  <2>3. Idle.at = "idle"
    BY DEF Idle
  <2>4. n \in InFlight
    BY <1>3, <2>2, <2>3
  <2>5. QED
    BY <1>1, <1>3, <2>4, ShownRefines
<1>4. CASE Passes(s)
  <2> DEFINE n == [q EXCEPT !.pos = q.pos + 1]
  <2>1. Moves(s, n) /\ q.at = "down"
    BY <1>4 DEF Passes, At
  <2>2. n.at = q.at /\ n.by = q.by /\ n.looked = q.looked
    BY <1>2, EditPlace, EditShows
  <2> HIDE DEF n, q
  <2>3. Unchanged(q, n) /\ n.at # "idle"
    BY <2>1, <2>2 DEF Unchanged
  <2>4. QED
    BY <1>3, <2>1, <2>3 DEF q
<1>5. CASE TakeMethod(s)
  <2> DEFINE n == [q EXCEPT !.at = "find"]
  <2>1. Moves(s, n)
    BY <1>5 DEF TakeMethod
  <2>2. n.at = "find" /\ n.by = q.by /\ n.looked = q.looked
    BY <1>2, EditPlace, EditShows
  <2> HIDE DEF n, q
  <2>3. Unchanged(q, n) /\ n.at # "idle"
    BY <2>2 DEF Unchanged
  <2>4. QED
    BY <1>3, <2>1, <2>3 DEF q
<1>6. CASE RenderError(s)
  <2>1. PICK w : q.at = "up" /\ Moves(s, [q EXCEPT !.pos = q.pos - 1, !.wrote = w])
    BY <1>6 DEF RenderError, At
  <2> DEFINE n == [q EXCEPT !.pos = q.pos - 1, !.wrote = w]
  <2>2. n.at = q.at /\ n.by = q.by /\ n.looked = q.looked
    BY <1>2, EditPlace, EditShows
  <2>3. Moves(s, n)
    BY <2>1
  <2> HIDE DEF n, q
  <2>4. Unchanged(q, n) /\ n.at # "idle"
    BY <2>1, <2>2 DEF Unchanged
  <2>5. QED
    BY <1>3, <2>3, <2>4 DEF q
<1>7. CASE Unwinds(s)
  <2> DEFINE n == [q EXCEPT !.pos = q.pos - 1]
  <2>1. Moves(s, n)
    BY <1>7 DEF Unwinds
  <2>2. n.at = q.at /\ n.by = q.by /\ n.looked = q.looked
    BY <1>2, EditPlace, EditShows
  <2> HIDE DEF n, q
  <2>3. Unchanged(q, n) /\ n.at # "idle"
    BY <1>1, <1>2, <2>2 DEF Unchanged
  <2>4. QED
    BY <1>3, <2>1, <2>3 DEF q
<1>8. CASE Recover(s)
  <2> DEFINE w == Append(q.wrote, 500)
             n == [q EXCEPT !.at = "up", !.pos = q.pos - 1, !.wrote = w, !.by = q.by]
  <2>1. Moves(s, n)
    BY <1>8 DEF Recover, Answers
  <2>2. n.at = "up" /\ n.by = q.by /\ n.looked = q.looked
    BY <1>2, EditPlace, EditShows
  <2> HIDE DEF n, q
  <2>3. Unchanged(q, n) /\ n.at # "idle"
    BY <2>2 DEF Unchanged
  <2>4. QED
    BY <1>3, <2>1, <2>3 DEF q
<1>9. CASE Close(s)
  <2> DEFINE n == [q EXCEPT !.at = "up", !.pos = q.pos - 1]
  <2>1. Moves(s, n)
    BY <1>9 DEF Close
  <2>2. n.at = "up" /\ n.by = q.by /\ n.looked = q.looked
    BY <1>2, EditPlace, EditShows
  <2> HIDE DEF n, q
  <2>3. Unchanged(q, n) /\ n.at # "idle"
    BY <2>2 DEF Unchanged
  <2>4. QED
    BY <1>3, <2>1, <2>3 DEF q
<1>10. CASE Finish(s)
  <2> DEFINE n == [q EXCEPT !.at = "done"]
  <2>1. Moves(s, n)
    BY <1>10 DEF Finish
  <2>2. n.at = "done" /\ n.by = q.by /\ n.looked = q.looked
    BY <1>2, EditPlace, EditShows
  <2> HIDE DEF n, q
  <2>3. Finished(q, n) /\ n.at # "idle"
    BY <2>2 DEF Finished
  <2>4. QED
    BY <1>3, <2>1, <2>3 DEF q
<1>11. CASE InterceptH2C(s)
  <2> DEFINE n == [q EXCEPT !.at = "held", !.by = "h2c"]
  <2>1. Moves(s, n) /\ q.by = "none"
    BY <1>1, <1>11 DEF InterceptH2C, At
  <2>2. n.at = "held" /\ n.by = "h2c"
    BY <1>2, EditShows
  <2> HIDE DEF n, q
  <2>3. Decided(q, n) /\ n.at # "idle"
    BY <2>1, <2>2 DEF Decided, VerdictOf, Outside!Verdict
  <2>4. QED
    BY <1>3, <2>1, <2>3 DEF q
<1>12. CASE InterceptGRPC(s) \/ NotAllowed(s)
  <2>1. PICK status, b :
          q.at \in {"down", "find"} /\ b \in {"grpc", "router"} /\ Answers(s, status, b)
    <3>1. CASE InterceptGRPC(s)
      BY <3>1 DEF InterceptGRPC, At
    <3>2. CASE NotAllowed(s)
      BY <3>2 DEF NotAllowed, At
    <3>3. QED
      BY <1>12, <3>1, <3>2
  <2> DEFINE w == Append(q.wrote, status)
             n == [q EXCEPT !.at = "up", !.pos = q.pos - 1, !.wrote = w, !.by = b]
  <2>2. n.at = "up" /\ n.by = b
    BY <1>2, EditPlace, EditShows
  <2>3. Moves(s, n)
    BY <2>1 DEF Answers
  <2> HIDE DEF n, q
  <2>4. Decided(q, n) /\ n.at # "idle"
    BY <1>1, <2>1, <2>2 DEF Decided, VerdictOf, Outside!Verdict
  <2>5. QED
    BY <1>3, <2>3, <2>4 DEF q
<1>13. ASSUME NEW n, q.at = "find", Moves(s, n), n.at \in {"up", "panic"}, n.by = "redirect",
              n.looked \in {"found", "missing", "failed", "panicked"}
       PROVE  [Outside!Next]_(Outside!responderVars)
  <2> HIDE DEF q
  <2>1. Decided(q, n) /\ n.at # "idle"
    BY <1>1, <1>13 DEF Decided, VerdictOf, Outside!Verdict
  <2>2. QED
    BY <1>3, <1>13, <2>1 DEF q
<1>14. CASE RedirectFails(s)
  <2>1. PICK looked \in {"missing", "failed"}, err \in {404, 500} :
             Moves(s, [Returns(s, looked) EXCEPT !.err = err])
    BY <1>14 DEF RedirectFails
  <2>2. q.at = "find"
    BY <1>14 DEF RedirectFails, At
  <2> DEFINE n == [Returns(s, looked) EXCEPT !.err = err]
  <2>3. n.at = "up" /\ n.by = "redirect" /\ n.looked = looked
    BY <1>2, ReturnsPlace, ReturnsShows
  <2>4. Moves(s, n)
    BY <2>1
  <2> HIDE DEF n, q
  <2>5. QED
    BY <1>13, <2>2, <2>3, <2>4 DEF q
<1>15. CASE RedirectFinds(s)
  <2>1. PICK w : Moves(s, [Returns(s, "found") EXCEPT !.wrote = w])
    BY <1>15 DEF RedirectFinds
  <2>2. q.at = "find"
    BY <1>15 DEF RedirectFinds, At
  <2> DEFINE n == [Returns(s, "found") EXCEPT !.wrote = w]
  <2>3. n.at = "up" /\ n.by = "redirect" /\ n.looked = "found"
    BY <1>2, ReturnsPlace, ReturnsShows
  <2>4. Moves(s, n)
    BY <2>1
  <2> HIDE DEF n, q
  <2>5. QED
    BY <1>13, <2>2, <2>3, <2>4 DEF q
<1>16. CASE RedirectPanics(s)
  <2> DEFINE n == [Returns(s, "panicked") EXCEPT !.at = "panic"]
  <2>1. Moves(s, n) /\ q.at = "find"
    BY <1>16 DEF RedirectPanics, At
  <2>2. n.at = "panic" /\ n.by = "redirect" /\ n.looked = "panicked"
    BY <1>2, ReturnsPlace, ReturnsShows
  <2> HIDE DEF n, q
  <2>3. QED
    BY <1>13, <2>1, <2>2 DEF q
<1>17. QED
  BY <1>4, <1>5, <1>6, <1>7, <1>8, <1>9, <1>10, <1>11, <1>12, <1>14, <1>15, <1>16 DEF Step

\* A request begins, or is gone.
LEMMA ArriveOrSentShows ==
  ASSUME IInv, NEW s \in Stream, Arrive(s) \/ Sent(s)
  PROVE  [Outside!Next]_(Outside!responderVars)
<1>1. CASE Arrive(s)
  <2>1. PICK r : Moves(s, Started(r))
    BY <1>1 DEF Arrive, Moves
  <2>2. rq[s].at = "idle"
    BY <1>1 DEF Arrive
  <2>3. PhaseOf(Started(r)) = "asked" /\ VerdictOf(Started(r)) = "none" /\ AnswerOf(Started(r)) = << >>
    BY DEF Started, PhaseOf, VerdictOf, AnswerOf
  <2>4. absPhase[s] = "idle" /\ absVerdict[s] = "none" /\ absAnswer[s] = << >>
    BY <2>2 DEF absPhase, absVerdict, absAnswer, PhaseOf, VerdictOf, AnswerOf
  <2>5. /\ absPhase' = [absPhase EXCEPT ![s] = "asked"]
        /\ absVerdict' = [absVerdict EXCEPT ![s] = "none"]
        /\ absAnswer' = [absAnswer EXCEPT ![s] = << >>]
    BY <2>1, <2>3, ShownOne
  <2>6. absVerdict' = absVerdict /\ absAnswer' = absAnswer
    BY <2>4, <2>5 DEF absVerdict, absAnswer
  <2>7. Outside!Ask(s)
    BY <2>4, <2>5, <2>6 DEF Outside!Ask, absPhase, absVerdict, absAnswer
  <2>8. QED
    BY <2>7 DEF Outside!Next
<1>2. CASE Sent(s)
  <2>1. Moves(s, Idle) /\ rq[s].at = "done"
    BY <1>2 DEF Sent
  <2>2. PhaseOf(Idle) = "idle" /\ VerdictOf(Idle) = "none" /\ AnswerOf(Idle) = << >>
    BY DEF Idle, PhaseOf, VerdictOf, AnswerOf
  <2>3. absPhase[s] = "sent"
    BY <2>1 DEF absPhase, PhaseOf
  <2>4. /\ absPhase' = [absPhase EXCEPT ![s] = "idle"]
        /\ absVerdict' = [absVerdict EXCEPT ![s] = "none"]
        /\ absAnswer' = [absAnswer EXCEPT ![s] = << >>]
    BY <2>1, <2>2, ShownOne
  <2>5. Outside!Forget(s)
    BY <2>3, <2>4 DEF Outside!Forget, absPhase, absVerdict, absAnswer
  <2>6. QED
    BY <2>5 DEF Outside!Next
<1>3. QED
  BY <1>1, <1>2

\* The server implements Responder for any number of streams, any flags and any answers of
\* the store: a request is decided once, and its answer is what was decided (server.go:28-31,
\* error.go:36-76, storage.go:15-45).
THEOREM ServerIsResponder == Spec => ImplementsResponder
<1>1. Init => Outside!Init
  <2>1. PhaseOf(Idle) = "idle" /\ VerdictOf(Idle) = "none" /\ AnswerOf(Idle) = << >>
    BY DEF Idle, PhaseOf, VerdictOf, AnswerOf
  <2>2. Init => \A s \in Stream : rq[s] = Idle
    BY DEF Init
  <2>3. QED
    BY <2>1, <2>2 DEF Outside!Init
<1>2. IInv /\ IInv' /\ [Next]_vars => [Outside!Next]_(Outside!responderVars)
  <2> SUFFICES ASSUME IInv, IInv', [Next]_vars PROVE [Outside!Next]_(Outside!responderVars)
    OBVIOUS
  <2>1. CASE rq' = rq
    BY <2>1 DEF Outside!responderVars, PhaseOf, VerdictOf, AnswerOf
  <2>2. CASE Build
    BY <2>1, <2>2 DEF Build, ApplyOption, ListenAndServe
  <2>3. CASE \E s \in Stream : Arrive(s) \/ Step(s) \/ Sent(s) \/ Close(s)
    BY <2>3, ArriveOrSentShows, StepShows
  <2>4. CASE UNCHANGED vars
    BY <2>1, <2>4 DEF vars
  <2>5. QED
    BY <2>2, <2>3, <2>4 DEF Next
<1>3. QED
  BY <1>1, <1>2, Invariant, PTL DEF Spec, ImplementsResponder, Outside!Spec
=============================================================================
