----------------------------- MODULE Responder -----------------------------
(***************************************************************************)
(* What src/server promises of a request, whatever middlewares it walks     *)
(* through: one handler takes it and decides once what becomes of it        *)
(* (server.go:28-31, storage.go:15-45), and what is sent is what was        *)
(* decided, by whichever handler it is written.                             *)
(***************************************************************************)
CONSTANT Stream  \* requests in progress on a connection

VARIABLES phase,    \* of each request: "idle", "asked" or "sent"
          verdict,  \* what was decided, or "none" so far
          answer    \* the statuses that were sent

responderVars == <<phase, verdict, answer>>

\* The redirect finds a link, does not have it, or fails; the gRPC server, the router or h2c
\* take the request.
Verdict == {"found", "missing", "failed", "grpc", "router", "h2c"}

\* The answers to a request of which v was decided.  The connection that h2c takes over has
\* none of its own.
Answers(v) ==
  IF v = "found" THEN {<<307>>}
  ELSE IF v = "missing" THEN {<<404>>}
  ELSE IF v = "failed" THEN {<<500>>}
  ELSE IF v = "grpc" THEN {<<200>>, <<405>>}
  ELSE IF v = "router" THEN {<<405>>}
  ELSE {<< >>}

Init ==
  /\ phase = [s \in Stream |-> "idle"]
  /\ verdict = [s \in Stream |-> "none"]
  /\ answer = [s \in Stream |-> << >>]

Ask(s) ==
  /\ phase[s] = "idle"
  /\ phase' = [phase EXCEPT ![s] = "asked"]
  /\ UNCHANGED <<verdict, answer>>

Decide(s) ==
  /\ phase[s] = "asked"
  /\ verdict[s] = "none"
  /\ \E v \in Verdict : verdict' = [verdict EXCEPT ![s] = v]
  /\ UNCHANGED <<phase, answer>>

Send(s) ==
  /\ phase[s] = "asked"
  /\ verdict[s] # "none"
  /\ \E a \in Answers(verdict[s]) : answer' = [answer EXCEPT ![s] = a]
  /\ phase' = [phase EXCEPT ![s] = "sent"]
  /\ UNCHANGED verdict

Forget(s) ==
  /\ phase[s] = "sent"
  /\ phase' = [phase EXCEPT ![s] = "idle"]
  /\ verdict' = [verdict EXCEPT ![s] = "none"]
  /\ answer' = [answer EXCEPT ![s] = << >>]

Next == \E s \in Stream : Ask(s) \/ Decide(s) \/ Send(s) \/ Forget(s)

Spec == Init /\ [][Next]_responderVars
=============================================================================
