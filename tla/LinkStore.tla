----------------------------- MODULE LinkStore -----------------------------
(***************************************************************************)
(* What storage.Storer promises (src/storage/storage.go): "a map between a  *)
(* shortlink and the destination", whose Get and Put behave like the HTTP   *)
(* verbs they are named after - a Put replaces what was there, a Get reads  *)
(* the last Put - and which concurrent callers may share.  Each call takes  *)
(* effect at one instant between its invocation and its return.             *)
(***************************************************************************)
CONSTANTS Client, Key, Dest,
          NotFound,  \* storage.ErrNotFound
          Nil,       \* no result yet, and the nil error of a Put
          NoReq      \* no call in progress

VARIABLES links,  \* the map: a destination, or NotFound
          pc,     \* where each caller is: "idle", "call", "done"
          req,    \* the call in progress
          ret     \* its result

storeVars == <<links, pc, req, ret>>

Request ==
  [op : {"Get"}, key : Key] \cup [op : {"Put"}, key : Key, dest : Dest]

StoreTypeOK ==
  /\ links \in [Key -> Dest \cup {NotFound}]
  /\ pc \in [Client -> {"idle", "call", "done"}]
  /\ req \in [Client -> Request \cup {NoReq}]
  /\ ret \in [Client -> Dest \cup {NotFound, Nil}]

Init ==
  /\ links = [k \in Key |-> NotFound]
  /\ pc = [c \in Client |-> "idle"]
  /\ req = [c \in Client |-> NoReq]
  /\ ret = [c \in Client |-> Nil]

Invoke(c) ==
  /\ pc[c] = "idle"
  /\ \E r \in Request : req' = [req EXCEPT ![c] = r]
  /\ pc' = [pc EXCEPT ![c] = "call"]
  /\ UNCHANGED <<links, ret>>

DoGet(c) ==
  /\ pc[c] = "call"
  /\ req[c].op = "Get"
  /\ ret' = [ret EXCEPT ![c] = links[req[c].key]]
  /\ pc' = [pc EXCEPT ![c] = "done"]
  /\ UNCHANGED <<links, req>>

DoPut(c) ==
  /\ pc[c] = "call"
  /\ req[c].op = "Put"
  /\ links' = [links EXCEPT ![req[c].key] = req[c].dest]
  /\ ret' = [ret EXCEPT ![c] = Nil]
  /\ pc' = [pc EXCEPT ![c] = "done"]
  /\ UNCHANGED req

Return(c) ==
  /\ pc[c] = "done"
  /\ pc' = [pc EXCEPT ![c] = "idle"]
  /\ req' = [req EXCEPT ![c] = NoReq]
  /\ ret' = [ret EXCEPT ![c] = Nil]
  /\ UNCHANGED links

Next == \E c \in Client : Invoke(c) \/ DoGet(c) \/ DoPut(c) \/ Return(c)

Spec == Init /\ [][Next]_storeVars

\* A call that was made takes effect and returns.
FairSpec ==
  Spec /\ \A c \in Client : WF_storeVars(DoGet(c) \/ DoPut(c)) /\ WF_storeVars(Return(c))
=============================================================================
