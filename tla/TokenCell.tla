----------------------------- MODULE TokenCell -----------------------------
(***************************************************************************)
(* What storage.Storage is to tokens.CachingSource: a cell that holds one   *)
(* whole token ("the underlying data should be truncated before new data is *)
(* written in, and ... users always want the full set of bytes",            *)
(* src/api/auth/tokens/storage/storage.go), the newest there was when it    *)
(* was last written, as long as the runs that share it do not overlap.      *)
(***************************************************************************)
EXTENDS Naturals

CONSTANT MaxTokens  \* bounds the tokens the server issues

VARIABLES issued,  \* tokens are numbered as they are issued
          cell,    \* the token that the next run will find; 0 for none
          kept     \* the runs have kept to one at a time

cellVars == <<issued, cell, kept>>

Init ==
  /\ issued = 0
  /\ cell = 0
  /\ kept \in BOOLEAN

\* The server issues a token, which is saved later, or never if the run is killed.
Issue ==
  /\ issued < MaxTokens
  /\ issued' = issued + 1
  /\ UNCHANGED <<cell, kept>>

\* No run saves a token that another one has replaced at the server.
Save ==
  /\ kept
  /\ cell < issued
  /\ cell' = issued
  /\ UNCHANGED <<issued, kept>>

\* Runs overlap, and nothing is promised any more.
Overlap ==
  /\ kept
  /\ kept' = FALSE
  /\ cell' = 0
  /\ UNCHANGED issued

Next == Issue \/ Save \/ Overlap

Spec == Init /\ [][Next]_cellVars
=============================================================================
