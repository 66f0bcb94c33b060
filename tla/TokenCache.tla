----------------------------- MODULE TokenCache -----------------------------
(***************************************************************************)
(* The token of the command line client: src/api/auth/tokens/source.go over *)
(* src/api/auth/tokens/storage/storage.go, as src/cli/auth wires them.  Each *)
(* run of `@` reads the token from a file, logs the user in if it has to,   *)
(* refreshes it if it has expired, and saves what is new by writing a swap  *)
(* file and renaming it.  Runs may overlap, fail and be killed.  The swap   *)
(* file is opened without truncating it: content is kept byte by byte, each *)
(* byte named by the token it is of.                                        *)
(***************************************************************************)
EXTENDS Naturals, Sequences

CONSTANTS Run,        \* runs of the client at a time
          Inode,      \* files; one nobody refers to is free again
          NoInode,
          MaxTokens,  \* bounds the tokens the server issues
          Longer      \* the tokens whose JSON is longer than the others'

ASSUME TokenAssumption == MaxTokens \in Nat /\ Longer \subseteq 1 .. MaxTokens
ASSUME InodeAssumption == NoInode \notin Inode

VARIABLES path,    \* the file x40/cli-token
          swp,     \* the file x40/cli-token.swp
          data,    \* what each file holds
          issued,  \* tokens are numbered as they are issued
          alive,   \* those that have not expired
          carries, \* those whose JSON has a refresh token
          fresh,   \* those whose refresh token the server accepts
          run,     \* the runs
          alone    \* history: no two runs have overlapped

files == <<path, swp, data>>

server == <<issued, alive, carries, fresh>>

vars == <<files, server, run, alone>>

Issued == 1 .. issued

Bytes(n) == IF n \in Longer THEN <<n, n, n>> ELSE <<n, n>>

\* The length of the longest tokens.
Longest == IF Longer = {} THEN 2 ELSE 3

\* A file opened to append.
MutOver(c, b) == c \o b

\* b written from the start of a file that holds c.
Over(c, b) == b \o SubSeq(c, Len(b) + 1, Len(c))

\* at: the next step; cur: CachingSource.cur; new: the token to be written and then: where
\* the write returns to; fd: the swap file as it was opened.
Idle == [at |-> "idle", cur |-> 0, new |-> 0, then |-> "idle", fd |-> NoInode]

Init ==
  /\ path = NoInode
  /\ swp = NoInode
  /\ data = [f \in Inode |-> << >>]
  /\ issued = 0
  /\ alive = {}
  /\ carries = {}
  /\ fresh = {}
  /\ run = [r \in Run |-> Idle]
  /\ alone = TRUE

At(r, step) == run[r].at = step

Goes(r, state) == run' = [run EXCEPT ![r] = state]

\* A run that goes on with token n.
Reading(step, n) == [Idle EXCEPT !.at = step, !.cur = n]

\* File.Write of n, which returns to then.
Saving(r, n, then) == [run[r] EXCEPT !.at = "open", !.new = n, !.then = then]

\* A new token from the server.
Issue(n, refreshable) ==
  /\ n = issued + 1
  /\ n <= MaxTokens
  /\ issued' = n
  /\ alive' = alive \cup {n}
  /\ carries' = IF refreshable THEN carries \cup {n} ELSE carries

-----------------------------------------------------------------------------
\* NewCachingSource: File.Read, the decision whether to log in, and the seed.
Begin(r) ==
  /\ At(r, "idle")
  /\ Goes(r, [Idle EXCEPT !.at = "read"])
  /\ alone' = (alone /\ \A q \in Run : At(q, "idle"))
  /\ UNCHANGED <<files, server>>

Holds(n) == path # NoInode /\ data[path] = Bytes(n)

\* The file is read while it is not written to; an error of the read gives up, and so does
\* one of json.Unmarshal.
Read(r) ==
  /\ At(r, "read")
  /\ \/ path = NoInode /\ Goes(r, [Idle EXCEPT !.at = "seed"])
     \/ \E n \in Issued : Holds(n) /\ Goes(r, Reading("decide", n))
     \/ path # NoInode /\ (\A n \in Issued : ~ Holds(n)) /\ Goes(r, Idle)
  /\ UNCHANGED <<files, server>>

\* A decision that forgets the refresh token.
MutNeedsSeed(n) == n \notin alive

NeedsSeed(n) == n \notin alive /\ n \notin carries

\* The decision is about the token that was read, whatever the file holds by now.
Decide(r) ==
  /\ At(r, "decide")
  /\ \/ NeedsSeed(run[r].cur) /\ Goes(r, [Idle EXCEPT !.at = "seed"])
     \/ ~ NeedsSeed(run[r].cur) /\ Goes(r, Reading("ready", run[r].cur))
  /\ UNCHANGED <<files, server>>

\* seeds.DeviceAuth: the user is asked to log in, once the server has made up a code.
Ask(r) ==
  /\ At(r, "seed")
  /\ Goes(r, [Idle EXCEPT !.at = "asked"])
  /\ UNCHANGED <<files, server>>

\* The user logs in; the server may leave out the refresh token.
Login(r) ==
  /\ At(r, "asked")
  /\ \E n \in 1 .. MaxTokens, refreshable \in BOOLEAN :
       /\ Issue(n, refreshable)
       /\ fresh' = IF refreshable THEN fresh \cup {n} ELSE fresh
       /\ Goes(r, Saving(r, n, "ready"))
  /\ UNCHANGED files

-----------------------------------------------------------------------------
\* The files nobody refers to; which one a new file takes makes no difference.  One for each
\* run and the two names are enough never to run out.
Free == {f \in Inode \ {path, swp} : \A q \in Run : run[q].fd # f}

\* File.Write: open the swap file, write it, rename it.
OpenSwap(r) ==
  /\ At(r, "open")
  /\ swp # NoInode \/ Free # {}
  /\ LET f == IF swp = NoInode THEN CHOOSE g \in Free : TRUE ELSE swp
     IN  /\ data' = IF swp = NoInode THEN [data EXCEPT ![f] = << >>] ELSE data
         /\ swp' = f
         /\ Goes(r, [run[r] EXCEPT !.at = "write", !.fd = f])
  /\ UNCHANGED <<path, server>>

WriteSwap(r) ==
  /\ At(r, "write")
  /\ data' = [data EXCEPT ![run[r].fd] = Over(@, Bytes(run[r].new))]
  /\ Goes(r, [run[r] EXCEPT !.at = "rename", !.fd = NoInode])
  /\ UNCHANGED <<path, swp, server>>

\* A write whose error is not looked at.
MutWriteFails(r) ==
  /\ At(r, "write")
  /\ \E k \in 0 .. Len(Bytes(run[r].new)) - 1 :
       data' = [data EXCEPT ![run[r].fd] = Over(@, SubSeq(Bytes(run[r].new), 1, k))]
  /\ Goes(r, [run[r] EXCEPT !.at = "rename", !.fd = NoInode])
  /\ UNCHANGED <<path, swp, server>>

\* The write fails (the disk is full) after a part of the bytes.
WriteFails(r) ==
  /\ At(r, "write")
  /\ \E k \in 0 .. Len(Bytes(run[r].new)) - 1 :
       data' = [data EXCEPT ![run[r].fd] = Over(@, SubSeq(Bytes(run[r].new), 1, k))]
  /\ Goes(r, Idle)
  /\ UNCHANGED <<path, swp, server>>

\* The rename moves whatever is the swap file by now; without one it fails.
Rename(r) ==
  /\ At(r, "rename")
  /\ \/ /\ swp # NoInode
        /\ path' = swp
        /\ swp' = NoInode
        /\ Goes(r, [Idle EXCEPT !.at = run[r].then, !.cur = run[r].new])
     \/ /\ swp = NoInode
        /\ Goes(r, Idle)
        /\ UNCHANGED <<path, swp>>
  /\ UNCHANGED <<data, server>>

-----------------------------------------------------------------------------
\* CachingSource.Token, for the metadata of the RPC: the token as it is, or a refreshed
\* one, which is different and saved.
TokenCached(r) ==
  /\ At(r, "ready")
  /\ run[r].cur \in alive
  /\ Goes(r, [run[r] EXCEPT !.at = "done"])
  /\ UNCHANGED <<files, server>>

\* The server takes a refresh token once (deploy/a0/tf/main.tf:77, "rotating").
Rotates(m, n) == Issue(n, TRUE) /\ fresh' = (fresh \ {m}) \cup {n}

\* A source that does not find a difference, and keeps the file.
MutRefresh(r) ==
  /\ At(r, "ready")
  /\ run[r].cur \in fresh \ alive
  /\ \E n \in 1 .. MaxTokens :
       Rotates(run[r].cur, n) /\ Goes(r, [run[r] EXCEPT !.at = "done", !.cur = n])
  /\ UNCHANGED files

Refresh(r) ==
  /\ At(r, "ready")
  /\ run[r].cur \in fresh \ alive
  /\ \E n \in 1 .. MaxTokens :
       Rotates(run[r].cur, n) /\ Goes(r, Saving(r, n, "done"))
  /\ UNCHANGED files

\* The server takes the refresh token and its answer is lost.
RefreshLost(r) ==
  /\ At(r, "ready")
  /\ run[r].cur \in fresh \ alive
  /\ \E n \in 1 .. MaxTokens : Rotates(run[r].cur, n)
  /\ Goes(r, Idle)
  /\ UNCHANGED files

Done(r) == At(r, "done") /\ Goes(r, Idle) /\ UNCHANGED <<files, server>>

\* Any step may fail, and the run be killed after any: it ends, and leaves the files.
Ends(r) ==
  /\ ~ At(r, "idle")
  /\ Goes(r, Idle)
  /\ UNCHANGED <<files, server>>

Step(r) ==
  \/ Read(r)
  \/ Decide(r)
  \/ Ask(r)
  \/ Login(r)
  \/ OpenSwap(r)
  \/ WriteSwap(r)
  \/ WriteFails(r)
  \/ Rename(r)
  \/ TokenCached(r)
  \/ Refresh(r)
  \/ RefreshLost(r)
  \/ Done(r)
  \/ Ends(r)

Expire(n) == n \in alive /\ alive' = alive \ {n} /\ UNCHANGED <<files, issued, carries, fresh, run, alone>>

\* "expiring" (main.tf:78), or revoked.
RefreshExpires(n) ==
  n \in fresh /\ fresh' = fresh \ {n} /\ UNCHANGED <<files, issued, alive, carries, run, alone>>

Next ==
  \/ \E r \in Run : Begin(r) \/ (Step(r) /\ UNCHANGED alone)
  \/ \E n \in Issued : Expire(n) \/ RefreshExpires(n)

Spec == Init /\ [][Next]_vars

-----------------------------------------------------------------------------
\* The variables hold values of their types: no file is longer than the longest token, and
\* only a run about to write has the swap file open.
TypeOK ==
  /\ path \in Inode \cup {NoInode}
  /\ swp \in Inode \cup {NoInode}
  /\ \A f \in Inode : Len(data[f]) <= Longest /\ \A i \in 1 .. Len(data[f]) : data[f][i] \in Issued
  /\ issued \in 0 .. MaxTokens
  /\ alive \subseteq Issued
  /\ fresh \subseteq carries
  /\ carries \subseteq Issued
  /\ \A r \in Run :
       /\ run[r].at \in
            {"idle", "read", "decide", "seed", "asked", "open", "write", "rename", "ready", "done"}
       /\ run[r].cur \in 0 .. issued
       /\ run[r].new \in 0 .. issued
       /\ run[r].fd \in Inode <=> At(r, "write")

\* "It uses a swap file and rename operation to ensure the change is atomic"
\* (storage.go:52-53): the file, once it exists, holds one whole token, whatever run was
\* killed or failed at whatever step.
CacheWhole == path # NoInode => \E n \in Issued : Holds(n)

\* Runs that do not overlap keep the file whole, if the tokens are of one length.
WholeAlone == (alone /\ Longer = {}) => CacheWhole

\* The RPC of such a run is sent with the token the next run will find (source.go:126-131):
\* a rotated refresh token that is not saved cannot be used a second time.
SavedWhenSent ==
  (alone /\ Longer = {}) => \A r \in Run : At(r, "done") => Holds(run[r].cur)

\* The token that the next run will find.
Saved ==
  IF path # NoInode /\ \E n \in Issued : Holds(n) THEN CHOOSE n \in Issued : Holds(n) ELSE 0

Cell == INSTANCE TokenCell WITH
  cell <- IF alone /\ Longer = {} THEN Saved ELSE 0,
  kept <- (alone /\ Longer = {})

\* Write is "atomic" (storage.go:52-53) and CachingSource writes what it has last got
\* (source.go:92-102, 126-131): runs that do not overlap see a cell, whatever is killed, fails
\* or is left in the swap file.  It is never empty again, and never goes back to a token that
\* the server has replaced.
ImplementsCell == Cell!Spec

\* A token that can still be used.
Usable(n) == n \in alive \cup fresh

\* The user of a run that no other overlaps is asked to log in only when the file holds no
\* token that can still be used, by that time (source.go:58-81, seeds.go:30-44): what the run
\* read, and decided, may be old, and the runs before it may have been killed or have failed
\* anywhere.  (Of runs that overlap, one may ask when another has just saved a token.)
LoginOnlyIfNeeded ==
  [][\A r \in Run : (alone /\ At(r, "seed") /\ run'[r].at = "asked")
       => ~ \E n \in Issued : Holds(n) /\ Usable(n)]_vars
=============================================================================
