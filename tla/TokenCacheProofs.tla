-------------------------- MODULE TokenCacheProofs --------------------------
(***************************************************************************)
(* For any runs, files and tokens: the token file is whole, and holds the   *)
(* token an RPC was sent with, as long as no two runs overlap and no token  *)
(* is longer than another; and of tokens of any length, the user of a run   *)
(* that no other overlaps is asked to log in only without a usable token.   *)
(* Alone names what holds between the steps of a run: which file it has     *)
(* open, and what the swap file and the token file hold by then.            *)
(***************************************************************************)
EXTENDS TokenCache, SequenceTheorems, TLAPS

Steps == {"idle", "read", "decide", "seed", "asked", "open", "write", "rename", "ready", "done"}

File == Inode \cup {NoInode}

State == [at : Steps, cur : Nat, new : Nat, then : {"idle", "ready", "done"}, fd : File]

\* A run that knows the first k tokens.
Fine(q, k) ==
  /\ q \in State
  /\ q.cur \in 0 .. k
  /\ q.new \in 0 .. k
  /\ q.fd \in Inode <=> q.at = "write"
  /\ q.at \in {"open", "write", "rename"} => q.new >= 1 /\ q.then \in {"ready", "done"}

\* Files that hold bytes of the first k tokens.
Content(d, k) == d \in [Inode -> Seq(1 .. k)] /\ \A f \in Inode : Len(d[f]) <= Longest

Issues == issued \in 0 .. MaxTokens /\ alive \subseteq Issued /\ fresh \subseteq carries /\ carries \subseteq Issued

Typed ==
  /\ path \in File /\ swp \in File
  /\ Content(data, issued)
  /\ Issues
  /\ run \in [Run -> State]
  /\ \A r \in Run : Fine(run[r], issued)

\* What a run relies on, if tokens are of one length and it has the files to itself.
Relies(q, p, s, d) ==
  /\ q.at = "write" => q.fd = s
  /\ q.at = "rename" => s # NoInode /\ d[s] = Bytes(q.new)
  /\ q.at \in {"decide", "ready", "done"} => p # NoInode /\ q.cur >= 1 /\ d[p] = Bytes(q.cur)

\* The swap file may be what a killed run has left, of any bytes.
Named(p, s, d, k) ==
  /\ p # NoInode => \E n \in 1 .. k : d[p] = Bytes(n)
  /\ s # NoInode => s # p

Single == \A q, r \in Run : q = r \/ run[q].at = "idle" \/ run[r].at = "idle"

Alone ==
  /\ alone => Single
  /\ alone /\ Longer = {} =>
       /\ Named(path, swp, data, issued)
       /\ \A r \in Run : Relies(run[r], path, swp, data)

IInv == Typed /\ Alone

-----------------------------------------------------------------------------
\* A run with one field changed.
LEMMA EditAt ==
  ASSUME NEW q \in State, NEW x \in Steps
  PROVE  LET n == [q EXCEPT !.at = x]
         IN  n \in State /\ n.at = x /\ n.cur = q.cur /\ n.new = q.new /\ n.then = q.then /\ n.fd = q.fd
BY DEF State

LEMMA EditCur ==
  ASSUME NEW q \in State, NEW x \in Nat
  PROVE  LET n == [q EXCEPT !.cur = x]
         IN  n \in State /\ n.at = q.at /\ n.cur = x /\ n.new = q.new /\ n.then = q.then /\ n.fd = q.fd
BY DEF State

LEMMA EditNew ==
  ASSUME NEW q \in State, NEW x \in Nat
  PROVE  LET n == [q EXCEPT !.new = x]
         IN  n \in State /\ n.at = q.at /\ n.cur = q.cur /\ n.new = x /\ n.then = q.then /\ n.fd = q.fd
BY DEF State

LEMMA EditThen ==
  ASSUME NEW q \in State, NEW x \in {"idle", "ready", "done"}
  PROVE  LET n == [q EXCEPT !.then = x]
         IN  n \in State /\ n.at = q.at /\ n.cur = q.cur /\ n.new = q.new /\ n.then = x /\ n.fd = q.fd
BY DEF State

LEMMA EditFd ==
  ASSUME NEW q \in State, NEW x \in File
  PROVE  LET n == [q EXCEPT !.fd = x]
         IN  n \in State /\ n.at = q.at /\ n.cur = q.cur /\ n.new = q.new /\ n.then = q.then /\ n.fd = x
BY DEF State

LEMMA IdleFacts ==
  /\ Idle \in State
  /\ Idle.at = "idle" /\ Idle.cur = 0 /\ Idle.new = 0 /\ Idle.then = "idle" /\ Idle.fd = NoInode
<1>1. Idle \in State
  BY DEF Idle, State, Steps, File
<1>2. QED
  BY <1>1 DEF Idle

\* The states a step leaves a run in.
LEMMA Opened ==
  ASSUME NEW q \in State, NEW x \in Steps, NEW f \in File
  PROVE  LET n == [q EXCEPT !.at = x, !.fd = f]
         IN  n \in State /\ n.at = x /\ n.cur = q.cur /\ n.new = q.new /\ n.then = q.then /\ n.fd = f
<1> DEFINE a == [q EXCEPT !.at = x]
           n == [q EXCEPT !.at = x, !.fd = f]
<1>1. a \in State /\ a.at = x /\ a.cur = q.cur /\ a.new = q.new /\ a.then = q.then /\ a.fd = q.fd
  BY EditAt
<1>2. n = [a EXCEPT !.fd = f]
  OBVIOUS
<1> HIDE DEF a, n
<1>3. n \in State /\ n.at = a.at /\ n.cur = a.cur /\ n.new = a.new /\ n.then = a.then /\ n.fd = f
  BY <1>1, <1>2, EditFd
<1>4. n \in State /\ n.at = x /\ n.cur = q.cur /\ n.new = q.new /\ n.then = q.then /\ n.fd = f
  BY <1>1, <1>3
<1>5. QED
  BY <1>4 DEF n

LEMMA Renamed ==
  ASSUME NEW x \in Steps, NEW c \in Nat
  PROVE  LET n == [Idle EXCEPT !.at = x, !.cur = c]
         IN  n \in State /\ n.at = x /\ n.cur = c /\ n.new = 0 /\ n.then = "idle" /\ n.fd = NoInode
<1> DEFINE a == [Idle EXCEPT !.at = x]
           n == [Idle EXCEPT !.at = x, !.cur = c]
<1>1. a \in State /\ a.at = x /\ a.new = 0 /\ a.then = "idle" /\ a.fd = NoInode
  BY EditAt, IdleFacts
<1>2. n = [a EXCEPT !.cur = c]
  OBVIOUS
<1> HIDE DEF a, n
<1>3. n \in State /\ n.at = a.at /\ n.cur = c /\ n.new = a.new /\ n.then = a.then /\ n.fd = a.fd
  BY <1>1, <1>2, EditCur
<1>4. n \in State /\ n.at = x /\ n.cur = c /\ n.new = 0 /\ n.then = "idle" /\ n.fd = NoInode
  BY <1>1, <1>3
<1>5. QED
  BY <1>4 DEF n

LEMMA SavingFacts ==
  ASSUME NEW r \in Run, run[r] \in State, NEW c \in Nat, NEW t \in {"idle", "ready", "done"}
  PROVE  LET n == Saving(r, c, t)
         IN  n \in State /\ n.at = "open" /\ n.cur = run[r].cur /\ n.new = c /\ n.then = t /\ n.fd = run[r].fd
<1> DEFINE q == run[r]
           a == [q EXCEPT !.at = "open"]
           b == [a EXCEPT !.new = c]
           n == Saving(r, c, t)
<1>1. a \in State /\ a.at = "open" /\ a.cur = q.cur /\ a.fd = q.fd
  BY EditAt DEF Steps
<1>2. n = [b EXCEPT !.then = t]
  BY DEF Saving
<1> HIDE DEF q, a, n
<1>3. b \in State /\ b.at = a.at /\ b.cur = a.cur /\ b.new = c /\ b.fd = a.fd
  BY <1>1, EditNew
<1> HIDE DEF b
<1>4. n \in State /\ n.at = b.at /\ n.cur = b.cur /\ n.new = b.new /\ n.then = t /\ n.fd = b.fd
  BY <1>2, <1>3, EditThen
<1>5. n \in State /\ n.at = "open" /\ n.cur = q.cur /\ n.new = c /\ n.then = t /\ n.fd = q.fd
  BY <1>1, <1>3, <1>4
<1>6. QED
  BY <1>5 DEF n, q

-----------------------------------------------------------------------------
\* The bytes of a token, and what writing them over others makes.
LEMMA BytesFacts ==
  ASSUME NEW k \in Nat, NEW n \in 1 .. k
  PROVE  /\ Bytes(n) \in Seq(1 .. k)
         /\ Len(Bytes(n)) \in 1 .. Longest
         /\ Bytes(n)[1] = n
         /\ Longer = {} => Len(Bytes(n)) = Longest
<1> DEFINE two == <<n, n>>
           three == <<n, n, n>>
<1>1. /\ two \in Seq(1 .. k) /\ Len(two) = 2 /\ two[1] = n
      /\ three \in Seq(1 .. k) /\ Len(three) = 3 /\ three[1] = n
  OBVIOUS
<1>2. Bytes(n) = IF n \in Longer THEN three ELSE two
  BY DEF Bytes
<1> HIDE DEF two, three
<1>3. CASE n \in Longer
  <2>1. Longest = 3 /\ Longer # {} /\ Bytes(n) = three /\ 3 \in 1 .. 3
    BY <1>2, <1>3 DEF Longest
  <2>2. QED
    BY ONLY <1>1, <2>1
<1>4. CASE n \notin Longer
  <2>1. Bytes(n) = two /\ 2 \in 1 .. Longest /\ (Longer = {} => Longest = 2)
    BY <1>2, <1>4 DEF Longest
  <2>2. QED
    BY ONLY <1>1, <2>1
<1>5. QED
  BY <1>3, <1>4

LEMMA LongestNat == Longest \in Nat
BY DEF Longest

LEMMA OverFacts ==
  ASSUME NEW S, NEW c \in Seq(S), NEW b \in Seq(S), Len(c) <= Longest, Len(b) <= Longest
  PROVE  Over(c, b) \in Seq(S) /\ Len(Over(c, b)) <= Longest
<1> DEFINE rest == SubSeq(c, Len(b) + 1, Len(c))
<1>1. rest \in Seq(S) /\ Len(rest) = IF Len(b) + 1 <= Len(c) THEN Len(c) - (Len(b) + 1) + 1 ELSE 0
  <2>1. Len(b) \in Nat /\ Len(c) \in Nat
    BY LenProperties
  <2>2. \A i \in Len(b) + 1 .. Len(c) : c[i] \in S
    BY <2>1, ElementOfSeq
  <2>3. QED
    BY <2>1, <2>2, SubSeqProperties
<1> HIDE DEF rest
<1>2. b \o rest \in Seq(S) /\ Len(b \o rest) = Len(b) + Len(rest)
  BY <1>1, ConcatProperties
<1>3. Over(c, b) = b \o rest
  BY DEF Over, rest
<1>4. QED
  BY <1>1, <1>2, <1>3, LenProperties, LongestNat

LEMMA OverShort ==
  ASSUME NEW S, NEW c \in Seq(S), NEW b \in Seq(S), Len(c) <= Len(b)
  PROVE  Over(c, b) = b
<1>1. Len(b) \in Nat /\ Len(c) \in Nat
  BY LenProperties
<1>2. SubSeq(c, Len(b) + 1, Len(c)) = << >>
  BY <1>1, SubSeqEmpty
<1>3. QED
  BY <1>2, ConcatEmptySeq DEF Over

-----------------------------------------------------------------------------
LEMMA FineGrows ==
  ASSUME NEW k \in Nat, NEW j \in {k, k + 1}, NEW q, Fine(q, k)
  PROVE  Fine(q, j)
BY DEF Fine

LEMMA ContentGrows ==
  ASSUME NEW k \in Nat, NEW j \in {k, k + 1}, NEW d, Content(d, k)
  PROVE  Content(d, j)
<1>1. 1 .. k \subseteq 1 .. j
  OBVIOUS
<1>2. Seq(1 .. k) \subseteq Seq(1 .. j)
  BY <1>1
<1>3. QED
  BY <1>2 DEF Content

\* A step of a run keeps the types if it leaves its run and the files with theirs.
LEMMA TypedMoved ==
  ASSUME Typed, NEW r \in Run, NEW n, Goes(r, n), Fine(n, issued'),
         path' \in File, swp' \in File, Content(data', issued'), Issues',
         issued' \in {issued, issued + 1}
  PROVE  Typed'
<1>1. n \in State /\ run' = [run EXCEPT ![r] = n] /\ run \in [Run -> State]
  BY DEF Fine, Goes, Typed
<1>2. run' \in [Run -> State] /\ run'[r] = n /\ \A q \in Run \ {r} : run'[q] = run[q]
  BY <1>1
<1>3. \A q \in Run : Fine(run[q], issued) /\ issued \in Nat
  BY DEF Typed, Issues
<1>4. \A q \in Run \ {r} : Fine(run'[q], issued')
  BY <1>2, <1>3, FineGrows
<1>5. \A q \in Run : Fine(run'[q], issued')
  BY <1>2, <1>4
<1>6. QED
  BY <1>2, <1>5 DEF Typed

\* And what a run relies on, if the others are idle.
LEMMA AloneMoved ==
  ASSUME IInv, NEW r \in Run, run[r].at # "idle", NEW n, n \in State, Goes(r, n), alone' = alone,
         alone /\ Longer = {} => Named(path', swp', data', issued') /\ Relies(n, path', swp', data')
  PROVE  Alone'
<1> SUFFICES ASSUME alone'
             PROVE  /\ Single'
                    /\ Longer = {} =>
                         /\ Named(path', swp', data', issued')
                         /\ \A q \in Run : Relies(run'[q], path', swp', data')
  BY DEF Alone
<1>1. run' = [run EXCEPT ![r] = n] /\ run \in [Run -> State]
  BY DEF Goes, IInv, Typed
<1>2. run'[r] = n /\ \A q \in Run \ {r} : run'[q] = run[q]
  BY <1>1
<1>3. \A q \in Run \ {r} : run[q].at = "idle"
  BY DEF IInv, Alone, Single
<1>4. Single'
  BY <1>2, <1>3 DEF Single
<1>5. \A q \in Run \ {r} : Relies(run'[q], path', swp', data')
  BY <1>2, <1>3 DEF Relies
<1>6. ASSUME Longer = {}
      PROVE  Named(path', swp', data', issued') /\ Relies(n, path', swp', data')
  BY <1>6
<1>7. QED
  BY <1>2, <1>4, <1>5, <1>6

\* A step that touches no file.
LEMMA Moved ==
  ASSUME IInv, NEW r \in Run, run[r].at # "idle", NEW n, Goes(r, n), Fine(n, issued'),
         UNCHANGED files, alone' = alone, Issues', issued' \in {issued, issued + 1},
         alone /\ Longer = {} => Relies(n, path, swp, data)
  PROVE  IInv'
<1>1. path' = path /\ swp' = swp /\ data' = data
  BY DEF files
<1>2. issued \in Nat /\ Content(data, issued) /\ path \in File /\ swp \in File
  BY DEF IInv, Typed, Issues
<1>3. Content(data', issued')
  BY <1>1, <1>2, ContentGrows
<1>4. Typed'
  BY <1>1, <1>2, <1>3, TypedMoved DEF IInv
<1>5. alone /\ Longer = {} => Named(path', swp', data', issued') /\ Relies(n, path', swp', data')
  <2>1. Named(path, swp, data, issued) => Named(path', swp', data', issued')
    <3>1. 1 .. issued \subseteq 1 .. issued'
      BY <1>2
    <3>2. QED
      BY <1>1, <3>1 DEF Named
  <2>2. QED
    BY <1>1, <2>1 DEF IInv, Alone
<1>6. n \in State
  BY DEF Fine
<1>7. Alone'
  BY <1>5, <1>6, AloneMoved
<1>8. QED
  BY <1>4, <1>7 DEF IInv

LEMMA IdleFine ==
  ASSUME NEW k \in Nat
  PROVE  Fine(Idle, k) /\ \A p, s, d : Relies(Idle, p, s, d)
BY IdleFacts, InodeAssumption DEF Fine, Relies

\* The types of a run, and of the files.
LEMMA Going ==
  ASSUME IInv, NEW r \in Run
  PROVE  /\ run[r] \in State /\ Fine(run[r], issued) /\ issued \in Nat
         /\ alone /\ Longer = {} => Relies(run[r], path, swp, data) /\ Named(path, swp, data, issued)
BY DEF IInv, Typed, Issues, Alone

-----------------------------------------------------------------------------
LEMMA InitIInv == Init => IInv
<1> SUFFICES ASSUME Init PROVE IInv
  OBVIOUS
<1>1. \A r \in Run : run[r] = Idle
  BY DEF Init
<1>2. issued = 0 /\ MaxTokens \in Nat
  BY TokenAssumption DEF Init
<1>3. run \in [Run -> State] /\ \A r \in Run : Fine(run[r], issued)
  BY <1>1, <1>2, IdleFacts, IdleFine DEF Init
<1>4. Content(data, issued)
  <2>1. Len(<< >>) = 0 /\ Longest \in Nat
    BY LongestNat
  <2>2. QED
    BY <2>1 DEF Init, Content
<1>5. Issues /\ path = NoInode /\ swp = NoInode
  BY <1>2 DEF Issues, Issued, Init
<1>6. Typed
  BY <1>3, <1>4, <1>5 DEF Typed, File
<1>7. Single /\ \A r \in Run : Relies(run[r], path, swp, data)
  BY <1>1, IdleFacts, IdleFine DEF Single
<1>8. Named(path, swp, data, issued)
  BY <1>5 DEF Named
<1>9. QED
  BY <1>6, <1>7, <1>8 DEF IInv, Alone

LEMMA BeginKeeps ==
  ASSUME IInv, NEW r \in Run, Begin(r)
  PROVE  IInv'
<1> DEFINE n == [Idle EXCEPT !.at = "read"]
<1>1. Goes(r, n) /\ At(r, "idle") /\ alone' = (alone /\ \A q \in Run : At(q, "idle"))
      /\ UNCHANGED <<files, server>>
  BY DEF Begin
<1>2. n \in State /\ n.at = "read" /\ n.cur = 0 /\ n.new = 0 /\ n.fd = NoInode
  BY EditAt, IdleFacts DEF Steps
<1> HIDE DEF n
<1>3. path' = path /\ swp' = swp /\ data' = data /\ issued' = issued /\ alive' = alive
      /\ carries' = carries /\ fresh' = fresh
  BY <1>1 DEF files, server
<1>4. issued \in Nat
  BY Going
<1>5. Fine(n, issued')
  BY <1>2, <1>3, <1>4, InodeAssumption DEF Fine
<1>6. Typed'
  <2>1. path' \in File /\ swp' \in File /\ Content(data', issued') /\ Issues'
    BY <1>3 DEF IInv, Typed, Issues, Issued
  <2>2. QED
    BY <1>1, <1>3, <1>5, <2>1, TypedMoved DEF IInv
<1>7. Alone'
  <2> SUFFICES ASSUME alone'
               PROVE  /\ Single'
                      /\ Longer = {} => Named(path', swp', data', issued')
                      /\ \A q \in Run : Relies(run'[q], path', swp', data')
    BY DEF Alone
  <2>1. alone /\ \A q \in Run : run[q].at = "idle"
    BY <1>1 DEF At
  <2>2. run'[r] = n /\ \A q \in Run \ {r} : run'[q] = run[q]
    BY <1>1 DEF Goes, IInv, Typed
  <2>3. Single'
    BY <2>1, <2>2 DEF Single
  <2>4. Longer = {} => Named(path', swp', data', issued')
    BY <1>3, <2>1 DEF IInv, Alone
  <2>5. \A q \in Run : Relies(run'[q], path', swp', data')
    BY <1>2, <2>1, <2>2 DEF Relies
  <2>6. QED
    BY <2>3, <2>4, <2>5
<1>8. QED
  BY <1>6, <1>7 DEF IInv

\* Steps that issue no token.
LEMMA Same ==
  ASSUME IInv, UNCHANGED server
  PROVE  issued' = issued /\ Issues'
BY DEF IInv, Typed, Issues, Issued, server

LEMMA GivesUp ==
  ASSUME IInv, NEW r \in Run, run[r].at # "idle", Goes(r, Idle), UNCHANGED <<files, server, alone>>
  PROVE  IInv'
<1>1. issued' = issued /\ Issues' /\ UNCHANGED files /\ alone' = alone
  BY Same
<1>2. Fine(Idle, issued')
  BY <1>1, Going, IdleFine
<1>3. Relies(Idle, path, swp, data)
  BY IdleFine
<1>4. QED
  BY <1>1, <1>2, <1>3, Moved

\* A run goes on, without a token or with one, and nothing else changes.
LEMMA GoesOn ==
  ASSUME IInv, NEW r \in Run, run[r].at # "idle", NEW x \in {"seed", "asked"},
         Goes(r, [Idle EXCEPT !.at = x]), UNCHANGED <<files, server, alone>>
  PROVE  IInv'
<1> DEFINE n == [Idle EXCEPT !.at = x]
<1>1. issued' = issued /\ Issues' /\ UNCHANGED files /\ alone' = alone
  BY Same
<1>2. n \in State /\ n.at = x /\ n.cur = 0 /\ n.new = 0 /\ n.fd = NoInode
  <2>1. x \in Steps
    BY DEF Steps
  <2>2. QED
    BY <2>1, EditAt, IdleFacts
<1>3. Goes(r, n)
  OBVIOUS
<1> HIDE DEF n
<1>4. Fine(n, issued') /\ Relies(n, path, swp, data)
  BY <1>1, <1>2, Going, InodeAssumption DEF Fine, Relies
<1>5. QED
  BY <1>1, <1>3, <1>4, Moved

LEMMA GoesWith ==
  ASSUME IInv, NEW r \in Run, run[r].at # "idle", NEW x \in {"decide", "ready"},
         NEW c \in 0 .. issued, Goes(r, Reading(x, c)), UNCHANGED <<files, server, alone>>,
         alone /\ Longer = {} => path # NoInode /\ c >= 1 /\ data[path] = Bytes(c)
  PROVE  IInv'
<1> DEFINE n == Reading(x, c)
<1>1. issued' = issued /\ Issues' /\ UNCHANGED files /\ alone' = alone
  BY Same
<1>2. n \in State /\ n.at = x /\ n.cur = c /\ n.new = 0 /\ n.fd = NoInode
  <2>1. x \in Steps /\ c \in Nat
    BY Going DEF Steps
  <2>2. QED
    BY <2>1, Renamed DEF Reading
<1>3. Goes(r, n)
  OBVIOUS
<1> HIDE DEF n
<1>4. Fine(n, issued')
  BY <1>1, <1>2, Going, InodeAssumption DEF Fine
<1>5. alone /\ Longer = {} => Relies(n, path, swp, data)
  BY <1>2 DEF Relies
<1>6. QED
  BY <1>1, <1>3, <1>4, <1>5, Moved

LEMMA ReadKeeps ==
  ASSUME IInv, NEW r \in Run, Read(r), UNCHANGED alone
  PROVE  IInv'
<1>1. run[r].at = "read" /\ run[r].at # "idle" /\ UNCHANGED <<files, server, alone>>
  BY DEF Read, At
<1>2. CASE Goes(r, [Idle EXCEPT !.at = "seed"])
  BY <1>1, <1>2, GoesOn
<1>3. ASSUME NEW c \in Issued, Holds(c), Goes(r, Reading("decide", c)) PROVE IInv'
  <2>1. c \in 0 .. issued /\ c >= 1
    BY Going DEF Issued
  <2>2. path # NoInode /\ data[path] = Bytes(c)
    BY <1>3 DEF Holds
  <2>3. QED
    BY <1>1, <1>3, <2>1, <2>2, GoesWith
<1>4. CASE Goes(r, Idle)
  BY <1>1, <1>4, GivesUp
<1>5. QED
  BY <1>2, <1>3, <1>4 DEF Read

LEMMA DecideKeeps ==
  ASSUME IInv, NEW r \in Run, Decide(r), UNCHANGED alone
  PROVE  IInv'
<1> DEFINE c == run[r].cur
<1>1. run[r].at = "decide" /\ run[r].at # "idle" /\ UNCHANGED <<files, server, alone>>
  BY DEF Decide, At
<1>2. CASE Goes(r, [Idle EXCEPT !.at = "seed"])
  BY <1>1, <1>2, GoesOn
<1>3. CASE Goes(r, Reading("ready", c))
  <2>1. c \in 0 .. issued
    BY Going DEF Fine
  <2>2. alone /\ Longer = {} => path # NoInode /\ c >= 1 /\ data[path] = Bytes(c)
    BY <1>1, Going DEF Relies
  <2> HIDE DEF c
  <2>3. QED
    BY <1>1, <1>3, <2>1, <2>2, GoesWith
<1>4. QED
  BY <1>2, <1>3 DEF Decide

LEMMA AskKeeps ==
  ASSUME IInv, NEW r \in Run, Ask(r), UNCHANGED alone
  PROVE  IInv'
<1>1. run[r].at # "idle" /\ Goes(r, [Idle EXCEPT !.at = "asked"])
      /\ UNCHANGED <<files, server, alone>>
  BY DEF Ask, At
<1>2. QED
  BY <1>1, GoesOn

LEMMA IssueFacts ==
  ASSUME IInv, NEW n, NEW b \in BOOLEAN, Issue(n, b),
         fresh' \subseteq fresh \cup (IF b THEN {n} ELSE {})
  PROVE  n = issued + 1 /\ issued' = n /\ Issues'
<1>1. /\ issued \in Nat /\ MaxTokens \in Nat /\ issued <= MaxTokens
      /\ alive \subseteq 1 .. issued /\ carries \subseteq 1 .. issued /\ fresh \subseteq carries
  BY TokenAssumption DEF IInv, Typed, Issues, Issued
<1>2. /\ n = issued + 1 /\ n <= MaxTokens /\ issued' = n /\ alive' = alive \cup {n}
      /\ carries' = IF b THEN carries \cup {n} ELSE carries
  BY DEF Issue
<1>3. issued' \in 0 .. MaxTokens /\ 1 .. issued \subseteq 1 .. issued' /\ n \in 1 .. issued'
  BY <1>1, <1>2
<1>4. alive' \subseteq 1 .. issued' /\ carries' \subseteq 1 .. issued' /\ fresh' \subseteq carries'
  BY <1>1, <1>2, <1>3
<1>5. QED
  BY <1>2, <1>3, <1>4 DEF Issues, Issued

LEMMA SavesIt ==
  ASSUME IInv, NEW r \in Run, run[r].at # "idle", run[r].at # "write", NEW n,
         n = issued + 1, issued' = n, Issues', NEW t \in {"ready", "done"}, Goes(r, Saving(r, n, t)),
         UNCHANGED <<files, alone>>
  PROVE  IInv'
<1> DEFINE q == Saving(r, n, t)
<1>1. n \in Nat /\ n >= 1 /\ issued \in Nat /\ Fine(run[r], issued)
  BY Going
<1>2. q \in State /\ q.at = "open" /\ q.cur = run[r].cur /\ q.new = n /\ q.then = t /\ q.fd = run[r].fd
  BY <1>1, Going, SavingFacts
<1>3. Goes(r, q)
  OBVIOUS
<1> HIDE DEF q
<1>4. Fine(q, issued')
  BY <1>1, <1>2 DEF Fine
<1>5. Relies(q, path, swp, data)
  BY <1>2 DEF Relies
<1>6. QED
  BY <1>3, <1>4, <1>5, Moved

LEMMA LoginKeeps ==
  ASSUME IInv, NEW r \in Run, Login(r), UNCHANGED alone
  PROVE  IInv'
<1>1. run[r].at = "asked" /\ UNCHANGED <<files, alone>>
  BY DEF Login, At
<1>2. PICK n \in 1 .. MaxTokens, b \in BOOLEAN :
        /\ Issue(n, b)
        /\ fresh' = IF b THEN fresh \cup {n} ELSE fresh
        /\ Goes(r, Saving(r, n, "ready"))
  BY DEF Login
<1>3. n = issued + 1 /\ issued' = n /\ Issues'
  BY <1>2, IssueFacts
<1>4. QED
  BY <1>1, <1>2, <1>3, SavesIt

LEMMA RefreshKeeps ==
  ASSUME IInv, NEW r \in Run, Refresh(r), UNCHANGED alone
  PROVE  IInv'
<1>1. run[r].at = "ready" /\ UNCHANGED <<files, alone>>
  BY DEF Refresh, At
<1>2. PICK n \in 1 .. MaxTokens : Rotates(run[r].cur, n) /\ Goes(r, Saving(r, n, "done"))
  BY DEF Refresh
<1>3. n = issued + 1 /\ issued' = n /\ Issues'
  BY <1>2, IssueFacts DEF Rotates
<1>4. QED
  BY <1>1, <1>2, <1>3, SavesIt

LEMMA RefreshLostKeeps ==
  ASSUME IInv, NEW r \in Run, RefreshLost(r), UNCHANGED alone
  PROVE  IInv'
<1>1. run[r].at # "idle" /\ Goes(r, Idle) /\ UNCHANGED files /\ alone' = alone
  BY DEF RefreshLost, At
<1>2. PICK n \in 1 .. MaxTokens : Rotates(run[r].cur, n)
  BY DEF RefreshLost
<1>3. n = issued + 1 /\ issued' = n /\ Issues'
  BY <1>2, IssueFacts DEF Rotates
<1>4. Fine(Idle, issued') /\ Relies(Idle, path, swp, data)
  BY <1>3, Going, IdleFine
<1>5. QED
  BY <1>1, <1>3, <1>4, Moved

LEMMA TokenCachedKeeps ==
  ASSUME IInv, NEW r \in Run, TokenCached(r), UNCHANGED alone
  PROVE  IInv'
<1> DEFINE q == run[r]
           n == [q EXCEPT !.at = "done"]
<1>1. q.at = "ready" /\ Goes(r, n) /\ UNCHANGED <<files, server, alone>>
  BY DEF TokenCached, At
<1>2. issued' = issued /\ Issues'
  BY <1>1, Same
<1>3. /\ Fine(q, issued) /\ q \in State
      /\ alone /\ Longer = {} => Relies(q, path, swp, data)
  BY Going
<1> HIDE DEF q
<1>4. n \in State /\ n.at = "done" /\ n.cur = q.cur /\ n.new = q.new /\ n.fd = q.fd
  BY <1>3, EditAt DEF Steps
<1> HIDE DEF n
<1>5. Fine(n, issued')
  BY <1>1, <1>2, <1>3, <1>4 DEF Fine
<1>6. alone /\ Longer = {} => Relies(n, path, swp, data)
  BY <1>1, <1>3, <1>4 DEF Relies
<1>7. run[r].at # "idle"
  BY <1>1 DEF q
<1>8. QED
  BY <1>1, <1>2, <1>5, <1>6, <1>7, Moved

-----------------------------------------------------------------------------
\* Steps that write files.
LEMMA FileMoved ==
  ASSUME IInv, NEW r \in Run, run[r].at # "idle", NEW n, Goes(r, n), Fine(n, issued),
         path' \in File, swp' \in File, Content(data', issued), UNCHANGED <<server, alone>>,
         alone /\ Longer = {} => Named(path', swp', data', issued) /\ Relies(n, path', swp', data')
  PROVE  IInv'
<1>1. issued' = issued /\ Issues' /\ alone' = alone
  BY Same
<1>2. n \in State
  BY DEF Fine
<1>3. Typed'
  BY <1>1, TypedMoved DEF IInv
<1>4. Alone'
  BY <1>1, <1>2, AloneMoved
<1>5. QED
  BY <1>3, <1>4 DEF IInv

LEMMA OpenSwapKeeps ==
  ASSUME IInv, NEW r \in Run, OpenSwap(r), UNCHANGED alone
  PROVE  IInv'
<1> DEFINE q == run[r]
           f == IF swp = NoInode THEN CHOOSE g \in Free : TRUE ELSE swp
           n == [q EXCEPT !.at = "write", !.fd = f]
<1>1. /\ q.at = "open" /\ (swp # NoInode \/ Free # {})
      /\ data' = IF swp = NoInode THEN [data EXCEPT ![f] = << >>] ELSE data
      /\ swp' = f /\ Goes(r, n)
      /\ path' = path /\ UNCHANGED <<server, alone>>
  BY DEF OpenSwap, At
<1>2. path \in File /\ swp \in File /\ Content(data, issued)
  BY DEF IInv, Typed
<1>3. f \in Inode /\ (swp = NoInode => f # path) /\ (swp # NoInode => f = swp)
  <2>1. CASE swp = NoInode
    <3>1. f \in Free
      BY <1>1, <2>1
    <3>2. QED
      BY <2>1, <3>1 DEF Free
  <2>2. CASE swp # NoInode
    BY <1>2, <2>2 DEF File
  <2>3. QED
    BY <2>1, <2>2
<1>4. Fine(q, issued) /\ q \in State
  BY Going
<1> HIDE DEF q, f
<1>5. n \in State /\ n.at = "write" /\ n.cur = q.cur /\ n.new = q.new /\ n.then = q.then /\ n.fd = f
  BY <1>3, <1>4, Opened DEF Steps, File
<1> HIDE DEF n
<1>6. Fine(n, issued)
  BY <1>1, <1>3, <1>4, <1>5 DEF Fine
<1>7. /\ data' \in [Inode -> Seq(1 .. issued)]
      /\ swp = NoInode => data'[f] = << >>
      /\ \A g \in Inode : (swp # NoInode \/ g # f) => data'[g] = data[g]
  BY <1>1, <1>2, <1>3 DEF Content
<1>8. Content(data', issued)
  <2>1. Len(<< >>) = 0 /\ Longest \in Nat
    BY LongestNat
  <2>2. QED
    BY <1>2, <1>7, <2>1 DEF Content
<1>9. alone /\ Longer = {} => Named(path', swp', data', issued)
  <2> SUFFICES ASSUME alone, Longer = {} PROVE Named(path', swp', data', issued)
    OBVIOUS
  <2>1. Named(path, swp, data, issued)
    BY Going
  <2>2. f # path
    BY <1>3, <2>1 DEF Named
  <2>3. path # NoInode => data'[path] = data[path]
    BY <1>2, <1>7, <2>2 DEF File
  <2>4. QED
    BY <1>1, <2>1, <2>2, <2>3 DEF Named
<1>10. Relies(n, path', swp', data')
  BY <1>1, <1>5 DEF Relies
<1>11. path' \in File /\ swp' \in File /\ run[r].at # "idle"
  BY <1>1, <1>2, <1>3 DEF File, q
<1>12. QED
  BY <1>1, <1>6, <1>8, <1>9, <1>10, <1>11, FileMoved

\* The swap file of a run that writes, and the bytes it writes.
LEMMA Writing ==
  ASSUME IInv, NEW r \in Run, run[r].at = "write"
  PROVE  LET f == run[r].fd
             n == run[r].new
         IN  /\ f \in Inode /\ n \in 1 .. issued
             /\ data[f] \in Seq(1 .. issued) /\ Len(data[f]) <= Longest
             /\ Bytes(n) \in Seq(1 .. issued) /\ Len(Bytes(n)) \in 1 .. Longest
             /\ Longer = {} => Len(data[f]) <= Len(Bytes(n))
             /\ alone /\ Longer = {} => f = swp /\ swp # path
<1>1. /\ Fine(run[r], issued) /\ issued \in Nat
      /\ alone /\ Longer = {} => Relies(run[r], path, swp, data) /\ Named(path, swp, data, issued)
  BY Going
<1>2. run[r].fd \in Inode /\ run[r].new \in 1 .. issued
  BY <1>1 DEF Fine
<1>3. /\ Bytes(run[r].new) \in Seq(1 .. issued) /\ Len(Bytes(run[r].new)) \in 1 .. Longest
      /\ Longer = {} => Len(Bytes(run[r].new)) = Longest
  BY <1>1, <1>2, BytesFacts
<1>4. data[run[r].fd] \in Seq(1 .. issued) /\ Len(data[run[r].fd]) <= Longest
  BY <1>2 DEF IInv, Typed, Content
<1>5. alone /\ Longer = {} => run[r].fd = swp /\ swp # path
  BY <1>1, <1>2, InodeAssumption DEF Relies, Named
<1>6. QED
  BY <1>2, <1>3, <1>4, <1>5

\* New bytes in the swap file.
LEMMA WriteNames ==
  ASSUME IInv, NEW r \in Run, run[r].at = "write", NEW c \in Seq(1 .. issued), Len(c) <= Longest,
         data' = [data EXCEPT ![run[r].fd] = c], path' = path, swp' = swp
  PROVE  /\ Content(data', issued) /\ data'[run[r].fd] = c
         /\ alone /\ Longer = {} => Named(path', swp', data', issued)
<1> DEFINE f == run[r].fd
<1>1. f \in Inode /\ Content(data, issued) /\ path \in File
  BY Writing DEF IInv, Typed
<1>2. data' = [data EXCEPT ![f] = c]
  OBVIOUS
<1> HIDE DEF f
<1>3. data' \in [Inode -> Seq(1 .. issued)] /\ data'[f] = c /\ \A g \in Inode \ {f} : data'[g] = data[g]
  BY <1>1, <1>2 DEF Content
<1>4. Content(data', issued)
  BY <1>1, <1>3 DEF Content
<1>5. ASSUME alone, Longer = {} PROVE Named(path', swp', data', issued)
  <2>1. Named(path, swp, data, issued) /\ f = swp /\ f # path
    BY <1>5, Going, Writing DEF f
  <2>2. path # NoInode => data'[path] = data[path]
    BY <1>1, <1>3, <2>1 DEF File
  <2>3. QED
    BY <2>1, <2>2 DEF Named
<1>6. QED
  BY <1>3, <1>4, <1>5 DEF f

LEMMA WriteSwapKeeps ==
  ASSUME IInv, NEW r \in Run, WriteSwap(r), UNCHANGED alone
  PROVE  IInv'
<1> DEFINE q == run[r]
           b == Bytes(q.new)
           old == data[q.fd]
           c == Over(old, b)
           n == [q EXCEPT !.at = "rename", !.fd = NoInode]
<1>1. /\ q.at = "write" /\ Goes(r, n) /\ data' = [data EXCEPT ![q.fd] = c]
      /\ path' = path /\ swp' = swp /\ UNCHANGED <<server, alone>>
  BY DEF WriteSwap, At
<1>2. Fine(q, issued) /\ q \in State /\ issued \in Nat /\ Longest \in Nat
  BY Going, LongestNat
<1>3. /\ old \in Seq(1 .. issued) /\ Len(old) <= Longest
      /\ b \in Seq(1 .. issued) /\ Len(b) \in 1 .. Longest
      /\ Longer = {} => Len(old) <= Len(b)
      /\ alone /\ Longer = {} => q.fd = swp /\ swp # NoInode
  BY <1>1, Writing, InodeAssumption
<1> HIDE DEF b, old
<1>4. c \in Seq(1 .. issued) /\ Len(c) <= Longest
  <2>1. Len(b) <= Longest
    BY <1>2, <1>3
  <2>2. QED
    BY ONLY <1>3, <2>1, OverFacts
<1>5. Longer = {} => c = b
  BY <1>3, OverShort
<1> HIDE DEF c
<1>6. Content(data', issued) /\ data'[q.fd] = c /\ (alone /\ Longer = {} => Named(path', swp', data', issued))
  BY <1>1, <1>4, WriteNames
<1> HIDE DEF q
<1>7. n \in State /\ n.at = "rename" /\ n.cur = q.cur /\ n.new = q.new /\ n.then = q.then /\ n.fd = NoInode
  BY <1>2, Opened DEF Steps, File
<1> HIDE DEF n
<1>8. Fine(n, issued)
  BY <1>1, <1>2, <1>7, InodeAssumption DEF Fine
<1>9. alone /\ Longer = {} => Named(path', swp', data', issued) /\ Relies(n, path', swp', data')
  BY <1>1, <1>3, <1>5, <1>6, <1>7 DEF Relies, b
<1>10. path' \in File /\ swp' \in File /\ run[r].at # "idle"
  BY <1>1 DEF IInv, Typed, q
<1>11. QED
  BY <1>1, <1>6, <1>8, <1>9, <1>10, FileMoved

LEMMA WriteFailsKeeps ==
  ASSUME IInv, NEW r \in Run, WriteFails(r), UNCHANGED alone
  PROVE  IInv'
<1> DEFINE q == run[r]
           whole == Bytes(q.new)
           old == data[q.fd]
           S == 1 .. issued
<1>1. /\ q.at = "write" /\ Goes(r, Idle) /\ path' = path /\ swp' = swp /\ UNCHANGED <<server, alone>>
  BY DEF WriteFails, At
<1>2. PICK k \in 0 .. Len(whole) - 1 :
        data' = [data EXCEPT ![q.fd] = Over(old, SubSeq(whole, 1, k))]
  BY DEF WriteFails
<1> DEFINE b == SubSeq(whole, 1, k)
           c == Over(old, b)
<1>3. issued \in Nat /\ Fine(Idle, issued) /\ Relies(Idle, path', swp', data')
  BY Going, IdleFine
<1>4. old \in Seq(S) /\ Len(old) <= Longest /\ whole \in Seq(S) /\ Len(whole) \in 1 .. Longest
      /\ Longest \in Nat
  BY <1>1, Writing, LongestNat
<1> HIDE DEF whole, old, S
<1>5. b \in Seq(S) /\ Len(b) <= Longest
  <2> DEFINE len == Len(whole)
  <2>1. len \in 1 .. Longest /\ k \in 0 .. len - 1 /\ len = Len(whole)
    BY <1>2, <1>4
  <2> HIDE DEF len
  <2>2. k \in Int /\ 1 \in Int /\ \A i \in 1 .. k : i \in 1 .. len
    BY <1>4, <2>1
  <2>3. \A i \in 1 .. k : whole[i] \in S
    BY <1>4, <2>1, <2>2, ElementOfSeq
  <2>4. /\ SubSeq(whole, 1, k) \in Seq(S)
        /\ Len(SubSeq(whole, 1, k)) = IF 1 <= k THEN k - 1 + 1 ELSE 0
    BY ONLY <2>2, <2>3, SubSeqProperties
  <2>5. (IF 1 <= k THEN k - 1 + 1 ELSE 0) <= Longest
    BY <1>4, <2>1
  <2>6. QED
    BY <2>4, <2>5
<1> HIDE DEF b
<1>6. c \in Seq(S) /\ Len(c) <= Longest
  BY ONLY <1>4, <1>5, OverFacts
<1>7. data' = [data EXCEPT ![q.fd] = c]
  BY <1>2 DEF b
<1> HIDE DEF c
<1>8. Content(data', issued) /\ (alone /\ Longer = {} => Named(path', swp', data', issued))
  BY <1>1, <1>6, <1>7, WriteNames DEF S
<1>9. path' \in File /\ swp' \in File /\ run[r].at # "idle"
  BY <1>1 DEF IInv, Typed
<1>10. QED
  BY <1>1, <1>3, <1>8, <1>9, FileMoved

LEMMA RenameKeeps ==
  ASSUME IInv, NEW r \in Run, Rename(r), UNCHANGED alone
  PROVE  IInv'
<1> DEFINE q == run[r]
           n == [Idle EXCEPT !.at = q.then, !.cur = q.new]
<1>1. q.at = "rename" /\ data' = data /\ UNCHANGED <<server, alone>>
  BY DEF Rename, At
<1>2. /\ Fine(q, issued) /\ q \in State /\ issued \in Nat
      /\ alone /\ Longer = {} => Relies(q, path, swp, data) /\ Named(path, swp, data, issued)
  BY Going
<1>3. CASE swp # NoInode /\ path' = swp /\ swp' = NoInode /\ Goes(r, n)
  <2>1. q.new \in 1 .. issued /\ q.then \in {"ready", "done"}
    BY <1>1, <1>2 DEF Fine
  <2>2. n \in State /\ n.at = q.then /\ n.cur = q.new /\ n.new = 0 /\ n.fd = NoInode
    <3>1. q.then \in Steps /\ q.new \in Nat
      BY <1>2, <2>1 DEF Steps
    <3> DEFINE x == q.then
               m == q.new
    <3>2. x \in Steps /\ m \in Nat
      BY <3>1
    <3> HIDE DEF x, m
    <3>3. LET o == [Idle EXCEPT !.at = x, !.cur = m]
          IN  o \in State /\ o.at = x /\ o.cur = m /\ o.new = 0 /\ o.fd = NoInode
      BY ONLY <3>2, Renamed
    <3>4. QED
      BY <3>3 DEF x, m
  <2>3. Goes(r, n) /\ run[r].at # "idle"
    BY <1>1, <1>3
  <2> HIDE DEF n, q
  <2>4. Fine(n, issued)
    BY <1>2, <2>1, <2>2, InodeAssumption DEF Fine
  <2>5. path' \in File /\ swp' \in File /\ Content(data', issued)
    BY <1>1, <1>3 DEF IInv, Typed, File
  <2>6. alone /\ Longer = {} => Named(path', swp', data', issued) /\ Relies(n, path', swp', data')
    BY <1>1, <1>2, <1>3, <2>1, <2>2 DEF Named, Relies
  <2>7. QED
    BY <1>1, <2>3, <2>4, <2>5, <2>6, FileMoved
<1>4. CASE Goes(r, Idle) /\ UNCHANGED <<path, swp>>
  <2>1. UNCHANGED files /\ run[r].at # "idle"
    BY <1>1, <1>4 DEF files
  <2>2. QED
    BY <1>1, <1>4, <2>1, GivesUp
<1>5. QED
  BY <1>3, <1>4 DEF Rename

-----------------------------------------------------------------------------
LEMMA StepKeeps ==
  ASSUME IInv, NEW r \in Run, Step(r), UNCHANGED alone
  PROVE  IInv'
<1>1. CASE Done(r) \/ Ends(r)
  <2>1. run[r].at # "idle" /\ Goes(r, Idle) /\ UNCHANGED <<files, server, alone>>
    BY <1>1 DEF Done, Ends, At
  <2>2. QED
    BY <2>1, GivesUp
<1>2. QED
  BY <1>1, ReadKeeps, DecideKeeps, AskKeeps, LoginKeeps, OpenSwapKeeps, WriteSwapKeeps, WriteFailsKeeps, RenameKeeps,
     TokenCachedKeeps, RefreshKeeps, RefreshLostKeeps
  DEF Step

\* What the server does to tokens.
LEMMA ServerKeeps ==
  ASSUME IInv, NEW n \in Issued, Expire(n) \/ RefreshExpires(n)
  PROVE  IInv'
<1>1. UNCHANGED <<path, swp, data, issued, carries, run, alone>>
      /\ alive' \subseteq alive /\ fresh' \subseteq fresh
  BY DEF Expire, RefreshExpires, files
<1>2. Issues'
  BY <1>1 DEF IInv, Typed, Issues, Issued
<1>3. Typed'
  BY <1>1, <1>2 DEF IInv, Typed
<1>4. Alone'
  BY <1>1 DEF IInv, Alone, Single
<1>5. QED
  BY <1>3, <1>4 DEF IInv

LEMMA NextIInv == IInv /\ [Next]_vars => IInv'
<1> SUFFICES ASSUME IInv, [Next]_vars PROVE IInv'
  OBVIOUS
<1>1. CASE Next
  BY <1>1, BeginKeeps, StepKeeps, ServerKeeps DEF Next
<1>2. CASE UNCHANGED vars
  <2>1. UNCHANGED <<path, swp, data, issued, alive, carries, fresh, run, alone>>
    BY <1>2 DEF vars, files, server
  <2>2. QED
    BY <2>1 DEF IInv, Typed, Issues, Issued, Alone, Single
<1>3. QED
  BY <1>1, <1>2

LEMMA Invariant == Spec => []IInv
BY InitIInv, NextIInv, PTL DEF Spec

-----------------------------------------------------------------------------
\* The files and the runs keep their types, and no file outgrows the longest token, for any
\* runs and files, of which any may overlap (storage.go:54-74).
THEOREM TypeCorrect == Spec => []TypeOK
<1>1. IInv => TypeOK
  <2> SUFFICES ASSUME IInv PROVE TypeOK
    OBVIOUS
  <2>1. path \in File /\ swp \in File /\ Content(data, issued) /\ Issues
        /\ \A r \in Run : Fine(run[r], issued)
    BY DEF IInv, Typed
  <2>2. \A f \in Inode : Len(data[f]) <= Longest /\ \A i \in 1 .. Len(data[f]) : data[f][i] \in Issued
    BY <2>1, ElementOfSeq DEF Content, Issued
  <2>3. ASSUME NEW r \in Run
        PROVE  /\ run[r].at \in Steps
               /\ run[r].cur \in 0 .. issued
               /\ run[r].new \in 0 .. issued
               /\ run[r].fd \in Inode <=> At(r, "write")
    BY <2>1 DEF Fine, State, At
  <2>4. QED
    BY <2>1, <2>2, <2>3 DEF TypeOK, Issues, File, Steps
<1>2. QED
  BY <1>1, Invariant, PTL

\* Write and Rename keep the file whole as long as runs do not overlap and tokens are of one
\* length, whatever fails or is killed, and whatever swap file that leaves
\* (storage.go:54-74).
THEOREM WholeIfAlone == Spec => []WholeAlone
<1>1. IInv => WholeAlone
  <2> SUFFICES ASSUME IInv, alone, Longer = {}, path # NoInode
               PROVE  \E n \in Issued : Holds(n)
    BY DEF WholeAlone, CacheWhole
  <2>1. \E n \in 1 .. issued : data[path] = Bytes(n)
    BY DEF IInv, Alone, Named
  <2>2. QED
    BY <2>1 DEF Holds, Issued
<1>2. QED
  BY <1>1, Invariant, PTL

\* A token is saved before an RPC is sent with it, on the same condition
\* (source.go:112-134).
THEOREM SavedFirst == Spec => []SavedWhenSent
<1>1. IInv => SavedWhenSent
  <2> SUFFICES ASSUME IInv, alone, Longer = {}, NEW r \in Run, At(r, "done")
               PROVE  Holds(run[r].cur)
    BY DEF SavedWhenSent
  <2>1. path # NoInode /\ data[path] = Bytes(run[r].cur)
    BY Going DEF Relies, At
  <2>2. QED
    BY <2>1 DEF Holds
<1>2. QED
  BY <1>1, Invariant, PTL

\* Two tokens have the same bytes only if they are one.
LEMMA HeldOnce ==
  ASSUME IInv, NEW n \in Issued, NEW m \in Issued, Holds(n), Holds(m)
  PROVE  n = m
<1>1. issued \in Nat /\ n \in 1 .. issued /\ m \in 1 .. issued
  BY DEF IInv, Typed, Issues, Issued
<1>2. Bytes(n)[1] = n /\ Bytes(m)[1] = m
  BY <1>1, BytesFacts
<1>3. QED
  BY <1>2 DEF Holds

\* What a run that no other overlaps has read, and decided, is so of the file still.
Decided ==
  alone => \A r \in Run :
    /\ At(r, "decide") => run[r].cur \in Issued /\ Holds(run[r].cur)
    /\ At(r, "seed") => \A n \in Issued : Holds(n) => ~ Usable(n)

\* The step of a run, and the others stay idle.
LEMMA Turns ==
  ASSUME IInv, NEW r \in Run, Begin(r) \/ (Step(r) /\ UNCHANGED alone), alone'
  PROVE  /\ alone
         /\ \E n : run'[r] = n /\ Goes(r, n)
         /\ \A q \in Run \ {r} : run'[q].at = "idle"
<1>1. run \in [Run -> State]
  BY DEF IInv, Typed
<1>2. \E n : Goes(r, n)
  BY DEF Begin, Step, Read, Decide, Ask, Login, OpenSwap, WriteSwap, WriteFails, Rename,
         TokenCached, Refresh, RefreshLost, Done, Ends
<1>3. alone /\ \A q \in Run \ {r} : run[q].at = "idle"
  <2>1. CASE Begin(r)
    BY <2>1 DEF Begin, At
  <2>2. CASE Step(r) /\ alone' = alone
    <3>1. run[r].at # "idle"
      BY <2>2
      DEF Step, Read, Decide, Ask, Login, OpenSwap, WriteSwap, WriteFails, Rename,
          TokenCached, Refresh, RefreshLost, Done, Ends, At
    <3>2. QED
      BY <2>2, <3>1 DEF IInv, Alone, Single
  <2>3. QED
    BY <2>1, <2>2
<1>4. PICK n : Goes(r, n)
  BY <1>2
<1>5. run'[r] = n /\ \A q \in Run \ {r} : run'[q] = run[q]
  BY <1>1, <1>4 DEF Goes
<1>6. QED
  BY <1>3, <1>4, <1>5

\* The states of which Decided says nothing.
Undecided(q) == q.at \notin {"decide", "seed"}

\* Only Read and Decide leave a run with something decided.
LEMMA OthersUndecided ==
  ASSUME IInv, NEW r \in Run, Begin(r) \/ Step(r), ~ Read(r), ~ Decide(r)
  PROVE  Undecided(run'[r])
<1>1. run \in [Run -> State] /\ run[r] \in State /\ Fine(run[r], issued)
  BY DEF IInv, Typed
<1>2. ASSUME NEW n \in State, Goes(r, n), Undecided(n) PROVE Undecided(run'[r])
  BY <1>1, <1>2 DEF Goes
<1>3. CASE Done(r) \/ Ends(r) \/ WriteFails(r) \/ RefreshLost(r)
  BY <1>2, <1>3, IdleFacts DEF Done, Ends, WriteFails, RefreshLost, Undecided
<1>4. CASE Begin(r) \/ Ask(r)
  <2>1. PICK x \in {"read", "asked"} : Goes(r, [Idle EXCEPT !.at = x])
    BY <1>4 DEF Begin, Ask
  <2> DEFINE n == [Idle EXCEPT !.at = x]
  <2>2. n \in State /\ n.at = x
    <3>1. x \in Steps
      BY DEF Steps
    <3>2. QED
      BY <3>1, EditAt, IdleFacts
  <2> HIDE DEF n
  <2>3. Goes(r, n)
    BY <2>1 DEF n
  <2>4. QED
    BY <1>2, <2>2, <2>3 DEF Undecided
<1>5. CASE Login(r) \/ Refresh(r)
  <2>1. PICK m \in 1 .. MaxTokens, t \in {"ready", "done"} : Goes(r, Saving(r, m, t))
    BY <1>5 DEF Login, Refresh
  <2> DEFINE n == Saving(r, m, t)
  <2>2. m \in Nat
    BY TokenAssumption
  <2>3. n \in State /\ n.at = "open"
    BY <1>1, <2>2, SavingFacts
  <2> HIDE DEF n
  <2>4. Goes(r, n)
    BY <2>1 DEF n
  <2>5. QED
    BY <1>2, <2>3, <2>4 DEF Undecided
<1>6. CASE OpenSwap(r)
  <2>1. PICK f : swp' = f /\ Goes(r, [run[r] EXCEPT !.at = "write", !.fd = f])
    BY <1>6 DEF OpenSwap
  <2>2. run'[r] = [run[r] EXCEPT !.at = "write", !.fd = f]
    BY <1>1, <2>1 DEF Goes
  <2>3. run'[r].at = "write"
    BY <1>1, <2>2 DEF State
  <2>4. QED
    BY <2>3 DEF Undecided
<1>7. CASE WriteSwap(r)
  <2>1. run'[r] = [run[r] EXCEPT !.at = "rename", !.fd = NoInode]
    BY <1>1, <1>7 DEF WriteSwap, Goes
  <2>2. run'[r].at = "rename"
    BY <1>1, <2>1 DEF State
  <2>3. QED
    BY <2>2 DEF Undecided
<1>8. CASE Rename(r)
  <2>1. Goes(r, Idle) \/ Goes(r, [Idle EXCEPT !.at = run[r].then, !.cur = run[r].new])
    BY <1>8 DEF Rename
  <2>2. run[r].then \in {"ready", "done"}
    BY <1>1, <1>8 DEF Rename, At, Fine
  <2>3. CASE Goes(r, Idle)
    BY <1>2, <2>3, IdleFacts DEF Undecided
  <2>4. CASE Goes(r, [Idle EXCEPT !.at = run[r].then, !.cur = run[r].new])
    <3>1. run'[r] = [Idle EXCEPT !.at = run[r].then, !.cur = run[r].new]
      BY <1>1, <2>4 DEF Goes
    <3>2. run'[r].at = run[r].then
      BY <3>1, IdleFacts DEF State
    <3>3. QED
      BY <2>2, <3>2 DEF Undecided
  <2>5. QED
    BY <2>1, <2>3, <2>4
<1>9. CASE TokenCached(r)
  <2>1. run'[r] = [run[r] EXCEPT !.at = "done"]
    BY <1>1, <1>9 DEF TokenCached, Goes
  <2>2. run'[r].at = "done"
    BY <1>1, <2>1 DEF State
  <2>3. QED
    BY <2>2 DEF Undecided
<1>10. QED
  BY <1>3, <1>4, <1>5, <1>6, <1>7, <1>8, <1>9 DEF Step

LEMMA ReadDecides ==
  ASSUME IInv, NEW r \in Run, Read(r)
  PROVE  /\ run'[r].at = "decide" => run'[r].cur \in Issued /\ Holds(run'[r].cur)
         /\ run'[r].at = "seed" => path = NoInode
<1>1. run \in [Run -> State] /\ issued \in Nat
  BY Going DEF IInv, Typed
<1>2. CASE path = NoInode /\ Goes(r, [Idle EXCEPT !.at = "seed"])
  <2>1. run'[r] = [Idle EXCEPT !.at = "seed"]
    BY <1>1, <1>2 DEF Goes
  <2>2. run'[r].at = "seed"
    BY <2>1, EditAt, IdleFacts DEF Steps
  <2>3. QED
    BY <1>2, <2>2
<1>3. ASSUME NEW c \in Issued, Holds(c), Goes(r, Reading("decide", c))
      PROVE  run'[r].at = "decide" /\ run'[r].cur \in Issued /\ Holds(run'[r].cur)
  <2>1. run'[r] = [Idle EXCEPT !.at = "decide", !.cur = c] /\ c \in Nat
    BY <1>1, <1>3 DEF Goes, Reading, Issued
  <2>2. run'[r].at = "decide" /\ run'[r].cur = c
    <3> DEFINE n == [Idle EXCEPT !.at = "decide", !.cur = c]
    <3>1. "decide" \in Steps
      BY DEF Steps
    <3>2. n.at = "decide" /\ n.cur = c
      BY ONLY <2>1, <3>1, Renamed
    <3>3. QED
      BY <2>1, <3>2
  <2>3. QED
    BY <1>3, <2>2
<1>4. CASE Goes(r, Idle)
  BY <1>1, <1>4, IdleFacts DEF Goes
<1>5. QED
  BY <1>2, <1>3, <1>4 DEF Read

LEMMA DecideDecides ==
  ASSUME IInv, Decided, alone, NEW r \in Run, Decide(r)
  PROVE  /\ run'[r].at # "decide"
         /\ run'[r].at = "seed" => \A n \in Issued : Holds(n) => ~ Usable(n)
<1>1. run \in [Run -> State] /\ Fine(run[r], issued) /\ issued \in Nat
  BY Going DEF IInv, Typed
<1>2. run[r].cur \in Issued /\ Holds(run[r].cur)
  BY DEF Decide, Decided
<1>3. CASE NeedsSeed(run[r].cur) /\ Goes(r, [Idle EXCEPT !.at = "seed"])
  <2>1. run'[r] = [Idle EXCEPT !.at = "seed"]
    BY <1>1, <1>3 DEF Goes
  <2>2. run'[r].at = "seed"
    BY <2>1, EditAt, IdleFacts DEF Steps
  <2>3. ASSUME NEW n \in Issued, Holds(n) PROVE ~ Usable(n)
    <3>1. n = run[r].cur
      BY <1>2, <2>3, HeldOnce
    <3>2. QED
      BY <1>3, <3>1 DEF NeedsSeed, Usable, IInv, Typed, Issues
  <2>4. QED
    BY <2>2, <2>3
<1>4. CASE Goes(r, Reading("ready", run[r].cur))
  <2> DEFINE c == run[r].cur
  <2>1. run'[r] = [Idle EXCEPT !.at = "ready", !.cur = c] /\ c \in Nat
    BY <1>1, <1>4 DEF Goes, Reading, Fine
  <2> HIDE DEF c
  <2>2. run'[r].at = "ready"
    <3> DEFINE n == [Idle EXCEPT !.at = "ready", !.cur = c]
    <3>1. "ready" \in Steps
      BY DEF Steps
    <3>2. n.at = "ready" /\ n.cur = c
      BY ONLY <2>1, <3>1, Renamed
    <3>3. QED
      BY <2>1, <3>2
  <2>3. QED
    BY <2>2
<1>5. QED
  BY <1>3, <1>4 DEF Decide

LEMMA NextDecided == IInv /\ Decided /\ [Next]_vars => Decided'
<1> SUFFICES ASSUME IInv, Decided, [Next]_vars, alone' PROVE Decided'
  BY DEF Decided
<1>1. ASSUME NEW r \in Run, Begin(r) \/ (Step(r) /\ UNCHANGED alone) PROVE Decided'
  <2>1. alone /\ \A q \in Run \ {r} : run'[q].at = "idle"
    BY <1>1, Turns
  <2> SUFFICES (/\ At(r, "decide") => run[r].cur \in Issued /\ Holds(run[r].cur)
                /\ At(r, "seed") => \A n \in Issued : Holds(n) => ~ Usable(n))'
    BY <2>1 DEF Decided, At
  <2>2. CASE Read(r) \/ Decide(r)
    <3>1. UNCHANGED <<path, data, issued, alive, fresh>>
      BY <2>2 DEF Read, Decide, files, server
    <3>2. CASE Read(r)
      BY <3>1, <3>2, ReadDecides DEF At, Holds, Issued
    <3>3. CASE Decide(r)
      BY <2>1, <3>1, <3>3, DecideDecides DEF At, Holds, Issued, Usable
    <3>4. QED
      BY <2>2, <3>2, <3>3
  <2>3. CASE ~ Read(r) /\ ~ Decide(r)
    <3>1. Undecided(run'[r])
      BY <1>1, <2>3, OthersUndecided
    <3>2. QED
      BY <3>1 DEF Undecided, At
  <2>4. QED
    BY <2>2, <2>3
<1>2. ASSUME NEW m \in Issued, Expire(m) \/ RefreshExpires(m) PROVE Decided'
  <2>1. UNCHANGED <<path, data, issued, run, alone>> /\ alive' \subseteq alive /\ fresh' \subseteq fresh
    BY <1>2 DEF Expire, RefreshExpires, files
  <2>2. QED
    BY <2>1 DEF Decided, At, Holds, Issued, Usable
<1>3. CASE UNCHANGED vars
  BY <1>3 DEF vars, files, server, Decided, At, Holds, Issued, Usable
<1>4. QED
  BY <1>1, <1>2, <1>3 DEF Next

\* The user of a run that no other overlaps is asked to log in only when the file holds no
\* token that can still be used, for tokens of any length, whatever the runs before it have
\* left and the server does meanwhile (source.go:58-81, seeds.go:30-44).
THEOREM NoNeedlessLogin == Spec => LoginOnlyIfNeeded
<1> DEFINE A == \A r \in Run : (alone /\ At(r, "seed") /\ run'[r].at = "asked")
                  => ~ \E n \in Issued : Holds(n) /\ Usable(n)
<1>1. Decided => A
  BY DEF Decided
<1>2. Init => Decided
  BY IdleFacts DEF Init, Decided, At
<1>3. Spec => []Decided
  BY <1>2, Invariant, NextDecided, PTL DEF Spec
<1>4. QED
  BY <1>1, <1>3, PTL DEF Spec, LoginOnlyIfNeeded

(***************************************************************************)
(* Refinement of TokenCell.  The rename is the step that saves; that it     *)
(* saves the newest token needs Newest, and that no other step is seen in   *)
(* the token file needs Alone.                                              *)
(***************************************************************************)
Kept == alone /\ Longer = {}

Newest ==
  Kept => \A r \in Run : run[r].at \in {"open", "write", "rename"} => run[r].new = issued

\* The states a step leaves its run in, as far as Newest looks.
Saves(q, n, k) == n \in State /\ (n.at \in {"open", "write", "rename"} => n.new = k)

LEMMA IdleSaves ==
  ASSUME NEW q, NEW k, NEW x \in {"idle", "read", "decide", "seed", "asked", "ready", "done"}, NEW c \in Nat
  PROVE  /\ Saves(q, Idle, k)
         /\ Saves(q, [Idle EXCEPT !.at = x], k)
         /\ Saves(q, [Idle EXCEPT !.at = x, !.cur = c], k)
<1>1. x \in Steps /\ x \notin {"open", "write", "rename"}
  BY DEF Steps
<1>2. Idle \in State /\ Idle.at = "idle"
  BY IdleFacts
<1>3. Saves(q, Idle, k)
  BY <1>2 DEF Saves
<1>4. Saves(q, [Idle EXCEPT !.at = x], k)
  <2> DEFINE n == [Idle EXCEPT !.at = x]
  <2>1. n \in State /\ n.at = x
    BY <1>1, <1>2, EditAt
  <2> HIDE DEF n
  <2>2. Saves(q, n, k)
    BY <1>1, <2>1 DEF Saves
  <2>3. QED
    BY <2>2 DEF n
<1>5. Saves(q, [Idle EXCEPT !.at = x, !.cur = c], k)
  <2> DEFINE n == [Idle EXCEPT !.at = x, !.cur = c]
  <2>1. n \in State /\ n.at = x
    BY <1>1, Renamed
  <2> HIDE DEF n
  <2>2. Saves(q, n, k)
    BY <1>1, <2>1 DEF Saves
  <2>3. QED
    BY <2>2 DEF n
<1>6. QED
  BY <1>3, <1>4, <1>5

\* Each step of a run that others do not overlap, as the cell sees it: the token file stays,
\* or it becomes the token the run has got last.
Unseen == path' = path /\ (path # NoInode => data'[path] = data[path])

Visible(r) == path' # NoInode /\ issued' = issued /\ data'[path'] = Bytes(issued)

LEMMA StepSaves ==
  ASSUME IInv, Newest, Kept, NEW r \in Run, Step(r)
  PROVE  /\ \E n : Goes(r, n) /\ Saves(run[r], n, issued')
         /\ run[r].at # "idle"
         /\ issued' = issued \/ (issued < MaxTokens /\ issued' = issued + 1)
         /\ Unseen \/ Visible(r)
<1> DEFINE q == run[r]
<1>0. /\ Fine(q, issued) /\ q \in State /\ issued \in Nat
      /\ Relies(q, path, swp, data) /\ Named(path, swp, data, issued)
      /\ q.at \in {"open", "write", "rename"} => q.new = issued
      /\ data \in [Inode -> Seq(1 .. issued)] /\ path \in File /\ swp \in File
  BY Going DEF Kept, Newest, IInv, Typed, Content
<1>1. CASE Read(r) \/ Decide(r) \/ Ask(r) \/ TokenCached(r) \/ Done(r) \/ Ends(r)
  <2>1. q.at # "idle" /\ issued' = issued /\ Unseen
    BY <1>1 DEF Read, Decide, Ask, TokenCached, Done, Ends, At, files, server, Unseen
  <2>2. CASE TokenCached(r)
    <3> DEFINE n == [q EXCEPT !.at = "done"]
    <3>1. n \in State /\ n.at = "done" /\ Goes(r, n)
      BY <1>0, <2>2, EditAt DEF TokenCached, Steps
    <3> HIDE DEF n
    <3>2. Saves(q, n, issued')
      BY <3>1 DEF Saves
    <3>3. QED
      BY <2>1, <3>1, <3>2
  <2>3. CASE Read(r) \/ Decide(r) \/ Ask(r)
    <3>1. \/ \E x \in {"seed", "asked"} : Goes(r, [Idle EXCEPT !.at = x])
          \/ \E x \in {"decide", "ready"}, c \in Nat : Goes(r, [Idle EXCEPT !.at = x, !.cur = c])
          \/ Goes(r, Idle)
      <4>1. Issued \subseteq Nat /\ q.cur \in Nat
        BY <1>0 DEF Issued, State
      <4>2. CASE Read(r)
        BY <4>1, <4>2 DEF Read, Reading
      <4>3. CASE Decide(r)
        BY <4>1, <4>3 DEF Decide, Reading
      <4>4. CASE Ask(r)
        BY <4>4 DEF Ask
      <4>5. QED
        BY <2>3, <4>2, <4>3, <4>4
    <3>2. 0 \in Nat
      OBVIOUS
    <3>3. QED
      BY <2>1, <3>1, <3>2, IdleSaves
  <2>4. CASE Done(r) \/ Ends(r)
    <3>1. Goes(r, Idle) /\ 0 \in Nat
      BY <2>4 DEF Done, Ends
    <3>2. QED
      BY <2>1, <3>1, IdleSaves
  <2>5. QED
    BY <1>1, <2>2, <2>3, <2>4
<1>2. CASE Login(r) \/ Refresh(r)
  <2>1. PICK n \in 1 .. MaxTokens, t \in {"ready", "done"} :
          Goes(r, Saving(r, n, t)) /\ n = issued + 1 /\ n <= MaxTokens /\ issued' = n
    BY <1>2 DEF Login, Refresh, Rotates, Issue
  <2>2. q.at # "idle" /\ Unseen
    BY <1>2 DEF Login, Refresh, At, files, Unseen
  <2> DEFINE x == Saving(r, n, t)
  <2>3. n \in Nat /\ MaxTokens \in Nat
    BY <1>0, <2>1, TokenAssumption
  <2>4. x \in State /\ x.new = n
    BY <1>0, <2>3, SavingFacts
  <2> HIDE DEF x
  <2>5. Saves(q, x, issued')
    BY <2>1, <2>4 DEF Saves
  <2>6. issued < MaxTokens /\ issued' = issued + 1
    BY <1>0, <2>1, <2>3
  <2>7. QED
    BY <2>1, <2>2, <2>5, <2>6 DEF x
<1>3. CASE RefreshLost(r)
  <2>1. PICK n \in 1 .. MaxTokens : n = issued + 1 /\ n <= MaxTokens /\ issued' = n
    BY <1>3 DEF RefreshLost, Rotates, Issue
  <2>2. q.at # "idle" /\ Unseen /\ Goes(r, Idle)
    BY <1>3 DEF RefreshLost, At, files, Unseen
  <2>3. issued < MaxTokens /\ issued' = issued + 1 /\ 0 \in Nat
    BY <1>0, <2>1, TokenAssumption
  <2>4. QED
    BY <2>2, <2>3, IdleSaves
<1>4. CASE OpenSwap(r)
  <2> DEFINE f == IF swp = NoInode THEN CHOOSE g \in Free : TRUE ELSE swp
             n == [q EXCEPT !.at = "write", !.fd = f]
  <2>1. /\ q.at = "open" /\ (swp # NoInode \/ Free # {})
        /\ data' = IF swp = NoInode THEN [data EXCEPT ![f] = << >>] ELSE data
        /\ Goes(r, n) /\ path' = path /\ issued' = issued
    BY <1>4 DEF OpenSwap, At, server
  <2>2. f \in File /\ (swp = NoInode => f \in Inode /\ f # path)
    <3>1. CASE swp = NoInode
      <4>1. f \in Free
        BY <2>1, <3>1
      <4>2. QED
        BY <4>1 DEF Free, File
    <3>2. CASE swp # NoInode
      BY <1>0, <3>2
    <3>3. QED
      BY <3>1, <3>2
  <2> HIDE DEF f
  <2>3. Unseen
    <3>1. CASE swp = NoInode
      BY <1>0, <2>1, <2>2, <3>1 DEF Unseen, File
    <3>2. CASE swp # NoInode
      BY <2>1, <3>2 DEF Unseen
    <3>3. QED
      BY <3>1, <3>2
  <2>4. n \in State /\ n.new = q.new
    <3> HIDE DEF q
    <3>1. n \in State /\ n.at = "write" /\ n.cur = q.cur /\ n.new = q.new /\ n.then = q.then /\ n.fd = f
      BY <1>0, <2>2, Opened DEF Steps
    <3>2. QED
      BY <3>1
  <2> HIDE DEF n
  <2>5. Saves(q, n, issued')
    BY <1>0, <2>1, <2>4 DEF Saves
  <2>6. QED
    BY <2>1, <2>3, <2>5
<1>5. CASE WriteSwap(r) \/ WriteFails(r)
  <2>1. q.at = "write" /\ path' = path /\ issued' = issued
    BY <1>5 DEF WriteSwap, WriteFails, At, server
  <2>2. q.fd = swp /\ swp # NoInode /\ swp # path
    BY <1>0, <2>1, InodeAssumption DEF Fine, Relies, Named
  <2>3. Unseen
    <3>1. PICK b : data' = [data EXCEPT ![q.fd] = b]
      BY <1>5 DEF WriteSwap, WriteFails
    <3>2. QED
      BY <1>0, <2>1, <2>2, <3>1 DEF Unseen, File
  <2>4. CASE WriteSwap(r)
    <3> DEFINE n == [q EXCEPT !.at = "rename", !.fd = NoInode]
    <3>1. Goes(r, n)
      BY <2>4 DEF WriteSwap
    <3>2. n \in State /\ n.new = q.new
      <4> HIDE DEF q
      <4>1. q \in State
        BY <1>0
      <4>2. n \in State /\ n.at = "rename" /\ n.cur = q.cur /\ n.new = q.new /\ n.then = q.then /\ n.fd = NoInode
        BY <4>1, Opened DEF Steps, File
      <4>3. QED
        BY <4>2
    <3> HIDE DEF n
    <3>3. Saves(q, n, issued')
      BY <1>0, <2>1, <3>2 DEF Saves
    <3>4. QED
      BY <2>1, <2>3, <3>1, <3>3
  <2>5. CASE WriteFails(r)
    <3>1. Goes(r, Idle) /\ 0 \in Nat
      BY <2>5 DEF WriteFails
    <3>2. QED
      BY <2>1, <2>3, <3>1, IdleSaves
  <2>6. QED
    BY <1>5, <2>4, <2>5
<1>6. CASE Rename(r)
  <2>1. q.at = "rename" /\ data' = data /\ issued' = issued
    BY <1>6 DEF Rename, At, server
  <2>2. swp # NoInode /\ data[swp] = Bytes(issued)
    BY <1>0, <2>1 DEF Relies
  <2>3. path' = swp /\ Goes(r, [Idle EXCEPT !.at = q.then, !.cur = q.new])
    BY <1>6, <2>2 DEF Rename
  <2>4. Visible(r)
    BY <2>1, <2>2, <2>3 DEF Visible
  <2>5. q.then \in {"ready", "done"} /\ q.new \in Nat
    BY <1>0, <2>1 DEF Fine
  <2> DEFINE x == q.then
             m == q.new
  <2>6. x \in {"idle", "read", "decide", "seed", "asked", "ready", "done"} /\ m \in Nat
    BY <2>5
  <2> HIDE DEF x, m
  <2>7. Saves(q, [Idle EXCEPT !.at = x, !.cur = m], issued')
    BY <2>6, IdleSaves
  <2>8. QED
    BY <2>1, <2>3, <2>4, <2>7 DEF x, m
<1>7. QED
  BY <1>1, <1>2, <1>3, <1>4, <1>5, <1>6 DEF Step

LEMMA NextNewest == IInv /\ Newest /\ [Next]_vars => Newest'
<1> SUFFICES ASSUME IInv, Newest, [Next]_vars, Kept', NEW r \in Run,
                    run'[r].at \in {"open", "write", "rename"}
             PROVE  run'[r].new = issued'
  BY DEF Newest
<1>0. run \in [Run -> State]
  BY DEF IInv, Typed
<1>1. ASSUME NEW q \in Run, Begin(q) PROVE run'[r].new = issued'
  <2>1. \A p \in Run : run[p].at = "idle"
    BY <1>1 DEF Begin, Kept, At
  <2>2. [Idle EXCEPT !.at = "read"].at = "read"
    BY EditAt, IdleFacts DEF Steps
  <2>3. QED
    BY <1>0, <1>1, <2>1, <2>2 DEF Begin, Goes
<1>2. ASSUME NEW q \in Run, Step(q), UNCHANGED alone PROVE run'[r].new = issued'
  <2>1. Kept
    BY <1>2 DEF Kept
  <2>2. PICK n : Goes(q, n) /\ Saves(run[q], n, issued')
    BY <1>2, <2>1, StepSaves
  <2>3. run[q].at # "idle"
    BY <1>2, <2>1, StepSaves
  <2>4. CASE q = r
    BY <1>0, <2>2, <2>4 DEF Goes, Saves
  <2>5. CASE q # r
    <3>1. run[r].at = "idle"
      BY <2>1, <2>3, <2>5 DEF IInv, Alone, Single, Kept
    <3>2. run'[r] = run[r]
      BY <1>0, <2>2, <2>5 DEF Goes
    <3>3. QED
      BY <3>1, <3>2
  <2>6. QED
    BY <2>4, <2>5
<1>3. CASE UNCHANGED <<run, alone, issued>>
  BY <1>3 DEF Newest, Kept
<1>4. CASE UNCHANGED vars
  BY <1>3, <1>4 DEF vars, server
<1>5. ASSUME NEW n \in Issued, Expire(n) \/ RefreshExpires(n) PROVE run'[r].new = issued'
  BY <1>3, <1>5 DEF Expire, RefreshExpires
<1>6. QED
  BY <1>1, <1>2, <1>4, <1>5 DEF Next

\* What the next run finds in a file.
SavedIn(p, d, k) ==
  IF p # NoInode /\ \E n \in 1 .. k : d[p] = Bytes(n)
  THEN CHOOSE n \in 1 .. k : d[p] = Bytes(n)
  ELSE 0

LEMMA SavedOne ==
  ASSUME NEW p, p # NoInode, NEW d, NEW k \in Nat, NEW m \in 1 .. k, d[p] = Bytes(m)
  PROVE  SavedIn(p, d, k) = m
<1>1. \A n \in 1 .. k : Bytes(n)[1] = n
  BY BytesFacts
<1>2. \A n \in 1 .. k : d[p] = Bytes(n) <=> n = m
  BY <1>1
<1>3. (CHOOSE n \in 1 .. k : d[p] = Bytes(n)) = m
  BY <1>2
<1>4. QED
  BY <1>2, <1>3 DEF SavedIn

AbsCell == IF alone /\ Longer = {} THEN Saved ELSE 0

LEMMA AbsCellIs ==
  /\ AbsCell = IF Kept THEN SavedIn(path, data, issued) ELSE 0
  /\ AbsCell' = IF Kept' THEN SavedIn(path', data', issued') ELSE 0
BY DEF AbsCell, Kept, Saved, SavedIn, Holds, Issued

\* The cell is one of the tokens that were issued.
LEMMA CellIssued ==
  ASSUME IInv
  PROVE  AbsCell \in 0 .. issued /\ issued \in Nat
<1>1. issued \in Nat
  BY DEF IInv, Typed, Issues
<1>2. QED
  BY <1>1, AbsCellIs DEF SavedIn

LEMMA UnseenCell ==
  ASSUME IInv, Kept, alone' = alone, Unseen, issued' \in {issued, issued + 1}
  PROVE  AbsCell' = AbsCell
<1>1. Kept' /\ Longer = {}
  BY DEF Kept
<1>2. issued \in Nat /\ issued' \in Nat /\ 1 .. issued \subseteq 1 .. issued'
  BY DEF IInv, Typed, Issues
<1>3. CASE path = NoInode
  BY <1>1, <1>3, AbsCellIs DEF SavedIn, Unseen
<1>4. CASE path # NoInode
  <2>1. PICK m \in 1 .. issued : data[path] = Bytes(m)
    BY <1>4 DEF IInv, Alone, Named, Kept
  <2>2. path' = path /\ data'[path'] = Bytes(m) /\ m \in 1 .. issued'
    BY <1>2, <1>4, <2>1 DEF Unseen
  <2>3. SavedIn(path, data, issued) = m
    BY <1>1, <1>2, <1>4, <2>1, SavedOne
  <2>4. SavedIn(path', data', issued') = m
    BY <1>1, <1>2, <1>4, <2>2, SavedOne
  <2>5. QED
    BY <1>1, <2>3, <2>4, AbsCellIs
<1>5. QED
  BY <1>3, <1>4

LEMMA CellSteps ==
  ASSUME IInv, Newest, [Next]_vars
  PROVE  [Cell!Next]_(Cell!cellVars)
<1>0. issued \in Nat /\ AbsCell \in 0 .. issued
  BY CellIssued
<1>1. ASSUME AbsCell' = AbsCell, Kept' = Kept, issued' = issued
      PROVE  [Cell!Next]_(Cell!cellVars)
  BY <1>1 DEF Cell!cellVars, AbsCell, Kept
<1>2. ASSUME AbsCell' = AbsCell, Kept' = Kept, issued < MaxTokens, issued' = issued + 1
      PROVE  [Cell!Next]_(Cell!cellVars)
  BY <1>2 DEF Cell!Next, Cell!Issue, AbsCell, Kept
<1>3. ASSUME Kept, Kept', AbsCell' = issued, issued' = issued
      PROVE  [Cell!Next]_(Cell!cellVars)
  <2>1. CASE AbsCell = issued
    BY <1>1, <1>3, <2>1
  <2>2. CASE AbsCell < issued
    BY <1>3, <2>2 DEF Cell!Next, Cell!Save, AbsCell, Kept
  <2>3. QED
    BY <1>0, <2>1, <2>2
<1>4. ASSUME Kept, ~ Kept', issued' = issued
      PROVE  [Cell!Next]_(Cell!cellVars)
  <2>1. AbsCell' = 0
    BY <1>4, AbsCellIs
  <2>2. QED
    BY <1>4, <2>1 DEF Cell!Next, Cell!Overlap, AbsCell, Kept
<1>5. ASSUME ~ Kept, ~ Kept' PROVE AbsCell' = AbsCell /\ Kept' = Kept
  <2>1. AbsCell = 0 /\ AbsCell' = 0
    BY <1>5, AbsCellIs
  <2>2. Kept' = Kept
    BY <1>5 DEF Kept
  <2>3. QED
    BY <2>1, <2>2
<1>6. ASSUME NEW r \in Run, Begin(r) PROVE [Cell!Next]_(Cell!cellVars)
  <2>1. /\ path' = path /\ data' = data /\ issued' = issued
        /\ alone' => alone
    BY <1>6 DEF Begin, files, server
  <2>2. CASE Kept /\ Kept'
    <3>1. AbsCell' = AbsCell
      BY <2>1, <2>2, AbsCellIs
    <3>2. QED
      BY <1>1, <2>1, <2>2, <3>1
  <2>3. CASE Kept /\ ~ Kept'
    BY <1>4, <2>1, <2>3
  <2>4. CASE ~ Kept
    <3>1. ~ Kept'
      BY <2>1, <2>4 DEF Kept
    <3>2. QED
      BY <1>1, <1>5, <2>1, <2>4, <3>1
  <2>5. QED
    BY <2>2, <2>3, <2>4
<1>7. ASSUME NEW r \in Run, Step(r), UNCHANGED alone PROVE [Cell!Next]_(Cell!cellVars)
  <2>1. Kept' = Kept
    BY <1>7 DEF Kept
  <2>2. CASE Kept
    <3>1. /\ issued' = issued \/ (issued < MaxTokens /\ issued' = issued + 1)
          /\ Unseen \/ Visible(r)
      BY <1>7, <2>2, StepSaves
    <3>2. CASE Unseen
      <4>1. AbsCell' = AbsCell
        BY <1>7, <2>2, <3>1, <3>2, UnseenCell
      <4>2. QED
        BY <1>1, <1>2, <2>1, <3>1, <4>1
    <3>3. CASE Visible(r)
      <4>1. issued' = issued /\ path' # NoInode /\ data'[path'] = Bytes(issued) /\ Longer = {}
        BY <2>2, <3>3 DEF Visible, Kept
      <4>2. issued >= 1
        <5>1. IInv'
          BY <1>7, StepKeeps
        <5>2. PICK m \in 1 .. issued : data'[path'] = Bytes(m)
          BY <2>1, <2>2, <4>1, <5>1 DEF IInv, Alone, Named, Kept
        <5>3. QED
          BY <1>0, <5>2
      <4>3. SavedIn(path', data', issued') = issued
        BY <1>0, <4>1, <4>2, SavedOne
      <4>4. QED
        BY <1>3, <2>1, <2>2, <4>1, <4>3, AbsCellIs
    <3>4. QED
      BY <3>1, <3>2, <3>3
  <2>3. CASE ~ Kept
    <3>1. issued' = issued \/ (issued < MaxTokens /\ issued' = issued + 1)
      BY <1>0, <1>7, TokenAssumption
      DEF Step, Read, Decide, Ask, Login, OpenSwap, WriteSwap, WriteFails, Rename,
          TokenCached, Refresh, RefreshLost, Done, Ends, Rotates, Issue, server
    <3>2. QED
      BY <1>1, <1>2, <1>5, <2>1, <2>3, <3>1
  <2>4. QED
    BY <2>2, <2>3
<1>8. CASE UNCHANGED <<path, data, issued, alone>>
  <2>1. AbsCell' = AbsCell /\ Kept' = Kept
    BY <1>8, AbsCellIs DEF Kept
  <2>2. QED
    BY <1>1, <1>8, <2>1
<1>9. ASSUME NEW n \in Issued, Expire(n) \/ RefreshExpires(n)
      PROVE  [Cell!Next]_(Cell!cellVars)
  BY <1>8, <1>9 DEF Expire, RefreshExpires, files
<1>10. CASE UNCHANGED vars
  BY <1>8, <1>10 DEF vars, files, server
<1>11. QED
  BY <1>6, <1>7, <1>9, <1>10 DEF Next

\* The token file is a cell that goes from one token to a newer one, at once, for runs that
\* do not overlap and tokens of one length: whatever is killed between OpenFile and Rename
\* (storage.go:54-74), and whatever swap file the last run left.
THEOREM FileIsCell == Spec => ImplementsCell
<1>1. Init => Newest
  BY IdleFacts DEF Init, Newest
<1>2. Init => Cell!Init
  BY DEF Init, Cell!Init, Saved
<1>3. Spec => [](IInv /\ Newest)
  BY <1>1, Invariant, NextNewest, PTL DEF Spec
<1>4. QED
  BY <1>2, <1>3, CellSteps, PTL DEF Spec, ImplementsCell, Cell!Spec
=============================================================================
