--------------------------- MODULE MCLinkService ---------------------------
(***************************************************************************)
(* Two users ask for /a, for a generated path, which may be /a too, or for  *)
(* the path ., which is no document.  The domain is one character long.     *)
(***************************************************************************)
EXTENDS LinkService, TLC

CONSTANTS alice, bob

MCAgent == {alice, bob}

MCDest == MCAgent \X (1 .. MaxTries)

\* `@` only creates links.
MCResolveReference(scheme, to) == to

MCDomain == <<"x40.link">>

MCOn == [host : {<< >>}, path : {<< >>, <<".">>, <<"/", "a">>}]

MCId == {<<"a">>, <<"b">>}

MCDoc == {<< <<"links">>, Domain, <<"id">>, <<"+", x>> >> : x \in {"a", "b"}}

\* Nothing tells handlers apart, nor users, and every property is one of safety.
Symmetry == Permutations(Handler) \cup Permutations(MCAgent)
=============================================================================
