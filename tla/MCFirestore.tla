---------------------------- MODULE MCFirestore ----------------------------
(***************************************************************************)
(* A destination with a scheme and one without, which is followed with the  *)
(* scheme of the URL that is asked for: none by the redirect, https by      *)
(* `@ resolve`.                                                             *)
(***************************************************************************)
EXTENDS Firestore

MCScheme == {"", "https"}

MCDest == {"//site", "https://site"}

MCResolveReference(scheme, to) ==
  IF scheme = "https" /\ to = "//site" THEN "https://site" ELSE to
=============================================================================
