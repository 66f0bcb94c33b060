SPECIFICATION Spec
CONSTANTS
  Stream = {s1, s2}
  Host = {"api"}
  ApiHost = {"", "api", "www"}
INVARIANTS
  GetsLookedUp
