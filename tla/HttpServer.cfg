SPECIFICATION FairSpec
CONSTANTS
  Stream = {s1, s2, s3}
  Host = {"api"}
  ApiHost = {"", "api", "www"}
INVARIANTS
  TypeOK
  StartsUp
  AnsweredOnce
  TellsTheTruth
  RPCsApart
PROPERTIES
  Answered
  WalkEnds
  ImplementsResponder
