SPECIFICATION FairSpec
CONSTANTS
  Proc = {p1, p2}
  Link = {l1}
  Site = {"site"}
  NoHost = NoHost
  SourceScheme = {""}
  Dest <- MCPath
  Subject = {s1}
  Missing = Missing
  Unreadable = Unreadable
  Nobody = Nobody
  Forged = Forged
INVARIANTS
  TypeOK
  AuthProtects
  ResolveWorks
  YamlStoresAgree
PROPERTY StartEnds
CHECK_DEADLOCK TRUE
