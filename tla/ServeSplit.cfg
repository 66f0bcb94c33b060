SPECIFICATION Spec
CONSTANTS
  Proc = {p1}
  Link = {l1}
  Site = {"site"}
  NoHost = NoHost
  SourceScheme = {"", "https"}
  Dest <- MCSite
  Subject = {s1}
  Missing = Missing
  Unreadable = Unreadable
  Nobody = Nobody
  Forged = Forged
INVARIANT RedirectDiscloses
CHECK_DEADLOCK TRUE
