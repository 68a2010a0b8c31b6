\* As many creates as connections.
CONSTANTS
  Conns = {c1, c2}
  Tasks = {t1, t2}
  Creators = {t1, t2}
  None = None
SPECIFICATION FairSpec
PROPERTY Answered
