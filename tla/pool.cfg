\* One create and two other requests on two connections.
CONSTANTS
  Conns = {c1, c2}
  Tasks = {t1, t2, t3}
  Creators = {t1}
  None = None
SPECIFICATION FairSpec
INVARIANTS TypeOK SomeoneCanGoOn
PROPERTIES Answered 
