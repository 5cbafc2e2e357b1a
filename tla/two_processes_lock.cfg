\* Two CLI processes collide on one storage directory: a rename raises.
SPECIFICATION FairSpec
CONSTANTS
  t1 = t1
  t2 = t2
  t3 = t3
  p1 = p1
  p2 = p2
  Threads = {t1, t2, t3}
  Processes = {p1, p2}
  ProcessOf <- PairAndOne
  Keys = {k1}
  Vals = {v1}
  Absent = Absent
  NoCall = NoCall
  NoFile = NoFile
  Blank = Blank
  Torn = Torn
PROPERTY
  LockIsReleased
