\* Three threads of one CLI process, two keys: the lock orders them.
SPECIFICATION Spec
CONSTANTS
  t1 = t1
  t2 = t2
  t3 = t3
  p1 = p1
  p2 = p2
  Threads = {t1, t2, t3}
  Processes = {p1}
  ProcessOf <- OneProcess
  Keys = {k1, k2}
  Vals = {v1, v2}
  Absent = Absent
  NoCall = NoCall
  NoFile = NoFile
  Blank = Blank
  Torn = Torn
INVARIANTS
  TypeOK
  FileAlwaysParses
PROPERTY
  IsRowStore
