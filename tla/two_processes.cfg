\* Two CLI processes share the storage directory: nothing orders their upserts.
SPECIFICATION Spec
CONSTANTS
  t1 = t1
  t2 = t2
  t3 = t3
  p1 = p1
  p2 = p2
  Threads = {t1, t2}
  Processes = {p1, p2}
  ProcessOf <- TwoProcesses
  Keys = {k1, k2}
  Vals = {v1, v2}
  Absent = Absent
  NoCall = NoCall
  NoFile = NoFile
  Blank = Blank
  Torn = Torn
INVARIANT
  FileAlwaysParses
