--------------------------- MODULE MCJsonRowStore ---------------------------
(* Small instances of JsonRowStore: three threads of one process, two      *)
(* processes of one thread each, and a process of two beside one of one.   *)
EXTENDS JsonRowStore, TLC

CONSTANTS t1, t2, t3, p1, p2

OneProcess == [t \in {t1, t2, t3} |-> p1]
TwoProcesses == t1 :> p1 @@ t2 :> p2
PairAndOne == t1 :> p1 @@ t2 :> p1 @@ t3 :> p2
=============================================================================
