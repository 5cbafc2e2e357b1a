------------------------------ MODULE McpCall ------------------------------
(***************************************************************************)
(* What users of the MCP bridge (lib/mandated_mcp_bridge.py) rely on.      *)
(* Requests are numbered in the order they are made and made one at a      *)
(* time.  Each is pending, then answered or failed, and that once; it is   *)
(* answered only if the server said something with its number.  A server   *)
(* process that was started has ended when the connection is over.         *)
(***************************************************************************)
EXTENDS Naturals, Sequences

CONSTANT Messages   \* what a server can say: a number and whether it is an error

VARIABLES
  over,    \* has the connection come to its end
  alive,   \* does a server process run
  calls,   \* per request: pending, answered, failed
  told     \* what the server has said

vars == <<over, alive, calls, told>>

Idle == \A k \in 1..Len(calls) : calls[k] # "pending"

Init ==
  /\ over = FALSE
  /\ alive = FALSE
  /\ calls = <<>>
  /\ told = {}

Connect ==
  /\ ~over /\ calls = <<>>
  /\ alive' = TRUE
  /\ calls' = <<"pending">>
  /\ UNCHANGED <<over, told>>

Call ==
  /\ ~over /\ Idle
  /\ calls' \in {Append(calls, "pending"), Append(calls, "failed")}
  /\ UNCHANGED <<over, alive, told>>

ServerSays(m) ==
  /\ alive
  /\ told' = told \cup {m}
  /\ UNCHANGED <<over, alive, calls>>

ServerEnds ==
  /\ alive
  /\ alive' = FALSE
  /\ UNCHANGED <<over, calls, told>>

Answered(k) ==
  /\ calls[k] = "pending"
  /\ \E m \in told : m.id = k /\ m.kind # "error"
  /\ calls' = [calls EXCEPT ![k] = "answered"]
  /\ UNCHANGED <<over, alive, told>>

Failed(k) ==
  /\ calls[k] = "pending"
  /\ calls' = [calls EXCEPT ![k] = "failed"]
  /\ UNCHANGED <<over, alive, told>>

Close ==
  /\ ~over /\ ~alive /\ Idle
  /\ over' = TRUE
  /\ UNCHANGED <<alive, calls, told>>

Next ==
  \/ Connect \/ Call \/ ServerEnds \/ Close
  \/ \E m \in Messages : ServerSays(m)
  \/ \E k \in 1..Len(calls) : Answered(k) \/ Failed(k)

Spec == Init /\ [][Next]_vars
=============================================================================
