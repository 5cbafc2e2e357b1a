----------------------------- MODULE McpClient -----------------------------
(***************************************************************************)
(* The client end of the MCP server's standard streams: _SubprocessMcp-    *)
(* Client of lib/mandated_mcp_bridge.py, and connect and close of the      *)
(* bridge around it.                                                       *)
(*                                                                         *)
(* The server is a subprocess.  Requests carry a number and are made one   *)
(* at a time; the answer is looked for in a byte stream that holds, in     *)
(* either of two framings, answers, notifications and whatever else the    *)
(* server prints.  The stream is a sequence of symbols: ends of lines,     *)
(* length headers and the two halves of a message.  A length counts        *)
(* symbols.  Chunks end between any two symbols.                           *)
(*                                                                         *)
(* The server is external: it answers in any order, late or never,         *)
(* notifies, prints, and exits between or within messages.                 *)
(***************************************************************************)
EXTENDS Naturals, Sequences, FiniteSets

CONSTANTS
  MaxCalls,    \* bound: requests of one connection (initialize, tools/list, tool calls)
  MaxAsides,   \* bound: what the server says unasked, notifications and noise
  NoMsg

ASSUME McpAssumption == MaxCalls \in Nat \ {0} /\ MaxAsides \in Nat

(* A message with number 0 is a notification.  "hollow" is a result        *)
(* without the part its request needs: tools, structuredContent.           *)
Messages == [id : 0..MaxCalls, kind : {"result", "hollow", "error"}]

ASSUME NoMsgAssumption == NoMsg \notin Messages

Symbol(s, m, n) == [sym |-> s, msg |-> m, len |-> n]
NewLine == Symbol("newline", NoMsg, 0)
Noise == Symbol("noise", NoMsg, 0)
LengthIs(n) == Symbol("length", NoMsg, n)
Half(m, i) == Symbol("half", m, i)

VARIABLES
  stage,     \* what the client is doing
  server,    \* the subprocess
  stderr,    \* the task that reads its standard error
  inbox,     \* requests the server has read and not answered
  emitted,   \* messages it has written, in order
  pipe,      \* symbols written and not read
  spoiled,   \* has the server written anything that is no whole message
  calls,     \* per request: pending, answered, failed
  reader,    \* where _read_message is: none, line, headers, body
  buffer,    \* _stdout_buffer
  length,    \* Content-Length read so far, 0 for none
  body,      \* what _read_stdout_exactly has
  heard      \* messages read, in order

framing == <<reader, buffer, length, body, heard>>
vars == <<stage, server, stderr, inbox, emitted, pipe, spoiled, calls, framing>>

Stages == {"off", "starting", "notify", "listing", "ready", "calling",
           "closing", "terminating", "draining", "closed"}
Symbols == [sym : {"newline", "noise", "length", "half"},
            msg : Messages \cup {NoMsg}, len : 0..3]

TypeOK ==
  /\ stage \in Stages
  /\ server \in {"absent", "running", "exited"}
  /\ stderr \in {"none", "running", "ended", "raised"}
  /\ inbox \subseteq 1..MaxCalls
  /\ emitted \in Seq(Messages) /\ heard \in Seq(Messages)
  /\ pipe \in Seq(Symbols) /\ buffer \in Seq(Symbols) /\ body \in Seq(Symbols)
  /\ spoiled \in BOOLEAN
  /\ calls \in Seq({"pending", "answered", "failed"}) /\ Len(calls) <= MaxCalls
  /\ reader \in {"none", "line", "headers", "body"}
  /\ length \in 0..3 /\ (reader = "body" => Len(body) <= length)

Init ==
  /\ stage = "off" /\ server = "absent" /\ stderr = "none"
  /\ inbox = {} /\ emitted = <<>> /\ pipe = <<>> /\ spoiled = FALSE
  /\ calls = <<>> /\ reader = "none"
  /\ buffer = <<>> /\ length = 0 /\ body = <<>> /\ heard = <<>>

-----------------------------------------------------------------------------
(* The server.                                                             *)

(* One line of JSON, or headers, a blank line and a body, which may itself *)
(* hold ends of lines.                                                     *)
Framings(m) ==
  { <<Half(m, 1), Half(m, 2), NewLine>>,
    <<LengthIs(3), NewLine, NewLine, Half(m, 1), NewLine, Half(m, 2)>> }

Says(m) ==
  /\ server = "running"
  /\ emitted' = Append(emitted, m)
  /\ \E text \in Framings(m) : pipe' = pipe \o text
  /\ UNCHANGED <<stage, server, stderr, spoiled, calls, framing>>

Answers(k) ==
  /\ k \in inbox
  /\ inbox' = inbox \ {k}
  /\ \E kind \in {"result", "hollow", "error"} : Says([id |-> k, kind |-> kind])

Asides == Cardinality({i \in 1..Len(emitted) : emitted[i].id = 0}) + (IF spoiled THEN 1 ELSE 0)

Notifies ==
  /\ Asides < MaxAsides
  /\ inbox' = inbox
  /\ Says([id |-> 0, kind |-> "result"])

(* A line that is not JSON, alone or among headers, or a length too short. *)
Garbage ==
  { <<Noise, NewLine>>,
    <<LengthIs(3), NewLine, Noise, NewLine>>,
    <<LengthIs(2), NewLine, NewLine, Noise, NewLine, Noise>> }

Prints ==
  /\ server = "running" /\ ~spoiled /\ Asides < MaxAsides
  /\ \E text \in Garbage : pipe' = pipe \o text
  /\ spoiled' = TRUE
  /\ UNCHANGED <<stage, server, stderr, inbox, emitted, calls, framing>>

ExitsMidway ==
  /\ server = "running"
  /\ server' = "exited"
  /\ \E k \in inbox : \E text \in Framings([id |-> k, kind |-> "result"]) :
       \E n \in 1..(Len(text) - 2) : pipe' = pipe \o SubSeq(text, 1, n)
  /\ spoiled' = TRUE
  /\ UNCHANGED <<stage, stderr, inbox, emitted, calls, framing>>

Exits ==
  /\ server = "running"
  /\ server' = "exited"
  /\ UNCHANGED <<stage, stderr, inbox, emitted, pipe, spoiled, calls, framing>>

(* A server that owes an answer gives it or goes. *)
Serves == inbox # {} /\ (Exits \/ ExitsMidway \/ \E k \in inbox : Answers(k))

Server == Notifies \/ Prints \/ Exits \/ Serves

-----------------------------------------------------------------------------
(* Making a request.                                                       *)

Current == Len(calls)
AtEnd == server = "exited" /\ pipe = <<>>
FailStage == IF stage \in {"ready", "calling"} THEN "ready" ELSE "closing"

(* start: the subprocess, the stderr task, and the initialize request. *)
Connect ==
  /\ stage = "off"
  /\ stage' = "starting" /\ server' = "running" /\ stderr' = "running"
  /\ calls' = <<"pending">> /\ inbox' = {1} /\ reader' = "line"
  /\ UNCHANGED <<emitted, pipe, spoiled, buffer, length, body, heard>>

ConnectRaises ==
  /\ stage = "off"
  /\ stage' = "closed"
  /\ UNCHANGED <<server, stderr, inbox, emitted, pipe, spoiled, calls, framing>>

(* A server that has gone is noticed at the write or at the next read. *)
Request(next) ==
  /\ Current < MaxCalls
  /\ \/ /\ stage' = next
        /\ calls' = Append(calls, "pending")
        /\ inbox' = IF server = "running" THEN inbox \cup {Current + 1} ELSE inbox
        /\ reader' = "line"
     \/ /\ server = "exited"
        /\ stage' = FailStage
        /\ calls' = Append(calls, "failed")
        /\ UNCHANGED <<inbox, reader>>
  /\ UNCHANGED <<server, stderr, emitted, pipe, spoiled, buffer, length, body, heard>>

ListTools == stage = "notify" /\ Request("listing")
CallTool == stage = "ready" /\ Request("calling")

NotifyRaises ==
  /\ stage = "notify" /\ server = "exited"
  /\ stage' = "closing"
  /\ UNCHANGED <<server, stderr, inbox, emitted, pipe, spoiled, calls, framing>>

-----------------------------------------------------------------------------
(* Reading the answer.                                                     *)

Fail ==
  /\ reader' = "none"
  /\ calls' = [calls EXCEPT ![Current] = "failed"]
  /\ stage' = FailStage

NextStage == IF stage = "starting" THEN "notify" ELSE "ready"

(* The result lacks what the request is for; initialize does not look. *)
Unusable(m) == m.kind = "error" \/ (m.kind = "hollow" /\ stage # "starting")

ReceiveAny(m) ==
  \/ /\ ~Unusable(m)
     /\ reader' = "none"
     /\ calls' = [calls EXCEPT ![Current] = "answered"]
     /\ stage' = NextStage
  \/ Unusable(m) /\ Fail

Receive(m) ==
  \/ /\ m.id # Current
     /\ reader' = "line"
     /\ UNCHANGED <<stage, calls>>
  \/ /\ m.id = Current /\ ~Unusable(m)
     /\ reader' = "none"
     /\ calls' = [calls EXCEPT ![Current] = "answered"]
     /\ stage' = NextStage
  \/ m.id = Current /\ Unusable(m) /\ Fail

(* A whole message, with or without an end of line in it. *)
IsText(text, m) ==
  text \in {<<Half(m, 1), Half(m, 2)>>, <<Half(m, 1), NewLine, Half(m, 2)>>}

(* json.loads, and what request does with what it gives. *)
Deliver(text) ==
  \/ \E m \in Messages :
       /\ IsText(text, m)
       /\ heard' = Append(heard, m)
       /\ Receive(m)
  \/ /\ ~\E m \in Messages : IsText(text, m)
     /\ heard' = heard
     /\ Fail

(* The first line of the buffer and what follows it; when no more will     *)
(* come, all of the buffer.                                                *)
LineEnds == {i \in 1..Len(buffer) : buffer[i] = NewLine}
Terminated == LineEnds # {}
FirstLine ==
  {[text |-> SubSeq(buffer, 1, i - 1), rest |-> SubSeq(buffer, i + 1, Len(buffer))] :
      i \in {k \in LineEnds : \A j \in LineEnds : k <= j}}
Lines ==
  IF reader \notin {"line", "headers"} THEN {}
  ELSE IF Terminated THEN FirstLine
  ELSE IF AtEnd THEN {[text |-> buffer, rest |-> <<>>]} ELSE {}
StreamEnded == buffer = <<>> /\ AtEnd

FillBuffer ==
  /\ reader \in {"line", "headers"} /\ ~Terminated
  /\ \E n \in 1..Len(pipe) :
       /\ buffer' = buffer \o SubSeq(pipe, 1, n)
       /\ pipe' = SubSeq(pipe, n + 1, Len(pipe))
  /\ UNCHANGED <<stage, server, stderr, inbox, emitted, spoiled, calls,
                 reader, length, body, heard>>

NothingMoreRetries == Lines # {} /\ StreamEnded /\ UNCHANGED vars

NothingMore ==
  /\ Lines # {} /\ StreamEnded
  /\ Fail
  /\ UNCHANGED <<server, stderr, inbox, emitted, pipe, spoiled, buffer, length, body, heard>>

HeaderLine ==
  /\ \E line \in Lines :
       /\ line.text # <<>> /\ Head(line.text).sym = "length"
       /\ length' = Head(line.text).len
       /\ buffer' = line.rest
  /\ reader' = "headers"
  /\ UNCHANGED <<stage, server, stderr, inbox, emitted, pipe, spoiled, calls, body, heard>>

BadHeader ==
  /\ reader = "headers"
  /\ \E line \in Lines :
       /\ line.text # <<>> /\ Head(line.text).sym = "noise"
       /\ buffer' = line.rest
  /\ Fail
  /\ UNCHANGED <<server, stderr, inbox, emitted, pipe, spoiled, length, body, heard>>

(* The blank line: what the buffer holds of the body is taken at once. *)
BlankLineKeepsBuffer ==
  /\ reader = "headers" /\ ~StreamEnded
  /\ \E line \in Lines : line.text = <<>> /\ buffer' = line.rest
  /\ body' = <<>>
  /\ reader' = "body"
  /\ UNCHANGED <<stage, server, stderr, inbox, emitted, pipe, spoiled, calls, length, heard>>

BlankLineTakesAll ==
  /\ reader = "headers" /\ ~StreamEnded
  /\ \E line \in Lines : line.text = <<>> /\ body' = line.rest
  /\ buffer' = <<>>
  /\ reader' = "body"
  /\ UNCHANGED <<stage, server, stderr, inbox, emitted, pipe, spoiled, calls, length, heard>>

BlankLine ==
  /\ reader = "headers" /\ ~StreamEnded
  /\ \E line \in Lines : \E n \in {length, Len(line.rest)} :
       /\ line.text = <<>>
       /\ n <= length /\ n <= Len(line.rest)
       /\ body' = SubSeq(line.rest, 1, n)
       /\ buffer' = SubSeq(line.rest, n + 1, Len(line.rest))
  /\ reader' = "body"
  /\ UNCHANGED <<stage, server, stderr, inbox, emitted, pipe, spoiled, calls, length, heard>>

MessageLine ==
  /\ reader = "line" /\ ~StreamEnded
  /\ \E line \in Lines :
       /\ line.text = <<>> \/ Head(line.text).sym # "length"
       /\ buffer' = line.rest
       /\ Deliver(line.text)
  /\ UNCHANGED <<server, stderr, inbox, emitted, pipe, spoiled, length, body>>

BodyChunk ==
  /\ reader = "body"
  /\ \E n \in 1..Len(pipe) :
       /\ n <= length - Len(body)
       /\ body' = body \o SubSeq(pipe, 1, n)
       /\ pipe' = SubSeq(pipe, n + 1, Len(pipe))
  /\ UNCHANGED <<stage, server, stderr, inbox, emitted, spoiled, calls,
                 reader, buffer, length, heard>>

BodyCutShort ==
  /\ reader = "body" /\ Len(body) < length /\ AtEnd
  /\ Fail
  /\ UNCHANGED <<server, stderr, inbox, emitted, pipe, spoiled, buffer, length, body, heard>>

BodyDone ==
  /\ reader = "body" /\ Len(body) = length
  /\ Deliver(body)
  /\ UNCHANGED <<server, stderr, inbox, emitted, pipe, spoiled, buffer, length, body>>

Read == \/ FillBuffer \/ NothingMore \/ HeaderLine \/ BadHeader \/ BlankLine
        \/ MessageLine \/ BodyChunk \/ BodyCutShort \/ BodyDone

-----------------------------------------------------------------------------
(* Closing: a second for the server to go by itself, a second after        *)
(* terminate, then kill; then the stderr task is cancelled and awaited.    *)

BeginClose ==
  /\ stage = "ready"
  /\ stage' = "closing"
  /\ UNCHANGED <<server, stderr, inbox, emitted, pipe, spoiled, calls, framing>>

ServerGone ==
  /\ stage \in {"closing", "terminating"} /\ server = "exited"
  /\ stage' = "draining"
  /\ UNCHANGED <<server, stderr, inbox, emitted, pipe, spoiled, calls, framing>>

TerminateWaits == stage = "closing" /\ server = "running" /\ UNCHANGED vars

Terminate ==
  /\ stage = "closing" /\ server = "running"
  /\ stage' = "terminating"
  /\ UNCHANGED <<server, stderr, inbox, emitted, pipe, spoiled, calls, framing>>

KillSkipped ==
  /\ stage = "terminating" /\ server = "running"
  /\ stage' = "draining"
  /\ UNCHANGED <<server, stderr, inbox, emitted, pipe, spoiled, calls, framing>>

Kill ==
  /\ stage = "terminating" /\ server = "running"
  /\ server' = "exited"
  /\ stage' = "draining"
  /\ UNCHANGED <<stderr, inbox, emitted, pipe, spoiled, calls, framing>>

(* Awaiting a task that raised raises, and ends close there. *)
Drained ==
  /\ stage = "draining"
  /\ stage' = "closed"
  /\ stderr' = IF stderr = "raised" THEN "raised" ELSE "none"
  /\ UNCHANGED <<server, inbox, emitted, pipe, spoiled, calls, framing>>

Shut == ServerGone \/ Terminate \/ Kill \/ Drained

(* The task that reads standard error: to the end, or until a line is      *)
(* longer than the stream's limit.                                         *)
StderrEnds ==
  /\ stderr = "running"
  /\ \/ server = "exited" /\ stderr' = "ended"
     \/ server = "running" /\ stderr' = "raised"
  /\ UNCHANGED <<stage, server, inbox, emitted, pipe, spoiled, calls, framing>>

Client == Connect \/ ConnectRaises \/ ListTools \/ NotifyRaises \/ CallTool
          \/ Read \/ BeginClose \/ Shut \/ StderrEnds

Next == Client \/ Server
Spec == Init /\ [][Next]_vars

(* A server that owes an answer does not stay silent for ever: the client  *)
(* has no timeout of its own.                                              *)
FairSpec ==
  /\ Spec
  /\ WF_vars(ListTools \/ NotifyRaises) /\ WF_vars(Read) /\ WF_vars(Shut)
  /\ WF_vars(Serves)

-----------------------------------------------------------------------------
(* Every request ends once, and is answered only by a message of its own   *)
(* number; the connection is over only when the server process is gone.    *)
Bridge == INSTANCE McpCall WITH
  over <- stage = "closed",
  alive <- server = "running",
  told <- {emitted[i] : i \in 1..Len(emitted)}

IsMcpCall == Bridge!Spec

(* As long as the server writes messages only, and whatever the chunks and *)
(* the framing: the messages read are the messages written, in order, none *)
(* is left out, and a request fails only because the server has gone or    *)
(* answered it with an error or an unusable result.                        *)
FramingReassembles ==
  ~spoiled =>
    /\ Len(heard) <= Len(emitted) /\ heard = SubSeq(emitted, 1, Len(heard))
    /\ pipe = <<>> /\ buffer = <<>> /\ reader \in {"none", "line"} => heard = emitted
    /\ \A k \in 1..Len(calls) : calls[k] = "failed" =>
         \/ server = "exited"
         \/ \E i \in 1..Len(heard) : heard[i].id = k /\ heard[i].kind # "result"

(* After close no server process runs and no task reads its output. *)
NothingSurvivesClose ==
  stage = "closed" => server # "running" /\ stderr # "running"

(* Every request ends: with its answer, or because the server went or      *)
(* wrote what is no message.                                               *)
CallsReturn == (reader # "none") ~> (reader = "none")

(* A failed start, and a close, ends with everything shut. *)
CloseEnds == (stage = "closing") ~> (stage = "closed")
=============================================================================
