--------------------------- MODULE McpClient_proofs ---------------------------
(***************************************************************************)
(* Proofs about McpClient, for any number of requests and notifications:   *)
(* type correctness, that close leaves nothing running, that the client    *)
(* implements McpCall, and that it hears the server's messages whole and   *)
(* in order.                                                               *)
(***************************************************************************)
EXTENDS McpClient, SequenceTheorems, TLAPS

Said(es) == {es[i] : i \in 1..Len(es)}

(* The second half of a message is only ever read if it has been written. *)
Genuine(es) ==
  {s \in Symbols : s.sym = "half" /\ s.len = 2 => s.msg \in Said(es)}

TextInv ==
  /\ emitted \in Seq(Messages) /\ heard \in Seq(Messages)
  /\ pipe \in Seq(Genuine(emitted))
  /\ buffer \in Seq(Genuine(emitted))
  /\ body \in Seq(Genuine(emitted))
  /\ length \in 0..3 /\ (reader = "body" => Len(body) <= length)

Waiting == {"starting", "listing", "calling"}

(* Only the last request can be pending, and is while the client reads. *)
CallInv ==
  /\ stage \in Stages /\ inbox \subseteq 1..MaxCalls
  /\ calls \in Seq({"pending", "answered", "failed"}) /\ Len(calls) <= MaxCalls
  /\ reader \in {"none", "line", "headers", "body"}
  /\ reader # "none" <=> stage \in Waiting
  /\ reader # "none" => Len(calls) > 0
  /\ \A k \in 1..Len(calls) : calls[k] = "pending" <=> k = Len(calls) /\ reader # "none"
  /\ stage = "off" => calls = <<>>

LifeInv ==
  /\ server \in {"absent", "running", "exited"}
  /\ stderr \in {"none", "running", "ended", "raised"}
  /\ spoiled \in BOOLEAN
  /\ stage = "off" => server = "absent" /\ stderr = "none"
  /\ stage \in {"draining", "closed"} => server # "running"
  /\ stage = "closed" => stderr # "running"

IInv == TextInv /\ CallInv /\ LifeInv

-----------------------------------------------------------------------------
(* Sequences of symbols.                                                   *)

LEMMA PartOfSeq ==
  ASSUME NEW S, NEW s \in Seq(S), NEW m \in Nat \ {0}, NEW n \in Nat, n <= Len(s)
  PROVE  /\ SubSeq(s, m, n) \in Seq(S)
         /\ Len(SubSeq(s, m, n)) = IF m <= n THEN n - m + 1 ELSE 0
<1>1. \A i \in m..n : s[i] \in S
  BY ElementOfSeq
<1> QED BY <1>1, SubSeqProperties

LEMMA LinesAreParts ==
  ASSUME NEW S, buffer \in Seq(S), NEW line \in Lines
  PROVE  line.text \in Seq(S) /\ line.rest \in Seq(S)
<1>1. CASE line \in FirstLine
  <2>1. PICK i \in 1..Len(buffer) :
          line = [text |-> SubSeq(buffer, 1, i - 1), rest |-> SubSeq(buffer, i + 1, Len(buffer))]
    BY <1>1 DEF FirstLine, LineEnds
  <2>2. SubSeq(buffer, 1, i - 1) \in Seq(S) /\ SubSeq(buffer, i + 1, Len(buffer)) \in Seq(S)
    <3>1. Len(buffer) \in Nat /\ i - 1 \in Nat /\ i + 1 \in Nat \ {0}
      BY LenProperties
    <3> QED BY <3>1, PartOfSeq
  <2> QED BY <2>1, <2>2
<1>2. CASE line = [text |-> buffer, rest |-> <<>>]
  BY <1>2, EmptySeq
<1> QED BY <1>1, <1>2 DEF Lines

LEMMA SaidGrows ==
  ASSUME NEW es \in Seq(Messages), NEW m \in Messages
  PROVE  /\ Append(es, m) \in Seq(Messages)
         /\ Said(Append(es, m)) = Said(es) \cup {m}
         /\ Genuine(es) \subseteq Genuine(Append(es, m))
<1>1. Len(es) \in Nat
  BY LenProperties
<1>2. Said(Append(es, m)) = Said(es) \cup {m}
  BY <1>1, AppendProperties DEF Said
<1> QED BY <1>2, AppendProperties DEF Genuine

LEMMA PlainGenuine ==
  ASSUME NEW es
  PROVE  /\ NewLine \in Genuine(es) /\ Noise \in Genuine(es)
         /\ LengthIs(2) \in Genuine(es) /\ LengthIs(3) \in Genuine(es)
         /\ \A m \in Messages : Half(m, 1) \in Genuine(es)
         /\ \A m \in Said(es) \cap Messages : Half(m, 2) \in Genuine(es)
BY DEF Genuine, NewLine, Noise, LengthIs, Half, Symbol, Symbols

LEMMA Tuples ==
  ASSUME NEW S, NEW a \in S, NEW b \in S, NEW c \in S, NEW d \in S, NEW e \in S, NEW f \in S
  PROVE  /\ <<a, b>> \in Seq(S) /\ <<a, b, c>> \in Seq(S) /\ <<a, b, c, d>> \in Seq(S)
         /\ <<a, b, c, d, e, f>> \in Seq(S)
OBVIOUS

LEMMA FramingsGenuine ==
  ASSUME NEW es, NEW m \in Said(es) \cap Messages, NEW text \in Framings(m)
  PROVE  text \in Seq(Genuine(es))
<1>1. NewLine \in Genuine(es) /\ LengthIs(3) \in Genuine(es)
      /\ Half(m, 1) \in Genuine(es) /\ Half(m, 2) \in Genuine(es)
  BY PlainGenuine
<1>2. <<Half(m, 1), Half(m, 2), NewLine>> \in Seq(Genuine(es))
  BY <1>1, Tuples
<1>3. <<LengthIs(3), NewLine, NewLine, Half(m, 1), NewLine, Half(m, 2)>> \in Seq(Genuine(es))
  BY <1>1, Tuples
<1> QED BY <1>2, <1>3, Zenon DEF Framings

LEMMA GarbageGenuine ==
  ASSUME NEW es, NEW text \in Garbage
  PROVE  text \in Seq(Genuine(es))
<1>1. NewLine \in Genuine(es) /\ Noise \in Genuine(es)
      /\ LengthIs(2) \in Genuine(es) /\ LengthIs(3) \in Genuine(es)
  BY PlainGenuine
<1>2. <<Noise, NewLine>> \in Seq(Genuine(es))
  BY <1>1, Tuples
<1>3. <<LengthIs(3), NewLine, Noise, NewLine>> \in Seq(Genuine(es))
  BY <1>1, Tuples
<1>4. <<LengthIs(2), NewLine, NewLine, Noise, NewLine, Noise>> \in Seq(Genuine(es))
  BY <1>1, Tuples
<1> QED BY <1>2, <1>3, <1>4, Zenon DEF Garbage

LEMMA CutGenuine ==
  ASSUME NEW es, NEW m \in Messages, NEW text \in Framings(m),
         NEW n \in 1..(Len(text) - 2)
  PROVE  SubSeq(text, 1, n) \in Seq(Genuine(es))
<1>1. \A i \in 1..n : text[i] \in Genuine(es)
  <2>1. CASE text = <<Half(m, 1), Half(m, 2), NewLine>>
    BY <2>1, PlainGenuine
  <2>2. CASE text = <<LengthIs(3), NewLine, NewLine, Half(m, 1), NewLine, Half(m, 2)>>
    BY <2>2, PlainGenuine
  <2> QED BY <2>1, <2>2 DEF Framings
<1> QED BY <1>1, SubSeqProperties

-----------------------------------------------------------------------------
(* What a step of the reader may do to the request it reads for.           *)

Settles(m) ==
  /\ m \in Said(emitted) /\ m.id = Current /\ m.kind # "error"
  /\ reader' = "none"
  /\ calls' = [calls EXCEPT ![Current] = "answered"]
  /\ stage' = NextStage

ReadOutcome ==
  \/ UNCHANGED <<stage, calls>> /\ reader' \in {"line", "headers", "body"}
  \/ Fail
  \/ \E m \in Messages : Settles(m)

LEMMA TextIsSaid ==
  ASSUME NEW text \in Seq(Genuine(emitted)), NEW m \in Messages, IsText(text, m)
  PROVE  m \in Said(emitted)
<1>1. PICK i \in 1..Len(text) : text[i] = Half(m, 2)
  <2>1. CASE text = <<Half(m, 1), Half(m, 2)>>
    BY <2>1
  <2>2. CASE text = <<Half(m, 1), NewLine, Half(m, 2)>>
    BY <2>2
  <2> QED BY <2>1, <2>2 DEF IsText
<1>2. Half(m, 2) \in Genuine(emitted)
  BY <1>1, ElementOfSeq
<1> QED BY <1>2 DEF Genuine, Half, Symbol

LEMMA DeliverOutcome ==
  ASSUME NEW text \in Seq(Genuine(emitted)), heard \in Seq(Messages), Deliver(text)
  PROVE  ReadOutcome /\ heard' \in Seq(Messages) /\ reader' # "body"
<1>1. CASE heard' = heard /\ Fail
  BY <1>1 DEF ReadOutcome, Fail
<1>2. ASSUME NEW m \in Messages, IsText(text, m), heard' = Append(heard, m), Receive(m)
      PROVE  ReadOutcome /\ heard' \in Seq(Messages) /\ reader' # "body"
  <2>1. heard' \in Seq(Messages)
    BY <1>2, AppendProperties
  <2>2. m \in Said(emitted)
    BY <1>2, TextIsSaid
  <2>3. CASE reader' = "line" /\ UNCHANGED <<stage, calls>>
    BY <2>1, <2>3 DEF ReadOutcome
  <2>4. CASE /\ m.id = Current /\ ~Unusable(m)
             /\ reader' = "none"
             /\ calls' = [calls EXCEPT ![Current] = "answered"]
             /\ stage' = NextStage
    <3>1. m.kind # "error"
      BY <2>4 DEF Unusable
    <3>2. Settles(m)
      BY <2>2, <2>4, <3>1 DEF Settles
    <3> QED BY <2>1, <2>4, <3>2 DEF ReadOutcome
  <2>5. CASE Fail
    BY <2>1, <2>5 DEF ReadOutcome, Fail
  <2> QED BY <1>2, <2>3, <2>4, <2>5 DEF Receive
<1> QED BY <1>1, <1>2 DEF Deliver

(* A step of the reader, what it reads being genuine. *)
LEMMA ReadStep ==
  ASSUME TextInv, Read
  PROVE  /\ TextInv' /\ ReadOutcome /\ reader # "none"
         /\ UNCHANGED <<server, stderr, inbox, emitted, spoiled>>
<1> DEFINE G == Genuine(emitted)
<1>0. /\ pipe \in Seq(G) /\ buffer \in Seq(G) /\ body \in Seq(G) /\ heard \in Seq(Messages)
      /\ length \in 0..3 /\ emitted \in Seq(Messages)
      /\ reader = "body" => Len(body) <= length
      /\ Len(pipe) \in Nat /\ Len(buffer) \in Nat /\ Len(body) \in Nat
  BY LenProperties DEF TextInv
<1>1. \A line \in Lines : line.text \in Seq(G) /\ line.rest \in Seq(G)
  BY <1>0, LinesAreParts
<1>2. Lines # {} => reader \in {"line", "headers"}
  BY DEF Lines
<1>3. CASE FillBuffer
  <2>1. PICK n \in 1..Len(pipe) : /\ buffer' = buffer \o SubSeq(pipe, 1, n)
                                  /\ pipe' = SubSeq(pipe, n + 1, Len(pipe))
    BY <1>3 DEF FillBuffer
  <2>2. SubSeq(pipe, 1, n) \in Seq(G) /\ SubSeq(pipe, n + 1, Len(pipe)) \in Seq(G)
    BY <1>0, PartOfSeq
  <2>3. buffer' \in Seq(G) /\ pipe' \in Seq(G)
    BY <1>0, <2>1, <2>2, ConcatProperties
  <2> QED BY <1>0, <1>3, <2>3 DEF FillBuffer, TextInv, ReadOutcome
<1>4. CASE NothingMore
  BY <1>0, <1>2, <1>4 DEF NothingMore, TextInv, ReadOutcome, Fail
<1>5. CASE HeaderLine
  <2>1. PICK line \in Lines : /\ line.text # <<>> /\ length' = Head(line.text).len
                              /\ buffer' = line.rest
    BY <1>5 DEF HeaderLine
  <2>2. Head(line.text) \in G
    BY <1>1, <2>1, HeadTailProperties
  <2>3. length' \in 0..3
    BY <2>1, <2>2 DEF Genuine, Symbols
  <2> QED BY <1>0, <1>1, <1>2, <1>5, <2>1, <2>3 DEF HeaderLine, TextInv, ReadOutcome
<1>6. CASE BadHeader
  BY <1>0, <1>1, <1>2, <1>6 DEF BadHeader, TextInv, ReadOutcome, Fail
<1>7. CASE BlankLine
  <2>0. PICK line \in Lines : \E n \in {length, Len(line.rest)} :
          /\ n <= length /\ n <= Len(line.rest)
          /\ body' = SubSeq(line.rest, 1, n)
          /\ buffer' = SubSeq(line.rest, n + 1, Len(line.rest))
    BY <1>7 DEF BlankLine
  <2>1. PICK n \in {length, Len(line.rest)} :
          /\ n <= length /\ n <= Len(line.rest)
          /\ body' = SubSeq(line.rest, 1, n)
          /\ buffer' = SubSeq(line.rest, n + 1, Len(line.rest))
    BY <2>0
  <2>2. n \in Nat /\ Len(line.rest) \in Nat
    BY <1>0, <1>1, LenProperties
  <2>3. /\ SubSeq(line.rest, 1, n) \in Seq(G) /\ Len(SubSeq(line.rest, 1, n)) = n
        /\ SubSeq(line.rest, n + 1, Len(line.rest)) \in Seq(G)
    BY <1>1, <2>1, <2>2, PartOfSeq
  <2> QED BY <1>0, <1>2, <1>7, <2>1, <2>3 DEF BlankLine, TextInv, ReadOutcome
<1>8. CASE MessageLine
  <2>1. PICK line \in Lines : buffer' = line.rest /\ Deliver(line.text)
    BY <1>8 DEF MessageLine
  <2>2. ReadOutcome /\ heard' \in Seq(Messages) /\ reader' # "body"
    BY <1>0, <1>1, <2>1, DeliverOutcome
  <2> QED BY <1>0, <1>1, <1>2, <1>8, <2>1, <2>2 DEF MessageLine, TextInv
<1>9. CASE BodyChunk
  <2>1. PICK n \in 1..Len(pipe) : /\ n <= length - Len(body)
                                  /\ body' = body \o SubSeq(pipe, 1, n)
                                  /\ pipe' = SubSeq(pipe, n + 1, Len(pipe))
    BY <1>9 DEF BodyChunk
  <2>2. /\ SubSeq(pipe, 1, n) \in Seq(G) /\ Len(SubSeq(pipe, 1, n)) = n
        /\ SubSeq(pipe, n + 1, Len(pipe)) \in Seq(G)
    BY <1>0, PartOfSeq
  <2>3. body' \in Seq(G) /\ pipe' \in Seq(G) /\ Len(body') <= length
    BY <1>0, <2>1, <2>2, ConcatProperties
  <2> QED BY <1>0, <1>9, <2>3 DEF BodyChunk, TextInv, ReadOutcome
<1>10. CASE BodyCutShort
  BY <1>0, <1>10 DEF BodyCutShort, TextInv, ReadOutcome, Fail
<1>11. CASE BodyDone
  <2>1. ReadOutcome /\ heard' \in Seq(Messages) /\ reader' # "body"
    BY <1>0, <1>11, DeliverOutcome DEF BodyDone
  <2> QED BY <1>0, <1>11, <2>1 DEF BodyDone, TextInv
<1> QED
  BY <1>3, <1>4, <1>5, <1>6, <1>7, <1>8, <1>9, <1>10, <1>11 DEF Read

-----------------------------------------------------------------------------
(* The inductive invariant.                                                *)

LEMMA InitInv == Init => IInv
<1> SUFFICES ASSUME Init PROVE IInv
  OBVIOUS
<1>1. TextInv
  BY EmptySeq DEF Init, TextInv
<1>2. CallInv
  BY McpAssumption, EmptySeq DEF Init, CallInv, Stages, Waiting
<1>3. LifeInv
  BY DEF Init, LifeInv
<1> QED BY <1>1, <1>2, <1>3 DEF IInv

(* A request is added to requests that are all over. *)
LEMMA RequestKeeps ==
  ASSUME CallInv, stage \in {"notify", "ready"}, NEW next \in Waiting, Request(next)
  PROVE  CallInv' /\ stage' \notin {"off", "draining", "closed"}
<1> DEFINE S == {"pending", "answered", "failed"}
<1>0. /\ Len(calls) \in Nat /\ calls \in Seq(S) /\ reader = "none" /\ Len(calls) < MaxCalls
      /\ inbox \subseteq 1..MaxCalls
      /\ \A k \in 1..Len(calls) : calls[k] # "pending"
  BY LenProperties DEF CallInv, Waiting, Request, Current
<1>1. ASSUME NEW c \in S
      PROVE  /\ Append(calls, c) \in Seq(S) /\ Len(Append(calls, c)) = Len(calls) + 1
             /\ \A k \in 1..Len(calls) : Append(calls, c)[k] # "pending"
             /\ Append(calls, c)[Len(calls) + 1] = c
  BY <1>0, AppendProperties
<1>2. CASE /\ stage' = next /\ calls' = Append(calls, "pending") /\ reader' = "line"
           /\ inbox' = IF server = "running" THEN inbox \cup {Current + 1} ELSE inbox
  <2>1. inbox' \subseteq 1..MaxCalls
    <3>1. Current + 1 \in 1..MaxCalls
      BY <1>0, McpAssumption DEF Current
    <3>2. CASE server = "running"
      BY <1>0, <1>2, <3>1, <3>2
    <3>3. CASE server # "running"
      BY <1>0, <1>2, <3>3
    <3> QED BY <3>2, <3>3
  <2>2. /\ calls' \in Seq(S) /\ Len(calls') = Len(calls) + 1 /\ calls'[Len(calls')] = "pending"
        /\ \A k \in 1..Len(calls) : calls'[k] # "pending"
    BY <1>1, <1>2
  <2> QED BY <1>0, <1>2, <2>1, <2>2, McpAssumption DEF CallInv, Waiting, Stages
<1>3. CASE stage' = FailStage /\ calls' = Append(calls, "failed") /\ UNCHANGED <<inbox, reader>>
  <2>1. /\ calls' \in Seq(S) /\ Len(calls') = Len(calls) + 1 /\ calls'[Len(calls')] = "failed"
        /\ \A k \in 1..Len(calls) : calls'[k] # "pending"
    BY <1>1, <1>3
  <2> QED BY <1>0, <1>3, <2>1, McpAssumption DEF CallInv, FailStage, Waiting, Stages
<1> QED BY <1>2, <1>3 DEF Request

(* A step of the reader leaves its request pending or ends it. *)
LEMMA OutcomeKeeps ==
  ASSUME CallInv, reader # "none", ReadOutcome, UNCHANGED inbox
  PROVE  CallInv' /\ (stage' = stage \/ stage' \in {"notify", "ready", "closing"})
<1> DEFINE S == {"pending", "answered", "failed"}
<1>0. /\ Len(calls) \in Nat /\ Len(calls) \in 1..Len(calls) /\ calls \in Seq(S)
      /\ stage \in Waiting
      /\ \A k \in 1..Len(calls) : calls[k] = "pending" <=> k = Len(calls)
  BY LenProperties DEF CallInv
<1>1. ASSUME NEW c \in {"answered", "failed"}, calls' = [calls EXCEPT ![Current] = c],
             reader' = "none", stage' \in {"notify", "ready", "closing"}
      PROVE  CallInv'
  <2>1. /\ calls' \in Seq(S) /\ Len(calls') = Len(calls)
        /\ \A k \in 1..Len(calls) : calls'[k] = IF k = Len(calls) THEN c ELSE calls[k]
    BY <1>0, <1>1, ExceptSeq DEF Current
  <2>2. \A k \in 1..Len(calls) : calls'[k] # "pending"
    BY <1>0, <2>1
  <2> QED BY <1>1, <2>1, <2>2 DEF CallInv, Waiting, Stages
<1>2. CASE UNCHANGED <<stage, calls>> /\ reader' \in {"line", "headers", "body"}
  BY <1>2 DEF CallInv
<1>3. CASE Fail
  BY <1>1, <1>3 DEF Fail, FailStage
<1>4. ASSUME NEW m \in Messages, Settles(m) PROVE CallInv' /\ stage' \in {"notify", "ready"}
  BY <1>1, <1>4 DEF Settles, NextStage
<1> QED BY <1>2, <1>3, <1>4, <1>1 DEF ReadOutcome, Fail, FailStage

-----------------------------------------------------------------------------
(* What the server does. *)

LEMMA SaysKeeps ==
  ASSUME TextInv, NEW m \in Messages, Says(m)
  PROVE  TextInv'
<1>1. /\ emitted' \in Seq(Messages) /\ Said(emitted') = Said(emitted) \cup {m}
      /\ Genuine(emitted) \subseteq Genuine(emitted')
  BY SaidGrows DEF TextInv, Says
<1>2. PICK text \in Framings(m) : pipe' = pipe \o text
  BY DEF Says
<1>3. text \in Seq(Genuine(emitted'))
  BY <1>1, FramingsGenuine
<1>4. /\ pipe \in Seq(Genuine(emitted')) /\ buffer \in Seq(Genuine(emitted'))
      /\ body \in Seq(Genuine(emitted'))
  BY <1>1, SeqMonotonic DEF TextInv
<1>5. pipe' \in Seq(Genuine(emitted'))
  BY <1>2, <1>3, <1>4, ConcatProperties
<1> QED BY <1>1, <1>4, <1>5 DEF TextInv, Says, framing

LEMMA WritesKeep ==
  ASSUME TextInv, NEW text \in Seq(Genuine(emitted)), pipe' = pipe \o text,
         UNCHANGED emitted, UNCHANGED framing
  PROVE  TextInv'
<1>1. pipe' \in Seq(Genuine(emitted))
  BY ConcatProperties DEF TextInv
<1> QED BY <1>1 DEF TextInv, framing

LEMMA AnswerIsMessage ==
  ASSUME CallInv, NEW k \in inbox, NEW kind \in {"result", "hollow", "error"}
  PROVE  [id |-> k, kind |-> kind] \in Messages
BY McpAssumption DEF CallInv, Messages

LEMMA ServerStep ==
  ASSUME IInv, Server
  PROVE  IInv'
<1> USE DEF IInv
<1>1. CASE Notifies
  <2>1. [id |-> 0, kind |-> "result"] \in Messages
    BY McpAssumption DEF Messages
  <2>2. TextInv'
    BY <1>1, <2>1, SaysKeeps DEF Notifies
  <2>3. UNCHANGED <<stage, server, stderr, spoiled, calls, reader, inbox>>
    BY <1>1 DEF Notifies, Says, framing
  <2> QED BY <2>2, <2>3 DEF CallInv, LifeInv
<1>2. CASE Prints
  <2>1. PICK text \in Garbage : pipe' = pipe \o text
    BY <1>2 DEF Prints
  <2>2. TextInv'
    <3>1. text \in Seq(Genuine(emitted))
      BY GarbageGenuine
    <3> QED BY <1>2, <2>1, <3>1, WritesKeep DEF Prints
  <2>3. UNCHANGED <<stage, server, stderr, calls, reader, inbox>> /\ spoiled' \in BOOLEAN
    BY <1>2 DEF Prints, framing
  <2> QED BY <2>2, <2>3 DEF CallInv, LifeInv
<1>3. CASE Exits
  <2>1. TextInv'
    BY <1>3 DEF Exits, TextInv, framing
  <2> QED BY <1>3, <2>1 DEF Exits, CallInv, LifeInv, framing
<1>4. CASE ExitsMidway
  <2>1. PICK k \in inbox : \E text \in Framings([id |-> k, kind |-> "result"]) :
          \E n \in 1..(Len(text) - 2) : pipe' = pipe \o SubSeq(text, 1, n)
    BY <1>4 DEF ExitsMidway
  <2>2. TextInv'
    <3>1. [id |-> k, kind |-> "result"] \in Messages
      BY AnswerIsMessage
    <3>2. PICK text \in Framings([id |-> k, kind |-> "result"]) :
            \E n \in 1..(Len(text) - 2) : pipe' = pipe \o SubSeq(text, 1, n)
      BY <2>1
    <3>3. PICK n \in 1..(Len(text) - 2) : pipe' = pipe \o SubSeq(text, 1, n)
      BY <3>2
    <3>4. SubSeq(text, 1, n) \in Seq(Genuine(emitted))
      BY <3>1, CutGenuine
    <3> QED BY <1>4, <3>3, <3>4, WritesKeep DEF ExitsMidway
  <2>3. /\ UNCHANGED <<stage, stderr, calls, reader, inbox>> /\ spoiled' \in BOOLEAN
        /\ server' = "exited" /\ server = "running"
    BY <1>4 DEF ExitsMidway, framing
  <2> QED BY <2>2, <2>3 DEF CallInv, LifeInv
<1>5. ASSUME NEW k \in inbox, Answers(k) PROVE IInv'
  <2>1. PICK kind \in {"result", "hollow", "error"} : Says([id |-> k, kind |-> kind])
    BY <1>5 DEF Answers
  <2>2. TextInv'
    BY <2>1, AnswerIsMessage, SaysKeeps
  <2>3. UNCHANGED <<stage, server, stderr, spoiled, calls, reader>> /\ inbox' \subseteq inbox
    BY <1>5, <2>1 DEF Answers, Says, framing
  <2> QED BY <2>2, <2>3 DEF CallInv, LifeInv
<1> QED BY <1>1, <1>2, <1>3, <1>4, <1>5 DEF Server, Serves

-----------------------------------------------------------------------------
(* What the client does. *)

LEMMA ClientStep ==
  ASSUME IInv, Client
  PROVE  IInv'
<1> USE DEF IInv
<1>1. CASE Connect
  <2>1. TextInv'
    BY <1>1 DEF Connect, TextInv
  <2>2. /\ calls' \in Seq({"pending", "answered", "failed"}) /\ Len(calls') = 1
        /\ calls'[1] = "pending"
    BY <1>1 DEF Connect
  <2>3. CallInv'
    BY <1>1, <2>2, McpAssumption DEF Connect, CallInv, Waiting, Stages
  <2> QED BY <1>1, <2>1, <2>3 DEF Connect, LifeInv
<1>2. CASE ConnectRaises
  <2>1. TextInv'
    BY <1>2 DEF ConnectRaises, TextInv, framing
  <2> QED BY <1>2, <2>1 DEF ConnectRaises, CallInv, LifeInv, framing, Waiting, Stages
<1>3. CASE ListTools \/ CallTool
  <2>1. TextInv'
    BY <1>3 DEF ListTools, CallTool, Request, TextInv
  <2>2. CallInv' /\ stage' \notin {"off", "draining", "closed"}
    BY <1>3, RequestKeeps DEF ListTools, CallTool, Waiting
  <2>3. UNCHANGED <<server, stderr, spoiled>>
    BY <1>3 DEF ListTools, CallTool, Request
  <2> QED BY <2>1, <2>2, <2>3 DEF LifeInv
<1>4. CASE NotifyRaises \/ BeginClose
  <2>1. TextInv'
    BY <1>4 DEF NotifyRaises, BeginClose, TextInv, framing
  <2> QED BY <1>4, <2>1 DEF NotifyRaises, BeginClose, CallInv, LifeInv, framing, Waiting, Stages
<1>5. CASE Read
  <2>1. /\ TextInv' /\ ReadOutcome /\ reader # "none"
        /\ UNCHANGED <<server, stderr, inbox, spoiled>>
    BY <1>5, ReadStep
  <2>2. CallInv' /\ (stage' = stage \/ stage' \in {"notify", "ready", "closing"})
    BY <2>1, OutcomeKeeps
  <2> QED BY <2>1, <2>2 DEF LifeInv
<1>6. CASE Shut
  <2>1. TextInv'
    BY <1>6 DEF Shut, ServerGone, Terminate, Kill, Drained, TextInv, framing
  <2>2. CallInv'
    BY <1>6 DEF Shut, ServerGone, Terminate, Kill, Drained, CallInv, framing, Waiting, Stages
  <2>3. LifeInv'
    BY <1>6 DEF Shut, ServerGone, Terminate, Kill, Drained, LifeInv
  <2> QED BY <2>1, <2>2, <2>3
<1>7. CASE StderrEnds
  <2>1. TextInv'
    BY <1>7 DEF StderrEnds, TextInv, framing
  <2> QED BY <1>7, <2>1 DEF StderrEnds, CallInv, LifeInv, framing
<1> QED BY <1>1, <1>2, <1>3, <1>4, <1>5, <1>6, <1>7 DEF Client

LEMMA InvStep == IInv /\ [Next]_vars => IInv'
<1>1. ASSUME IInv, UNCHANGED vars PROVE IInv'
  BY <1>1 DEF IInv, TextInv, CallInv, LifeInv, vars, framing
<1> QED BY <1>1, ClientStep, ServerStep DEF Next

LEMMA InvGivesTypes == IInv => TypeOK /\ NothingSurvivesClose
<1>1. Genuine(emitted) \subseteq Symbols
  BY DEF Genuine
<1>2. TextInv => pipe \in Seq(Symbols) /\ buffer \in Seq(Symbols) /\ body \in Seq(Symbols)
  BY <1>1, SeqMonotonic DEF TextInv
<1> QED BY <1>2 DEF IInv, TextInv, CallInv, LifeInv, TypeOK, NothingSurvivesClose

(* Type correctness of the connection, for any number of requests. *)
THEOREM TypeCorrect == Spec => []TypeOK
<1>1. IInv => TypeOK
  BY InvGivesTypes
<1> QED BY InitInv, InvStep, <1>1, PTL DEF Spec

(* However a connection ends, its subprocess and the task that reads the   *)
(* subprocess's standard error have ended before (close).                  *)
THEOREM CloseIsComplete == Spec => []NothingSurvivesClose
<1>1. IInv => NothingSurvivesClose
  BY InvGivesTypes
<1> QED BY InitInv, InvStep, <1>1, PTL DEF Spec

-----------------------------------------------------------------------------
(* Refinement of McpCall.                                                  *)

LEMMA InitRefines == Init => Bridge!Init
BY DEF Init, Bridge!Init

(* With no request being read for, none is pending. *)
LEMMA NoneWaits == IInv /\ reader = "none" => Bridge!Idle
BY DEF IInv, CallInv, Bridge!Idle

LEMMA ServerRefines ==
  ASSUME IInv, Server
  PROVE  [Bridge!Next]_(Bridge!vars)
<1> DEFINE told == {emitted[i] : i \in 1..Len(emitted)}
<1>1. ASSUME NEW m \in Messages, Says(m), UNCHANGED <<stage, server, calls>>
      PROVE  Bridge!ServerSays(m)
  <2>1. emitted \in Seq(Messages) /\ emitted' = Append(emitted, m)
    BY <1>1 DEF Says, IInv, TextInv
  <2>2. told' = told \cup {m}
    BY <2>1, SaidGrows DEF Said
  <2> QED BY <1>1, <2>2 DEF Bridge!ServerSays, Says
<1>2. CASE Notifies
  <2>1. [id |-> 0, kind |-> "result"] \in Messages
    BY McpAssumption DEF Messages
  <2> QED BY <1>1, <1>2, <2>1 DEF Notifies, Says, Bridge!Next
<1>3. ASSUME NEW k \in inbox, Answers(k) PROVE Bridge!Next
  <2>1. PICK kind \in {"result", "hollow", "error"} : Says([id |-> k, kind |-> kind])
    BY <1>3 DEF Answers
  <2>2. [id |-> k, kind |-> kind] \in Messages
    BY AnswerIsMessage DEF IInv
  <2> QED BY <1>1, <2>1, <2>2 DEF Says, Bridge!Next
<1>4. CASE Exits \/ ExitsMidway
  <2>1. Bridge!ServerEnds
    BY <1>4 DEF Exits, ExitsMidway, Bridge!ServerEnds
  <2> QED BY <2>1 DEF Bridge!Next
<1>5. CASE Prints
  BY <1>5 DEF Prints, Bridge!vars
<1> QED BY <1>2, <1>3, <1>4, <1>5 DEF Server, Serves

LEMMA ReadRefines ==
  ASSUME IInv, Read
  PROVE  [Bridge!Next]_(Bridge!vars)
<1>1. ReadOutcome /\ reader # "none" /\ UNCHANGED <<server, emitted>>
  BY ReadStep DEF IInv
<1>2. /\ Current \in 1..Len(calls) /\ calls[Current] = "pending" /\ stage \in Waiting
  BY <1>1, LenProperties DEF IInv, CallInv, Current
<1>3. CASE UNCHANGED <<stage, calls>>
  BY <1>1, <1>3 DEF Bridge!vars
<1>4. CASE Fail
  <2>1. Bridge!Failed(Current)
    BY <1>1, <1>2, <1>4 DEF Fail, FailStage, Waiting, Bridge!Failed
  <2> QED BY <1>2, <2>1 DEF Bridge!Next
<1>5. ASSUME NEW m \in Messages, Settles(m) PROVE Bridge!Next
  <2>1. Bridge!Answered(Current)
    BY <1>1, <1>2, <1>5 DEF Settles, Said, NextStage, Waiting, Bridge!Answered
  <2> QED BY <1>2, <2>1 DEF Bridge!Next
<1> QED BY <1>1, <1>3, <1>4, <1>5 DEF ReadOutcome

LEMMA ClientRefines ==
  ASSUME IInv, Client
  PROVE  [Bridge!Next]_(Bridge!vars)
<1>1. CASE Connect
  <2>1. Bridge!Connect
    BY <1>1 DEF Connect, Bridge!Connect, IInv, CallInv
  <2> QED BY <2>1 DEF Bridge!Next
<1>2. CASE ConnectRaises
  <2>1. Bridge!Close
    BY <1>2 DEF ConnectRaises, Bridge!Close, Bridge!Idle, IInv, CallInv, LifeInv
  <2> QED BY <2>1 DEF Bridge!Next
<1>3. CASE ListTools \/ CallTool
  <2>1. Bridge!Idle
    BY <1>3, NoneWaits DEF ListTools, CallTool, IInv, CallInv, Waiting
  <2>2. Bridge!Call
    BY <1>3, <2>1 DEF ListTools, CallTool, Request, FailStage, Bridge!Call
  <2> QED BY <2>2 DEF Bridge!Next
<1>4. CASE NotifyRaises \/ BeginClose \/ StderrEnds \/ ServerGone \/ Terminate
  BY <1>4 DEF NotifyRaises, BeginClose, StderrEnds, ServerGone, Terminate, Bridge!vars
<1>5. CASE Read
  BY <1>5, ReadRefines
<1>6. CASE Kill
  <2>1. Bridge!ServerEnds
    BY <1>6 DEF Kill, Bridge!ServerEnds
  <2> QED BY <2>1 DEF Bridge!Next
<1>7. CASE Drained
  <2>1. Bridge!Idle
    BY <1>7, NoneWaits DEF Drained, IInv, CallInv, Waiting
  <2>2. Bridge!Close
    BY <1>7, <2>1 DEF Drained, Bridge!Close, IInv, LifeInv
  <2> QED BY <2>2 DEF Bridge!Next
<1> QED BY <1>1, <1>2, <1>3, <1>4, <1>5, <1>6, <1>7 DEF Client, Shut

(* Every request ends at most once and is answered only by a message of    *)
(* its own number that the server has written, whatever the chunks, the    *)
(* framing and the notifications in between (request, _read_message).      *)
THEOREM ClientIsMcpCall == Spec => IsMcpCall
<1>1. IInv /\ [Next]_vars => [Bridge!Next]_(Bridge!vars)
  <2>1. ASSUME UNCHANGED vars PROVE UNCHANGED Bridge!vars
    BY <2>1 DEF vars, Bridge!vars
  <2> QED BY <2>1, ClientRefines, ServerRefines DEF Next
<1> QED BY InitInv, InvStep, InitRefines, <1>1, PTL DEF Spec, IsMcpCall, Bridge!Spec

-----------------------------------------------------------------------------
(* Framing.  What the server has written in all, s, is no variable: part   *)
(* of it has been read and dropped.  c[i] is how much of s the first i     *)
(* messages take, p how much of it has left the buffer.                    *)

FramedAt(s, a, b, m) ==
  \E text \in Framings(m) :
    b = a + Len(text) /\ \A j \in 1..Len(text) : s[a + j] = text[j]

Wrote(s, c) ==
  /\ c[0] = 0 /\ c[Len(emitted)] = Len(s)
  /\ \A i \in 1..Len(emitted) :
       c[i] \in 0..Len(s) /\ FramedAt(s, c[i - 1], c[i], emitted[i])

(* After p, s goes on with this text and with what the pipe holds. *)
Ahead(s, p, text) ==
  /\ Len(s) = p + Len(text) + Len(pipe)
  /\ \A j \in 1..Len(text) : text[j] = s[p + j]
  /\ \A j \in 1..Len(pipe) : pipe[j] = s[p + Len(text) + j]

(* Between messages the reader is at the end of the last one it has heard; *)
(* within one, it is a long one, the next to be heard.                     *)
Place(s, c, p) ==
  LET h == Len(heard) IN
  /\ h <= Len(emitted) /\ \A i \in 1..h : heard[i] = emitted[i]
  /\ reader \in {"none", "line"} => p = c[h]
  /\ reader \in {"headers", "body"} => h < Len(emitted) /\ c[h + 1] = c[h] + 6 /\ length = 3
  /\ reader = "headers" => p = c[h] + 2
  /\ reader = "body" =>
       /\ p = c[h] + 3 + Len(body)
       /\ \A j \in 1..Len(body) : body[j] = s[c[h] + 3 + j]
       /\ buffer # <<>> => Len(body) = 3

Histories == [0..Len(emitted) -> Nat]

StreamInv ==
  ~spoiled =>
    \E s \in Seq(Symbols), c \in Histories, p \in Nat :
      Wrote(s, c) /\ Ahead(s, p, buffer) /\ Place(s, c, p)

Excused(k) ==
  \/ server = "exited"
  \/ \E i \in 1..Len(heard) : heard[i].id = k /\ heard[i].kind # "result"

FailInv ==
  ~spoiled => \A k \in 1..Len(calls) : calls[k] = "failed" => Excused(k)

FrameInv == IInv /\ StreamInv /\ FailInv

(* A framing, symbol by symbol. *)
LEMMA FramedShapes ==
  ASSUME NEW s, NEW a \in Nat, NEW b \in Nat, NEW m, FramedAt(s, a, b, m)
  PROVE  \/ /\ b = a + 3
            /\ s[a + 1] = Half(m, 1) /\ s[a + 2] = Half(m, 2) /\ s[a + 3] = NewLine
         \/ /\ b = a + 6
            /\ s[a + 1] = LengthIs(3) /\ s[a + 2] = NewLine /\ s[a + 3] = NewLine
            /\ s[a + 4] = Half(m, 1) /\ s[a + 5] = NewLine /\ s[a + 6] = Half(m, 2)
<1>1. PICK text \in Framings(m) :
        b = a + Len(text) /\ \A j \in 1..Len(text) : s[a + j] = text[j]
  BY DEF FramedAt
<1>2. CASE text = <<Half(m, 1), Half(m, 2), NewLine>>
  BY <1>1, <1>2
<1>3. CASE text = <<LengthIs(3), NewLine, NewLine, Half(m, 1), NewLine, Half(m, 2)>>
  BY <1>1, <1>3
<1> QED BY <1>2, <1>3 DEF Framings

LEMMA SymbolsDiffer ==
  /\ \A n : LengthIs(n) # NewLine /\ LengthIs(n).sym = "length" /\ LengthIs(n).len = n
  /\ \A m, i : Half(m, i) # NewLine /\ Half(m, i).sym = "half"
  /\ \A m, n, i, j : Half(m, i) = Half(n, j) => m = n
BY DEF LengthIs, NewLine, Half, Symbol

(* The first line of the buffer. *)
LEMMA LineShape ==
  ASSUME buffer \in Seq(Symbols), NEW line \in FirstLine
  PROVE  \E i \in 1..Len(buffer) :
           /\ buffer[i] = NewLine /\ \A j \in 1..(i - 1) : buffer[j] # NewLine
           /\ line.text \in Seq(Symbols) /\ Len(line.text) = i - 1
           /\ \A j \in 1..(i - 1) : line.text[j] = buffer[j]
           /\ line.rest \in Seq(Symbols) /\ Len(line.rest) = Len(buffer) - i
           /\ \A j \in 1..Len(line.rest) : line.rest[j] = buffer[i + j]
<1>0. Len(buffer) \in Nat /\ \A j \in 1..Len(buffer) : buffer[j] \in Symbols
  BY LenProperties, ElementOfSeq
<1>1. PICK i \in {k \in LineEnds : \A j \in LineEnds : k <= j} :
        line = [text |-> SubSeq(buffer, 1, i - 1), rest |-> SubSeq(buffer, i + 1, Len(buffer))]
  BY DEF FirstLine
<1>2. i \in 1..Len(buffer) /\ buffer[i] = NewLine /\ \A j \in 1..(i - 1) : buffer[j] # NewLine
  BY <1>0, <1>1 DEF LineEnds
<1>3. /\ SubSeq(buffer, 1, i - 1) \in Seq(Symbols) /\ Len(SubSeq(buffer, 1, i - 1)) = i - 1
      /\ \A j \in 1..(i - 1) : SubSeq(buffer, 1, i - 1)[j] = buffer[j]
  BY <1>0, <1>2, SubSeqProperties
<1>4. /\ SubSeq(buffer, i + 1, Len(buffer)) \in Seq(Symbols)
      /\ Len(SubSeq(buffer, i + 1, Len(buffer))) = Len(buffer) - i
      /\ \A j \in 1..(Len(buffer) - i) : SubSeq(buffer, i + 1, Len(buffer))[j] = buffer[i + j]
  <2>1. \A j \in (i + 1)..Len(buffer) : buffer[j] \in Symbols
    BY <1>0, <1>2
  <2> HIDE DEF Symbols
  <2> QED BY <1>0, <1>2, <2>1, SubSeqProperties
<1> QED BY <1>1, <1>2, <1>3, <1>4

LEMMA FirstMessage ==
  ASSUME IInv, NEW s \in Seq(Symbols), NEW c \in Histories, NEW p \in Nat,
         Wrote(s, c), Ahead(s, p, buffer), Place(s, c, p)
  PROVE  LET h == Len(heard) IN
         /\ h \in Nat /\ c[h] \in Nat
         /\ h < Len(emitted) =>
              /\ emitted[h + 1] \in Messages
              /\ c[h + 1] \in 0..Len(s) /\ FramedAt(s, c[h], c[h + 1], emitted[h + 1])
         /\ h = Len(emitted) =>
              reader \in {"none", "line"} /\ buffer = <<>> /\ pipe = <<>>
<1> DEFINE h == Len(heard)
<1>1. /\ h \in Nat /\ Len(emitted) \in Nat /\ h <= Len(emitted) /\ Len(s) \in Nat
      /\ Len(buffer) \in Nat /\ Len(pipe) \in Nat
      /\ buffer \in Seq(Genuine(emitted)) /\ pipe \in Seq(Genuine(emitted))
  BY LenProperties DEF IInv, TextInv, Place
<1>2. c[h] \in Nat
  BY <1>1 DEF Histories
<1>3. ASSUME h < Len(emitted)
      PROVE  /\ emitted[h + 1] \in Messages
             /\ c[h + 1] \in 0..Len(s) /\ FramedAt(s, c[h], c[h + 1], emitted[h + 1])
  <2>1. h + 1 \in 1..Len(emitted) /\ (h + 1) - 1 = h
    BY <1>1, <1>3
  <2>2. emitted[h + 1] \in Messages
    BY <2>1, ElementOfSeq DEF IInv, TextInv
  <2>3. c[h + 1] \in 0..Len(s) /\ FramedAt(s, c[(h + 1) - 1], c[h + 1], emitted[h + 1])
    BY <2>1 DEF Wrote
  <2> QED BY <2>1, <2>2, <2>3
<1>4. ASSUME h = Len(emitted)
      PROVE  reader \in {"none", "line"} /\ buffer = <<>> /\ pipe = <<>>
  <2>1. reader \notin {"headers", "body"}
    BY <1>1, <1>4 DEF Place
  <2>2. p = Len(s) /\ reader \in {"none", "line"}
    BY <1>4, <2>1 DEF Place, Wrote, IInv, CallInv
  <2>3. Len(buffer) = 0 /\ Len(pipe) = 0
    BY <1>1, <2>2 DEF Ahead
  <2> QED BY <1>1, <2>2, <2>3, EmptySeq
<1> QED BY <1>1, <1>2, <1>3, <1>4

(* The reader takes a whole line of what has been written. *)
LEMMA NextLine ==
  ASSUME IInv, NEW s \in Seq(Symbols), NEW c \in Histories, NEW p \in Nat,
         Wrote(s, c), Ahead(s, p, buffer), Place(s, c, p),
         NEW line \in Lines, reader = "line" => ~StreamEnded
  PROVE  LET h == Len(heard)
             m == emitted[h + 1]
         IN  /\ h < Len(emitted) /\ line.rest \in Seq(Symbols)
             /\ reader = "line" =>
                  \/ /\ c[h + 1] = c[h] + 3 /\ Ahead(s, p + 3, line.rest)
                     /\ line.text = <<Half(m, 1), Half(m, 2)>>
                  \/ /\ c[h + 1] = c[h] + 6 /\ Ahead(s, p + 2, line.rest)
                     /\ line.text = <<LengthIs(3)>>
             /\ reader = "headers" => line.text = <<>> /\ Ahead(s, p + 1, line.rest)
<1> DEFINE h == Len(heard)
           m == emitted[h + 1]
<1>1. /\ Len(buffer) \in Nat /\ Len(pipe) \in Nat /\ Len(s) \in Nat
      /\ buffer \in Seq(Symbols) /\ Len(emitted) \in Nat
  <2>1. Genuine(emitted) \subseteq Symbols
    BY DEF Genuine
  <2> QED BY <2>1, LenProperties, SeqMonotonic DEF IInv, TextInv
<1>2. reader \in {"line", "headers"}
  BY DEF Lines
<1>3. /\ h \in Nat /\ c[h] \in Nat /\ h <= Len(emitted)
      /\ h < Len(emitted) => c[h + 1] \in 0..Len(s) /\ FramedAt(s, c[h], c[h + 1], m)
      /\ h = Len(emitted) => reader = "line" /\ buffer = <<>> /\ pipe = <<>>
  BY <1>2, FirstMessage DEF Place
<1>4. h < Len(emitted)
  <2>1. CASE h = Len(emitted)
    <3>1. Lines = IF AtEnd THEN {[text |-> buffer, rest |-> <<>>]} ELSE {}
      BY <1>3, <2>1 DEF Lines, Terminated, LineEnds
    <3> QED BY <1>3, <2>1, <3>1 DEF StreamEnded
  <2> QED BY <1>3, <2>1
<1>5. c[h + 1] \in Nat
  BY <1>3, <1>4
<1>6. \/ /\ c[h + 1] = c[h] + 3
         /\ s[c[h] + 1] = Half(m, 1) /\ s[c[h] + 2] = Half(m, 2) /\ s[c[h] + 3] = NewLine
      \/ /\ c[h + 1] = c[h] + 6
         /\ s[c[h] + 1] = LengthIs(3) /\ s[c[h] + 2] = NewLine /\ s[c[h] + 3] = NewLine
  <2>1. FramedAt(s, c[h], c[h + 1], m) /\ c[h] \in Nat
    BY <1>3, <1>4
  <2> HIDE DEF m, h
  <2> QED BY <1>5, <2>1, FramedShapes, Zenon
<1>7. /\ reader = "line" => p = c[h]
      /\ reader = "headers" => p = c[h] + 2 /\ c[h + 1] = c[h] + 6
  BY DEF Place
<1>8. /\ Len(s) = p + Len(buffer) + Len(pipe)
      /\ \A j \in 1..Len(buffer) : buffer[j] = s[p + j]
      /\ \A j \in 1..Len(pipe) : pipe[j] = s[p + Len(buffer) + j]
  BY DEF Ahead
<1>9. /\ Half(m, 1) # NewLine /\ Half(m, 2) # NewLine /\ LengthIs(3) # NewLine
  BY SymbolsDiffer
<1>10. line \in FirstLine
  <2>1. CASE pipe = <<>> /\ LineEnds = {}
    <3>1. \A j \in 1..Len(buffer) : buffer[j] # NewLine
      BY <2>1 DEF LineEnds
    <3>2. Len(s) = p + Len(buffer) /\ c[h + 1] <= Len(s)
      BY <1>1, <1>3, <1>4, <1>8, <2>1
    <3>3. \A j \in 1..Len(buffer) : s[p + j] # NewLine
      BY <1>8, <3>1
    <3>4. PICK a \in Nat, n \in Nat : a = c[h] /\ n = Len(buffer)
      BY <1>1, <1>3
    <3>5. CASE c[h + 1] = c[h] + 3 /\ s[c[h] + 3] = NewLine
      <4>0. reader # "headers"
        <5>1. a + 3 # a + 6
          OBVIOUS
        <5> QED BY <1>7, <3>4, <3>5, <5>1
      <4>1. p = a /\ a + 3 <= p + n
        BY <1>2, <1>7, <3>2, <3>4, <3>5, <4>0
      <4>2. 3 \in 1..n /\ p + 3 = a + 3
        BY <4>1
      <4> QED BY <3>3, <3>4, <3>5, <4>2
    <3>6. CASE c[h + 1] = c[h] + 6 /\ s[c[h] + 2] = NewLine /\ s[c[h] + 3] = NewLine
      <4>1. a + 6 <= p + n /\ (p = a \/ p = a + 2)
        BY <1>2, <1>7, <3>2, <3>4, <3>6
      <4>2. \/ 2 \in 1..n /\ p + 2 = a + 2
            \/ 1 \in 1..n /\ p + 1 = a + 3
        BY <4>1
      <4> QED BY <3>3, <3>4, <3>6, <4>2
    <3> QED BY <1>6, <3>5, <3>6
  <2> QED BY <2>1 DEF Lines, Terminated, AtEnd
<1>11. PICK i \in 1..Len(buffer) :
         /\ buffer[i] = NewLine /\ \A j \in 1..(i - 1) : buffer[j] # NewLine
         /\ line.text \in Seq(Symbols) /\ Len(line.text) = i - 1
         /\ \A j \in 1..(i - 1) : line.text[j] = buffer[j]
         /\ line.rest \in Seq(Symbols) /\ Len(line.rest) = Len(buffer) - i
         /\ \A j \in 1..Len(line.rest) : line.rest[j] = buffer[i + j]
  BY <1>1, <1>10, LineShape
<1>12. Ahead(s, p + i, line.rest)
  <2>1. Len(s) = (p + i) + Len(line.rest) + Len(pipe)
    BY <1>1, <1>8, <1>11
  <2>2. ASSUME NEW j \in 1..Len(line.rest) PROVE line.rest[j] = s[(p + i) + j]
    <3>1. i + j \in 1..Len(buffer) /\ p + (i + j) = (p + i) + j
      <4>1. Len(line.rest) \in Nat /\ Len(line.rest) = Len(buffer) - i
        BY <1>1, <1>11
      <4> QED BY <1>1, <4>1
    <3> QED BY <1>8, <1>11, <3>1
  <2>3. ASSUME NEW j \in 1..Len(pipe) PROVE pipe[j] = s[(p + i) + Len(line.rest) + j]
    <3>1. p + Len(buffer) + j = (p + i) + Len(line.rest) + j
      BY <1>1, <1>11
    <3> QED BY <1>8, <3>1
  <2> QED BY <2>1, <2>2, <2>3 DEF Ahead
<1>13. s[p + i] = NewLine /\ \A j \in 1..(i - 1) : s[p + j] # NewLine
  <2>1. \A j \in 1..(i - 1) : j \in 1..Len(buffer)
    BY <1>1
  <2> QED BY <1>8, <1>11, <2>1
<1>14. CASE reader = "headers"
  <2>1. s[p + 1] = NewLine
    <3>1. PICK a \in Nat : a = c[h] /\ p = a + 2 /\ c[h + 1] = a + 6
      BY <1>3, <1>7, <1>14
    <3>2. a + 6 # a + 3 /\ (a + 2) + 1 = a + 3
      OBVIOUS
    <3>3. s[a + 3] = NewLine
      BY ONLY <1>6, <3>1, <3>2
    <3> QED BY ONLY <3>1, <3>2, <3>3
  <2>2. i = 1
    BY <1>11, <1>13, <2>1
  <2>3. line.text = <<>>
    BY <1>11, <2>2, EmptySeq
  <2> QED BY <1>4, <1>11, <1>12, <1>14, <2>2, <2>3
<1>15. CASE reader = "line" /\ c[h + 1] = c[h] + 3 /\ s[c[h] + 1] = Half(m, 1)
            /\ s[c[h] + 2] = Half(m, 2) /\ s[c[h] + 3] = NewLine
  <2>1. s[p + 1] # NewLine /\ s[p + 2] # NewLine /\ s[p + 3] = NewLine
    BY <1>7, <1>9, <1>15
  <2>2. i = 3
    <3>1. i # 1 /\ i # 2
      BY ONLY <1>13, <2>1
    <3>2. ~(3 \in 1..(i - 1))
      BY ONLY <1>13, <2>1
    <3>3. i \in Nat /\ i >= 1
      BY <1>1, <1>11
    <3> QED BY ONLY <3>1, <3>2, <3>3
  <2>3. /\ Len(line.text) = 2 /\ line.text[1] = Half(m, 1) /\ line.text[2] = Half(m, 2)
        /\ line.text \in Seq(Symbols)
    <3>1. Len(line.text) = 2 /\ line.text[1] = buffer[1] /\ line.text[2] = buffer[2]
      BY <1>11, <2>2
    <3>2. buffer[1] = s[p + 1] /\ buffer[2] = s[p + 2]
      BY <1>8, <2>2
    <3> QED BY <1>7, <1>11, <1>15, <3>1, <3>2
  <2>4. line.text = <<Half(m, 1), Half(m, 2)>>
    BY <2>3
  <2> QED BY <1>4, <1>11, <1>12, <1>15, <2>2, <2>4
<1>16. CASE reader = "line" /\ c[h + 1] = c[h] + 6 /\ s[c[h] + 1] = LengthIs(3)
            /\ s[c[h] + 2] = NewLine
  <2>1. s[p + 1] # NewLine /\ s[p + 2] = NewLine
    BY <1>7, <1>9, <1>16
  <2>2. i = 2
    BY <1>11, <1>13, <2>1
  <2>3. Len(line.text) = 1 /\ line.text[1] = LengthIs(3) /\ line.text \in Seq(Symbols)
    <3>1. Len(line.text) = 1 /\ line.text[1] = buffer[1] /\ buffer[1] = s[p + 1]
      BY <1>8, <1>11, <2>2
    <3> QED BY <1>7, <1>11, <1>16, <3>1
  <2>4. line.text = <<LengthIs(3)>>
    BY <2>3
  <2> QED BY <1>4, <1>11, <1>12, <1>16, <2>2, <2>4
<1> QED BY <1>2, <1>6, <1>14, <1>15, <1>16

(* What the reader delivers when it is at the end of the next message. *)
LEMMA DeliverNext ==
  ASSUME FrameInv, ~spoiled, reader # "none", Len(heard) < Len(emitted),
         NEW text, IsText(text, emitted[Len(heard) + 1]), Deliver(text),
         UNCHANGED <<server, emitted, spoiled>>,
         NEW s \in Seq(Symbols), NEW c \in Histories, NEW p, Place(s, c, p)
  PROVE  /\ FailInv'
         /\ \A q : q = c[Len(heard) + 1] => Place(s, c, q)'
<1> DEFINE h == Len(heard)
           m == emitted[h + 1]
<1>1. h \in Nat /\ h + 1 \in 1..Len(emitted) /\ m \in Messages /\ heard \in Seq(Messages)
  <2>1. h \in Nat /\ h + 1 \in 1..Len(emitted) /\ emitted \in Seq(Messages)
    BY LenProperties DEF FrameInv, IInv, TextInv
  <2> QED BY <2>1, ElementOfSeq DEF FrameInv, IInv, TextInv
<1>2. heard' = Append(heard, m) /\ Receive(m)
  <2>1. ASSUME NEW n \in Messages, IsText(text, n) PROVE n = m
    <3>0. IsText(text, m)
      OBVIOUS
    <3> HIDE DEF m, h
    <3>1. CASE text = <<Half(n, 1), Half(n, 2)>>
      <4>1. text[1] = Half(m, 1) /\ text[1] = Half(n, 1)
        BY <3>0, <3>1 DEF IsText
      <4> QED BY <4>1, SymbolsDiffer
    <3>2. CASE text = <<Half(n, 1), NewLine, Half(n, 2)>>
      <4>1. text[1] = Half(m, 1) /\ text[1] = Half(n, 1)
        BY <3>0, <3>2 DEF IsText
      <4> QED BY <4>1, SymbolsDiffer
    <3> QED BY <2>1, <3>1, <3>2 DEF IsText
  <2> QED BY <1>1, <2>1 DEF Deliver
<1>3. /\ Len(heard') = h + 1 /\ heard'[h + 1] = m
      /\ \A i \in 1..h : heard'[i] = heard[i]
  BY <1>1, <1>2, AppendProperties
<1>4. FailInv'
  <2>1. ASSUME NEW k, Excused(k) PROVE Excused(k)'
    <3>1. CASE server = "exited"
      BY <3>1 DEF Excused
    <3>2. ASSUME NEW i \in 1..h, heard[i].id = k /\ heard[i].kind # "result"
          PROVE  Excused(k)'
      <4>1. i \in 1..(h + 1)
        BY <1>1
      <4> QED BY <1>3, <3>2, <4>1 DEF Excused
    <3> QED BY <2>1, <3>1, <3>2 DEF Excused
  <2>2. \A k \in 1..Len(calls) : calls[k] = "failed" => Excused(k)'
    BY <2>1 DEF FrameInv, FailInv
  <2>3. Len(calls) \in Nat /\ Len(calls) \in 1..Len(calls)
        /\ calls \in Seq({"pending", "answered", "failed"})
    BY LenProperties DEF FrameInv, IInv, CallInv
  <2>4. ASSUME NEW e \in {"answered", "failed"}, calls' = [calls EXCEPT ![Current] = e],
               NEW n, n = Len(calls), e = "failed" => Excused(n)'
        PROVE  FailInv'
    <3>1. /\ Len(calls') = Len(calls)
          /\ \A k \in 1..Len(calls) : calls'[k] = IF k = Len(calls) THEN e ELSE calls[k]
      BY <2>3, <2>4, ExceptSeq DEF Current
    <3> QED BY <2>2, <2>3, <2>4, <3>1 DEF FailInv
  <2>5. CASE m.id = Current /\ Unusable(m) /\ Fail
    <3>1. m.kind # "result" /\ h + 1 \in 1..Len(heard')
      BY <1>1, <1>3, <2>5 DEF Unusable
    <3>2. ASSUME NEW n, n = Len(calls) PROVE Excused(n)'
      <4>1. heard'[h + 1].id = n /\ heard'[h + 1].kind # "result"
        BY <1>3, <2>5, <3>1, <3>2 DEF Current
      <4> QED BY <3>1, <4>1 DEF Excused
    <3> QED BY <2>4, <2>5, <3>2 DEF Fail
  <2>6. CASE UNCHANGED <<stage, calls>>
    BY <2>2, <2>6 DEF FailInv
  <2>7. CASE calls' = [calls EXCEPT ![Current] = "answered"]
    <3>1. "answered" # "failed"
      OBVIOUS
    <3> QED BY <2>4, <2>7, <3>1
  <2> QED BY <1>2, <2>5, <2>6, <2>7 DEF Receive
<1>5. ASSUME NEW q, q = c[h + 1] PROVE Place(s, c, q)'
  <2>1. reader' \in {"none", "line"}
    BY <1>2 DEF Receive, Fail
  <2>2. Len(heard') <= Len(emitted) /\ \A i \in 1..(h + 1) : heard'[i] = emitted[i]
    BY <1>1, <1>3 DEF Place
  <2> QED BY <1>3, <1>5, <2>1, <2>2 DEF Place
<1> QED BY <1>4, <1>5

(* The three facts to show of a step that writes nothing. *)
LEMMA ReadOn ==
  ASSUME NEW s \in Seq(Symbols), NEW c \in Histories, Wrote(s, c), UNCHANGED emitted,
         NEW q \in Nat, Ahead(s, q, buffer)', Place(s, c, q)'
  PROVE  StreamInv'
<1>1. c \in Histories' /\ Wrote(s, c)'
  BY DEF Histories, Wrote
<1> QED BY <1>1 DEF StreamInv

(* A line is read that is not the end of a message. *)
LEMMA LinesFrame ==
  ASSUME FrameInv, ~spoiled, HeaderLine \/ BadHeader \/ BlankLine
  PROVE  StreamInv' /\ FailInv'
<1>1. PICK s \in Seq(Symbols), c \in Histories, p \in Nat :
        Wrote(s, c) /\ Ahead(s, p, buffer) /\ Place(s, c, p)
  BY DEF FrameInv, StreamInv
<1> DEFINE h == Len(heard)
           m == emitted[h + 1]
<1>2. UNCHANGED <<server, emitted, pipe, spoiled, heard>> /\ IInv
  BY DEF HeaderLine, BadHeader, BlankLine, FrameInv
<1>3. PICK line \in Lines :
        \/ /\ HeaderLine /\ line.text # <<>> /\ Head(line.text).sym = "length"
           /\ length' = Head(line.text).len /\ buffer' = line.rest
        \/ BadHeader /\ line.text # <<>>
        \/ /\ BlankLine
           /\ \E n \in {length, Len(line.rest)} :
                /\ n <= length /\ n <= Len(line.rest)
                /\ body' = SubSeq(line.rest, 1, n)
                /\ buffer' = SubSeq(line.rest, n + 1, Len(line.rest))
  BY DEF HeaderLine, BadHeader, BlankLine
<1>4. reader = "line" => ~StreamEnded
  <2>1. ASSUME reader = "line", StreamEnded PROVE FALSE
    <3>1. Lines = {[text |-> <<>>, rest |-> <<>>]}
      BY <2>1 DEF Lines, StreamEnded, Terminated, LineEnds
    <3> QED BY <1>3, <2>1, <3>1 DEF BlankLine
  <2> QED BY <2>1
<1>5. /\ h < Len(emitted) /\ line.rest \in Seq(Symbols)
      /\ reader = "line" =>
           \/ line.text = <<Half(m, 1), Half(m, 2)>>
           \/ /\ c[h + 1] = c[h] + 6 /\ Ahead(s, p + 2, line.rest)
              /\ line.text = <<LengthIs(3)>>
      /\ reader = "headers" => line.text = <<>> /\ Ahead(s, p + 1, line.rest)
  <2> HIDE DEF m
  <2> QED BY <1>1, <1>2, <1>4, NextLine, Zenon DEF m
<1>6. reader \in {"line", "headers"}
  BY DEF Lines
<1>7. h \in Nat /\ c[h] \in Nat
  BY <1>1, <1>2, FirstMessage
<1>8. CASE HeaderLine /\ line.text # <<>> /\ Head(line.text).sym = "length"
           /\ length' = Head(line.text).len /\ buffer' = line.rest
  <2>1. line.text # <<Half(m, 1), Half(m, 2)>>
    BY <1>8, SymbolsDiffer
  <2>2. reader = "line" /\ line.text = <<LengthIs(3)>>
    BY <1>5, <1>6, <1>8, <2>1
  <2>3. c[h + 1] = c[h] + 6 /\ Ahead(s, p + 2, line.rest)
    BY <1>5, <2>1, <2>2
  <2>4. length' = 3
    BY <1>8, <2>2, SymbolsDiffer
  <2>5. Ahead(s, p + 2, buffer)'
    BY <1>2, <1>8, <2>3 DEF Ahead
  <2>6. Place(s, c, p + 2)'
    BY <1>1, <1>2, <1>5, <1>7, <1>8, <2>2, <2>3, <2>4 DEF Place, HeaderLine
  <2>7. StreamInv'
    BY <1>1, <1>2, <2>5, <2>6, ReadOn
  <2>8. FailInv'
    BY <1>2, <1>8 DEF FrameInv, FailInv, Excused, HeaderLine
  <2> QED BY <2>7, <2>8
<1>9. CASE BadHeader /\ line.text # <<>>
  BY <1>5, <1>9 DEF BadHeader
<1>10. CASE BlankLine /\ \E n \in {length, Len(line.rest)} :
              /\ n <= length /\ n <= Len(line.rest)
              /\ body' = SubSeq(line.rest, 1, n)
              /\ buffer' = SubSeq(line.rest, n + 1, Len(line.rest))
  <2>0. /\ reader = "headers" /\ length = 3 /\ p = c[h] + 2 /\ c[h + 1] = c[h] + 6
        /\ Ahead(s, p + 1, line.rest)
    BY <1>1, <1>5, <1>10 DEF BlankLine, Place
  <2>1. PICK n \in Nat :
              /\ n = 3 \/ n = Len(line.rest)
              /\ n <= 3 /\ n <= Len(line.rest)
              /\ body' = SubSeq(line.rest, 1, n)
              /\ buffer' = SubSeq(line.rest, n + 1, Len(line.rest))
    <3>1. 3 \in Nat /\ Len(line.rest) \in Nat
      BY <1>5, LenProperties
    <3> QED BY <1>10, <2>0, <3>1
  <2>2. n \in Nat /\ Len(line.rest) \in Nat
    BY <1>5, LenProperties
  <2>3. \A i \in 1..Len(line.rest) : line.rest[i] \in Symbols
    BY <1>5, ElementOfSeq
  <2>4. Len(body') = n /\ \A j \in 1..n : body'[j] = line.rest[j]
    <3>1. \A i \in 1..n : line.rest[i] \in Symbols
      BY <2>1, <2>2, <2>3
    <3> HIDE DEF Symbols
    <3> QED BY <2>1, <2>2, <3>1, SubSeqProperties
  <2>5. /\ Len(buffer') = Len(line.rest) - n /\ buffer' \in Seq(Symbols)
        /\ \A j \in 1..Len(buffer') : buffer'[j] = line.rest[n + j]
    <3>1. \A i \in (n + 1)..Len(line.rest) : line.rest[i] \in Symbols
      BY <2>2, <2>3
    <3> HIDE DEF Symbols
    <3> QED BY <2>1, <2>2, <3>1, SubSeqProperties
  <2>6. Ahead(s, p + 1 + n, buffer)'
    <3>1. /\ Len(s) = p + 1 + Len(line.rest) + Len(pipe)
          /\ \A j \in 1..Len(line.rest) : line.rest[j] = s[p + 1 + j]
          /\ \A j \in 1..Len(pipe) : pipe[j] = s[p + 1 + Len(line.rest) + j]
      BY <2>0 DEF Ahead
    <3>0. PICK r \in Nat, b \in Nat, w \in Nat :
            r = Len(line.rest) /\ b = Len(buffer') /\ w = Len(pipe) /\ b = r - n
      BY <1>2, <2>2, <2>5, LenProperties DEF IInv, TextInv
    <3>2. Len(s) = p + 1 + n + Len(buffer') + Len(pipe)
      <4>1. p + 1 + r + w = p + 1 + n + b + w
        <5>1. n + b = r
          BY <3>0
        <5> QED BY <5>1
      <4> QED BY <3>0, <3>1, <4>1
    <3>3. ASSUME NEW j \in 1..Len(buffer') PROVE buffer'[j] = s[p + 1 + n + j]
      <4>0. Len(buffer') \in Nat
        BY <2>5, LenProperties
      <4>1. n + j \in 1..Len(line.rest) /\ p + 1 + (n + j) = p + 1 + n + j
        BY <2>1, <2>2, <2>5, <4>0
      <4> QED BY <2>5, <3>1, <4>1
    <3>4. ASSUME NEW j \in 1..Len(pipe) PROVE pipe[j] = s[p + 1 + n + Len(buffer') + j]
      <4>1. p + 1 + n + Len(buffer') + j = p + 1 + Len(line.rest) + j
        <5>0. j \in Nat /\ n + b = r
          BY <3>0
        <5>1. p + 1 + n + b + j = p + 1 + r + j
          BY <5>0
        <5> QED BY <3>0, <5>1
      <4> QED BY <3>1, <4>1
    <3> QED BY <1>2, <3>2, <3>3, <3>4 DEF Ahead
  <2>7. Place(s, c, p + 1 + n)'
    <3>1. p + 1 + n = c[h] + 3 + Len(body')
      BY <1>7, <2>0, <2>2, <2>4
    <3>2. ASSUME NEW j \in 1..Len(body') PROVE body'[j] = s[c[h] + 3 + j]
      <4>1. j \in 1..Len(line.rest) /\ p + 1 + j = c[h] + 3 + j
        <5>1. j \in 1..n /\ c[h] \in Nat /\ p = c[h] + 2
          BY <1>7, <2>0, <2>4
        <5> QED BY ONLY <2>1, <2>2, <5>1
      <4> QED BY <2>0, <2>4, <4>1 DEF Ahead
    <3>3. buffer' # <<>> => Len(body') = 3
      <4>1. n = Len(line.rest) => Len(buffer') = 0
        BY <2>2, <2>5
      <4> QED BY <2>1, <2>4, <2>5, <4>1, EmptySeq
    <3> QED BY <1>1, <1>2, <1>5, <1>10, <2>0, <3>1, <3>2, <3>3 DEF Place, BlankLine
  <2>8. p + 1 + n \in Nat
    BY <2>2
  <2>9. StreamInv'
    BY <1>1, <1>2, <2>6, <2>7, <2>8, ReadOn
  <2>10. FailInv'
    BY <1>2, <1>10 DEF FrameInv, FailInv, Excused, BlankLine
  <2> QED BY <2>9, <2>10
<1> QED BY <1>3, <1>8, <1>9, <1>10

(* A chunk is read. *)
LEMMA ChunksFrame ==
  ASSUME FrameInv, ~spoiled, FillBuffer \/ BodyChunk
  PROVE  StreamInv' /\ FailInv'
<1>1. PICK s \in Seq(Symbols), c \in Histories, p \in Nat :
        Wrote(s, c) /\ Ahead(s, p, buffer) /\ Place(s, c, p)
  BY DEF FrameInv, StreamInv
<1> DEFINE h == Len(heard)
<1>2. UNCHANGED <<server, emitted, spoiled, heard, calls, reader, length>> /\ IInv
  BY DEF FillBuffer, BodyChunk, FrameInv
<1>3. FailInv'
  BY <1>2 DEF FrameInv, FailInv, Excused
<1>4. /\ pipe \in Seq(Symbols) /\ buffer \in Seq(Symbols) /\ body \in Seq(Symbols)
  <2>1. Genuine(emitted) \subseteq Symbols
    BY DEF Genuine
  <2> QED BY <1>2, <2>1, SeqMonotonic DEF IInv, TextInv
<1>5. PICK b \in Nat, w \in Nat, d \in Nat : b = Len(buffer) /\ w = Len(pipe) /\ d = Len(body)
  BY <1>4, LenProperties
<1>6. /\ Len(s) = p + b + w
      /\ \A j \in 1..b : buffer[j] = s[p + j]
      /\ \A j \in 1..w : pipe[j] = s[p + b + j]
  BY <1>1, <1>5 DEF Ahead
<1>7. ASSUME NEW n \in 1..w
      PROVE  /\ SubSeq(pipe, 1, n) \in Seq(Symbols) /\ Len(SubSeq(pipe, 1, n)) = n
             /\ \A j \in 1..n : SubSeq(pipe, 1, n)[j] = pipe[j]
             /\ Len(SubSeq(pipe, n + 1, Len(pipe))) = w - n
             /\ \A j \in 1..(w - n) : SubSeq(pipe, n + 1, Len(pipe))[j] = pipe[n + j]
  <2>1. \A i \in 1..w : pipe[i] \in Symbols
    BY <1>4, <1>5, ElementOfSeq
  <2>2. (\A i \in 1..n : pipe[i] \in Symbols) /\ (\A i \in (n + 1)..w : pipe[i] \in Symbols)
    BY <2>1
  <2> HIDE DEF Symbols
  <2>3. /\ SubSeq(pipe, 1, n) \in Seq(Symbols) /\ Len(SubSeq(pipe, 1, n)) = n
        /\ \A j \in 1..n : SubSeq(pipe, 1, n)[j] = pipe[j]
    BY <2>2, SubSeqProperties
  <2>4. /\ Len(SubSeq(pipe, n + 1, w)) = w - n
        /\ \A j \in 1..(w - n) : SubSeq(pipe, n + 1, w)[j] = pipe[n + j]
    <3>1. n + 1 \in 1..(w + 1) /\ w - (n + 1) + 1 = w - n
      BY <1>5
    <3>2. ASSUME NEW j \in 1..(w - n) PROVE (n + 1) + j - 1 = n + j
      BY <1>5
    <3>3. /\ Len(SubSeq(pipe, n + 1, w)) = w - (n + 1) + 1
          /\ \A j \in 1..(w - (n + 1) + 1) :
               SubSeq(pipe, n + 1, w)[j] = pipe[(n + 1) + j - 1]
      BY <1>5, <2>2, <3>1, SubSeqProperties
    <3> QED BY <3>1, <3>2, <3>3
  <2> QED BY <1>5, <2>3, <2>4
<1>8. CASE FillBuffer
  <2>1. PICK n \in 1..w : /\ buffer' = buffer \o SubSeq(pipe, 1, n)
                          /\ pipe' = SubSeq(pipe, n + 1, Len(pipe))
    BY <1>5, <1>8 DEF FillBuffer
  <2>2. /\ Len(buffer') = b + n
        /\ \A j \in 1..(b + n) : buffer'[j] = IF j <= b THEN buffer[j] ELSE pipe[j - b]
    <3>1. /\ Len(buffer') = b + n
          /\ \A j \in 1..(b + n) :
               buffer'[j] = IF j <= b THEN buffer[j] ELSE SubSeq(pipe, 1, n)[j - b]
      BY <1>4, <1>5, <1>7, <2>1, ConcatProperties
    <3>2. \A j \in 1..(b + n) : ~(j <= b) => j - b \in 1..n
      OBVIOUS
    <3> QED BY <1>7, <3>1, <3>2
  <2>3. Len(pipe') = w - n /\ \A j \in 1..(w - n) : pipe'[j] = pipe[n + j]
    BY <1>7, <2>1
  <2>4. Ahead(s, p, buffer)'
    <3>1. Len(s) = p + (b + n) + (w - n)
      BY <1>6
    <3>2. ASSUME NEW j \in 1..(b + n) PROVE buffer'[j] = s[p + j]
      <4>1. CASE j <= b
        BY <1>6, <2>2, <4>1
      <4>2. CASE ~(j <= b)
        <5>1. j - b \in 1..w /\ p + b + (j - b) = p + j
          BY <4>2
        <5> QED BY <1>6, <2>2, <4>2, <5>1
      <4> QED BY <4>1, <4>2
    <3>3. ASSUME NEW j \in 1..(w - n) PROVE pipe'[j] = s[p + (b + n) + j]
      <4>1. n + j \in 1..w /\ p + b + (n + j) = p + (b + n) + j
        OBVIOUS
      <4> QED BY <1>6, <2>3, <4>1
    <3> QED BY <2>2, <2>3, <3>1, <3>2, <3>3 DEF Ahead
  <2>5. Place(s, c, p)'
    BY <1>1, <1>2, <1>8 DEF Place, FillBuffer
  <2>6. StreamInv'
    BY <1>1, <1>2, <2>4, <2>5, ReadOn
  <2> QED BY <1>3, <2>6
<1>9. CASE BodyChunk
  <2>1. PICK n \in 1..w : /\ n <= length - d
                          /\ body' = body \o SubSeq(pipe, 1, n)
                          /\ pipe' = SubSeq(pipe, n + 1, Len(pipe))
    BY <1>5, <1>9 DEF BodyChunk
  <2>2. /\ h \in Nat /\ c[h] \in Nat /\ reader = "body" /\ length = 3
        /\ p = c[h] + 3 + d
        /\ \A j \in 1..d : body[j] = s[c[h] + 3 + j]
        /\ buffer # <<>> => d = 3
    BY <1>1, <1>2, <1>5, <1>9, FirstMessage DEF BodyChunk, Place
  <2>3. buffer = <<>> /\ b = 0
    <3>1. d # 3
      BY <2>1, <2>2
    <3> QED BY <1>5, <2>2, <3>1, EmptySeq
  <2>4. /\ Len(body') = d + n
        /\ \A j \in 1..(d + n) : body'[j] = IF j <= d THEN body[j] ELSE pipe[j - d]
    <3>1. /\ Len(body') = d + n
          /\ \A j \in 1..(d + n) :
               body'[j] = IF j <= d THEN body[j] ELSE SubSeq(pipe, 1, n)[j - d]
      BY <1>4, <1>5, <1>7, <2>1, ConcatProperties
    <3>2. \A j \in 1..(d + n) : ~(j <= d) => j - d \in 1..n
      OBVIOUS
    <3> QED BY <1>7, <3>1, <3>2
  <2>5. Len(pipe') = w - n /\ \A j \in 1..(w - n) : pipe'[j] = pipe[n + j]
    BY <1>7, <2>1
  <2>6. Ahead(s, p + n, buffer)'
    <3>1. /\ Len(s) = p + n + 0 + (w - n)
          /\ \A j \in 1..w : pipe[j] = s[p + j]
      <4>1. \A j \in 1..w : p + b + j = p + j
        BY <2>3
      <4> QED BY <1>6, <2>3, <4>1
    <3>2. ASSUME NEW j \in 1..(w - n) PROVE pipe'[j] = s[p + n + 0 + j]
      <4>1. n + j \in 1..w /\ p + (n + j) = p + n + 0 + j
        OBVIOUS
      <4> QED BY <2>5, <3>1, <4>1
    <3>3. buffer' = <<>> /\ Len(buffer') = 0
      BY <1>9, <2>3, EmptySeq DEF BodyChunk
    <3> QED BY <2>5, <3>1, <3>2, <3>3 DEF Ahead
  <2>7. Place(s, c, p + n)'
    <3>1. PICK a \in Nat : a = c[h]
      BY <2>2
    <3>0. p = a + 3 + d
      BY <2>2, <3>1
    <3>2. p + n = a + 3 + (d + n)
      BY <3>0
    <3>3. ASSUME NEW j \in 1..(d + n) PROVE body'[j] = s[a + 3 + j]
      <4>1. CASE j <= d
        <5>1. j \in 1..d
          BY <4>1
        <5>2. body[j] = s[a + 3 + j]
          BY <2>2, <3>1, <5>1
        <5> QED BY <2>4, <4>1, <5>2
      <4>2. CASE ~(j <= d)
        <5>1. j - d \in 1..w /\ p + b + (j - d) = a + 3 + j
          BY <2>3, <3>0, <4>2
        <5> QED BY <1>6, <2>4, <4>2, <5>1
      <4> QED BY <4>1, <4>2
    <3>4. buffer' = <<>>
      BY <1>9, <2>3 DEF BodyChunk
    <3> QED BY <1>1, <1>2, <2>2, <2>4, <3>1, <3>2, <3>3, <3>4 DEF Place
  <2>8. p + n \in Nat
    OBVIOUS
  <2>9. StreamInv'
    BY <1>1, <1>2, <2>6, <2>7, <2>8, ReadOn
  <2> QED BY <1>3, <2>9
<1> QED BY <1>8, <1>9

(* A message is read to its end, or nothing more will come. *)
LEMMA EndsFrame ==
  ASSUME FrameInv, ~spoiled, NothingMore \/ MessageLine \/ BodyCutShort \/ BodyDone
  PROVE  StreamInv' /\ FailInv'
<1>1. PICK s \in Seq(Symbols), c \in Histories, p \in Nat :
        Wrote(s, c) /\ Ahead(s, p, buffer) /\ Place(s, c, p)
  BY DEF FrameInv, StreamInv
<1> DEFINE h == Len(heard)
           m == emitted[h + 1]
<1>2. UNCHANGED <<server, emitted, spoiled, pipe>> /\ IInv
  BY DEF NothingMore, MessageLine, BodyCutShort, BodyDone, FrameInv
<1>3. /\ h \in Nat /\ c[h] \in Nat /\ h <= Len(emitted)
      /\ h < Len(emitted) => c[h + 1] \in 0..Len(s) /\ FramedAt(s, c[h], c[h + 1], m)
      /\ h = Len(emitted) => reader \in {"none", "line"}
  BY <1>1, <1>2, FirstMessage DEF Place
<1>4. PICK b \in Nat, w \in Nat, d \in Nat, z \in Nat :
        b = Len(buffer) /\ w = Len(pipe) /\ d = Len(body) /\ z = Len(s)
  BY <1>1, <1>2, LenProperties DEF IInv, TextInv
<1>5. z = p + b + w
  BY <1>1, <1>4 DEF Ahead
<1>6. ASSUME server = "exited", Fail PROVE FailInv'
  BY <1>2, <1>6 DEF FailInv, Excused
<1>7. ASSUME reader \in {"headers", "body"}, buffer = <<>>, pipe = <<>>,
             reader = "body" => Len(body) < 3
      PROVE  FALSE
  <2>1. b = 0 /\ w = 0
    BY <1>4, <1>7
  <2>2. c[h + 1] = c[h] + 6 /\ c[h + 1] <= z
    BY <1>1, <1>3, <1>4, <1>7 DEF Place
  <2>3. PICK a \in Nat : a = c[h]
    BY <1>3
  <2>4. p = a + 2 \/ (p = a + 3 + d /\ d < 3)
    BY <1>1, <1>4, <1>7, <2>3 DEF Place
  <2>5. a + 6 <= p
    BY <1>5, <2>1, <2>2, <2>3
  <2> QED BY <2>4, <2>5
<1>8. CASE NothingMore
  <2>1. server = "exited" /\ buffer = <<>> /\ pipe = <<>> /\ Fail
        /\ UNCHANGED <<buffer, length, body, heard>>
    BY <1>8 DEF NothingMore, StreamEnded, AtEnd
  <2>2. reader = "line"
    BY <1>7, <1>8, <2>1 DEF NothingMore, Lines
  <2>3. Ahead(s, p, buffer)'
    BY <1>1, <1>2, <2>1 DEF Ahead
  <2>4. Place(s, c, p)'
    BY <1>1, <1>2, <2>1, <2>2 DEF Place, Fail
  <2> QED BY <1>1, <1>2, <1>6, <2>1, <2>3, <2>4, ReadOn
<1>9. CASE MessageLine
  <2>1. PICK line \in Lines :
          /\ line.text = <<>> \/ Head(line.text).sym # "length"
          /\ buffer' = line.rest
          /\ Deliver(line.text)
    BY <1>9 DEF MessageLine
  <2>2. reader = "line" /\ ~StreamEnded /\ p = c[h]
    BY <1>1, <1>9 DEF MessageLine, Place
  <2>3. /\ h < Len(emitted)
        /\ \/ /\ c[h + 1] = c[h] + 3 /\ Ahead(s, p + 3, line.rest)
              /\ line.text = <<Half(m, 1), Half(m, 2)>>
           \/ line.text = <<LengthIs(3)>>
    <3> HIDE DEF m
    <3> QED BY <1>1, <1>2, <2>2, NextLine, Zenon DEF m
  <2>4. line.text # <<LengthIs(3)>>
    <3>1. ASSUME line.text = <<LengthIs(3)>> PROVE FALSE
      <4>1. Head(line.text) = LengthIs(3) /\ line.text # <<>>
        BY <3>1
      <4>2. LengthIs(3).sym = "length"
        BY SymbolsDiffer
      <4> QED BY <2>1, <4>1, <4>2
    <3> QED BY <3>1
  <2>5. IsText(line.text, m)
    BY <2>3, <2>4 DEF IsText
  <2>6. Ahead(s, p + 3, buffer)'
    BY <1>2, <2>1, <2>3, <2>4 DEF Ahead
  <2>7. FailInv' /\ Place(s, c, p + 3)'
    <3>1. p + 3 = c[h + 1]
      BY <2>2, <2>3, <2>4
    <3>2. reader # "none"
      BY <2>2
    <3> QED BY <1>1, <1>2, <2>1, <2>3, <2>5, <3>1, <3>2, DeliverNext
  <2>8. p + 3 \in Nat
    OBVIOUS
  <2> QED BY <1>1, <1>2, <2>6, <2>7, <2>8, ReadOn
<1>10. CASE BodyCutShort
  <2>1. reader = "body" /\ length = 3
    BY <1>1, <1>10 DEF BodyCutShort, Place
  <2>2. buffer = <<>> /\ pipe = <<>> /\ Len(body) < 3
    <3>1. d < 3
      BY <1>4, <1>10, <2>1 DEF BodyCutShort
    <3>2. Len(body) # 3
      <4>1. d # 3
        BY <3>1
      <4> QED BY <1>4, <4>1
    <3> QED BY <1>1, <1>4, <1>10, <2>1, <3>1, <3>2 DEF BodyCutShort, Place, AtEnd
  <2> QED BY <1>7, <2>1, <2>2
<1>11. CASE BodyDone
  <2>1. /\ reader = "body" /\ length = 3 /\ d = 3 /\ h < Len(emitted) /\ c[h + 1] = c[h] + 6
        /\ p = c[h] + 3 + d
        /\ \A j \in 1..d : body[j] = s[c[h] + 3 + j]
    BY <1>1, <1>4, <1>11 DEF BodyDone, Place
  <2>2. /\ s[c[h] + 4] = Half(m, 1) /\ s[c[h] + 5] = NewLine /\ s[c[h] + 6] = Half(m, 2)
    <3>1. FramedAt(s, c[h], c[h + 1], m) /\ c[h] \in Nat /\ c[h + 1] \in Nat
      BY <1>3, <2>1
    <3>2. c[h + 1] # c[h] + 3
      <4>1. PICK a \in Nat : a = c[h]
        BY <1>3
      <4>2. a + 6 # a + 3
        OBVIOUS
      <4> QED BY <2>1, <4>1, <4>2
    <3> HIDE DEF m, h
    <3> QED BY <3>1, <3>2, FramedShapes
  <2>3. IsText(body, m)
    <3>1. PICK a \in Nat : a = c[h]
      BY <1>3
    <3>2. a + 3 + 1 = a + 4 /\ a + 3 + 2 = a + 5 /\ a + 3 + 3 = a + 6
      OBVIOUS
    <3>3. body[1] = Half(m, 1) /\ body[2] = NewLine /\ body[3] = Half(m, 2)
      <4>1. 1 \in 1..d /\ 2 \in 1..d /\ 3 \in 1..d
        BY <2>1
      <4>2. body[1] = s[a + 3 + 1] /\ body[2] = s[a + 3 + 2] /\ body[3] = s[a + 3 + 3]
        BY <2>1, <3>1, <4>1
      <4> QED BY <2>2, <3>1, <3>2, <4>2
    <3>4. Len(body) = 3 /\ body \in Seq(Genuine(emitted))
      BY <1>2, <1>4, <2>1 DEF IInv, TextInv
    <3>5. body = <<Half(m, 1), NewLine, Half(m, 2)>>
      BY <3>3, <3>4
    <3> QED BY <3>5 DEF IsText
  <2>4. Ahead(s, p, buffer)'
    BY <1>1, <1>2, <1>11 DEF Ahead, BodyDone
  <2>5. FailInv' /\ Place(s, c, p)'
    <3>1. p = c[h + 1]
      BY <1>3, <2>1
    <3>2. reader # "none" /\ Deliver(body)
      BY <1>11 DEF BodyDone
    <3> QED BY <1>1, <1>2, <2>1, <2>3, <3>1, <3>2, DeliverNext
  <2> QED BY <1>1, <1>2, <2>4, <2>5, ReadOn
<1> QED BY <1>8, <1>9, <1>10, <1>11

(* The server writes one message more. *)
LEMMA SaysFrame ==
  ASSUME FrameInv, ~spoiled, NEW m \in Messages, Says(m)
  PROVE  StreamInv' /\ FailInv'
<1>1. PICK s \in Seq(Symbols), c \in Histories, p \in Nat :
        Wrote(s, c) /\ Ahead(s, p, buffer) /\ Place(s, c, p)
  BY DEF FrameInv, StreamInv
<1>2. /\ emitted' = Append(emitted, m)
      /\ UNCHANGED <<server, calls, reader, buffer, length, body, heard>>
  BY DEF Says, framing
<1>3. PICK text \in Framings(m) : pipe' = pipe \o text
  BY DEF Says
<1>4. /\ emitted \in Seq(Messages) /\ heard \in Seq(Messages)
      /\ pipe \in Seq(Symbols) /\ buffer \in Seq(Symbols)
  <2>1. Genuine(emitted) \subseteq Symbols
    BY DEF Genuine
  <2> QED BY <2>1, SeqMonotonic DEF FrameInv, IInv, TextInv
<1>5. text \in Seq(Symbols) /\ Len(text) \in Nat \ {0}
  <2>1. NewLine \in Symbols /\ LengthIs(3) \in Symbols
        /\ Half(m, 1) \in Symbols /\ Half(m, 2) \in Symbols
    BY DEF NewLine, LengthIs, Half, Symbol, Symbols
  <2>2. CASE text = <<Half(m, 1), Half(m, 2), NewLine>>
    <3>1. text \in Seq(Symbols)
      BY <2>1, <2>2, Tuples
    <3> QED BY <2>2, <3>1
  <2>3. CASE text = <<LengthIs(3), NewLine, NewLine, Half(m, 1), NewLine, Half(m, 2)>>
    <3>1. text \in Seq(Symbols)
      BY <2>1, <2>3, Tuples
    <3> QED BY <2>3, <3>1
  <2> QED BY <2>2, <2>3 DEF Framings
<1>6. PICK k \in Nat, h \in Nat, z \in Nat, b \in Nat, w \in Nat, l \in Nat \ {0} :
        /\ k = Len(emitted) /\ h = Len(heard) /\ z = Len(s)
        /\ b = Len(buffer) /\ w = Len(pipe) /\ l = Len(text)
  BY <1>1, <1>4, <1>5, LenProperties
<1>7. /\ Len(emitted') = k + 1 /\ emitted'[k + 1] = m
      /\ \A i \in 1..k : emitted'[i] = emitted[i]
  BY <1>2, <1>4, <1>6, AppendProperties
<1> DEFINE r == s \o text
           e == [i \in 0..(k + 1) |-> IF i <= k THEN c[i] ELSE z + l]
<1>8. /\ r \in Seq(Symbols) /\ Len(r) = z + l
      /\ \A j \in 1..z : r[j] = s[j]
      /\ \A j \in 1..l : r[z + j] = text[j]
  <2>1. /\ r \in Seq(Symbols) /\ Len(r) = z + l
        /\ \A j \in 1..(z + l) : r[j] = IF j <= z THEN s[j] ELSE text[j - z]
    BY <1>1, <1>5, <1>6, ConcatProperties
  <2>2. \A j \in 1..z : j \in 1..(z + l) /\ j <= z
    OBVIOUS
  <2>3. \A j \in 1..l : z + j \in 1..(z + l) /\ ~(z + j <= z) /\ (z + j) - z = j
    OBVIOUS
  <2> HIDE DEF r
  <2> QED BY <2>1, <2>2, <2>3
<1>9. /\ Len(pipe') = w + l
      /\ \A j \in 1..w : pipe'[j] = pipe[j]
      /\ \A j \in 1..l : pipe'[w + j] = text[j]
  <2>1. /\ Len(pipe') = w + l
        /\ \A j \in 1..(w + l) : pipe'[j] = IF j <= w THEN pipe[j] ELSE text[j - w]
    BY <1>3, <1>4, <1>5, <1>6, ConcatProperties
  <2>2. \A j \in 1..w : j \in 1..(w + l) /\ j <= w
    OBVIOUS
  <2>3. \A j \in 1..l : w + j \in 1..(w + l) /\ ~(w + j <= w) /\ (w + j) - w = j
    OBVIOUS
  <2> QED BY <2>1, <2>2, <2>3
<1>10. /\ e \in [0..(k + 1) -> Nat] /\ e[k + 1] = z + l
       /\ \A i \in 0..k : e[i] = c[i]
  <2>1. c \in [0..k -> Nat]
    BY <1>6 DEF Histories
  <2>2. \A i \in 0..(k + 1) : i <= k => i \in 0..k
    OBVIOUS
  <2>3. \A i \in 0..k : i \in 0..(k + 1) /\ i <= k
    OBVIOUS
  <2>4. k + 1 \in 0..(k + 1) /\ ~(k + 1 <= k)
    OBVIOUS
  <2>5. \A i \in 0..(k + 1) : e[i] \in Nat
    BY <2>1, <2>2
  <2> QED BY <2>3, <2>4, <2>5
<1> HIDE DEF r, e
<1>11. /\ c[0] = 0 /\ c[k] = z
       /\ \A i \in 1..k : c[i] \in 0..z /\ FramedAt(s, c[i - 1], c[i], emitted[i])
  BY <1>1, <1>6 DEF Wrote
<1>12. \A i \in 0..k : c[i] \in 0..z
  <2>1. \A i \in 0..k : i = 0 \/ i \in 1..k
    OBVIOUS
  <2> QED BY <1>11, <2>1
<1>13. ASSUME NEW i \in 1..k PROVE FramedAt(r, e[i - 1], e[i], emitted'[i])
  <2>1. i - 1 \in 0..k /\ i \in 0..k
    OBVIOUS
  <2>2. PICK u \in Nat, v \in 0..z : u = c[i - 1] /\ v = c[i]
    BY <1>11, <1>12, <2>1
  <2>3. PICK t \in Framings(emitted[i]) :
          v = u + Len(t) /\ \A j \in 1..Len(t) : s[u + j] = t[j]
    BY <1>11, <2>2 DEF FramedAt
  <2>4. Len(t) \in Nat
    BY <2>3 DEF Framings
  <2>5. \A j \in 1..Len(t) : r[u + j] = t[j]
    <3>1. \A j \in 1..Len(t) : u + j \in 1..z
      BY <2>3, <2>4
    <3> QED BY <1>8, <2>3, <3>1
  <2>6. e[i - 1] = u /\ e[i] = v /\ emitted'[i] = emitted[i]
    BY <1>7, <1>10, <2>1, <2>2
  <2>7. FramedAt(r, u, v, emitted[i])
    BY <2>3, <2>5 DEF FramedAt
  <2> QED BY <2>6, <2>7
<1>14. FramedAt(r, e[k], e[k + 1], m)
  <2>1. e[k] = z /\ e[k + 1] = z + l
    <3>1. k \in 0..k
      OBVIOUS
    <3> QED BY <1>10, <1>11, <3>1
  <2>2. FramedAt(r, z, z + l, m)
    BY <1>6, <1>8 DEF FramedAt
  <2> QED BY <2>1, <2>2
<1>15. Wrote(r, e)'
  <2>1. ASSUME NEW i \in 1..(k + 1)
        PROVE  e[i] \in 0..(z + l) /\ FramedAt(r, e[i - 1], e[i], emitted'[i])
    <3>1. CASE i = k + 1
      <4>1. (k + 1) - 1 = k
        OBVIOUS
      <4> QED BY <1>7, <1>10, <1>14, <3>1, <4>1
    <3>2. CASE i # k + 1
      <4>1. i \in 1..k /\ i \in 0..k
        BY <3>2
      <4>2. c[i] \in 0..(z + l)
        <5>1. c[i] \in 0..z
          BY <1>11, <4>1
        <5> QED BY <5>1
      <4> QED BY <1>10, <1>13, <4>1, <4>2
    <3> QED BY <3>1, <3>2
  <2>2. e[0] = 0
    <3>1. 0 \in 0..k
      OBVIOUS
    <3> QED BY <1>10, <1>11, <3>1
  <2>3. e[Len(emitted')] = Len(r)
    BY <1>7, <1>8, <1>10
  <2>4. \A i \in 1..Len(emitted') :
          e[i] \in 0..Len(r) /\ FramedAt(r, e[i - 1], e[i], emitted'[i])
    BY <1>7, <1>8, <2>1
  <2> QED BY <2>2, <2>3, <2>4 DEF Wrote, FramedAt
<1>16. Ahead(r, p, buffer)'
  <2>1. /\ z = p + b + w
        /\ \A j \in 1..b : buffer[j] = s[p + j]
        /\ \A j \in 1..w : pipe[j] = s[p + b + j]
    BY <1>1, <1>6 DEF Ahead
  <2>2. z + l = p + b + (w + l)
    BY <2>1
  <2>3. ASSUME NEW j \in 1..b PROVE buffer[j] = r[p + j]
    <3>1. p + j \in 1..z
      BY <2>1
    <3> QED BY <1>8, <2>1, <3>1
  <2>4. ASSUME NEW j \in 1..(w + l) PROVE pipe'[j] = r[p + b + j]
    <3>1. CASE j <= w
      <4>1. j \in 1..w /\ p + b + j \in 1..z
        BY <2>1, <3>1
      <4> QED BY <1>8, <1>9, <2>1, <4>1
    <3>2. CASE ~(j <= w)
      <4>1. PICK i \in 1..l : j = w + i
        <5>1. j - w \in 1..l /\ j = w + (j - w)
          BY <3>2
        <5> QED BY <5>1
      <4>2. p + b + j = z + i
        BY <2>1, <4>1
      <4>3. pipe'[w + i] = text[i] /\ r[z + i] = text[i]
        BY <1>8, <1>9
      <4> QED BY <4>1, <4>2, <4>3
    <3> QED BY <3>1, <3>2
  <2> QED BY <1>2, <1>6, <1>8, <1>9, <2>2, <2>3, <2>4 DEF Ahead
<1>17. Place(r, e, p)'
  <2>1. h <= k /\ \A i \in 1..h : heard[i] = emitted[i]
    BY <1>1, <1>6 DEF Place
  <2>2. /\ h <= k + 1 /\ e[h] = c[h] /\ c[h] \in 0..z
        /\ \A i \in 1..h : i \in 1..k
    BY <1>10, <1>12, <2>1
  <2>3. \A i \in 1..h : heard[i] = emitted'[i]
    BY <1>7, <2>1, <2>2
  <2>4. reader \in {"headers", "body"} => h < k + 1 /\ e[h + 1] = e[h] + 6 /\ length = 3
    <3>1. reader \in {"headers", "body"} => h < k /\ c[h + 1] = c[h] + 6 /\ length = 3
      BY <1>1, <1>6 DEF Place
    <3>2. h < k => h + 1 \in 0..k
      OBVIOUS
    <3> QED BY <1>10, <2>1, <2>2, <3>1, <3>2
  <2>5. reader = "body" => \A j \in 1..Len(body) : body[j] = r[e[h] + 3 + j]
    <3>1. ASSUME reader = "body", NEW j \in 1..Len(body)
          PROVE  body[j] = s[c[h] + 3 + j] /\ c[h] + 3 + j \in 1..z
      <4>1. /\ body[j] = s[c[h] + 3 + j] /\ p = c[h] + 3 + Len(body)
        BY <1>1, <1>6, <3>1 DEF Place
      <4>2. z = p + b + w
        BY <1>1, <1>6 DEF Ahead
      <4>3. PICK a \in Nat, d \in Nat : a = c[h] /\ d = Len(body)
        BY <2>2, LenProperties DEF FrameInv, IInv, TextInv
      <4>4. j \in 1..d /\ p = a + 3 + d
        BY <4>1, <4>3
      <4>5. a + 3 + j \in 1..z
        BY <4>2, <4>4
      <4> QED BY <4>1, <4>3, <4>5
    <3> QED BY <1>8, <2>2, <3>1
  <2>6. /\ reader \in {"none", "line"} => p = e[h]
        /\ reader = "headers" => p = e[h] + 2
        /\ reader = "body" => p = e[h] + 3 + Len(body) /\ (buffer # <<>> => Len(body) = 3)
    BY <1>1, <1>6, <2>2 DEF Place
  <2> QED BY <1>2, <1>6, <1>7, <2>2, <2>3, <2>4, <2>5, <2>6 DEF Place
<1>18. StreamInv'
  <2>1. e \in Histories'
    BY <1>7, <1>10 DEF Histories
  <2> QED BY <1>8, <1>15, <1>16, <1>17, <2>1 DEF StreamInv
<1>19. FailInv'
  BY <1>2 DEF FrameInv, FailInv, Excused, Says
<1> QED BY <1>18, <1>19

(* A step that neither writes nor reads; a new request begins to read at   *)
(* the end of a message.                                                   *)
LEMMA StillFrames ==
  ASSUME StreamInv, ~spoiled, UNCHANGED <<emitted, pipe, buffer, length, body, heard>>,
         UNCHANGED reader \/ (reader \in {"none", "line"} /\ reader' \in {"none", "line"})
  PROVE  StreamInv'
<1>1. PICK s \in Seq(Symbols), c \in Histories, p \in Nat :
        Wrote(s, c) /\ Ahead(s, p, buffer) /\ Place(s, c, p)
  BY DEF StreamInv
<1>2. Ahead(s, p, buffer)'
  BY <1>1 DEF Ahead
<1>3. Place(s, c, p)'
  BY <1>1 DEF Place
<1> QED BY <1>1, <1>2, <1>3, ReadOn

(* A request fails at its write only when the server has gone. *)
LEMMA RequestExcused ==
  ASSUME IInv, FailInv, NEW next, Request(next)
  PROVE  FailInv'
<1>1. Len(calls) \in Nat /\ calls \in Seq({"pending", "answered", "failed"})
  BY LenProperties DEF IInv, CallInv
<1>2. UNCHANGED <<server, spoiled, heard>>
  BY DEF Request
<1>3. ASSUME ~spoiled, NEW k \in 1..Len(calls), calls[k] = "failed" PROVE Excused(k)'
  BY <1>2, <1>3 DEF FailInv, Excused
<1>4. CASE calls' = Append(calls, "pending")
  <2>1. /\ Len(calls') = Len(calls) + 1 /\ calls'[Len(calls) + 1] = "pending"
        /\ \A k \in 1..Len(calls) : calls'[k] = calls[k]
    BY <1>1, <1>4, AppendProperties
  <2> QED BY <1>1, <1>2, <1>3, <2>1 DEF FailInv
<1>5. CASE server = "exited" /\ calls' = Append(calls, "failed")
  BY <1>2, <1>5 DEF FailInv, Excused
<1> QED BY <1>4, <1>5 DEF Request

LEMMA FrameStep == FrameInv /\ [Next]_vars => FrameInv'
<1> SUFFICES ASSUME FrameInv, [Next]_vars PROVE FrameInv'
  OBVIOUS
<1>1. IInv /\ IInv'
  BY InvStep DEF FrameInv
<1>2. CASE spoiled'
  BY <1>1, <1>2 DEF FrameInv, StreamInv, FailInv
<1>3. ASSUME ~spoiled' PROVE StreamInv' /\ FailInv'
  <2>1. CASE UNCHANGED vars
    <3>1. StreamInv'
      <4>1. Histories' = Histories
        BY <2>1 DEF Histories, vars
      <4> QED BY <2>1, <4>1 DEF FrameInv, StreamInv, vars, framing, Wrote, Ahead, Place
    <3> QED BY <2>1, <3>1 DEF FrameInv, FailInv, Excused, vars, framing
  <2>2. CASE Notifies \/ \E k \in inbox : Answers(k)
    <3>1. PICK m \in Messages : Says(m)
      <4>1. CASE Notifies
        <5>1. [id |-> 0, kind |-> "result"] \in Messages
          BY McpAssumption DEF Messages
        <5> QED BY <4>1, <5>1 DEF Notifies
      <4>2. ASSUME NEW k \in inbox, Answers(k) PROVE \E m \in Messages : Says(m)
        <5>1. PICK kind \in {"result", "hollow", "error"} : Says([id |-> k, kind |-> kind])
          BY <4>2 DEF Answers
        <5>2. [id |-> k, kind |-> kind] \in Messages
          BY <1>1, AnswerIsMessage DEF IInv
        <5> QED BY <5>1, <5>2
      <4> QED BY <2>2, <4>1, <4>2
    <3>2. ~spoiled
      BY <1>3, <3>1 DEF Says
    <3> QED BY <3>1, <3>2, SaysFrame
  <2>3. CASE Prints \/ ExitsMidway
    BY <1>3, <2>3 DEF Prints, ExitsMidway
  <2>4. CASE Read
    <3>1. ~spoiled
      BY <1>1, <1>3, <2>4, ReadStep DEF IInv
    <3>2. CASE HeaderLine \/ BadHeader \/ BlankLine
      BY <3>1, <3>2, LinesFrame
    <3>3. CASE FillBuffer \/ BodyChunk
      BY <3>1, <3>3, ChunksFrame
    <3>4. CASE NothingMore \/ MessageLine \/ BodyCutShort \/ BodyDone
      BY <3>1, <3>4, EndsFrame
    <3> QED BY <2>4, <3>2, <3>3, <3>4 DEF Read
  <2>5. CASE ListTools \/ CallTool
    <3>1. PICK next : Request(next)
      BY <2>5 DEF ListTools, CallTool
    <3>2. reader = "none"
      BY <1>1, <2>5 DEF ListTools, CallTool, IInv, CallInv, Waiting
    <3>3. /\ UNCHANGED <<emitted, pipe, spoiled, buffer, length, body, heard>>
          /\ reader' \in {"none", "line"}
      BY <3>1, <3>2 DEF Request
    <3>4. StreamInv'
      BY <1>3, <3>2, <3>3, StillFrames DEF FrameInv
    <3> QED BY <1>1, <3>1, <3>4, RequestExcused DEF FrameInv
  <2>6. CASE Connect
    <3>1. reader = "none"
      BY <1>1, <2>6 DEF Connect, IInv, CallInv, Waiting
    <3>2. StreamInv'
      BY <1>3, <2>6, <3>1, StillFrames DEF FrameInv, Connect
    <3>3. Len(calls') = 1 /\ calls'[1] = "pending"
      BY <2>6 DEF Connect
    <3>4. FailInv'
      BY <3>3 DEF FailInv
    <3> QED BY <3>2, <3>4
  <2>7. CASE \/ ConnectRaises \/ NotifyRaises \/ BeginClose \/ Shut \/ StderrEnds \/ Exits
    <3>1. /\ UNCHANGED <<emitted, pipe, spoiled, calls, reader, buffer, length, body, heard>>
          /\ server' = server \/ server' = "exited"
      BY <2>7 DEF ConnectRaises, NotifyRaises, BeginClose, Shut, ServerGone, Terminate, Kill,
                  Drained, StderrEnds, Exits, framing
    <3>2. StreamInv'
      BY <1>3, <3>1, StillFrames DEF FrameInv
    <3>3. FailInv'
      BY <3>1 DEF FrameInv, FailInv, Excused
    <3> QED BY <3>2, <3>3
  <2> QED BY <2>1, <2>2, <2>3, <2>4, <2>5, <2>6, <2>7 DEF Next, Client, Server, Serves
<1> QED BY <1>1, <1>2, <1>3 DEF FrameInv

LEMMA InitFrame == Init => FrameInv
<1> SUFFICES ASSUME Init PROVE FrameInv
  OBVIOUS
<1>1. StreamInv
  <2> DEFINE c == [i \in 0..0 |-> 0]
  <2>1. /\ emitted = <<>> /\ heard = <<>> /\ buffer = <<>> /\ pipe = <<>> /\ reader = "none"
        /\ Len(<<>>) = 0 /\ <<>> \in Seq(Symbols)
    BY EmptySeq DEF Init
  <2>2. c \in Histories /\ c[0] = 0
    BY <2>1 DEF Histories
  <2>3. Wrote(<<>>, c)
    BY <2>1, <2>2 DEF Wrote
  <2>4. Ahead(<<>>, 0, buffer)
    BY <2>1 DEF Ahead
  <2>5. Place(<<>>, c, 0)
    BY <2>1, <2>2 DEF Place
  <2> QED BY <2>1, <2>2, <2>3, <2>4, <2>5 DEF StreamInv
<1>2. FailInv
  BY EmptySeq DEF Init, FailInv
<1> QED BY <1>1, <1>2, InitInv DEF FrameInv

LEMMA FramesGiveMessages == FrameInv => FramingReassembles
<1> SUFFICES ASSUME FrameInv, ~spoiled PROVE FramingReassembles
  BY DEF FramingReassembles
<1>1. PICK s \in Seq(Symbols), c \in Histories, p \in Nat :
        Wrote(s, c) /\ Ahead(s, p, buffer) /\ Place(s, c, p)
  BY DEF FrameInv, StreamInv
<1> DEFINE h == Len(heard)
<1>2. /\ h \in Nat /\ Len(emitted) \in Nat /\ heard \in Seq(Messages)
      /\ emitted \in Seq(Messages)
  BY LenProperties DEF FrameInv, IInv, TextInv
<1>3. h <= Len(emitted) /\ \A i \in 1..h : heard[i] = emitted[i]
  BY <1>1 DEF Place
<1>4. heard = SubSeq(emitted, 1, h)
  <2>1. \A i \in 1..h : emitted[i] \in Messages
    BY <1>2, <1>3, ElementOfSeq
  <2> HIDE DEF Messages
  <2>2. /\ SubSeq(emitted, 1, h) \in Seq(Messages) /\ Len(SubSeq(emitted, 1, h)) = h
        /\ \A i \in 1..h : SubSeq(emitted, 1, h)[i] = emitted[i]
    BY <1>2, <2>1, SubSeqProperties
  <2> QED BY <1>2, <1>3, <2>2, SeqEqual
<1>5. pipe = <<>> /\ buffer = <<>> /\ reader \in {"none", "line"} => heard = emitted
  <2>1. ASSUME pipe = <<>>, buffer = <<>>, reader \in {"none", "line"} PROVE heard = emitted
    <3>1. p = Len(s) /\ p = c[h]
      <4>1. Len(s) = p + 0 + 0
        BY <1>1, <2>1, EmptySeq DEF Ahead
      <4> QED BY <1>1, <2>1, <4>1 DEF Place
    <3>2. h = Len(emitted)
      <4>1. ASSUME h < Len(emitted) PROVE FALSE
        <5>1. PICK a \in Nat, b \in Nat :
                a = c[h] /\ b = c[h + 1] /\ b <= Len(s)
                /\ FramedAt(s, a, b, emitted[h + 1])
          BY <1>1, <4>1, FirstMessage DEF FrameInv
        <5>2. b = a + 3 \/ b = a + 6
          <6> DEFINE m == emitted[h + 1]
          <6>1. a \in Nat /\ b \in Nat /\ FramedAt(s, a, b, m)
            BY <5>1
          <6> HIDE DEF m
          <6> QED BY ONLY <6>1, FramedShapes, Zenon
        <5> QED BY <3>1, <5>1, <5>2
      <4> QED BY <1>2, <1>3, <4>1
    <3> QED BY <1>2, <1>3, <3>2, SeqEqual
  <2> QED BY <2>1
<1>6. \A k \in 1..Len(calls) : calls[k] = "failed" =>
        \/ server = "exited"
        \/ \E i \in 1..Len(heard) : heard[i].id = k /\ heard[i].kind # "result"
  BY DEF FrameInv, FailInv, Excused
<1> QED BY <1>3, <1>4, <1>5, <1>6 DEF FramingReassembles

(* Any number of messages in either framing, cut into any chunks: what is  *)
(* read is what was written, in order and in full, and no request fails    *)
(* for another reason than the server's (_read_message,                    *)
(* _read_stdout_line, _read_stdout_exactly, request).                      *)
THEOREM AnyChunksReassemble == Spec => []FramingReassembles
BY InitFrame, FrameStep, FramesGiveMessages, PTL DEF Spec
=============================================================================
