-------------------------- MODULE AnswerStream_proofs --------------------------
(***************************************************************************)
(* What holds of AnswerStream for every set of lines that the model's      *)
(* server may send, and every number of them.                              *)
(***************************************************************************)
EXTENDS AnswerStream, FiniteSetTheorems, TLAPS

-----------------------------------------------------------------------------
(* The inductive invariant.                                                *)

\* The events so far begin as they should.
Opened == Len(sent) >= 2 /\ sent[1] = "meta" /\ sent[2] = "citations"
OnlyDeltas(n) == \A m \in 3 .. n : sent[m] = "delta"

\* What was sent, by where the generator is.
EventsOK ==
  /\ gen = "new" => sent = <<>>
  /\ gen = "meta" => sent = <<"meta">>
  /\ gen \in {"cited", "wait", "cancelling"} => Opened /\ OnlyDeltas(Len(sent))
  /\ gen = "finish" =>
       \/ Opened /\ OnlyDeltas(Len(sent))
       \/ sent = <<"meta">> /\ outcome = "failed"
  /\ EventOrder

\* The end of the answer is known before it is recorded, and recorded before
\* the generator ends.
EndOK ==
  /\ gen = "finish" => outcome # "none"
  /\ outcome = "completed" => gen \in {"finish", "last", "ended"}
  /\ gen \in {"last", "ended"} /\ sent # <<>> => saved # "none"
  /\ owner = "done" => gen = "ended"
  /\ saved = "completed" => gen \in {"last", "ended"}

\* Nobody cancels without having been asked to, or after the deadline.
CancelOK ==
  /\ calling["user"] # "idle" => asked
  /\ calling["deadline"] # "idle" =>
       gen \in {"cancelling", "finish", "last", "ended"} /\ outcome # "completed"
  /\ flag => asked \/ calling["deadline"] # "idle"
  /\ response = "open" => worker \in {"attached", "looping", "getting"}
  /\ response = "open" /\ worker # "attached" /\ flag => \E c \in Caller : calling[c] = "flagged"

\* How many lines of the server the worker has taken off the queue; the reader
\* puts one of its own at the end.
Taken == Len(emitted) - Len(lines) + (IF reader = "over" /\ lines # <<>> THEN 1 ELSE 0)

QueueOK ==
  /\ reader = "none" => emitted = <<>> /\ lines = <<>>
  /\ worker \in {"looping", "getting"} => reader # "none"
  /\ worker \in {"none", "spawned", "registered", "requesting", "attached"} => reader = "none"
  /\ Len(emitted) <= MaxLines /\ Taken >= 0 /\ Taken <= Len(emitted)
  /\ \A i \in 1 .. Len(lines) :
       IF reader = "over" /\ i = Len(lines) THEN lines[i] \in {"end", "error"}
                                            ELSE lines[i] = emitted[Taken + i]

\* The worker puts one last piece behind the chunks.
Chunks == Len(pieces) - (IF worker = "over" THEN 1 ELSE 0)

Whole(count) == \E n \in 1 .. Len(emitted) : emitted[n] = "done" /\ count = Tokens(n)

\* While the generator waits, every token taken is either sent or in the queue.
CountOK ==
  /\ gen \in {"new", "meta", "cited"} => content = 0 /\ worker = "none"
  /\ worker = "none" => pieces = <<>>
  /\ gen = "wait" =>
       /\ worker # "none"
       /\ content + Chunks = Tokens(Taken)
       /\ \A i \in 1 .. Chunks : pieces[i] = "chunk"
       /\ worker = "over" =>
            /\ Len(pieces) > 0
            /\ pieces[Len(pieces)] \in {"end", "error"}
            /\ pieces[Len(pieces)] = "end" => flag \/ Whole(content + Chunks)

CompletedOK ==
  /\ outcome = "completed" => Whole(content) \/ asked
  /\ saved = "completed" => Whole(content)

Inv ==
  /\ TypeOK /\ OneAtATime
  /\ EventsOK /\ EndOK /\ CancelOK /\ QueueOK /\ CountOK /\ CompletedOK

-----------------------------------------------------------------------------
(* Counting tokens.                                                        *)

LEMMA TokenSets ==
  ASSUME NEW n \in Nat
  PROVE  /\ IsFiniteSet({m \in 1 .. n : emitted[m] = "content"})
         /\ Tokens(n) \in 0 .. n
<1>1. IsFiniteSet(1 .. n) /\ Cardinality(1 .. n) = n
  BY FS_Interval
<1>2. IsFiniteSet({m \in 1 .. n : emitted[m] = "content"}) /\ Tokens(n) <= n
  BY <1>1, FS_Subset DEF Tokens
<1> QED
  BY <1>2, FS_CardinalityType DEF Tokens

LEMMA NoTokens == Tokens(0) = 0
<1>1. Tokens(0) \in 0 .. 0
  BY TokenSets
<1> QED
  BY <1>1

LEMMA NextToken ==
  ASSUME NEW n \in Nat
  PROVE  Tokens(n + 1) = Tokens(n) + (IF emitted[n + 1] = "content" THEN 1 ELSE 0)
<1> DEFINE S == {m \in 1 .. n : emitted[m] = "content"}
<1>1. IsFiniteSet(S) /\ Cardinality(S) \in Nat
  BY TokenSets, FS_CardinalityType
<1>2. CASE emitted[n + 1] = "content"
  <2>1. {m \in 1 .. n + 1 : emitted[m] = "content"} = S \cup {n + 1} /\ n + 1 \notin S
    BY <1>2
  <2> QED
    BY <1>1, <1>2, <2>1, FS_AddElement DEF Tokens
<1>3. CASE emitted[n + 1] # "content"
  <2>1. {m \in 1 .. n + 1 : emitted[m] = "content"} = S
    BY <1>3
  <2> QED
    BY <1>1, <1>3, <2>1 DEF Tokens
<1> QED
  BY <1>2, <1>3

\* What was counted stays as it is when the server sends more.
LEMMA TokensKept ==
  ASSUME TypeOK, NEW line, emitted' = Append(emitted, line), NEW n \in 0 .. Len(emitted)
  PROVE  Tokens(n)' = Tokens(n)
<1>1. emitted \in Seq(Lines)
  BY DEF TypeOK
<1>2. {m \in 1 .. n : emitted'[m] = "content"} = {m \in 1 .. n : emitted[m] = "content"}
  BY <1>1
<1> QED
  BY <1>2 DEF Tokens

-----------------------------------------------------------------------------
(* Types.                                                                  *)

LEMMA ReturnTyped ==
  ASSUME TypeOK, NEW piece \in {"chunk", "end", "error"}, Return(piece)
  PROVE  /\ worker' = "over" /\ pieces' \in Seq({"chunk", "end", "error"})
         /\ response' \in {"none", "open", "closed"}
BY DEF TypeOK, Return, Put, CloseResponse

Events == {"meta", "citations", "delta", "done", "error"}
Pieces == {"chunk", "end", "error"}

LEMMA YieldTyped ==
  ASSUME TypeOK, NEW event \in Events, Yield(event)
  PROVE  sent' \in Seq(Events) /\ pending' = FALSE
BY DEF TypeOK, Yield, Events

LEMMA OwnerTyped == ASSUME TypeOK, Owner \/ CleanUp PROVE TypeOK'
BY DEF TypeOK, Owner, CleanUp, CallNext, AwaitNext, Close, RecordDisconnect, genVars, workerVars,
   serverVars, cancelVars

LEMMA GeneratorTyped == ASSUME Inv, Generator \/ Deadline PROVE TypeOK'
<1>1. TypeOK
  BY DEF Inv
<1>2. CASE SendMeta \/ Prepare \/ Finish \/ SafetyNet
  <2>1. UNCHANGED <<owner, gone, content, worker, pieces, reader, lines, emitted, response, flag,
                    calling, asked>>
    BY <1>2 DEF SendMeta, Prepare, Finish, SafetyNet, workerVars, serverVars, cancelVars
  <2>2. \/ sent' = sent /\ pending' \in {pending, FALSE}
        \/ \E event \in Events : Yield(event)
    BY <1>2 DEF SendMeta, Prepare, Finish, SafetyNet, Events
  <2>3. sent' \in Seq(Events) /\ pending' \in BOOLEAN
    BY <1>1, <2>2, YieldTyped DEF TypeOK, Events
  <2>4. /\ gen' \in {"meta", "cited", "finish", "last", "ended"} /\ outcome' \in {"none", "completed", "failed"}
        /\ saved' \in {"none", "completed", "failed", "cancelled", "reconciling", "refused"}
    BY <1>1, <1>2 DEF SendMeta, Prepare, Finish, SafetyNet, TypeOK
  <2> QED
    BY <1>1, <2>1, <2>3, <2>4 DEF TypeOK, Events
<1>3. CASE StartWorker \/ NoticeGone \/ Exhausted \/ AfterDeadline \/ Deadline
  <2>1. UNCHANGED <<owner, gone, sent, content, pieces, reader, lines, emitted, response, flag, asked>>
    BY <1>3 DEF StartWorker, NoticeGone, Exhausted, AfterDeadline, Deadline, ownerVars, workerVars,
       serverVars, cancelVars
  <2>2. /\ gen' \in {"wait", "ended", "finish", "cancelling"}
        /\ outcome' \in {"none", "completed", "failed"} /\ pending' \in BOOLEAN
        /\ saved' \in {"none", "completed", "failed", "cancelled", "reconciling", "refused"}
    BY <1>1, <1>3 DEF StartWorker, NoticeGone, Exhausted, AfterDeadline, Deadline, RecordDisconnect,
       ownerVars, TypeOK
  <2>3. /\ worker' = "spawned" \/ worker' = worker
        /\ calling' = calling \/ calling' = [calling EXCEPT !["deadline"] = "called"]
    BY <1>3 DEF StartWorker, NoticeGone, Exhausted, AfterDeadline, Deadline, workerVars, cancelVars
  <2>4. calling' \in [Caller -> {"idle", "called", "found", "flagged", "over"}]
    BY <1>1, <2>3 DEF TypeOK
  <2> QED
    BY <1>1, <2>1, <2>2, <2>3, <2>4 DEF TypeOK
<1>4. CASE TakePiece
  <2>1. pieces \in Seq({"chunk", "end", "error"}) /\ pieces # <<>> /\ pieces' = Tail(pieces)
    BY <1>1, <1>4 DEF TypeOK, TakePiece
  <2>2. pieces' \in Seq({"chunk", "end", "error"})
    BY <2>1
  <2>3. content' \in 0 .. MaxLines
    <3>1. CASE content' = content
      BY <1>1, <3>1 DEF TypeOK
    <3>2. CASE content' # content
      <4>1. content' = content + 1 /\ pieces[1] = "chunk" /\ gen = "wait"
        <5>1. Head(pieces) = pieces[1]
          BY <2>1
        <5>2. Head(pieces) = "chunk" /\ content' = content + 1 /\ gen = "wait"
          BY <1>4, <3>2 DEF TakePiece
        <5> QED
          BY <5>1, <5>2
      <4>2. Len(pieces) \in Nat /\ Len(pieces) > 0
        BY <2>1
      <4>3. Chunks >= 1
        <5>1. CASE worker # "over"
          BY <4>2, <5>1 DEF Chunks
        <5>2. CASE worker = "over"
          <6>1. pieces[Len(pieces)] # "chunk"
            BY <4>1, <5>2 DEF Inv, CountOK
          <6> QED
            BY <4>1, <4>2, <5>2, <6>1 DEF Chunks
        <5> QED
          BY <5>1, <5>2
      <4>4. Taken \in Nat /\ Taken <= MaxLines
        <5>1. Len(emitted) \in Nat /\ Len(lines) \in Nat
          BY <1>1 DEF TypeOK
        <5>2. Taken \in Int
          BY <5>1 DEF Taken
        <5> QED
          BY <5>1, <5>2, StreamAssumption DEF Inv, QueueOK
      <4>5. Tokens(Taken) <= Taken /\ Tokens(Taken) \in Nat
        <5>1. PICK t \in Nat : t = Taken
          BY <4>4
        <5>2. Tokens(t) \in 0 .. t
          BY TokenSets
        <5>3. Tokens(t) <= t /\ Tokens(t) \in Nat
          BY <5>2
        <5> QED
          BY <5>1, <5>3
      <4>6. content + Chunks = Tokens(Taken)
        BY <4>1 DEF Inv, CountOK
      <4>7. Chunks \in Int /\ content \in Nat
        BY <1>1, <4>2 DEF Chunks, TypeOK
      <4> QED
        BY <4>1, <4>3, <4>4, <4>5, <4>6, <4>7, StreamAssumption
    <3> QED
      BY <3>1, <3>2
  <2> QED
    <3>1. UNCHANGED <<owner, gone, saved, worker, reader, lines, emitted, response, flag, calling, asked>>
      BY <1>4 DEF TakePiece, serverVars, cancelVars
    <3>2. UNCHANGED <<sent, pending>> \/ Yield("delta")
      BY <1>4 DEF TakePiece
    <3>3. sent' \in Seq(Events) /\ pending' \in BOOLEAN
      BY <1>1, <3>2, YieldTyped DEF TypeOK, Events
    <3>4. gen' \in {"wait", "finish"} /\ outcome' \in {"none", "completed", "failed"}
      BY <1>1, <1>4 DEF TakePiece, TypeOK
    <3> QED
      BY <1>1, <2>2, <2>3, <3>1, <3>3, <3>4 DEF TypeOK, Events
<1> QED
  BY <1>2, <1>3, <1>4 DEF Generator

LEMMA WorkerTyped == ASSUME TypeOK, Worker PROVE TypeOK'
<1>1. CASE Register \/ SendRequest \/ Loop
  BY <1>1, ReturnTyped
  DEF TypeOK, Register, SendRequest, Loop, ownerVars, genVars, serverVars, cancelVars
<1>2. CASE Answered \/ UpstreamTimeout
  BY <1>2, ReturnTyped
  DEF TypeOK, Answered, UpstreamTimeout, Fail, ownerVars, genVars, serverVars, cancelVars
<1>3. CASE CheckResponse
  <2>1. UNCHANGED <<owner, pending, gone, gen, sent, content, outcome, saved, lines, emitted, flag,
                    calling, asked>>
    BY <1>3 DEF CheckResponse, ownerVars, genVars, cancelVars
  <2>2. /\ worker' \in {"looping", "over"} /\ pieces' \in Seq(Pieces)
        /\ response' \in {"none", "open", "closed"} /\ reader' \in {"none", "blocked", "over"}
    BY <1>3, ReturnTyped DEF TypeOK, CheckResponse, Pieces
  <2> QED
    BY <2>1, <2>2 DEF TypeOK, Pieces
<1>4. CASE GetLine
  <2>1. lines' \in Seq(Lines \cup {"end", "error"})
    BY <1>4 DEF TypeOK, GetLine
  <2>2. /\ worker' \in {"looping", "over"} /\ pieces' \in Seq({"chunk", "end", "error"})
        /\ response' \in {"none", "open", "closed"}
    <3>1. \/ \E piece \in Pieces : Return(piece)
          \/ worker' = "looping" /\ response' = response
             /\ (pieces' = Append(pieces, "chunk") \/ pieces' = pieces)
      BY <1>4 DEF GetLine, AfterLine, Fail, Put, Pieces
    <3>2. CASE \E piece \in Pieces : Return(piece)
      BY <3>2, ReturnTyped DEF Pieces
    <3>3. CASE worker' = "looping" /\ response' = response
               /\ (pieces' = Append(pieces, "chunk") \/ pieces' = pieces)
      <4>1. pieces \in Seq({"chunk", "end", "error"}) /\ response \in {"none", "open", "closed"}
        BY DEF TypeOK
      <4> QED
        BY <3>3, <4>1
    <3> QED
      BY <3>1, <3>2, <3>3
  <2> QED
    BY <1>4, <2>1, <2>2 DEF TypeOK, GetLine, ownerVars, genVars, cancelVars
<1> QED
  BY <1>1, <1>2, <1>3, <1>4 DEF Worker

LEMMA ServerTyped == ASSUME TypeOK, SendLine \/ EndRead PROVE TypeOK'
<1>1. UNCHANGED <<owner, pending, gone, gen, sent, content, outcome, saved, worker, pieces, response,
                  flag, calling, asked>>
  BY DEF SendLine, EndRead, ownerVars, genVars, workerVars, cancelVars
<1>2. /\ emitted' \in Seq(Lines) /\ lines' \in Seq(Lines \cup {"end", "error"})
      /\ reader' \in {"none", "blocked", "over"}
  <2>1. CASE SendLine
    BY <2>1 DEF TypeOK, SendLine
  <2>2. CASE EndRead
    BY <2>2 DEF TypeOK, EndRead
  <2> QED
    BY <2>1, <2>2
<1> QED
  BY <1>1, <1>2 DEF TypeOK

LEMMA CancelTyped == ASSUME TypeOK, AskCancel \/ CancelCall PROVE TypeOK'
<1>1. UNCHANGED <<owner, pending, gone, gen, sent, content, outcome, saved, worker, pieces, reader,
                  lines, emitted>>
  BY DEF AskCancel, CancelCall, LookUp, SetFlag, CloseOpen, ownerVars, genVars, workerVars, serverVars
<1>2. /\ calling' \in [Caller -> {"idle", "called", "found", "flagged", "over"}]
      /\ flag' \in BOOLEAN /\ asked' \in BOOLEAN /\ response' \in {"none", "open", "closed"}
  BY DEF TypeOK, AskCancel, CancelCall, LookUp, SetFlag, CloseOpen, CloseResponse
<1> QED
  BY <1>1, <1>2 DEF TypeOK

LEMMA TypeStep == ASSUME Inv, [Next]_vars PROVE TypeOK'
<1>1. TypeOK
  BY DEF Inv
<1>2. CASE UNCHANGED vars
  BY <1>1, <1>2 DEF TypeOK, vars
<1> QED
  BY <1>1, <1>2, OwnerTyped, GeneratorTyped, WorkerTyped, ServerTyped, CancelTyped DEF Next

-----------------------------------------------------------------------------
(* The response, the generator and what is recorded.                       *)

\* Only the response and the generator change what they keep.
OwnGen == <<owner, pending, gone, gen, sent, content, outcome, saved>>

LEMMA OthersKeep ==
  ASSUME Worker \/ SendLine \/ EndRead \/ AskCancel \/ CancelCall
  PROVE  UNCHANGED OwnGen
BY DEF OwnGen, Worker, SendLine, EndRead, AskCancel, CancelCall, ownerVars, genVars, Register, SendRequest, Answered,
   CheckResponse, Loop, GetLine, UpstreamTimeout, LookUp, SetFlag, CloseOpen

LEMMA StepKinds ==
  ASSUME [Next]_vars
  PROVE  \/ Owner \/ CleanUp \/ Generator \/ Deadline
         \/ UNCHANGED OwnGen
BY OthersKeep DEF Next, vars, OwnGen

LEMMA OneAtATimeStep == ASSUME Inv, [Next]_vars PROVE OneAtATime'
<1>1. TypeOK /\ OneAtATime
  BY DEF Inv
<1>2. CASE Owner \/ CleanUp
  BY <1>1, <1>2 DEF OneAtATime, Owner, CallNext, AwaitNext, Close, CleanUp
<1>3. CASE Generator \/ Deadline
  BY <1>1, <1>3
  DEF OneAtATime, Generator, Deadline, SendMeta, Prepare, StartWorker, TakePiece, NoticeGone,
      AfterDeadline, Finish, SafetyNet, Exhausted, ownerVars, Yield
<1>4. CASE UNCHANGED OwnGen
  BY <1>1, <1>4 DEF OneAtATime, OwnGen
<1> QED
  BY <1>2, <1>3, <1>4, StepKinds

LEMMA EndStep == ASSUME Inv, [Next]_vars PROVE EndOK'
<1>1. TypeOK /\ OneAtATime /\ EventsOK /\ EndOK
  BY DEF Inv
<1>2. CASE Owner \/ CleanUp
  <2>1. CASE CallNext \/ AwaitNext \/ CleanUp
    BY <1>1, <2>1 DEF EndOK, CallNext, AwaitNext, CleanUp, genVars
  <2>2. CASE Close
    <3>1. owner' = "done" /\ gen' = "ended" /\ UNCHANGED <<sent, outcome>>
      BY <2>2 DEF Close
    <3>2. saved' = saved \/ (saved = "none" /\ saved' \in {"reconciling", "refused"})
      BY <2>2 DEF Close, RecordDisconnect
    <3>3. sent # <<>> => saved' # "none"
      BY <1>1, <2>2 DEF Close, RecordDisconnect, EndOK, EventsOK
    <3> QED
      BY <1>1, <3>1, <3>2, <3>3 DEF EndOK
  <2> QED
    BY <1>2, <2>1, <2>2 DEF Owner
<1>3. ASSUME Generator \/ Deadline PROVE EndOK'
  <2>1. pending /\ owner # "done"
    BY <1>1, <1>3
    DEF OneAtATime, Generator, Deadline, SendMeta, Prepare, StartWorker, TakePiece, NoticeGone,
        AfterDeadline, Finish, SafetyNet, Exhausted
  <2>2. owner' = owner
    BY <1>3
    DEF Generator, Deadline, SendMeta, Prepare, StartWorker, TakePiece, NoticeGone,
        AfterDeadline, Finish, SafetyNet, Exhausted, ownerVars
  <2>3. CASE SendMeta \/ Prepare \/ StartWorker \/ AfterDeadline \/ Deadline
    BY <1>1, <2>1, <2>2, <2>3
    DEF EndOK, SendMeta, Prepare, StartWorker, AfterDeadline, Deadline, ownerVars
  <2>4. CASE TakePiece
    <3>1. saved' = saved /\ gen = "wait" /\ gen' \in {"wait", "finish"}
          /\ (gen' = "finish" => outcome' # "none") /\ (gen' = "wait" => outcome' = outcome)
      BY <2>4 DEF TakePiece
    <3> QED
      BY <1>1, <2>1, <2>2, <3>1 DEF EndOK
  <2>5. CASE NoticeGone \/ Exhausted
    BY <1>1, <2>1, <2>2, <2>5 DEF EndOK, NoticeGone, Exhausted, RecordDisconnect
  <2>6. CASE Finish \/ SafetyNet
    BY <1>1, <2>1, <2>2, <2>6 DEF EndOK, Finish, SafetyNet
  <2> QED
    BY <1>3, <2>3, <2>4, <2>5, <2>6 DEF Generator
<1>4. CASE UNCHANGED OwnGen
  BY <1>1, <1>4 DEF EndOK, OwnGen
<1> QED
  BY <1>2, <1>3, <1>4, StepKinds

\* Events that follow those of an answer that has begun.
LEMMA MoreEvents ==
  ASSUME TypeOK, EventOrder, NEW event \in {"delta", "done", "error"}, sent' = Append(sent, event),
         \/ Opened /\ OnlyDeltas(Len(sent))
         \/ sent = <<"meta">> /\ event = "error"
  PROVE  /\ EventOrder'
         /\ Len(sent) >= 2 /\ event = "delta" => Opened' /\ OnlyDeltas(Len(sent))'
<1>1. /\ sent \in Seq(Events) /\ Len(sent) \in Nat /\ Len(sent') = Len(sent) + 1
      /\ sent'[Len(sent) + 1] = event /\ \A m \in 1 .. Len(sent) : sent'[m] = sent[m]
  BY DEF TypeOK, Events
<1>2. CASE Opened /\ OnlyDeltas(Len(sent))
  <2>1. Opened' /\ \A m \in 3 .. Len(sent) : sent'[m] = "delta"
    BY <1>1, <1>2 DEF Opened, OnlyDeltas
  <2>2. event = "delta" => OnlyDeltas(Len(sent))'
    BY <1>1, <2>1 DEF OnlyDeltas
  <2>3. ASSUME NEW n \in 1 .. Len(sent) + 1
        PROVE  /\ (sent'[n] = "meta") <=> (n = 1)
               /\ sent'[n] = "citations" => n = 2
               /\ sent'[n] \in {"delta", "done"} => n > 2 /\ sent'[2] = "citations"
               /\ sent'[n] \in {"done", "error"} => n = Len(sent')
    <3>1. n = 1 \/ n = 2 \/ n \in 3 .. Len(sent) \/ n = Len(sent) + 1
      BY <1>1
    <3>2. Len(sent) >= 2 /\ sent'[1] = "meta" /\ sent'[2] = "citations"
      BY <1>1, <1>2 DEF Opened
    <3> QED
      BY <1>1, <2>1, <3>1, <3>2
  <2> QED
    BY <1>1, <2>1, <2>2, <2>3 DEF EventOrder
<1>3. CASE sent = <<"meta">> /\ event = "error"
  <2>1. Len(sent) = 1 /\ sent[1] = "meta"
    BY <1>3
  <2>2. sent'[1] = "meta" /\ sent'[2] = "error" /\ Len(sent') = 2
    BY <1>1, <1>3, <2>1
  <2> QED
    BY <1>3, <2>1, <2>2 DEF EventOrder
<1> QED
  BY <1>2, <1>3

LEMMA EventsStep == ASSUME Inv, [Next]_vars PROVE EventsOK'
<1>1. TypeOK /\ EventsOK /\ EndOK /\ EventOrder
  BY DEF Inv, EventsOK
<1>2. ASSUME sent' = sent, gen' = gen, outcome' = outcome PROVE EventsOK'
  BY <1>1, <1>2 DEF EventsOK, EventOrder, Opened, OnlyDeltas
<1>3. ASSUME sent' = sent, gen' \in {"last", "ended"} PROVE EventsOK'
  BY <1>1, <1>3 DEF EventsOK, EventOrder
<1>4. CASE Owner \/ CleanUp
  BY <1>2, <1>3, <1>4 DEF Owner, CallNext, AwaitNext, Close, CleanUp, genVars
<1>5. CASE SendMeta
  <2>1. sent' = <<"meta">> /\ gen' = "meta"
    BY <1>1, <1>5 DEF SendMeta, Yield, EventsOK
  <2>2. Len(sent') = 1 /\ sent'[1] = "meta"
    BY <2>1
  <2> QED
    BY <2>1, <2>2 DEF EventsOK, EventOrder
<1>6. CASE Prepare
  <2>1. sent = <<"meta">>
    BY <1>1, <1>6 DEF Prepare, EventsOK
  <2>2. CASE gen' = "cited"
    <3>1. sent' = <<"meta", "citations">>
      BY <1>6, <2>1, <2>2 DEF Prepare, Yield
    <3>2. Len(sent') = 2 /\ sent'[1] = "meta" /\ sent'[2] = "citations"
      BY <3>1
    <3>3. Opened' /\ OnlyDeltas(Len(sent))' /\ EventOrder'
      BY <3>2 DEF Opened, OnlyDeltas, EventOrder
    <3> QED
      BY <2>2, <3>3 DEF EventsOK
  <2>3. CASE gen' # "cited"
    <3>1. gen' = "finish" /\ outcome' = "failed" /\ sent' = sent
      BY <1>6, <2>3 DEF Prepare
    <3> QED
      BY <1>1, <2>1, <3>1 DEF EventsOK, EventOrder
  <2> QED
    BY <2>2, <2>3
<1>7. CASE StartWorker \/ Deadline \/ AfterDeadline
  <2>1. /\ sent' = sent /\ gen \in {"cited", "wait", "cancelling"}
        /\ gen' \in {"wait", "cancelling", "finish"}
    BY <1>7 DEF StartWorker, Deadline, AfterDeadline
  <2>2. Opened' /\ OnlyDeltas(Len(sent))' /\ EventOrder'
    BY <1>1, <2>1 DEF EventsOK, Opened, OnlyDeltas, EventOrder
  <2> QED
    BY <2>1, <2>2 DEF EventsOK
<1>8. CASE TakePiece
  <2>1. Opened /\ OnlyDeltas(Len(sent)) /\ gen = "wait" /\ gen' \in {"wait", "finish"}
        /\ Len(sent) >= 2
    BY <1>1, <1>8 DEF EventsOK, TakePiece, Opened
  <2>2. CASE sent' = sent
    BY <1>1, <2>1, <2>2 DEF EventsOK, EventOrder, Opened, OnlyDeltas
  <2>3. CASE sent' = Append(sent, "delta")
    BY <1>1, <2>1, <2>3, MoreEvents DEF EventsOK
  <2> QED
    BY <1>8, <2>2, <2>3 DEF TakePiece, Yield
<1>9. CASE NoticeGone \/ Exhausted
  BY <1>3, <1>9 DEF NoticeGone, Exhausted
<1>10. CASE (Finish \/ SafetyNet) /\ sent' # sent
  <2>1. PICK event \in {"done", "error"} :
          sent' = Append(sent, event) /\ (saved' = "completed" <=> event = "done")
    BY <1>10 DEF Finish, SafetyNet, Yield
  <2>2. gen = "finish" /\ gen' \in {"last", "ended"} /\ (outcome = "failed" => saved' # "completed")
    BY <1>10 DEF Finish, SafetyNet
  <2>3. \/ Opened /\ OnlyDeltas(Len(sent))
        \/ sent = <<"meta">> /\ event = "error"
    BY <1>1, <2>1, <2>2 DEF EventsOK
  <2>4. EventOrder'
    BY <1>1, <2>1, <2>3, MoreEvents
  <2> QED
    BY <2>2, <2>4 DEF EventsOK
<1>11. CASE (Finish \/ SafetyNet) /\ sent' = sent
  BY <1>3, <1>11 DEF Finish, SafetyNet
<1>12. CASE UNCHANGED OwnGen
  BY <1>2, <1>12 DEF OwnGen
<1> QED
  BY <1>4, <1>5, <1>6, <1>7, <1>8, <1>9, <1>10, <1>11, <1>12, StepKinds DEF Generator

-----------------------------------------------------------------------------
(* Cancelling.                                                             *)

LEMMA CancelStep == ASSUME Inv, [Next]_vars PROVE CancelOK'
<1>1. TypeOK /\ EndOK /\ CancelOK /\ CountOK
  BY DEF Inv
<1>2. ASSUME UNCHANGED <<cancelVars, response, worker, outcome>>, gen' = gen \/ gen' = "ended"
      PROVE  CancelOK'
  BY <1>1, <1>2 DEF CancelOK, cancelVars
<1>3. CASE Owner \/ CleanUp \/ SendLine \/ EndRead
  BY <1>2, <1>3
  DEF Owner, CallNext, AwaitNext, Close, CleanUp, SendLine, EndRead, genVars, workerVars
<1>4. CASE Generator
  <2>1. UNCHANGED <<cancelVars, response>>
    BY <1>4
    DEF Generator, SendMeta, Prepare, StartWorker, TakePiece, NoticeGone, AfterDeadline, Finish, SafetyNet,
        Exhausted
  <2>2. worker' = worker \/ (gen = "cited" /\ worker' = "spawned")
    BY <1>4
    DEF Generator, SendMeta, Prepare, StartWorker, TakePiece, NoticeGone, AfterDeadline, Finish, SafetyNet,
        Exhausted, workerVars
  <2>3. response = "open" => worker' = worker
    BY <1>1, <2>2 DEF CancelOK, CountOK
  <2>4. calling["deadline"] # "idle" =>
          gen' \in {"finish", "last", "ended"} /\ outcome' # "completed"
    BY <1>1, <1>4
    DEF CancelOK, Generator, SendMeta, Prepare, StartWorker, TakePiece, NoticeGone, AfterDeadline,
        Finish, SafetyNet, Exhausted
  <2> QED
    BY <1>1, <2>1, <2>3, <2>4 DEF CancelOK, cancelVars
<1>5. CASE Deadline
  <2>1. /\ UNCHANGED <<response, worker, outcome, flag, asked>>
        /\ calling' = [calling EXCEPT !["deadline"] = "called"]
        /\ gen = "wait" /\ gen' = "cancelling"
    BY <1>5 DEF Deadline, workerVars
  <2>2. calling["deadline"] = "idle" /\ outcome # "completed"
    BY <1>1, <2>1 DEF CancelOK, EndOK
  <2>3. calling'["deadline"] = "called" /\ calling'["user"] = calling["user"]
    BY <1>1, <2>1 DEF TypeOK, Caller
  <2> QED
    BY <1>1, <2>1, <2>2, <2>3 DEF CancelOK, Caller
<1>6. CASE Worker
  <2>1. UNCHANGED <<cancelVars, gen, outcome>>
    BY <1>6
    DEF Worker, Register, SendRequest, Answered, CheckResponse, Loop, GetLine, UpstreamTimeout,
        genVars
  <2>2. CASE \E piece \in Pieces : Return(piece)
    BY <1>1, <2>1, <2>2 DEF CancelOK, Return, CloseResponse, cancelVars
  <2>3. CASE ~ \E piece \in Pieces : Return(piece)
    <3>1. \/ worker' = "attached"
          \/ worker = "attached" /\ worker' = "looping" /\ ~flag /\ response' = response
          \/ /\ worker \in {"looping", "getting"} /\ worker' \in {"looping", "getting"}
             /\ response' = response
          \/ worker \in {"spawned", "registered"} /\ response' = response
      BY <1>6, <2>3
      DEF Worker, Register, SendRequest, Answered, CheckResponse, Loop, GetLine, UpstreamTimeout,
          Fail, AfterLine, Pieces
    <3> QED
      BY <1>1, <2>1, <3>1 DEF CancelOK, cancelVars
  <2> QED
    BY <2>2, <2>3
<1>7. CASE AskCancel
  <2>1. /\ UNCHANGED <<response, worker, outcome, flag, gen>> /\ asked' = TRUE
        /\ calling["user"] = "idle" /\ calling' = [calling EXCEPT !["user"] = "called"]
    BY <1>7 DEF AskCancel, workerVars, genVars
  <2>2. calling'["user"] = "called" /\ calling'["deadline"] = calling["deadline"]
    BY <1>1, <2>1 DEF TypeOK, Caller
  <2> QED
    BY <1>1, <2>1, <2>2 DEF CancelOK, Caller
<1>8. CASE CancelCall
  <2>1. PICK c \in Caller : LookUp(c) \/ SetFlag(c) \/ CloseOpen(c)
    BY <1>8 DEF CancelCall
  <2>2. UNCHANGED <<worker, outcome, gen, asked>>
    BY <2>1 DEF LookUp, SetFlag, CloseOpen, workerVars, genVars
  <2>3. /\ calling[c] \in {"called", "found", "flagged"} /\ calling'[c] # "idle"
        /\ \A d \in Caller \ {c} : calling'[d] = calling[d]
    BY <1>1, <2>1 DEF TypeOK, LookUp, SetFlag, CloseOpen
  <2>4. \A d \in Caller : calling'[d] # "idle" <=> calling[d] # "idle"
    BY <2>3
  <2>5. calling[c] # "idle" /\ (asked \/ calling["deadline"] # "idle")
    BY <1>1, <2>1, <2>3 DEF CancelOK, Caller
  <2>6. CASE LookUp(c)
    <3>1. flag' = flag /\ response' = response /\ calling[c] = "called"
      BY <2>6 DEF LookUp
    <3>2. (\E d \in Caller : calling[d] = "flagged") => \E d \in Caller : calling'[d] = "flagged"
      BY <2>3, <3>1
    <3> QED
      BY <1>1, <2>2, <2>4, <3>1, <3>2 DEF CancelOK, Caller
  <2>7. CASE SetFlag(c)
    <3>1. flag' = TRUE /\ response' = response /\ calling'[c] = "flagged"
      BY <1>1, <2>7 DEF SetFlag, TypeOK
    <3> QED
      BY <1>1, <2>2, <2>4, <2>5, <3>1 DEF CancelOK, Caller
  <2>8. CASE CloseOpen(c)
    <3>1. flag' = flag /\ response' # "open"
      BY <2>8 DEF CloseOpen, CloseResponse
    <3> QED
      BY <1>1, <2>2, <2>4, <3>1 DEF CancelOK, Caller
  <2> QED
    BY <2>1, <2>6, <2>7, <2>8
<1>9. CASE UNCHANGED vars
  BY <1>2, <1>9 DEF vars, cancelVars
<1> QED
  BY <1>3, <1>4, <1>5, <1>6, <1>7, <1>8, <1>9 DEF Next

-----------------------------------------------------------------------------
(* The queue of lines.                                                     *)

LEMMA EmptyOrNot ==
  ASSUME NEW S, NEW s \in Seq(S)
  PROVE  s # <<>> <=> Len(s) > 0
OBVIOUS

LEMMA LineTypes ==
  ASSUME TypeOK
  PROVE  /\ emitted \in Seq(Lines) /\ Len(emitted) \in Nat
         /\ lines \in Seq(Lines \cup {"end", "error"}) /\ Len(lines) \in Nat
         /\ lines # <<>> <=> Len(lines) > 0
         /\ Taken \in Int
<1>1. emitted \in Seq(Lines) /\ lines \in Seq(Lines \cup {"end", "error"})
  BY DEF TypeOK
<1>2. Len(emitted) \in Nat /\ Len(lines) \in Nat /\ (lines # <<>> <=> Len(lines) > 0)
  BY <1>1
<1> QED
  BY <1>1, <1>2 DEF Taken

\* Nothing happens to the queue, whatever the worker does.
LEMMA QueueSame ==
  ASSUME QueueOK, UNCHANGED serverVars,
         worker' \in {"looping", "getting"} => reader # "none",
         worker' \in {"none", "spawned", "registered", "requesting", "attached"} => reader = "none"
  PROVE  QueueOK' /\ Taken' = Taken
<1>1. reader' = reader /\ lines' = lines /\ emitted' = emitted
  BY DEF serverVars
<1>2. Taken' = Taken
  BY <1>1 DEF Taken
<1> QED
  BY <1>1, <1>2 DEF QueueOK

\* The worker takes one of the server's lines, or the last one, the reader's.
LEMMA LineTaken ==
  ASSUME TypeOK, QueueOK, lines # <<>>, lines' = Tail(lines), UNCHANGED <<reader, emitted>>
  PROVE  \/ /\ Taken' = Taken + 1 /\ Taken + 1 <= Len(emitted) /\ Head(lines) = emitted[Taken + 1]
            /\ Head(lines) \in Lines
         \/ /\ Taken' = Taken /\ Head(lines) \in {"end", "error"}
            /\ reader = "over" /\ Len(lines) = 1
<1>1. /\ Len(emitted) \in Nat /\ Len(lines) \in Nat /\ Len(lines) > 0 /\ Taken \in Int
      /\ Len(lines') = Len(lines) - 1 /\ Head(lines) = lines[1]
      /\ (lines' # <<>> <=> Len(lines) > 1)
  <2>1. /\ lines \in Seq(Lines \cup {"end", "error"}) /\ Len(emitted) \in Nat
        /\ Len(lines) \in Nat /\ Len(lines) > 0 /\ Taken \in Int
    BY LineTypes
  <2>2. /\ lines' \in Seq(Lines \cup {"end", "error"}) /\ Len(lines') = Len(lines) - 1
        /\ Head(lines) = lines[1]
    BY <2>1
  <2>3. lines' # <<>> <=> Len(lines') > 0
    BY <2>2, EmptyOrNot
  <2> QED
    BY <2>1, <2>2, <2>3
<1>2. Taken >= 0 /\ Taken <= Len(emitted)
  BY DEF QueueOK
<1>3. CASE reader = "over" /\ Len(lines) = 1
  <2>1. lines[1] \in {"end", "error"}
    <3>1. 1 \in 1 .. Len(lines)
      BY <1>1
    <3> QED
      BY <1>3, <3>1 DEF QueueOK
  <2>2. Taken = Len(emitted)
    BY <1>1, <1>3 DEF Taken
  <2>3. Taken' = Len(emitted)
    <3>1. Len(lines') = 0 /\ ~(lines' # <<>>)
      BY <1>1, <1>3
    <3> QED
      BY <1>1, <3>1 DEF Taken
  <2> QED
    BY <1>1, <1>3, <2>1, <2>2, <2>3
<1>4. CASE ~(reader = "over" /\ Len(lines) = 1)
  <2>1. lines[1] = emitted[Taken + 1]
    <3>1. 1 \in 1 .. Len(lines) /\ ~(reader = "over" /\ 1 = Len(lines))
      BY <1>1, <1>4
    <3> QED
      BY <3>1 DEF QueueOK
  <2>2. Taken' = Taken + 1 /\ Taken + 1 <= Len(emitted)
    BY <1>1, <1>4 DEF Taken
  <2>3. emitted[Taken + 1] \in Lines
    BY <1>1, <1>2, <2>2, LineTypes
  <2> QED
    BY <1>1, <2>1, <2>2, <2>3
<1> QED
  BY <1>3, <1>4

LEMMA QueueStep == ASSUME Inv, [Next]_vars PROVE QueueOK'
<1>1. TypeOK /\ QueueOK /\ CountOK
  BY DEF Inv
<1>2. CASE Owner \/ CleanUp \/ Deadline \/ AskCancel \/ CancelCall \/ UNCHANGED vars
  <2>1. UNCHANGED <<serverVars, worker>>
    BY <1>2
    DEF Owner, CallNext, AwaitNext, Close, CleanUp, Deadline, AskCancel, CancelCall, LookUp, SetFlag,
        CloseOpen, workerVars, serverVars, vars
  <2> QED
    BY <1>1, <2>1, QueueSame DEF QueueOK
<1>3. CASE Generator
  <2>1. UNCHANGED serverVars /\ (worker' = worker \/ (gen = "cited" /\ worker' = "spawned"))
    BY <1>3
    DEF Generator, SendMeta, Prepare, StartWorker, TakePiece, NoticeGone, AfterDeadline, Finish, SafetyNet,
        Exhausted, workerVars
  <2>2. worker' = worker \/ (worker = "none" /\ worker' = "spawned")
    BY <1>1, <2>1 DEF CountOK
  <2> QED
    BY <1>1, <2>1, <2>2, QueueSame DEF QueueOK
<1>4. CASE Register \/ SendRequest \/ Answered \/ Loop \/ UpstreamTimeout
  <2>1. UNCHANGED serverVars
    BY <1>4 DEF Register, SendRequest, Answered, Loop, UpstreamTimeout
  <2>2. \/ worker' = "over"
        \/ worker \in {"spawned", "registered", "requesting"}
           /\ worker' \in {"registered", "requesting", "attached"}
        \/ worker = "looping" /\ worker' = "getting"
    BY <1>4 DEF Register, SendRequest, Answered, Loop, UpstreamTimeout, Return, Fail
  <2> QED
    BY <1>1, <2>1, <2>2, QueueSame DEF QueueOK
<1>5. CASE CheckResponse
  <2>1. reader = "none" /\ lines = <<>> /\ emitted = <<>> /\ UNCHANGED <<lines, emitted>>
    BY <1>1, <1>5 DEF CheckResponse, QueueOK
  <2>2. (worker' = "over" /\ reader' = "none") \/ (worker' = "looping" /\ reader' = "blocked")
    BY <1>5, <2>1 DEF CheckResponse, Return
  <2>3. Len(lines') = 0 /\ Len(emitted') = 0 /\ Taken' = 0
    BY <2>1, <2>2 DEF Taken
  <2> QED
    BY <2>1, <2>2, <2>3, StreamAssumption DEF QueueOK
<1>6. CASE GetLine
  <2>1. /\ lines # <<>> /\ lines' = Tail(lines) /\ reader' = reader /\ emitted' = emitted
        /\ reader # "none" /\ worker' \in {"looping", "over"}
    BY <1>1, <1>6 DEF GetLine, AfterLine, Fail, Return, QueueOK
  <2>2. /\ Len(emitted) \in Nat /\ Len(lines) \in Nat /\ Len(lines) > 0 /\ Taken \in Int
        /\ Len(lines') = Len(lines) - 1
        /\ \A i \in 1 .. Len(lines') : lines'[i] = lines[i + 1]
    BY <1>1, <2>1, LineTypes
  <2>3. \/ Taken' = Taken + 1 /\ Taken + 1 <= Len(emitted)
        \/ Taken' = Taken /\ Len(lines) = 1
    BY <1>1, <2>1, LineTaken
  <2>4. Len(emitted) <= MaxLines /\ Taken >= 0 /\ Taken <= Len(emitted)
    BY <1>1 DEF QueueOK
  <2>5. Taken' >= 0 /\ Taken' <= Len(emitted')
    BY <2>1, <2>2, <2>3, <2>4
  <2>6. ASSUME NEW i \in 1 .. Len(lines')
        PROVE  IF reader' = "over" /\ i = Len(lines') THEN lines'[i] \in {"end", "error"}
                                                      ELSE lines'[i] = emitted'[Taken' + i]
    <3>1. Taken' = Taken + 1 /\ i \in Nat /\ Taken + (i + 1) = (Taken + 1) + i
      BY <2>2, <2>3
    <3>2. i + 1 \in 1 .. Len(lines) /\ (i = Len(lines') <=> i + 1 = Len(lines))
      BY <2>2
    <3>3. IF reader = "over" /\ i + 1 = Len(lines) THEN lines[i + 1] \in {"end", "error"}
                                                   ELSE lines[i + 1] = emitted[Taken + (i + 1)]
      BY <1>1, <3>2 DEF QueueOK
    <3> QED
      BY <2>1, <2>2, <3>1, <3>2, <3>3
  <2> QED
    BY <2>1, <2>4, <2>5, <2>6 DEF QueueOK
<1>7. CASE SendLine
  <2>1. /\ reader = "blocked" /\ Len(emitted) < MaxLines /\ reader' = reader /\ worker' = worker
    BY <1>7 DEF SendLine, workerVars
  <2>2. PICK line \in Lines : emitted' = Append(emitted, line) /\ lines' = Append(lines, line)
    BY <1>7 DEF SendLine
  <2>3. /\ Len(emitted) \in Nat /\ Len(lines) \in Nat /\ Taken = Len(emitted) - Len(lines)
        /\ Len(emitted') = Len(emitted) + 1 /\ Len(lines') = Len(lines) + 1
        /\ Taken' = Len(emitted) - Len(lines)
    BY <1>1, <2>1, <2>2, LineTypes DEF Taken
  <2>4. /\ \A i \in 1 .. Len(lines) : lines'[i] = lines[i]
        /\ \A i \in 1 .. Len(emitted) : emitted'[i] = emitted[i]
        /\ lines'[Len(lines) + 1] = line /\ emitted'[Len(emitted) + 1] = line
    BY <1>1, <2>2, LineTypes
  <2>5. Taken >= 0 /\ \A i \in 1 .. Len(lines) : lines[i] = emitted[Taken + i]
    BY <1>1, <2>1 DEF QueueOK
  <2>6. \A i \in 1 .. Len(lines') : lines'[i] = emitted'[Taken' + i]
    <3>1. ASSUME NEW i \in 1 .. Len(lines) PROVE lines'[i] = emitted'[Taken' + i]
      <4>1. Taken + i \in 1 .. Len(emitted)
        BY <2>3, <2>5
      <4>2. emitted'[Taken + i] = emitted[Taken + i] /\ lines'[i] = lines[i]
        BY <2>4, <4>1
      <4> QED
        BY <2>3, <2>5, <4>2
    <3>2. lines'[Len(lines) + 1] = emitted'[Taken' + (Len(lines) + 1)]
      BY <2>3, <2>4
    <3> QED
      BY <2>3, <3>1, <3>2
  <2> QED
    BY <1>1, <2>1, <2>3, <2>5, <2>6, StreamAssumption DEF QueueOK
<1>8. CASE EndRead
  <2>1. reader = "blocked" /\ reader' = "over" /\ UNCHANGED <<worker, emitted>>
    BY <1>8 DEF EndRead, workerVars
  <2>2. PICK line \in {"end", "error"} : lines' = Append(lines, line)
    BY <1>8 DEF EndRead
  <2>3. /\ Len(emitted) \in Nat /\ Len(lines) \in Nat /\ Len(lines') = Len(lines) + 1
        /\ lines' # <<>> /\ lines'[Len(lines) + 1] = line
        /\ \A i \in 1 .. Len(lines) : lines'[i] = lines[i]
    BY <1>1, <2>2, LineTypes
  <2>4. Taken' = Taken /\ Taken = Len(emitted) - Len(lines)
    BY <2>1, <2>3 DEF Taken
  <2>5. \A i \in 1 .. Len(lines) : lines[i] = emitted[Taken + i]
    BY <1>1, <2>1 DEF QueueOK
  <2>6. \A i \in 1 .. Len(lines') : IF i = Len(lines') THEN lines'[i] \in {"end", "error"}
                                                       ELSE lines'[i] = emitted'[Taken' + i]
    <3>1. ASSUME NEW i \in 1 .. Len(lines) PROVE lines'[i] = emitted'[Taken' + i]
      BY <2>1, <2>3, <2>4, <2>5
    <3>2. \A i \in 1 .. Len(lines') : i = Len(lines') \/ i \in 1 .. Len(lines)
      BY <2>3
    <3> QED
      BY <2>2, <2>3, <3>1, <3>2
  <2> QED
    BY <1>1, <2>1, <2>4, <2>6 DEF QueueOK
<1> QED
  BY <1>2, <1>3, <1>4, <1>5, <1>6, <1>7, <1>8 DEF Next, Worker

-----------------------------------------------------------------------------
(* Every token taken off the queue is sent or about to be.                 *)

LEMMA CountTypes ==
  ASSUME TypeOK, QueueOK
  PROVE  /\ pieces \in Seq(Pieces) /\ Len(pieces) \in Nat /\ content \in Nat
         /\ Chunks \in Int /\ Taken \in 0 .. Len(emitted) /\ Tokens(Taken) \in Nat
<1>1. pieces \in Seq(Pieces) /\ content \in 0 .. MaxLines
  BY DEF TypeOK, Pieces
<1>2. Len(pieces) \in Nat /\ content \in Nat
  BY <1>1, StreamAssumption
<1>3. Taken \in 0 .. Len(emitted)
  BY LineTypes DEF QueueOK
<1>4. Tokens(Taken) \in Nat
  <2>1. PICK t \in Nat : t = Taken
    BY <1>3, LineTypes
  <2>2. Tokens(t) \in 0 .. t
    BY TokenSets
  <2>3. Tokens(t) \in Nat
    BY <2>2
  <2> QED
    BY <2>1, <2>3
<1> QED
  BY <1>1, <1>2, <1>3, <1>4 DEF Chunks

\* The answer that is whole stays whole when the server sends more.
LEMMA WholeKept ==
  ASSUME TypeOK, NEW count, Whole(count),
         emitted' = emitted \/ \E line \in Lines : emitted' = Append(emitted, line)
  PROVE  \E n \in 1 .. Len(emitted') :
           emitted'[n] = "done" /\ count = Cardinality({m \in 1 .. n : emitted'[m] = "content"})
<1>1. PICK n \in 1 .. Len(emitted) : emitted[n] = "done" /\ count = Tokens(n)
  BY DEF Whole
<1>2. CASE emitted' = emitted
  BY <1>1, <1>2 DEF Tokens
<1>3. CASE \E line \in Lines : emitted' = Append(emitted, line)
  <2>1. PICK line \in Lines : emitted' = Append(emitted, line)
    BY <1>3
  <2>2. /\ Len(emitted) \in Nat /\ Len(emitted') = Len(emitted) + 1
        /\ \A m \in 1 .. Len(emitted) : emitted'[m] = emitted[m]
    BY <2>1, LineTypes
  <2>3. n \in 0 .. Len(emitted)
    BY <2>2
  <2>4. Tokens(n)' = Tokens(n)
    BY <2>1, <2>3, TokensKept
  <2>5. n \in 1 .. Len(emitted') /\ emitted'[n] = "done"
    BY <1>1, <2>2
  <2> QED
    BY <1>1, <2>4, <2>5 DEF Tokens
<1> QED
  BY <1>2, <1>3

\* What a step of the worker may do to the pieces.
LEMMA PiecesKept ==
  ASSUME TypeOK, CountOK, QueueOK, worker \notin {"none", "over"}, worker' \notin {"none", "over"},
         UNCHANGED <<gen, content>>, pieces' = pieces, Tokens(Taken)' = Tokens(Taken)
  PROVE  CountOK'
<1>1. Chunks = Len(pieces) /\ Chunks' = Len(pieces)
  BY CountTypes DEF Chunks
<1> QED
  BY <1>1 DEF CountOK

LEMMA ChunkPut ==
  ASSUME TypeOK, CountOK, QueueOK, worker \notin {"none", "over"}, worker' \notin {"none", "over"},
         UNCHANGED <<gen, content>>, pieces' = Append(pieces, "chunk"),
         Tokens(Taken)' = Tokens(Taken) + 1
  PROVE  CountOK'
<1>1. /\ content \in Nat /\ Tokens(Taken) \in Nat /\ Len(pieces) \in Nat /\ Chunks = Len(pieces)
      /\ Chunks' = Len(pieces) + 1 /\ pieces'[Len(pieces) + 1] = "chunk"
      /\ \A i \in 1 .. Len(pieces) : pieces'[i] = pieces[i]
  BY CountTypes DEF Chunks
<1>2. gen \notin {"new", "meta", "cited"}
  BY DEF CountOK
<1>3. ASSUME gen = "wait"
      PROVE  (content + Chunks)' = Tokens(Taken)' /\ \A i \in 1 .. Chunks' : pieces'[i] = "chunk"
  <2>1. content + Chunks = Tokens(Taken) /\ \A i \in 1 .. Chunks : pieces[i] = "chunk"
    BY <1>3 DEF CountOK
  <2>2. content' = content
    OBVIOUS
  <2>3. (content + Chunks)' = Tokens(Taken)'
    BY <1>1, <2>1, <2>2
  <2> QED
    BY <1>1, <2>1, <2>3
<1> QED
  BY <1>2, <1>3 DEF CountOK

LEMMA LastPut ==
  ASSUME TypeOK, CountOK, QueueOK, worker \notin {"none", "over"}, worker' = "over",
         UNCHANGED <<gen, content, flag, emitted>>, NEW piece \in {"end", "error"},
         pieces' = Append(pieces, piece), Tokens(Taken)' = Tokens(Taken),
         gen = "wait" /\ piece = "end" => flag \/ Whole(content + Chunks)
  PROVE  CountOK'
<1>1. /\ content \in Nat /\ Len(pieces) \in Nat /\ Chunks = Len(pieces)
      /\ Chunks' = Len(pieces) /\ Len(pieces') = Len(pieces) + 1
      /\ pieces'[Len(pieces) + 1] = piece
      /\ \A i \in 1 .. Len(pieces) : pieces'[i] = pieces[i]
  BY CountTypes DEF Chunks
<1>2. gen \notin {"new", "meta", "cited"}
  BY DEF CountOK
<1>3. ASSUME gen = "wait"
      PROVE  /\ content' + Chunks' = Tokens(Taken)'
             /\ \A i \in 1 .. Chunks' : pieces'[i] = "chunk"
             /\ piece = "end" => flag' \/ Whole(content + Chunks)'
  <2>1. content + Chunks = Tokens(Taken) /\ \A i \in 1 .. Chunks : pieces[i] = "chunk"
    BY <1>3 DEF CountOK
  <2>2. content' + Chunks' = content + Chunks
    BY <1>1
  <2>3. Whole(content + Chunks) => Whole(content + Chunks)'
    BY <2>2 DEF Whole, Tokens
  <2> QED
    BY <1>1, <1>3, <2>1, <2>2, <2>3
<1> QED
  BY <1>1, <1>2, <1>3 DEF CountOK

\* A line of the server is taken: a token more, or not.
LEMMA LineCounted ==
  ASSUME TypeOK, QueueOK, lines # <<>>, lines' = Tail(lines), UNCHANGED <<reader, emitted>>
  PROVE  /\ Tokens(Taken)' = Tokens(Taken) + (IF Head(lines) = "content" THEN 1 ELSE 0)
         /\ Head(lines) = "done" => Whole(Tokens(Taken))
         /\ Head(lines) \in LineKinds \cup {"end", "error"}
<1>1. Taken \in 0 .. Len(emitted) /\ Len(emitted) \in Nat /\ Tokens(Taken) \in Nat
  BY CountTypes, LineTypes
<1>2. PICK t \in Nat : t = Taken
  BY <1>1
<1>3. PICK u : u = Taken'
  OBVIOUS
<1>4. Tokens(Taken)' = Tokens(u)
  BY <1>3 DEF Tokens
<1>5. CASE u = t + 1 /\ t + 1 <= Len(emitted) /\ Head(lines) = emitted[t + 1] /\ Head(lines) \in Lines
  <2>1. Tokens(t + 1) = Tokens(t) + (IF emitted[t + 1] = "content" THEN 1 ELSE 0)
    BY NextToken
  <2>2. Head(lines) = "done" => Whole(Tokens(t))
    <3>1. SUFFICES ASSUME Head(lines) = "done" PROVE Whole(Tokens(t))
      OBVIOUS
    <3>2. Tokens(t + 1) = Tokens(t)
      <4>1. emitted[t + 1] # "content"
        BY <1>5, <3>1
      <4>2. Tokens(t) \in Nat
        BY <1>1, <1>2
      <4> QED
        BY <2>1, <4>1, <4>2
    <3>3. t + 1 \in 1 .. Len(emitted)
      BY <1>1, <1>2, <1>5
    <3> QED
      BY <1>5, <3>1, <3>2, <3>3 DEF Whole
  <2>3. Head(lines) \in LineKinds
    BY <1>5, StreamAssumption
  <2> QED
    BY <1>2, <1>4, <1>5, <2>1, <2>2, <2>3
<1>6. CASE u = t /\ Head(lines) \in {"end", "error"}
  <2>1. Head(lines) \notin {"content", "done"}
    BY <1>6
  <2> QED
    BY <1>1, <1>2, <1>4, <1>6, <2>1
<1> QED
  BY <1>2, <1>3, <1>5, <1>6, LineTaken

LEMMA CountStep == ASSUME Inv, [Next]_vars PROVE CountOK'
<1>1. TypeOK /\ QueueOK /\ CountOK /\ Len(pieces) \in Nat /\ content \in Nat
  BY CountTypes DEF Inv
<1>2. ASSUME UNCHANGED <<content, worker, pieces, serverVars, flag>>,
             \/ gen' = gen \/ gen' \in {"cancelling", "finish", "last", "ended"}
             \/ gen \in {"new", "meta"} /\ gen' \in {"meta", "cited"}
      PROVE  CountOK'
  <2>1. Chunks' = Chunks /\ Taken' = Taken
    BY <1>2 DEF Chunks, Taken, serverVars
  <2>2. Tokens(Taken)' = Tokens(Taken) /\ (Whole(content + Chunks)' <=> Whole(content + Chunks))
    BY <1>2, <2>1 DEF Tokens, Whole, serverVars
  <2> QED
    BY <1>1, <1>2, <2>1, <2>2 DEF CountOK
<1>3. CASE \/ Owner \/ CleanUp \/ Deadline \/ SendMeta \/ Prepare \/ NoticeGone \/ AfterDeadline
           \/ Finish \/ SafetyNet \/ Exhausted \/ UNCHANGED vars
  <2>1. UNCHANGED <<content, worker, pieces, serverVars, flag>>
    BY <1>3
    DEF Owner, CallNext, AwaitNext, Close, CleanUp, Deadline, SendMeta, Prepare, NoticeGone,
        AfterDeadline, Finish, SafetyNet, Exhausted, genVars, workerVars, serverVars, cancelVars, vars
  <2>2. \/ gen' = gen \/ gen' \in {"cancelling", "finish", "last", "ended"}
        \/ gen \in {"new", "meta"} /\ gen' \in {"meta", "cited"}
    BY <1>3
    DEF Owner, CallNext, AwaitNext, Close, CleanUp, Deadline, SendMeta, Prepare, NoticeGone,
        AfterDeadline, Finish, SafetyNet, Exhausted, genVars, vars
  <2> QED
    BY <1>2, <2>1, <2>2
<1>4. CASE StartWorker
  <2>1. /\ gen' = "wait" /\ worker' = "spawned" /\ content = 0 /\ pieces = <<>> /\ worker = "none"
        /\ UNCHANGED <<content, pieces, serverVars>>
    BY <1>1, <1>4 DEF StartWorker, CountOK
  <2>2. reader = "none" /\ emitted = <<>> /\ lines = <<>>
    BY <1>1, <2>1 DEF QueueOK
  <2>3. Chunks' = 0 /\ Taken' = 0
    BY <2>1, <2>2 DEF Chunks, Taken, serverVars
  <2>4. Tokens(Taken)' = 0
    <3>1. emitted' = emitted
      BY <2>1 DEF serverVars
    <3>2. Tokens(Taken)' = Tokens(0)
      BY <2>3, <3>1 DEF Tokens
    <3> QED
      BY <3>2, NoTokens
  <2>5. (content + Chunks)' = 0
    BY <2>1, <2>3
  <2> QED
    BY <2>1, <2>3, <2>4, <2>5 DEF CountOK
<1>5. CASE TakePiece
  <2>1. /\ gen = "wait" /\ pieces # <<>> /\ pieces' = Tail(pieces)
        /\ UNCHANGED <<worker, serverVars, flag>>
    BY <1>5 DEF TakePiece, cancelVars
  <2>2. CASE gen' = "finish"
    BY <1>1, <2>1, <2>2 DEF CountOK
  <2>3. CASE gen' # "finish"
    <3>1. gen' = "wait" /\ content' = content + 1 /\ pieces[1] = "chunk"
      <4>1. Head(pieces) = "chunk" /\ content' = content + 1 /\ gen' = "wait"
        BY <1>5, <2>1, <2>3 DEF TakePiece
      <4>2. Head(pieces) = pieces[1]
        BY <1>1, <2>1, CountTypes
      <4> QED
        BY <4>1, <4>2
    <3>2. Len(pieces) > 0 /\ (worker = "over" => Len(pieces) > 1)
      <4>1. Len(pieces) > 0
        BY <1>1, <2>1, CountTypes
      <4>2. worker = "over" => pieces[Len(pieces)] # "chunk"
        BY <1>1, <2>1 DEF CountOK
      <4> QED
        BY <1>1, <3>1, <4>1, <4>2
    <3>3. Len(pieces') = Len(pieces) - 1 /\ \A i \in 1 .. Len(pieces') : pieces'[i] = pieces[i + 1]
      BY <1>1, <2>1, CountTypes
    <3>4. Chunks' = Chunks - 1 /\ Chunks \in Int
      BY <1>1, <2>1, <3>3 DEF Chunks
    <3>5. content' + Chunks' = content + Chunks
      BY <1>1, <3>1, <3>4
    <3>6. Taken' = Taken /\ Tokens(Taken)' = Tokens(Taken)
      BY <2>1 DEF Taken, Tokens, serverVars
    <3>7. Whole(content + Chunks)' <=> Whole(content + Chunks)
      BY <2>1, <3>5 DEF Whole, Tokens, serverVars
    <3>8. \A i \in 1 .. Chunks' : pieces'[i] = "chunk"
      <4>1. SUFFICES ASSUME NEW i \in 1 .. Chunks' PROVE pieces'[i] = "chunk"
        OBVIOUS
      <4>2. i + 1 \in 1 .. Chunks /\ i \in 1 .. Len(pieces')
        BY <1>1, <2>1, <3>3, <3>4 DEF Chunks
      <4> QED
        BY <1>1, <2>1, <3>3, <4>2 DEF CountOK
    <3>9. worker = "over" => Len(pieces') > 0 /\ pieces'[Len(pieces')] = pieces[Len(pieces)]
      <4>1. SUFFICES ASSUME worker = "over"
                     PROVE  Len(pieces') > 0 /\ pieces'[Len(pieces')] = pieces[Len(pieces)]
        OBVIOUS
      <4>2. Len(pieces') \in 1 .. Len(pieces') /\ Len(pieces') + 1 = Len(pieces)
        BY <1>1, <3>2, <3>3, <4>1
      <4> QED
        BY <3>3, <4>2
    <3> QED
      BY <1>1, <2>1, <3>1, <3>5, <3>6, <3>7, <3>8, <3>9 DEF CountOK
  <2> QED
    BY <2>2, <2>3
<1>6. CASE Register \/ SendRequest \/ Answered \/ CheckResponse \/ Loop \/ UpstreamTimeout
  <2>1. /\ UNCHANGED <<gen, content, emitted, flag>> /\ worker \notin {"none", "over"}
        /\ Taken' = Taken
    <3>1. UNCHANGED <<gen, content, lines, emitted, flag>> /\ worker \notin {"none", "over"}
      BY <1>6
      DEF Register, SendRequest, Answered, CheckResponse, Loop, UpstreamTimeout, genVars, serverVars,
          cancelVars
    <3>2. reader' = reader \/ (worker = "attached" /\ reader' = "blocked")
      BY <1>6
      DEF Register, SendRequest, Answered, CheckResponse, Loop, UpstreamTimeout, serverVars
    <3>3. reader' = reader \/ (lines = <<>> /\ reader' = "blocked")
      BY <1>1, <3>2 DEF QueueOK
    <3> QED
      BY <3>1, <3>3 DEF Taken
  <2>2. Tokens(Taken)' = Tokens(Taken)
    BY <2>1 DEF Tokens
  <2>3. CASE worker' # "over"
    <3>1. pieces' = pieces /\ worker' # "none"
      BY <1>6, <2>3
      DEF Register, SendRequest, Answered, CheckResponse, Loop, UpstreamTimeout, Return, Fail
    <3> QED
      BY <1>1, <2>1, <2>2, <2>3, <3>1, PiecesKept
  <2>4. CASE worker' = "over"
    <3>1. PICK piece \in {"end", "error"} :
            pieces' = Append(pieces, piece) /\ (piece = "end" => flag)
      BY <1>6, <2>4
      DEF Register, SendRequest, Answered, CheckResponse, Loop, UpstreamTimeout, Return, Fail, Put
    <3> QED
      BY <1>1, <2>1, <2>2, <2>4, <3>1, LastPut
  <2> QED
    BY <2>3, <2>4
<1>7. CASE GetLine
  <2>1. /\ lines # <<>> /\ lines' = Tail(lines) /\ AfterLine(Head(lines))
        /\ UNCHANGED <<reader, emitted, gen, content, flag>> /\ worker \notin {"none", "over"}
    BY <1>7 DEF GetLine, genVars, cancelVars
  <2>2. /\ Tokens(Taken)' = Tokens(Taken) + (IF Head(lines) = "content" THEN 1 ELSE 0)
        /\ Head(lines) = "done" => Whole(Tokens(Taken))
        /\ Head(lines) \in LineKinds \cup {"end", "error"}
    BY <1>1, <2>1, LineCounted
  <2>3. Tokens(Taken) \in Nat
    BY <1>1, CountTypes
  <2>4. CASE Head(lines) = "content"
    <3>1. worker' = "looping" /\ pieces' = Append(pieces, "chunk")
      BY <2>1, <2>4 DEF AfterLine, Put, Malformed, Ignored
    <3> QED
      BY <1>1, <2>1, <2>2, <2>4, <3>1, ChunkPut
  <2>5. CASE Head(lines) # "content"
    <3>1. Tokens(Taken)' = Tokens(Taken)
      BY <2>2, <2>3, <2>5
    <3>2. CASE worker' = "looping" /\ pieces' = pieces
      BY <1>1, <2>1, <3>1, <3>2, PiecesKept
    <3>3. CASE \E piece \in {"end", "error"} :
                 Return(piece) /\ (piece = "end" => flag \/ Head(lines) = "done")
      <4>1. PICK piece \in {"end", "error"} :
              Return(piece) /\ (piece = "end" => flag \/ Head(lines) = "done")
        BY <3>3
      <4>2. worker' = "over" /\ pieces' = Append(pieces, piece)
        BY <4>1 DEF Return, Put
      <4>3. gen = "wait" => content + Chunks = Tokens(Taken)
        BY <1>1 DEF CountOK
      <4>4. gen = "wait" /\ piece = "end" => flag \/ Whole(content + Chunks)
        BY <2>2, <4>1, <4>3
      <4> QED
        BY <1>1, <2>1, <3>1, <4>2, <4>4, LastPut
    <3>4. \/ worker' = "looping" /\ pieces' = pieces
          \/ \E piece \in {"end", "error"} :
               Return(piece) /\ (piece = "end" => flag \/ Head(lines) = "done")
      BY <2>1, <2>5 DEF AfterLine, Fail
    <3> QED
      BY <3>2, <3>3, <3>4
  <2> QED
    BY <2>4, <2>5
<1>8. CASE SendLine \/ EndRead
  <2>1. UNCHANGED <<gen, content, worker, pieces, flag>> /\ reader = "blocked"
    BY <1>8 DEF SendLine, EndRead, genVars, workerVars, cancelVars
  <2>2. /\ Taken' = Taken
        /\ emitted' = emitted \/ \E line \in Lines : emitted' = Append(emitted, line)
    <3>1. CASE SendLine
      <4>1. PICK line \in Lines : emitted' = Append(emitted, line) /\ lines' = Append(lines, line)
        BY <3>1 DEF SendLine
      <4>2. Len(emitted') = Len(emitted) + 1 /\ Len(lines') = Len(lines) + 1 /\ reader' = reader
        BY <1>1, <3>1, <4>1, LineTypes DEF SendLine
      <4> QED
        BY <1>1, <2>1, <4>1, <4>2, LineTypes DEF Taken
    <3>2. CASE EndRead
      <4>1. PICK line \in {"end", "error"} : lines' = Append(lines, line)
        BY <3>2 DEF EndRead
      <4>2. reader' = "over" /\ emitted' = emitted /\ Len(lines') = Len(lines) + 1 /\ lines' # <<>>
        BY <1>1, <3>2, <4>1, LineTypes DEF EndRead
      <4> QED
        BY <1>1, <2>1, <4>2, LineTypes DEF Taken
    <3> QED
      BY <1>8, <3>1, <3>2
  <2>3. Tokens(Taken)' = Tokens(Taken)
    <3>1. PICK t \in 0 .. Len(emitted) : t = Taken
      BY <1>1, CountTypes
    <3>2. {m \in 1 .. t : emitted'[m] = "content"} = {m \in 1 .. t : emitted[m] = "content"}
      BY <1>1, <2>2, LineTypes
    <3> QED
      BY <2>2, <3>1, <3>2 DEF Tokens
  <2>4. Chunks' = Chunks
    BY <2>1 DEF Chunks
  <2>5. Whole(content + Chunks) => Whole(content + Chunks)'
    <3>1. PICK count : count = content + Chunks
      OBVIOUS
    <3>2. (content + Chunks)' = count
      BY <2>1, <2>4, <3>1
    <3>3. Whole(count) =>
            \E n \in 1 .. Len(emitted') :
              emitted'[n] = "done" /\ count = Cardinality({m \in 1 .. n : emitted'[m] = "content"})
      BY <1>1, <2>2, WholeKept
    <3> QED
      BY <3>1, <3>2, <3>3 DEF Whole, Tokens
  <2> QED
    BY <1>1, <2>1, <2>3, <2>4, <2>5 DEF CountOK
<1>9. CASE AskCancel \/ CancelCall
  <2>1. UNCHANGED <<gen, content, worker, pieces, serverVars>> /\ (flag => flag')
    BY <1>1, <1>9
    DEF AskCancel, CancelCall, LookUp, SetFlag, CloseOpen, genVars, workerVars, serverVars
  <2>2. Chunks' = Chunks /\ Taken' = Taken
    BY <2>1 DEF Chunks, Taken, serverVars
  <2>3. Tokens(Taken)' = Tokens(Taken) /\ (Whole(content + Chunks)' <=> Whole(content + Chunks))
    BY <2>1, <2>2 DEF Tokens, Whole, serverVars
  <2> QED
    BY <1>1, <2>1, <2>2, <2>3 DEF CountOK
<1> QED
  BY <1>3, <1>4, <1>5, <1>6, <1>7, <1>8, <1>9 DEF Next, Generator, Worker

LEMMA CompletedStep == ASSUME Inv, [Next]_vars PROVE CompletedOK'
<1>1. TypeOK /\ QueueOK /\ CountOK /\ CompletedOK /\ EndOK /\ CancelOK
  BY DEF Inv
<1>2. ASSUME UNCHANGED <<content, emitted>>, outcome' = outcome \/ outcome' = "failed",
             saved' = saved \/ saved' # "completed", asked => asked'
      PROVE  CompletedOK'
  BY <1>1, <1>2 DEF CompletedOK, Whole, Tokens
<1>3. CASE \/ Owner \/ CleanUp \/ Deadline \/ SendMeta \/ Prepare \/ StartWorker \/ NoticeGone
           \/ AfterDeadline \/ Exhausted \/ UNCHANGED vars
  <2>1. UNCHANGED <<content, emitted, asked>> /\ (outcome' = outcome \/ outcome' = "failed")
    BY <1>3
    DEF Owner, CallNext, AwaitNext, Close, CleanUp, Deadline, SendMeta, Prepare, StartWorker,
        NoticeGone, AfterDeadline, Exhausted, genVars, serverVars, cancelVars, vars
  <2>2. saved' = saved \/ saved' # "completed"
    BY <1>3
    DEF Owner, CallNext, AwaitNext, Close, CleanUp, Deadline, SendMeta, Prepare, StartWorker,
        NoticeGone, AfterDeadline, Exhausted, RecordDisconnect, genVars, vars
  <2> QED
    BY <1>2, <2>1, <2>2
<1>4. CASE Worker \/ EndRead \/ AskCancel \/ CancelCall
  <2>1. UNCHANGED <<content, outcome, saved>>
    BY <1>4, OthersKeep DEF OwnGen
  <2>2. emitted' = emitted /\ (asked => asked')
    BY <1>1, <1>4
    DEF Worker, Register, SendRequest, Answered, CheckResponse, Loop, GetLine, UpstreamTimeout,
        EndRead, AskCancel, CancelCall, LookUp, SetFlag, CloseOpen, serverVars, cancelVars
  <2> QED
    BY <1>2, <2>1, <2>2
<1>5. CASE SendLine
  <2>1. UNCHANGED <<content, outcome, saved, asked>>
    BY <1>5 DEF SendLine, genVars, cancelVars
  <2>2. \E line \in Lines : emitted' = Append(emitted, line)
    BY <1>5 DEF SendLine
  <2>3. Whole(content) => Whole(content)'
    BY <1>1, <2>1, <2>2, WholeKept DEF Whole, Tokens
  <2> QED
    BY <1>1, <2>1, <2>3 DEF CompletedOK
<1>6. CASE Finish \/ SafetyNet
  <2>1. UNCHANGED <<content, emitted, outcome, asked>> /\ (saved' = "completed" => ~asked)
    BY <1>6 DEF Finish, SafetyNet, serverVars, cancelVars
  <2>2. saved' = "completed" => outcome = "completed"
    BY <1>6 DEF Finish, SafetyNet
  <2> QED
    BY <1>1, <2>1, <2>2 DEF CompletedOK, Whole, Tokens
<1>7. CASE TakePiece
  <2>1. /\ gen = "wait" /\ pieces # <<>> /\ UNCHANGED <<saved, emitted, asked>>
        /\ outcome # "completed" /\ saved # "completed"
    BY <1>1, <1>7 DEF TakePiece, EndOK, serverVars, cancelVars
  <2>2. ASSUME outcome' = "completed" PROVE Whole(content)' \/ asked
    <3>1. content' = content /\ Head(pieces) = "end"
      BY <1>7, <2>1, <2>2 DEF TakePiece
    <3>2. /\ Len(pieces) \in Nat /\ Len(pieces) > 0 /\ pieces[1] = "end"
          /\ content \in Nat
      BY <1>1, <2>1, <3>1, CountTypes
    <3>3. Chunks = 0
      <4>1. \A i \in 1 .. Chunks : pieces[i] = "chunk"
        BY <1>1, <2>1 DEF CountOK
      <4>2. ~(1 \in 1 .. Chunks)
        BY <3>2, <4>1
      <4>3. Chunks = Len(pieces) \/ Chunks = Len(pieces) - 1
        BY <3>2 DEF Chunks
      <4>4. Chunks \in Int /\ Chunks >= 0
        BY <3>2, <4>3
      <4> QED
        BY <4>2, <4>4
    <3>4. worker = "over" /\ Len(pieces) = 1
      BY <3>2, <3>3 DEF Chunks
    <3>5. flag \/ Whole(content)
      <4>1. content + Chunks = content
        BY <3>2, <3>3
      <4> QED
        BY <1>1, <2>1, <3>2, <3>4, <4>1 DEF CountOK
    <3>6. flag => asked
      BY <1>1, <2>1 DEF CancelOK
    <3> QED
      BY <2>1, <3>1, <3>5, <3>6 DEF Whole, Tokens
  <2> QED
    BY <2>1, <2>2 DEF CompletedOK
<1> QED
  BY <1>3, <1>4, <1>5, <1>6, <1>7 DEF Next, Generator

-----------------------------------------------------------------------------
(* The invariant holds, and what follows.                                  *)

LEMMA InvInit == Init => Inv
<1> SUFFICES ASSUME Init PROVE Inv
  OBVIOUS
<1>1. TypeOK
  <2>1. sent \in Seq(Events) /\ pieces \in Seq(Pieces) /\ emitted \in Seq(Lines)
        /\ lines \in Seq(Lines \cup {"end", "error"})
    BY DEF Init
  <2>2. calling \in [Caller -> {"idle", "called", "found", "flagged", "over"}]
        /\ content \in 0 .. MaxLines
    BY StreamAssumption DEF Init
  <2>3. pending \in BOOLEAN /\ gone \in BOOLEAN /\ flag \in BOOLEAN /\ asked \in BOOLEAN
    BY DEF Init
  <2> QED
    BY <2>1, <2>2, <2>3 DEF Init, TypeOK, Events, Pieces
<1>2. Len(sent) = 0 /\ Len(emitted) = 0 /\ Len(lines) = 0 /\ Taken = 0
  BY DEF Init, Taken
<1>3. EventsOK
  BY <1>2 DEF Init, EventsOK, EventOrder
<1>4. OneAtATime /\ EndOK /\ CancelOK
  BY DEF Init, OneAtATime, EndOK, CancelOK, Caller
<1>5. QueueOK
  BY <1>2, StreamAssumption DEF Init, QueueOK
<1>6. CountOK /\ CompletedOK
  BY DEF Init, CountOK, CompletedOK
<1> QED
  BY <1>1, <1>3, <1>4, <1>5, <1>6 DEF Inv

LEMMA InvStep == Inv /\ [Next]_vars => Inv'
BY TypeStep, OneAtATimeStep, EventsStep, EndStep, CancelStep, QueueStep, CountStep, CompletedStep
DEF Inv

LEMMA InvAlways == Spec => []Inv
BY InvInit, InvStep, PTL DEF Spec

\* Every variable keeps its type, and the generator never counts more tokens
\* than the server may send lines.
THEOREM TypeCorrect == Spec => []TypeOK
<1>1. Inv => TypeOK
  BY DEF Inv
<1> QED
  BY <1>1, InvAlways, PTL

\* The response never closes a generator that is running in a thread
\* (iterate_in_single_worker).
THEOREM NeverClosedWhileRunning == Spec => []OneAtATime
<1>1. Inv => OneAtATime
  BY DEF Inv
<1> QED
  BY <1>1, InvAlways, PTL

\* However the server cuts, ends or breaks its stream, and whoever cancels: an
\* answer recorded as completed has every token that the server sent before
\* its [DONE].
THEOREM CompletedAnswersAreWhole == Spec => []CompletedIsWhole
<1>1. Inv => CompletedIsWhole
  BY DEF Inv, CompletedOK, CompletedIsWhole, Whole
<1> QED
  BY <1>1, InvAlways, PTL

\* The client sees the events in their order, and none after the last one.
THEOREM EventsInOrder == Spec => []EventOrder
<1>1. Inv => EventOrder
  BY DEF Inv, EventsOK
<1> QED
  BY <1>1, InvAlways, PTL

\* A cancel() that found the request is not lost between the check and the
\* read: the connection is closed, or will be before it is read.
THEOREM CancelIsNeverMissed == Spec => []CancelNotMissed
<1>1. Inv => CancelNotMissed
  <2> SUFFICES ASSUME Inv, flag, \A c \in Caller : calling[c] \notin {"found", "flagged"}
               PROVE  response # "open" \/ worker = "attached"
    BY DEF CancelNotMissed
  <2>1. ~ \E c \in Caller : calling[c] = "flagged"
    OBVIOUS
  <2> QED
    BY <2>1 DEF Inv, CancelOK
<1> QED
  BY <1>1, InvAlways, PTL

\* No stream that a client saw begin ends without a status being written to its
\* row, or the database failing that write.
THEOREM EndsAreRecorded == Spec => []EndRecorded
<1>1. Inv => EndRecorded
  BY DEF Inv, EndOK, EndRecorded
<1> QED
  BY <1>1, InvAlways, PTL

=============================================================================
