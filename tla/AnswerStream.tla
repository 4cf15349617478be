----------------------------- MODULE AnswerStream -----------------------------
(***************************************************************************)
(* One answer on its way from the model to the client, with every thread   *)
(* that has a part in it:                                                  *)
(*  - the response (chat/sse_stream.py), which owns the generator and runs *)
(*    its next() in a thread, one at a time;                               *)
(*  - the generator (chat/service.py), which sends the events and records  *)
(*    the end;                                                             *)
(*  - the worker that drains the model's stream into a queue, and in llm   *)
(*    mode the reader that takes its lines off the socket                  *)
(*    (chat/vllm_client.py);                                               *)
(*  - whoever calls cancel(): the cancel route or a heartbeat ("user"),    *)
(*    and the generator at its deadline.                                   *)
(* GenerationLifecycle shows the same answer as one row among others.      *)
(*                                                                         *)
(* Simplifications.  A deadline may pass at any time: which of two comes   *)
(* first is left open.  A token is its number.  Closing a response may or  *)
(* may not wake the read that waits for it, which then times out.          *)
(***************************************************************************)
EXTENDS Integers, Sequences, FiniteSets

CONSTANTS
  Lines,       \* kinds of lines that the model's server sends
  MaxLines     \* bound: lines the server sends

\* What a line of the stream can be, as _token_from_line and
\* _content_from_chunk tell them apart.
Ignored == {"blank", "comment", "other_field", "no_choices", "no_delta", "no_content"}
Malformed == {"bad_json", "no_object", "bad_choice", "bad_delta", "bad_content"}
LineKinds == Ignored \cup Malformed \cup {"content", "done"}

ASSUME StreamAssumption == Lines \subseteq LineKinds /\ MaxLines \in Nat

Caller == {"user", "deadline"}

VARIABLES
  owner,      \* the response: serving, cleaning up, closing, done
  pending,    \* is next() running?
  gone,       \* client_gone
  gen,        \* where the generator is
  sent,       \* the events it yielded
  content,    \* number of tokens in content_parts
  outcome,    \* the status it means to record
  saved,      \* the status that the row got, or "refused": the database failed the write
  worker,     \* where the worker is
  pieces,     \* chunk_queue
  reader,     \* the reader: none, blocked, over
  lines,      \* the queue of lines
  emitted,    \* lines that the server has sent
  response,   \* attempt.response: none, open, closed
  flag,       \* attempt.cancelled
  calling,    \* [Caller -> where a call of cancel() is]
  asked       \* is the row in cancel_requested?

ownerVars == <<owner, pending, gone>>
genVars == <<gen, sent, content, outcome, saved>>
workerVars == <<worker, pieces>>
serverVars == <<reader, lines, emitted>>
cancelVars == <<flag, calling, asked>>
vars == <<owner, pending, gone, gen, sent, content, outcome, saved,
          worker, pieces, reader, lines, emitted, response, flag, calling, asked>>

Init ==
  /\ owner = "serving" /\ pending = FALSE /\ gone = FALSE
  /\ gen = "new" /\ sent = <<>> /\ content = 0 /\ outcome = "none" /\ saved = "none"
  /\ worker = "none" /\ pieces = <<>>
  /\ reader = "none" /\ lines = <<>> /\ emitted = <<>>
  /\ response = "none"
  /\ flag = FALSE /\ calling = [c \in Caller |-> "idle"] /\ asked = FALSE

-----------------------------------------------------------------------------
(* The response.                                                           *)

CallNext ==
  /\ owner = "serving" /\ ~pending /\ gen # "ended"
  /\ pending' = TRUE
  /\ UNCHANGED <<owner, gone, genVars, workerVars, serverVars, response, cancelVars>>

\* The generator is exhausted, or the client disconnects: at any time.
CleanUp ==
  /\ owner = "serving"
  /\ owner' = "cleaning" /\ gone' = TRUE
  /\ UNCHANGED <<pending, genVars, workerVars, serverVars, response, cancelVars>>

\* Mutant: the running next() is not awaited.
CloseAtOnce ==
  /\ owner = "cleaning"
  /\ owner' = "closing"
  /\ UNCHANGED <<pending, gone, genVars, workerVars, serverVars, response, cancelVars>>

AwaitNext ==
  /\ owner = "cleaning" /\ ~pending
  /\ owner' = "closing"
  /\ UNCHANGED <<pending, gone, genVars, workerVars, serverVars, response, cancelVars>>

\* mark_generation_reconciling leaves a finished row alone; the database may
\* fail it, and nobody tries again.
RecordDisconnect ==
  saved' \in IF saved = "none" THEN {"reconciling", "refused"} ELSE {saved}

\* Mutant: GeneratorExit is not caught.
CloseUnrecorded ==
  /\ owner = "closing"
  /\ owner' = "done" /\ gen' = "ended"
  /\ UNCHANGED <<pending, gone, sent, content, outcome, saved, workerVars,
                 serverVars, response, cancelVars>>

\* close(): GeneratorExit where the generator waits; before its first step and
\* after its last there is nothing to catch it.
Close ==
  /\ owner = "closing"
  /\ owner' = "done" /\ gen' = "ended"
  /\ IF gen \in {"new", "ended"} THEN UNCHANGED saved ELSE RecordDisconnect
  /\ UNCHANGED <<pending, gone, sent, content, outcome, workerVars, serverVars,
                 response, cancelVars>>

-----------------------------------------------------------------------------
(* The generator, in a call of next().                                     *)

Yield(event) == sent' = Append(sent, event) /\ pending' = FALSE

SendMeta ==
  /\ pending /\ gen = "new"
  /\ gen' = "meta"
  /\ Yield("meta")
  /\ UNCHANGED <<owner, gone, content, outcome, saved, workerVars, serverVars,
                 response, cancelVars>>

\* Retrieval and prompt, or the snapshot of the first attempt.
Prepare ==
  /\ pending /\ gen = "meta"
  /\ \/ /\ gen' = "cited" /\ Yield("citations")
        /\ UNCHANGED outcome
     \/ /\ gen' = "finish" /\ outcome' = "failed"
        /\ UNCHANGED <<sent, pending>>
  /\ UNCHANGED <<owner, gone, content, saved, workerVars, serverVars, response,
                 cancelVars>>

StartWorker ==
  /\ pending /\ gen = "cited"
  /\ gen' = "wait" /\ worker' = "spawned"
  /\ UNCHANGED <<ownerVars, sent, content, outcome, saved, pieces, serverVars,
                 response, cancelVars>>

TakePiece ==
  /\ pending /\ gen = "wait" /\ pieces # <<>>
  /\ pieces' = Tail(pieces)
  /\ \/ /\ Head(pieces) = "chunk"
        /\ content' = content + 1
        /\ Yield("delta")
        /\ UNCHANGED <<gen, outcome>>
     \/ /\ Head(pieces) \in {"end", "error"}
        /\ gen' = "finish"
        /\ outcome' = IF Head(pieces) = "end" THEN "completed" ELSE "failed"
        /\ UNCHANGED <<content, sent, pending>>
  /\ UNCHANGED <<owner, gone, saved, worker, serverVars, response, cancelVars>>

\* It wakes up, finds the queue empty, and looks for the client first.
NoticeGone ==
  /\ pending /\ gen = "wait" /\ pieces = <<>> /\ gone
  /\ gen' = "ended" /\ pending' = FALSE
  /\ RecordDisconnect
  /\ UNCHANGED <<owner, gone, sent, content, outcome, workerVars, serverVars,
                 response, cancelVars>>

\* Mutant: the deadline is looked at when a token comes (as it once was).
DeadlineWithToken ==
  /\ pending /\ gen = "wait" /\ pieces # <<>> /\ ~gone
  /\ gen' = "cancelling"
  /\ calling' = [calling EXCEPT !["deadline"] = "called"]
  /\ UNCHANGED <<ownerVars, sent, content, outcome, saved, workerVars, serverVars,
                 response, flag, asked>>

\* The time for the first token, or for the answer, is over.
Deadline ==
  /\ pending /\ gen = "wait" /\ pieces = <<>> /\ ~gone
  /\ gen' = "cancelling"
  /\ calling' = [calling EXCEPT !["deadline"] = "called"]
  /\ UNCHANGED <<ownerVars, sent, content, outcome, saved, workerVars, serverVars,
                 response, flag, asked>>

AfterDeadline ==
  /\ pending /\ gen = "cancelling" /\ calling["deadline"] = "over"
  /\ gen' = "finish" /\ outcome' = "failed"
  /\ UNCHANGED <<ownerVars, sent, content, saved, workerVars, serverVars, response,
                 cancelVars>>

\* finish_generation: a cancel that was asked for comes first.
Finish ==
  /\ pending /\ gen = "finish"
  /\ gen' = "last"
  /\ saved' = IF asked THEN "cancelled" ELSE outcome
  /\ Yield(IF saved' = "completed" THEN "done" ELSE "error")
  /\ UNCHANGED <<owner, gone, content, outcome, workerVars, serverVars, response,
                 cancelVars>>

\* The database fails that write.  The safety net tries once more, as failed;
\* when it fails as well, next() ends with its exception.
SafetyNet ==
  /\ pending /\ gen = "finish"
  /\ \/ /\ gen' = "last"
        /\ saved' = IF asked THEN "cancelled" ELSE "failed"
        /\ Yield("error")
     \/ /\ gen' = "ended" /\ pending' = FALSE
        /\ saved' = "refused"
        /\ UNCHANGED sent
  /\ UNCHANGED <<owner, gone, content, outcome, workerVars, serverVars, response,
                 cancelVars>>

Exhausted ==
  /\ pending /\ gen \in {"last", "ended"}
  /\ gen' = "ended" /\ pending' = FALSE
  /\ UNCHANGED <<owner, gone, sent, content, outcome, saved, workerVars, serverVars,
                 response, cancelVars>>

-----------------------------------------------------------------------------
(* The worker, in start() and _stream and _tokens.                         *)

Registered == worker \notin {"none", "spawned", "over"}
CloseResponse == response' = IF response = "open" THEN "closed" ELSE response

Put(piece) == pieces' = Append(pieces, piece)

\* The stream ends with or without an exception; the response is closed.
Return(piece) == worker' = "over" /\ Put(piece) /\ CloseResponse

\* An exception after cancel() is no failure.
Fail == Return(IF flag THEN "end" ELSE "error")

Register ==
  /\ worker = "spawned"
  /\ worker' = "registered"
  /\ UNCHANGED <<ownerVars, genVars, pieces, serverVars, response, cancelVars>>

SendRequest ==
  /\ worker = "registered"
  /\ \/ flag /\ Return("end")
     \/ ~flag /\ worker' = "requesting" /\ UNCHANGED <<pieces, response>>
  /\ UNCHANGED <<ownerVars, genVars, serverVars, cancelVars>>

\* The headers come, or the connection fails or times out.
Answered ==
  /\ worker = "requesting"
  /\ \/ worker' = "attached" /\ response' = "open" /\ UNCHANGED pieces
     \/ Fail
  /\ UNCHANGED <<ownerVars, genVars, serverVars, cancelVars>>

\* Mutant: a cancel that came before the response is not looked for.
ReadAtOnce ==
  /\ worker = "attached"
  /\ \/ Return("error") /\ UNCHANGED reader
     \/ worker' = "getting" /\ reader' = "blocked" /\ UNCHANGED <<pieces, response>>
  /\ UNCHANGED <<ownerVars, genVars, lines, emitted, cancelVars>>

\* The cancel is looked for before the status.
CheckResponse ==
  /\ worker = "attached"
  /\ \/ flag /\ Return("end") /\ UNCHANGED reader
     \/ ~flag /\ Return("error") /\ UNCHANGED reader
     \/ ~flag /\ worker' = "looping" /\ reader' = "blocked" /\ UNCHANGED <<pieces, response>>
  /\ UNCHANGED <<ownerVars, genVars, lines, emitted, cancelVars>>

Loop ==
  /\ worker = "looping"
  /\ \/ flag /\ Return("end")
     \/ ~flag /\ worker' = "getting" /\ UNCHANGED <<pieces, response>>
  /\ UNCHANGED <<ownerVars, genVars, serverVars, cancelVars>>

\* Mutant: a stream that ends is an answer that ends.
AfterLineOrEnd(line) ==
  \/ line \in {"done", "end"} /\ Return("end")
  \/ line = "error" /\ Fail
  \/ line \in Malformed /\ Return("error")
  \/ line = "content" /\ worker' = "looping" /\ Put("chunk") /\ UNCHANGED response
  \/ line \in Ignored /\ worker' = "looping" /\ UNCHANGED <<pieces, response>>

\* Only [DONE] ends an answer; a stream that ends without it is cut off.
AfterLine(line) ==
  \/ line = "done" /\ Return("end")
  \/ line \in {"end", "error"} /\ Fail
  \/ line \in Malformed /\ Return("error")
  \/ line = "content" /\ worker' = "looping" /\ Put("chunk") /\ UNCHANGED response
  \/ line \in Ignored /\ worker' = "looping" /\ UNCHANGED <<pieces, response>>

GetLine ==
  /\ worker = "getting" /\ lines # <<>>
  /\ lines' = Tail(lines)
  /\ AfterLine(Head(lines))
  /\ UNCHANGED <<ownerVars, genVars, reader, emitted, cancelVars>>

\* The first token or the next one takes too long.
UpstreamTimeout ==
  /\ worker = "getting" /\ lines = <<>>
  /\ Fail
  /\ UNCHANGED <<ownerVars, genVars, serverVars, cancelVars>>

-----------------------------------------------------------------------------
(* The server and the reader.                                              *)

SendLine ==
  /\ reader = "blocked" /\ Len(emitted) < MaxLines
  /\ \E line \in Lines : emitted' = Append(emitted, line) /\ lines' = Append(lines, line)
  /\ UNCHANGED <<ownerVars, genVars, workerVars, reader, response, cancelVars>>

\* The server ends the stream, or the read fails: the connection breaks, it
\* times out, or this side has closed it.
EndRead ==
  /\ reader = "blocked"
  /\ reader' = "over"
  /\ \E line \in {"end", "error"} : lines' = Append(lines, line)
  /\ UNCHANGED <<ownerVars, genVars, workerVars, emitted, response, cancelVars>>

-----------------------------------------------------------------------------
(* cancel().                                                               *)

\* The cancel route has changed the row, and a heartbeat of the instance that
\* streams it, or the route itself, calls cancel().
AskCancel ==
  /\ calling["user"] = "idle" /\ saved \in {"none", "refused"}
  /\ asked' = TRUE
  /\ calling' = [calling EXCEPT !["user"] = "called"]
  /\ UNCHANGED <<ownerVars, genVars, workerVars, serverVars, response, flag>>

LookUp(c) ==
  /\ calling[c] = "called"
  /\ calling' = [calling EXCEPT ![c] = IF Registered THEN "found" ELSE "over"]
  /\ UNCHANGED <<ownerVars, genVars, workerVars, serverVars, response, flag, asked>>

SetFlag(c) ==
  /\ calling[c] = "found"
  /\ calling' = [calling EXCEPT ![c] = "flagged"] /\ flag' = TRUE
  /\ UNCHANGED <<ownerVars, genVars, workerVars, serverVars, response, asked>>

CloseOpen(c) ==
  /\ calling[c] = "flagged"
  /\ calling' = [calling EXCEPT ![c] = "over"]
  /\ CloseResponse
  /\ UNCHANGED <<ownerVars, genVars, workerVars, serverVars, flag, asked>>

-----------------------------------------------------------------------------
Owner == CallNext \/ AwaitNext \/ Close
Generator ==
  SendMeta \/ Prepare \/ StartWorker \/ TakePiece \/ NoticeGone \/ AfterDeadline \/
  Finish \/ SafetyNet \/ Exhausted
Worker ==
  Register \/ SendRequest \/ Answered \/ CheckResponse \/ Loop \/ GetLine \/ UpstreamTimeout
CancelCall == \E c \in Caller : LookUp(c) \/ SetFlag(c) \/ CloseOpen(c)

Next ==
  Owner \/ CleanUp \/ Generator \/ Deadline \/ Worker \/ SendLine \/ EndRead \/
  AskCancel \/ CancelCall

Spec == Init /\ [][Next]_vars

\* The threads of the Gateway go on; nothing is assumed of the model's server,
\* of the worker that talks to it, or of any deadline.
Threads == WF_vars(Owner) /\ WF_vars(Generator) /\ WF_vars(CancelCall)

\* An exhausted generator ends the response, and time passes.
Serving == Threads /\ WF_vars(gen = "ended" /\ CleanUp) /\ WF_vars(Deadline)

ThreadSpec == Spec /\ Threads
ServeSpec == Spec /\ Serving

-----------------------------------------------------------------------------
(* Properties.                                                             *)

TypeOK ==
  /\ owner \in {"serving", "cleaning", "closing", "done"}
  /\ pending \in BOOLEAN /\ gone \in BOOLEAN
  /\ gen \in {"new", "meta", "cited", "wait", "cancelling", "finish", "last", "ended"}
  /\ sent \in Seq({"meta", "citations", "delta", "done", "error"})
  /\ content \in 0 .. MaxLines
  /\ outcome \in {"none", "completed", "failed"}
  /\ saved \in {"none", "completed", "failed", "cancelled", "reconciling", "refused"}
  /\ worker \in {"none", "spawned", "registered", "requesting", "attached", "looping",
                 "getting", "over"}
  /\ pieces \in Seq({"chunk", "end", "error"})
  /\ reader \in {"none", "blocked", "over"}
  /\ lines \in Seq(Lines \cup {"end", "error"})
  /\ emitted \in Seq(Lines)
  /\ response \in {"none", "open", "closed"}
  /\ flag \in BOOLEAN /\ asked \in BOOLEAN
  /\ calling \in [Caller -> {"idle", "called", "found", "flagged", "over"}]

\* next() and close() never run at the same time.
OneAtATime == owner \in {"closing", "done"} => ~pending

\* The tokens among the first n lines that the server sent.
Tokens(n) == Cardinality({m \in 1 .. n : emitted[m] = "content"})

\* An answer is saved as completed only if the server said [DONE], and with
\* every token that it sent before that.
CompletedIsWhole ==
  saved = "completed" =>
    \E n \in 1 .. Len(emitted) :
      /\ emitted[n] = "done"
      /\ content = Tokens(n)

\* meta, citations, tokens, and at most one last event, which is the last one;
\* without citations there is nothing but an error.
EventOrder ==
  \A n \in 1 .. Len(sent) :
    /\ (sent[n] = "meta") <=> (n = 1)
    /\ sent[n] = "citations" => n = 2
    /\ sent[n] \in {"delta", "done"} => n > 2 /\ sent[2] = "citations"
    /\ sent[n] \in {"done", "error"} => n = Len(sent)

\* Once a cancel() has found the request and is over, the connection is closed,
\* or the worker will look before it reads on.
CancelNotMissed ==
  /\ flag /\ \A c \in Caller : calling[c] \notin {"found", "flagged"}
  => response # "open" \/ worker = "attached"

\* The end of every stream that a client saw begin is written to its row,
\* whoever ends it; "refused" is a write that the database failed.
EndRecorded == owner = "done" /\ sent # <<>> => saved # "none"

\* A client that is gone is noticed without the help of the model's server or
\* of a deadline.
GoneNoticed == (owner = "cleaning") ~> (owner = "done")

\* Whatever the server does or fails to do, the response ends.
AnswerEnds == <>(owner = "done")

-----------------------------------------------------------------------------
(* What the documents say and the code does not do.                        *)

\* Nothing unexpected leaves a row active and its slot blocked
\* (chat/service.py:280-284).
EndAlwaysRecorded == owner = "done" /\ sent # <<>> => saved \notin {"none", "refused"}

\* A request is registered before anyone can cancel it, so that the deadline's
\* cancel() finds it.
DeadlineFinds == calling["deadline"] = "over" => flag \/ worker = "over"

=============================================================================
