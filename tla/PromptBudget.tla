----------------------------- MODULE PromptBudget -----------------------------
(***************************************************************************)
(* How a prompt is fitted into its budget (retrieval/prompt.py,            *)
(* build_messages, with the budget that chat/service.py picks for a mode). *)
(* Each block has a limit of its own in characters; what is too much is    *)
(* dropped piece by piece, and every piece dropped is one step.            *)
(*                                                                         *)
(* A chunk is its length, found chunks come best first.  A message of the  *)
(* history is its role and its length, the oldest comes first.  Escaping   *)
(* keeps lengths, so it does not appear; a chunk of the speech block is    *)
(* one line, and the numbers of the data tags have one digit.              *)
(***************************************************************************)
EXTENDS Integers, Sequences, SequencesExt

CONSTANTS
  Mode,          \* modes that occur: "llm", "mock"
  PromptVersion, \* versions that occur: "v1", "v2"
  Name,          \* lengths of the character's name
  Profile,       \* lengths of profiles, at most MAX_PROFILE_CHARS
  Question,      \* lengths of questions, at most MAX_QUESTION_CHARS
  Speech,        \* sequences of chunk lengths, the speech chunks found
  Body,          \* sequences of chunk lengths, the body chunks found
  History        \* sequences of messages

Message == [role : {"user", "assistant", "system"}, size : Nat]

ASSUME PromptAssumption ==
  /\ Mode \subseteq {"llm", "mock"} /\ PromptVersion \subseteq {"v1", "v2"}
  /\ Name \cup Profile \cup Question \subseteq Nat
  /\ Speech \subseteq Seq(Nat) /\ Body \subseteq Seq(Nat)
  /\ History \subseteq Seq(Message)

VARIABLES
  given,      \* the arguments of build_messages
  pc,         \* the block that is worked on
  profile,    \* length of the profile in the prompt
  speech, body, history,   \* what is kept of each block
  dropped     \* how many of each block are gone, as counted for the metrics

vars == <<given, pc, profile, speech, body, history, dropped>>

-----------------------------------------------------------------------------
(* Lengths.                                                                *)

\* The length of what the renderers return: an introduction of 20 characters with
\* the opening and closing tags around lines that begin with "- ".
RenderSpeech(chunks) ==
  IF chunks = <<>> THEN 0 ELSE FoldLeft(+, 40, chunks) + 3 * Len(chunks) - 1

RenderReferences(chunks) ==
  IF chunks = <<>> THEN 20 ELSE FoldLeft(+, 20, chunks) + 20 * Len(chunks)

RoleChars(role) == IF role = "user" THEN 4 ELSE 9

RenderHistory(turns) ==
  LET Add(n, turn) == n + RoleChars(turn.role) + 2 + turn.size
  IN IF turns = <<>> THEN 0 ELSE FoldLeft(Add, Len(turns) - 1, turns)

\* The instruction of v2 names the character three times.
Instruction(version, name) == IF version = "v1" THEN 106 ELSE 278 + 3 * name
Fixed == Instruction(given.version, given.name) + 2 + given.name + 1

\* prompt_budget_for_mode.
Budget(mode) ==
  LET half == IF mode = "llm" THEN 2 ELSE 1
  IN [settings |-> 2000 \div half, speech |-> 1200 \div half,
      references |-> 5000 \div half, history |-> 2500 \div half,
      question |-> 2000 \div half]

Limit == Budget(given.mode)

-----------------------------------------------------------------------------
Init ==
  /\ given \in [mode : Mode, version : PromptVersion, name : Name, profile : Profile,
                question : Question, speech : Speech, body : Body, history : History]
  /\ pc = "settings"
  /\ profile = given.profile
  /\ speech = given.speech /\ body = given.body /\ history = given.history
  /\ dropped = [speech |-> 0, body |-> 0, history |-> 0]

\* The system message must be the only one of its role.
RefuseHistory ==
  /\ pc = "settings"
  /\ \E i \in 1 .. Len(history) : history[i].role = "system"
  /\ pc' = "refused"
  /\ UNCHANGED <<given, profile, speech, body, history, dropped>>

\* Only the profile is ever cut.
FitSettings ==
  LET room == IF Limit.settings > Fixed THEN Limit.settings - Fixed ELSE 0 IN
  /\ pc = "settings"
  /\ \A i \in 1 .. Len(history) : history[i].role # "system"
  /\ profile' = IF Fixed + profile > Limit.settings /\ room < profile THEN room ELSE profile
  /\ pc' = IF given.question > Limit.question THEN "too_long" ELSE "speech"
  /\ UNCHANGED <<given, speech, body, history, dropped>>

\* Mutant: the best speech chunk goes first.
DropBestSpeech ==
  /\ pc = "speech" /\ RenderSpeech(speech) > Limit.speech /\ speech # <<>>
  /\ speech' = Tail(speech)
  /\ dropped' = [dropped EXCEPT !.speech = @ + 1]
  /\ UNCHANGED <<given, pc, profile, body, history>>

DropSpeech ==
  /\ pc = "speech" /\ RenderSpeech(speech) > Limit.speech /\ speech # <<>>
  /\ speech' = Front(speech)
  /\ dropped' = [dropped EXCEPT !.speech = @ + 1]
  /\ UNCHANGED <<given, pc, profile, body, history>>

\* Mutant: at most one chunk is dropped.
SpeechDoneAfterOne ==
  /\ pc = "speech"
  /\ RenderSpeech(speech) <= Limit.speech \/ speech = <<>> \/ dropped.speech = 1
  /\ pc' = "references"
  /\ UNCHANGED <<given, profile, speech, body, history, dropped>>

SpeechDone ==
  /\ pc = "speech" /\ (RenderSpeech(speech) <= Limit.speech \/ speech = <<>>)
  /\ pc' = "references"
  /\ UNCHANGED <<given, profile, speech, body, history, dropped>>

DropReference ==
  /\ pc = "references" /\ RenderReferences(body) > Limit.references /\ body # <<>>
  /\ body' = Front(body)
  /\ dropped' = [dropped EXCEPT !.body = @ + 1]
  /\ UNCHANGED <<given, pc, profile, speech, history>>

ReferencesDone ==
  /\ pc = "references" /\ (RenderReferences(body) <= Limit.references \/ body = <<>>)
  /\ pc' = "history"
  /\ UNCHANGED <<given, profile, speech, body, history, dropped>>

\* A question and its answer go together (v2).
OldestExchangeLength(turns) ==
  IF Len(turns) >= 2 /\ turns[1].role = "user" /\ turns[2].role = "assistant" THEN 2 ELSE 1

DropHistory ==
  LET count == IF given.version = "v2" THEN OldestExchangeLength(history) ELSE 1 IN
  /\ pc = "history" /\ RenderHistory(history) > Limit.history /\ history # <<>>
  /\ history' = SubSeq(history, count + 1, Len(history))
  /\ dropped' = [dropped EXCEPT !.history = @ + count]
  /\ UNCHANGED <<given, pc, profile, speech, body>>

Assemble ==
  /\ pc = "history" /\ (RenderHistory(history) <= Limit.history \/ history = <<>>)
  /\ pc' = "built"
  /\ UNCHANGED <<given, profile, speech, body, history, dropped>>

Next ==
  \/ RefuseHistory \/ FitSettings
  \/ DropSpeech \/ SpeechDone \/ DropReference \/ ReferencesDone
  \/ DropHistory \/ Assemble

Spec == Init /\ [][Next]_vars

-----------------------------------------------------------------------------
(* Properties.                                                             *)

TypeOK ==
  /\ given \in [mode : Mode, version : PromptVersion, name : Name, profile : Profile,
                question : Question, speech : Speech, body : Body, history : History]
  /\ pc \in {"settings", "refused", "too_long", "speech", "references", "history", "built"}
  /\ profile \in Nat
  /\ speech \in Seq(Nat) /\ body \in Seq(Nat) /\ history \in Seq(Message)
  /\ dropped \in [speech : Nat, body : Nat, history : Nat]

\* What is kept of the chunks are the best ones, without a gap, what is kept of
\* the history is its newest part, and what is missing has been counted.
KeptIsBest ==
  /\ speech = SubSeq(given.speech, 1, Len(given.speech) - dropped.speech)
  /\ body = SubSeq(given.body, 1, Len(given.body) - dropped.body)
  /\ history = SubSeq(given.history, dropped.history + 1, Len(given.history))

\* Every block of a prompt that was built is within its limit.  The one exception
\* is the instruction with the character's name, which are never cut: where they
\* alone are too long, nothing of the profile is there.
BlocksFit ==
  /\ \/ Fixed + profile <= Limit.settings
     \/ Fixed > Limit.settings /\ profile = 0
  /\ RenderSpeech(speech) <= Limit.speech
  /\ RenderReferences(body) <= Limit.references
  /\ RenderHistory(history) <= Limit.history
  /\ given.question <= Limit.question

\* Where what was dropped last of the history began: v1 drops one message at a
\* time, v2 an exchange, or a message that belongs to none.
LastDropBegan ==
  IF given.version = "v1" THEN {dropped.history}
  ELSE {dropped.history - 1, dropped.history} \ {0}

\* Nothing is cut that would have fitted: a profile that was cut fills its block,
\* and with one more chunk, or with the message (v1) or the exchange (v2) that was
\* dropped last, the block is too long.
NothingWasted ==
  /\ profile < given.profile => Fixed + profile >= Limit.settings
  /\ dropped.speech > 0 =>
       RenderSpeech(SubSeq(given.speech, 1, Len(speech) + 1)) > Limit.speech
  /\ dropped.body > 0 =>
       RenderReferences(SubSeq(given.body, 1, Len(body) + 1)) > Limit.references
  /\ dropped.history > 0 =>
       \E i \in LastDropBegan :
         RenderHistory(SubSeq(given.history, i, Len(given.history))) > Limit.history

\* Does every question have its answer behind it?
Exchanges(turns) ==
  \A i \in 1 .. Len(turns) :
    turns[i].role = (IF i % 2 = 1 THEN "user" ELSE "assistant")

\* A v2 prompt made from whole exchanges starts with a question: no answer is
\* left without the question it answers.
ExchangesWhole ==
  given.version = "v2" /\ Exchanges(given.history) => Exchanges(history)

\* The budget is kept from both sides (prompt.py:229-263, the five tests of a
\* length): no block is too long, none is shorter than it had to be, and cutting
\* exchange by exchange never ends between a question and its answer.
PromptFits == pc = "built" => BlocksFit /\ NothingWasted /\ ExchangesWhole

-----------------------------------------------------------------------------
\* repository.py: the limit on profiles is such that the whole profile is always
\* in the prompt.
ProfileWhole == pc = "built" => profile = given.profile

\* prompt.py:78: the limits are those of the blocks.  A name has no limit of its own
\* (main.py:781), so that a long one takes the first block beyond its limit.
SettingsFit == pc = "built" => Fixed + profile <= Limit.settings

=============================================================================
