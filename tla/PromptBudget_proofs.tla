------------------------- MODULE PromptBudget_proofs -------------------------
(***************************************************************************)
(* Proofs about PromptBudget, for every set of inputs: any number of       *)
(* chunks and messages of any lengths, any name, profile and question.     *)
(***************************************************************************)
EXTENDS PromptBudget, SequenceTheorems, TLAPS

\* Where every block stands: what is kept, what is gone, and that it had to go.
SpeechKept ==
  /\ dropped.speech \in 0 .. Len(given.speech)
  /\ speech = SubSeq(given.speech, 1, Len(given.speech) - dropped.speech)
  /\ dropped.speech > 0 =>
       RenderSpeech(SubSeq(given.speech, 1, Len(given.speech) - dropped.speech + 1))
         > Limit.speech

BodyKept ==
  /\ dropped.body \in 0 .. Len(given.body)
  /\ body = SubSeq(given.body, 1, Len(given.body) - dropped.body)
  /\ dropped.body > 0 =>
       RenderReferences(SubSeq(given.body, 1, Len(given.body) - dropped.body + 1))
         > Limit.references

HistoryKept ==
  /\ dropped.history \in 0 .. Len(given.history)
  /\ history = SubSeq(given.history, dropped.history + 1, Len(given.history))
  /\ dropped.history > 0 =>
       \E i \in LastDropBegan :
         RenderHistory(SubSeq(given.history, i, Len(given.history))) > Limit.history

\* A block that the work has passed fits.
BlockOneFits ==
  /\ pc = "settings" => profile = given.profile
  /\ pc \in {"speech", "references", "history", "built"} =>
    /\ \/ Fixed + profile <= Limit.settings
       \/ Fixed > Limit.settings /\ profile = 0
    /\ profile < given.profile => Fixed + profile >= Limit.settings
    /\ given.question <= Limit.question

SpeechFits ==
  pc \in {"references", "history", "built"} => RenderSpeech(speech) <= Limit.speech

BodyFits ==
  pc \in {"history", "built"} => RenderReferences(body) <= Limit.references

HistoryFits == pc = "built" => RenderHistory(history) <= Limit.history

IInv ==
  /\ TypeOK
  /\ SpeechKept /\ BodyKept /\ HistoryKept
  /\ BlockOneFits /\ SpeechFits /\ BodyFits /\ HistoryFits
  /\ ExchangesWhole

-----------------------------------------------------------------------------
(* Sequences and limits.                                                   *)

LEMMA PrefixFront ==
  ASSUME NEW S, NEW s \in Seq(S), NEW n \in 1 .. Len(s)
  PROVE  /\ SubSeq(s, 1, n) \in Seq(S)
         /\ Len(SubSeq(s, 1, n)) = n
         /\ Front(SubSeq(s, 1, n)) = SubSeq(s, 1, n - 1)
BY DEF Front

LEMMA Prefix ==
  ASSUME NEW S, NEW s \in Seq(S), NEW n \in 0 .. Len(s)
  PROVE  SubSeq(s, 1, n) \in Seq(S) /\ Len(SubSeq(s, 1, n)) = n
<1>1. CASE n = 0
  BY <1>1, EmptySeq, SubSeqEmpty
<1>2. CASE n > 0
  BY <1>2, PrefixFront
<1> QED
  BY <1>1, <1>2, LenProperties

LEMMA SuffixCut ==
  ASSUME NEW S, NEW s \in Seq(S), NEW m \in 0 .. Len(s), NEW c \in 0 .. Len(s) - m
  PROVE  LET t == SubSeq(s, m + 1, Len(s)) IN
         /\ t \in Seq(S) /\ Len(t) = Len(s) - m
         /\ SubSeq(t, c + 1, Len(t)) = SubSeq(s, m + c + 1, Len(s))
OBVIOUS

LEMMA WholeIsPrefix ==
  ASSUME NEW S, NEW s \in Seq(S)
  PROVE  SubSeq(s, 1, Len(s) - 0) = s /\ SubSeq(s, 0 + 1, Len(s)) = s
OBVIOUS

LEMMA EmptyFits ==
  ASSUME TypeOK
  PROVE  /\ RenderSpeech(<<>>) <= Limit.speech
         /\ RenderReferences(<<>>) <= Limit.references
         /\ RenderHistory(<<>>) <= Limit.history
<1>1. Limit.speech \in Nat /\ Limit.history \in Nat
      /\ Limit.references \in Nat /\ Limit.references >= 20
  BY DEF Limit, Budget
<1>2. RenderSpeech(<<>>) = 0 /\ RenderReferences(<<>>) = 20 /\ RenderHistory(<<>>) = 0
  BY DEF RenderSpeech, RenderReferences, RenderHistory
<1> QED
  BY <1>1, <1>2

LEMMA LimitsAreNumbers ==
  ASSUME TypeOK
  PROVE  Limit.settings \in Nat /\ Limit.question \in Nat /\ Fixed \in Nat
<1>1. Limit.settings \in Nat /\ Limit.question \in Nat
  BY DEF Limit, Budget
<1>2. given.name \in Nat
  BY PromptAssumption DEF TypeOK
<1>3. Instruction(given.version, given.name) \in Nat
  BY <1>2 DEF Instruction
<1>4. Fixed \in Nat
  BY <1>2, <1>3 DEF Fixed
<1> QED
  BY <1>1, <1>4

\* What is cut from the front of exchanges leaves exchanges.
LEMMA ExchangeCut ==
  ASSUME NEW turns \in Seq(Message), Exchanges(turns), turns # <<>>
  PROVE  Exchanges(SubSeq(turns, OldestExchangeLength(turns) + 1, Len(turns)))
<1>1. CASE Len(turns) = 1
  BY <1>1 DEF Exchanges, OldestExchangeLength
<1>0. Len(turns) \in Nat \ {0}
  BY EmptySeq
<1>2. CASE Len(turns) >= 2
  <2>1. turns[1].role = "user" /\ turns[2].role = "assistant"
    BY <1>2 DEF Exchanges
  <2>2. OldestExchangeLength(turns) = 2
    BY <1>2, <2>1 DEF OldestExchangeLength
  <2>3. ASSUME NEW i \in 1 .. Len(turns) - 2
        PROVE  (i + 2) % 2 = i % 2
    OBVIOUS
  <2>4. /\ Len(SubSeq(turns, 3, Len(turns))) = Len(turns) - 2
        /\ \A i \in 1 .. Len(turns) - 2 : SubSeq(turns, 3, Len(turns))[i] = turns[i + 2]
    <3> DEFINE n == Len(turns)
    <3>1. n \in Int /\ n >= 2 /\ \A i \in 3 .. n : turns[i] \in Message
      BY <1>2, LenProperties
    <3> HIDE DEF n
    <3>2. /\ Len(SubSeq(turns, 3, n)) = IF 3 <= n THEN n - 3 + 1 ELSE 0
          /\ \A i \in 1 .. n - 3 + 1 : SubSeq(turns, 3, n)[i] = turns[3 + i - 1]
      BY <3>1, SubSeqProperties
    <3>3. \A i \in 1 .. n - 2 : 3 + i - 1 = i + 2
      OBVIOUS
    <3>4. /\ Len(SubSeq(turns, 3, n)) = n - 2
          /\ \A i \in 1 .. n - 2 : SubSeq(turns, 3, n)[i] = turns[i + 2]
      <4>1. n - 3 + 1 = n - 2 /\ (IF 3 <= n THEN n - 3 + 1 ELSE 0) = n - 2
        BY <3>1
      <4> QED
        BY <3>2, <3>3, <4>1
    <3> QED
      BY <3>4 DEF n
  <2> QED
    BY <1>2, <2>2, <2>3, <2>4 DEF Exchanges
<1>3. Len(turns) = 1 \/ Len(turns) >= 2
  <2>1. \A n \in Nat \ {0} : n = 1 \/ n >= 2
    OBVIOUS
  <2> QED
    BY <1>0, <2>1, Zenon
<1> QED
  BY <1>1, <1>2, <1>3

LEMMA ExchangeLength ==
  ASSUME NEW turns \in Seq(Message), turns # <<>>
  PROVE  OldestExchangeLength(turns) \in 1 .. 2 /\ OldestExchangeLength(turns) <= Len(turns)
BY EmptySeq DEF OldestExchangeLength

Counts == [speech : Nat, body : Nat, history : Nat]

LEMMA OneCounted ==
  ASSUME NEW d \in Counts, NEW n \in Nat
  PROVE  /\ LET e == [d EXCEPT !.speech = @ + n]
            IN  /\ e \in Counts /\ e.speech = d.speech + n
                /\ e.body = d.body /\ e.history = d.history
         /\ LET e == [d EXCEPT !.body = @ + n]
            IN  /\ e \in Counts /\ e.speech = d.speech
                /\ e.body = d.body + n /\ e.history = d.history
         /\ LET e == [d EXCEPT !.history = @ + n]
            IN  /\ e \in Counts /\ e.speech = d.speech
                /\ e.body = d.body /\ e.history = d.history + n
BY DEF Counts

-----------------------------------------------------------------------------
LEMMA InitHolds == Init => IInv
<1> SUFFICES ASSUME Init PROVE IInv
  OBVIOUS
<1>1. TypeOK
  BY PromptAssumption DEF Init, TypeOK
<1>2. given.speech \in Seq(Nat) /\ given.body \in Seq(Nat) /\ given.history \in Seq(Message)
  BY PromptAssumption DEF Init
<1>3. SpeechKept
  BY <1>2, WholeIsPrefix DEF Init, SpeechKept
<1>4. BodyKept
  BY <1>2, WholeIsPrefix DEF Init, BodyKept
<1>5. HistoryKept
  BY <1>2, WholeIsPrefix DEF Init, HistoryKept
<1>6. BlockOneFits /\ SpeechFits /\ BodyFits /\ HistoryFits /\ ExchangesWhole
  BY DEF Init, BlockOneFits, SpeechFits, BodyFits, HistoryFits, ExchangesWhole
<1> QED
  BY <1>1, <1>3, <1>4, <1>5, <1>6 DEF IInv

LEMMA StepKeeps == IInv /\ [Next]_vars => IInv'
<1> SUFFICES ASSUME IInv, [Next]_vars PROVE IInv'
  OBVIOUS
<1> USE DEF IInv
<1>0. given.speech \in Seq(Nat) /\ given.body \in Seq(Nat) /\ given.history \in Seq(Message)
  BY PromptAssumption DEF TypeOK
<1>1. CASE RefuseHistory
  BY <1>1 DEF RefuseHistory, TypeOK, SpeechKept, BodyKept, HistoryKept, LastDropBegan, BlockOneFits,
     SpeechFits, BodyFits, HistoryFits, ExchangesWhole, Limit, Fixed
<1>2. CASE FitSettings
  <2>1. TypeOK'
    BY <1>2, LimitsAreNumbers DEF FitSettings, TypeOK
  <2>2. SpeechKept' /\ BodyKept' /\ HistoryKept' /\ ExchangesWhole'
    BY <1>2 DEF FitSettings, SpeechKept, BodyKept, HistoryKept, LastDropBegan, ExchangesWhole, Limit
  <2>3. BlockOneFits'
    <3>1. profile \in Nat /\ given.question \in Nat
      BY PromptAssumption DEF TypeOK
    <3>2. Limit' = Limit /\ Fixed' = Fixed
      BY <1>2 DEF FitSettings, Limit, Fixed
    <3> QED
      BY <1>2, <3>1, <3>2, LimitsAreNumbers DEF FitSettings, BlockOneFits
  <2>4. SpeechFits' /\ BodyFits' /\ HistoryFits'
    BY <1>2 DEF FitSettings, SpeechFits, BodyFits, HistoryFits
  <2> QED
    BY <2>1, <2>2, <2>3, <2>4
<1>3. CASE DropSpeech
  <2> DEFINE n == Len(given.speech) - dropped.speech
  <2>0. dropped.speech \in 0 .. Len(given.speech) /\ Len(given.speech) \in Nat
        /\ speech = SubSeq(given.speech, 1, n) /\ speech # <<>>
    BY <1>0, <1>3, LenProperties DEF DropSpeech, SpeechKept
  <2>1. n \in 1 .. Len(given.speech)
    BY <2>0, SubSeqEmpty
  <2>2. /\ speech' = SubSeq(given.speech, 1, n - 1) /\ speech' \in Seq(Nat)
        /\ dropped'.speech = dropped.speech + 1
        /\ dropped' \in Counts
        /\ dropped'.body = dropped.body /\ dropped'.history = dropped.history
    <3>1. /\ dropped'.speech = dropped.speech + 1
          /\ dropped' \in Counts
          /\ dropped'.body = dropped.body /\ dropped'.history = dropped.history
      <4>1. dropped \in Counts /\ dropped' = [dropped EXCEPT !.speech = @ + 1]
        BY <1>3 DEF DropSpeech, TypeOK, Counts
      <4> QED
        BY <4>1, OneCounted
    <3>2. speech' = SubSeq(given.speech, 1, n - 1)
      BY <1>0, <1>3, <2>0, <2>1, PrefixFront DEF DropSpeech
    <3>3. SubSeq(given.speech, 1, n - 1) \in Seq(Nat)
      <4>1. n - 1 \in 0 .. Len(given.speech)
        BY <2>0, <2>1
      <4> HIDE DEF n
      <4> QED
        BY <1>0, <4>1, Prefix
    <3> QED
      BY <3>1, <3>2, <3>3
  <2>3. TypeOK'
    BY <1>3, <2>2 DEF DropSpeech, TypeOK, Counts
  <2>4. SpeechKept'
    <3>1. dropped'.speech \in 0 .. Len(given.speech)
          /\ n - 1 = Len(given.speech) - dropped'.speech
          /\ n = Len(given.speech) - dropped'.speech + 1
      <4>1. /\ Len(given.speech) \in Nat /\ dropped.speech \in 0 .. Len(given.speech)
            /\ dropped'.speech = dropped.speech + 1 /\ n >= 1
        BY <2>0, <2>1, <2>2
      <4> QED
        BY <4>1
    <3>2. RenderSpeech(SubSeq(given.speech, 1, n)) > Limit.speech
      BY <1>3 DEF DropSpeech, SpeechKept
    <3>3. given' = given /\ Limit' = Limit
      BY <1>3 DEF DropSpeech, Limit
    <3> HIDE DEF n
    <3> QED
      BY <2>2, <3>1, <3>2, <3>3 DEF SpeechKept
  <2>5. BodyKept' /\ HistoryKept' /\ BlockOneFits' /\ SpeechFits' /\ BodyFits' /\ HistoryFits'
        /\ ExchangesWhole'
    BY <1>3, <2>2 DEF DropSpeech, BodyKept, HistoryKept, LastDropBegan, BlockOneFits, SpeechFits, BodyFits,
       HistoryFits, ExchangesWhole, Limit, Fixed
  <2> QED
    BY <2>3, <2>4, <2>5
<1>4. CASE SpeechDone
  <2>1. SpeechFits'
    BY <1>4, EmptyFits DEF SpeechDone, SpeechFits, Limit
  <2> QED
    BY <1>4, <2>1 DEF SpeechDone, TypeOK, SpeechKept, BodyKept, HistoryKept, LastDropBegan, BlockOneFits,
       BodyFits, HistoryFits, ExchangesWhole, Limit, Fixed
<1>5. CASE DropReference
  <2> DEFINE n == Len(given.body) - dropped.body
  <2>0. dropped.body \in 0 .. Len(given.body) /\ Len(given.body) \in Nat
        /\ body = SubSeq(given.body, 1, n) /\ body # <<>>
    BY <1>0, <1>5, LenProperties DEF DropReference, BodyKept
  <2>1. n \in 1 .. Len(given.body)
    BY <2>0, SubSeqEmpty
  <2>2. /\ body' = SubSeq(given.body, 1, n - 1) /\ body' \in Seq(Nat)
        /\ dropped'.body = dropped.body + 1
        /\ dropped' \in Counts
        /\ dropped'.speech = dropped.speech /\ dropped'.history = dropped.history
    <3>1. /\ dropped'.body = dropped.body + 1
          /\ dropped' \in Counts
          /\ dropped'.speech = dropped.speech /\ dropped'.history = dropped.history
      <4>1. dropped \in Counts /\ dropped' = [dropped EXCEPT !.body = @ + 1]
        BY <1>5 DEF DropReference, TypeOK, Counts
      <4> QED
        BY <4>1, OneCounted
    <3>2. body' = SubSeq(given.body, 1, n - 1)
      BY <1>0, <1>5, <2>0, <2>1, PrefixFront DEF DropReference
    <3>3. SubSeq(given.body, 1, n - 1) \in Seq(Nat)
      <4>1. n - 1 \in 0 .. Len(given.body)
        BY <2>0, <2>1
      <4> HIDE DEF n
      <4> QED
        BY <1>0, <4>1, Prefix
    <3> QED
      BY <3>1, <3>2, <3>3
  <2>3. TypeOK'
    BY <1>5, <2>2 DEF DropReference, TypeOK, Counts
  <2>4. BodyKept'
    <3>1. dropped'.body \in 0 .. Len(given.body)
          /\ n - 1 = Len(given.body) - dropped'.body
          /\ n = Len(given.body) - dropped'.body + 1
      <4>1. /\ Len(given.body) \in Nat /\ dropped.body \in 0 .. Len(given.body)
            /\ dropped'.body = dropped.body + 1 /\ n >= 1
        BY <2>0, <2>1, <2>2
      <4> QED
        BY <4>1
    <3>2. RenderReferences(SubSeq(given.body, 1, n)) > Limit.references
      BY <1>5 DEF DropReference, BodyKept
    <3>3. given' = given /\ Limit' = Limit
      BY <1>5 DEF DropReference, Limit
    <3> HIDE DEF n
    <3> QED
      BY <2>2, <3>1, <3>2, <3>3 DEF BodyKept
  <2>5. SpeechKept' /\ HistoryKept' /\ BlockOneFits' /\ SpeechFits' /\ BodyFits' /\ HistoryFits'
        /\ ExchangesWhole'
    BY <1>5, <2>2 DEF DropReference, SpeechKept, HistoryKept, LastDropBegan, BlockOneFits, SpeechFits,
       BodyFits, HistoryFits, ExchangesWhole, Limit, Fixed
  <2> QED
    BY <2>3, <2>4, <2>5
<1>6. CASE ReferencesDone
  <2>1. BodyFits'
    BY <1>6, EmptyFits DEF ReferencesDone, BodyFits, Limit
  <2> QED
    BY <1>6, <2>1 DEF ReferencesDone, TypeOK, SpeechKept, BodyKept, HistoryKept, LastDropBegan, BlockOneFits,
       SpeechFits, HistoryFits, ExchangesWhole, Limit, Fixed
<1>7. CASE DropHistory
  <2> DEFINE count == IF given.version = "v2" THEN OldestExchangeLength(history) ELSE 1
             m == dropped.history
  <2>1. /\ m \in 0 .. Len(given.history) /\ history \in Seq(Message) /\ history # <<>>
        /\ history = SubSeq(given.history, m + 1, Len(given.history))
        /\ Len(history) = Len(given.history) - m
    <3>1. m \in 0 .. Len(given.history) /\ Len(given.history) \in Nat
          /\ history = SubSeq(given.history, m + 1, Len(given.history))
          /\ history \in Seq(Message) /\ history # <<>>
      BY <1>0, <1>7, LenProperties DEF DropHistory, HistoryKept, TypeOK
    <3> HIDE DEF m
    <3> QED
      BY <1>0, <3>1, SuffixCut
  <2>2. count \in 1 .. 2 /\ count <= Len(history)
    <3>1. Len(history) \in Nat \ {0}
      BY <2>1, EmptySeq
    <3>2. OldestExchangeLength(history) \in 1 .. 2
          /\ OldestExchangeLength(history) <= Len(history)
      BY <2>1, ExchangeLength
    <3> QED
      BY <3>1, <3>2
  <2>3. /\ history' = SubSeq(history, count + 1, Len(history))
        /\ dropped'.history = m + count
        /\ dropped' \in Counts
        /\ dropped'.speech = dropped.speech /\ dropped'.body = dropped.body
    <3>1. history' = SubSeq(history, count + 1, Len(history))
          /\ dropped' = [dropped EXCEPT !.history = @ + count]
      BY <1>7 DEF DropHistory
    <3> HIDE DEF count
    <3> QED
      <4>1. dropped \in Counts /\ count \in Nat
        BY <2>2 DEF TypeOK, Counts
      <4> QED
        BY <3>1, <4>1, OneCounted DEF m
  <2>4. RenderHistory(SubSeq(given.history, m + 1, Len(given.history))) > Limit.history
    BY <1>7, <2>1 DEF DropHistory
  <2>5. given' = given /\ Limit' = Limit
    BY <1>7 DEF DropHistory, Limit
  <2>6. ExchangesWhole'
    BY <1>7, <2>1, <2>3, <2>5, ExchangeCut DEF ExchangesWhole, Exchanges
  <2> HIDE DEF count, m
  <2>7. history' = SubSeq(given.history, m + count + 1, Len(given.history))
        /\ history' \in Seq(Message)
    BY <1>0, <2>1, <2>2, <2>3, SuffixCut
  <2>8. TypeOK'
    BY <1>7, <2>3, <2>7 DEF DropHistory, TypeOK, Counts
  <2>9. HistoryKept'
    <3>1. m + count \in 0 .. Len(given.history) /\ m + count > 0
      BY <1>0, <2>1, <2>2
    <3>2. dropped'.history = m + count
      BY <2>3
    <3>3. \E i \in LastDropBegan' :
            RenderHistory(SubSeq(given.history, i, Len(given.history))) > Limit.history
      <4>1. m + 1 \in LastDropBegan'
        <5>1. ASSUME NEW p \in Nat, NEW c \in 1 .. 2, NEW d \in Nat, d = p + c
              PROVE  /\ p + 1 \in {d - 1, d} \ {0}
                     /\ c = 1 => p + 1 \in {d}
          BY <5>1
        <5>2. m \in Nat
          BY <1>0, <2>1
        <5>3. dropped'.history \in Nat
          BY <2>3 DEF Counts
        <5>4. given.version = "v1" => count = 1
          BY DEF count
        <5> QED
          BY <2>2, <2>5, <3>2, <5>1, <5>2, <5>3, <5>4, Zenon DEF LastDropBegan
      <4> QED
        BY <2>4, <4>1, Zenon
    <3>4. dropped'.history \in 0 .. Len(given.history)
          /\ history' = SubSeq(given.history, dropped'.history + 1, Len(given.history))
      BY <2>7, <3>1, <3>2, Zenon
    <3> QED
      BY <2>5, <3>3, <3>4, Zenon DEF HistoryKept
  <2>10. SpeechKept' /\ BodyKept' /\ BlockOneFits' /\ SpeechFits' /\ BodyFits' /\ HistoryFits'
    BY <1>7, <2>3 DEF DropHistory, SpeechKept, BodyKept, BlockOneFits, SpeechFits, BodyFits,
       HistoryFits, Limit, Fixed
  <2> QED
    BY <2>6, <2>8, <2>9, <2>10
<1>8. CASE Assemble
  <2>1. HistoryFits'
    BY <1>8, EmptyFits DEF Assemble, HistoryFits, Limit
  <2>2. UNCHANGED <<given, profile, speech, body, history, dropped>>
        /\ pc = "history" /\ pc' = "built"
    BY <1>8 DEF Assemble
  <2>3. TypeOK' /\ SpeechKept' /\ BodyKept' /\ HistoryKept' /\ ExchangesWhole'
    BY <2>2 DEF TypeOK, SpeechKept, BodyKept, HistoryKept, LastDropBegan, ExchangesWhole, Limit
  <2>4. BlockOneFits' /\ SpeechFits' /\ BodyFits'
    BY <2>2 DEF BlockOneFits, SpeechFits, BodyFits, Limit, Fixed
  <2> QED
    BY <2>1, <2>3, <2>4
<1>9. CASE UNCHANGED vars
  <2>1. UNCHANGED <<given, pc, profile, speech, body, history, dropped>>
    BY <1>9 DEF vars
  <2>2. TypeOK' /\ SpeechKept' /\ BodyKept' /\ HistoryKept' /\ ExchangesWhole'
    BY <2>1 DEF TypeOK, SpeechKept, BodyKept, HistoryKept, LastDropBegan, ExchangesWhole, Limit
  <2>3. BlockOneFits' /\ SpeechFits' /\ BodyFits' /\ HistoryFits'
    BY <2>1 DEF BlockOneFits, SpeechFits, BodyFits, HistoryFits, Limit, Fixed
  <2> QED
    BY <2>2, <2>3
<1> QED
  BY <1>1, <1>2, <1>3, <1>4, <1>5, <1>6, <1>7, <1>8, <1>9 DEF Next

LEMMA Inductive == Spec => []IInv
BY InitHolds, StepKeeps, PTL DEF Spec

-----------------------------------------------------------------------------
\* Every step keeps the types, for every set of inputs.
THEOREM TypeCorrect == Spec => []TypeOK
<1>1. IInv => TypeOK
  BY DEF IInv
<1> QED
  BY Inductive, <1>1, PTL

\* The prompt holds the best chunks and the newest messages, without a gap.
THEOREM BestIsKept == Spec => []KeptIsBest
<1>1. IInv => KeptIsBest
  BY DEF IInv, KeptIsBest, SpeechKept, BodyKept, HistoryKept
<1> QED
  BY Inductive, <1>1, PTL

\* Nothing is cut from any block that would have fitted, for every number and all
\* lengths of chunks, messages, names and profiles (prompt.py:229-263).
LEMMA NothingIsWasted == ASSUME IInv, pc = "built" PROVE NothingWasted
<1>1. given.speech \in Seq(Nat) /\ given.body \in Seq(Nat)
  BY PromptAssumption DEF IInv, TypeOK
<1>2. /\ Len(speech) = Len(given.speech) - dropped.speech
      /\ Len(body) = Len(given.body) - dropped.body
  <2>1. /\ Len(given.speech) - dropped.speech \in 0 .. Len(given.speech)
        /\ Len(given.body) - dropped.body \in 0 .. Len(given.body)
    <3>1. /\ Len(given.speech) \in Nat /\ dropped.speech \in 0 .. Len(given.speech)
          /\ Len(given.body) \in Nat /\ dropped.body \in 0 .. Len(given.body)
      BY <1>1, LenProperties DEF IInv, SpeechKept, BodyKept
    <3> QED
      BY <3>1
  <2> QED
    BY <1>1, <2>1, Prefix DEF IInv, SpeechKept, BodyKept
<1> QED
  BY <1>2 DEF IInv, NothingWasted, BlockOneFits, SpeechKept, BodyKept, HistoryKept

\* Of every prompt that is built, every block is within its limit (but for a name
\* that is too long alone) and as full as it can be: fitting neither leaves a block
\* too long nor cuts what fits nor parts an answer from its question, whatever the
\* lengths.
THEOREM EveryPromptFits == Spec => []PromptFits
<1>1. ASSUME IInv PROVE PromptFits
  <2>1. pc = "built" => BlocksFit
    BY <1>1 DEF IInv, BlocksFit, BlockOneFits, SpeechFits, BodyFits, HistoryFits
  <2> QED
    BY <1>1, <2>1, NothingIsWasted DEF PromptFits, IInv
<1> QED
  BY Inductive, <1>1, PTL

\* A v2 prompt made from whole exchanges never starts with an answer whose
\* question was dropped.
THEOREM ExchangesStayWhole == Spec => []ExchangesWhole
<1>1. IInv => ExchangesWhole
  BY DEF IInv
<1> QED
  BY Inductive, <1>1, PTL

=============================================================================
