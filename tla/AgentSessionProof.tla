-------------------------- MODULE AgentSessionProof --------------------------
(* What ClearHistory erased stays away, and a user is answered once, for    *)
(* every bound.                                                             *)
EXTENDS AgentSession, SequenceTheorems, TLAPS

----------------------------------------------------------------------------
(* One answer                                                              *)

BeforeAnswer == {"read", "user", "llm", "tool", "result", "compress", "replace",
                 "clear", "clear2", "tidy", "respond"}

\* Until Run answers, the flag it will look at tells whether the tool of the
\* turn's agent has answered, if it is that tool's.
AnswerInv ==
  /\ kind # "system" =>
       /\ pc = "reset" => ~told /\ answers = 0
       /\ pc \in BeforeAnswer /\ shared /\ ~foreign => sent = told /\ answers = 0
       /\ pc = "end" /\ shared /\ ~foreign => (answers = 1) = ~told
  /\ pc = "send" => kind = "system"
  /\ told \in BOOLEAN /\ sent \in BOOLEAN

\* Before the first message nothing is answered.
LEMMA AnswerInit == Init => AnswerInv
  BY DEF Init, AnswerInv, BeforeAnswer

\* Steps within a turn that leave the flag and the answers alone.
LEMMA QuietTurn ==
  ASSUME AnswerInv, UNCHANGED <<toldVars, kind>>, pc \in BeforeAnswer, pc' \in BeforeAnswer
  PROVE  AnswerInv'
  BY DEF AnswerInv, BeforeAnswer, toldVars

\* Every step of a turn keeps the count of its answers and the flag in line.
LEMMA AnswerStep == AnswerInv /\ [Next]_vars => AnswerInv'
  <1>. SUFFICES ASSUME AnswerInv, [Next]_vars PROVE AnswerInv'
    OBVIOUS
  <1>1. CASE Consume
    BY <1>1 DEF AnswerInv, Consume, MayShare, Go, BeforeAnswer
  <1>2. CASE Reset
    BY <1>2 DEF AnswerInv, Reset, Go, BeforeAnswer
  <1>3. CASE ReadHistory \/ LlmFails \/ ContextError \/ Replace \/ Rebuild \/ Clear \/ ClearSummary
    BY <1>3, QuietTurn DEF BeforeAnswer, ReadHistory, LlmFails, ContextError, Compression, Replace,
       Rebuild, Clear, ClearSummary, Cleared, Go, toldVars
  <1>4. CASE AddUser \/ AddCall \/ AddResult \/ AddAnswer
    BY <1>4, QuietTurn DEF BeforeAnswer, AddUser, AddCall, AddResult, AddAnswer, Add, Go, toldVars
  <1>5. CASE RunTool
    BY <1>5 DEF AnswerInv, RunTool, Go, BeforeAnswer
  <1>6. CASE MaybeSummarize
    BY <1>6 DEF AnswerInv, MaybeSummarize, Go, BeforeAnswer, toldVars
  <1>7. CASE SendResponse
    BY <1>7 DEF AnswerInv, SendResponse, Go, BeforeAnswer
  <1>8. CASE Respond
    BY <1>8 DEF AnswerInv, Respond, Go, BeforeAnswer
  <1>9. CASE Finish
    BY <1>9 DEF AnswerInv, Finish, Go, BeforeAnswer
  <1>10. CASE Summarizer
    BY <1>10 DEF AnswerInv, Summarizer, SumReadHistory, SumReadSummary, SumWrite, SumBlank, SumTruncate,
       notSum, turnVars, toldVars
  <1>11. CASE OtherTurn \/ Reload
    <2>1. CASE OtherTurn
      BY <2>1 DEF AnswerInv, OtherTurn, turnVars, BeforeAnswer
    <2>2. CASE Reload
      BY <2>2 DEF AnswerInv, Reload, turnVars, BeforeAnswer
    <2>. QED
      BY <1>11, <2>1, <2>2
  <1>12. CASE Crash
    BY <1>12 DEF AnswerInv, Crash, Go, BeforeAnswer
  <1>13. CASE UNCHANGED vars
    BY <1>13 DEF AnswerInv, vars, turnVars, toldVars
  <1>. QED
    BY <1>1, <1>2, <1>3, <1>4, <1>5, <1>6, <1>7, <1>8, <1>9, <1>10, <1>11, <1>12, <1>13 DEF Next, Turn

\* A user's turn is answered once, by the message tool or by Run, whatever the
\* summarizer, a failed append or a crash do, if Run looks at the tool of the
\* turn's agent and no turn of another session touched that tool's flag.
THEOREM OneAnswer == Spec => []AnsweredByOne
  <1>1. AnswerInv => AnsweredByOne
    BY DEF AnswerInv, AnsweredByOne
  <1>. QED
    BY <1>1, AnswerInit, AnswerStep, PTL DEF Spec
----------------------------------------------------------------------------
(* What was cleared stays away                                             *)

\* The store and what has been read of it.
StoreTypes ==
  /\ history \in Seq(Message) /\ copy \in Seq(Message) /\ sumHist \in Seq(Message)
  /\ count \in 0 .. MaxMessages /\ erased \subseteq 1 .. count
  /\ haunted \in BOOLEAN

\* No message of s was erased, and all were counted.
Clean(s) == Numbers(s) \subseteq (1 .. count) \ erased

\* What can still reach the history: itself and forceCompression's copy.
HistoryClean ==
  /\ Clean(history)
  /\ pc = "replace" => Clean(copy) /\ Len(copy) > KeepLast
  /\ pc = "clear2" => history = <<>>

\* What can still reach the summary: itself and what the summarizer has read.
SummaryClean ==
  ~haunted =>
    /\ erased \cap summary = {}
    /\ sum \in {"old", "ask", "cut"} => erased \cap Numbers(sumHist) = {}
    /\ sum = "ask" => erased \cap sumOld = {}

ClearInv == StoreTypes /\ HistoryClean /\ SummaryClean

\* An appended message is the only new one.
LEMMA AppendNumbers ==
  ASSUME NEW s \in Seq(Message), NEW m \in Message
  PROVE  Append(s, m) \in Seq(Message) /\ Numbers(Append(s, m)) = Numbers(s) \cup {m.n}
  <1>. DEFINE t == Append(s, m)
  <1>1. /\ t \in Seq(Message) /\ Len(t) = Len(s) + 1 /\ Len(s) \in Nat
        /\ DOMAIN t = 1 .. Len(t) /\ DOMAIN s = 1 .. Len(s)
        /\ \A i \in 1 .. Len(s) : t[i] = s[i]
        /\ t[Len(s) + 1] = m
    BY AppendProperties, LenProperties
  <1>2. DOMAIN t = DOMAIN s \cup {Len(s) + 1}
    BY <1>1
  <1>. QED
    BY <1>1, <1>2 DEF Numbers

\* A part of a sequence has no new messages.
LEMMA SubSeqNumbers ==
  ASSUME NEW s \in Seq(Message), NEW a \in Nat \ {0}
  PROVE  SubSeq(s, a, Len(s)) \in Seq(Message) /\ Numbers(SubSeq(s, a, Len(s))) \subseteq Numbers(s)
  <1>. DEFINE t == SubSeq(s, a, Len(s))
  <1>1. Len(s) \in Nat /\ DOMAIN s = 1 .. Len(s) /\ \A i \in 1 .. Len(s) : s[i] \in Message
    BY LenProperties, ElementOfSeq
  <1>2. /\ t \in Seq(Message)
        /\ Len(t) = IF a <= Len(s) THEN Len(s) - a + 1 ELSE 0
        /\ \A i \in 1 .. Len(s) - a + 1 : t[i] = s[a + i - 1]
    BY <1>1, SubSeqProperties
  <1>3. \A i \in DOMAIN t : a + i - 1 \in DOMAIN s /\ t[i] = s[a + i - 1]
    BY <1>1, <1>2, LenProperties
  <1>. QED
    BY <1>2, <1>3 DEF Numbers

\* Nor has its first message with such a part.
LEMMA HeadAndRest ==
  ASSUME NEW s \in Seq(Message), Len(s) > 0, NEW a \in Nat \ {0}
  PROVE  LET t == <<s[1]>> \o SubSeq(s, a, Len(s)) IN
         t \in Seq(Message) /\ Numbers(t) \subseteq Numbers(s)
  <1>. DEFINE r == SubSeq(s, a, Len(s))
              t == <<s[1]>> \o r
  <1>1. Len(s) \in Nat /\ DOMAIN s = 1 .. Len(s) /\ s[1] \in Message
    BY LenProperties, ElementOfSeq
  <1>2. r \in Seq(Message) /\ Numbers(r) \subseteq Numbers(s)
    BY SubSeqNumbers
  <1>3. <<s[1]>> \in Seq(Message) /\ Len(<<s[1]>>) = 1
    BY <1>1
  <1>4. /\ t \in Seq(Message) /\ Len(t) = 1 + Len(r)
        /\ \A i \in 1 .. 1 + Len(r) : t[i] = IF i <= 1 THEN <<s[1]>>[i] ELSE r[i - 1]
    BY <1>2, <1>3, ConcatProperties, Z3
  <1>5. Len(r) \in Nat /\ DOMAIN r = 1 .. Len(r) /\ DOMAIN t = 1 .. Len(t)
    BY <1>2, <1>4, LenProperties
  <1>6. \A i \in DOMAIN t : \/ i = 1 /\ t[i] = s[1]
                            \/ i - 1 \in DOMAIN r /\ t[i] = r[i - 1]
    BY <1>4, <1>5
  <1>. QED
    BY <1>1, <1>2, <1>4, <1>6 DEF Numbers

\* Before the first message the session is empty.
LEMMA ClearInit == Init => ClearInv
  <1>. SUFFICES ASSUME Init PROVE ClearInv
    OBVIOUS
  <1>1. <<>> \in Seq(Message) /\ DOMAIN <<>> = {}
    BY EmptySeq
  <1>2. Numbers(<<>>) = {}
    BY <1>1 DEF Numbers
  <1>3. StoreTypes
    <2>1. history \in Seq(Message) /\ copy \in Seq(Message) /\ sumHist \in Seq(Message)
      BY <1>1 DEF Init
    <2>2. count \in 0 .. MaxMessages
      BY AgentAssumption DEF Init
    <2>. QED
      BY <2>1, <2>2 DEF Init, StoreTypes
  <1>4. HistoryClean /\ SummaryClean
    BY <1>2 DEF Init, HistoryClean, SummaryClean, Clean
  <1>. QED
    BY <1>3, <1>4 DEF ClearInv

\* A step that leaves the store and the summarizer alone.
LEMMA StoreUntouched ==
  ASSUME ClearInv, UNCHANGED <<history, copy, summary, sum, sumHist, sumOld, count, eraseVars>>,
         pc' \notin {"replace", "clear2"} \/ pc' = pc
  PROVE  ClearInv'
  <1>1. \A t : Clean(t)' <=> Numbers(t) \subseteq (1 .. count) \ erased
    BY DEF eraseVars, Clean, Numbers
  <1>2. StoreTypes'
    BY DEF ClearInv, StoreTypes, eraseVars
  <1>3. HistoryClean'
    BY DEF ClearInv, HistoryClean, Clean, Numbers, eraseVars
  <1>4. SummaryClean'
    BY DEF ClearInv, SummaryClean, Numbers, eraseVars
  <1>. QED
    BY <1>2, <1>3, <1>4 DEF ClearInv

\* A message is added, or its append fails.
LEMMA AddStep ==
  ASSUME ClearInv, NEW role \in {"user", "assistant", "call", "tool"}, NEW of \in {0, count},
         Add(role, of), pc' \notin {"replace", "clear2"}
  PROVE  ClearInv'
  <1>. DEFINE m == [n |-> count + 1, role |-> role, of |-> of]
  <1>1. /\ count < MaxMessages /\ count' = count + 1
        /\ history' \in {history, Append(history, m)}
        /\ UNCHANGED <<copy, summary, sum, sumHist, sumOld, erased, haunted>>
    BY DEF Add, sumVars, eraseVars
  <1>2. count \in 0 .. MaxMessages /\ MaxMessages \in Nat
    BY AgentAssumption DEF ClearInv, StoreTypes
  <1>3. m \in Message
    BY <1>1, <1>2 DEF Message, Number
  <1>4. history' \in Seq(Message) /\ Numbers(history') \subseteq Numbers(history) \cup {count + 1}
    BY <1>1, <1>3, AppendNumbers DEF ClearInv, StoreTypes
  <1>5. (1 .. count') \ erased' = ((1 .. count) \ erased) \cup {count + 1}
    BY <1>1, <1>2 DEF ClearInv, StoreTypes
  <1>6. StoreTypes'
    BY <1>1, <1>2, <1>4 DEF ClearInv, StoreTypes
  <1>7. HistoryClean'
    BY <1>4, <1>5 DEF ClearInv, HistoryClean, Clean
  <1>8. SummaryClean'
    BY <1>1 DEF ClearInv, SummaryClean, Numbers
  <1>. QED
    BY <1>6, <1>7, <1>8 DEF ClearInv

\* forceCompression reads the history, and puts back a part of what it read.
LEMMA CompressStep ==
  ASSUME ClearInv, ContextError \/ Replace \/ Rebuild
  PROVE  ClearInv'
  <1>1. CASE ContextError
    <2>1. /\ copy' = history /\ pc' \in {"compress", "replace"}
          /\ pc' = "replace" => ~(Len(history) <= KeepLast)
          /\ UNCHANGED <<history, summary, sum, sumHist, sumOld, count, erased, haunted>>
      BY <1>1 DEF ContextError, Compression, Go, session, storeVars, sumVars, eraseVars
    <2>2. Len(history) \in Nat /\ KeepLast \in Nat
      BY AgentAssumption, LenProperties DEF ClearInv, StoreTypes
    <2>3. StoreTypes' /\ SummaryClean'
      BY <2>1 DEF ClearInv, StoreTypes, SummaryClean, Numbers
    <2>4. HistoryClean'
      BY <2>1, <2>2 DEF ClearInv, HistoryClean, Clean, Numbers
    <2>. QED
      BY <2>3, <2>4 DEF ClearInv
  <1>2. CASE Replace
    <2>1. /\ pc = "replace" /\ pc' = "compress"
          /\ history' = <<copy[1]>> \o SubSeq(copy, Mid + 2, Len(copy))
          /\ UNCHANGED <<copy, summary, sum, sumHist, sumOld, count, erased, haunted>>
      BY <1>2 DEF Replace, Go, sumVars, eraseVars
    <2>2. Clean(copy) /\ Len(copy) > KeepLast /\ KeepLast \in Nat \ {0} /\ Len(copy) \in Nat
      BY <2>1, AgentAssumption, LenProperties DEF ClearInv, HistoryClean, StoreTypes
    <2>3. Mid + 2 \in Nat \ {0}
      BY <2>2 DEF Mid
    <2>a. copy \in Seq(Message) /\ Len(copy) > 0
      BY <2>2 DEF ClearInv, StoreTypes
    <2>4. history' \in Seq(Message) /\ Numbers(history') \subseteq Numbers(copy)
      BY <2>1, <2>3, <2>a, HeadAndRest
    <2>5. StoreTypes' /\ SummaryClean'
      BY <2>1, <2>4 DEF ClearInv, StoreTypes, SummaryClean, Numbers
    <2>6. HistoryClean'
      BY <2>1, <2>2, <2>4 DEF ClearInv, HistoryClean, Clean
    <2>. QED
      BY <2>5, <2>6 DEF ClearInv
  <1>3. CASE Rebuild
    <2>1. /\ copy' = <<>> /\ pc' = "llm"
          /\ UNCHANGED <<history, summary, sum, sumHist, sumOld, count, erased, haunted>>
      BY <1>3 DEF Rebuild, Go, session, storeVars, sumVars, eraseVars
    <2>2. StoreTypes'
      BY <2>1, EmptySeq DEF ClearInv, StoreTypes
    <2>3. SummaryClean' /\ HistoryClean'
      BY <2>1 DEF ClearInv, SummaryClean, HistoryClean, Clean, Numbers
    <2>. QED
      BY <2>2, <2>3 DEF ClearInv
  <1>. QED
    BY <1>1, <1>2, <1>3

\* ClearHistory: the history, and then the summary, unless a summarizer is at
\* work, which the ghost records.
LEMMA ClearStep ==
  ASSUME ClearInv, Clear \/ ClearSummary
  PROVE  ClearInv'
  <1>0. <<>> \in Seq(Message) /\ Numbers(<<>>) = {}
    BY EmptySeq DEF Numbers
  <1>1. CASE Clear
    <2>1. /\ history' = <<>> /\ pc' = "clear2"
          /\ UNCHANGED <<copy, summary, sum, sumHist, sumOld, count, erased, haunted>>
      BY <1>1 DEF Clear, Go, sumVars, eraseVars
    <2>2. StoreTypes' /\ SummaryClean'
      BY <1>0, <2>1 DEF ClearInv, StoreTypes, SummaryClean, Numbers
    <2>3. HistoryClean'
      BY <1>0, <2>1 DEF HistoryClean, Clean
    <2>. QED
      BY <2>2, <2>3 DEF ClearInv
  <1>2. CASE ClearSummary
    <2>1. /\ pc = "clear2" /\ pc' = "respond" /\ summary' = {} /\ erased' = 1 .. count
          /\ haunted' = (haunted \/ sum # "off")
          /\ UNCHANGED <<history, copy, sum, sumHist, sumOld, count>>
      BY <1>2 DEF ClearSummary, Cleared, Go, sumVars
    <2>2. history' = <<>>
      BY <2>1 DEF ClearInv, HistoryClean
    <2>3. StoreTypes'
      BY <2>1 DEF ClearInv, StoreTypes
    <2>4. HistoryClean'
      BY <1>0, <2>1, <2>2 DEF HistoryClean, Clean
    <2>5. SummaryClean'
      BY <2>1 DEF SummaryClean
    <2>. QED
      BY <2>3, <2>4, <2>5 DEF ClearInv
  <1>. QED
    BY <1>1, <1>2

\* The summarizer writes what it has read, and truncates.
LEMMA SummarizerStep ==
  ASSUME ClearInv, Summarizer
  PROVE  ClearInv'
  <1>. USE DEF ClearInv, notSum, turnVars, eraseVars
  <1>1. CASE SumReadHistory
    <2>1. /\ sumHist' = history /\ sum' = "old"
          /\ UNCHANGED <<history, copy, summary, sumOld, count, erased, haunted, pc>>
      BY <1>1 DEF SumReadHistory
    <2>2. StoreTypes' /\ HistoryClean'
      BY <2>1 DEF StoreTypes, HistoryClean, Clean, Numbers
    <2>3. erased \cap Numbers(history) = {}
      BY DEF HistoryClean, Clean
    <2>4. SummaryClean'
      BY <2>1, <2>3 DEF SummaryClean, Numbers
    <2>. QED
      BY <2>2, <2>4
  <1>2. CASE SumReadSummary
    <2>1. /\ sum = "old" /\ UNCHANGED <<history, copy, summary, count, erased, haunted, pc>>
          /\ \/ sum' = "off" /\ sumHist' = <<>>
             \/ sum' = "ask" /\ sumOld' = summary /\ sumHist' = sumHist
      BY <1>2 DEF SumReadSummary
    <2>2. StoreTypes' /\ HistoryClean'
      BY <2>1, EmptySeq DEF StoreTypes, HistoryClean, Clean, Numbers
    <2>3. SummaryClean'
      BY <2>1 DEF SummaryClean, Numbers
    <2>. QED
      BY <2>2, <2>3
  <1>3. CASE SumWrite
    <2>1. /\ sum = "ask" /\ sum' = "cut"
          /\ UNCHANGED <<history, copy, sumHist, sumOld, count, erased, haunted, pc>>
      BY <1>3 DEF SumWrite
    <2>2. PICK old \in {{}, sumOld} : summary' = old \cup {sumHist[i].n : i \in Summarizable}
      BY <1>3 DEF SumWrite
    <2>3. Summarizable \subseteq DOMAIN sumHist
      BY LenProperties, AgentAssumption DEF Summarizable, Older, StoreTypes
    <2>4. summary' \subseteq sumOld \cup Numbers(sumHist)
      BY <2>2, <2>3 DEF Numbers
    <2>5. StoreTypes' /\ HistoryClean'
      BY <2>1 DEF StoreTypes, HistoryClean, Clean, Numbers
    <2>6. SummaryClean'
      BY <2>1, <2>4 DEF SummaryClean, Numbers
    <2>. QED
      BY <2>5, <2>6
  <1>4. CASE SumBlank
    <2>1. /\ sum' = "off" /\ sumHist' = <<>>
          /\ UNCHANGED <<history, copy, summary, count, erased, haunted, pc>>
      BY <1>4 DEF SumBlank
    <2>. QED
      BY <2>1, EmptySeq DEF StoreTypes, HistoryClean, SummaryClean, Clean, Numbers
  <1>5. CASE SumTruncate
    <2>1. /\ history' = IF Len(history) <= KeepLast THEN history ELSE Newest(history)
          /\ sum' = "off" /\ sumHist' = <<>>
          /\ UNCHANGED <<copy, summary, count, erased, haunted, pc>>
      BY <1>5 DEF SumTruncate
    <2>2. Len(history) \in Nat /\ KeepLast \in Nat
      BY AgentAssumption, LenProperties DEF StoreTypes
    <2>3. history' \in Seq(Message) /\ Numbers(history') \subseteq Numbers(history)
      <3>1. CASE Len(history) <= KeepLast
        BY <2>1, <3>1 DEF StoreTypes
      <3>2. CASE Len(history) > KeepLast
        <4>1. Len(history) - KeepLast + 1 \in Nat \ {0}
          BY <2>2, <3>2
        <4>2. history' = SubSeq(history, Len(history) - KeepLast + 1, Len(history))
          BY <2>1, <2>2, <3>2 DEF Newest
        <4>. QED
          BY <4>1, <4>2, SubSeqNumbers DEF StoreTypes
      <3>. QED
        BY <2>2, <3>1, <3>2
    <2>4. history = <<>> => history' = <<>>
      BY <2>1, <2>2, EmptySeq
    <2>5. StoreTypes' /\ SummaryClean'
      BY <2>1, <2>3, EmptySeq DEF StoreTypes, SummaryClean
    <2>6. HistoryClean'
      BY <2>1, <2>3, <2>4 DEF HistoryClean, Clean, Numbers
    <2>. QED
      BY <2>5, <2>6
  <1>. QED
    BY <1>1, <1>2, <1>3, <1>4, <1>5 DEF Summarizer

\* The process dies with the copy and the summarizer.
LEMMA CrashStep ==
  ASSUME ClearInv, Crash
  PROVE  ClearInv'
  <1>1. /\ pc' = "idle" /\ copy' = <<>> /\ sum' = "off" /\ sumHist' = <<>>
        /\ UNCHANGED <<history, summary, count, erased, haunted>>
    BY DEF Crash, Go, storeVars, eraseVars
  <1>. QED
    BY <1>1, EmptySeq DEF ClearInv, StoreTypes, HistoryClean, SummaryClean, Clean, Numbers

\* No step but the late summary brings back what a clear removed.
LEMMA ClearInvStep == ClearInv /\ [Next]_vars => ClearInv'
  <1>. SUFFICES ASSUME ClearInv, [Next]_vars PROVE ClearInv'
    OBVIOUS
  <1>1. CASE Consume \/ Reset \/ ReadHistory \/ RunTool \/ LlmFails \/ SendResponse \/ Respond \/ Finish
    BY <1>1, StoreUntouched DEF Consume, Reset, ReadHistory, RunTool, LlmFails, SendResponse, Respond,
       Finish, Go, session, storeVars, sumVars, eraseVars
  <1>2. CASE AddUser \/ AddCall \/ AddAnswer \/ AddResult
    <2>1. CASE AddUser
      BY <2>1, AddStep DEF AddUser, Go
    <2>2. CASE AddCall
      BY <2>2, AddStep DEF AddCall, Go
    <2>3. CASE AddAnswer
      BY <2>3, AddStep DEF AddAnswer, Go
    <2>4. CASE AddResult
      BY <2>4, AddStep DEF AddResult, Go
    <2>. QED
      BY <1>2, <2>1, <2>2, <2>3, <2>4
  <1>3. CASE MaybeSummarize
    <2>1. /\ sum' \in {sum, "ready"} /\ pc' \in {"send", "respond"}
          /\ UNCHANGED <<history, copy, summary, sumHist, sumOld, count, erased, haunted>>
      BY <1>3 DEF MaybeSummarize, Go, storeVars, eraseVars
    <2>. QED
      BY <2>1 DEF ClearInv, StoreTypes, HistoryClean, SummaryClean, Clean, Numbers
  <1>4. CASE OtherTurn \/ Reload \/ UNCHANGED vars
    BY <1>4, StoreUntouched DEF OtherTurn, Reload, vars, turnVars, session, storeVars, sumVars, eraseVars
  <1>5. CASE ContextError \/ Replace \/ Rebuild \/ Clear \/ ClearSummary \/ Summarizer \/ Crash
    BY <1>5, CompressStep, ClearStep, SummarizerStep, CrashStep
  <1>. QED
    BY <1>1, <1>2, <1>3, <1>4, <1>5 DEF Next, Turn

\* What ClearHistory erased stays out of the history for good, and out of the
\* summary unless a summarizer was at work when it was erased.
THEOREM ClearedForGood == Spec => []StaysCleared
  <1>1. ClearInv => StaysCleared
    BY DEF ClearInv, HistoryClean, SummaryClean, Clean, StaysCleared
  <1>. QED
    BY <1>1, ClearInit, ClearInvStep, PTL DEF Spec

=============================================================================
