---------------------------- MODULE AgentSession ----------------------------
(* One session of an agent: the turns of AgentLoop.Run, the summarizer they *)
(* leave behind, and the message tools of this and of other agents, of      *)
(* which Run looks at one.  Each call on the session store is one step.     *)
EXTENDS Integers, Sequences, FiniteSets, SequencesExt

CONSTANTS
  KeepLast,     \* messages a summary leaves, and too few to compress (4)
  Threshold,    \* SummarizeMessageThreshold
  PartLimit,    \* maxSummarizationMessages
  MaxRounds,    \* MaxIterations
  MaxRetries,   \* compressions of one LLM call
  Oversized,    \* numbers of the messages longer than half the context window
  MaxTurns, MaxMessages, MaxFaults  \* bounds

ASSUME AgentAssumption ==
  /\ KeepLast \in Nat \ {0} /\ Threshold \in Nat /\ PartLimit \in Nat
  /\ MaxRounds \in Nat \ {0} /\ MaxRetries \in Nat
  /\ MaxTurns \in Nat /\ MaxMessages \in Nat /\ MaxFaults \in Nat
  /\ Oversized \subseteq 1 .. MaxMessages

\* A call is an assistant message with one tool call; a tool message is the
\* result of the call numbered of.
Number  == 1 .. MaxMessages
Message == [n : Number, role : {"user", "assistant", "call", "tool"},
            of : Number \cup {0}]

VARIABLES
  pc, kind,            \* Run: where it is, and the kind of its message
  prompt,              \* the messages of the next LLM call
  copy,                \* the history forceCompression has read
  rounds, retries,
  history, summary,    \* the session; a summary is the numbers it tells of
  sum, sumHist, sumOld,  \* the summarizer and what it has read
  sent,                \* sentInRound of the message tool that Run looks at
  shared,              \* it is the tool of this turn's agent
  answers, told,       \* of this turn: published, and sent by the tool
  count, turns, faults,  \* messages added, turns begun, faults met
  said, excused, late, \* ghosts: see LossBounded
  erased, haunted,     \* ghosts: see StaysCleared
  foreign, swallowed   \* ghosts: the flag touched, an append failed

turnVars  == <<pc, kind, prompt, copy, rounds, retries>>
storeVars == <<history, summary, count, said, late, swallowed>>
sumVars   == <<sum, sumHist, sumOld>>
toldVars  == <<sent, shared, answers, told, foreign>>
eraseVars == <<erased, haunted>>
vars == <<turnVars, storeVars, sumVars, toldVars, turns, faults, excused, eraseVars>>

TypeOK ==
  /\ pc \in {"idle", "reset", "read", "user", "llm", "tool", "result", "compress",
             "replace", "clear", "clear2", "tidy", "send", "respond", "end"}
  /\ kind \in {"user", "system", "clear"}
  /\ {prompt, copy, history, sumHist} \subseteq Seq(Message)
  /\ rounds \in 0 .. MaxRounds /\ retries \in 0 .. MaxRetries
  /\ summary \subseteq Number /\ sumOld \subseteq Number
  /\ sum \in {"off", "ready", "old", "ask", "cut"}
  /\ {sent, shared, told, haunted, foreign, swallowed} \subseteq BOOLEAN
  /\ answers \in 0 .. 1
  /\ count \in 0 .. MaxMessages /\ turns \in 0 .. MaxTurns /\ faults \in 0 .. MaxFaults
  /\ said \subseteq Message /\ excused \subseteq Number /\ erased \subseteq Number
  /\ late \in 0 .. MaxMessages

Init ==
  /\ pc = "idle" /\ kind = "user" /\ prompt = <<>> /\ copy = <<>>
  /\ rounds = 0 /\ retries = 0
  /\ history = <<>> /\ summary = {} /\ count = 0 /\ said = {} /\ late = 0
  /\ swallowed = FALSE
  /\ sum = "off" /\ sumHist = <<>> /\ sumOld = {}
  /\ sent = FALSE /\ shared = TRUE /\ answers = 0 /\ told = FALSE /\ foreign = FALSE
  /\ turns = 0 /\ faults = 0 /\ excused = {} /\ erased = {} /\ haunted = FALSE

Numbers(s) == {s[i].n : i \in DOMAIN s}
Newest(s)  == SubSeq(s, Len(s) - KeepLast + 1, Len(s))

----------------------------------------------------------------------------
(* sanitizeHistoryForProvider                                              *)

\* The last message of s that is no tool result has tool calls.
AfterCall(s) ==
  \E i \in DOMAIN s : s[i].role = "call" /\ \A j \in i + 1 .. Len(s) : s[j].role = "tool"

\* First pass: no result without a call before it, no call without a request.
Admit(s, m) ==
  IF CASE m.role = "tool" -> AfterCall(s)
       [] m.role = "call" -> s # <<>> /\ s[Len(s)].role \in {"user", "tool"}
       [] OTHER           -> TRUE
  THEN Append(s, m) ELSE s

\* The results that directly follow s[i].
Results(s, i) == {j \in i + 1 .. Len(s) : \A k \in i + 1 .. j : s[k].role = "tool"}

\* Second pass: a call whose result is missing goes with what follows it.
Dropped(s) ==
  UNION {{i} \cup Results(s, i) :
         i \in {k \in DOMAIN s : s[k].role = "call" /\ \A j \in Results(s, k) : s[j].of # s[k].n}}
Complete(s) ==
  FoldLeftDomain(LAMBDA kept, i : IF i \in Dropped(s) THEN kept ELSE Append(kept, s[i]), <<>>, s)

\* A mutant of Sanitize: the second pass is missing.
SanitizeOnce(h) == FoldLeft(Admit, <<>>, h)
Sanitize(h) == Complete(FoldLeft(Admit, <<>>, h))

----------------------------------------------------------------------------
(* The session store                                                       *)

\* AddFullMessage: an error is logged and the message is gone.
Add(role, of) ==
  LET m == [n |-> count + 1, role |-> role, of |-> of] IN
  /\ count < MaxMessages
  /\ count' = count + 1
  /\ said' = said \cup {m}
  /\ late' = IF sum \in {"old", "ask", "cut"} THEN late + 1 ELSE late
  /\ prompt' = IF role = "assistant" THEN prompt ELSE Append(prompt, m)
  /\ \/ history' = Append(history, m) /\ UNCHANGED <<faults, excused, swallowed>>
     \/ /\ faults < MaxFaults
        /\ faults' = faults + 1 /\ swallowed' = TRUE
        /\ excused' = excused \cup {m.n}
        /\ UNCHANGED history
  /\ UNCHANGED <<summary, kind, copy, sumVars, turns, eraseVars>>

----------------------------------------------------------------------------
(* Run and processMessage                                                  *)

Go(next) == pc' = next
session  == <<storeVars, sumVars, turns, faults, excused, eraseVars>>

\* The route: every agent has a message tool of its own, and Run looks at that
\* of the agent named main, or of any if there is none, which need not be the
\* agent of the route.  A system message goes to that agent.
MayShare(k) == IF k = "system" THEN {TRUE} ELSE BOOLEAN

\* ConsumeInbound.  A system message skips the reset of the message tool.
Consume ==
  /\ pc = "idle" /\ turns < MaxTurns
  /\ turns' = turns + 1
  /\ \E k \in {"user", "system", "clear"} :
       kind' = k /\ Go(IF k = "system" THEN "read" ELSE "reset")
  /\ shared' \in MayShare(kind')
  /\ answers' = 0 /\ told' = FALSE /\ foreign' = FALSE
  /\ rounds' = 0 /\ retries' = 0 /\ prompt' = <<>>
  /\ UNCHANGED <<copy, sent, storeVars, sumVars, faults, excused, eraseVars>>

\* A mutant of Reset: the flag of the last round is left.
ResetNot ==
  /\ pc = "reset"
  /\ Go(IF kind = "clear" THEN "clear" ELSE "read")
  /\ UNCHANGED <<kind, prompt, copy, rounds, retries, session, toldVars>>
\* The tool of the turn's agent is reset.
Reset ==
  /\ pc = "reset"
  /\ sent' = (sent /\ ~shared) /\ foreign' = FALSE
  /\ Go(IF kind = "clear" THEN "clear" ELSE "read")
  /\ UNCHANGED <<kind, prompt, copy, rounds, retries, session, shared, answers, told>>

ReadHistory ==
  /\ pc = "read"
  /\ prompt' = Sanitize(history)
  /\ Go("user")
  /\ UNCHANGED <<kind, copy, rounds, retries, session, toldVars>>

AddUser ==
  /\ pc = "user"
  /\ Add("user", 0)
  /\ Go("llm")
  /\ UNCHANGED <<rounds, retries, toldVars>>

\* runLLMIteration: a response with a tool call, which is saved and run, and
\* then its result is saved: the call is the last message that was added.
AddCall ==
  /\ pc = "llm" /\ rounds < MaxRounds
  /\ Add("call", 0)
  /\ Go("tool")
  /\ UNCHANGED <<rounds, retries, toldVars>>

RunTool ==
  /\ pc = "tool"
  /\ \/ UNCHANGED <<sent, told>>
     \/ sent' = (sent \/ shared) /\ told' = TRUE  \* the message tool
  /\ Go("result")
  /\ UNCHANGED <<kind, prompt, copy, rounds, retries, session, shared, answers, foreign>>

AddResult ==
  /\ pc = "result"
  /\ Add("tool", count)
  /\ rounds' = rounds + 1 /\ retries' = 0
  /\ Go("llm")
  /\ UNCHANGED toldVars

\* An answer, or no more rounds.
AddAnswer ==
  /\ pc = "llm"
  /\ Add("assistant", 0)
  /\ Go("tidy")
  /\ UNCHANGED <<rounds, retries, toldVars>>

LlmFails ==
  /\ pc = "llm" /\ rounds < MaxRounds
  /\ Go("respond")
  /\ UNCHANGED <<kind, prompt, copy, rounds, retries, session, toldVars>>

\* A context window error: forceCompression reads the history,
Compression(limit) ==
  /\ pc = "llm" /\ rounds < MaxRounds /\ retries < limit
  /\ retries' = retries + 1
  /\ copy' = history
  /\ Go(IF Len(history) <= KeepLast THEN "compress" ELSE "replace")
  /\ UNCHANGED <<kind, prompt, rounds, session, toldVars>>
\* A mutant of ContextError: one compression too many.
ContextErrorOnceMore == Compression(MaxRetries + 1)
ContextError         == Compression(MaxRetries)

\* drops the older half between its first and last message,
Mid == (Len(copy) - 2) \div 2
Replace ==
  /\ pc = "replace"
  /\ history' = <<copy[1]>> \o SubSeq(copy, Mid + 2, Len(copy))
  /\ excused' = excused \cup Numbers(SubSeq(copy, 2, Mid + 1))
  /\ Go("compress")
  /\ UNCHANGED <<kind, prompt, copy, rounds, retries, summary, count, said, late,
                 swallowed, sumVars, turns, faults, eraseVars, toldVars>>

\* and the prompt is built again from what the session then holds.
Rebuild ==
  /\ pc = "compress"
  /\ prompt' = Sanitize(history)
  /\ copy' = <<>>
  /\ Go("llm")
  /\ UNCHANGED <<kind, rounds, retries, session, toldVars>>

\* maybeSummarize: too many messages, or too many tokens in fewer.
MaybeSummarize ==
  /\ pc = "tidy"
  /\ IF kind = "system" \/ sum # "off"
     THEN UNCHANGED sum
     ELSE \/ sum' = "ready"
          \/ Len(history) <= Threshold /\ UNCHANGED sum
  /\ Go(IF kind = "system" THEN "send" ELSE "respond")
  /\ UNCHANGED <<kind, prompt, copy, rounds, retries, storeVars, sumHist, sumOld,
                 turns, faults, excused, eraseVars, toldVars>>

\* SendResponse: runAgentLoop publishes the answer to a system message.
SendResponse ==
  /\ pc = "send"
  /\ answers' = answers + 1
  /\ Go("respond")
  /\ UNCHANGED <<kind, prompt, copy, rounds, retries, session, sent, shared, told, foreign>>

\* Run publishes the response unless the tool it looks at has sent.  To a
\* system message it answers on the channel "system", which is dropped.
Respond ==
  /\ pc = "respond"
  /\ answers' = IF sent \/ kind = "system" THEN answers ELSE answers + 1
  /\ Go("end")
  /\ UNCHANGED <<kind, prompt, copy, rounds, retries, session, sent, shared, told, foreign>>

Finish ==
  /\ pc = "end"
  /\ Go("idle") /\ prompt' = <<>> /\ kind' = "user" /\ rounds' = 0 /\ retries' = 0
  /\ shared' = TRUE /\ answers' = 0 /\ told' = FALSE /\ foreign' = FALSE
  /\ UNCHANGED <<copy, session, sent>>

\* ClearHistory: the history, then the summary.
Clear ==
  /\ pc = "clear"
  /\ history' = <<>>
  /\ excused' = excused \cup Numbers(history)
  /\ Go("clear2")
  /\ UNCHANGED <<kind, prompt, copy, rounds, retries, summary, count, said, late,
                 swallowed, sumVars, turns, faults, eraseVars, toldVars>>

Cleared(new) ==
  /\ pc = "clear2"
  /\ summary' = new
  /\ excused' = excused \cup summary
  /\ erased' = 1 .. count
  /\ haunted' = (haunted \/ sum # "off")
  /\ Go("respond")
  /\ UNCHANGED <<kind, prompt, copy, rounds, retries, history, count, said, late,
                 swallowed, sumVars, turns, faults, toldVars>>
\* A mutant of ClearSummary: the summary is left.
ClearSummaryNot == Cleared(summary)
ClearSummary    == Cleared({})

Turn ==
  \/ Consume \/ Reset \/ ReadHistory \/ AddUser
  \/ AddCall \/ RunTool \/ AddResult \/ AddAnswer \/ LlmFails
  \/ ContextError \/ Replace \/ Rebuild
  \/ MaybeSummarize \/ SendResponse \/ Respond \/ Finish
  \/ Clear \/ ClearSummary

----------------------------------------------------------------------------
(* summarizeSession, a goroutine                                           *)

notSum == <<turnVars, count, said, late, swallowed, toldVars, turns, faults, eraseVars>>

SumReadHistory ==
  /\ sum = "ready"
  /\ sumHist' = history /\ sum' = "old"
  /\ UNCHANGED <<notSum, history, summary, sumOld, excused>>

\* Of the messages but the last few, it will summarize those of users and
\* assistants, and omits those too long.
Older        == 1 .. Len(sumHist) - KeepLast
Summarizable == {i \in Older : sumHist[i].role # "tool" /\ sumHist[i].n \notin Oversized}
Omitted      == {sumHist[i].n : i \in Older} \cap Oversized
SumReadSummary ==
  /\ sum = "old"
  /\ IF Summarizable = {}
     THEN sum' = "off" /\ sumHist' = <<>> /\ UNCHANGED sumOld
     ELSE sum' = "ask" /\ sumOld' = summary /\ UNCHANGED sumHist
  /\ UNCHANGED <<notSum, history, summary, excused>>

\* The LLM answers.  The old summary is only told to it when there are few
\* messages, and it is not in the text made up when the LLM fails.
SumWrite ==
  /\ sum = "ask" /\ sum' = "cut"
  /\ \E old \in IF Cardinality(Summarizable) > PartLimit THEN {{}} ELSE {{}, sumOld} :
       summary' = old \cup {sumHist[i].n : i \in Summarizable}
  /\ excused' = excused \cup (summary \ summary')
  /\ UNCHANGED <<notSum, history, sumHist, sumOld>>

\* A blank answer is no summary.
SumBlank ==
  /\ sum = "ask"
  /\ sum' = "off" /\ sumHist' = <<>> /\ sumOld' = {}
  /\ UNCHANGED <<notSum, history, summary, excused>>

\* A mutant of SumTruncate: one message less is kept.
SumTruncateMore ==
  /\ sum = "cut"
  /\ history' = IF Len(history) < KeepLast THEN history
                ELSE SubSeq(history, Len(history) - KeepLast + 2, Len(history))
  /\ sum' = "off" /\ sumHist' = <<>> /\ sumOld' = {}
  /\ excused' = excused \cup Omitted
  /\ UNCHANGED <<notSum, summary>>
SumTruncate ==
  /\ sum = "cut"
  /\ history' = IF Len(history) <= KeepLast THEN history ELSE Newest(history)
  /\ sum' = "off" /\ sumHist' = <<>> /\ sumOld' = {}
  /\ excused' = excused \cup Omitted
  /\ UNCHANGED <<notSum, summary>>

Summarizer == SumReadHistory \/ SumReadSummary \/ SumWrite \/ SumBlank \/ SumTruncate

----------------------------------------------------------------------------
(* Others                                                                  *)

\* A cron job's turn resets the flag, or its message tool sets it, and so does
\* a heartbeat's, or, before this turn's reset, a turn of another session.
OtherTurn ==
  /\ pc \notin {"idle", "end"}
  /\ sent' \in BOOLEAN /\ foreign' = TRUE
  /\ UNCHANGED <<turnVars, session, shared, answers, told>>

\* ReloadProviderAndConfig: new agents, whose tools have sent nothing.  A turn
\* goes on with its old agent, which Run no longer looks at.
Reload ==
  /\ pc \notin {"idle", "end"}
  /\ sent' = FALSE /\ shared' = FALSE
  /\ UNCHANGED <<turnVars, session, answers, told, foreign>>

\* The process dies and starts again: the session is on disk.
Crash ==
  /\ faults < MaxFaults
  /\ faults' = faults + 1
  /\ Go("idle") /\ kind' = "user" /\ prompt' = <<>> /\ copy' = <<>>
  /\ rounds' = 0 /\ retries' = 0
  /\ sum' = "off" /\ sumHist' = <<>> /\ sumOld' = {}
  /\ sent' = FALSE /\ shared' = TRUE /\ answers' = 0 /\ told' = FALSE /\ foreign' = FALSE
  /\ UNCHANGED <<storeVars, turns, excused, eraseVars>>

Next == Turn \/ Summarizer \/ OtherTurn \/ Reload \/ Crash
Spec == Init /\ [][Next]_vars

----------------------------------------------------------------------------
(* Properties                                                              *)

\* What was said is in the history or in the summary, unless it was
\* compressed, cleared, lost with an old summary, never written, or too long
\* for the summary that cut it off (excused); beyond that no more messages are forgotten than were added while a
\* summarizer, having read the history, had yet to truncate it.
LossBounded ==
  Cardinality({m \in said : /\ m.role # "tool"
                            /\ m.n \notin Numbers(history) \cup summary \cup excused}) <= late

\* What ClearHistory erased does not come back, unless a summarizer was at
\* work on it then: its summary will tell of what was erased.
StaysCleared ==
  /\ erased \cap Numbers(history) = {}
  /\ erased \cap summary # {} => haunted

\* Whatever a truncation, a compression or a crash cut off, the prompt of an
\* LLM call pairs every tool result with its call and every call with its
\* result; only an append that failed unnoticed can leave a stray result.
PromptWellFormed ==
  pc = "llm" /\ ~swallowed =>
    \A i \in DOMAIN prompt :
      /\ prompt[i].role = "tool" =>
           i > 1 /\ prompt[i - 1].role = "call" /\ prompt[i - 1].n = prompt[i].of
      /\ prompt[i].role = "call" =>
           i < Len(prompt) /\ prompt[i + 1].role = "tool" /\ prompt[i + 1].of = prompt[i].n

\* A turn of a user is answered once, by the message tool or by Run, if Run
\* looks at the tool of the turn's agent (it has not been routed to an agent
\* beside the default one, nor have its tools been replaced by a reload) and no
\* turn of another session has touched that tool's flag.  A system message is
\* answered by runAgentLoop alone, and not at all when its turn fails.
AnsweredByOne ==
  pc = "end" /\ kind # "system" /\ shared /\ ~foreign => (answers = 1) = ~told
=============================================================================
