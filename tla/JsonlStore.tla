------------------------------ MODULE JsonlStore ------------------------------
(***************************************************************************)
(* One session of the append-only JSONL store (pkg/memory/jsonl.go): a     *)
(* .jsonl file with a message per line and a .meta.json file that holds    *)
(* the summary and the number of leading lines to skip.  Every operation   *)
(* runs under the session's lock, so operations do not overlap, but each   *)
(* one that writes both files can be interrupted between the two writes,   *)
(* by a crash of the process or by an I/O error returned to the caller.    *)
(* WriteFileAtomic (pkg/fileutil/file.go) is one step: the file's content  *)
(* is the old one or the new one.  An append is not atomic: it may leave   *)
(* an incomplete last line.                                                *)
(***************************************************************************)
EXTENDS Integers, Sequences, FiniteSets

CONSTANTS
  Msg,        \* messages; each call of AddMessage has one of its own
  Summary,    \* values of the conversation summary, "" included
  SetArgs,    \* the histories SetHistory is called with
  KeepArgs,   \* the values of keepLast TruncateHistory is called with
  Corrupt,    \* the content of a line that is not a JSON message
  MaxLines,   \* bound: lines in the file
  MaxTears    \* bound: appends that are cut short

Line == Msg \cup {Corrupt}

ASSUME JsonlAssumption ==
  /\ Corrupt \notin Msg
  /\ SetArgs \subseteq Seq(Msg)
  /\ KeepArgs \subseteq Nat
  /\ "" \in Summary
  /\ MaxLines \in Nat /\ MaxTears \in Nat

VARIABLES
  file,       \* the lines of the .jsonl file
  open,       \* the last line has no newline
  meta,       \* the .meta.json file
  op,         \* the operation that holds the lock, with its locals
  \* history variables
  acked,      \* messages AddMessage acknowledged, not truncated or replaced since
  glued,      \* those of them that were written to the end of a torn line
  tears       \* appends cut short so far

ghosts == <<acked, glued, tears>>
jvars == <<file, open, meta, op, acked, glued, tears>>

Elems(s) == {s[i] : i \in DOMAIN s}

Idle == [kind |-> "none"]

Busy ==
  [kind : {"add"}, msg : Msg, glue : BOOLEAN]
    \cup [kind : {"read"}, line : Nat, acc : Seq(Msg)]
    \cup [kind : {"rewrite"}, of : {"set", "compact"}, data : Seq(Msg), was : Nat]

TypeOK ==
  /\ file \in Seq(Line)
  /\ open \in BOOLEAN
  /\ meta \in [summary : Summary, skip : Nat, count : Nat]
  /\ op \in {Idle} \cup Busy
  /\ acked \subseteq Msg /\ glued \subseteq Msg
  /\ tears \in Nat

\* The messages of some lines, the ones that do not parse left out.
Parse(msgs, l) == IF l = Corrupt THEN msgs ELSE Append(msgs, l)
Messages(lines) ==
  LET msgs[n \in 0 .. Len(lines)] == IF n = 0 THEN <<>> ELSE Parse(msgs[n - 1], lines[n])
  IN  msgs[Len(lines)]

\* What GetHistory returns: readMessages skips meta.skip lines, then the lines
\* that do not parse.
VisibleFrom(skip) == Messages(SubSeq(file, skip + 1, Len(file)))
Visible == VisibleFrom(meta.skip)

\* The messages of Visible, as a set.
VisibleSet == {file[i] : i \in (meta.skip + 1) .. Len(file)} \ {Corrupt}

JInit ==
  /\ file = <<>> /\ open = FALSE
  /\ meta = [summary |-> "", skip |-> 0, count |-> 0]
  /\ op = Idle
  /\ acked = {} /\ glued = {} /\ tears = 0

-------------------------------------------------------------------------------
(* addMsg: append the line and sync, then count it in the metadata.         *)

\* The file after a write of l: an open last line and l become one line that
\* does not parse.
Written(l) ==
  IF open THEN [file EXCEPT ![Len(file)] = Corrupt] ELSE Append(file, l)

\* Two calls never append the same message.
Fresh(m) == m \notin Elems(file)

\* A plausible bug: the line is appended without its newline.
AppendWithoutNewline(m) ==
  /\ op = Idle /\ Len(file) < MaxLines /\ Fresh(m)
  /\ file' = Written(m) /\ UNCHANGED open
  /\ op' = [kind |-> "add", msg |-> m, glue |-> open]
  /\ UNCHANGED <<meta, acked, glued, tears>>

AppendLine(m) ==
  /\ op = Idle /\ Len(file) < MaxLines /\ Fresh(m)
  /\ file' = Written(m) /\ open' = FALSE
  /\ op' = [kind |-> "add", msg |-> m, glue |-> open]
  /\ UNCHANGED <<meta, acked, glued, tears>>

\* The write is cut short (no bytes at all is a step that changes nothing): a
\* prefix of the line is in the file, or all of it but the newline.
TearAppend(m) ==
  /\ op = Idle /\ Len(file) < MaxLines /\ Fresh(m) /\ tears < MaxTears
  /\ \E l \in {m, Corrupt} : file' = Written(l)
  /\ open' = TRUE
  /\ tears' = tears + 1
  /\ UNCHANGED <<meta, op, acked, glued>>

CountLine ==
  /\ op.kind = "add"
  /\ meta' = [meta EXCEPT !.count = @ + 1]
  /\ acked' = acked \cup {op.msg}
  /\ glued' = IF op.glue THEN glued \cup {op.msg} ELSE glued \ {op.msg}
  /\ op' = Idle
  /\ UNCHANGED <<file, open, tears>>

-------------------------------------------------------------------------------
(* SetSummary and TruncateHistory write the metadata only.                  *)

SetSummary(s) ==
  /\ op = Idle
  /\ meta' = [meta EXCEPT !.summary = s]
  /\ UNCHANGED <<file, open, op, acked, glued, tears>>

\* A plausible bug: the count of the metadata is trusted although an
\* interrupted append or replacement leaves it stale.
SkipFromStaleCount(keepLast) ==
  IF keepLast <= 0 THEN meta.count
  ELSE IF keepLast < meta.count - meta.skip THEN meta.count - keepLast ELSE meta.skip

\* countLines counts the lines that do not parse as well.
SkipAfterTruncate(keepLast) ==
  LET n == Len(file)
  IN  IF keepLast <= 0 THEN n
      ELSE IF keepLast < n - meta.skip THEN n - keepLast ELSE meta.skip

TruncateHistory(keepLast) ==
  /\ op = Idle
  /\ meta' = [meta EXCEPT !.skip = SkipAfterTruncate(keepLast), !.count = Len(file)]
  /\ UNCHANGED <<file, open, op, glued, tears>>
  /\ acked' = acked \cap VisibleSet'

-------------------------------------------------------------------------------
(* SetHistory and Compact write the metadata, then replace the file.        *)

SetHistoryMeta(h) ==
  /\ op = Idle
  /\ meta' = [meta EXCEPT !.skip = 0, !.count = Len(h)]
  /\ op' = [kind |-> "rewrite", of |-> "set", data |-> h, was |-> meta.skip]
  /\ UNCHANGED <<file, open, acked, glued, tears>>

\* Compact returns at once when there is nothing to skip.
CompactStart ==
  /\ op = Idle /\ meta.skip # 0
  /\ op' = [kind |-> "read", line |-> 0, acc |-> <<>>]
  /\ UNCHANGED <<file, open, meta, acked, glued, tears>>

\* A plausible bug: the first active line is skipped too.
ReadLineOffByOne ==
  /\ op.kind = "read" /\ op.line < Len(file)
  /\ LET i == op.line + 1
     IN  op' = [op EXCEPT !.line = i,
                          !.acc = IF i > meta.skip + 1 THEN Parse(@, file[i]) ELSE @]
  /\ UNCHANGED <<file, open, meta, ghosts>>

\* A plausible bug: a line that does not parse is kept.
ReadLineUnparsed ==
  /\ op.kind = "read" /\ op.line < Len(file)
  /\ LET i == op.line + 1
     IN  op' = [op EXCEPT !.line = i,
                          !.acc = IF i > meta.skip THEN Append(@, file[i]) ELSE @]
  /\ UNCHANGED <<file, open, meta, ghosts>>

\* One turn of readMessages' loop, over the active lines.
ReadLine ==
  /\ op.kind = "read" /\ op.line < Len(file)
  /\ LET i == op.line + 1
     IN  op' = [op EXCEPT !.line = i,
                          !.acc = IF i > meta.skip THEN Parse(@, file[i]) ELSE @]
  /\ UNCHANGED <<file, open, meta, ghosts>>

\* A plausible bug: the file is compacted while the metadata still skips the
\* lines that are gone.
CompactKeepsSkip ==
  /\ op.kind = "read" /\ op.line = Len(file)
  /\ meta' = [meta EXCEPT !.count = Len(op.acc)]
  /\ op' = [kind |-> "rewrite", of |-> "compact", data |-> op.acc, was |-> meta.skip]
  /\ UNCHANGED <<file, open, ghosts>>

CompactMeta ==
  /\ op.kind = "read" /\ op.line = Len(file)
  /\ meta' = [meta EXCEPT !.skip = 0, !.count = Len(op.acc)]
  /\ op' = [kind |-> "rewrite", of |-> "compact", data |-> op.acc, was |-> meta.skip]
  /\ UNCHANGED <<file, open, ghosts>>

\* rewriteJSONL: the file is replaced by whole lines.
Rewrite ==
  /\ op.kind = "rewrite"
  /\ file' = op.data /\ open' = FALSE
  /\ IF op.of = "set"
       THEN acked' = Elems(op.data) /\ glued' = {}
       ELSE UNCHANGED <<acked, glued>>
  /\ op' = Idle
  /\ UNCHANGED <<meta, tears>>

-------------------------------------------------------------------------------
\* A crash, or an I/O error that makes the operation return: the files stay as
\* they are, the lock is released, the caller gets no acknowledgement.
Interrupt ==
  /\ op # Idle
  /\ op' = Idle
  /\ UNCHANGED <<file, open, meta, acked, glued, tears>>

JNext ==
  \/ \E m \in Msg : AppendLine(m) \/ TearAppend(m)
  \/ CountLine
  \/ \E s \in Summary : SetSummary(s)
  \/ \E k \in KeepArgs : TruncateHistory(k)
  \/ \E h \in SetArgs : SetHistoryMeta(h)
  \/ CompactStart \/ ReadLine \/ CompactMeta
  \/ Rewrite
  \/ Interrupt

JSpec == JInit /\ [][JNext]_jvars

-------------------------------------------------------------------------------
(* Properties.                                                              *)

\* The metadata never skips lines the file does not have: if it did, messages
\* appended afterwards would be acknowledged and never be returned.  This is
\* why SetHistory and Compact write the metadata before the file.
SkipWithinFile == meta.skip <= Len(file)

\* A message AddMessage acknowledged on an intact log, and no TruncateHistory
\* or SetHistory has removed since, is returned by GetHistory, whatever was
\* interrupted in between, and at every instant (a crash may come now).
AckedVisible == acked \ glued \subseteq VisibleSet

\* Each append that is cut short costs at most one acknowledged message.
GluedBounded == Cardinality(glued) <= tears

\* TruncateHistory(k) leaves the last k messages: never more, and fewer only
\* by the corrupt lines it counts as messages.
TruncateKeepsLast ==
  [][\A k \in KeepArgs : TruncateHistory(k) =>
       LET corrupt == Cardinality({i \in DOMAIN file : file[i] = Corrupt})
           wanted == IF k < Len(Visible) THEN k ELSE Len(Visible)
       IN  wanted - corrupt <= Len(Visible') /\ Len(Visible') <= wanted]_jvars

\* While SetHistory or Compact is between its two writes it holds the lock, so
\* a caller still sees the history as it was before the call.
SkipSeen == IF op.kind = "rewrite" THEN op.was ELSE meta.skip

Promise ==
  INSTANCE SessionHistory WITH
    gone    <- Messages(SubSeq(file, 1, SkipSeen)),
    hist    <- VisibleFrom(SkipSeen),
    summary <- meta.summary,
    torn    <- open

\* The store implements SessionHistory: every operation takes effect at one
\* instant, Compact is invisible, and an interruption does only what the
\* promise names.
ImplementsPromise == Promise!HSpec

-------------------------------------------------------------------------------
(* The inductive invariant.                                                 *)

\* While a message is being added its line is closed, and it is there unless
\* it was glued to a torn one.
AddInv ==
  op.kind = "add" => ~open /\ (op.glue \/ op.msg \in VisibleSet)

\* Compact has collected exactly the messages of the lines it has read.
ReadInv ==
  op.kind = "read" =>
    /\ op.line <= Len(file)
    /\ Elems(op.acc) = {file[i] : i \in (meta.skip + 1) .. op.line} \ {Corrupt}

\* Between its two writes, nothing is skipped and nothing acknowledged is
\* missing from what Compact is about to write.
RewriteInv ==
  op.kind = "rewrite" =>
    meta.skip = 0 /\ (op.of = "compact" => acked \ glued \subseteq Elems(op.data))

\* The line left open is of no acknowledged message.
OpenInv ==
  open => Len(file) > 0 /\ file[Len(file)] \notin acked \ glued

\* Each torn line is glued to at most one message.
TearInv ==
  /\ IsFiniteSet(glued)
  /\ Cardinality(glued) +
       (IF open \/ (op.kind = "add" /\ op.glue) THEN 1 ELSE 0) <= tears

\* Types, the offset within the file, safe messages visible, and what the
\* operation in progress relies on, at every instant an interruption may come.
SafeInv ==
  /\ TypeOK /\ SkipWithinFile /\ AckedVisible
  /\ AddInv /\ ReadInv /\ RewriteInv /\ OpenInv /\ TearInv

\* The same message by message, for the refinement: Compact has collected the
\* visible messages of the lines it has read, in their order, and what it or
\* SetHistory is about to write is what a caller sees or has asked for.
OrderInv ==
  /\ op.kind = "read" => op.acc = Messages(SubSeq(file, meta.skip + 1, op.line))
  /\ op.kind = "rewrite" =>
       /\ op.was <= Len(file)
       /\ op.of = "set" => op.data \in SetArgs
       /\ op.of = "compact" => op.data = VisibleFrom(op.was)

\* Nothing safe is lost, and nothing changes its place.
StoreInv == SafeInv /\ OrderInv
===============================================================================
