--------------------------- MODULE JsonlStoreProof ---------------------------
(***************************************************************************)
(* The session store keeps what it acknowledged and implements             *)
(* SessionHistory, for every set of messages, every bound and every        *)
(* sequence of operations and interruptions: StoreInv is inductive, it     *)
(* implies the invariants that TLC checks on small instances, and under it *)
(* every step is a step of the promise or is not seen.                     *)
(***************************************************************************)
EXTENDS JsonlStore, FoldLemmas, FiniteSetTheorems, SequenceTheorems, TLAPS

\* The shape of the in-progress operation follows from its kind.
LEMMA OpShape ==
  ASSUME TypeOK
  PROVE  /\ op.kind = "none" => op = Idle
         /\ op = Idle => op.kind = "none"
         /\ op.kind = "add" => op \in [kind : {"add"}, msg : Msg, glue : BOOLEAN]
         /\ op.kind = "read" => op \in [kind : {"read"}, line : Nat, acc : Seq(Msg)]
         /\ op.kind = "rewrite" =>
              op \in [kind : {"rewrite"}, of : {"set", "compact"},
                      data : Seq(Msg), was : Nat]
  BY DEF TypeOK, Busy, Idle

\* The size of a set after one element joins or leaves it.
LEMMA OneElement ==
  ASSUME NEW S, IsFiniteSet(S), NEW x
  PROVE  /\ IsFiniteSet(S \cup {x}) /\ Cardinality(S \cup {x}) <= Cardinality(S) + 1
         /\ IsFiniteSet(S \ {x}) /\ Cardinality(S \ {x}) <= Cardinality(S)
  <1>1. Cardinality(S) \in Nat
    BY FS_CardinalityType
  <1>2. /\ IsFiniteSet(S \cup {x})
        /\ Cardinality(S \cup {x}) \in {Cardinality(S), Cardinality(S) + 1}
    BY FS_AddElement
  <1>3. /\ IsFiniteSet(S \ {x})
        /\ Cardinality(S \ {x}) \in {Cardinality(S), Cardinality(S) - 1}
    BY FS_RemoveElement
  <1>. QED
    BY <1>1, <1>2, <1>3

\* A write leaves every line but the last one as it was.
LEMMA WrittenLines ==
  ASSUME NEW l \in Line, TypeOK, OpenInv
  PROVE  /\ Written(l) \in Seq(Line)
         /\ open => /\ Len(Written(l)) = Len(file)
                    /\ Written(l)[Len(file)] = Corrupt
                    /\ \A i \in 1 .. (Len(file) - 1) : Written(l)[i] = file[i]
         /\ ~open => /\ Len(Written(l)) = Len(file) + 1
                     /\ Written(l)[Len(file) + 1] = l
                     /\ \A i \in 1 .. Len(file) : Written(l)[i] = file[i]
  <1>1. CASE open
    <2>1. Len(file) \in 1 .. Len(file) /\ file \in Seq(Line)
      BY <1>1 DEF TypeOK, OpenInv
    <2>2. Written(l) = [file EXCEPT ![Len(file)] = Corrupt]
      BY <1>1 DEF Written
    <2>. QED
      BY <1>1, <2>1, <2>2 DEF Line
  <1>2. CASE ~open
    <2>1. Written(l) = Append(file, l) /\ file \in Seq(Line)
      BY <1>2 DEF Written, TypeOK
    <2>. QED
      BY <1>2, <2>1
  <1>. QED
    BY <1>1, <1>2

\* What was acknowledged on a line of its own is still visible after a write.
LEMMA WriteKeepsAcked ==
  ASSUME NEW l \in Line, TypeOK, OpenInv, SkipWithinFile, AckedVisible,
         file' = Written(l), meta' = meta
  PROVE  /\ acked \ glued \subseteq VisibleSet'
         /\ SkipWithinFile'
         /\ ~open /\ l # Corrupt => l \in VisibleSet'
  <1>1. meta.skip \in Nat /\ Len(file) \in Nat /\ Len(file') \in Nat
    BY WrittenLines DEF TypeOK
  <1>2. Len(file) <= Len(file')
    BY <1>1, WrittenLines DEF TypeOK
  <1>3. SkipWithinFile'
    BY <1>1, <1>2 DEF SkipWithinFile
  <1>4. ASSUME NEW m \in acked \ glued
        PROVE  m \in VisibleSet'
    <2>1. PICK i \in (meta.skip + 1) .. Len(file) : file[i] = m /\ m # Corrupt
      BY <1>4 DEF AckedVisible, VisibleSet
    <2>2. i \in 1 .. Len(file)
      BY <1>1, <2>1
    <2>3. open => i # Len(file)
      BY <1>4, <2>1 DEF OpenInv
    <2>4. file'[i] = m
      <3>1. CASE open
        <4>1. i \in 1 .. (Len(file) - 1)
          BY <1>1, <2>2, <2>3, <3>1
        <4>. QED
          BY <2>1, <3>1, <4>1, WrittenLines
      <3>2. CASE ~open
        BY <2>1, <2>2, <3>2, WrittenLines
      <3>. QED
        BY <3>1, <3>2
    <2>5. i \in (meta'.skip + 1) .. Len(file')
      BY <1>1, <1>2, <2>1
    <2>. QED
      BY <2>1, <2>4, <2>5 DEF VisibleSet
  <1>5. ASSUME ~open, l # Corrupt
        PROVE  l \in VisibleSet'
    <2>1. Len(file') = Len(file) + 1 /\ file'[Len(file) + 1] = l
      BY <1>5, WrittenLines
    <2>2. Len(file) + 1 \in (meta.skip + 1) .. Len(file')
      BY <1>1, <2>1 DEF SkipWithinFile
    <2>. QED
      BY <1>5, <2>1, <2>2 DEF VisibleSet
  <1>. QED
    BY <1>3, <1>4, <1>5

-------------------------------------------------------------------------------
(* Each action preserves the invariant.                                     *)

\* Writing a whole line closes the file's last line; the message is in place, or
\* glued to a torn line, whose other half nothing safe depended on.
LEMMA AppendLineInv ==
  ASSUME SafeInv, NEW m \in Msg, AppendLine(m)
  PROVE  SafeInv'
  <1>. USE DEF SafeInv
  <1>1. /\ m \in Line /\ m # Corrupt
        /\ file' = Written(m) /\ meta' = meta /\ open' = FALSE
        /\ op' = [kind |-> "add", msg |-> m, glue |-> open]
        /\ acked' = acked /\ glued' = glued /\ tears' = tears
    BY JsonlAssumption DEF AppendLine, Line
  <1>2. op.kind # "add"
    BY DEF AppendLine, Idle
  <1>3. TypeOK'
    BY <1>1, WrittenLines DEF TypeOK, Busy
  <1>4. SkipWithinFile' /\ AckedVisible' /\ (open \/ m \in VisibleSet')
    BY <1>1, WriteKeepsAcked DEF AckedVisible
  <1>5. AddInv' /\ ReadInv' /\ RewriteInv' /\ OpenInv'
    BY <1>1, <1>4 DEF AddInv, ReadInv, RewriteInv, OpenInv
  <1>6. TearInv'
    BY <1>1, <1>2, FS_CardinalityType DEF TearInv, TypeOK
  <1>. QED
    BY <1>3, <1>4, <1>5, <1>6

\* A write cut short opens the last line, which belongs to no safe message.
LEMMA TearAppendInv ==
  ASSUME SafeInv, NEW m \in Msg, TearAppend(m)
  PROVE  SafeInv'
  <1>. USE DEF SafeInv
  <1>1. PICK l \in {m, Corrupt} : file' = Written(l)
    BY DEF TearAppend
  <1>2. /\ l \in Line /\ op = Idle /\ op' = Idle /\ open' = TRUE /\ meta' = meta
        /\ acked' = acked /\ glued' = glued /\ tears' = tears + 1
        /\ m \notin Elems(file)
    BY DEF TearAppend, Line, Fresh
  <1>3. TypeOK'
    BY <1>1, <1>2, WrittenLines DEF TypeOK
  <1>4. SkipWithinFile' /\ AckedVisible'
    BY <1>1, <1>2, WriteKeepsAcked DEF AckedVisible
  <1>5. AddInv' /\ ReadInv' /\ RewriteInv'
    BY <1>2 DEF AddInv, ReadInv, RewriteInv, Idle
  <1>6. OpenInv'
    <2>1. Len(file') > 0 /\ file'[Len(file')] \in {m, Corrupt}
      <3>1. CASE open
        BY <1>1, <1>2, <3>1, WrittenLines DEF OpenInv
      <3>2. CASE ~open
        <4>1. Len(file) \in Nat
          BY DEF TypeOK
        <4>. QED
          BY <1>1, <1>2, <3>2, <4>1, WrittenLines
      <3>. QED
        BY <3>1, <3>2
    <2>2. m \notin acked \ glued /\ Corrupt \notin acked \ glued
      <3>1. VisibleSet \subseteq Elems(file)
        BY DEF VisibleSet, Elems, TypeOK
      <3>. QED
        BY <1>2, <3>1, JsonlAssumption DEF AckedVisible, TypeOK
    <2>. QED
      BY <1>2, <2>1, <2>2 DEF OpenInv
  <1>7. TearInv'
    BY <1>2, FS_CardinalityType DEF TearInv, TypeOK, Idle
  <1>. QED
    BY <1>3, <1>4, <1>5, <1>6, <1>7

\* Acknowledging a message: its line is there, or it is the victim of a tear.
LEMMA CountLineInv ==
  ASSUME SafeInv, CountLine
  PROVE  SafeInv'
  <1>. USE DEF SafeInv
  <1>1. /\ op.kind = "add" /\ op.msg \in Msg /\ op.glue \in BOOLEAN
        /\ op' = Idle /\ file' = file /\ open' = open /\ tears' = tears
        /\ meta' = [meta EXCEPT !.count = @ + 1]
        /\ acked' = acked \cup {op.msg}
    BY OpShape DEF CountLine
  <1>2. glued' = IF op.glue THEN glued \cup {op.msg} ELSE glued \ {op.msg}
    BY DEF CountLine
  <1>3. meta'.skip = meta.skip /\ meta' \in [summary : Summary, skip : Nat, count : Nat]
    BY <1>1 DEF TypeOK
  <1>4. TypeOK'
    BY <1>1, <1>2, <1>3 DEF TypeOK
  <1>5. VisibleSet' = VisibleSet
    BY <1>1, <1>3 DEF VisibleSet
  <1>6. SkipWithinFile'
    BY <1>1, <1>3 DEF SkipWithinFile
  <1>7. AckedVisible'
    BY <1>1, <1>2, <1>5 DEF AckedVisible, AddInv
  <1>8. AddInv' /\ ReadInv' /\ RewriteInv' /\ OpenInv'
    BY <1>1 DEF AddInv, ReadInv, RewriteInv, OpenInv, Idle
  <1>9. TearInv'
    <2>1. ~open /\ IsFiniteSet(glued)
      BY <1>1 DEF AddInv, TearInv
    <2>2. CASE op.glue
      <3>1. Cardinality(glued) + 1 <= tears
        BY <1>1, <2>2 DEF TearInv
      <3>2. IsFiniteSet(glued') /\ Cardinality(glued') <= Cardinality(glued) + 1
        BY <1>2, <2>1, <2>2, OneElement
      <3>. QED
        BY <1>1, <2>1, <3>1, <3>2, FS_CardinalityType DEF TearInv, Idle, TypeOK
    <2>3. CASE ~op.glue
      <3>1. Cardinality(glued) <= tears
        BY <1>1, <2>1, <2>3, FS_CardinalityType DEF TearInv, TypeOK
      <3>2. IsFiniteSet(glued') /\ Cardinality(glued') <= Cardinality(glued)
        BY <1>2, <2>1, <2>3, OneElement
      <3>. QED
        BY <1>1, <2>1, <3>1, <3>2, FS_CardinalityType DEF TearInv, Idle, TypeOK
    <2>. QED
      BY <2>2, <2>3
  <1>. QED
    BY <1>4, <1>6, <1>7, <1>8, <1>9

\* The metadata after an update of its two counters.
LEMMA MetaUpdate ==
  ASSUME TypeOK, NEW s \in Nat, NEW c \in Nat,
         meta' = [meta EXCEPT !.skip = s, !.count = c]
  PROVE  meta'.skip = s /\ meta' \in [summary : Summary, skip : Nat, count : Nat]
  <1>1. meta \in [summary : Summary, skip : Nat, count : Nat]
    BY DEF TypeOK
  <1>2. meta' = [summary |-> meta.summary, skip |-> s, count |-> c]
    BY <1>1
  <1>. QED
    BY <1>1, <1>2

\* The summary is independent of the counters.
LEMMA SetSummaryInv ==
  ASSUME SafeInv, NEW s \in Summary, SetSummary(s)
  PROVE  SafeInv'
  <1>. USE DEF SafeInv
  <1>1. /\ op' = op /\ file' = file /\ open' = open /\ tears' = tears
        /\ acked' = acked /\ glued' = glued
        /\ meta' = [meta EXCEPT !.summary = s]
    BY DEF SetSummary
  <1>2. meta'.skip = meta.skip /\ meta' \in [summary : Summary, skip : Nat, count : Nat]
    BY <1>1 DEF TypeOK
  <1>3. TypeOK' /\ VisibleSet' = VisibleSet
    BY <1>1, <1>2 DEF TypeOK, VisibleSet
  <1>4. SkipWithinFile' /\ AckedVisible'
    BY <1>1, <1>2, <1>3 DEF SkipWithinFile, AckedVisible
  <1>5. AddInv' /\ ReadInv' /\ RewriteInv' /\ OpenInv' /\ TearInv'
    BY <1>1, <1>2, <1>3 DEF AddInv, ReadInv, RewriteInv, OpenInv, TearInv
  <1>. QED
    BY <1>3, <1>4, <1>5

\* The new offset stays within the file, and what it hides is not safe any more.
LEMMA TruncateHistoryInv ==
  ASSUME SafeInv, NEW k \in KeepArgs, TruncateHistory(k)
  PROVE  SafeInv'
  <1>. USE DEF SafeInv
  <1>1. /\ op = Idle /\ op' = Idle /\ file' = file /\ open' = open /\ tears' = tears
        /\ meta' = [meta EXCEPT !.skip = SkipAfterTruncate(k), !.count = Len(file)]
        /\ acked' = acked \cap VisibleSet' /\ glued' = glued
    BY DEF TruncateHistory
  <1>2. /\ k \in Nat /\ Len(file) \in Nat
        /\ meta.skip \in Nat /\ meta.skip <= Len(file)
    <2>1. k \in Nat
      BY JsonlAssumption
    <2>2. Len(file) \in Nat /\ meta.skip \in Nat
      BY DEF TypeOK
    <2>. QED
      BY <2>1, <2>2 DEF SkipWithinFile
  <1>3. SkipAfterTruncate(k) \in 0 .. Len(file)
    BY <1>2 DEF SkipAfterTruncate
  <1>6. /\ meta'.skip \in Nat /\ meta'.skip <= Len(file)
        /\ meta' \in [summary : Summary, skip : Nat, count : Nat]
    <2>1. SkipAfterTruncate(k) \in Nat /\ SkipAfterTruncate(k) <= Len(file)
      BY <1>2, <1>3
    <2>2. /\ meta'.skip = SkipAfterTruncate(k)
          /\ meta' \in [summary : Summary, skip : Nat, count : Nat]
      BY <1>1, <1>2, <2>1, MetaUpdate
    <2>. QED
      BY <2>1, <2>2
  <1>4. TypeOK' /\ SkipWithinFile' /\ AckedVisible'
    BY <1>1, <1>6 DEF TypeOK, SkipWithinFile, AckedVisible
  <1>5. AddInv' /\ ReadInv' /\ RewriteInv' /\ OpenInv' /\ TearInv'
    BY <1>1 DEF AddInv, ReadInv, RewriteInv, OpenInv, TearInv, Idle
  <1>. QED
    BY <1>4, <1>5

\* With nothing skipped, the visible messages are those of the whole file.
LEMMA SkipNothing ==
  ASSUME SafeInv, file' = file, meta'.skip = 0
  PROVE  VisibleSet \subseteq VisibleSet' /\ SkipWithinFile'
  BY DEF SafeInv, TypeOK, VisibleSet, SkipWithinFile

\* Resetting the offset hides nothing.
LEMMA SetHistoryMetaInv ==
  ASSUME SafeInv, NEW h \in SetArgs, SetHistoryMeta(h)
  PROVE  SafeInv'
  <1>. USE DEF SafeInv
  <1>1. /\ op = Idle /\ file' = file /\ open' = open /\ tears' = tears
        /\ op' = [kind |-> "rewrite", of |-> "set", data |-> h, was |-> meta.skip]
        /\ meta' = [meta EXCEPT !.skip = 0, !.count = Len(h)]
        /\ acked' = acked /\ glued' = glued
    BY DEF SetHistoryMeta
  <1>2. h \in Seq(Msg)
    BY JsonlAssumption
  <1>3. meta'.skip = 0 /\ meta' \in [summary : Summary, skip : Nat, count : Nat]
    <2>1. Len(h) \in Nat
      BY <1>2
    <2>. QED
      BY <1>1, <2>1, MetaUpdate
  <1>4. TypeOK'
    BY <1>1, <1>2, <1>3 DEF TypeOK, Busy
  <1>5. SkipWithinFile' /\ AckedVisible'
    BY <1>1, <1>3, SkipNothing DEF AckedVisible
  <1>6. AddInv' /\ ReadInv' /\ RewriteInv' /\ OpenInv' /\ TearInv'
    BY <1>1, <1>3 DEF AddInv, ReadInv, RewriteInv, OpenInv, TearInv, Idle
  <1>. QED
    BY <1>4, <1>5, <1>6

\* Before a line is read, Compact has collected nothing, rightly.
LEMMA CompactStartInv ==
  ASSUME SafeInv, CompactStart
  PROVE  SafeInv'
  <1>. USE DEF SafeInv
  <1>1. /\ op = Idle /\ file' = file /\ open' = open /\ tears' = tears
        /\ op' = [kind |-> "read", line |-> 0, acc |-> <<>>]
        /\ meta' = meta /\ acked' = acked /\ glued' = glued
    BY DEF CompactStart
  <1>2. TypeOK' /\ SkipWithinFile' /\ AckedVisible'
    BY <1>1 DEF TypeOK, Busy, SkipWithinFile, AckedVisible, VisibleSet
  <1>3. ReadInv'
    <2>1. {file[i] : i \in (meta.skip + 1) .. 0} = {}
      BY DEF TypeOK
    <2>2. Elems(<<>>) = {}
      BY DEF Elems
    <2>. QED
      BY <1>1, <2>1, <2>2 DEF ReadInv, TypeOK
  <1>4. AddInv' /\ RewriteInv' /\ OpenInv' /\ TearInv'
    BY <1>1 DEF AddInv, RewriteInv, OpenInv, TearInv, Idle
  <1>. QED
    BY <1>2, <1>3, <1>4

\* The elements of a sequence after an append.
LEMMA ElemsAppend ==
  ASSUME NEW s \in Seq(Msg), NEW x \in Msg
  PROVE  Elems(Append(s, x)) = Elems(s) \cup {x}
  <1>. DEFINE t == Append(s, x)
  <1>1. /\ DOMAIN s = 1 .. Len(s) /\ DOMAIN t = 1 .. (Len(s) + 1) /\ Len(s) \in Nat
        /\ t[Len(s) + 1] = x /\ \A i \in 1 .. Len(s) : t[i] = s[i]
    OBVIOUS
  <1>2. \A i \in 1 .. (Len(s) + 1) : i \in 1 .. Len(s) \/ i = Len(s) + 1
    BY <1>1
  <1>3. Elems(s) \cup {x} \subseteq Elems(t)
    BY <1>1 DEF Elems
  <1>4. Elems(t) \subseteq Elems(s) \cup {x}
    BY <1>1, <1>2 DEF Elems
  <1>. QED
    BY <1>3, <1>4

\* Reading one more line keeps what was collected equal to the messages read.
LEMMA ReadLineInv ==
  ASSUME SafeInv, ReadLine
  PROVE  SafeInv'
  <1>. USE DEF SafeInv
  <1>. DEFINE i == op.line + 1
              wanted == i > meta.skip /\ file[i] # Corrupt
              acc == IF wanted THEN Append(op.acc, file[i]) ELSE op.acc
              Read(n) == {file[j] : j \in (meta.skip + 1) .. n} \ {Corrupt}
  <1>1. /\ op.kind = "read" /\ op.line < Len(file)
        /\ op \in [kind : {"read"}, line : Nat, acc : Seq(Msg)]
        /\ file' = file /\ open' = open /\ tears' = tears
        /\ op' = [op EXCEPT !.line = i, !.acc = acc]
        /\ meta' = meta /\ acked' = acked /\ glued' = glued
    BY OpShape DEF ReadLine, Parse, ghosts
  <1>2. i \in 1 .. Len(file) /\ file[i] \in Line /\ meta.skip \in Nat
    BY <1>1 DEF TypeOK
  <1>3. acc \in Seq(Msg)
    BY <1>1, <1>2 DEF Line
  <1>4. op' = [kind |-> "read", line |-> i, acc |-> acc]
    BY <1>1
  <1>5. TypeOK'
    <2>1. op' \in [kind : {"read"}, line : Nat, acc : Seq(Msg)]
      BY <1>2, <1>3, <1>4
    <2>. QED
      BY <1>1, <2>1 DEF TypeOK, Busy
  <1>9. SkipWithinFile' /\ AckedVisible'
    BY <1>1 DEF SkipWithinFile, AckedVisible, VisibleSet
  <1>6. Elems(acc) = Read(i)
    <2>1. Elems(op.acc) = Read(op.line)
      BY <1>1 DEF ReadInv
    <2>2. Read(i) = IF wanted THEN Read(op.line) \cup {file[i]} ELSE Read(op.line)
      BY <1>1, <1>2
    <2>3. \A x \in Msg : Elems(Append(op.acc, x)) = Elems(op.acc) \cup {x}
      BY <1>1, ElemsAppend
    <2>. QED
      BY <1>2, <2>1, <2>2, <2>3 DEF Line
  <1>7. ReadInv'
    BY <1>1, <1>2, <1>4, <1>6 DEF ReadInv
  <1>8. AddInv' /\ RewriteInv' /\ OpenInv' /\ TearInv'
    BY <1>1, <1>4 DEF AddInv, RewriteInv, OpenInv, TearInv
  <1>. QED
    BY <1>5, <1>7, <1>8, <1>9

\* Having read every line, Compact holds all that is visible.
LEMMA CompactMetaInv ==
  ASSUME SafeInv, CompactMeta
  PROVE  SafeInv'
  <1>. USE DEF SafeInv
  <1>1. /\ op.kind = "read" /\ op.line = Len(file)
        /\ op \in [kind : {"read"}, line : Nat, acc : Seq(Msg)]
        /\ file' = file /\ open' = open /\ tears' = tears
        /\ op' = [kind |-> "rewrite", of |-> "compact", data |-> op.acc, was |-> meta.skip]
        /\ meta' = [meta EXCEPT !.skip = 0, !.count = Len(op.acc)]
        /\ acked' = acked /\ glued' = glued
    BY OpShape DEF CompactMeta, ghosts
  <1>2. meta'.skip = 0 /\ meta' \in [summary : Summary, skip : Nat, count : Nat]
    <2>1. Len(op.acc) \in Nat
      BY <1>1
    <2>. QED
      BY <1>1, <2>1, MetaUpdate
  <1>3. TypeOK'
    BY <1>1, <1>2 DEF TypeOK, Busy
  <1>4. SkipWithinFile' /\ AckedVisible'
    BY <1>1, <1>2, SkipNothing DEF AckedVisible
  <1>5. acked \ glued \subseteq Elems(op.acc)
    BY <1>1 DEF ReadInv, AckedVisible, VisibleSet
  <1>6. AddInv' /\ ReadInv' /\ RewriteInv' /\ OpenInv' /\ TearInv'
    BY <1>1, <1>2, <1>5 DEF AddInv, ReadInv, RewriteInv, OpenInv, TearInv
  <1>. QED
    BY <1>3, <1>4, <1>6

\* The new file holds what was collected, or the history SetHistory was given.
LEMMA RewriteStepInv ==
  ASSUME SafeInv, Rewrite
  PROVE  SafeInv'
  <1>. USE DEF SafeInv
  <1>1. /\ op.kind = "rewrite" /\ meta.skip = 0
        /\ op.of \in {"set", "compact"} /\ op.data \in Seq(Msg)
        /\ file' = op.data /\ open' = FALSE /\ op' = Idle
        /\ meta' = meta /\ tears' = tears
    BY OpShape DEF Rewrite, RewriteInv
  <1>2. IF op.of = "set" THEN acked' = Elems(op.data) /\ glued' = {}
                         ELSE acked' = acked /\ glued' = glued
    BY DEF Rewrite
  <1>3. file' \in Seq(Line) /\ Elems(op.data) \subseteq Msg
    BY <1>1 DEF Line, Elems
  <1>4. TypeOK'
    BY <1>1, <1>2, <1>3 DEF TypeOK
  <1>5. SkipWithinFile'
    BY <1>1 DEF SkipWithinFile
  <1>6. acked' \ glued' \subseteq Elems(op.data)
    BY <1>1, <1>2 DEF RewriteInv
  <1>7. VisibleSet' = Elems(op.data)
    <2>1. VisibleSet' = {op.data[i] : i \in 1 .. Len(op.data)} \ {Corrupt}
      BY <1>1 DEF VisibleSet
    <2>2. Elems(op.data) = {op.data[i] : i \in 1 .. Len(op.data)}
      BY <1>1 DEF Elems
    <2>3. Corrupt \notin Elems(op.data)
      BY <1>3, JsonlAssumption
    <2>. QED
      BY <2>1, <2>2, <2>3
  <1>8. AckedVisible'
    BY <1>6, <1>7 DEF AckedVisible
  <1>9. AddInv' /\ ReadInv' /\ RewriteInv' /\ OpenInv'
    BY <1>1 DEF AddInv, ReadInv, RewriteInv, OpenInv, Idle
  <1>10. TearInv'
    <2>1. IsFiniteSet(glued) /\ Cardinality(glued) \in Nat /\ tears \in Nat
      BY FS_CardinalityType DEF TearInv, TypeOK
    <2>2. Cardinality(glued) <= tears
      BY <2>1 DEF TearInv
    <2>3. CASE op.of = "set"
      <3>1. glued' = {}
        BY <1>2, <2>3
      <3>. QED
        BY <1>1, <2>1, <3>1, FS_EmptySet DEF TearInv, Idle
    <2>4. CASE op.of # "set"
      <3>1. glued' = glued
        BY <1>2, <2>4
      <3>. QED
        BY <1>1, <2>1, <2>2, <3>1 DEF TearInv, Idle
    <2>. QED
      BY <2>3, <2>4
  <1>. QED
    BY <1>4, <1>5, <1>8, <1>9, <1>10

\* Dropping the operation in progress breaks nothing: its files are as they were.
LEMMA InterruptInv ==
  ASSUME SafeInv, Interrupt
  PROVE  SafeInv'
  <1>. USE DEF SafeInv
  <1>1. /\ op' = Idle /\ file' = file /\ open' = open /\ tears' = tears
        /\ meta' = meta /\ acked' = acked /\ glued' = glued
    BY DEF Interrupt
  <1>2. TypeOK' /\ SkipWithinFile' /\ AckedVisible'
    BY <1>1 DEF TypeOK, SkipWithinFile, AckedVisible, VisibleSet
  <1>3. AddInv' /\ ReadInv' /\ RewriteInv' /\ OpenInv'
    BY <1>1 DEF AddInv, ReadInv, RewriteInv, OpenInv, Idle
  <1>4. TearInv'
    BY <1>1, FS_CardinalityType DEF TearInv, TypeOK, Idle
  <1>. QED
    BY <1>2, <1>3, <1>4

-------------------------------------------------------------------------------

\* A new session satisfies the invariant.
LEMMA InitInv == JInit => SafeInv
  <1>. SUFFICES ASSUME JInit PROVE SafeInv
    OBVIOUS
  <1>1. TypeOK
    <2>1. meta \in [summary : Summary, skip : Nat, count : Nat]
      BY JsonlAssumption DEF JInit
    <2>2. file \in Seq(Line)
      BY EmptySeq DEF JInit
    <2>. QED
      BY <2>1, <2>2 DEF JInit, TypeOK
  <1>2. SkipWithinFile /\ AckedVisible /\ AddInv /\ ReadInv /\ RewriteInv /\ OpenInv
    <2>1. op.kind = "none" /\ Len(file) = 0 /\ meta.skip = 0 /\ acked = {} /\ ~open
      BY DEF JInit, Idle
    <2>. QED
      BY <2>1 DEF SkipWithinFile, AckedVisible, AddInv, ReadInv, RewriteInv, OpenInv
  <1>3. TearInv
    <2>1. op.kind = "none" /\ glued = {} /\ tears = 0 /\ ~open
      BY DEF JInit, Idle
    <2>. QED
      BY <2>1, FS_EmptySet DEF TearInv
  <1>. QED
    BY <1>1, <1>2, <1>3 DEF SafeInv

\* Every step preserves the invariant.
LEMMA NextInv == SafeInv /\ [JNext]_jvars => SafeInv'
  <1>. SUFFICES ASSUME SafeInv, [JNext]_jvars PROVE SafeInv'
    OBVIOUS
  <1>1. CASE UNCHANGED jvars
    BY <1>1 DEF jvars, SafeInv, TypeOK, SkipWithinFile, AckedVisible, VisibleSet,
                AddInv, ReadInv, RewriteInv, OpenInv, TearInv
  <1>2. CASE JNext
    BY <1>2, AppendLineInv, TearAppendInv, CountLineInv, SetSummaryInv,
       TruncateHistoryInv, SetHistoryMetaInv, CompactStartInv, ReadLineInv,
       CompactMetaInv, RewriteStepInv, InterruptInv DEF JNext
  <1>. QED
    BY <1>1, <1>2

-------------------------------------------------------------------------------
(* The messages of the file, in their order: readMessages.                   *)

\* A line adds at most a message.
LEMMA ParseType ==
  ASSUME NEW s \in Seq(Msg), NEW l \in Line
  PROVE  Parse(s, l) \in Seq(Msg)
  BY AppendProperties DEF Parse, Line

\* readMessages' loop, line by line.
LEMMA ParsedRows ==
  ASSUME NEW s \in Seq(Line)
  PROVE  \E a \in [0 .. Len(s) -> Seq(Msg)] :
           /\ a[0] = <<>>
           /\ \A n \in 1 .. Len(s) : a[n] = Parse(a[n - 1], s[n])
           /\ Messages(s) = a[Len(s)]
  <1>. DEFINE N == Len(s)
              Row(f) == [n \in 0 .. N |-> IF n = 0 THEN <<>> ELSE Parse(f[n - 1], s[n])]
              Upto(f, k) == /\ f \in [0 .. k -> Seq(Msg)] /\ f[0] = <<>>
                            /\ \A n \in 1 .. k : f[n] = Parse(f[n - 1], s[n])
              Some(k) == \E f : Upto(f, k)
              T == {k \in 0 .. N : Some(k)}
              c == CHOOSE f : f = Row(f)
  <1>0. N \in Nat /\ \A n \in 1 .. N : s[n] \in Line
    BY LenProperties, ElementOfSeq
  <1>1. Messages(s) = c[N]
    BY DEF Messages
  <1>2. 0 \in T
    <2>1. Upto([n \in 0 .. 0 |-> <<>>], 0)
      BY EmptySeq
    <2>2. Some(0)
      BY <2>1
    <2>. HIDE DEF Some
    <2>. QED
      BY <1>0, <2>2
  <1>3. ASSUME NEW k \in 0 .. N - 1, k \in T
        PROVE  k + 1 \in T
    <2>0. Some(k)
      <3>. HIDE DEF Some
      <3>. QED
        BY <1>3
    <2>1. PICK f : Upto(f, k)
      BY <2>0
    <2>. DEFINE g == [n \in 0 .. k + 1 |-> IF n = k + 1 THEN Parse(f[k], s[k + 1]) ELSE f[n]]
    <2>2. Parse(f[k], s[k + 1]) \in Seq(Msg)
      <3>1. f[k] \in Seq(Msg) /\ s[k + 1] \in Line
        BY <1>0, <2>1
      <3>. QED
        BY <3>1, ParseType
    <2>3. g \in [0 .. k + 1 -> Seq(Msg)] /\ g[0] = <<>>
      BY <2>1, <2>2
    <2>4. ASSUME NEW n \in 1 .. k + 1
          PROVE  g[n] = Parse(g[n - 1], s[n])
      <3>1. g[n - 1] = f[n - 1]
        OBVIOUS
      <3>2. CASE n = k + 1
        BY <3>1, <3>2
      <3>3. CASE n # k + 1
        <4>1. n \in 1 .. k /\ g[n] = f[n]
          BY <3>3
        <4>. QED
          BY <2>1, <3>1, <4>1
      <3>. QED
        BY <3>2, <3>3
    <2>5. Upto(g, k + 1)
      BY <2>3, <2>4
    <2>6. Some(k + 1)
      BY <2>5
    <2>. HIDE DEF Some
    <2>. QED
      BY <1>0, <2>6
  <1>. HIDE DEF T
  <1>4. 0 .. N \subseteq T
    BY <1>0, <1>2, <1>3, IntervalInduction
  <1>5. PICK f : Upto(f, N)
    <2>1. Some(N)
      <3>. HIDE DEF Some
      <3>. QED
        BY <1>0, <1>4 DEF T
    <2>. QED
      BY <2>1
  <1>6. f = Row(f)
    <2>1. f = [n \in 0 .. N |-> f[n]]
      BY <1>5
    <2>2. ASSUME NEW n \in 0 .. N
          PROVE  f[n] = IF n = 0 THEN <<>> ELSE Parse(f[n - 1], s[n])
      BY <1>5
    <2>. QED
      BY <2>1, <2>2
  <1>7. c = Row(c)
    BY <1>6
  <1>. HIDE DEF c
  <1>8. c[0] = <<>> /\ \A n \in 1 .. N : c[n] = Parse(c[n - 1], s[n])
    BY <1>0, <1>7
  <1>9. \A n \in 0 .. N : c[n] \in Seq(Msg)
    <2>. DEFINE U == {n \in 0 .. N : c[n] \in Seq(Msg)}
    <2>1. 0 \in U
      <3>1. c[0] \in Seq(Msg)
        BY <1>8, EmptySeq
      <3>. QED
        BY <1>0, <3>1
    <2>2. ASSUME NEW n \in 0 .. N - 1, n \in U
          PROVE  n + 1 \in U
      <3>1. c[n + 1] = Parse(c[n], s[n + 1]) /\ c[n] \in Seq(Msg) /\ s[n + 1] \in Line
        BY <1>0, <1>8, <2>2
      <3>2. c[n + 1] \in Seq(Msg)
        BY <3>1, ParseType
      <3>. QED
        BY <1>0, <3>2
    <2>. HIDE DEF U
    <2>3. 0 .. N \subseteq U
      BY <1>0, <2>1, <2>2, IntervalInduction
    <2>. QED
      BY <2>3 DEF U
  <1>10. c \in [0 .. N -> Seq(Msg)]
    <2>1. c = [n \in 0 .. N |-> c[n]]
      BY <1>7
    <2>. QED
      BY <1>9, <2>1
  <1>. QED
    BY <1>1, <1>8, <1>10

\* What the loop returns is a sequence of messages.
LEMMA MessagesType ==
  ASSUME NEW s \in Seq(Line)
  PROVE  Messages(s) \in Seq(Msg)
  BY ParsedRows, LenProperties

\* No lines, no messages.
LEMMA MessagesEmpty == Messages(<<>>) = <<>>
  <1>1. <<>> \in Seq(Line) /\ Len(<<>>) = 0
    BY EmptySeq
  <1>. QED
    BY <1>1, ParsedRows

\* One more line.
LEMMA MessagesAppend ==
  ASSUME NEW s \in Seq(Line), NEW l \in Line
  PROVE  Messages(Append(s, l)) = Parse(Messages(s), l)
  <1>. DEFINE t == Append(s, l)
              N == Len(s)
  <1>1. /\ N \in Nat /\ t \in Seq(Line) /\ Len(t) = N + 1 /\ t[N + 1] = l
        /\ \A n \in 1 .. N : t[n] = s[n]
    BY AppendProperties, LenProperties
  <1>. HIDE DEF t
  <1>2. PICK a \in [0 .. N -> Seq(Msg)] :
          /\ a[0] = <<>>
          /\ \A n \in 1 .. N : a[n] = Parse(a[n - 1], s[n])
          /\ Messages(s) = a[N]
    BY ParsedRows
  <1>3. PICK b \in [0 .. N + 1 -> Seq(Msg)] :
          /\ b[0] = <<>>
          /\ \A n \in 1 .. N + 1 : b[n] = Parse(b[n - 1], t[n])
          /\ Messages(t) = b[N + 1]
    BY <1>1, ParsedRows
  <1>. DEFINE T == {n \in 0 .. N : a[n] = b[n]}
  <1>4. 0 \in T
    BY <1>1, <1>2, <1>3
  <1>5. ASSUME NEW n \in 0 .. N - 1, n \in T
        PROVE  n + 1 \in T
    <2>1. a[n + 1] = Parse(a[n], s[n + 1]) /\ b[n + 1] = Parse(b[n], t[n + 1])
      BY <1>1, <1>2, <1>3
    <2>. QED
      BY <1>1, <1>5, <2>1
  <1>. HIDE DEF T
  <1>6. 0 .. N \subseteq T
    BY <1>1, <1>4, <1>5, IntervalInduction
  <1>7. a[N] = b[N]
    BY <1>1, <1>6 DEF T
  <1>8. b[N + 1] = Parse(b[N], l)
    BY <1>1, <1>3
  <1>. QED
    BY <1>2, <1>3, <1>7, <1>8 DEF t

\* One more line of a slice of the file.
LEMMA SliceAppend ==
  ASSUME NEW S, NEW f \in Seq(S), NEW a \in Nat, NEW b \in Nat, a <= b, b < Len(f)
  PROVE  /\ SubSeq(f, a + 1, b) \in Seq(S)
         /\ SubSeq(f, a + 1, b + 1) = Append(SubSeq(f, a + 1, b), f[b + 1])
         /\ f[b + 1] \in S
  OBVIOUS

\* A slice that ends where it begins is empty.
LEMMA SliceEmpty ==
  ASSUME NEW S, NEW f \in Seq(S), NEW a \in Nat, NEW b \in Nat, b <= a
  PROVE  SubSeq(f, a + 1, b) = <<>>
  OBVIOUS

\* A slice of the file is a sequence of lines.
LEMMA SliceType ==
  ASSUME NEW S, NEW f \in Seq(S), NEW a \in Nat, NEW b \in 0 .. Len(f)
  PROVE  SubSeq(f, a + 1, b) \in Seq(S)
  OBVIOUS

\* The messages of an empty slice.
LEMMA MessagesNone ==
  ASSUME NEW f \in Seq(Line), NEW a \in Nat, NEW b \in Nat, b <= a
  PROVE  Messages(SubSeq(f, a + 1, b)) = <<>>
  <1>1. SubSeq(f, a + 1, b) = <<>>
    BY SliceEmpty
  <1>. QED
    BY <1>1, MessagesEmpty

\* The messages of a slice with one more line.
LEMMA MessagesStep ==
  ASSUME NEW f \in Seq(Line), NEW a \in Nat, NEW b \in Nat, a <= b, b < Len(f)
  PROVE  /\ f[b + 1] \in Line
         /\ Messages(SubSeq(f, a + 1, b + 1)) =
              Parse(Messages(SubSeq(f, a + 1, b)), f[b + 1])
  <1>1. /\ SubSeq(f, a + 1, b) \in Seq(Line)
        /\ SubSeq(f, a + 1, b + 1) = Append(SubSeq(f, a + 1, b), f[b + 1])
        /\ f[b + 1] \in Line
    BY SliceAppend
  <1>. QED
    BY <1>1, MessagesAppend

\* The messages of two adjacent slices are those of both, in their order.
LEMMA MessagesSlices ==
  ASSUME NEW f \in Seq(Line), NEW a \in Nat, NEW b \in Nat, NEW c \in 0 .. Len(f),
         a <= b, b <= c
  PROVE  Messages(SubSeq(f, a + 1, c)) =
           Messages(SubSeq(f, a + 1, b)) \o Messages(SubSeq(f, b + 1, c))
  <1>. DEFINE M(i, j) == Messages(SubSeq(f, i + 1, j))
              T == {d \in 0 .. c - b : M(a, b + d) = M(a, b) \o M(b, b + d)}
  <1>0. Len(f) \in Nat
    BY LenProperties
  <1>1. \A i \in Nat, j \in 0 .. Len(f) : M(i, j) \in Seq(Msg)
    BY SliceType, MessagesType
  <1>2. 0 \in T
    <2>1. M(b, b) = <<>>
      BY MessagesNone
    <2>2. M(a, b) \in Seq(Msg)
      BY <1>0, <1>1
    <2>. HIDE DEF M
    <2>. QED
      BY <1>0, <2>1, <2>2
  <1>3. ASSUME NEW d \in 0 .. c - b - 1, d \in T
        PROVE  d + 1 \in T
    <2>1. /\ b + d \in Nat /\ a <= b + d /\ b <= b + d /\ b + d < Len(f)
          /\ b + (d + 1) = (b + d) + 1
      BY <1>0
    <2>2. /\ M(a, b + (d + 1)) = Parse(M(a, b + d), f[b + d + 1])
          /\ M(b, b + (d + 1)) = Parse(M(b, b + d), f[b + d + 1])
      BY <2>1, MessagesStep
    <2>3. M(a, b) \in Seq(Msg) /\ M(b, b + d) \in Seq(Msg)
      BY <1>0, <1>1, <2>1
    <2>4. M(a, b + d) = M(a, b) \o M(b, b + d)
      BY <1>3
    <2>5. f[b + d + 1] \in Line
      BY <2>1, MessagesStep
    <2>. HIDE DEF M
    <2>6. \A x, y \in Seq(Msg), m \in Line : Parse(x \o y, m) = x \o Parse(y, m)
      <3>1. ASSUME NEW x \in Seq(Msg), NEW y \in Seq(Msg), NEW m \in Msg
            PROVE  Append(x \o y, m) = x \o Append(y, m)
        <4>1. x \o y \in Seq(Msg) /\ <<m>> \in Seq(Msg)
          BY ConcatProperties
        <4>2. Append(x \o y, m) = (x \o y) \o <<m>> /\ Append(y, m) = y \o <<m>>
          BY <4>1, AppendIsConcat
        <4>3. (x \o y) \o <<m>> = x \o (y \o <<m>>)
          BY <4>1, ConcatAssociative
        <4>. QED
          BY <4>2, <4>3, Zenon
      <3>. QED
        BY <3>1 DEF Parse, Line
    <2>7. M(a, b + (d + 1)) = M(a, b) \o M(b, b + (d + 1))
      BY <2>2, <2>3, <2>4, <2>5, <2>6
    <2>. QED
      BY <1>0, <2>7
  <1>. HIDE DEF M
  <1>4. 0 .. c - b \subseteq T
    <2>. HIDE DEF T
    <2>1. c - b \in Nat
      BY <1>0
    <2>. HIDE DEF M
    <2>. QED
      BY <1>2, <1>3, <2>1, IntervalInduction
  <1>5. M(a, b + (c - b)) = M(a, b) \o M(b, b + (c - b))
    <2>1. c - b \in 0 .. c - b
      BY <1>0
    <2>. QED
      BY <1>4, <2>1
  <1>6. b + (c - b) = c
    BY <1>0
  <1>. QED
    BY <1>5, <1>6 DEF M

\* Lines that all parse are returned as they are.
LEMMA WholeMessages ==
  ASSUME NEW s \in Seq(Msg)
  PROVE  Messages(s) = s
  <1>. DEFINE T == {k \in 0 .. Len(s) : Messages(SubSeq(s, 1, k)) = SubSeq(s, 1, k)}
  <1>0. s \in Seq(Line) /\ Len(s) \in Nat
    BY LenProperties DEF Line
  <1>1. 0 \in T
    <2>1. SubSeq(s, 1, 0) = <<>>
      BY SubSeqEmpty
    <2>2. Messages(SubSeq(s, 1, 0)) = SubSeq(s, 1, 0)
      BY <2>1, MessagesEmpty
    <2>. QED
      BY <1>0, <2>2
  <1>2. ASSUME NEW k \in 0 .. Len(s) - 1, k \in T
        PROVE  k + 1 \in T
    <2>1. SubSeq(s, 1, k + 1) = Append(SubSeq(s, 1, k), s[k + 1])
      <3>1. 0 \in Nat /\ k \in Nat /\ 0 <= k /\ k < Len(s) /\ 0 + 1 = 1
        BY <1>0
      <3>. QED
        BY <3>1, SliceAppend
    <2>2. SubSeq(s, 1, k) \in Seq(Line) /\ s[k + 1] \in Msg /\ s[k + 1] \in Line
      BY <1>0 DEF Line
    <2>3. s[k + 1] # Corrupt
      BY <2>2, JsonlAssumption
    <2>4. Messages(SubSeq(s, 1, k + 1)) = Parse(Messages(SubSeq(s, 1, k)), s[k + 1])
      BY <2>1, <2>2, MessagesAppend
    <2>5. Messages(SubSeq(s, 1, k)) = SubSeq(s, 1, k)
      BY <1>2
    <2>6. Messages(SubSeq(s, 1, k + 1)) = SubSeq(s, 1, k + 1)
      BY <2>1, <2>3, <2>4, <2>5 DEF Parse
    <2>. QED
      BY <1>0, <2>6
  <1>. HIDE DEF T
  <1>3. 0 .. Len(s) \subseteq T
    BY <1>0, <1>1, <1>2, IntervalInduction
  <1>4. Messages(SubSeq(s, 1, Len(s))) = SubSeq(s, 1, Len(s))
    BY <1>0, <1>3 DEF T
  <1>. QED
    BY <1>4, SubSeqFull

\* Every line of a slice is a message or does not parse.
LEMMA MessagesCount ==
  ASSUME NEW f \in Seq(Line), NEW a \in Nat, NEW c \in 0 .. Len(f), a <= c
  PROVE  LET corrupt == {i \in (a + 1) .. c : f[i] = Corrupt}
         IN  /\ IsFiniteSet(corrupt) /\ Cardinality(corrupt) \in Nat
             /\ Len(Messages(SubSeq(f, a + 1, c))) + Cardinality(corrupt) = c - a
  <1>. DEFINE C(d) == {i \in (a + 1) .. (a + d) : f[i] = Corrupt}
              M(d) == Messages(SubSeq(f, a + 1, a + d))
              T == {d \in 0 .. c - a : /\ IsFiniteSet(C(d)) /\ Cardinality(C(d)) \in Nat
                                       /\ Len(M(d)) + Cardinality(C(d)) = d}
  <1>0. Len(f) \in Nat
    BY LenProperties
  <1>1. 0 \in T
    <2>1. C(0) = {}
      OBVIOUS
    <2>2. M(0) = <<>>
      BY MessagesNone
    <2>3. IsFiniteSet(C(0)) /\ Cardinality(C(0)) = 0
      BY <2>1, FS_EmptySet
    <2>4. Len(M(0)) = 0
      BY <2>2
    <2>. HIDE DEF C, M
    <2>. QED
      BY <1>0, <2>3, <2>4
  <1>2. ASSUME NEW d \in 0 .. c - a - 1, d \in T
        PROVE  d + 1 \in T
    <2>0. a + d \in Nat /\ a <= a + d /\ a + d < Len(f) /\ a + (d + 1) = (a + d) + 1
      BY <1>0
    <2>1. M(d + 1) = Parse(M(d), f[a + d + 1])
      BY <2>0, MessagesStep
    <2>2. M(d) \in Seq(Msg) /\ f[a + d + 1] \in Line
      <3>1. a + d \in 0 .. Len(f)
        BY <1>0, <2>0
      <3>. QED
        BY <2>0, <3>1, MessagesStep, SliceType, MessagesType
    <2>3. /\ IsFiniteSet(C(d)) /\ Cardinality(C(d)) \in Nat
          /\ Len(M(d)) + Cardinality(C(d)) = d
      BY <1>2
    <2>4. CASE f[a + d + 1] = Corrupt
      <3>1. C(d + 1) = C(d) \cup {a + d + 1} /\ a + d + 1 \notin C(d)
        BY <2>0, <2>4
      <3>2. IsFiniteSet(C(d + 1)) /\ Cardinality(C(d + 1)) = Cardinality(C(d)) + 1
        <4>. HIDE DEF C
        <4>. QED
          BY <2>3, <3>1, FS_AddElement
      <3>3. M(d + 1) = M(d)
        BY <2>1, <2>4 DEF Parse
      <3>. HIDE DEF C, M
      <3>. QED
        BY <2>2, <2>3, <3>2, <3>3
    <2>5. CASE f[a + d + 1] # Corrupt
      <3>1. C(d + 1) = C(d)
        BY <2>0, <2>5
      <3>2. Len(M(d + 1)) = Len(M(d)) + 1
        <4>1. f[a + d + 1] \in Msg /\ M(d + 1) = Append(M(d), f[a + d + 1])
          BY <2>1, <2>2, <2>5 DEF Parse, Line
        <4>. HIDE DEF M
        <4>. QED
          BY <2>2, <4>1
      <3>. HIDE DEF C, M
      <3>. QED
        BY <2>2, <2>3, <3>1, <3>2
    <2>. QED
      BY <2>4, <2>5
  <1>. HIDE DEF T
  <1>3. 0 .. c - a \subseteq T
    BY <1>0, <1>1, <1>2, IntervalInduction
  <1>4. c - a \in T /\ a + (c - a) = c
    BY <1>0, <1>3
  <1>. QED
    BY <1>4 DEF T

\* A line overwritten outside a slice leaves the slice as it was.
LEMMA Overwritten ==
  ASSUME NEW f \in Seq(Line), Len(f) > 0, NEW g, g = [f EXCEPT ![Len(f)] = Corrupt],
         NEW a \in Nat
  PROVE  /\ g \in Seq(Line) /\ Len(g) = Len(f) /\ g[Len(f)] = Corrupt
         /\ \A b \in 0 .. (Len(f) - 1) : SubSeq(g, a + 1, b) = SubSeq(f, a + 1, b)
  <1>1. g \in Seq(Line) /\ Len(g) = Len(f) /\ g[Len(f)] = Corrupt
    BY DEF Line
  <1>2. ASSUME NEW b \in 0 .. (Len(f) - 1)
        PROVE  SubSeq(g, a + 1, b) = SubSeq(f, a + 1, b)
    BY <1>1
  <1>. QED
    BY <1>1, <1>2

-------------------------------------------------------------------------------
(* Compact collects the visible messages in their order.                     *)

\* Every step preserves the order of what Compact collects and of what is about
\* to be written.
LEMMA OrderStep == StoreInv /\ [JNext]_jvars => OrderInv'
  <1>. SUFFICES ASSUME StoreInv, [JNext]_jvars PROVE OrderInv'
    OBVIOUS
  <1>. USE DEF StoreInv
  <1>0. /\ TypeOK /\ SkipWithinFile /\ OrderInv /\ ReadInv
        /\ file \in Seq(Line) /\ Len(file) \in Nat /\ meta.skip \in Nat /\ meta.skip <= Len(file)
    BY LenProperties DEF SafeInv, TypeOK, SkipWithinFile
  <1>1. CASE op' = op /\ op = Idle
    BY <1>1 DEF OrderInv, Idle
  <1>2. CASE op' = Idle \/ op'.kind = "add"
    BY <1>2 DEF OrderInv, Idle
  <1>3. ASSUME NEW h \in SetArgs, SetHistoryMeta(h)
        PROVE  OrderInv'
    <2>1. /\ op' = [kind |-> "rewrite", of |-> "set", data |-> h, was |-> meta.skip]
          /\ file' = file
      BY <1>3 DEF SetHistoryMeta
    <2>. QED
      BY <1>0, <2>1 DEF OrderInv
  <1>4. CASE CompactStart
    <2>1. /\ op' = [kind |-> "read", line |-> 0, acc |-> <<>>]
          /\ file' = file /\ meta' = meta
      BY <1>4 DEF CompactStart
    <2>2. Messages(SubSeq(file, meta.skip + 1, 0)) = <<>>
      BY <1>0, MessagesNone
    <2>. QED
      BY <2>1, <2>2 DEF OrderInv
  <1>5. CASE ReadLine
    <2>1. /\ op.kind = "read" /\ op.line < Len(file)
          /\ op \in [kind : {"read"}, line : Nat, acc : Seq(Msg)]
          /\ op' = [op EXCEPT !.line = op.line + 1,
                              !.acc = IF op.line + 1 > meta.skip
                                        THEN Parse(op.acc, file[op.line + 1]) ELSE op.acc]
          /\ file' = file /\ meta' = meta
      BY <1>0, <1>5, OpShape DEF ReadLine
    <2>2. op.acc = Messages(SubSeq(file, meta.skip + 1, op.line))
      BY <1>0, <2>1 DEF OrderInv
    <2>3. /\ op'.kind = "read" /\ op'.line = op.line + 1
          /\ op'.acc = IF op.line + 1 > meta.skip
                         THEN Parse(op.acc, file[op.line + 1]) ELSE op.acc
      BY <2>1
    <2>4. op'.acc = Messages(SubSeq(file, meta.skip + 1, op.line + 1))
      <3>1. CASE op.line + 1 > meta.skip
        <4>1. meta.skip <= op.line /\ op.line \in Nat
          BY <1>0, <2>1, <3>1
        <4>. QED
          BY <1>0, <2>1, <2>2, <2>3, <3>1, <4>1, MessagesStep
      <3>2. CASE ~(op.line + 1 > meta.skip)
        <4>1. op.line \in Nat /\ op.line + 1 \in Nat /\ op.line <= meta.skip
              /\ op.line + 1 <= meta.skip
          BY <1>0, <2>1, <3>2
        <4>. QED
          BY <1>0, <2>2, <2>3, <3>2, <4>1, MessagesNone
      <3>. QED
        BY <3>1, <3>2
    <2>. QED
      BY <2>1, <2>3, <2>4 DEF OrderInv
  <1>6. CASE CompactMeta
    <2>1. /\ op.kind = "read" /\ op.line = Len(file) /\ file' = file
          /\ op' = [kind |-> "rewrite", of |-> "compact", data |-> op.acc, was |-> meta.skip]
      BY <1>6 DEF CompactMeta
    <2>2. op.acc = Messages(SubSeq(file, meta.skip + 1, Len(file)))
      BY <1>0, <2>1 DEF OrderInv
    <2>. QED
      BY <1>0, <2>1, <2>2 DEF OrderInv, VisibleFrom
  <1>7. CASE UNCHANGED jvars
    BY <1>0, <1>7 DEF OrderInv, jvars, VisibleFrom
  <1>8. ASSUME NEW m \in Msg, AppendLine(m)
        PROVE  OrderInv'
    <2>1. op'.kind = "add"
      BY <1>8 DEF AppendLine
    <2>. QED
      BY <1>2, <2>1
  <1>9. ASSUME NEW m \in Msg, TearAppend(m)
        PROVE  OrderInv'
    BY <1>1, <1>9 DEF TearAppend
  <1>10. (\E s \in Summary : SetSummary(s)) \/ (\E k \in KeepArgs : TruncateHistory(k)) => OrderInv'
    BY <1>1 DEF SetSummary, TruncateHistory
  <1>11. CountLine \/ Rewrite \/ Interrupt => OrderInv'
    BY <1>2 DEF CountLine, Rewrite, Interrupt
  <1>. QED
    BY <1>3, <1>4, <1>5, <1>6, <1>7, <1>8, <1>9, <1>10, <1>11 DEF JNext

\* Nothing is in progress in a new session.
LEMMA OrderInit == JInit => OrderInv
  <1>. SUFFICES ASSUME JInit PROVE OrderInv
    OBVIOUS
  <1>1. op.kind = "none"
    BY DEF JInit, Idle
  <1>. QED
    BY <1>1 DEF OrderInv

\* The invariant holds in every reachable state of the store.
THEOREM StoreInvariant == JSpec => []StoreInv
  <1>1. JInit => StoreInv
    BY InitInv, OrderInit DEF StoreInv
  <1>2. StoreInv /\ [JNext]_jvars => StoreInv'
    <2>1. StoreInv => SafeInv
      BY DEF StoreInv
    <2>. QED
      BY <2>1, NextInv, OrderStep DEF StoreInv
  <1>. QED
    BY <1>1, <1>2, PTL DEF JSpec

\* Every variable keeps its type.
THEOREM StoreTypes == JSpec => []TypeOK
  <1>1. StoreInv => TypeOK
    BY DEF StoreInv, SafeInv
  <1>. QED
    BY <1>1, StoreInvariant, PTL

\* No crash, I/O error, truncation or compaction makes the metadata skip lines
\* that the file does not have (jsonl.go:384-388, 424-428).
THEOREM SkipNeverExceedsFile == JSpec => []SkipWithinFile
  <1>1. StoreInv => SkipWithinFile
    BY DEF StoreInv, SafeInv
  <1>. QED
    BY <1>1, StoreInvariant, PTL

\* A message acknowledged on a line of its own stays visible until truncated or
\* replaced, through any sequence of operations and interruptions.
THEOREM AcknowledgedStaysVisible == JSpec => []AckedVisible
  <1>1. StoreInv => AckedVisible
    BY DEF StoreInv, SafeInv
  <1>. QED
    BY <1>1, StoreInvariant, PTL

\* Each interrupted append costs at most one acknowledged message.
THEOREM LossIsBounded == JSpec => []GluedBounded
  <1>1. StoreInv => GluedBounded
    BY FS_CardinalityType DEF StoreInv, SafeInv, TearInv, GluedBounded, TypeOK
  <1>. QED
    BY <1>1, StoreInvariant, PTL

-------------------------------------------------------------------------------
(* The store implements SessionHistory.                                      *)

\* What a caller sees of the lines f when the first n are skipped, and what is skipped.
Seen(f, n) == Messages(SubSeq(f, n + 1, Len(f)))
Gone(f, n) == Messages(SubSeq(f, 1, n))

\* What the refinement mapping shows, before and after a step.
LEMMA Views ==
  /\ VisibleFrom(SkipSeen) = Seen(file, SkipSeen)
  /\ VisibleFrom(SkipSeen)' = Seen(file', SkipSeen')
  /\ Messages(SubSeq(file, 1, SkipSeen)) = Gone(file, SkipSeen)
  /\ Messages(SubSeq(file, 1, SkipSeen))' = Gone(file', SkipSeen')
  BY DEF VisibleFrom, Seen, Gone

\* Both are sequences of messages.
LEMMA SeenTypes ==
  ASSUME NEW f \in Seq(Line), NEW n \in 0 .. Len(f)
  PROVE  Seen(f, n) \in Seq(Msg) /\ Gone(f, n) \in Seq(Msg)
  <1>1. Len(f) \in Nat
    BY LenProperties
  <1>2. SubSeq(f, n + 1, Len(f)) \in Seq(Line) /\ SubSeq(f, 1, n) \in Seq(Line)
    BY <1>1
  <1>. QED
    BY <1>2, MessagesType DEF Seen, Gone

\* One more line.
LEMMA SeenAppend ==
  ASSUME NEW f \in Seq(Line), NEW l \in Line, NEW n \in 0 .. Len(f)
  PROVE  /\ Seen(Append(f, l), n) = Parse(Seen(f, n), l)
         /\ Gone(Append(f, l), n) = Gone(f, n)
  <1>. DEFINE g == Append(f, l)
              N == Len(f)
  <1>1. N \in Nat /\ g \in Seq(Line) /\ Len(g) = N + 1 /\ g[N + 1] = l
    BY AppendProperties, LenProperties
  <1>2. SubSeq(g, n + 1, N) = SubSeq(f, n + 1, N) /\ SubSeq(g, 1, n) = SubSeq(f, 1, n)
    BY <1>1
  <1>. HIDE DEF g
  <1>3. Messages(SubSeq(g, n + 1, N + 1)) = Parse(Messages(SubSeq(g, n + 1, N)), g[N + 1])
    BY <1>1, MessagesStep
  <1>. QED
    BY <1>1, <1>2, <1>3 DEF Seen, Gone, g

\* The last line of what a caller sees, or of what is skipped, is spoilt.
LEMMA SeenSpoilt ==
  ASSUME NEW f \in Seq(Line), Len(f) > 0, NEW n \in 0 .. Len(f),
         NEW g, g = [f EXCEPT ![Len(f)] = Corrupt]
  PROVE  \/ Seen(g, n) = Seen(f, n) /\ Gone(g, n) = Gone(f, n)
         \/ /\ Seen(f, n) # <<>>
            /\ Seen(g, n) = Promise!AllButLast(Seen(f, n), 1)
            /\ Gone(g, n) = Gone(f, n)
         \/ /\ Seen(f, n) = <<>> /\ Gone(f, n) # <<>>
            /\ Gone(g, n) = Promise!AllButLast(Gone(f, n), 1)
            /\ Seen(g, n) = Seen(f, n)
  <1>. DEFINE N == Len(f)
              M == N - 1
  <1>0. N \in Nat /\ M \in Nat /\ N = M + 1 /\ M < N /\ 0 + 1 = 1
    BY LenProperties
  <1>1. /\ g \in Seq(Line) /\ Len(g) = N /\ g[N] = Corrupt
        /\ \A a \in Nat, b \in 0 .. M : SubSeq(g, a + 1, b) = SubSeq(f, a + 1, b)
    BY Overwritten
  <1>. DEFINE F(a, b) == Messages(SubSeq(f, a + 1, b))
              G(a, b) == Messages(SubSeq(g, a + 1, b))
  <1>2. \A a \in 0 .. M : /\ f[N] \in Line
                          /\ F(a, N) = Parse(F(a, M), f[N])
                          /\ G(a, N) = F(a, M)
    <2>. SUFFICES ASSUME NEW a \in 0 .. M
                  PROVE  /\ f[N] \in Line
                         /\ F(a, N) = Parse(F(a, M), f[N])
                         /\ G(a, N) = F(a, M)
      OBVIOUS
    <2>1. f[M + 1] \in Line /\ F(a, M + 1) = Parse(F(a, M), f[M + 1])
      BY <1>0, MessagesStep
    <2>2. G(a, M + 1) = Parse(G(a, M), g[M + 1])
      <3>1. M < Len(g) /\ a \in Nat /\ M \in Nat /\ a <= M /\ g \in Seq(Line)
        BY <1>0, <1>1
      <3>. QED
        BY <3>1, MessagesStep
    <2>3. G(a, M) = F(a, M)
      <3>1. a \in Nat /\ M \in 0 .. M
        BY <1>0
      <3>2. SubSeq(g, a + 1, M) = SubSeq(f, a + 1, M)
        BY <1>1, <3>1
      <3>. QED
        BY <3>2
    <2>. QED
      BY <1>0, <1>1, <2>1, <2>2, <2>3 DEF Parse
  <1>3. \A a \in 0 .. M : F(a, M) \in Seq(Msg)
    <2>. SUFFICES ASSUME NEW a \in 0 .. M PROVE F(a, M) \in Seq(Msg)
      OBVIOUS
    <2>1. SubSeq(f, a + 1, M) \in Seq(Line)
      BY <1>0, SliceType
    <2>. QED
      BY <2>1, MessagesType
  <1>4. /\ Seen(f, n) = F(n, N) /\ Gone(f, n) = F(0, n)
        /\ Seen(g, n) = G(n, N) /\ Gone(g, n) = G(0, n)
    BY <1>0, <1>1 DEF Seen, Gone
  <1>. HIDE DEF F, G
  <1>5. \A x \in Seq(Msg), m \in Msg :
          Append(x, m) # <<>> /\ Promise!AllButLast(Append(x, m), 1) = x
    <2>. SUFFICES ASSUME NEW x \in Seq(Msg), NEW m \in Msg
                  PROVE  Append(x, m) # <<>> /\ Promise!AllButLast(Append(x, m), 1) = x
      OBVIOUS
    <2>. QED
      BY DEF Promise!AllButLast
  <1>6. CASE n <= M
    <2>1. n \in 0 .. M /\ G(0, n) = F(0, n)
      <3>1. 0 \in Nat /\ n \in 0 .. M
        BY <1>0, <1>6
      <3>2. SubSeq(g, 0 + 1, n) = SubSeq(f, 0 + 1, n)
        BY <1>1, <3>1
      <3>. QED
        BY <3>1, <3>2 DEF F, G
    <2>2. /\ f[N] \in Line /\ F(n, M) \in Seq(Msg)
          /\ F(n, N) = Parse(F(n, M), f[N]) /\ G(n, N) = F(n, M)
      BY <1>2, <1>3, <2>1
    <2>. QED
      BY <1>4, <1>5, <2>1, <2>2 DEF Parse, Line
  <1>7. CASE n = N
    <2>1. F(n, N) = <<>> /\ G(n, N) = <<>>
      <3>1. N <= n /\ n \in Nat
        BY <1>0, <1>7
      <3>. QED
        BY <1>0, <1>1, <3>1, MessagesNone DEF F, G
    <2>2. 0 \in 0 .. M
      BY <1>0
    <2>3. /\ f[N] \in Line /\ F(0, M) \in Seq(Msg)
          /\ F(0, N) = Parse(F(0, M), f[N]) /\ G(0, N) = F(0, M)
      BY <1>2, <1>3, <2>2
    <2>. QED
      BY <1>4, <1>5, <1>7, <2>1, <2>3 DEF Parse, Line
  <1>8. n <= M \/ n = N
    <2>. HIDE DEF N
    <2>1. n \in 0 .. N
      BY DEF N
    <2>. QED
      BY <1>0, <2>1
  <1>. QED
    BY <1>6, <1>7, <1>8

\* Skipping more lines, none of which comes back.
LEMMA SeenCut ==
  ASSUME NEW f \in Seq(Line), NEW n \in Nat, NEW p \in 0 .. Len(f), n <= p
  PROVE  /\ Seen(f, n) = Messages(SubSeq(f, n + 1, p)) \o Seen(f, p)
         /\ Gone(f, p) = Gone(f, n) \o Messages(SubSeq(f, n + 1, p))
         /\ Messages(SubSeq(f, n + 1, p)) \in Seq(Msg)
         /\ Len(Seen(f, p)) <= Len(f) - p
  <1>0. Len(f) \in Nat /\ Len(f) \in 0 .. Len(f) /\ p \in Nat /\ p <= Len(f) /\ 0 \in Nat /\ 0 <= n
    BY LenProperties
  <1>1. Messages(SubSeq(f, n + 1, Len(f))) = Messages(SubSeq(f, n + 1, p)) \o Messages(SubSeq(f, p + 1, Len(f)))
    BY <1>0, MessagesSlices
  <1>2. Messages(SubSeq(f, 1, p)) = Messages(SubSeq(f, 1, n)) \o Messages(SubSeq(f, n + 1, p))
    <2>1. Messages(SubSeq(f, 0 + 1, p)) = Messages(SubSeq(f, 0 + 1, n)) \o Messages(SubSeq(f, n + 1, p))
      BY <1>0, MessagesSlices
    <2>2. 0 + 1 = 1
      OBVIOUS
    <2>. QED
      BY <2>1, <2>2
  <1>3. Messages(SubSeq(f, n + 1, p)) \in Seq(Msg)
    <2>1. SubSeq(f, n + 1, p) \in Seq(Line)
      BY SliceType
    <2>. QED
      BY <2>1, MessagesType
  <1>4. Len(Messages(SubSeq(f, p + 1, Len(f)))) <= Len(f) - p
    <2>. DEFINE c == Cardinality({i \in (p + 1) .. Len(f) : f[i] = Corrupt})
    <2>1. c \in Nat /\ Len(Messages(SubSeq(f, p + 1, Len(f)))) + c = Len(f) - p
      BY <1>0, MessagesCount
    <2>2. Messages(SubSeq(f, p + 1, Len(f))) \in Seq(Msg)
      BY <1>0, SeenTypes DEF Seen
    <2>. HIDE DEF c
    <2>. QED
      BY <1>0, <2>1, <2>2
  <1>. QED
    BY <1>1, <1>2, <1>3, <1>4 DEF Seen, Gone

\* A step that changes neither file, offset, summary nor torn end is not seen.
LEMMA Unseen ==
  ASSUME file' = file, SkipSeen' = SkipSeen, meta'.summary = meta.summary, open' = open
  PROVE  UNCHANGED Promise!hvars
  BY Views DEF Promise!hvars

\* What a step relies on.
LEMMA SeenNow ==
  ASSUME StoreInv
  PROVE  /\ file \in Seq(Line) /\ Len(file) \in Nat /\ SkipSeen \in 0 .. Len(file)
         /\ meta \in [summary : Summary, skip : Nat, count : Nat] /\ open \in BOOLEAN
         /\ meta.skip \in 0 .. Len(file)
         /\ open => Len(file) > 0
         /\ op.kind # "rewrite" => SkipSeen = meta.skip
         /\ op.kind = "rewrite" => SkipSeen = op.was /\ meta.skip = 0
  <1>1. /\ file \in Seq(Line) /\ Len(file) \in Nat /\ open \in BOOLEAN
        /\ meta \in [summary : Summary, skip : Nat, count : Nat] /\ meta.skip <= Len(file)
        /\ open => Len(file) > 0
    BY LenProperties DEF StoreInv, SafeInv, TypeOK, SkipWithinFile, OpenInv
  <1>2. op.kind = "rewrite" => op.was \in Nat /\ op.was <= Len(file) /\ meta.skip = 0
    BY OpShape DEF StoreInv, SafeInv, OrderInv, RewriteInv
  <1>. QED
    BY <1>1, <1>2 DEF SkipSeen

\* The same file with a written line: what happens to what a caller sees.
LEMMA WriteSeen ==
  ASSUME StoreInv, NEW l \in Line, file' = Written(l), SkipSeen' = SkipSeen, meta' = meta
  PROVE  /\ ~open => /\ VisibleFrom(SkipSeen)' = Parse(VisibleFrom(SkipSeen), l)
                     /\ UNCHANGED Messages(SubSeq(file, 1, SkipSeen))
         /\ open => Promise!LoseNewest
  <1>1. CASE ~open
    <2>1. file' = Append(file, l)
      BY <1>1 DEF Written
    <2>. QED
      BY <1>1, <2>1, SeenNow, SeenAppend, Views
  <1>2. CASE open
    <2>1. file' = [file EXCEPT ![Len(file)] = Corrupt]
      BY <1>2 DEF Written
    <2>2. \/ /\ Seen(file', SkipSeen) = Seen(file, SkipSeen)
             /\ Gone(file', SkipSeen) = Gone(file, SkipSeen)
          \/ /\ Seen(file, SkipSeen) # <<>>
             /\ Seen(file', SkipSeen) = Promise!AllButLast(Seen(file, SkipSeen), 1)
             /\ Gone(file', SkipSeen) = Gone(file, SkipSeen)
          \/ /\ Seen(file, SkipSeen) = <<>> /\ Gone(file, SkipSeen) # <<>>
             /\ Gone(file', SkipSeen) = Promise!AllButLast(Gone(file, SkipSeen), 1)
             /\ Seen(file', SkipSeen) = Seen(file, SkipSeen)
      BY <1>2, <2>1, SeenNow, SeenSpoilt
    <2>. QED
      BY <1>2, <2>2, Views DEF Promise!LoseNewest
  <1>. QED
    BY <1>1, <1>2

\* AddMessage adds the message, or swallows it and the torn one.
LEMMA AppendSeen ==
  ASSUME StoreInv, NEW m \in Msg, AppendLine(m)
  PROVE  Promise!HNext
  <1>1. /\ op.kind # "rewrite" /\ op'.kind # "rewrite"
        /\ file' = Written(m) /\ meta' = meta /\ open' = FALSE
    BY DEF AppendLine, Idle
  <1>2. SkipSeen' = SkipSeen /\ m \in Line /\ m # Corrupt
    BY <1>1, JsonlAssumption DEF SkipSeen, Line
  <1>3. CASE ~open
    <2>1. /\ VisibleFrom(SkipSeen)' = Append(VisibleFrom(SkipSeen), m)
          /\ UNCHANGED Messages(SubSeq(file, 1, SkipSeen))
      BY <1>1, <1>2, <1>3, WriteSeen DEF Parse
    <2>2. Promise!HAdd(m)
      BY <1>1, <1>3, <2>1, SeenNow DEF Promise!HAdd
    <2>. QED
      BY <2>2 DEF Promise!HNext
  <1>4. CASE open
    <2>1. Promise!LoseNewest
      BY <1>1, <1>2, <1>4, WriteSeen
    <2>2. Promise!HAddSwallowed
      BY <1>1, <1>4, <2>1 DEF Promise!HAddSwallowed
    <2>. QED
      BY <2>2 DEF Promise!HNext
  <1>. QED
    BY <1>3, <1>4

\* An append that is cut short does what HAddInterrupted names.
LEMMA TearSeen ==
  ASSUME StoreInv, NEW m \in Msg, TearAppend(m)
  PROVE  Promise!HNext
  <1>1. PICK l \in {m, Corrupt} : file' = Written(l)
    BY DEF TearAppend
  <1>2. op' = op /\ meta' = meta /\ open' = TRUE /\ SkipSeen' = SkipSeen
    BY DEF TearAppend, SkipSeen
  <1>3. l \in Line /\ m # Corrupt
    BY JsonlAssumption DEF Line
  <1>4. Promise!HAddInterrupted(m)
    <2>1. CASE open
      <3>1. Promise!LoseNewest
        BY <1>1, <1>2, <1>3, <2>1, WriteSeen
      <3>. QED
        BY <1>2, <2>1, <3>1 DEF Promise!HAddInterrupted
    <2>2. CASE ~open
      <3>1. /\ VisibleFrom(SkipSeen)' = Parse(VisibleFrom(SkipSeen), l)
            /\ UNCHANGED Messages(SubSeq(file, 1, SkipSeen))
        BY <1>1, <1>2, <1>3, <2>2, WriteSeen
      <3>2. l = Corrupt => UNCHANGED VisibleFrom(SkipSeen)
        BY <3>1 DEF Parse
      <3>3. l = m => VisibleFrom(SkipSeen)' = Append(VisibleFrom(SkipSeen), m)
        BY <1>3, <3>1 DEF Parse
      <3>. QED
        BY <1>2, <2>2, <3>1, <3>2, <3>3 DEF Promise!HAddInterrupted
    <2>. QED
      BY <2>1, <2>2
  <1>. QED
    BY <1>4 DEF Promise!HNext

\* SetSummary sets the summary.
LEMMA SummarySeen ==
  ASSUME StoreInv, NEW s \in Summary, SetSummary(s)
  PROVE  Promise!HNext
  <1>1. /\ op.kind # "rewrite" /\ op' = op /\ file' = file /\ open' = open
        /\ meta' = [meta EXCEPT !.summary = s]
    BY DEF SetSummary, Idle
  <1>2. SkipSeen' = SkipSeen /\ meta'.summary = s
    BY <1>1, SeenNow DEF SkipSeen
  <1>3. Promise!HSetSummary(s)
    BY <1>1, <1>2, Views DEF Promise!HSetSummary
  <1>. QED
    BY <1>3 DEF Promise!HNext

\* How TruncateHistory moves the offset.
LEMMA NewSkip ==
  ASSUME StoreInv, NEW k \in KeepArgs, TruncateHistory(k)
  PROVE  /\ op = Idle /\ op' = op /\ file' = file /\ open' = open
         /\ meta'.summary = meta.summary
         /\ SkipSeen = meta.skip /\ SkipSeen' = meta'.skip
         /\ meta'.skip \in meta.skip .. Len(file)
         /\ Len(file) - meta'.skip <= k
         /\ meta'.skip = meta.skip \/ Len(file) - meta'.skip = k
  <1>1. /\ op = Idle /\ op.kind # "rewrite" /\ op' = op /\ file' = file /\ open' = open
        /\ meta' = [meta EXCEPT !.skip = SkipAfterTruncate(k), !.count = Len(file)]
    BY DEF TruncateHistory, Idle
  <1>2. k \in Nat
    BY JsonlAssumption
  <1>3. /\ meta.skip \in Nat /\ Len(file) \in Nat /\ meta.skip <= Len(file)
        /\ meta'.skip = SkipAfterTruncate(k) /\ meta'.summary = meta.summary
    BY <1>1, SeenNow
  <1>. QED
    BY <1>1, <1>2, <1>3, SeenNow DEF SkipSeen, SkipAfterTruncate

\* The sequence of two: its end and its beginning.
LEMMA Ends ==
  ASSUME NEW S, NEW x \in Seq(S), NEW y \in Seq(S)
  PROVE  /\ Promise!LastN(x \o y, Len(y)) = y
         /\ Promise!AllButLast(x \o y, Len(y)) = x
         /\ Len(x \o y) = Len(x) + Len(y) /\ Len(x) \in Nat /\ Len(y) \in Nat
  BY DEF Promise!LastN, Promise!AllButLast

\* TruncateHistory moves messages from the history to those that are gone.
LEMMA TruncateSeen ==
  ASSUME StoreInv, NEW k \in KeepArgs, TruncateHistory(k)
  PROVE  Promise!HNext
  <1>. DEFINE x == Messages(SubSeq(file, SkipSeen + 1, SkipSeen'))
              y == Seen(file, SkipSeen')
              j == Len(y)
  <1>1. /\ file' = file /\ open' = open /\ meta'.summary = meta.summary
        /\ SkipSeen' \in 0 .. Len(file) /\ SkipSeen \in Nat /\ SkipSeen <= SkipSeen'
        /\ Len(file) - SkipSeen' <= k /\ k \in Nat /\ Len(file) \in Nat
        /\ file \in Seq(Line)
    <2>1. k \in Nat /\ file \in Seq(Line) /\ Len(file) \in Nat /\ meta.skip \in 0 .. Len(file)
      BY SeenNow, JsonlAssumption
    <2>2. /\ file' = file /\ open' = open /\ meta'.summary = meta.summary
          /\ SkipSeen = meta.skip /\ SkipSeen' = meta'.skip
          /\ meta'.skip \in meta.skip .. Len(file) /\ Len(file) - meta'.skip <= k
      BY NewSkip
    <2>3. SkipSeen' \in SkipSeen .. Len(file) /\ Len(file) - SkipSeen' <= k
          /\ SkipSeen \in 0 .. Len(file)
      BY <2>1, <2>2
    <2>. QED
      BY <2>1, <2>2, <2>3
  <1>2. /\ Seen(file, SkipSeen) = x \o y
        /\ Gone(file, SkipSeen') = Gone(file, SkipSeen) \o x
        /\ x \in Seq(Msg) /\ j <= Len(file) - SkipSeen'
    BY <1>1, SeenCut
  <1>3. y \in Seq(Msg)
    BY <1>1, SeenTypes
  <1>. HIDE DEF x, y
  <1>4. /\ y = Promise!LastN(x \o y, j) /\ x = Promise!AllButLast(x \o y, j)
        /\ Len(x \o y) = Len(x) + j /\ Len(x) \in Nat /\ j \in Nat
    BY <1>2, <1>3, Ends
  <1>5. j \in 0 .. Promise!Least(k, Len(x \o y))
    BY <1>1, <1>2, <1>4 DEF Promise!Least
  <1>6. /\ VisibleFrom(SkipSeen) = x \o y /\ VisibleFrom(SkipSeen)' = y
        /\ Messages(SubSeq(file, 1, SkipSeen))' = Messages(SubSeq(file, 1, SkipSeen)) \o x
    BY <1>1, <1>2, Views DEF y
  <1>7. Promise!HTruncate(k)
    BY <1>1, <1>4, <1>5, <1>6 DEF Promise!HTruncate
  <1>. QED
    BY <1>7 DEF Promise!HNext

\* The second write of SetHistory or Compact is where they take effect.
LEMMA RewriteSeen ==
  ASSUME StoreInv, Rewrite
  PROVE  Promise!HNext
  <1>1. /\ op.kind = "rewrite" /\ op.of \in {"set", "compact"} /\ op.data \in Seq(Msg)
        /\ file' = op.data /\ open' = FALSE /\ op' = Idle /\ meta' = meta
    BY OpShape DEF Rewrite, StoreInv, SafeInv
  <1>2. SkipSeen = op.was /\ SkipSeen' = 0
    BY <1>1, SeenNow DEF SkipSeen, Idle
  <1>3. Seen(file', 0) = op.data /\ Gone(file', 0) = <<>>
    <2>1. SubSeq(op.data, 0 + 1, Len(op.data)) = op.data /\ SubSeq(op.data, 1, 0) = <<>>
      BY <1>1
    <2>. QED
      BY <1>1, <2>1, WholeMessages, MessagesEmpty DEF Seen, Gone
  <1>4. CASE op.of = "set"
    <2>1. op.data \in SetArgs
      BY <1>1, <1>4 DEF StoreInv, OrderInv
    <2>2. Promise!HSet(op.data)
      BY <1>1, <1>2, <1>3, Views DEF Promise!HSet
    <2>. QED
      BY <2>1, <2>2 DEF Promise!HNext
  <1>5. CASE op.of = "compact"
    <2>1. op.data = VisibleFrom(SkipSeen)
      BY <1>1, <1>2, <1>5 DEF StoreInv, OrderInv
    <2>2. Promise!HCompact
      BY <1>1, <1>2, <1>3, <2>1, Views DEF Promise!HCompact
    <2>. QED
      BY <2>2 DEF Promise!HNext
  <1>. QED
    BY <1>1, <1>4, <1>5

\* An interruption between the two writes brings truncated messages back; any
\* other one is not seen.
LEMMA InterruptSeen ==
  ASSUME StoreInv, Interrupt
  PROVE  Promise!HNext \/ UNCHANGED Promise!hvars
  <1>1. op' = Idle /\ file' = file /\ open' = open /\ meta' = meta
    BY DEF Interrupt
  <1>2. SkipSeen' = meta.skip
    BY <1>1 DEF SkipSeen, Idle
  <1>3. CASE op.kind # "rewrite"
    BY <1>1, <1>2, <1>3, SeenNow, Unseen
  <1>4. CASE op.kind = "rewrite"
    <2>1. SkipSeen' = 0 /\ SkipSeen \in 0 .. Len(file) /\ file \in Seq(Line) /\ Len(file) \in Nat
      BY <1>2, <1>4, SeenNow
    <2>2. Seen(file, 0) = Gone(file, SkipSeen) \o Seen(file, SkipSeen)
      <3>1. Seen(file, 0) = Messages(SubSeq(file, 0 + 1, SkipSeen)) \o Seen(file, SkipSeen)
        BY <2>1, SeenCut
      <3>2. 0 + 1 = 1
        OBVIOUS
      <3>. QED
        BY <3>1, <3>2 DEF Gone
    <2>3. Gone(file, 0) = <<>>
      <3>1. SubSeq(file, 1, 0) = <<>>
        BY SubSeqEmpty
      <3>. QED
        BY <3>1, MessagesEmpty DEF Gone
    <2>4. Promise!HResurrect
      BY <1>1, <2>1, <2>2, <2>3, Views DEF Promise!HResurrect
    <2>. QED
      BY <2>4 DEF Promise!HNext
  <1>. QED
    BY <1>3, <1>4

\* The other steps are not seen.
LEMMA QuietSeen ==
  ASSUME StoreInv,
         \/ CountLine \/ CompactStart \/ ReadLine \/ CompactMeta
         \/ \E h \in SetArgs : SetHistoryMeta(h)
         \/ UNCHANGED jvars
  PROVE  UNCHANGED Promise!hvars
  <1>1. CASE CountLine
    <2>1. /\ op.kind # "rewrite" /\ op'.kind # "rewrite" /\ file' = file /\ open' = open
          /\ meta' = [meta EXCEPT !.count = @ + 1]
      BY <1>1 DEF CountLine, Idle
    <2>2. meta'.skip = meta.skip /\ meta'.summary = meta.summary
      BY <2>1, SeenNow
    <2>. QED
      BY <2>1, <2>2, Unseen DEF SkipSeen
  <1>2. CASE CompactStart
    BY <1>2, Unseen DEF CompactStart, SkipSeen, Idle
  <1>3. CASE ReadLine
    <2>1. op.kind = "read" /\ op \in [kind : {"read"}, line : Nat, acc : Seq(Msg)]
      BY <1>3, OpShape DEF ReadLine, StoreInv, SafeInv
    <2>2. op'.kind = "read" /\ file' = file /\ open' = open /\ meta' = meta
      BY <1>3, <2>1 DEF ReadLine
    <2>. QED
      BY <2>1, <2>2, Unseen DEF SkipSeen
  <1>4. CASE CompactMeta
    <2>1. /\ op.kind # "rewrite" /\ op'.kind = "rewrite" /\ op'.was = meta.skip
          /\ file' = file /\ open' = open
          /\ meta' = [meta EXCEPT !.skip = 0, !.count = Len(op.acc)]
      BY <1>4 DEF CompactMeta, ghosts
    <2>2. meta'.summary = meta.summary
      BY <2>1, SeenNow
    <2>. QED
      BY <2>1, <2>2, Unseen DEF SkipSeen
  <1>5. ASSUME NEW h \in SetArgs, SetHistoryMeta(h)
        PROVE  UNCHANGED Promise!hvars
    <2>1. /\ op.kind # "rewrite" /\ op'.kind = "rewrite" /\ op'.was = meta.skip
          /\ file' = file /\ open' = open
          /\ meta' = [meta EXCEPT !.skip = 0, !.count = Len(h)]
      BY <1>5 DEF SetHistoryMeta, Idle
    <2>2. meta'.summary = meta.summary
      BY <2>1, SeenNow
    <2>. QED
      BY <2>1, <2>2, Unseen DEF SkipSeen
  <1>6. CASE UNCHANGED jvars
    BY <1>6, Unseen DEF jvars, SkipSeen
  <1>. QED
    BY <1>1, <1>2, <1>3, <1>4, <1>5, <1>6

\* A new session is an empty history.
LEMMA PromiseInit == JInit => Promise!HInit
  <1>. SUFFICES ASSUME JInit PROVE Promise!HInit
    OBVIOUS
  <1>1. file = <<>> /\ open = FALSE /\ SkipSeen = 0 /\ meta.summary = ""
    BY DEF JInit, Idle, SkipSeen
  <1>2. SubSeq(file, 0 + 1, Len(file)) = <<>> /\ SubSeq(file, 1, 0) = <<>>
    <2>1. Len(file) = 0
      BY <1>1
    <2>. QED
      BY <2>1, SubSeqEmpty
  <1>. QED
    BY <1>1, <1>2, MessagesEmpty DEF Promise!HInit, VisibleFrom

\* Every step is a step of the promise or is not seen.
LEMMA PromiseStep == StoreInv /\ [JNext]_jvars => [Promise!HNext]_(Promise!hvars)
  <1>. SUFFICES ASSUME StoreInv, [JNext]_jvars
                PROVE  Promise!HNext \/ UNCHANGED Promise!hvars
    OBVIOUS
  <1>. QED
    BY AppendSeen, TearSeen, SummarySeen, TruncateSeen, RewriteSeen, InterruptSeen, QuietSeen
       DEF JNext

\* Whatever is appended, truncated, replaced, compacted or interrupted, callers
\* see a SessionHistory: each operation takes effect at one instant, Compact is
\* invisible, and an interruption has one of the effects the promise names
\* (jsonl.go; store.go:10-42; session_store.go).
THEOREM StoreKeepsPromise == JSpec => ImplementsPromise
  BY PromiseInit, PromiseStep, StoreInvariant, PTL
     DEF JSpec, ImplementsPromise, Promise!HSpec

\* What a caller sees of the last lines, but for the corrupt ones.
LEMMA CorruptWithin ==
  ASSUME NEW f \in Seq(Line), NEW p \in 0 .. Len(f)
  PROVE  LET corrupt == {i \in DOMAIN f : f[i] = Corrupt}
         IN  /\ Cardinality(corrupt) \in Nat
             /\ Len(Seen(f, p)) \in Nat
             /\ Len(Seen(f, p)) <= Len(f) - p
             /\ Len(f) - p <= Len(Seen(f, p)) + Cardinality(corrupt)
  <1>. DEFINE corrupt == {i \in DOMAIN f : f[i] = Corrupt}
              late == {i \in (p + 1) .. Len(f) : f[i] = Corrupt}
  <1>1. Len(f) \in Nat /\ p \in Nat /\ DOMAIN f = 1 .. Len(f) /\ Len(f) \in 0 .. Len(f) /\ p <= Len(f)
    BY LenProperties
  <1>2. IsFiniteSet(late) /\ Cardinality(late) \in Nat /\ Len(Seen(f, p)) + Cardinality(late) = Len(f) - p
    BY <1>1, MessagesCount DEF Seen
  <1>3. IsFiniteSet(corrupt)
    <2>1. IsFiniteSet(1 .. Len(f)) /\ corrupt \subseteq 1 .. Len(f)
      BY <1>1, FS_Interval
    <2>. QED
      BY <2>1, FS_Subset
  <1>4. Cardinality(late) <= Cardinality(corrupt) /\ Cardinality(corrupt) \in Nat
    <2>1. late \subseteq corrupt
      BY <1>1
    <2>. HIDE DEF late, corrupt
    <2>. QED
      BY <1>3, <2>1, FS_Subset, FS_CardinalityType
  <1>5. Len(Seen(f, p)) \in Nat
    BY SeenTypes, LenProperties
  <1>. HIDE DEF late
  <1>. QED
    BY <1>1, <1>2, <1>4, <1>5

\* One truncation.
LEMMA TruncateKeeps ==
  ASSUME StoreInv, NEW k \in KeepArgs, TruncateHistory(k)
  PROVE  LET corrupt == Cardinality({i \in DOMAIN file : file[i] = Corrupt})
             wanted == IF k < Len(Visible) THEN k ELSE Len(Visible)
         IN  wanted - corrupt <= Len(Visible') /\ Len(Visible') <= wanted
  <1>. DEFINE c == Cardinality({i \in DOMAIN file : file[i] = Corrupt})
              n == meta.skip
              p == meta'.skip
              x == Seen(file, n)
              y == Seen(file, p)
              z == Messages(SubSeq(file, n + 1, p))
  <1>1. /\ file \in Seq(Line) /\ Len(file) \in Nat /\ n \in 0 .. Len(file) /\ k \in Nat
    BY SeenNow, JsonlAssumption
  <1>2. /\ file' = file /\ p \in n .. Len(file) /\ Len(file) - p <= k
        /\ p = n \/ Len(file) - p = k
    BY NewSkip
  <1>3. p \in 0 .. Len(file) /\ n \in Nat /\ n <= p
    BY <1>1, <1>2
  <1>4. Visible = x /\ Visible' = y
    BY <1>2 DEF Visible, VisibleFrom, Seen
  <1>5. /\ c \in Nat /\ Len(y) \in Nat /\ Len(y) <= Len(file) - p
        /\ Len(file) - p <= Len(y) + c
    BY <1>1, <1>3, CorruptWithin
  <1>6. x = z \o y /\ z \in Seq(Msg) /\ y \in Seq(Msg)
    BY <1>1, <1>3, SeenCut, SeenTypes
  <1>. HIDE DEF c, z
  <1>7. Len(x) \in Nat /\ Len(y) <= Len(x)
    <2>. HIDE DEF x, y
    <2>. QED
      BY <1>6
  <1>8. p = n => Len(x) = Len(y)
    OBVIOUS
  <1>. HIDE DEF n, p, x, y
  <1>9. /\ (IF k < Len(x) THEN k ELSE Len(x)) - c <= Len(y)
        /\ Len(y) <= (IF k < Len(x) THEN k ELSE Len(x))
    BY <1>1, <1>2, <1>3, <1>5, <1>7, <1>8
  <1>. QED
    BY <1>4, <1>9 DEF c

\* TruncateHistory keeps the last messages asked for, less at most the lines
\* that do not parse, which it counts (jsonl.go:337-359).
THEOREM TruncateKeepsTheLast == JSpec => TruncateKeepsLast
  <1>1. StoreInv => [\A k \in KeepArgs : TruncateHistory(k) =>
            LET corrupt == Cardinality({i \in DOMAIN file : file[i] = Corrupt})
                wanted == IF k < Len(Visible) THEN k ELSE Len(Visible)
            IN  wanted - corrupt <= Len(Visible') /\ Len(Visible') <= wanted]_jvars
    BY TruncateKeeps
  <1>. QED
    BY <1>1, StoreInvariant, PTL DEF TruncateKeepsLast
===============================================================================
