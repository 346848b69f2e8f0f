-------------------------- MODULE AgentHistoryProof -------------------------
(* What a prompt looks like and what may be forgotten, for every bound.     *)
EXTENDS AgentSessionProof, FoldLemmas, FiniteSetTheorems

----------------------------------------------------------------------------
(* sanitizeHistoryForProvider, both of its passes                           *)

\* A message admitted or not, the result is a sequence of messages.
LEMMA AdmitType ==
  ASSUME NEW s \in Seq(Message), NEW m \in Message
  PROVE  Admit(s, m) \in Seq(Message)
  BY AppendProperties DEF Admit

\* The first pass, message by message.
LEMMA AdmitRows ==
  ASSUME NEW h \in Seq(Message)
  PROVE  \E a \in [0 .. Len(h) -> Seq(Message)] :
           /\ a[0] = <<>>
           /\ \A k \in 0 .. Len(h) - 1 : a[k + 1] = Admit(a[k], h[k + 1])
           /\ FoldLeft(Admit, <<>>, h) = a[Len(h)]
  <1>. DEFINE n == Len(h)
              S == Seq(Message)
              Row(it) == [s \in SUBSET DOMAIN h |->
                           IF s = {} THEN <<>> ELSE Admit(it[s \ {Max(s)}], h[Max(s)])]
              c == CHOOSE it : it = Row(it)
              a == [k \in 0 .. n |-> c[1 .. k]]
  <1>1. n \in Nat /\ DOMAIN h = 1 .. n /\ \A i \in 1 .. n : h[i] \in Message
    BY LenProperties, ElementOfSeq
  <1>2. FoldLeft(Admit, <<>>, h) = c[DOMAIN h]
    BY DEF FoldLeft, MapThenFoldSet
  <1>3. \E it : it = Row(it)
    <2>. DEFINE g == [p \in S \X (1 .. n) |-> Admit(p[1], h[p[2]])]
    <2>1. <<>> \in S /\ g \in [S \X (1 .. n) -> S]
      BY <1>1, EmptySeq, AdmitType
    <2>2. PICK it \in [SUBSET (1 .. n) -> S] : IsTable(it, <<>>, g, n)
      BY <1>1, <2>1, TableExists
    <2>3. ASSUME NEW s \in SUBSET (1 .. n), s # {}
          PROVE  g[<<it[s \ {Max(s)}], Max(s)>>] = Admit(it[s \ {Max(s)}], h[Max(s)])
      <3>1. Max(s) \in 1 .. n
        BY <1>1, <2>3, MaxIn
      <3>. QED
        BY <3>1
    <2>4. it = Row(it)
      BY <1>1, <2>2, <2>3 DEF IsTable
    <2>. QED
      BY <2>4
  <1>4. c = Row(c)
    BY <1>3
  <1>. HIDE DEF c
  <1>5. a[0] = <<>>
    BY <1>1, <1>4
  <1>6. ASSUME NEW k \in 0 .. n - 1
        PROVE  a[k + 1] = Admit(a[k], h[k + 1])
    <2>1. Max(1 .. k + 1) = k + 1
      BY <1>1, MaxLast
    <2>2. 1 .. k + 1 \in SUBSET (1 .. n) /\ 1 .. k + 1 # {} /\ (1 .. k + 1) \ {k + 1} = 1 .. k
      BY <1>1
    <2>3. c[1 .. k + 1] = Admit(c[1 .. k], h[k + 1])
      BY <1>1, <1>4, <2>1, <2>2
    <2>. QED
      BY <1>1, <2>3
  <1>7. FoldLeft(Admit, <<>>, h) = a[n] /\ a = [k \in 0 .. n |-> a[k]]
    BY <1>1, <1>2
  <1>. HIDE DEF a
  <1>8. a \in [0 .. n -> S]
    <2>. DEFINE T == {k \in 0 .. n : a[k] \in S}
    <2>1. 0 \in T
      <3>1. a[0] \in S
        BY <1>5, EmptySeq
      <3>. QED
        BY <1>1, <3>1
    <2>2. ASSUME NEW k \in 0 .. n - 1, k \in T
          PROVE  k + 1 \in T
      <3>1. a[k] \in S /\ h[k + 1] \in Message
        BY <1>1, <2>2
      <3>2. a[k + 1] \in S
        BY <1>6, <3>1, AdmitType
      <3>. QED
        BY <1>1, <3>2
    <2>. HIDE DEF T
    <2>3. 0 .. n \subseteq T
      BY <1>1, <2>1, <2>2, IntervalInduction
    <2>4. \A k \in 0 .. n : a[k] \in S
      BY <2>3 DEF T
    <2>. QED
      BY <1>7, <2>4
  <1>. QED
    BY <1>5, <1>6, <1>7, <1>8

\* Every result directly follows its call, and a call that comes after the
\* second message follows a request or a result.  The first two may be what a
\* compression put together.
Tidy(h) ==
  \A i \in DOMAIN h : i > 2 =>
    /\ h[i].role = "tool" => h[i - 1].role = "call" /\ h[i - 1].n = h[i].of
    /\ h[i].role = "call" => h[i - 1].role \in {"user", "tool"}

ToolsPaired(p) ==
  \A i \in DOMAIN p : p[i].role = "tool" =>
    i > 1 /\ p[i - 1].role = "call" /\ p[i - 1].n = p[i].of

\* The calls among the first n are followed by their results.
CallsPaired(p, n) ==
  \A i \in DOMAIN p : i <= n /\ p[i].role = "call" =>
    i < Len(p) /\ p[i + 1].role = "tool" /\ p[i + 1].of = p[i].n

\* What the first pass has made of the first k messages of h.
Admitted(s, h, k) ==
  /\ ToolsPaired(s)
  /\ AfterCall(s) => k > 1 /\ s # <<>> /\ s[Len(s)] = h[k]

\* A sequence of one more message.
LEMMA OneMore ==
  ASSUME NEW s \in Seq(Message), NEW m \in Message
  PROVE  LET t == Append(s, m) IN
         /\ t \in Seq(Message) /\ Len(t) = Len(s) + 1 /\ t # <<>>
         /\ DOMAIN t = 1 .. Len(s) + 1 /\ t[Len(t)] = m
         /\ \A i \in 1 .. Len(s) : t[i] = s[i]
  BY AppendProperties, LenProperties

\* After a message that is no call and no result, no result is admitted.
LEMMA NotAfterCall ==
  ASSUME NEW s \in Seq(Message), s # <<>>, s[Len(s)].role \notin {"call", "tool"}
  PROVE  ~AfterCall(s)
  <1>1. Len(s) \in Nat /\ DOMAIN s = 1 .. Len(s) /\ Len(s) > 0
    BY LenProperties, EmptySeq
  <1>2. ASSUME NEW i \in DOMAIN s, s[i].role = "call", \A j \in i + 1 .. Len(s) : s[j].role = "tool"
        PROVE  FALSE
    <2>1. CASE i = Len(s)
      BY <1>2, <2>1
    <2>2. CASE i < Len(s)
      <3>1. Len(s) \in i + 1 .. Len(s)
        BY <1>1, <2>2
      <3>. QED
        BY <1>2, <3>1
    <2>. QED
      BY <1>1, <2>1, <2>2
  <1>. QED
    BY <1>2 DEF AfterCall

\* One message of a tidy history through the first pass.
LEMMA AdmitStep ==
  ASSUME NEW h \in Seq(Message), Tidy(h), NEW k \in 0 .. Len(h) - 1,
         NEW s \in Seq(Message), Admitted(s, h, k), k = 0 => s = <<>>
  PROVE  Admitted(Admit(s, h[k + 1]), h, k + 1)
  <1>. DEFINE m == h[k + 1]
              t == Append(s, m)
  <1>1. /\ Len(h) \in Nat /\ DOMAIN h = 1 .. Len(h) /\ k + 1 \in DOMAIN h
        /\ m \in Message /\ k \in Nat
        /\ k > 0 => h[k] \in Message
    BY LenProperties, ElementOfSeq
  <1>2. Len(s) \in Nat /\ DOMAIN s = 1 .. Len(s) /\ (s # <<>> <=> Len(s) > 0)
    BY LenProperties, EmptySeq
  <1>3. /\ t \in Seq(Message) /\ Len(t) = Len(s) + 1 /\ t # <<>>
        /\ DOMAIN t = 1 .. Len(s) + 1 /\ t[Len(t)] = m
        /\ \A i \in 1 .. Len(s) : t[i] = s[i]
    BY <1>1, OneMore
  <1>4. AfterCall(<<>>) = FALSE
    BY DEF AfterCall
  <1>. HIDE DEF m, t
  <1>5. ASSUME ToolsPaired(t), AfterCall(t) => k > 0
        PROVE  Admitted(t, h, k + 1)
    BY <1>1, <1>3, <1>5 DEF Admitted, m
  <1>6. ASSUME m.role # "tool"
        PROVE  ToolsPaired(t)
    BY <1>2, <1>3, <1>6 DEF Admitted, ToolsPaired
  <1>7. CASE m.role = "tool"
    <2>1. CASE AfterCall(s)
      <3>1. k > 1 /\ s # <<>> /\ s[Len(s)] = h[k]
        BY <2>1 DEF Admitted
      <3>2. h[k].role = "call" /\ h[k].n = m.of
        BY <1>1, <1>7, <3>1 DEF Tidy, m
      <3>3. ToolsPaired(t)
        <4>1. ASSUME NEW i \in 1 .. Len(s), t[i].role = "tool"
              PROVE  i > 1 /\ t[i - 1].role = "call" /\ t[i - 1].n = t[i].of
          <5>1. i > 1 /\ s[i - 1].role = "call" /\ s[i - 1].n = s[i].of
            BY <1>2, <1>3, <4>1 DEF Admitted, ToolsPaired
          <5>. QED
            BY <1>2, <1>3, <5>1
        <4>2. Len(t) > 1 /\ t[Len(t) - 1] = s[Len(s)] /\ t[Len(t)] = m
          BY <1>2, <1>3, <3>1
        <4>. QED
          BY <1>2, <1>3, <3>1, <3>2, <4>1, <4>2 DEF ToolsPaired
      <3>4. Admit(s, m) = t
        BY <1>7, <2>1 DEF Admit, t
      <3>. QED
        BY <1>1, <1>5, <3>1, <3>3, <3>4 DEF m
    <2>2. CASE ~AfterCall(s)
      <3>1. Admit(s, m) = s
        BY <1>7, <2>2 DEF Admit
      <3>. QED
        BY <2>2, <3>1 DEF Admitted, m
    <2>. QED
      BY <2>1, <2>2
  <1>8. CASE m.role = "call"
    <2>1. CASE s # <<>> /\ s[Len(s)].role \in {"user", "tool"}
      <3>1. Admit(s, m) = t
        BY <1>8, <2>1 DEF Admit, t
      <3>2. k > 0
        BY <1>1, <2>1
      <3>. QED
        BY <1>5, <1>6, <1>8, <3>1, <3>2 DEF m
    <2>2. CASE ~(s # <<>> /\ s[Len(s)].role \in {"user", "tool"})
      <3>1. Admit(s, m) = s
        BY <1>8, <2>2 DEF Admit
      <3>2. ~AfterCall(s)
        <4>. SUFFICES ASSUME AfterCall(s) PROVE FALSE
          OBVIOUS
        <4>1. k > 1 /\ s # <<>> /\ s[Len(s)] = h[k]
          BY DEF Admitted
        <4>2. h[k].role \in {"user", "tool"}
          BY <1>1, <1>8, <4>1 DEF Tidy, m
        <4>. QED
          BY <2>2, <4>1, <4>2
      <3>. QED
        BY <3>1, <3>2 DEF Admitted, m
    <2>. QED
      BY <2>1, <2>2
  <1>9. CASE m.role \notin {"call", "tool"}
    <2>1. Admit(s, m) = t
      BY <1>9 DEF Admit, t
    <2>2. ~AfterCall(t)
      BY <1>3, <1>9, NotAfterCall
    <2>. QED
      BY <1>5, <1>6, <1>9, <2>1, <2>2 DEF m
  <1>. QED
    BY <1>7, <1>8, <1>9

\* The first pass over a tidy history leaves no result without its call.
LEMMA FirstPass ==
  ASSUME NEW h \in Seq(Message)
  PROVE  LET s == FoldLeft(Admit, <<>>, h) IN
         s \in Seq(Message) /\ (Tidy(h) => ToolsPaired(s))
  <1>. DEFINE n == Len(h)
  <1>1. n \in Nat
    BY LenProperties
  <1>2. PICK a \in [0 .. n -> Seq(Message)] :
           /\ a[0] = <<>>
           /\ \A k \in 0 .. n - 1 : a[k + 1] = Admit(a[k], h[k + 1])
           /\ FoldLeft(Admit, <<>>, h) = a[n]
    BY AdmitRows
  <1>. DEFINE T == {k \in 0 .. n : Admitted(a[k], h, k)}
  <1>3. ASSUME Tidy(h)
        PROVE  ToolsPaired(a[n])
    <2>1. Admitted(<<>>, h, 0)
      BY DEF Admitted, ToolsPaired, AfterCall
    <2>2. 0 \in T
      BY <1>1, <1>2, <2>1
    <2>3. ASSUME NEW k \in 0 .. n - 1, k \in T
          PROVE  k + 1 \in T
      <3>1. a[k] \in Seq(Message) /\ Admitted(a[k], h, k) /\ k + 1 \in 0 .. n
        BY <1>1, <1>2, <2>3
      <3>2. Admitted(Admit(a[k], h[k + 1]), h, k + 1)
        BY <1>2, <1>3, <3>1, AdmitStep
      <3>. QED
        BY <1>2, <3>1, <3>2
    <2>. HIDE DEF T
    <2>4. 0 .. n \subseteq T
      BY <1>1, <2>2, <2>3, IntervalInduction
    <2>. QED
      BY <1>1, <2>4 DEF T, Admitted
  <1>. QED
    BY <1>1, <1>2, <1>3


\* In what the first pass leaves, a call goes if no result follows it, and
\* nothing else goes.
LEMMA WhatIsDropped ==
  ASSUME NEW s \in Seq(Message), ToolsPaired(s), NEW i \in DOMAIN s
  PROVE  i \in Dropped(s) <=>
           s[i].role = "call" /\ ~(i < Len(s) /\ s[i + 1].role = "tool")
  <1>1. Len(s) \in Nat /\ DOMAIN s = 1 .. Len(s)
    BY LenProperties
  <1>2. ASSUME NEW c \in DOMAIN s, s[c].role = "call"
        PROVE  Results(s, c) = {j \in {c + 1} : c < Len(s) /\ s[c + 1].role = "tool"}
    <2>1. ASSUME NEW j \in Results(s, c)
          PROVE  j = c + 1 /\ c < Len(s) /\ s[c + 1].role = "tool"
      <3>1. j \in c + 1 .. Len(s) /\ \A k \in c + 1 .. j : s[k].role = "tool"
        BY <2>1 DEF Results
      <3>2. s[c + 1].role = "tool"
        BY <1>1, <3>1
      <3>3. ASSUME j > c + 1 PROVE FALSE
        <4>1. c + 2 \in DOMAIN s /\ s[c + 2].role = "tool" /\ c + 2 - 1 = c + 1
          BY <1>1, <3>1, <3>3
        <4>2. s[c + 1].role = "call"
          BY <4>1 DEF ToolsPaired
        <4>. QED
          BY <3>2, <4>2
      <3>. QED
        BY <1>1, <3>1, <3>2, <3>3
    <2>2. ASSUME c < Len(s), s[c + 1].role = "tool"
          PROVE  c + 1 \in Results(s, c)
      BY <1>1, <2>2 DEF Results
    <2>. QED
      BY <2>1, <2>2
  <1>3. ASSUME NEW c \in DOMAIN s, s[c].role = "call", c < Len(s), s[c + 1].role = "tool"
        PROVE  c + 1 \in Results(s, c) /\ s[c + 1].of = s[c].n
    <2>1. c + 1 \in DOMAIN s /\ c + 1 - 1 = c
      BY <1>1, <1>3
    <2>. QED
      BY <1>2, <1>3, <2>1 DEF ToolsPaired
  <1>. DEFINE Bad == {k \in DOMAIN s : s[k].role = "call" /\ \A j \in Results(s, k) : s[j].of # s[k].n}
  <1>4. \A c \in DOMAIN s : c \in Bad <=> s[c].role = "call" /\ ~(c < Len(s) /\ s[c + 1].role = "tool")
    BY <1>2, <1>3
  <1>5. \A c \in Bad : Results(s, c) = {}
    BY <1>2, <1>4
  <1>6. Dropped(s) = UNION {{c} \cup Results(s, c) : c \in Bad}
    BY DEF Dropped
  <1>. HIDE DEF Bad
  <1>7. i \in Dropped(s) <=> i \in Bad
    BY <1>5, <1>6
  <1>. QED
    BY <1>4, <1>7

\* The second pass, message by message.
LEMMA CompleteRows ==
  ASSUME NEW s \in Seq(Message)
  PROVE  \E b \in [0 .. Len(s) -> Seq(Message)] :
           /\ b[0] = <<>>
           /\ \A k \in 0 .. Len(s) - 1 :
                b[k + 1] = IF k + 1 \in Dropped(s) THEN b[k] ELSE Append(b[k], s[k + 1])
           /\ Complete(s) = b[Len(s)]
  <1>. DEFINE n == Len(s)
              S == Seq(Message)
              Keep(kept, i) == IF i \in Dropped(s) THEN kept ELSE Append(kept, s[i])
              d == [i \in DOMAIN s |-> i]
              Row(it) == [r \in SUBSET DOMAIN d |->
                           IF r = {} THEN <<>> ELSE Keep(it[r \ {Max(r)}], d[Max(r)])]
              c == CHOOSE it : it = Row(it)
              b == [k \in 0 .. n |-> c[1 .. k]]
  <1>1. n \in Nat /\ DOMAIN s = 1 .. n /\ \A i \in 1 .. n : s[i] \in Message
    BY LenProperties, ElementOfSeq
  <1>2. Complete(s) = c[DOMAIN d]
    BY DEF Complete, FoldLeftDomain, FoldLeft, MapThenFoldSet
  <1>3. DOMAIN d = 1 .. n /\ \A i \in 1 .. n : d[i] = i
    BY <1>1
  <1>4. \A q \in S, i \in 1 .. n : Keep(q, i) \in S
    BY <1>1, AppendProperties
  <1>. HIDE DEF Keep, d
  <1>5. \E it : it = Row(it)
    <2>. DEFINE g == [p \in S \X (1 .. n) |-> Keep(p[1], p[2])]
    <2>1. <<>> \in S /\ g \in [S \X (1 .. n) -> S]
      BY <1>4, EmptySeq
    <2>2. PICK it \in [SUBSET (1 .. n) -> S] : IsTable(it, <<>>, g, n)
      BY <1>1, <2>1, TableExists
    <2>3. ASSUME NEW r \in SUBSET (1 .. n), r # {}
          PROVE  g[<<it[r \ {Max(r)}], Max(r)>>] = Keep(it[r \ {Max(r)}], d[Max(r)])
      <3>1. Max(r) \in 1 .. n
        BY <1>1, <2>3, MaxIn
      <3>. QED
        BY <1>3, <3>1
    <2>4. it = Row(it)
      BY <1>3, <2>2, <2>3 DEF IsTable
    <2>. QED
      BY <2>4
  <1>6. c = Row(c)
    BY <1>5
  <1>. HIDE DEF c
  <1>7. b[0] = <<>>
    BY <1>1, <1>3, <1>6
  <1>8. ASSUME NEW k \in 0 .. n - 1
        PROVE  b[k + 1] = Keep(b[k], k + 1)
    <2>1. Max(1 .. k + 1) = k + 1
      BY <1>1, MaxLast
    <2>2. 1 .. k + 1 \in SUBSET (1 .. n) /\ 1 .. k + 1 # {} /\ (1 .. k + 1) \ {k + 1} = 1 .. k
      BY <1>1
    <2>3. c[1 .. k + 1] = Keep(c[(1 .. k + 1) \ {Max(1 .. k + 1)}], d[Max(1 .. k + 1)])
      BY <1>3, <1>6, <2>2
    <2>4. d[Max(1 .. k + 1)] = k + 1 /\ (1 .. k + 1) \ {Max(1 .. k + 1)} = 1 .. k
      BY <1>1, <1>3, <2>1, <2>2
    <2>5. c[1 .. k + 1] = Keep(c[1 .. k], k + 1)
      BY <2>3, <2>4, Zenon
    <2>. QED
      BY <1>1, <2>5
  <1>9. Complete(s) = b[n] /\ b = [k \in 0 .. n |-> b[k]]
    BY <1>1, <1>2, <1>3
  <1>. HIDE DEF b
  <1>10. b \in [0 .. n -> S]
    <2>. DEFINE T == {k \in 0 .. n : b[k] \in S}
    <2>1. 0 \in T
      <3>1. b[0] \in S
        BY <1>7, EmptySeq
      <3>. QED
        BY <1>1, <3>1
    <2>2. ASSUME NEW k \in 0 .. n - 1, k \in T
          PROVE  k + 1 \in T
      <3>1. b[k] \in S /\ k + 1 \in 1 .. n
        BY <1>1, <2>2
      <3>2. b[k + 1] \in S
        BY <1>4, <1>8, <3>1
      <3>. QED
        BY <1>1, <3>2
    <2>. HIDE DEF T
    <2>3. 0 .. n \subseteq T
      BY <1>1, <2>1, <2>2, IntervalInduction
    <2>4. \A k \in 0 .. n : b[k] \in S
      BY <2>3 DEF T
    <2>. QED
      BY <1>9, <2>4
  <1>. QED
    BY <1>7, <1>8, <1>9, <1>10 DEF Keep

\* What the second pass has kept of the first k messages of s.
Kept(b, s, k) ==
  /\ ToolsPaired(b)
  /\ CallsPaired(b, Len(b) - 1)
  /\ b # <<>> /\ b[Len(b)].role = "call" =>
       k > 0 /\ b[Len(b)] = s[k] /\ k < Len(s) /\ s[k + 1].role = "tool"
  /\ k > 0 /\ s[k].role = "call" /\ k < Len(s) /\ s[k + 1].role = "tool" =>
       b # <<>> /\ b[Len(b)] = s[k]

\* One message through the second pass.
LEMMA KeepStep ==
  ASSUME NEW s \in Seq(Message), ToolsPaired(s), NEW k \in 0 .. Len(s) - 1,
         NEW b \in Seq(Message), Kept(b, s, k)
  PROVE  Kept(IF k + 1 \in Dropped(s) THEN b ELSE Append(b, s[k + 1]), s, k + 1)
  <1>. DEFINE m == s[k + 1]
              t == Append(b, m)
  <1>1. /\ Len(s) \in Nat /\ DOMAIN s = 1 .. Len(s) /\ k + 1 \in DOMAIN s /\ k \in Nat
        /\ m \in Message /\ k + 1 - 1 = k
    BY LenProperties, ElementOfSeq
  <1>2. Len(b) \in Nat /\ DOMAIN b = 1 .. Len(b) /\ (b # <<>> <=> Len(b) > 0)
    BY LenProperties, EmptySeq
  <1>3. /\ t \in Seq(Message) /\ Len(t) = Len(b) + 1 /\ t # <<>>
        /\ DOMAIN t = 1 .. Len(b) + 1 /\ t[Len(t)] = m
        /\ \A i \in 1 .. Len(b) : t[i] = b[i]
    BY <1>1, OneMore
  <1>4. k + 1 \in Dropped(s) <=> m.role = "call" /\ ~(k + 1 < Len(s) /\ s[k + 1 + 1].role = "tool")
    BY <1>1, WhatIsDropped
  <1>5. m.role = "tool" => k > 0 /\ s[k].role = "call" /\ s[k].n = m.of
    BY <1>1 DEF ToolsPaired
  <1>6. m.role = "tool" => b # <<>> /\ b[Len(b)] = s[k]
    BY <1>1, <1>5 DEF Kept
  <1>7. m.role # "tool" /\ b # <<>> => b[Len(b)].role # "call"
    BY <1>1 DEF Kept
  <1>. HIDE DEF m, t
  <1>8. CASE k + 1 \in Dropped(s)
    BY <1>1, <1>4, <1>7, <1>8 DEF Kept, m
  <1>9. CASE k + 1 \notin Dropped(s)
    <2>1. ToolsPaired(t)
      <3>1. ASSUME NEW i \in 1 .. Len(b), t[i].role = "tool"
            PROVE  i > 1 /\ t[i - 1].role = "call" /\ t[i - 1].n = t[i].of
        <4>1. i > 1 /\ b[i - 1].role = "call" /\ b[i - 1].n = b[i].of
          BY <1>2, <1>3, <3>1 DEF Kept, ToolsPaired
        <4>. QED
          BY <1>2, <1>3, <4>1
      <3>2. ASSUME m.role = "tool"
            PROVE  Len(t) > 1 /\ t[Len(t) - 1].role = "call" /\ t[Len(t) - 1].n = m.of
        BY <1>2, <1>3, <1>5, <1>6, <3>2
      <3>. QED
        BY <1>2, <1>3, <3>1, <3>2 DEF ToolsPaired
    <2>2. CallsPaired(t, Len(b))
      <3>1. ASSUME NEW i \in 1 .. Len(b) - 1, t[i].role = "call"
            PROVE  t[i + 1].role = "tool" /\ t[i + 1].of = t[i].n
        <4>1. i \in DOMAIN b /\ i <= Len(b) - 1 /\ b[i].role = "call" /\ i + 1 \in 1 .. Len(b)
          BY <1>2, <1>3, <3>1
        <4>2. CallsPaired(b, Len(b) - 1)
          BY DEF Kept
        <4>3. b[i + 1].role = "tool" /\ b[i + 1].of = b[i].n
          BY <4>1, <4>2 DEF CallsPaired
        <4>. QED
          BY <1>2, <1>3, <4>1, <4>3
      <3>2. ASSUME Len(b) > 0, b[Len(b)].role = "call"
            PROVE  m.role = "tool" /\ m.of = b[Len(b)].n
        BY <1>2, <1>5, <1>6, <1>7, <3>2
      <3>. QED
        BY <1>2, <1>3, <3>1, <3>2 DEF CallsPaired
    <2>3. Len(t) - 1 = Len(b)
      BY <1>2, <1>3
    <2>4. Kept(t, s, k + 1)
      BY <1>1, <1>3, <1>4, <1>9, <2>1, <2>2, <2>3 DEF Kept, m
    <2>. QED
      BY <1>9, <2>4 DEF t, m
  <1>. QED
    BY <1>8, <1>9

\* Both passes over a tidy history: every result with its call, every call
\* with its result.
LEMMA SanitizePairs ==
  ASSUME NEW h \in Seq(Message)
  PROVE  /\ Sanitize(h) \in Seq(Message)
         /\ Tidy(h) => ToolsPaired(Sanitize(h)) /\ CallsPaired(Sanitize(h), Len(Sanitize(h)))
  <1>. DEFINE s == FoldLeft(Admit, <<>>, h)
              n == Len(s)
  <1>1. s \in Seq(Message) /\ (Tidy(h) => ToolsPaired(s)) /\ n \in Nat
    BY FirstPass, LenProperties
  <1>2. Sanitize(h) = Complete(s)
    BY DEF Sanitize
  <1>. HIDE DEF s
  <1>3. PICK b \in [0 .. n -> Seq(Message)] :
           /\ b[0] = <<>>
           /\ \A k \in 0 .. n - 1 :
                b[k + 1] = IF k + 1 \in Dropped(s) THEN b[k] ELSE Append(b[k], s[k + 1])
           /\ Complete(s) = b[n]
    BY <1>1, CompleteRows
  <1>. DEFINE T == {k \in 0 .. n : Kept(b[k], s, k)}
  <1>4. ASSUME Tidy(h)
        PROVE  ToolsPaired(b[n]) /\ CallsPaired(b[n], Len(b[n]))
    <2>1. Kept(<<>>, s, 0)
      BY DEF Kept, ToolsPaired, CallsPaired
    <2>2. 0 \in T
      BY <1>1, <1>3, <2>1
    <2>3. ASSUME NEW k \in 0 .. n - 1, k \in T
          PROVE  k + 1 \in T
      <3>0. k \in 0 .. n /\ k + 1 \in 0 .. n
        BY <1>1
      <3>1. b[k] \in Seq(Message) /\ Kept(b[k], s, k) /\ ToolsPaired(s)
        BY <1>1, <1>3, <1>4, <2>3, <3>0
      <3>2. Kept(IF k + 1 \in Dropped(s) THEN b[k] ELSE Append(b[k], s[k + 1]), s, k + 1)
        BY <1>1, <3>1, KeepStep
      <3>. QED
        BY <1>3, <3>0, <3>2
    <2>. HIDE DEF T
    <2>4. 0 .. n \subseteq T
      BY <1>1, <2>2, <2>3, IntervalInduction
    <2>5. Kept(b[n], s, n)
      BY <1>1, <2>4 DEF T
    <2>a. b[n] \in Seq(Message)
      BY <1>1, <1>3
    <2>6. Len(b[n]) \in Nat /\ DOMAIN b[n] = 1 .. Len(b[n]) /\ (b[n] # <<>> <=> Len(b[n]) > 0)
      BY <2>a, LenProperties, EmptySeq
    <2>7. b[n] # <<>> => b[n][Len(b[n])].role # "call"
      BY <1>1, <2>5 DEF Kept
    <2>. QED
      BY <2>5, <2>6, <2>7 DEF Kept, CallsPaired
  <1>. QED
    BY <1>1, <1>2, <1>3, <1>4


----------------------------------------------------------------------------
(* The prompt                                                              *)

EndsIn(s, roles) == s # <<>> /\ s[Len(s)].role \in roles
EndsInCall(s)    == EndsIn(s, {"call"}) /\ s[Len(s)].n = count

\* The history and the copy of it that is about to replace it.
HistoryTidy == Tidy(history) /\ (pc = "replace" => Tidy(copy))

\* What the next message is appended to.
HistoryEnd ==
  /\ pc \in {"llm", "compress", "replace"} => EndsIn(history, {"user", "tool"})
  /\ pc = "replace" => EndsIn(copy, {"user", "tool"})
  /\ pc \in {"tool", "result"} => EndsInCall(history)

PromptPaired ==
  /\ pc \in {"user", "llm"} => ToolsPaired(prompt) /\ CallsPaired(prompt, Len(prompt))
  /\ pc \in {"tool", "result"} =>
       EndsInCall(prompt) /\ ToolsPaired(prompt) /\ CallsPaired(prompt, Len(prompt) - 1)

\* The prompt is a sequence of messages, in order unless an append failed.
PromptInv ==
  /\ prompt \in Seq(Message)
  /\ ~swallowed => HistoryTidy /\ HistoryEnd /\ PromptPaired

\* A message that fits the last one keeps a history tidy.
LEMMA TidyAppend ==
  ASSUME NEW h \in Seq(Message), Tidy(h), NEW m \in Message,
         Len(h) > 1 /\ m.role = "tool" => h[Len(h)].role = "call" /\ h[Len(h)].n = m.of,
         Len(h) > 1 /\ m.role = "call" => h[Len(h)].role \in {"user", "tool"}
  PROVE  Tidy(Append(h, m))
  <1>. DEFINE t == Append(h, m)
  <1>1. Len(h) \in Nat /\ DOMAIN h = 1 .. Len(h)
    BY LenProperties
  <1>2. /\ Len(t) = Len(h) + 1 /\ DOMAIN t = 1 .. Len(h) + 1 /\ t[Len(h) + 1] = m
        /\ \A i \in 1 .. Len(h) : t[i] = h[i]
    BY OneMore
  <1>. HIDE DEF t
  <1>3. ASSUME NEW i \in 1 .. Len(h), i > 2
        PROVE  t[i] = h[i] /\ t[i - 1] = h[i - 1] /\ i \in DOMAIN h
    BY <1>1, <1>2, <1>3
  <1>4. Len(h) > 1 => t[Len(h) + 1 - 1] = h[Len(h)]
    BY <1>1, <1>2
  <1>5. ASSUME NEW i \in DOMAIN t, i > 2
        PROVE  /\ t[i].role = "tool" => t[i - 1].role = "call" /\ t[i - 1].n = t[i].of
               /\ t[i].role = "call" => t[i - 1].role \in {"user", "tool"}
    <2>1. CASE i \in 1 .. Len(h)
      BY <1>3, <1>5, <2>1 DEF Tidy
    <2>2. CASE i = Len(h) + 1
      BY <1>1, <1>2, <1>4, <1>5, <2>2
    <2>. QED
      BY <1>1, <1>2, <2>1, <2>2
  <1>. QED
    BY <1>5 DEF Tidy, t

\* A truncation keeps a history tidy, and its last message.
LEMMA TidySuffix ==
  ASSUME NEW h \in Seq(Message), NEW a \in 1 .. Len(h)
  PROVE  LET t == SubSeq(h, a, Len(h)) IN
         /\ t # <<>> /\ t[Len(t)] = h[Len(h)]
         /\ Tidy(h) => Tidy(t)
  <1>. DEFINE t == SubSeq(h, a, Len(h))
  <1>1. Len(h) \in Nat /\ DOMAIN h = 1 .. Len(h)
    BY LenProperties
  <1>2. /\ t \in Seq(Message) /\ Len(t) = Len(h) - a + 1
        /\ \A i \in 1 .. Len(h) - a + 1 : t[i] = h[a + i - 1]
    BY <1>1, SubSeqProperties
  <1>3. DOMAIN t = 1 .. Len(t) /\ (t = <<>> => Len(t) = 0)
    BY <1>2, LenProperties, EmptySeq
  <1>. HIDE DEF t
  <1>4. ASSUME NEW i \in DOMAIN t, i > 2
        PROVE  \E j \in DOMAIN h : j > 2 /\ t[i] = h[j] /\ t[i - 1] = h[j - 1]
    <2>1. /\ i \in 1 .. Len(h) - a + 1 /\ i - 1 \in 1 .. Len(h) - a + 1
          /\ a + (i - 1) - 1 = a + i - 1 - 1
          /\ a + i - 1 \in DOMAIN h /\ a + i - 1 > 2
      BY <1>1, <1>2, <1>3, <1>4
    <2>2. t[i] = h[a + i - 1] /\ t[i - 1] = h[a + (i - 1) - 1]
      BY <1>2, <2>1
    <2>. QED
      BY <2>1, <2>2
  <1>5. ASSUME Tidy(h)
        PROVE  Tidy(t)
    <2>1. ASSUME NEW i \in DOMAIN t, i > 2
          PROVE  /\ t[i].role = "tool" => t[i - 1].role = "call" /\ t[i - 1].n = t[i].of
                 /\ t[i].role = "call" => t[i - 1].role \in {"user", "tool"}
      <3>1. PICK j \in DOMAIN h : j > 2 /\ t[i] = h[j] /\ t[i - 1] = h[j - 1]
        BY <1>4, <2>1
      <3>. QED
        BY <1>5, <3>1 DEF Tidy
    <2>. QED
      BY <2>1 DEF Tidy
  <1>6. t # <<>> /\ t[Len(t)] = h[Len(h)]
    BY <1>1, <1>2, <1>3
  <1>. QED
    BY <1>5, <1>6 DEF t

\* So does a compression, which keeps the first message too.
LEMMA TidyHeadAndRest ==
  ASSUME NEW h \in Seq(Message), NEW a \in 2 .. Len(h)
  PROVE  LET t == <<h[1]>> \o SubSeq(h, a, Len(h)) IN
         /\ t # <<>> /\ t[Len(t)] = h[Len(h)]
         /\ Tidy(h) => Tidy(t)
  <1>. DEFINE r == SubSeq(h, a, Len(h))
              t == <<h[1]>> \o r
  <1>1. Len(h) \in Nat /\ DOMAIN h = 1 .. Len(h) /\ h[1] \in Message
    BY LenProperties, ElementOfSeq
  <1>2. /\ r \in Seq(Message) /\ Len(r) = Len(h) - a + 1
        /\ \A i \in 1 .. Len(h) - a + 1 : r[i] = h[a + i - 1]
    BY <1>1, SubSeqProperties
  <1>3. <<h[1]>> \in Seq(Message) /\ Len(<<h[1]>>) = 1
    BY <1>1
  <1>4. /\ t \in Seq(Message) /\ Len(t) = 1 + Len(r)
        /\ \A i \in 1 .. 1 + Len(r) : t[i] = IF i <= 1 THEN <<h[1]>>[i] ELSE r[i - 1]
    BY <1>2, <1>3, ConcatProperties, Z3
  <1>5. DOMAIN t = 1 .. Len(t) /\ (t = <<>> => Len(t) = 0)
    BY <1>4, LenProperties, EmptySeq
  <1>. HIDE DEF t, r
  <1>6. ASSUME NEW i \in DOMAIN t, i > 1
        PROVE  t[i] = h[a + i - 2] /\ a + i - 2 \in DOMAIN h
    <2>1. /\ i - 1 \in 1 .. Len(h) - a + 1 /\ a + (i - 1) - 1 = a + i - 2
          /\ i \in 1 .. 1 + Len(r) /\ ~(i <= 1) /\ a + i - 2 \in DOMAIN h
      BY <1>1, <1>2, <1>4, <1>5, <1>6
    <2>2. t[i] = r[i - 1] /\ r[i - 1] = h[a + (i - 1) - 1]
      BY <1>2, <1>4, <2>1
    <2>. QED
      BY <2>1, <2>2
  <1>7. ASSUME NEW i \in DOMAIN t, i > 2
        PROVE  \E j \in DOMAIN h : j > 2 /\ t[i] = h[j] /\ t[i - 1] = h[j - 1]
    <2>1. i - 1 \in DOMAIN t /\ i - 1 > 1 /\ a + (i - 1) - 2 = a + i - 2 - 1 /\ a + i - 2 > 2
      BY <1>1, <1>2, <1>4, <1>5, <1>7
    <2>2. i > 1
      BY <1>2, <1>4, <1>5, <1>7
    <2>3. t[i] = h[a + i - 2] /\ a + i - 2 \in DOMAIN h /\ t[i - 1] = h[a + (i - 1) - 2]
      BY <1>6, <1>7, <2>1, <2>2
    <2>4. t[i - 1] = h[a + i - 2 - 1]
      BY <2>1, <2>3
    <2>. DEFINE j == a + i - 2
    <2>5. j \in DOMAIN h /\ j > 2 /\ t[i] = h[j] /\ t[i - 1] = h[j - 1]
      BY <2>1, <2>3, <2>4
    <2>. HIDE DEF j
    <2>. QED
      BY <2>5
  <1>8. ASSUME Tidy(h)
        PROVE  Tidy(t)
    <2>1. ASSUME NEW i \in DOMAIN t, i > 2
          PROVE  /\ t[i].role = "tool" => t[i - 1].role = "call" /\ t[i - 1].n = t[i].of
                 /\ t[i].role = "call" => t[i - 1].role \in {"user", "tool"}
      <3>1. PICK j \in DOMAIN h : j > 2 /\ t[i] = h[j] /\ t[i - 1] = h[j - 1]
        BY <1>7, <2>1
      <3>. QED
        BY <1>8, <3>1 DEF Tidy
    <2>. QED
      BY <2>1 DEF Tidy
  <1>9. Len(t) \in DOMAIN t /\ Len(t) > 1 /\ a + Len(t) - 2 = Len(h)
    BY <1>1, <1>2, <1>4, <1>5
  <1>. QED
    BY <1>5, <1>6, <1>8, <1>9 DEF t, r

\* A prompt grows by a request, a call, or the result of its last call.
LEMMA PairsAppend ==
  ASSUME NEW p \in Seq(Message), NEW m \in Message, ToolsPaired(p)
  PROVE  LET t == Append(p, m) IN
         /\ m.role # "tool" /\ CallsPaired(p, Len(p)) => ToolsPaired(t) /\ CallsPaired(t, Len(t) - 1)
         /\ m.role \notin {"tool", "call"} /\ CallsPaired(p, Len(p)) =>
              ToolsPaired(t) /\ CallsPaired(t, Len(t))
         /\ /\ m.role = "tool" /\ CallsPaired(p, Len(p) - 1)
            /\ EndsIn(p, {"call"}) /\ p[Len(p)].n = m.of
            => ToolsPaired(t) /\ CallsPaired(t, Len(t))
  <1>. DEFINE t == Append(p, m)
  <1>1. Len(p) \in Nat /\ DOMAIN p = 1 .. Len(p) /\ (p # <<>> <=> Len(p) > 0)
    BY LenProperties, EmptySeq
  <1>2. /\ Len(t) = Len(p) + 1 /\ DOMAIN t = 1 .. Len(p) + 1 /\ t[Len(p) + 1] = m
        /\ \A i \in 1 .. Len(p) : t[i] = p[i]
    BY OneMore
  <1>. HIDE DEF t
  <1>3. ASSUME NEW i \in 1 .. Len(p), t[i].role = "tool"
        PROVE  i > 1 /\ t[i - 1].role = "call" /\ t[i - 1].n = t[i].of
    <2>1. i > 1 /\ p[i - 1].role = "call" /\ p[i - 1].n = p[i].of
      BY <1>1, <1>2, <1>3 DEF ToolsPaired
    <2>. QED
      BY <1>1, <1>2, <2>1
  <1>4. ASSUME NEW k \in {Len(p), Len(p) - 1}, CallsPaired(p, k), NEW i \in 1 .. k, t[i].role = "call"
        PROVE  i < Len(t) /\ t[i + 1].role = "tool" /\ t[i + 1].of = t[i].n
    <2>1. i \in DOMAIN p /\ i <= k /\ p[i].role = "call"
      BY <1>1, <1>2, <1>4
    <2>2. i < Len(p) /\ p[i + 1].role = "tool" /\ p[i + 1].of = p[i].n
      BY <1>4, <2>1 DEF CallsPaired
    <2>. QED
      BY <1>1, <1>2, <2>1, <2>2
  <1>5. ASSUME m.role # "tool", CallsPaired(p, Len(p))
        PROVE  /\ ToolsPaired(t) /\ CallsPaired(t, Len(t) - 1)
               /\ m.role # "call" => CallsPaired(t, Len(t))
    <2>1. ToolsPaired(t)
      BY <1>1, <1>2, <1>3, <1>5 DEF ToolsPaired
    <2>2. ASSUME NEW i \in 1 .. Len(p), t[i].role = "call"
          PROVE  i < Len(t) /\ t[i + 1].role = "tool" /\ t[i + 1].of = t[i].n
      BY <1>4, <1>5, <2>2
    <2>3. CallsPaired(t, Len(t) - 1)
      BY <1>1, <1>2, <2>2 DEF CallsPaired
    <2>4. m.role # "call" => CallsPaired(t, Len(t))
      BY <1>1, <1>2, <2>2 DEF CallsPaired
    <2>. QED
      BY <2>1, <2>3, <2>4
  <1>6. ASSUME m.role = "tool", CallsPaired(p, Len(p) - 1), EndsIn(p, {"call"}), p[Len(p)].n = m.of
        PROVE  ToolsPaired(t) /\ CallsPaired(t, Len(t))
    <2>1. Len(p) > 0 /\ t[Len(p) + 1 - 1] = p[Len(p)] /\ p[Len(p)].role = "call"
      BY <1>1, <1>2, <1>6 DEF EndsIn
    <2>2. ToolsPaired(t)
      BY <1>1, <1>2, <1>3, <1>6, <2>1 DEF ToolsPaired
    <2>3. ASSUME NEW i \in 1 .. Len(p) - 1, t[i].role = "call"
          PROVE  i < Len(t) /\ t[i + 1].role = "tool" /\ t[i + 1].of = t[i].n
      BY <1>4, <1>6, <2>3
    <2>4. CallsPaired(t, Len(t))
      BY <1>1, <1>2, <1>6, <2>1, <2>3 DEF CallsPaired
    <2>. QED
      BY <2>2, <2>4
  <1>. QED
    BY <1>5, <1>6 DEF t


\* Before the first turn there is no message.
LEMMA PromptInit == Init => PromptInv
  <1>. SUFFICES ASSUME Init PROVE PromptInv
    OBVIOUS
  <1>1. prompt \in Seq(Message) /\ DOMAIN history = {}
    BY EmptySeq DEF Init
  <1>2. HistoryTidy /\ HistoryEnd /\ PromptPaired
    BY <1>1 DEF Init, HistoryTidy, HistoryEnd, PromptPaired, Tidy
  <1>. QED
    BY <1>1, <1>2 DEF PromptInv

\* A step that leaves the messages alone, and the turn where no message is
\* expected, or where it was.
LEMMA PromptQuiet ==
  ASSUME PromptInv, UNCHANGED <<history, count, swallowed>>,
         \/ prompt' \in {prompt, <<>>} /\ pc' \notin {"user", "llm", "compress", "replace", "tool", "result"}
         \/ prompt' = prompt /\ copy' = copy /\ (pc' = pc \/ (pc = "tool" /\ pc' = "result"))
  PROVE  PromptInv'
  <1>1. prompt' \in Seq(Message)
    BY EmptySeq DEF PromptInv
  <1>2. ASSUME ~swallowed'
        PROVE  HistoryTidy' /\ HistoryEnd' /\ PromptPaired'
    <2>1. HistoryTidy /\ HistoryEnd /\ PromptPaired
      BY <1>2 DEF PromptInv
    <2>2. HistoryTidy'
      BY <2>1 DEF HistoryTidy, Tidy
    <2>3. HistoryEnd'
      BY <2>1 DEF HistoryEnd, EndsIn, EndsInCall
    <2>4. PromptPaired'
      BY <2>1 DEF PromptPaired, EndsIn, EndsInCall, ToolsPaired, CallsPaired
    <2>. QED
      BY <2>2, <2>3, <2>4
  <1>. QED
    BY <1>1, <1>2 DEF PromptInv

\* A message is added to the history, or its append fails; the prompt gets it
\* unless it is an answer.
LEMMA PromptAdd ==
  ASSUME PromptInv, StoreTypes, AddUser \/ AddCall \/ AddResult \/ AddAnswer
  PROVE  PromptInv'
  <1>1. PICK role \in {"user", "call", "tool", "assistant"}, of \in {0, count} :
          /\ Add(role, of)
          /\ role = "user" => pc = "user" /\ pc' = "llm"
          /\ role = "call" => pc = "llm" /\ pc' = "tool"
          /\ role = "tool" => pc = "result" /\ pc' = "llm" /\ of = count
          /\ role = "assistant" => pc = "llm" /\ pc' = "tidy"
    BY DEF AddUser, AddCall, AddResult, AddAnswer, Go
  <1>. DEFINE m == [n |-> count + 1, role |-> role, of |-> of]
  <1>2. /\ count < MaxMessages /\ count' = count + 1
        /\ prompt' = IF role = "assistant" THEN prompt ELSE Append(prompt, m)
        /\ \/ history' = Append(history, m) /\ swallowed' = swallowed
           \/ swallowed' = TRUE
    BY <1>1 DEF Add
  <1>3. count \in Nat /\ MaxMessages \in Nat /\ count <= MaxMessages
        /\ history \in Seq(Message) /\ prompt \in Seq(Message)
    BY AgentAssumption DEF StoreTypes, PromptInv
  <1>4. m \in Message /\ m.n = count + 1 /\ m.role = role /\ m.of = of
    BY <1>2, <1>3 DEF Message, Number
  <1>. HIDE DEF m
  <1>5. prompt' \in Seq(Message)
    BY <1>2, <1>3, <1>4, AppendProperties
  <1>6. ASSUME ~swallowed'
        PROVE  HistoryTidy' /\ HistoryEnd' /\ PromptPaired'
    <2>1. HistoryTidy /\ HistoryEnd /\ PromptPaired /\ history' = Append(history, m)
      BY <1>2, <1>6 DEF PromptInv
    <2>2. EndsIn(history', {role}) /\ history'[Len(history')].n = count'
      BY <1>2, <1>3, <1>4, <2>1, OneMore DEF EndsIn
    <2>3. HistoryTidy'
      <3>1. role = "tool" => history[Len(history)].role = "call" /\ history[Len(history)].n = m.of
        BY <1>1, <1>4, <2>1 DEF HistoryEnd, EndsInCall, EndsIn
      <3>2. role = "call" => history[Len(history)].role \in {"user", "tool"}
        BY <1>1, <2>1 DEF HistoryEnd, EndsIn
      <3>3. Tidy(history)
        BY <2>1 DEF HistoryTidy
      <3>4. Tidy(Append(history, m))
        BY <1>3, <1>4, <3>1, <3>2, <3>3, TidyAppend
      <3>. QED
        BY <1>1, <2>1, <3>4 DEF HistoryTidy, Tidy
    <2>4. HistoryEnd'
      BY <1>1, <2>2 DEF HistoryEnd, EndsIn, EndsInCall
    <2>5. PromptPaired'
      <3>1. role # "tool" /\ role # "assistant" => ToolsPaired(prompt) /\ CallsPaired(prompt, Len(prompt))
        BY <1>1, <2>1 DEF PromptPaired
      <3>2. role = "tool" => /\ ToolsPaired(prompt) /\ CallsPaired(prompt, Len(prompt) - 1)
                             /\ EndsIn(prompt, {"call"}) /\ prompt[Len(prompt)].n = m.of
        BY <1>1, <1>4, <2>1 DEF PromptPaired, EndsInCall
      <3>. DEFINE t == Append(prompt, m)
      <3>3. t \in Seq(Message) /\ t # <<>> /\ t[Len(t)] = m
        BY <1>3, <1>4, OneMore
      <3>4. role = "user" => ToolsPaired(t) /\ CallsPaired(t, Len(t))
        BY <1>3, <1>4, <3>1, PairsAppend
      <3>5. role = "call" => ToolsPaired(t) /\ CallsPaired(t, Len(t) - 1)
        BY <1>3, <1>4, <3>1, PairsAppend
      <3>6. role = "tool" => ToolsPaired(t) /\ CallsPaired(t, Len(t))
        BY <1>3, <1>4, <3>2, PairsAppend
      <3>. HIDE DEF t
      <3>7. role # "assistant" => prompt' = t
        BY <1>2 DEF t
      <3>8. CASE role = "call"
        BY <1>1, <1>2, <1>4, <3>3, <3>5, <3>7, <3>8 DEF PromptPaired, EndsInCall, EndsIn, ToolsPaired, CallsPaired
      <3>9. CASE role \in {"user", "tool"}
        BY <1>1, <3>4, <3>6, <3>7, <3>9 DEF PromptPaired, ToolsPaired, CallsPaired
      <3>10. CASE role = "assistant"
        BY <1>1, <3>10 DEF PromptPaired
      <3>. QED
        BY <3>8, <3>9, <3>10
    <2>. QED
      BY <2>3, <2>4, <2>5
  <1>. QED
    BY <1>5, <1>6 DEF PromptInv

\* The prompt is built from the history.
LEMMA PromptBuilt ==
  ASSUME PromptInv, StoreTypes, ReadHistory \/ Rebuild
  PROVE  PromptInv'
  <1>1. /\ prompt' = Sanitize(history) /\ UNCHANGED <<history, count, swallowed>>
        /\ \/ pc = "read" /\ pc' = "user"
           \/ pc = "compress" /\ pc' = "llm"
    BY DEF ReadHistory, Rebuild, Go, session, storeVars
  <1>2. history \in Seq(Message)
    BY DEF StoreTypes
  <1>3. prompt' \in Seq(Message)
    BY <1>1, <1>2, SanitizePairs
  <1>4. ASSUME ~swallowed'
        PROVE  HistoryTidy' /\ HistoryEnd' /\ PromptPaired'
    <2>1. HistoryTidy /\ HistoryEnd
      BY <1>1, <1>4 DEF PromptInv
    <2>2. HistoryTidy' /\ HistoryEnd'
      BY <1>1, <2>1 DEF HistoryTidy, Tidy, HistoryEnd, EndsIn
    <2>. DEFINE p == Sanitize(history)
    <2>3. ToolsPaired(p) /\ CallsPaired(p, Len(p))
      BY <1>2, <2>1, SanitizePairs DEF HistoryTidy
    <2>. HIDE DEF p
    <2>4. prompt' = p
      BY <1>1 DEF p
    <2>5. PromptPaired'
      BY <1>1, <2>3, <2>4 DEF PromptPaired, ToolsPaired, CallsPaired
    <2>. QED
      BY <2>2, <2>5
  <1>. QED
    BY <1>3, <1>4 DEF PromptInv

\* forceCompression reads the history and puts a part of it back.
LEMMA PromptCompress ==
  ASSUME PromptInv, ClearInv, ContextError \/ Replace
  PROVE  PromptInv'
  <1>1. UNCHANGED <<prompt, count, swallowed>>
    BY DEF ContextError, Compression, Replace, session, storeVars
  <1>2. prompt' \in Seq(Message)
    BY <1>1 DEF PromptInv
  <1>3. CASE ContextError
    <2>1. pc = "llm" /\ pc' \in {"compress", "replace"} /\ copy' = history /\ history' = history
      BY <1>3 DEF ContextError, Compression, Go, session, storeVars
    <2>2. ASSUME ~swallowed'
          PROVE  HistoryTidy' /\ HistoryEnd' /\ PromptPaired'
      <3>1. HistoryTidy /\ HistoryEnd
        BY <1>1, <2>2 DEF PromptInv
      <3>. QED
        BY <2>1, <3>1 DEF HistoryTidy, Tidy, HistoryEnd, EndsIn, PromptPaired
    <2>. QED
      BY <1>2, <2>2 DEF PromptInv
  <1>4. CASE Replace
    <2>1. /\ pc = "replace" /\ pc' = "compress"
          /\ history' = <<copy[1]>> \o SubSeq(copy, Mid + 2, Len(copy))
      BY <1>4 DEF Replace, Go
    <2>2. copy \in Seq(Message) /\ Len(copy) > KeepLast /\ KeepLast \in Nat \ {0} /\ Len(copy) \in Nat
      BY <2>1, AgentAssumption, LenProperties DEF ClearInv, HistoryClean, StoreTypes
    <2>3. Mid + 2 \in 2 .. Len(copy)
      BY <2>2 DEF Mid
    <2>4. ASSUME ~swallowed'
          PROVE  HistoryTidy' /\ HistoryEnd' /\ PromptPaired'
      <3>1. Tidy(copy) /\ EndsIn(copy, {"user", "tool"})
        BY <1>1, <2>1, <2>4 DEF PromptInv, HistoryTidy, HistoryEnd
      <3>. DEFINE t == <<copy[1]>> \o SubSeq(copy, Mid + 2, Len(copy))
      <3>2. Tidy(t) /\ t # <<>> /\ t[Len(t)] = copy[Len(copy)]
        BY <2>2, <2>3, <3>1, TidyHeadAndRest
      <3>. HIDE DEF t
      <3>3. history' = t
        BY <2>1 DEF t
      <3>. QED
        BY <2>1, <3>1, <3>2, <3>3 DEF HistoryTidy, Tidy, HistoryEnd, EndsIn, PromptPaired
    <2>. QED
      BY <1>2, <2>4 DEF PromptInv
  <1>. QED
    BY <1>3, <1>4

\* The history is emptied where no LLM call can follow, or cut to its end.
LEMMA PromptCut ==
  ASSUME PromptInv, StoreTypes, Clear \/ SumTruncate
  PROVE  PromptInv'
  <1>1. UNCHANGED <<prompt, count, swallowed>>
    BY DEF Clear, SumTruncate, notSum, turnVars
  <1>2. prompt' \in Seq(Message)
    BY <1>1 DEF PromptInv
  <1>3. CASE Clear
    <2>1. history' = <<>> /\ pc' = "clear2"
      BY <1>3 DEF Clear, Go
    <2>2. HistoryTidy' /\ HistoryEnd' /\ PromptPaired'
      BY <2>1 DEF HistoryTidy, Tidy, HistoryEnd, PromptPaired
    <2>. QED
      BY <1>2, <2>2 DEF PromptInv
  <1>4. CASE SumTruncate
    <2>1. /\ UNCHANGED <<pc, copy>>
          /\ history' = IF Len(history) <= KeepLast THEN history ELSE Newest(history)
      BY <1>4 DEF SumTruncate, notSum, turnVars
    <2>2. history \in Seq(Message) /\ Len(history) \in Nat /\ KeepLast \in Nat \ {0}
      BY AgentAssumption, LenProperties DEF StoreTypes
    <2>3. CASE Len(history) <= KeepLast
      <3>1. UNCHANGED <<history, count, swallowed>> /\ prompt' = prompt /\ copy' = copy /\ pc' = pc
        BY <1>1, <2>1, <2>3
      <3>. QED
        BY <3>1, PromptQuiet
    <2>4. CASE ~(Len(history) <= KeepLast)
      <3>. DEFINE a == Len(history) - KeepLast + 1
                  t == SubSeq(history, a, Len(history))
      <3>1. a \in 1 .. Len(history)
        BY <2>2, <2>4
      <3>2. t # <<>> /\ t[Len(t)] = history[Len(history)] /\ (Tidy(history) => Tidy(t))
        BY <2>2, <3>1, TidySuffix
      <3>3. history' = t
        BY <2>1, <2>4 DEF Newest
      <3>. HIDE DEF t, a
      <3>4. ASSUME ~swallowed'
            PROVE  HistoryTidy' /\ HistoryEnd' /\ PromptPaired'
        <4>1. HistoryTidy /\ HistoryEnd /\ PromptPaired
          BY <1>1, <3>4 DEF PromptInv
        <4>2. HistoryTidy' /\ HistoryEnd'
          BY <1>1, <2>1, <3>2, <3>3, <4>1 DEF HistoryTidy, Tidy, HistoryEnd, EndsIn, EndsInCall
        <4>3. PromptPaired'
          BY <1>1, <2>1, <4>1 DEF PromptPaired, ToolsPaired, CallsPaired, EndsIn, EndsInCall
        <4>. QED
          BY <4>2, <4>3
      <3>. QED
        BY <1>2, <3>4 DEF PromptInv
    <2>. QED
      BY <2>3, <2>4
  <1>. QED
    BY <1>3, <1>4

\* No step spoils the history or the prompt, whatever it overtakes.
LEMMA PromptStep == PromptInv /\ ClearInv /\ [Next]_vars => PromptInv'
  <1>. SUFFICES ASSUME PromptInv, ClearInv, [Next]_vars PROVE PromptInv'
    OBVIOUS
  <1>0. StoreTypes
    BY DEF ClearInv
  <1>1. CASE Consume \/ Reset \/ LlmFails \/ MaybeSummarize \/ SendResponse \/ Respond
             \/ Finish \/ ClearSummary \/ Crash
    <2>1. /\ UNCHANGED <<history, count, swallowed>>
          /\ prompt' \in {prompt, <<>>}
          /\ pc' \notin {"user", "llm", "compress", "replace", "tool", "result"}
      BY <1>1 DEF Consume, Reset, LlmFails, MaybeSummarize, SendResponse, Respond, Finish,
         ClearSummary, Cleared, Crash, Go, session, storeVars
    <2>. QED
      BY <2>1, PromptQuiet
  <1>2. CASE RunTool \/ OtherTurn \/ Reload \/ UNCHANGED vars \/ SumReadHistory \/ SumReadSummary \/ SumWrite \/ SumBlank
    <2>1. UNCHANGED <<history, count, swallowed>> /\ prompt' = prompt /\ copy' = copy
      BY <1>2 DEF RunTool, OtherTurn, Reload, vars, SumReadHistory, SumReadSummary, SumWrite, SumBlank,
         session, storeVars, turnVars, notSum
    <2>2. pc' = pc \/ (pc = "tool" /\ pc' = "result")
      BY <1>2 DEF RunTool, OtherTurn, Reload, vars, SumReadHistory, SumReadSummary, SumWrite, SumBlank,
         Go, turnVars, notSum
    <2>. QED
      BY <2>1, <2>2, PromptQuiet
  <1>3. CASE AddUser \/ AddCall \/ AddResult \/ AddAnswer
    BY <1>0, <1>3, PromptAdd
  <1>4. CASE ReadHistory \/ Rebuild
    BY <1>0, <1>4, PromptBuilt
  <1>5. CASE ContextError \/ Replace
    BY <1>5, PromptCompress
  <1>6. CASE Clear \/ SumTruncate
    BY <1>0, <1>6, PromptCut
  <1>. QED
    BY <1>1, <1>2, <1>3, <1>4, <1>5, <1>6 DEF Next, Turn, Summarizer

\* Whatever truncations, compressions and crashes cut off, the prompt of an
\* LLM call pairs each result with its call and each call with its result.
THEOREM PromptAlwaysPaired == Spec => []PromptWellFormed
  <1>1. PromptInv => PromptWellFormed
    <2>. SUFFICES ASSUME PromptInv, pc = "llm", ~swallowed, NEW i \in DOMAIN prompt
                  PROVE  /\ prompt[i].role = "tool" =>
                              i > 1 /\ prompt[i - 1].role = "call" /\ prompt[i - 1].n = prompt[i].of
                         /\ prompt[i].role = "call" =>
                              i < Len(prompt) /\ prompt[i + 1].role = "tool" /\ prompt[i + 1].of = prompt[i].n
      BY DEF PromptWellFormed
    <2>1. ToolsPaired(prompt) /\ CallsPaired(prompt, Len(prompt)) /\ prompt \in Seq(Message)
      BY DEF PromptInv, PromptPaired
    <2>2. i <= Len(prompt)
      BY <2>1, LenProperties
    <2>. QED
      BY <2>1, <2>2 DEF ToolsPaired, CallsPaired
  <1>. QED
    BY <1>1, PromptInit, PromptStep, ClearInit, ClearInvStep, PTL DEF Spec

----------------------------------------------------------------------------
(* What is forgotten                                                       *)

\* The messages of s are numbered in the order in which they were added.
Rising(s) == \A i, j \in DOMAIN s : i < j => s[i].n < s[j].n

\* Of two sequences that both rise, where what only h has is newer than all
\* that g has: of h's messages but the last few, no more than h has of its own
\* are missing from g but its last few.
LEMMA FewForgotten ==
  ASSUME NEW h \in Seq(Message), NEW g \in Seq(Message), Rising(h), Rising(g),
         NEW new, new = Numbers(h) \ Numbers(g), IsFiniteSet(new),
         \A n \in new : \A k \in Numbers(g) : k < n,
         NEW B \in SUBSET (1 .. Len(h) - KeepLast),
         \A i \in B : \A j \in DOMAIN g : h[i].n = g[j].n => j > Len(g) - KeepLast
  PROVE  IsFiniteSet(B) /\ Cardinality(B) <= Cardinality(new)
  <1>. DEFINE N == Len(h)
              L == Len(g)
              K == KeepLast
  <1>1. /\ N \in Nat /\ DOMAIN h = 1 .. N /\ \A i \in 1 .. N : h[i].n \in Int
        /\ L \in Nat /\ DOMAIN g = 1 .. L /\ \A j \in 1 .. L : g[j].n \in Int
        /\ K \in Nat \ {0}
    <2>1. /\ N \in Nat /\ DOMAIN h = 1 .. N /\ \A i \in 1 .. N : h[i] \in Message
          /\ L \in Nat /\ DOMAIN g = 1 .. L /\ \A j \in 1 .. L : g[j] \in Message
      BY LenProperties, ElementOfSeq
    <2>2. \A m \in Message : m.n \in Int
      BY AgentAssumption DEF Message, Number
    <2>. QED
      BY <2>1, <2>2, AgentAssumption
  <1>2. Cardinality(new) \in Nat
    BY FS_CardinalityType
  <1>3. B # {} => \E x \in B : \A y \in B : ~(y < x)
    BY <1>1, LeastElement
  <1>4. CASE B = {}
    BY <1>2, <1>4, FS_EmptySet
  <1>5. CASE B # {}
    <2>1. PICK i0 \in B : \A y \in B : ~(y < i0)
      BY <1>3, <1>5
    <2>. DEFINE A == i0 .. N
                J == L - K + 1 .. L
                last == {g[j].n : j \in J \cap DOMAIN g}
    <2>2. i0 \in 1 .. N /\ i0 <= N - K /\ A \subseteq DOMAIN h /\ B \subseteq i0 .. N - K
      BY <1>1, <2>1
    <2>3. ASSUME NEW i \in A, NEW j \in DOMAIN g, h[i].n = g[j].n
          PROVE  j \in J
      <3>1. CASE i = i0
        BY <1>1, <2>1, <2>3, <3>1
      <3>2. CASE i # i0
        <4>1. h[i0].n < h[i].n /\ h[i0].n \in Int /\ h[i].n \in Int
          <5>1. i0 \in DOMAIN h /\ i \in DOMAIN h /\ i0 < i
            BY <1>1, <2>2, <3>2
          <5>. QED
            BY <1>1, <5>1 DEF Rising
        <4>2. h[i0].n \in Numbers(h) /\ g[j].n \in Numbers(g)
          BY <1>1, <2>2 DEF Numbers
        <4>3. h[i0].n \in Numbers(g)
          BY <2>3, <4>1, <4>2
        <4>4. PICK j0 \in DOMAIN g : h[i0].n = g[j0].n
          BY <4>3 DEF Numbers
        <4>5. j0 > L - K
          BY <2>1, <4>4
        <4>6. ~(j < j0)
          BY <1>1, <2>3, <4>1, <4>4 DEF Rising
        <4>. QED
          BY <1>1, <4>5, <4>6
      <3>. QED
        BY <3>1, <3>2
    <2>4. IsFiniteSet(J \cap DOMAIN g) /\ Cardinality(J \cap DOMAIN g) <= K
          /\ Cardinality(J \cap DOMAIN g) \in Nat
      <3>1. IsFiniteSet(J) /\ Cardinality(J) = K
        <4>1. L - K + 1 \in Int /\ L \in Int /\ ~(L - K + 1 > L) /\ L - (L - K + 1) + 1 = K
          BY <1>1
        <4>. QED
          BY <4>1, FS_Interval
      <3>. QED
        BY <1>1, <3>1, FS_Subset, FS_CardinalityType
    <2>5. IsFiniteSet(last) /\ Cardinality(last) <= K /\ Cardinality(last) \in Nat
      <3>. DEFINE D == J \cap DOMAIN g
                  f == [j \in D |-> g[j].n]
      <3>1. f \in Surjection(D, last)
        BY DEF Surjection, Range
      <3>. HIDE DEF f, D, last, J
      <3>2. IsFiniteSet(last) /\ Cardinality(last) <= Cardinality(D)
        BY <2>4, <3>1, FS_Surjection DEF D
      <3>3. Cardinality(last) \in Nat
        BY <3>2, FS_CardinalityType
      <3>. QED
        BY <1>1, <2>4, <3>2, <3>3 DEF D
    <2>6. IsFiniteSet(new \cup last) /\ Cardinality(new \cup last) <= Cardinality(new) + K
          /\ Cardinality(new \cup last) \in Nat
      <3>. HIDE DEF last
      <3>1. /\ IsFiniteSet(new \cup last)
            /\ Cardinality(new \cup last) = Cardinality(new) + Cardinality(last) - Cardinality(new \cap last)
        BY <2>5, FS_Union
      <3>2. Cardinality(new \cap last) \in Nat /\ Cardinality(new \cup last) \in Nat
        BY <2>5, <3>1, FS_Subset, FS_CardinalityType
      <3>. QED
        BY <1>1, <1>2, <2>5, <3>1, <3>2
    <2>7. Cardinality(A) <= Cardinality(new \cup last)
      <3>. DEFINE f == [i \in A |-> h[i].n]
      <3>1. \A i \in A : f[i] \in new \cup last
        <4>. SUFFICES ASSUME NEW i \in A, h[i].n \notin new PROVE h[i].n \in last
          OBVIOUS
        <4>1. h[i].n \in Numbers(g)
          BY <2>2 DEF Numbers
        <4>2. PICK j \in DOMAIN g : h[i].n = g[j].n
          BY <4>1 DEF Numbers
        <4>. QED
          BY <2>3, <4>2
      <3>2. ASSUME NEW a \in A, NEW b \in A, h[a].n = h[b].n
            PROVE  a = b
        <4>1. a \in DOMAIN h /\ b \in DOMAIN h /\ a \in Int /\ b \in Int /\ h[a].n \in Int
          BY <1>1, <2>2
        <4>2. ~(a < b) /\ ~(b < a)
          BY <3>2, <4>1 DEF Rising
        <4>. QED
          BY <4>1, <4>2
      <3>3. f \in Injection(A, new \cup last)
        BY <3>1, <3>2 DEF Injection, IsInjective
      <3>. HIDE DEF f, A, last
      <3>. QED
        BY <2>6, <3>3, FS_Injection
    <2>8. Cardinality(A) = N - i0 + 1
      BY <1>1, <2>2, FS_Interval
    <2>9. IsFiniteSet(i0 .. N - K) /\ Cardinality(i0 .. N - K) = N - K - i0 + 1
      <3>1. i0 \in Int /\ N - K \in Int /\ ~(i0 > N - K)
        BY <1>1, <2>2
      <3>. QED
        BY <3>1, FS_Interval
    <2>10. IsFiniteSet(B) /\ Cardinality(B) <= N - K - i0 + 1 /\ Cardinality(B) \in Nat
      <3>. DEFINE R == i0 .. N - K
      <3>1. B \in SUBSET R
        BY <2>2
      <3>. HIDE DEF R
      <3>2. IsFiniteSet(B) /\ Cardinality(B) <= Cardinality(R)
        BY <2>9, <3>1, FS_Subset DEF R
      <3>. QED
        BY <2>9, <3>2, FS_CardinalityType DEF R
    <2>. HIDE DEF A, last, J
    <2>. QED
      BY <1>1, <1>2, <2>2, <2>6, <2>7, <2>8, <2>10
  <1>. QED
    BY <1>4, <1>5

\* What is forgotten: the set of LossBounded.
Lost == {m \in said : m.role # "tool" /\ m.n \notin Numbers(history) \cup summary \cup excused}

\* What was said: each message has a number of its own.
SaidInv ==
  /\ said \subseteq Message /\ IsFiniteSet(said)
  /\ \A m \in said : m.n <= count
  /\ \A m1, m2 \in said : m1.n = m2.n => m1 = m2

\* All of s is among all, in the order of the numbers.
Sound(s, all) == ToSet(s) \subseteq all /\ Rising(s)

\* Forgetting lost and then what h has beyond g is at most l messages, and all
\* of that is newer than what g has.
Room(h, g, lost, l) ==
  /\ Cardinality(lost) + Cardinality(Numbers(h) \ Numbers(g)) <= l
  /\ \A n \in Numbers(h) \ Numbers(g) : \A k \in Numbers(g) : k < n

\* A summarizer has read the history: may h then still be truncated?
Working  == sum \in {"old", "ask", "cut"}
Ahead(h) == Working => Room(h, sumHist, Lost, late)

\* Before the truncation the summary has been told.
Written == sum = "cut" => {sumHist[i].n : i \in Summarizable} \subseteq summary \cup excused

LossInv ==
  /\ SaidInv
  /\ Sound(history, said) /\ Sound(sumHist, said)
  /\ pc = "replace" => /\ Sound(copy, said) /\ Ahead(copy)
                       /\ Numbers(history) \subseteq Numbers(copy)
                       /\ sum = "ready" => history = copy
  /\ late \in Nat /\ Cardinality(Lost) <= late
  /\ Ahead(history) /\ Written

\* A part of a finite set.
LEMMA Fewer ==
  ASSUME NEW S, IsFiniteSet(S), NEW T, T \subseteq S
  PROVE  /\ IsFiniteSet(T) /\ Cardinality(T) <= Cardinality(S)
         /\ Cardinality(T) \in Nat /\ Cardinality(S) \in Nat
  BY FS_Subset, FS_CardinalityType

\* A sequence has finitely many numbers.
LEMMA NumbersFinite ==
  ASSUME NEW s \in Seq(Message)
  PROVE  IsFiniteSet(Numbers(s)) /\ Numbers(s) \subseteq Int
  <1>. DEFINE f == [i \in DOMAIN s |-> s[i].n]
  <1>1. IsFiniteSet(DOMAIN s)
    <2>1. DOMAIN s = 1 .. Len(s) /\ Len(s) \in Int
      BY LenProperties
    <2>. QED
      BY <2>1, FS_Interval
  <1>2. f \in Surjection(DOMAIN s, Numbers(s))
    BY DEF Surjection, Numbers
  <1>. HIDE DEF f
  <1>3. IsFiniteSet(Numbers(s))
    BY <1>1, <1>2, FS_Surjection
  <1>4. \A m \in Message : m.n \in Int
    BY AgentAssumption DEF Message, Number
  <1>5. Numbers(s) \subseteq Int
    BY <1>4, ElementOfSeq, LenProperties DEF Numbers
  <1>. QED
    BY <1>3, <1>5

\* Its numbers are numbers of messages.
LEMMA NumbersTyped ==
  ASSUME NEW s \in Seq(Message)
  PROVE  Numbers(s) \subseteq Number
  <1>1. \A m \in Message : m.n \in Number
    BY DEF Message
  <1>. QED
    BY <1>1, ElementOfSeq, LenProperties DEF Numbers

\* There is as much room when less is lost and h has less.
LEMMA RoomKept ==
  ASSUME NEW h, NEW h2, NEW g, NEW lost, NEW lost2, NEW l \in Nat, IsFiniteSet(lost),
         lost2 \subseteq lost, h \in Seq(Message), Numbers(h2) \subseteq Numbers(h), Room(h, g, lost, l)
  PROVE  Room(h2, g, lost2, l)
  <1>. DEFINE a == Numbers(h) \ Numbers(g)
              b == Numbers(h2) \ Numbers(g)
  <1>1. IsFiniteSet(a) /\ b \subseteq a
    BY NumbersFinite, Fewer
  <1>2. Cardinality(b) <= Cardinality(a) /\ Cardinality(b) \in Nat /\ Cardinality(a) \in Nat
    BY <1>1, Fewer
  <1>3. Cardinality(lost2) <= Cardinality(lost) /\ Cardinality(lost2) \in Nat /\ Cardinality(lost) \in Nat
    BY Fewer
  <1>4. Cardinality(lost2) + Cardinality(b) <= l
    BY <1>2, <1>3 DEF Room
  <1>. QED
    BY <1>1, <1>4 DEF Room

\* The numbers of what was said are at most the count.
LEMMA SoundNumbers ==
  ASSUME SaidInv, NEW s, Sound(s, said)
  PROVE  \A k \in Numbers(s) : k <= count
  BY DEF Numbers, Sound, ToSet, SaidInv

\* The empty history is sound.
LEMMA SoundEmpty == \A all : Sound(<<>>, all) /\ Numbers(<<>>) = {}
  BY EmptySeq DEF Sound, Rising, ToSet, Numbers

\* Before the first message nothing is forgotten.
LEMMA LossInit == Init => LossInv
  <1>. SUFFICES ASSUME Init PROVE LossInv
    OBVIOUS
  <1>1. SaidInv
    BY FS_EmptySet DEF Init, SaidInv
  <1>2. Cardinality(Lost) <= late /\ late \in Nat
    <2>1. Lost = {}
      BY DEF Lost, Init
    <2>. QED
      BY <2>1, FS_EmptySet DEF Init
  <1>. QED
    BY <1>1, <1>2, SoundEmpty DEF Init, LossInv, Ahead, Working, Written

\* While no message is added or removed, more is excused or told and the
\* summarizer reads no history, no more is forgotten.
LEMMA LossQuiet ==
  ASSUME LossInv, StoreTypes, UNCHANGED <<history, said, count, late>>,
         summary \cup excused \subseteq summary' \cup excused',
         pc' = "replace" => pc = "replace" /\ copy' = copy /\ (sum' = "ready" => sum = "ready"),
         sumHist' \in {sumHist, <<>>}, Working' => Working /\ sumHist' = sumHist, Written'
  PROVE  LossInv'
  <1>. USE DEF LossInv
  <1>1. SaidInv' /\ IsFiniteSet(said)
    BY DEF SaidInv
  <1>2. Sound(history, said)' /\ Sound(sumHist, said)'
    BY SoundEmpty
  <1>3. Lost' \subseteq Lost /\ IsFiniteSet(Lost)
    BY <1>1, Fewer DEF Lost
  <1>4. Cardinality(Lost') <= Cardinality(Lost) /\ Cardinality(Lost') \in Nat /\ Cardinality(Lost) \in Nat
    BY <1>3, Fewer
  <1>5. Ahead(history)'
    <2>. SUFFICES ASSUME Working' PROVE Room(history', sumHist', Lost', late')
      BY DEF Ahead
    <2>1. Room(history, sumHist, Lost, late)
      BY DEF Ahead
    <2>2. Room(history, sumHist, Lost', late)
      BY <1>3, <2>1, RoomKept DEF StoreTypes
    <2>. QED
      BY <2>2
  <1>6. ASSUME pc' = "replace"
        PROVE  /\ Sound(copy, said)' /\ Ahead(copy)'
               /\ Numbers(history') \subseteq Numbers(copy')
               /\ sum' = "ready" => history' = copy'
    <2>1. Sound(copy, said)' /\ Numbers(history') \subseteq Numbers(copy') /\ (sum' = "ready" => history' = copy')
      BY <1>6
    <2>2. ASSUME Working' PROVE Room(copy', sumHist', Lost', late')
      <3>1. Room(copy, sumHist, Lost, late)
        BY <1>6, <2>2 DEF Ahead
      <3>2. Room(copy, sumHist, Lost', late)
        BY <1>3, <3>1, RoomKept DEF StoreTypes
      <3>. QED
        BY <1>6, <2>2, <3>2
    <2>. QED
      BY <2>1, <2>2 DEF Ahead
  <1>. QED
    BY <1>1, <1>2, <1>4, <1>5, <1>6

\* An appended message, the newest, keeps the order.
LEMMA SoundAppend ==
  ASSUME NEW s \in Seq(Message), NEW m \in Message, NEW all, Sound(s, all),
         \A k \in Numbers(s) : k < m.n
  PROVE  Sound(Append(s, m), all \cup {m})
  <1>. DEFINE t == Append(s, m)
  <1>1. /\ Len(s) \in Nat /\ DOMAIN s = 1 .. Len(s) /\ DOMAIN t = 1 .. Len(s) + 1
        /\ t[Len(s) + 1] = m /\ \A i \in 1 .. Len(s) : t[i] = s[i]
    BY OneMore, LenProperties
  <1>. HIDE DEF t
  <1>2. ToSet(t) \subseteq all \cup {m}
    <2>1. \A i \in 1 .. Len(s) : s[i] \in all
      BY <1>1 DEF Sound, ToSet
    <2>2. \A i \in DOMAIN t : i \in 1 .. Len(s) \/ i = Len(s) + 1
      BY <1>1
    <2>3. \A i \in DOMAIN t : t[i] \in all \cup {m}
      BY <1>1, <2>1, <2>2
    <2>. QED
      BY <2>3 DEF ToSet
  <1>3. ASSUME NEW i \in DOMAIN t, NEW j \in DOMAIN t, i < j
        PROVE  t[i].n < t[j].n
    <2>1. i \in 1 .. Len(s) /\ t[i] = s[i] /\ i \in DOMAIN s
      BY <1>1, <1>3
    <2>2. CASE j \in 1 .. Len(s)
      BY <1>1, <1>3, <2>1, <2>2 DEF Sound, Rising
    <2>3. CASE j = Len(s) + 1
      BY <1>1, <2>1, <2>3 DEF Numbers
    <2>. QED
      BY <1>1, <2>2, <2>3
  <1>. QED
    BY <1>2, <1>3 DEF Sound, Rising, t

\* A message is added, or its append fails and it is excused; while a
\* summarizer works, there is room for one more.
LEMMA LossAdd ==
  ASSUME LossInv, StoreTypes, AddUser \/ AddCall \/ AddResult \/ AddAnswer
  PROVE  LossInv'
  <1>. USE DEF LossInv
  <1>1. PICK role \in {"user", "call", "tool", "assistant"}, of \in {0, count} :
          Add(role, of) /\ pc' # "replace"
    BY DEF AddUser, AddCall, AddResult, AddAnswer, Go
  <1>. DEFINE m == [n |-> count + 1, role |-> role, of |-> of]
  <1>2. /\ count < MaxMessages /\ count' = count + 1 /\ said' = said \cup {m}
        /\ late' = IF Working THEN late + 1 ELSE late
        /\ \/ history' = Append(history, m) /\ excused' = excused
           \/ history' = history /\ excused' = excused \cup {m.n}
        /\ UNCHANGED <<summary, sum, sumHist, sumOld>>
    BY <1>1 DEF Add, sumVars, Working
  <1>3. count \in Nat /\ MaxMessages \in Nat /\ late \in Nat
    BY AgentAssumption DEF StoreTypes
  <1>4. m \in Message /\ m.n = count + 1
    BY <1>1, <1>2, <1>3 DEF Message, Number, StoreTypes
  <1>. HIDE DEF m
  <1>5. IsFiniteSet(said) /\ \A a \in said : a.n \in Int
    <2>1. \A a \in Message : a.n \in Int
      BY AgentAssumption DEF Message, Number
    <2>. QED
      BY <2>1 DEF SaidInv
  <1>6. SaidInv'
    <2>1. said' \subseteq Message /\ IsFiniteSet(said')
      BY <1>2, <1>4, <1>5, FS_AddElement DEF SaidInv
    <2>2. \A a \in said : a.n <= count
      BY DEF SaidInv
    <2>3. \A a \in said' : a.n <= count'
      BY <1>2, <1>3, <1>4, <1>5, <2>2
    <2>4. \A a \in said : a.n # m.n
      BY <1>3, <1>4, <1>5, <2>2
    <2>5. \A a, b \in said' : a.n = b.n => a = b
      BY <1>2, <2>4 DEF SaidInv
    <2>. QED
      BY <2>1, <2>3, <2>5 DEF SaidInv
  <1>7. \A s : Sound(s, said) /\ s \in Seq(Message) => \A k \in Numbers(s) : k < m.n
    <2>. SUFFICES ASSUME NEW s \in Seq(Message), Sound(s, said), NEW k \in Numbers(s) PROVE k < m.n
      OBVIOUS
    <2>1. k <= count /\ k \in Int
      BY SoundNumbers, NumbersFinite
    <2>. QED
      BY <1>3, <1>4, <2>1
  <1>8. Sound(history, said)' /\ Sound(sumHist, said)'
    <2>1. Sound(history, said') /\ Sound(sumHist, said')
      BY <1>2 DEF Sound
    <2>2. Sound(Append(history, m), said')
      BY <1>2, <1>4, <1>7, SoundAppend DEF StoreTypes
    <2>. QED
      BY <1>2, <2>1, <2>2
  <1>9. Numbers(history) \subseteq Numbers(history') /\ Numbers(history') \subseteq Numbers(history) \cup {m.n}
        /\ m.n \in Numbers(history') \cup excused'
    <2>1. Numbers(Append(history, m)) = Numbers(history) \cup {m.n}
      BY <1>4, AppendNumbers DEF StoreTypes
    <2>2. CASE history' = Append(history, m) /\ excused' = excused
      BY <2>1, <2>2, Zenon
    <2>3. CASE history' = history /\ excused' = excused \cup {m.n}
      BY <2>3
    <2>. QED
      BY <1>2, <2>2, <2>3
  <1>10. Lost' \subseteq Lost /\ IsFiniteSet(Lost)
    <2>1. IsFiniteSet(Lost)
      BY <1>5, Fewer DEF Lost
    <2>2. excused \subseteq excused' /\ summary' = summary
      BY <1>2
    <2>3. \A a \in Lost' : a \in said /\ a.role # "tool" /\ a.n \notin Numbers(history) \cup summary \cup excused
      BY <1>2, <1>9, <2>2 DEF Lost
    <2>. QED
      BY <2>1, <2>3 DEF Lost
  <1>11. Cardinality(Lost') <= Cardinality(Lost) /\ Cardinality(Lost') \in Nat /\ Cardinality(Lost) \in Nat
    BY <1>10, Fewer
  <1>12. late' \in Nat /\ Cardinality(Lost') <= late'
    BY <1>2, <1>3, <1>11
  <1>13. ASSUME Working'
         PROVE  Room(history', sumHist', Lost', late')
    <2>. DEFINE a == Numbers(history) \ Numbers(sumHist)
                b == Numbers(history') \ Numbers(sumHist)
    <2>1. Working /\ late' = late + 1
      BY <1>2, <1>13 DEF Working
    <2>2. Room(history, sumHist, Lost, late)
      BY <2>1 DEF Ahead
    <2>3. IsFiniteSet(a)
      BY NumbersFinite, Fewer DEF StoreTypes
    <2>4. b \subseteq a \cup {m.n}
      BY <1>9
    <2>5. \A n \in b : \A k \in Numbers(sumHist) : k < n
      BY <1>7, <2>2, <2>4 DEF Room, StoreTypes
    <2>. HIDE DEF b
    <2>6. IsFiniteSet(a \cup {m.n}) /\ Cardinality(a \cup {m.n}) <= Cardinality(a) + 1 /\ Cardinality(a) \in Nat
      <3>1. Cardinality(a) \in Nat
        BY <2>3, FS_CardinalityType
      <3>. HIDE DEF a
      <3>. QED
        BY <2>3, <3>1, FS_AddElement
    <2>7. Cardinality(b) <= Cardinality(a \cup {m.n}) /\ Cardinality(b) \in Nat /\ Cardinality(a \cup {m.n}) \in Nat
      BY <2>4, <2>6, Fewer
    <2>8. Cardinality(Lost) + Cardinality(a) <= late
      BY <2>2 DEF Room
    <2>. HIDE DEF a
    <2>9. Cardinality(Lost') + Cardinality(b) <= late'
      BY <1>3, <1>11, <2>1, <2>6, <2>7, <2>8
    <2>. QED
      BY <1>2, <2>5, <2>9 DEF Room, b
  <1>14. Written'
    BY <1>2 DEF Written, Summarizable, Older
  <1>. QED
    BY <1>1, <1>6, <1>8, <1>12, <1>13, <1>14 DEF Ahead

\* A truncation keeps the order, and all but the first messages.
LEMMA SoundSuffix ==
  ASSUME NEW h \in Seq(Message), NEW all, Sound(h, all), NEW a \in 1 .. Len(h)
  PROVE  LET t == SubSeq(h, a, Len(h)) IN
         Sound(t, all) /\ \A i \in a .. Len(h) : h[i].n \in Numbers(t)
  <1>. DEFINE t == SubSeq(h, a, Len(h))
  <1>1. Len(h) \in Nat /\ DOMAIN h = 1 .. Len(h)
    BY LenProperties
  <1>2. /\ t \in Seq(Message) /\ Len(t) = Len(h) - a + 1
        /\ \A i \in 1 .. Len(h) - a + 1 : t[i] = h[a + i - 1]
    BY <1>1, SubSeqProperties
  <1>3. DOMAIN t = 1 .. Len(h) - a + 1
    BY <1>2, LenProperties
  <1>. HIDE DEF t
  <1>4. \A i \in DOMAIN t : t[i] = h[a + i - 1] /\ a + i - 1 \in DOMAIN h
    BY <1>1, <1>2, <1>3
  <1>5. ToSet(t) \subseteq all
    BY <1>4 DEF Sound, ToSet
  <1>6. ASSUME NEW i \in DOMAIN t, NEW j \in DOMAIN t, i < j
        PROVE  t[i].n < t[j].n
    <2>1. a + i - 1 < a + j - 1
      BY <1>1, <1>3, <1>6
    <2>2. h[a + i - 1].n < h[a + j - 1].n
      BY <1>4, <2>1 DEF Sound, Rising
    <2>. QED
      BY <1>4, <2>2
  <1>7. ASSUME NEW i \in a .. Len(h)
        PROVE  h[i].n \in Numbers(t)
    <2>1. i - a + 1 \in DOMAIN t /\ a + (i - a + 1) - 1 = i
      BY <1>1, <1>3
    <2>2. t[i - a + 1] = h[i]
      BY <1>4, <2>1
    <2>. QED
      BY <2>1, <2>2 DEF Numbers
  <1>. QED
    BY <1>5, <1>6, <1>7 DEF Sound, Rising, t

\* A compression keeps the order, and all but the messages it drops.
LEMMA SoundHeadAndRest ==
  ASSUME NEW h \in Seq(Message), NEW all, Sound(h, all), NEW a \in 2 .. Len(h)
  PROVE  LET t == <<h[1]>> \o SubSeq(h, a, Len(h)) IN
         /\ Sound(t, all)
         /\ Numbers(h) \subseteq Numbers(t) \cup Numbers(SubSeq(h, 2, a - 1))
  <1>. DEFINE r == SubSeq(h, a, Len(h))
              t == <<h[1]>> \o r
              d == SubSeq(h, 2, a - 1)
  <1>1. Len(h) \in Nat /\ DOMAIN h = 1 .. Len(h) /\ h[1] \in Message
    BY LenProperties, ElementOfSeq
  <1>2. /\ r \in Seq(Message) /\ Len(r) = Len(h) - a + 1
        /\ \A i \in 1 .. Len(h) - a + 1 : r[i] = h[a + i - 1]
    BY <1>1, SubSeqProperties
  <1>3. <<h[1]>> \in Seq(Message) /\ Len(<<h[1]>>) = 1
    BY <1>1
  <1>4. /\ t \in Seq(Message) /\ Len(t) = 1 + Len(r)
        /\ \A i \in 1 .. 1 + Len(r) : t[i] = IF i <= 1 THEN <<h[1]>>[i] ELSE r[i - 1]
    BY <1>2, <1>3, ConcatProperties, Z3
  <1>5. DOMAIN t = 1 .. Len(h) - a + 2
    BY <1>1, <1>2, <1>4, LenProperties
  <1>6. \A i \in 1 .. a - 2 : i \in DOMAIN d /\ d[i] = h[i + 1]
    <2>1. d \in Seq(Message) /\ Len(d) = a - 2 /\ \A i \in 1 .. a - 2 : d[i] = h[2 + i - 1]
      BY <1>1, SubSeqProperties
    <2>2. \A i \in 1 .. a - 2 : 2 + i - 1 = i + 1
      BY <1>1
    <2>. QED
      BY <2>1, <2>2, LenProperties
  <1>. HIDE DEF t, r, d
  <1>7. 1 \in DOMAIN t /\ t[1] = h[1]
    BY <1>1, <1>2, <1>4, <1>5
  <1>8. ASSUME NEW i \in DOMAIN t, i > 1
        PROVE  t[i] = h[a + i - 2] /\ a + i - 2 \in DOMAIN h /\ a + i - 2 > 1
    <2>1. /\ i - 1 \in 1 .. Len(h) - a + 1 /\ a + (i - 1) - 1 = a + i - 2
          /\ i \in 1 .. 1 + Len(r) /\ ~(i <= 1) /\ a + i - 2 \in DOMAIN h /\ a + i - 2 > 1
      BY <1>1, <1>2, <1>5, <1>8
    <2>2. t[i] = r[i - 1] /\ r[i - 1] = h[a + (i - 1) - 1]
      BY <1>2, <1>4, <2>1
    <2>. QED
      BY <2>1, <2>2
  <1>9. ToSet(t) \subseteq all
    <2>1. \A i \in DOMAIN t : i = 1 \/ i > 1
      BY <1>5
    <2>2. \A i \in DOMAIN t : t[i] \in ToSet(h)
      BY <1>1, <1>7, <1>8, <2>1 DEF ToSet
    <2>. QED
      BY <2>2 DEF Sound, ToSet
  <1>10. ASSUME NEW i \in DOMAIN t, NEW j \in DOMAIN t, i < j
         PROVE  t[i].n < t[j].n
    <2>1. j > 1 /\ (i = 1 \/ i > 1) /\ a + i - 2 < a + j - 2
      BY <1>1, <1>5, <1>10
    <2>2. t[j] = h[a + j - 2] /\ a + j - 2 \in DOMAIN h /\ a + j - 2 > 1
      BY <1>8, <2>1
    <2>3. CASE i = 1
      <3>1. 1 \in DOMAIN h /\ t[i] = h[1]
        BY <1>1, <1>7, <2>3
      <3>2. h[1].n < h[a + j - 2].n
        BY <2>2, <3>1 DEF Sound, Rising
      <3>. QED
        BY <2>2, <3>1, <3>2
    <2>4. CASE i > 1
      <3>1. t[i] = h[a + i - 2] /\ a + i - 2 \in DOMAIN h
        BY <1>8, <2>4
      <3>2. h[a + i - 2].n < h[a + j - 2].n
        BY <2>1, <2>2, <3>1 DEF Sound, Rising
      <3>. QED
        BY <2>2, <3>1, <3>2
    <2>. QED
      BY <2>1, <2>3, <2>4
  <1>11. ASSUME NEW i \in DOMAIN h
         PROVE  h[i].n \in Numbers(t) \cup Numbers(d)
    <2>1. CASE i = 1
      BY <1>7, <2>1 DEF Numbers
    <2>2. CASE i \in 2 .. a - 1
      <3>1. i - 1 \in 1 .. a - 2 /\ i - 1 + 1 = i
        BY <1>1, <2>2
      <3>2. i - 1 \in DOMAIN d /\ d[i - 1] = h[i]
        BY <1>6, <3>1
      <3>. QED
        BY <3>2 DEF Numbers
    <2>3. CASE i >= a
      <3>1. i - a + 2 \in DOMAIN t /\ i - a + 2 > 1 /\ a + (i - a + 2) - 2 = i
        BY <1>1, <1>5, <2>3
      <3>2. t[i - a + 2] = h[a + (i - a + 2) - 2]
        BY <1>8, <3>1
      <3>3. t[i - a + 2] = h[i]
        BY <3>1, <3>2
      <3>. QED
        BY <3>1, <3>3 DEF Numbers
    <2>. QED
      BY <1>1, <2>1, <2>2, <2>3
  <1>12. Sound(t, all)
    BY <1>9, <1>10 DEF Sound, Rising
  <1>13. Numbers(h) \subseteq Numbers(t) \cup Numbers(d)
    BY <1>11 DEF Numbers
  <1>. QED
    BY <1>12, <1>13 DEF t, r, d

\* What stays said, in or out of the history, is not lost.
LEMMA LostShrinks ==
  ASSUME SaidInv, said' = said,
         Numbers(history) \cup summary \cup excused \subseteq Numbers(history') \cup summary' \cup excused'
  PROVE  /\ Lost' \subseteq Lost /\ IsFiniteSet(Lost)
         /\ Cardinality(Lost') <= Cardinality(Lost)
         /\ Cardinality(Lost') \in Nat /\ Cardinality(Lost) \in Nat
  <1>1. Lost' \subseteq Lost
    BY DEF Lost, Numbers
  <1>2. IsFiniteSet(Lost)
    BY Fewer DEF Lost, SaidInv
  <1>. QED
    BY <1>1, <1>2, Fewer

\* forceCompression reads the history, and excuses what it drops of it.
LEMMA LossCompress ==
  ASSUME LossInv, ClearInv, ContextError \/ Replace
  PROVE  LossInv'
  <1>. USE DEF LossInv
  <1>0. StoreTypes /\ HistoryClean /\ KeepLast \in Nat \ {0}
    BY AgentAssumption DEF ClearInv
  <1>1. CASE ContextError
    <2>1. /\ copy' = history /\ UNCHANGED <<history, summary, sum, sumHist, sumOld, count, said, late, excused>>
      BY <1>1 DEF ContextError, Compression, session, storeVars, sumVars
    <2>2. Lost' = Lost /\ SaidInv'
      BY <2>1 DEF Lost, SaidInv, Numbers
    <2>3. Ahead(history)' /\ Written'
      BY <2>1, <2>2 DEF Ahead, Working, Written, Summarizable, Older
    <2>4. Ahead(copy)'
      BY <2>1, <2>3 DEF Ahead
    <2>. QED
      BY <2>1, <2>2, <2>3, <2>4
  <1>2. CASE Replace
    <2>1. /\ pc = "replace" /\ pc' = "compress"
          /\ history' = <<copy[1]>> \o SubSeq(copy, Mid + 2, Len(copy))
          /\ excused' = excused \cup Numbers(SubSeq(copy, 2, Mid + 1))
          /\ UNCHANGED <<copy, summary, sum, sumHist, sumOld, count, said, late>>
      BY <1>2 DEF Replace, Go, sumVars
    <2>2. Len(copy) > KeepLast /\ Len(copy) \in Nat /\ copy \in Seq(Message)
      BY <1>0, <2>1, LenProperties DEF HistoryClean, StoreTypes
    <2>3. PICK a \in 2 .. Len(copy) : a = Mid + 2 /\ a - 1 = Mid + 1
      BY <1>0, <2>2 DEF Mid
    <2>. DEFINE t == <<copy[1]>> \o SubSeq(copy, a, Len(copy))
                d == Numbers(SubSeq(copy, 2, a - 1))
    <2>4. history' = t /\ excused' = excused \cup d
      BY <2>1, <2>3
    <2>5. Sound(t, said) /\ Numbers(copy) \subseteq Numbers(t) \cup d
      BY <2>1, <2>2, <2>3, SoundHeadAndRest
    <2>6. Numbers(t) \subseteq Numbers(copy)
      BY <2>2, <2>3, HeadAndRest
    <2>. HIDE DEF t, d
    <2>7. Numbers(history) \cup summary \cup excused \subseteq Numbers(history') \cup summary' \cup excused'
      BY <2>1, <2>4, <2>5
    <2>8. /\ Lost' \subseteq Lost /\ IsFiniteSet(Lost)
          /\ Cardinality(Lost') <= Cardinality(Lost)
          /\ Cardinality(Lost') \in Nat /\ Cardinality(Lost) \in Nat
      BY <2>1, <2>7, LostShrinks
    <2>9. ASSUME Working' PROVE Room(history', sumHist', Lost', late')
      <3>1. Room(copy, sumHist, Lost, late)
        BY <2>1, <2>9 DEF Ahead, Working
      <3>2. Room(t, sumHist, Lost', late)
        BY <2>2, <2>6, <2>8, <3>1, RoomKept
      <3>. QED
        BY <2>1, <2>4, <3>2
    <2>10. SaidInv' /\ Sound(history, said)' /\ Sound(sumHist, said)' /\ Written'
      BY <2>1, <2>4, <2>5 DEF SaidInv, Written, Summarizable, Older
    <2>. QED
      BY <2>1, <2>8, <2>9, <2>10 DEF Ahead
  <1>. QED
    BY <1>1, <1>2

\* ClearHistory excuses all that it removes.
LEMMA LossClear ==
  ASSUME LossInv, StoreTypes, Clear
  PROVE  LossInv'
  <1>. USE DEF LossInv
  <1>1. /\ history' = <<>> /\ excused' = excused \cup Numbers(history) /\ pc' = "clear2"
        /\ UNCHANGED <<summary, sum, sumHist, sumOld, count, said, late>>
    BY DEF Clear, Go, sumVars
  <1>2. /\ Lost' \subseteq Lost /\ IsFiniteSet(Lost)
        /\ Cardinality(Lost') <= Cardinality(Lost)
        /\ Cardinality(Lost') \in Nat /\ Cardinality(Lost) \in Nat
    BY <1>1, LostShrinks
  <1>3. ASSUME Working' PROVE Room(history', sumHist', Lost', late')
    <2>1. Room(history, sumHist, Lost, late)
      BY <1>1, <1>3 DEF Ahead, Working
    <2>2. Numbers(<<>>) \subseteq Numbers(history)
      BY SoundEmpty
    <2>3. Room(<<>>, sumHist, Lost', late)
      BY <1>2, <2>1, <2>2, RoomKept DEF StoreTypes
    <2>. QED
      BY <1>1, <2>3
  <1>4. SaidInv' /\ Sound(history, said)' /\ Sound(sumHist, said)' /\ Written'
    BY <1>1, SoundEmpty DEF SaidInv, Written, Summarizable, Older
  <1>. QED
    BY <1>1, <1>2, <1>3, <1>4 DEF Ahead

\* The summarizer reads the history: there is nothing it has not read.
LEMMA LossRead ==
  ASSUME LossInv, StoreTypes, SumReadHistory
  PROVE  LossInv'
  <1>. USE DEF LossInv
  <1>1. /\ sum = "ready" /\ sum' = "old" /\ sumHist' = history
        /\ UNCHANGED <<pc, copy, history, summary, sumOld, count, said, late, excused>>
    BY DEF SumReadHistory, notSum, turnVars
  <1>2. Lost' = Lost /\ SaidInv' /\ IsFiniteSet(Lost)
    BY <1>1, Fewer DEF Lost, SaidInv, Numbers
  <1>3. Room(history, history, Lost, late)
    <2>1. Numbers(history) \ Numbers(history) = {} /\ Cardinality(Lost) \in Nat
      BY <1>2, FS_CardinalityType
    <2>. QED
      BY <2>1, FS_EmptySet DEF Room
  <1>4. Ahead(history)' /\ (pc' = "replace" => Ahead(copy)')
    BY <1>1, <1>2, <1>3 DEF Ahead
  <1>. QED
    BY <1>1, <1>2, <1>4 DEF Written

\* The summarizer truncates: what is forgotten beyond what was told of and the
\* messages too long for it is no more than what was added while it worked.
LEMMA LossTruncate ==
  ASSUME LossInv, StoreTypes, SumTruncate
  PROVE  LossInv'
  <1>. USE DEF LossInv
  <1>1. /\ sum = "cut" /\ sum' = "off" /\ sumHist' = <<>>
        /\ history' = IF Len(history) <= KeepLast THEN history ELSE Newest(history)
        /\ excused' = excused \cup Omitted
        /\ UNCHANGED <<pc, copy, summary, count, said, late>>
    BY DEF SumTruncate, notSum, turnVars
  <1>2. /\ Len(history) \in Nat /\ KeepLast \in Nat \ {0} /\ history \in Seq(Message)
        /\ DOMAIN history = 1 .. Len(history)
        /\ sumHist \in Seq(Message) /\ DOMAIN sumHist = 1 .. Len(sumHist) /\ Len(sumHist) \in Nat
    BY AgentAssumption, LenProperties DEF StoreTypes
  <1>3. SaidInv' /\ Sound(sumHist, said)' /\ Written' /\ ~Working'
    BY <1>1, SoundEmpty DEF SaidInv, Written, Working
  <1>4. CASE Len(history) <= KeepLast
    <2>1. history' = history
      BY <1>1, <1>4
    <2>2. Lost' \subseteq Lost
      BY <1>1, <2>1 DEF Lost, Numbers
    <2>3. Cardinality(Lost') <= Cardinality(Lost) /\ Cardinality(Lost') \in Nat /\ Cardinality(Lost) \in Nat
      BY <2>2, Fewer DEF Lost, SaidInv
    <2>. QED
      BY <1>1, <1>3, <2>1, <2>3 DEF Ahead
  <1>5. CASE Len(history) > KeepLast
    <2>. DEFINE a == Len(history) - KeepLast + 1
                t == SubSeq(history, a, Len(history))
                kept == Numbers(t) \cup summary \cup excused \cup Omitted
                B == {i \in 1 .. Len(history) - KeepLast :
                        history[i].role # "tool" /\ history[i].n \notin kept}
                unread == Numbers(history) \ Numbers(sumHist)
    <2>1. history' = t /\ a \in 1 .. Len(history) /\ a \in Nat \ {0}
      BY <1>1, <1>2, <1>5 DEF Newest
    <2>2. Sound(t, said) /\ Numbers(t) \subseteq Numbers(history)
      BY <1>2, <2>1, SoundSuffix, SubSeqNumbers
    <2>3. Room(history, sumHist, Lost, late)
      BY <1>1 DEF Ahead, Working
    <2>4. IsFiniteSet(unread) /\ \A n \in unread : \A k \in Numbers(sumHist) : k < n
      BY <1>2, <2>3, NumbersFinite, Fewer DEF Room
    <2>5. ASSUME NEW i \in B, NEW j \in DOMAIN sumHist, history[i].n = sumHist[j].n
          PROVE  j > Len(sumHist) - KeepLast
      <3>1. i \in DOMAIN history
        BY <1>2
      <3>2. history[i] \in said /\ sumHist[j] \in said
        BY <3>1 DEF Sound, ToSet
      <3>3. history[i] = sumHist[j]
        BY <2>5, <3>2 DEF SaidInv
      <3>4. sumHist[j].role # "tool" /\ sumHist[j].n \notin summary \cup excused \cup Omitted
        BY <3>3
      <3>5. j \notin Summarizable
        BY <1>1, <3>4 DEF Written
      <3>6. j \notin Older
        BY <3>4, <3>5 DEF Summarizable, Omitted
      <3>. QED
        BY <1>2, <3>6 DEF Older
    <2>6. IsFiniteSet(B) /\ Cardinality(B) <= Cardinality(unread)
      <3>1. B \in SUBSET (1 .. Len(history) - KeepLast) /\ Rising(history) /\ Rising(sumHist)
        BY DEF Sound
      <3>. HIDE DEF B, unread
      <3>. QED
        BY <1>2, <2>4, <2>5, <3>1, FewForgotten DEF unread
    <2>. DEFINE f == [i \in B |-> history[i]]
                bad == {history[i] : i \in B}
    <2>7. f \in Surjection(B, bad)
      BY DEF Surjection
    <2>8. IsFiniteSet(bad) /\ Cardinality(bad) <= Cardinality(B)
      <3>. HIDE DEF f, bad, B
      <3>. QED
        BY <2>6, <2>7, FS_Surjection
    <2>9. ASSUME NEW m \in Lost', m \notin Lost
          PROVE  m \in bad
      <3>1. m \in said /\ m.role # "tool" /\ m.n \notin kept
        BY <1>1, <2>1 DEF Lost
      <3>2. m.n \in Numbers(history)
        BY <2>9, <3>1 DEF Lost
      <3>3. PICK i \in DOMAIN history : m.n = history[i].n
        BY <3>2 DEF Numbers
      <3>4. m = history[i]
        BY <3>1, <3>3 DEF SaidInv, Sound, ToSet
      <3>5. i \notin a .. Len(history)
        <4>1. \A k \in a .. Len(history) : history[k].n \in Numbers(t)
          BY <1>2, <2>1, SoundSuffix
        <4>. QED
          BY <3>1, <3>3, <4>1
      <3>6. i \in 1 .. Len(history) - KeepLast
        BY <1>2, <3>5
      <3>. QED
        BY <3>1, <3>4, <3>6
    <2>. HIDE DEF bad, f, B
    <2>10. IsFiniteSet(Lost)
      BY Fewer DEF Lost, SaidInv
    <2>11. /\ IsFiniteSet(Lost \cup bad)
           /\ Cardinality(Lost \cup bad) = Cardinality(Lost) + Cardinality(bad) - Cardinality(Lost \cap bad)
      BY <2>8, <2>10, FS_Union
    <2>12. Cardinality(Lost') <= Cardinality(Lost \cup bad) /\ Cardinality(Lost') \in Nat
           /\ Cardinality(Lost \cup bad) \in Nat
      BY <2>9, <2>11, Fewer
    <2>13. /\ Cardinality(Lost) \in Nat /\ Cardinality(bad) \in Nat /\ Cardinality(B) \in Nat
           /\ Cardinality(unread) \in Nat /\ Cardinality(Lost \cap bad) \in Nat
      BY <2>4, <2>6, <2>8, <2>10, Fewer
    <2>14. Cardinality(Lost) + Cardinality(unread) <= late
      BY <2>3 DEF Room
    <2>. HIDE DEF unread, t, a, kept
    <2>15. Cardinality(Lost') <= late
      BY <2>6, <2>8, <2>11, <2>12, <2>13, <2>14
    <2>. QED
      BY <1>1, <1>3, <2>1, <2>2, <2>15 DEF Ahead
  <1>. QED
    BY <1>2, <1>4, <1>5

\* No step forgets more than the bound allows, whatever it overtakes.
LEMMA LossStep == LossInv /\ ClearInv /\ [Next]_vars => LossInv'
  <1>. SUFFICES ASSUME LossInv, ClearInv, [Next]_vars PROVE LossInv'
    OBVIOUS
  <1>0. StoreTypes
    BY DEF ClearInv
  <1>1. CASE Consume \/ Reset \/ ReadHistory \/ RunTool \/ LlmFails \/ SendResponse \/ Respond
             \/ Finish \/ Rebuild
    <2>1. /\ UNCHANGED <<history, summary, count, said, late, excused, sum, sumHist>>
          /\ pc' # "replace"
      BY <1>1 DEF Consume, Reset, ReadHistory, RunTool, LlmFails, SendResponse, Respond, Finish, Rebuild,
         Go, session, storeVars, sumVars
    <2>2. Written' /\ (Working' => Working)
      BY <2>1 DEF LossInv, Written, Working, Summarizable, Older
    <2>. QED
      BY <1>0, <2>1, <2>2, LossQuiet
  <1>2. CASE OtherTurn \/ Reload \/ UNCHANGED vars
    <2>1. UNCHANGED <<history, summary, count, said, late, excused, sum, sumHist, pc, copy>>
      BY <1>2 DEF OtherTurn, Reload, vars, session, storeVars, sumVars, turnVars
    <2>2. Written' /\ (Working' => Working)
      BY <2>1 DEF LossInv, Written, Working, Summarizable, Older
    <2>. QED
      BY <1>0, <2>1, <2>2, LossQuiet
  <1>3. CASE MaybeSummarize
    <2>1. /\ UNCHANGED <<history, summary, count, said, late, excused, sumHist>>
          /\ pc' # "replace" /\ sum' \in {sum, "ready"}
      BY <1>3 DEF MaybeSummarize, Go, storeVars
    <2>2. Written' /\ (Working' => Working)
      BY <2>1 DEF LossInv, Written, Working, Summarizable, Older
    <2>. QED
      BY <1>0, <2>1, <2>2, LossQuiet
  <1>4. CASE ClearSummary
    <2>1. /\ UNCHANGED <<history, count, said, late, sum, sumHist>>
          /\ excused' = excused \cup summary /\ pc' # "replace"
      BY <1>4 DEF ClearSummary, Cleared, Go, sumVars
    <2>2. Written' /\ (Working' => Working)
      BY <2>1 DEF LossInv, Written, Working, Summarizable, Older
    <2>. QED
      BY <1>0, <2>1, <2>2, LossQuiet
  <1>5. CASE Crash
    <2>1. /\ UNCHANGED <<history, summary, count, said, late, excused>>
          /\ sum' = "off" /\ sumHist' = <<>> /\ pc' # "replace"
      BY <1>5 DEF Crash, Go, storeVars
    <2>2. Written' /\ ~Working'
      BY <2>1 DEF Written, Working
    <2>. QED
      BY <1>0, <2>1, <2>2, LossQuiet
  <1>6. CASE SumReadSummary \/ SumBlank
    <2>1. /\ UNCHANGED <<history, summary, count, said, late, excused, pc, copy>>
          /\ \/ sum' = "off" /\ sumHist' = <<>>
             \/ sum = "old" /\ sum' = "ask" /\ sumHist' = sumHist
      BY <1>6 DEF SumReadSummary, SumBlank, notSum, turnVars
    <2>2. Written' /\ (Working' => Working /\ sumHist' = sumHist)
      BY <2>1 DEF Written, Working
    <2>. QED
      BY <1>0, <2>1, <2>2, LossQuiet
  <1>7. CASE SumWrite
    <2>1. /\ UNCHANGED <<history, count, said, late, pc, copy, sumHist>>
          /\ sum = "ask" /\ sum' = "cut" /\ excused' = excused \cup (summary \ summary')
      BY <1>7 DEF SumWrite, notSum, turnVars
    <2>2. PICK old : summary' = old \cup {sumHist[i].n : i \in Summarizable}
      BY <1>7 DEF SumWrite
    <2>3. Written' /\ Working
      BY <2>1, <2>2 DEF Written, Working, Summarizable, Older
    <2>. QED
      BY <1>0, <2>1, <2>3, LossQuiet
  <1>8. CASE AddUser \/ AddCall \/ AddResult \/ AddAnswer
    BY <1>0, <1>8, LossAdd
  <1>9. CASE ContextError \/ Replace \/ Clear \/ SumReadHistory \/ SumTruncate
    BY <1>0, <1>9, LossCompress, LossClear, LossRead, LossTruncate
  <1>. QED
    BY <1>1, <1>2, <1>3, <1>4, <1>5, <1>6, <1>7, <1>8, <1>9 DEF Next, Turn, Summarizer

\* What was said and is neither in the history, nor in the summary, nor known
\* to be lost (compressed, cleared, overwritten, never written, or too long for
\* a summary) is at most what was added while a summarizer was at work, for
\* every number of messages that a summary leaves.
THEOREM LossIsBounded == Spec => []LossBounded
  <1>1. LossInv => LossBounded
    BY DEF LossInv, Lost, LossBounded
  <1>. QED
    BY <1>1, LossInit, LossStep, ClearInit, ClearInvStep, PTL DEF Spec

----------------------------------------------------------------------------
(* Types                                                                   *)

\* Of the turn: a result is awaited within the rounds, and nothing is answered
\* before the end but a system message.
TurnTypes ==
  /\ pc \in {"idle", "reset", "read", "user", "llm", "tool", "result", "compress",
             "replace", "clear", "clear2", "tidy", "send", "respond", "end"}
  /\ kind \in {"user", "system", "clear"}
  /\ rounds \in 0 .. MaxRounds /\ retries \in 0 .. MaxRetries
  /\ pc \in {"tool", "result"} => rounds < MaxRounds
  /\ answers \in 0 .. 1
  /\ pc \notin {"respond", "end"} => answers = 0
  /\ pc = "respond" /\ kind # "system" => answers = 0
  /\ pc = "send" => kind = "system"
  /\ turns \in 0 .. MaxTurns /\ faults \in 0 .. MaxFaults

\* Of the flags.
FlagTypes == {sent, shared, told, foreign, swallowed} \subseteq BOOLEAN

\* Of what was told: no more was late than was added.
TellTypes ==
  /\ sum \in {"off", "ready", "old", "ask", "cut"}
  /\ summary \subseteq Number /\ sumOld \subseteq Number /\ excused \subseteq Number
  /\ said \subseteq Message /\ late \in 0 .. count

\* All three hold before the first message.
LEMMA TypesInit == Init => TurnTypes /\ FlagTypes /\ TellTypes
  <1>. SUFFICES ASSUME Init PROVE TurnTypes /\ FlagTypes /\ TellTypes
    OBVIOUS
  <1>1. TurnTypes
    BY AgentAssumption DEF Init, TurnTypes
  <1>2. FlagTypes
    BY DEF Init, FlagTypes
  <1>3. TellTypes
    BY DEF Init, TellTypes
  <1>. QED
    BY <1>1, <1>2, <1>3

\* A turn stays within its rounds, retries and answers.
LEMMA TurnTypesStep == TurnTypes /\ [Next]_vars => TurnTypes'
  <1>. SUFFICES ASSUME TurnTypes, [Next]_vars PROVE TurnTypes'
    OBVIOUS
  <1>. USE AgentAssumption DEF TurnTypes, Go
  <1>1. CASE Consume
    BY <1>1 DEF Consume, sumVars, storeVars
  <1>2. CASE Reset \/ ReadHistory \/ RunTool \/ LlmFails \/ Replace \/ Rebuild \/ Clear \/ ClearSummary
    BY <1>2 DEF Reset, ReadHistory, RunTool, LlmFails, Replace, Rebuild, Clear, ClearSummary, Cleared,
       session, toldVars
  <1>3. CASE AddUser \/ AddCall \/ AddResult \/ AddAnswer
    <2>1. kind' = kind /\ turns' = turns /\ faults' \in 0 .. MaxFaults /\ answers' = answers
      BY <1>3 DEF AddUser, AddCall, AddResult, AddAnswer, Add, toldVars
    <2>. QED
      BY <1>3, <2>1 DEF AddUser, AddCall, AddResult, AddAnswer
  <1>4. CASE ContextError \/ MaybeSummarize
    BY <1>4 DEF ContextError, Compression, MaybeSummarize, session, toldVars
  <1>5. CASE SendResponse \/ Respond \/ Finish
    BY <1>5 DEF SendResponse, Respond, Finish, session
  <1>6. CASE Summarizer
    BY <1>6 DEF Summarizer, SumReadHistory, SumReadSummary, SumWrite, SumBlank, SumTruncate, notSum,
       turnVars, toldVars
  <1>7. CASE OtherTurn \/ Reload \/ Crash \/ UNCHANGED vars
    BY <1>7 DEF OtherTurn, Reload, Crash, vars, turnVars, toldVars, session
  <1>. QED
    BY <1>1, <1>2, <1>3, <1>4, <1>5, <1>6, <1>7 DEF Next, Turn

\* A flag is set or not.
LEMMA FlagTypesStep == FlagTypes /\ [Next]_vars => FlagTypes'
  <1>. SUFFICES ASSUME FlagTypes, [Next]_vars PROVE FlagTypes'
    OBVIOUS
  <1>. USE DEF FlagTypes, toldVars, storeVars, session, notSum
  <1>1. CASE Consume \/ Reset \/ RunTool \/ Finish \/ OtherTurn \/ Reload \/ Crash \/ UNCHANGED vars
    BY <1>1 DEF Consume, MayShare, Reset, RunTool, Finish, OtherTurn, Reload, Crash, vars
  <1>2. CASE ReadHistory \/ LlmFails \/ ContextError \/ Replace \/ Rebuild \/ Clear \/ ClearSummary
             \/ MaybeSummarize \/ SendResponse \/ Respond
    BY <1>2 DEF ReadHistory, LlmFails, ContextError, Compression, Replace, Rebuild, Clear, ClearSummary,
       Cleared, MaybeSummarize, SendResponse, Respond
  <1>3. CASE AddUser \/ AddCall \/ AddResult \/ AddAnswer
    BY <1>3 DEF AddUser, AddCall, AddResult, AddAnswer, Add
  <1>4. CASE Summarizer
    BY <1>4 DEF Summarizer, SumReadHistory, SumReadSummary, SumWrite, SumBlank, SumTruncate
  <1>. QED
    BY <1>1, <1>2, <1>3, <1>4 DEF Next, Turn

\* What is told of, or excused, has a number.
LEMMA TellTypesStep == TellTypes /\ ClearInv /\ [Next]_vars => TellTypes'
  <1>. SUFFICES ASSUME TellTypes, ClearInv, [Next]_vars PROVE TellTypes'
    OBVIOUS
  <1>. USE DEF TellTypes
  <1>0. StoreTypes /\ HistoryClean
    BY DEF ClearInv
  <1>1. CASE Consume \/ Reset \/ ReadHistory \/ RunTool \/ LlmFails \/ SendResponse \/ Respond
             \/ Finish \/ Rebuild \/ ContextError \/ OtherTurn \/ Reload \/ UNCHANGED vars
    BY <1>1 DEF Consume, Reset, ReadHistory, RunTool, LlmFails, SendResponse, Respond, Finish, Rebuild,
       ContextError, Compression, OtherTurn, Reload, vars, session, storeVars, sumVars
  <1>2. CASE MaybeSummarize \/ Crash
    BY <1>2 DEF MaybeSummarize, Crash, storeVars
  <1>3. CASE AddUser \/ AddCall \/ AddResult \/ AddAnswer
    <2>1. PICK role \in {"user", "call", "tool", "assistant"}, of \in {0, count} : Add(role, of)
      BY <1>3 DEF AddUser, AddCall, AddResult, AddAnswer
    <2>. DEFINE m == [n |-> count + 1, role |-> role, of |-> of]
    <2>2. /\ count < MaxMessages /\ count' = count + 1 /\ said' = said \cup {m}
          /\ late' \in {late, late + 1} /\ excused' \in {excused, excused \cup {m.n}}
          /\ UNCHANGED <<summary, sum, sumOld>>
      BY <2>1 DEF Add, sumVars
    <2>3. m \in Message /\ m.n \in Number
      BY <1>0, <2>1, <2>2, AgentAssumption DEF Message, Number, StoreTypes
    <2>. HIDE DEF m
    <2>4. late' \in 0 .. count'
      BY <1>0, <2>2, AgentAssumption DEF StoreTypes
    <2>. QED
      BY <2>2, <2>3, <2>4
  <1>4. CASE Replace
    <2>1. copy \in Seq(Message)
      BY <1>0 DEF StoreTypes
    <2>2. Numbers(SubSeq(copy, 2, Mid + 1)) \subseteq Number
      <3>1. Len(copy) > KeepLast /\ KeepLast \in Nat \ {0} /\ Len(copy) \in Nat
        BY <1>0, <1>4, <2>1, LenProperties, AgentAssumption DEF HistoryClean, Replace
      <3>2. 2 \in 1 .. Len(copy) /\ Mid + 1 \in 1 .. Len(copy)
        BY <3>1 DEF Mid
      <3>3. SubSeq(copy, 2, Mid + 1) \in Seq(Message)
        BY <2>1, <3>1, <3>2, SubSeqProperties
      <3>. QED
        BY <3>3, NumbersTyped
    <2>. QED
      BY <1>4, <2>2 DEF Replace, sumVars
  <1>5. CASE Clear
    <2>1. Numbers(history) \subseteq Number
      BY <1>0, NumbersTyped DEF StoreTypes
    <2>. QED
      BY <1>5, <2>1 DEF Clear, sumVars
  <1>6. CASE ClearSummary
    BY <1>6 DEF ClearSummary, Cleared, sumVars
  <1>7. CASE SumReadHistory \/ SumReadSummary \/ SumBlank \/ SumTruncate
    BY <1>7, AgentAssumption DEF SumReadHistory, SumReadSummary, SumBlank, SumTruncate, Omitted, Number,
       notSum
  <1>8. CASE SumWrite
    <2>1. /\ sum' = "cut" /\ excused' = excused \cup (summary \ summary')
          /\ UNCHANGED <<sumOld, said, late, count>>
      BY <1>8 DEF SumWrite, notSum
    <2>2. PICK old \in {{}, sumOld} : summary' = old \cup {sumHist[i].n : i \in Summarizable}
      BY <1>8 DEF SumWrite
    <2>3. Summarizable \subseteq DOMAIN sumHist
      BY <1>0, LenProperties, AgentAssumption DEF Summarizable, Older, StoreTypes
    <2>4. Numbers(sumHist) \subseteq Number
      BY <1>0, NumbersTyped DEF StoreTypes
    <2>5. summary' \subseteq Number
      BY <2>2, <2>3, <2>4 DEF Numbers
    <2>. QED
      BY <2>1, <2>5
  <1>. QED
    BY <1>1, <1>2, <1>3, <1>4, <1>5, <1>6, <1>7, <1>8 DEF Next, Turn, Summarizer

\* Every variable keeps its type and its bound.
THEOREM AgentTypes == Spec => []TypeOK
  <1>1. TurnTypes /\ FlagTypes /\ TellTypes /\ ClearInv /\ PromptInv => TypeOK
    <2>. SUFFICES ASSUME TurnTypes, FlagTypes, TellTypes, ClearInv, PromptInv PROVE TypeOK
      OBVIOUS
    <2>1. {prompt, copy, history, sumHist} \subseteq Seq(Message)
      BY DEF ClearInv, StoreTypes, PromptInv
    <2>2. {sent, shared, told, haunted, foreign, swallowed} \subseteq BOOLEAN
      BY DEF FlagTypes, ClearInv, StoreTypes
    <2>3. count \in 0 .. MaxMessages /\ erased \subseteq Number /\ late \in 0 .. MaxMessages
      BY AgentAssumption DEF ClearInv, StoreTypes, TellTypes, Number
    <2>. QED
      BY <2>1, <2>2, <2>3 DEF TurnTypes, TellTypes, TypeOK
  <1>. QED
    BY <1>1, TypesInit, TurnTypesStep, FlagTypesStep, TellTypesStep, ClearInit, ClearInvStep,
       PromptInit, PromptStep, PTL DEF Spec

=============================================================================
