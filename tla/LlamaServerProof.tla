-------------------------- MODULE LlamaServerProof --------------------------
(* The safety properties of the llama-server provider for every number of  *)
(* callers, providers and children: LlamaInv is inductive and implies them. *)
EXTENDS LlamaServer, FiniteSetTheorems, TLAPS

\* Whoever is bringing a child up holds its provider's lock, and turns only
\* know providers that were handed out.
LocksHeld ==
  \A c \in Caller :
    /\ call[c].pc # "idle" => call[c].p \in 1 .. cur
    /\ call[c].pc \in {"poll", "stuck"} => mu[call[c].p] = c /\ cmd[call[c].p] # 0

\* Up means tracked and unlocked.
UpTracked == \A p \in Provider : initialized[p] => cmd[p] # 0 /\ mu[p] = "free"

\* A handle that the next Spawn may overwrite is of a child dead or abandoned.
HandleSpent ==
  \A p \in Provider :
    mu[p] = "free" /\ ~initialized[p] /\ cmd[p] # 0 =>
      ~Alive(cmd[p]) \/ cmd[p] \in abandoned

\* Until a reload or an abandoned child, only the first provider's is alive.
OnlyChild ==
  cur = 1 /\ abandoned = {} => \A q \in DOMAIN proc : Alive(q) => q = cmd[1]

SwappedAfterFirst == main = "swapped" => cur > 1

LlamaInv ==
  /\ TypeOK /\ LocksHeld /\ UpTracked /\ HandleSpent
  /\ OrphanHasCause /\ OnlyChild /\ SwappedAfterFirst

Child == [st : {"boot", "loading", "serving", "dead"}, owner : Provider]

Call == [pc : {"idle", "want", "poll", "chat", "stuck"}, p : 0 .. MaxProvider, polls : 0 .. Polls]

\* A turn that moves on keeps its provider.
LEMMA CallMoves ==
  ASSUME TypeOK, NEW c \in Caller, NEW pc \in {"idle", "want", "poll", "chat", "stuck"}
  PROVE  LET next == [call EXCEPT ![c].pc = pc] IN
         /\ next \in [Caller -> Call]
         /\ next[c].p = call[c].p /\ next[c].pc = pc
         /\ \A d \in Caller \ {c} : next[d] = call[d]
  BY DEF TypeOK, Call

\* The initial state satisfies the invariant.
LEMMA LlamaInit == LInit => LlamaInv
  <1>. SUFFICES ASSUME LInit PROVE LlamaInv
    OBVIOUS
  <1>. USE LlamaAssumption DEF LInit, Provider, Idle
  <1>1. TypeOK
    BY DEF TypeOK
  <1>2. LocksHeld /\ UpTracked /\ HandleSpent
    BY DEF LocksHeld, UpTracked, HandleSpent
  <1>3. OrphanHasCause /\ OnlyChild /\ SwappedAfterFirst
    BY DEF OrphanHasCause, OnlyChild, SwappedAfterFirst
  <1>. QED
    BY <1>1, <1>2, <1>3 DEF LlamaInv

\* A turn's step that leaves the children, the handles and the ghosts alone.
LEMMA TurnSteps ==
  ASSUME LlamaInv, NEW c \in Caller,
         Pick(c) \/ AlreadyUp(c) \/ StartFails(c) \/ Unhealthy(c) \/ GiveUp(c) \/ Chat(c)
  PROVE  LlamaInv'
  <1>. USE LlamaAssumption DEF LlamaInv, KnownExited, Provider
  <1>. DEFINE Unchanged == UNCHANGED <<proc, cmd, mu, cur, main, abandoned, late>>
  <1>1. Unchanged
    BY DEF Pick, AlreadyUp, StartFails, Unhealthy, GiveUp, Chat
  <1>2. \A p \in Provider : initialized'[p] = initialized[p]
    BY DEF Pick, AlreadyUp, StartFails, Unhealthy, GiveUp, Chat, TypeOK
  <1>3. TypeOK' /\ LocksHeld'
    <2>1. CASE Pick(c)
      BY <2>1 DEF Pick, TypeOK, LocksHeld
    <2>2. CASE AlreadyUp(c)
      <3>1. call' = [call EXCEPT ![c].pc = "chat"] /\ call[c].pc = "want"
            /\ UNCHANGED <<proc, cmd, initialized, mu, cur, main, abandoned, late>>
        BY <2>2 DEF AlreadyUp
      <3>2. TypeOK'
        BY <3>1, CallMoves DEF TypeOK, Call
      <3>3. LocksHeld'
        BY <3>1, CallMoves DEF LocksHeld
      <3>. QED
        BY <3>2, <3>3
    <2>3. CASE StartFails(c)
      BY <2>3 DEF StartFails, TypeOK, LocksHeld, Idle
    <2>4. CASE Unhealthy(c)
      <3>1. TypeOK'
        <4>1. call[c].polls + 1 \in 0 .. Polls /\ call' = [call EXCEPT ![c].polls = @ + 1]
          BY <2>4 DEF Unhealthy, TypeOK
        <4>2. call' \in [Caller -> Call]
          BY <4>1 DEF TypeOK, Call
        <4>. QED
          BY <2>4, <4>2 DEF Unhealthy, TypeOK, Call
      <3>2. LocksHeld'
        BY <2>4 DEF Unhealthy, TypeOK, LocksHeld
      <3>. QED
        BY <3>1, <3>2
    <2>5. CASE GiveUp(c)
      <3>1. TypeOK'
        BY <2>5 DEF GiveUp, TypeOK
      <3>2. LocksHeld'
        BY <2>5 DEF GiveUp, TypeOK, LocksHeld
      <3>. QED
        BY <3>1, <3>2
    <2>6. CASE Chat(c)
      BY <2>6 DEF Chat, TypeOK, LocksHeld, Idle
    <2>. QED
      BY <2>1, <2>2, <2>3, <2>4, <2>5, <2>6
  <1>4. UpTracked' /\ HandleSpent'
    BY <1>1, <1>2 DEF UpTracked, HandleSpent, Alive
  <1>5. OrphanHasCause' /\ OnlyChild' /\ SwappedAfterFirst'
    BY <1>1 DEF OrphanHasCause, OnlyChild, SwappedAfterFirst, Alive
  <1>. QED
    BY <1>3, <1>4, <1>5

\* A child is spawned: what its handle pointed to is dead or abandoned.
LEMMA SpawnStep ==
  ASSUME LlamaInv, NEW c \in Caller, Spawn(c)
  PROVE  LlamaInv'
  <1>. USE LlamaAssumption DEF LlamaInv, KnownExited, Provider
  <1>. DEFINE p == call[c].p
              n == Len(proc) + 1
  <1>1. /\ p \in Provider /\ p <= cur /\ mu[p] = "free" /\ ~initialized[p]
        /\ n \in 1 .. MaxProc
        /\ proc' = Append(proc, [st |-> "boot", owner |-> p])
        /\ cmd' = [cmd EXCEPT ![p] = n]
        /\ mu' = [mu EXCEPT ![p] = c]
        /\ call' = [call EXCEPT ![c].pc = "poll"]
        /\ initialized' = [initialized EXCEPT ![p] = FALSE]
        /\ UNCHANGED <<cur, main, abandoned>>
    BY DEF Spawn, TypeOK, LocksHeld
  <1>2. /\ proc' \in Seq(Child) /\ Len(proc') = n
        /\ DOMAIN proc' = DOMAIN proc \cup {n} /\ n \notin DOMAIN proc
        /\ \A q \in DOMAIN proc : proc'[q] = proc[q]
    <2>1. proc \in Seq(Child) /\ [st |-> "boot", owner |-> p] \in Child
      BY <1>1 DEF TypeOK, Child
    <2>2. Len(proc) \in Nat /\ DOMAIN proc = 1 .. Len(proc)
      BY <2>1
    <2>3. DOMAIN proc' = 1 .. Len(proc) + 1
      BY <1>1, <2>1
    <2>. QED
      BY <1>1, <2>1, <2>2, <2>3
  <1>3. late' \in {late, late \cup {n}} /\ (p # cur \/ main = "closed" => n \in late')
    BY DEF Spawn
  <1>a. call' \in [Caller -> Call] /\ call'[c].p = p /\ call'[c].pc = "poll"
        /\ \A d \in Caller \ {c} : call'[d] = call[d]
    BY <1>1, CallMoves
  <1>4. TypeOK'
    <2>1. cmd' \in [Provider -> 0 .. Len(proc')]
      BY <1>1, <1>2 DEF TypeOK
    <2>2. abandoned' \cup late' \subseteq DOMAIN proc'
      BY <1>1, <1>2, <1>3 DEF TypeOK
    <2>3. mu' \in [Provider -> Caller \cup {"free"}] /\ initialized' \in [Provider -> BOOLEAN]
          /\ cur' \in Provider /\ main' \in {"run", "swapped", "leaving", "closed"}
      BY <1>1 DEF TypeOK
    <2>. QED
      BY <1>1, <1>2, <1>a, <2>1, <2>2, <2>3 DEF TypeOK, Child, Call
  <1>5. LocksHeld'
    <2>. SUFFICES ASSUME NEW d \in Caller
                  PROVE  /\ call'[d].pc # "idle" => call'[d].p \in 1 .. cur'
                         /\ call'[d].pc \in {"poll", "stuck"} => mu'[call'[d].p] = d /\ cmd'[call'[d].p] # 0
      BY DEF LocksHeld
    <2>1. CASE d = c
      BY <1>1, <1>a, <2>1 DEF TypeOK
    <2>2. CASE d # c
      <3>1. call'[d] = call[d] /\ call[d] \in Call
        BY <1>a, <2>2 DEF TypeOK, Call
      <3>2. call[d].pc # "idle" => call[d].p \in 1 .. cur /\ call[d].p \in Provider
        BY DEF LocksHeld, TypeOK
      <3>3. call[d].pc \in {"poll", "stuck"} => call[d].p # p
        BY <1>1 DEF LocksHeld
      <3>. QED
        BY <1>1, <3>1, <3>2, <3>3 DEF LocksHeld, TypeOK
    <2>. QED
      BY <2>1, <2>2
  <1>6. UpTracked'
    BY <1>1 DEF UpTracked, TypeOK
  <1>7. \A q \in DOMAIN proc : Alive(q)' <=> Alive(q)
    BY <1>2 DEF Alive
  <1>8. \A q \in DOMAIN proc : Alive(q) /\ q = cmd[p] => q \in abandoned
    BY <1>1 DEF HandleSpent, TypeOK
  <1>9. HandleSpent'
    <2>. SUFFICES ASSUME NEW r \in Provider, mu'[r] = "free", ~initialized'[r], cmd'[r] # 0
                  PROVE  ~(Alive(cmd[r])') \/ cmd'[r] \in abandoned'
      BY DEF HandleSpent, Alive
    <2>1. r # p
      BY <1>1 DEF TypeOK
    <2>2. cmd'[r] = cmd[r] /\ cmd[r] \in DOMAIN proc
      BY <1>1, <2>1 DEF TypeOK
    <2>. QED
      BY <1>1, <1>7, <2>1, <2>2 DEF HandleSpent, TypeOK
  <1>10. OrphanHasCause'
    <2>. SUFFICES ASSUME NEW q \in DOMAIN proc', Alive(q)'
                  PROVE  \/ q \in abandoned' \cup late' \/ q = cmd'[cur']
                         \/ main' = "swapped" /\ q = cmd'[cur' - 1]
      BY DEF OrphanHasCause
    <2>1. CASE q = n
      BY <1>1, <1>3, <2>1 DEF TypeOK
    <2>2. CASE q \in DOMAIN proc
      <3>1. Alive(q)
        BY <1>7, <2>2
      <3>2. \A o \in Provider : q = cmd[o] => q = cmd'[o] \/ q \in abandoned
        BY <1>1, <1>8, <2>2, <3>1 DEF TypeOK
      <3>3. cur \in Provider /\ (main = "swapped" => cur - 1 \in Provider)
        BY DEF TypeOK, SwappedAfterFirst
      <3>. QED
        BY <1>1, <1>3, <2>2, <3>1, <3>2, <3>3 DEF OrphanHasCause
    <2>. QED
      BY <1>2, <2>1, <2>2
  <1>11. OnlyChild'
    BY <1>1, <1>2, <1>7, <1>8 DEF OnlyChild, TypeOK
  <1>12. SwappedAfterFirst'
    BY <1>1 DEF SwappedAfterFirst
  <1>. QED
    BY <1>4, <1>5, <1>6, <1>9, <1>10, <1>11, <1>12

\* A child is up, or its starter gives up on it: the lock is free again.
LEMMA WaitSteps ==
  ASSUME LlamaInv, NEW c \in Caller, Healthy(c) \/ Cancelled(c)
  PROVE  LlamaInv'
  <1>. USE LlamaAssumption DEF LlamaInv, Provider
  <1>. DEFINE p == call[c].p
  <1>1. /\ p \in Provider /\ mu[p] = c /\ cmd[p] # 0 /\ cmd[p] \in DOMAIN proc
        /\ mu' = [mu EXCEPT ![p] = "free"]
        /\ UNCHANGED <<proc, cmd, cur, main, late>>
    <2>1. call[c].pc = "poll" /\ mu' = [mu EXCEPT ![p] = "free"]
          /\ UNCHANGED <<proc, cmd, cur, main, late>>
      BY DEF Healthy, Cancelled
    <2>2. p \in Provider /\ mu[p] = c /\ cmd[p] # 0
      BY <2>1 DEF LocksHeld, TypeOK
    <2>3. cmd[p] \in 0 .. Len(proc) /\ Len(proc) \in Nat /\ DOMAIN proc = 1 .. Len(proc)
      BY <2>2 DEF TypeOK
    <2>. QED
      BY <2>1, <2>2, <2>3
  <1>2. \A d \in Caller : d # c /\ call[d].pc \in {"poll", "stuck"} => call[d].p # p
    BY <1>1 DEF LocksHeld
  <1>3. CASE Healthy(c)
    <2>0. /\ call' \in [Caller -> Call] /\ call'[c].p = p /\ call'[c].pc = "chat"
          /\ \A d \in Caller \ {c} : call'[d] = call[d]
          /\ initialized' = [initialized EXCEPT ![p] = TRUE] /\ abandoned' = abandoned
      BY <1>3, CallMoves DEF Healthy
    <2>a. TypeOK'
      BY <1>1, <2>0 DEF TypeOK, Call
    <2>b. LocksHeld'
      <3>. SUFFICES ASSUME NEW d \in Caller
                    PROVE  /\ call'[d].pc # "idle" => call'[d].p \in 1 .. cur'
                           /\ call'[d].pc \in {"poll", "stuck"} => mu'[call'[d].p] = d /\ cmd'[call'[d].p] # 0
        BY DEF LocksHeld
      <3>1. CASE d = c
        <4>1. p \in 1 .. cur
          BY <1>3 DEF Healthy, LocksHeld
        <4>. QED
          BY <1>1, <2>0, <3>1, <4>1
      <3>2. CASE d # c
        <4>1. call'[d] = call[d]
          BY <2>0, <3>2
        <4>2. call[d].pc # "idle" => call[d].p \in 1 .. cur /\ call[d].p \in Provider
          BY DEF LocksHeld, TypeOK
        <4>3. call[d].pc \in {"poll", "stuck"} => call[d].p # p /\ mu[call[d].p] = d /\ cmd[call[d].p] # 0
          BY <1>2, <3>2 DEF LocksHeld
        <4>. QED
          BY <1>1, <4>1, <4>2, <4>3 DEF TypeOK
      <3>. QED
        BY <3>1, <3>2
    <2>1. TypeOK' /\ LocksHeld'
      BY <2>a, <2>b
    <2>2. UpTracked'
      BY <1>1, <1>3 DEF Healthy, TypeOK, UpTracked
    <2>3. HandleSpent'
      BY <1>1, <1>3 DEF Healthy, TypeOK, HandleSpent, Alive
    <2>4. OrphanHasCause' /\ OnlyChild' /\ SwappedAfterFirst'
      BY <1>1, <1>3 DEF Healthy, OrphanHasCause, OnlyChild, SwappedAfterFirst, Alive
    <2>. QED
      BY <2>1, <2>2, <2>3, <2>4
  <1>4. CASE Cancelled(c)
    <2>1. TypeOK' /\ LocksHeld'
      BY <1>1, <1>2, <1>4 DEF Cancelled, TypeOK, LocksHeld, Idle
    <2>2. UpTracked'
      BY <1>1, <1>4 DEF Cancelled, TypeOK, UpTracked
    <2>3. HandleSpent'
      BY <1>1, <1>4 DEF Cancelled, TypeOK, HandleSpent, Alive
    <2>4. OrphanHasCause' /\ OnlyChild' /\ SwappedAfterFirst'
      BY <1>1, <1>4 DEF Cancelled, OrphanHasCause, OnlyChild, SwappedAfterFirst, Alive
    <2>. QED
      BY <2>1, <2>2, <2>3, <2>4
  <1>. QED
    BY <1>3, <1>4

\* Swap and Shutdown.
LEMMA GatewaySteps ==
  ASSUME LlamaInv, Swap \/ Shutdown
  PROVE  LlamaInv'
  <1>. USE LlamaAssumption DEF LlamaInv, Provider
  <1>1. UNCHANGED <<proc, cmd, initialized, mu, call, abandoned, late>>
    BY DEF Swap, Shutdown
  <1>2. \/ main = "run" /\ cur \in Nat /\ cur < MaxProvider /\ cur' = cur + 1 /\ main' = "swapped"
        \/ main = "run" /\ cur' = cur /\ main' = "leaving"
    BY DEF Swap, Shutdown, TypeOK
  <1>3. TypeOK' /\ LocksHeld'
    BY <1>1, <1>2 DEF TypeOK, LocksHeld
  <1>4. UpTracked' /\ HandleSpent'
    BY <1>1 DEF UpTracked, HandleSpent, Alive
  <1>a. cur \in Nat \ {0} /\ \A q \in DOMAIN proc : Alive(q)' <=> Alive(q)
    BY <1>1 DEF TypeOK, Alive
  <1>b. OrphanHasCause'
    BY <1>1, <1>2, <1>a DEF OrphanHasCause
  <1>5. OrphanHasCause' /\ OnlyChild' /\ SwappedAfterFirst'
    BY <1>1, <1>2, <1>a, <1>b DEF OnlyChild, SwappedAfterFirst
  <1>. QED
    BY <1>3, <1>4, <1>5

\* Close kills the child its provider has a handle of.
LEMMA CloseSteps ==
  ASSUME LlamaInv, CloseOld \/ CloseLast
  PROVE  LlamaInv'
  <1>. USE LlamaAssumption DEF LlamaInv, Provider
  <1>. DEFINE p == IF main = "swapped" THEN cur - 1 ELSE cur
  <1>1. /\ p \in Provider /\ Closed(p)
        /\ \/ main = "swapped" /\ main' = "run"
           \/ main = "leaving" /\ main' = "closed"
        /\ UNCHANGED <<mu, cur, call, abandoned, late>>
    BY DEF CloseOld, CloseLast, TypeOK, SwappedAfterFirst
  <1>2. /\ proc' \in Seq(Child) /\ Len(proc') = Len(proc) /\ DOMAIN proc' = DOMAIN proc
        /\ \A q \in DOMAIN proc : Alive(q)' <=> Alive(q) /\ q # cmd[p]
    <2>1. proc' = [q \in 1 .. Len(proc) |->
                     IF q = cmd[p] THEN [proc[q] EXCEPT !.st = "dead"] ELSE proc[q]]
      BY <1>1 DEF Closed, TypeOK
    <2>2. proc \in Seq(Child) /\ Len(proc) \in Nat /\ DOMAIN proc = 1 .. Len(proc)
      BY DEF TypeOK, Child
    <2>3. \A q \in 1 .. Len(proc) : proc[q] \in Child
      BY <2>2
    <2>4. \A q \in 1 .. Len(proc) : proc'[q] \in Child
      BY <2>1, <2>3 DEF Child
    <2>5. proc' \in Seq(Child) /\ Len(proc') = Len(proc) /\ DOMAIN proc' = 1 .. Len(proc)
      BY <2>1, <2>2, <2>4
    <2>6. \A q \in DOMAIN proc : Alive(q)' <=> Alive(q) /\ q # cmd[p]
      BY <2>1, <2>2, <2>3, <2>5 DEF Alive, Child
    <2>. QED
      BY <2>2, <2>5, <2>6
  <1>3. mu[p] = "free" /\ cmd' = [cmd EXCEPT ![p] = 0] /\ initialized' = [initialized EXCEPT ![p] = FALSE]
    BY <1>1 DEF Closed
  <1>4. TypeOK'
    BY <1>1, <1>2, <1>3 DEF TypeOK, Child
  <1>5. LocksHeld'
    BY <1>1, <1>3 DEF LocksHeld, TypeOK
  <1>6. UpTracked'
    BY <1>1, <1>3 DEF UpTracked, TypeOK
  <1>7. HandleSpent'
    BY <1>1, <1>2, <1>3 DEF HandleSpent, TypeOK, Alive
  <1>8. OrphanHasCause'
    BY <1>1, <1>2, <1>3 DEF OrphanHasCause, TypeOK
  <1>9. OnlyChild' /\ SwappedAfterFirst'
    BY <1>1, <1>2, <1>3 DEF OnlyChild, SwappedAfterFirst, TypeOK
  <1>. QED
    BY <1>4, <1>5, <1>6, <1>7, <1>8, <1>9

\* A child binds, loads or dies: no dead child comes back.
LEMMA ChildSteps ==
  ASSUME LlamaInv, NEW q \in 1 .. MaxProc, Bind(q) \/ Load(q) \/ Crash(q)
  PROVE  LlamaInv'
  <1>. USE LlamaAssumption DEF LlamaInv, Provider
  <1>1. /\ q \in DOMAIN proc /\ Alive(q)
        /\ \E st \in {"boot", "loading", "serving", "dead"} : proc' = [proc EXCEPT ![q].st = st]
        /\ UNCHANGED <<cmd, initialized, mu, cur, call, main, abandoned, late>>
    BY DEF Bind, Load, Crash, Alive
  <1>2. /\ proc' \in Seq(Child) /\ Len(proc') = Len(proc) /\ DOMAIN proc' = DOMAIN proc
        /\ \A r \in DOMAIN proc : Alive(r)' => Alive(r)
    <2>1. proc \in Seq(Child)
      BY DEF TypeOK, Child
    <2>2. PICK st \in {"boot", "loading", "serving", "dead"} : proc' = [proc EXCEPT ![q].st = st]
      BY <1>1
    <2>3. proc[q] \in Child
      BY <1>1, <2>1
    <2>4. [proc[q] EXCEPT !.st = st] \in Child
      BY <2>3 DEF Child
    <2>5. proc' \in Seq(Child) /\ Len(proc') = Len(proc) /\ DOMAIN proc' = DOMAIN proc
      BY <1>1, <2>1, <2>2, <2>4
    <2>. QED
      BY <1>1, <2>1, <2>2, <2>5 DEF Alive
  <1>3. TypeOK' /\ LocksHeld'
    BY <1>1, <1>2 DEF TypeOK, LocksHeld, Child
  <1>4. UpTracked' /\ SwappedAfterFirst'
    BY <1>1 DEF UpTracked, SwappedAfterFirst
  <1>5. HandleSpent'
    BY <1>1, <1>2 DEF HandleSpent, Alive
  <1>6. OrphanHasCause' /\ OnlyChild'
    BY <1>1, <1>2 DEF OrphanHasCause, OnlyChild
  <1>. QED
    BY <1>3, <1>4, <1>5, <1>6

\* Every step preserves the invariant.
LEMMA LlamaStep == LlamaInv /\ [LNext]_vars => LlamaInv'
  <1>. SUFFICES ASSUME LlamaInv, [LNext]_vars PROVE LlamaInv'
    OBVIOUS
  <1>1. CASE UNCHANGED vars
    BY <1>1 DEF vars, LlamaInv, TypeOK, LocksHeld, UpTracked, HandleSpent, OrphanHasCause,
                OnlyChild, SwappedAfterFirst, Alive
  <1>2. ASSUME NEW c \in Caller, Pick(c) \/ Ensure(c) \/ Wait(c) \/ Cancelled(c) \/ Chat(c)
        PROVE  LlamaInv'
    BY <1>2, TurnSteps, SpawnStep, WaitSteps DEF Ensure, Wait
  <1>3. CASE Swap \/ CloseOld \/ Shutdown \/ CloseLast
    BY <1>3, GatewaySteps, CloseSteps
  <1>4. ASSUME NEW q \in 1 .. MaxProc, Bind(q) \/ Load(q) \/ Crash(q)
        PROVE  LlamaInv'
    BY <1>4, ChildSteps
  <1>. QED
    BY <1>1, <1>2, <1>3, <1>4 DEF LNext

\* The invariant of ensureServer, Close and the children around them.
THEOREM LlamaInvariant == LSpec => []LlamaInv
  <1>1. LInit => LlamaInv
    BY LlamaInit
  <1>2. LlamaInv /\ [LNext]_vars => LlamaInv'
    BY LlamaStep
  <1>. QED
    BY <1>1, <1>2, PTL DEF LSpec
\* The states are of their types: cmd.go's handles name children, the lock is
\* held by a turn or free, and no turn polls more than healthCheckLimit times.
THEOREM LlamaTypes == LSpec => []TypeOK
  <1>1. LlamaInv => TypeOK
    BY DEF LlamaInv
  <1>. QED
    BY <1>1, LlamaInvariant, PTL

\* A child outlives its provider only if its starter was cancelled or came
\* after the provider's replacement or Close.
THEOREM LlamaOrphans == LSpec => []OrphanHasCause
  <1>1. LlamaInv => OrphanHasCause
    BY DEF LlamaInv
  <1>. QED
    BY <1>1, LlamaInvariant, PTL

\* ensureServer starts one child at a time for a provider, and a provider that
\* counts as up can kill its child.
THEOREM LlamaTracked == LSpec => []UpMeansTracked
  <1>1. LlamaInv => UpMeansTracked
    <2>. SUFFICES ASSUME LlamaInv, NEW p \in Provider
                  PROVE  /\ initialized[p] => cmd[p] # 0 /\ mu[p] = "free"
                         /\ Cardinality({c \in Caller : call[c].p = p /\ call[c].pc \in {"poll", "stuck"}}) <= 1
      BY DEF UpMeansTracked
    <2>. DEFINE Starting == {c \in Caller : call[c].p = p /\ call[c].pc \in {"poll", "stuck"}}
    <2>1. Starting = {} \/ Starting = {mu[p]}
      BY DEF LlamaInv, LocksHeld
    <2>2. Cardinality(Starting) \in {0, 1}
      BY <2>1, FS_EmptySet, FS_Singleton
    <2>. QED
      BY <2>2 DEF LlamaInv, UpTracked
  <1>. QED
    BY <1>1, LlamaInvariant, PTL

\* Before any reload and without an abandoned child, the server that answers a
\* turn is the one its provider started.
THEOREM LlamaAnswers == LSpec => []AnswerIsOwn
  <1>1. LlamaInv => AnswerIsOwn
    <2>. SUFFICES ASSUME LlamaInv, NEW c \in Caller, NEW q \in DOMAIN proc,
                         call[c].pc = "chat", Serving(q), ~(cur > 1), abandoned = {}
                  PROVE  q = cmd[call[c].p]
      BY DEF AnswerIsOwn
    <2>a. MaxProvider \in Nat /\ cur \in 1 .. MaxProvider
      BY LlamaAssumption DEF LlamaInv, TypeOK, Provider
    <2>b. cur = 1
      BY <2>a
    <2>c. call[c].p \in 1 .. cur
      BY DEF LlamaInv, LocksHeld
    <2>1. cur = 1 /\ call[c].p = 1
      BY <2>b, <2>c
    <2>2. Alive(q)
      BY DEF Serving, Alive
    <2>. QED
      BY <2>1, <2>2 DEF LlamaInv, OnlyChild
  <1>. QED
    BY <1>1, LlamaInvariant, PTL
=============================================================================
