----------------------------- MODULE LlamaServer -----------------------------
(* The llama-server provider: agent turns share one child process through   *)
(* ensureServer, a reload replaces the provider and closes the old one, and *)
(* every child wants the same port.                                         *)
EXTENDS Integers, Sequences, FiniteSets

CONSTANTS
  Caller,      \* goroutines that run turns
  MaxProvider, \* providers made: one at start and one per reload
  MaxProc,     \* bound on the children spawned
  Polls        \* healthCheckLimit

ASSUME LlamaAssumption ==
  {MaxProvider, MaxProc, Polls} \subseteq Nat \ {0} /\ "free" \notin Caller

Provider == 1 .. MaxProvider

VARIABLES
  proc,        \* Seq([st, owner]): the children, external but for spawn and kill
  cmd,         \* [Provider -> index of p.cmd's child, 0 for nil]
  initialized, \* [Provider -> BOOLEAN]
  mu,          \* [Provider -> the caller that holds p.mu, or "free"]
  cur,         \* the provider the agent registry hands out
  call,        \* [Caller -> [pc, p, polls]]
  main,        \* "run" | "swapped" | "leaving" | "closed": the gateway
  abandoned,   \* ghost: children whose starter was cancelled while waiting
  late         \* ghost: children started on a provider replaced or closed

vars == <<proc, cmd, initialized, mu, cur, call, main, abandoned, late>>

Idle     == [pc |-> "idle", p |-> 0, polls |-> 0]
Alive(q) == q \in DOMAIN proc /\ proc[q].st # "dead"
\* The child that has the port; it answers 503 while it loads the model.
Holder(q)  == q \in DOMAIN proc /\ proc[q].st \in {"loading", "serving"}
Serving(q) == q \in DOMAIN proc /\ proc[q].st = "serving"

TypeOK ==
  /\ proc \in Seq([st : {"boot", "loading", "serving", "dead"}, owner : Provider])
  /\ Len(proc) <= MaxProc
  /\ cmd \in [Provider -> 0 .. Len(proc)]
  /\ initialized \in [Provider -> BOOLEAN]
  /\ mu \in [Provider -> Caller \cup {"free"}]
  /\ cur \in Provider
  /\ call \in [Caller -> [pc : {"idle", "want", "poll", "chat", "stuck"},
                          p : 0 .. MaxProvider, polls : 0 .. Polls]]
  /\ main \in {"run", "swapped", "leaving", "closed"}
  /\ abandoned \cup late \subseteq DOMAIN proc

LInit ==
  /\ proc = <<>> /\ cmd = [p \in Provider |-> 0]
  /\ initialized = [p \in Provider |-> FALSE]
  /\ mu = [p \in Provider |-> "free"]
  /\ cur = 1
  /\ call = [c \in Caller |-> Idle]
  /\ main = "run"
  /\ abandoned = {} /\ late = {}

----------------------------------------------------------------------------
(* Turns                                                                   *)

\* A turn picks the registry's provider; a reload may replace it at once.
Pick(c) ==
  /\ call[c].pc = "idle"
  /\ call' = [call EXCEPT ![c] = [pc |-> "want", p |-> cur, polls |-> 0]]
  /\ UNCHANGED <<proc, cmd, initialized, mu, cur, main, abandoned, late>>

\* ProcessState is set by Wait alone, and only Close waits, which also clears
\* p.cmd: a child that died by itself is never known to have exited.
KnownExited(p) == FALSE

\* ensureServer on a server believed to be up.
AlreadyUp(c) ==
  LET p == call[c].p IN
  /\ call[c].pc = "want" /\ mu[p] = "free"
  /\ initialized[p] /\ ~KnownExited(p)
  /\ call' = [call EXCEPT ![c].pc = "chat"]
  /\ UNCHANGED <<proc, cmd, initialized, mu, cur, main, abandoned, late>>

\* The model is not found or the binary does not start: an error.
StartFails(c) ==
  LET p == call[c].p IN
  /\ call[c].pc = "want" /\ mu[p] = "free"
  /\ ~initialized[p] \/ KnownExited(p)
  /\ initialized' = [initialized EXCEPT ![p] = FALSE]
  /\ call' = [call EXCEPT ![c] = Idle]
  /\ UNCHANGED <<proc, cmd, mu, cur, main, abandoned, late>>

\* A mutant of Spawn: the lock is not held while the server comes up.
SpawnUnlocked(c) ==
  LET p == call[c].p IN
  /\ call[c].pc = "want" /\ mu[p] = "free" /\ ~initialized[p]
  /\ Len(proc) < MaxProc
  /\ proc' = Append(proc, [st |-> "boot", owner |-> p])
  /\ cmd' = [cmd EXCEPT ![p] = Len(proc) + 1]
  /\ call' = [call EXCEPT ![c].pc = "poll"]
  /\ late' = IF p = cur /\ main # "closed" THEN late ELSE late \cup {Len(proc) + 1}
  /\ UNCHANGED <<initialized, mu, cur, main, abandoned>>

\* ensureServer takes the lock and starts a child.
Spawn(c) ==
  LET p == call[c].p IN
  /\ call[c].pc = "want" /\ mu[p] = "free"
  /\ ~initialized[p] \/ KnownExited(p)
  /\ Len(proc) < MaxProc
  /\ mu' = [mu EXCEPT ![p] = c]
  /\ proc' = Append(proc, [st |-> "boot", owner |-> p])
  /\ cmd' = [cmd EXCEPT ![p] = Len(proc) + 1]
  /\ initialized' = [initialized EXCEPT ![p] = FALSE]
  /\ call' = [call EXCEPT ![c].pc = "poll"]
  /\ late' = IF p = cur /\ main # "closed" THEN late ELSE late \cup {Len(proc) + 1}
  /\ UNCHANGED <<cur, main, abandoned>>

\* The health check asks whoever has the port.
Healthy(c) ==
  LET p == call[c].p IN
  /\ call[c].pc = "poll" /\ call[c].polls < Polls
  /\ \E q \in DOMAIN proc : Serving(q)
  /\ initialized' = [initialized EXCEPT ![p] = TRUE]
  /\ mu' = [mu EXCEPT ![p] = "free"]
  /\ call' = [call EXCEPT ![c].pc = "chat"]
  /\ UNCHANGED <<proc, cmd, cur, main, abandoned, late>>

\* A mutant of Cancelled: the early return leaves the lock taken.
CancelledLocked(c) ==
  LET p == call[c].p IN
  /\ call[c].pc = "poll" /\ call[c].polls < Polls
  /\ call' = [call EXCEPT ![c] = Idle]
  /\ abandoned' = abandoned \cup {cmd[p]}
  /\ UNCHANGED <<proc, cmd, initialized, mu, cur, main, late>>

\* The turn's context is done: the child is left as it is.
Cancelled(c) ==
  LET p == call[c].p IN
  /\ call[c].pc = "poll" /\ call[c].polls < Polls
  /\ mu' = [mu EXCEPT ![p] = "free"]
  /\ call' = [call EXCEPT ![c] = Idle]
  /\ abandoned' = abandoned \cup {cmd[p]}
  /\ UNCHANGED <<proc, cmd, initialized, cur, main, late>>

\* A mutant of Unhealthy: one poll too many.
UnhealthyOnceMore(c) ==
  /\ call[c].pc = "poll" /\ call[c].polls <= Polls
  /\ ~ \E q \in DOMAIN proc : Serving(q)
  /\ call' = [call EXCEPT ![c].polls = @ + 1]
  /\ UNCHANGED <<proc, cmd, initialized, mu, cur, main, abandoned, late>>

Unhealthy(c) ==
  /\ call[c].pc = "poll" /\ call[c].polls < Polls
  /\ ~ \E q \in DOMAIN proc : Serving(q)
  /\ call' = [call EXCEPT ![c].polls = @ + 1]
  /\ UNCHANGED <<proc, cmd, initialized, mu, cur, main, abandoned, late>>

\* Out of polls ensureServer calls Close, which takes the lock it holds: the
\* call hangs, and with it all that will ever want this lock.
GiveUp(c) ==
  /\ call[c].pc = "poll" /\ call[c].polls = Polls
  /\ call' = [call EXCEPT ![c].pc = "stuck"]
  /\ UNCHANGED <<proc, cmd, initialized, mu, cur, main, abandoned, late>>

\* The request goes to the port: whoever serves there answers, and with nobody
\* there it is an error.
Chat(c) ==
  /\ call[c].pc = "chat"
  /\ call' = [call EXCEPT ![c] = Idle]
  /\ UNCHANGED <<proc, cmd, initialized, mu, cur, main, abandoned, late>>

----------------------------------------------------------------------------
(* The gateway and the children                                            *)

\* A mutant of Closed: the handle is dropped and the child left running.
ClosedUnkilled(p) ==
  /\ mu[p] = "free"
  /\ cmd' = [cmd EXCEPT ![p] = 0]
  /\ initialized' = [initialized EXCEPT ![p] = FALSE]
  /\ UNCHANGED proc

\* Close: under the lock, kill the child and wait for it.
Closed(p) ==
  /\ mu[p] = "free"
  /\ proc' = [q \in DOMAIN proc |->
                IF q = cmd[p] THEN [proc[q] EXCEPT !.st = "dead"] ELSE proc[q]]
  /\ cmd' = [cmd EXCEPT ![p] = 0]
  /\ initialized' = [initialized EXCEPT ![p] = FALSE]

\* ReloadProviderAndConfig swaps the registry and then closes the old provider.
Swap ==
  /\ main = "run" /\ cur < MaxProvider
  /\ cur' = cur + 1 /\ main' = "swapped"
  /\ UNCHANGED <<proc, cmd, initialized, mu, call, abandoned, late>>

CloseOld ==
  /\ main = "swapped" /\ Closed(cur - 1)
  /\ main' = "run"
  /\ UNCHANGED <<mu, cur, call, abandoned, late>>

Shutdown ==
  /\ main = "run" /\ main' = "leaving"
  /\ UNCHANGED <<proc, cmd, initialized, mu, cur, call, abandoned, late>>

\* The services are stopped after the provider, and turns go on until the
\* process ends.
CloseLast ==
  /\ main = "leaving" /\ Closed(cur)
  /\ main' = "closed"
  /\ UNCHANGED <<mu, cur, call, abandoned, late>>

\* A child binds the port before it loads the model, or finds it taken and
\* exits; it dies whenever it likes.
Bind(q) ==
  /\ q \in DOMAIN proc /\ proc[q].st = "boot"
  /\ proc' = [proc EXCEPT ![q].st =
                IF \E o \in DOMAIN proc : Holder(o) THEN "dead" ELSE "loading"]
  /\ UNCHANGED <<cmd, initialized, mu, cur, call, main, abandoned, late>>

Load(q) ==
  /\ q \in DOMAIN proc /\ proc[q].st = "loading"
  /\ proc' = [proc EXCEPT ![q].st = "serving"]
  /\ UNCHANGED <<cmd, initialized, mu, cur, call, main, abandoned, late>>

Crash(q) ==
  /\ Alive(q)
  /\ proc' = [proc EXCEPT ![q].st = "dead"]
  /\ UNCHANGED <<cmd, initialized, mu, cur, call, main, abandoned, late>>

Ensure(c) == AlreadyUp(c) \/ StartFails(c) \/ Spawn(c)
Wait(c)   == Healthy(c) \/ Unhealthy(c) \/ GiveUp(c)

LNext ==
  \/ \E c \in Caller : Pick(c) \/ Ensure(c) \/ Wait(c) \/ Cancelled(c) \/ Chat(c)
  \/ Swap \/ CloseOld \/ Shutdown \/ CloseLast
  \/ \E q \in 1 .. MaxProc : Bind(q) \/ Load(q) \/ Crash(q)

\* Turns and the gateway go on, and the mutex hands itself to a goroutine that
\* keeps waiting (sync.Mutex's starvation mode), hence the strong fairness.
\* Nobody has to start a turn, reload or shut down, and no child has to load.
LFairness ==
  /\ \A c \in Caller : SF_vars(Ensure(c) \/ Wait(c) \/ Chat(c))
  /\ SF_vars(CloseOld \/ CloseLast)

LSpec == LInit /\ [][LNext]_vars /\ LFairness

----------------------------------------------------------------------------
(* Properties                                                              *)

\* A running child is the one its current provider can still kill, or that of
\* the provider a reload is about to close.  Two ways lead elsewhere: a turn
\* cancelled while the child came up, and a turn that reached a provider after
\* its replacement or its Close.
OrphanHasCause ==
  \A q \in DOMAIN proc : Alive(q) =>
    \/ q \in abandoned \cup late
    \/ q = cmd[cur]
    \/ main = "swapped" /\ q = cmd[cur - 1]

\* A provider that counts its server as up has a child to kill, and no caller
\* is in the middle of starting another: one child comes up at a time.
UpMeansTracked ==
  \A p \in Provider :
    /\ initialized[p] => cmd[p] # 0 /\ mu[p] = "free"
    /\ Cardinality({c \in Caller : call[c].p = p /\ call[c].pc \in {"poll", "stuck"}}) <= 1

\* A turn is answered by the server its own provider started.  Only a reload
\* or an abandoned child puts another one, with another model, on the port.
AnswerIsOwn ==
  \A c \in Caller, q \in DOMAIN proc :
    call[c].pc = "chat" /\ Serving(q) =>
      q = cmd[call[c].p] \/ cur > 1 \/ abandoned # {}

Stuck(p) == \E c \in Caller : call[c].pc = "stuck" /\ call[c].p = p

\* Whoever wants a server gets it or an error, unless a health check ran out
\* on the same provider.
EnsureReturns ==
  \A c \in Caller : call[c].pc = "want" ~>
    call[c].pc \in {"chat", "idle", "stuck"} \/ Stuck(call[c].p)

\* A reload and the shutdown get past Close, unless a health check ran out.
CloseReturns ==
  main \in {"swapped", "leaving"} ~> main \in {"run", "closed"} \/ \E p \in Provider : Stuck(p)

\* provider.go: "Check if process is still alive".  A turn is let through to a
\* server believed to be up only while its child lives.
UpMeansAlive ==
  [][\A c \in Caller :
       call[c].pc = "want" /\ call'[c].pc = "chat" => Alive(cmd[call[c].p])]_vars
=============================================================================
