# Uno-QClaw in TLA+

A TLA+ model of the parts of Uno-QClaw where state is shared, steps interleave
or files must survive a crash, model-checked with TLC and, where it says so,
proved with TLAPS. Paths are relative to the repository's `src/`.

Contents: [the system](#the-system), [inventory](#inventory),
[modules](#modules-and-the-code-they-model), [runs](#runs),
[fairness](#fairness), [findings](#what-the-checks-found),
[proofs](#what-is-proved), [limits](#what-is-not-shown),
[not modelled](#not-modelled).

## The system

Uno-QClaw is a Go program that runs an LLM agent on a small board. `qclaw
gateway` (`cmd/qclaw/internal/gateway/helpers.go`) is one process:

    platform -> channel adapter -> bus (inbound) -> agent loop -> provider -> llama-server child
                                                       |  |
                       session files (JSONL)  <--------+  +--> bus (outbound, outboundMedia)
                                                                 |
    platform <- adapter <- worker <- worker queue <- dispatcher <-+
                     cron run loop, heartbeat, devices, subagents: more publishers on the bus

Each arrow is a goroutine boundary, a Go channel, a lock or a file. The main
goroutine watches the configuration file; when it changes it stops every
service, swaps the provider, and makes new services on the same bus.

The llama-server child (`engines/llamacli/llama.cpp/tools/server`) is C++: a
thread per HTTP request, one main thread that owns the slots, and two queues
between them.

## Inventory

State, operations and interactions of each component, what is hard about it,
and what makes it correct. `PROJECT.json` lists every component, with the
reason for those that are not modelled, and every hazard at its line.

| component | state | operations | interacts with | hard | correct when |
|---|---|---|---|---|---|
| JSONL session store `pkg/memory/jsonl.go`, adapter `pkg/session/jsonl_backend.go` | per session a `.jsonl` file and a `.meta.json` (summary, skip, count) | AddMessage, GetHistory, SetSummary, TruncateHistory, SetHistory, Compact | agent loop, summarizer; `fileutil.WriteFileAtomic` | two files, a crash or an error between the writes; torn appends; stale counts | acknowledged messages stay readable; every operation is atomic to its callers |
| message bus `pkg/bus/bus.go` | three buffered channels, `done`, `closed` | Publish*, Consume/Subscribe*, Close | every publisher, agent loop, dispatchers | full buffers, close racing publishers | nothing accepted is lost while served |
| channel manager `pkg/channels/manager.go` | channels, workers with two queues each, dispatch context; typing, reaction and placeholder maps | StartAll, StopAll, dispatchLoop, runWorker, sendWithRetry, preSend, SendMessage, janitor | bus, platforms, agent, gateway | two dispatchers and 2n workers against StopAll; ambiguous failures and retries; two managers on one bus | order, no resend of a delivered part, loss only with a cause, StopAll ends |
| gateway `cmd/qclaw/internal/gateway/helpers.go` | the services, the provider, the watcher's last seen file | set-up, reload, restart, shutdown, watcher poll | all | partial failure of a restart; contexts; lost configuration versions | services serve after a reload |
| llama-server provider `pkg/providers/llamaserver/provider.go` | `cmd`, `initialized`, `modelPath`, `mu` | ensureServer, Chat(Stream), WarmUp, Close | child process on a fixed port, agent loop, reload | child dies, start is slow or cancelled, reload races turns | one child, known and killed; callers return |
| inference server `engines/llamacli/llama.cpp/tools/server/server-{queue,context}.cpp` | task queue, deferred queue, slots; ids waited for and their results; running, sleeping | post, defer, launch, update_slots, cancel, sleep, terminate; the reader's post, next, stop | HTTP threads and the main thread through two mutexes; llama-server provider | cancels at every point of a task's way, children of one prompt, requests that may not share a batch, tasks that only a released slot wakes | a task is in one place, answered once, never lost while waited for; slots are freed |
| cron `pkg/cron/service.go`, tool `pkg/tools/cron.go`, CLI `cmd/qclaw/internal/cron` | job table, `jobs.json`, run loop | Start, Stop, checkJobs, executeJobByID, Add/Update/Remove/EnableJob | agent (jobs run turns), CLI processes | jobs run outside the lock, stale copies, crash between save and run, several writers | one-shot once, enabled jobs armed, removals final, file follows table |
| agent loop `pkg/agent/loop.go` | registry, provider, running, summarizing | Run, processMessage, runAgentLoop, runLLMIteration, summarizeSession, forceCompression, ReloadProviderAndConfig | bus, sessions, tools, provider | read-compute-replace on histories by concurrent goroutines | a message of a turn is in the history or in a summary |
| tools `pkg/tools/{message,registry,subagent}.go` | sent-in-round flag, lifetimes of found tools, tasks | Execute, Promote/Tick, Spawn/runTask | agent loop, bus | a flag per agent, shared by its turns | one answer per turn |
| fallback and cooldown `pkg/providers/{fallback,cooldown}.go` | per provider error counts and deadlines | Execute, MarkFailure, MarkSuccess, IsAvailable | agent loop | results older than the state they update | a failing provider rests, a chain ends |
| media store `pkg/media/store.go` | refs, scopes | Store, Resolve, ReleaseAll, CleanExpired | channels, agent | files deleted outside the lock | a live reference has its file |
| legacy sessions `pkg/session/manager.go`, `pkg/memory/migration.go` | in-memory sessions, JSON files | Save, load, migrate | agent loop, start-up | snapshots renamed out of order | the newest snapshot wins |
| heartbeat, devices, state, health | a ticker; an event loop; two strings; flags | Start, Stop, set, get | bus, agent | start/stop | small |
| the rest: provider adapters, channel adapters, MCP, routing, configuration, auth, skills, commands, voice, utilities, launchers, vendored engines | | | | I/O, parsing or third-party | |

## Modules and the code they model

`PROJECT.json` maps each definition to its lines. Names follow the Go names
where an action is a function; a function that can be overtaken between two
of its steps is one action per step, with a program counter.

**`SessionHistory`** is the abstract specification of a session store
(`pkg/memory/store.go`, `pkg/session/jsonl_backend.go`): a history and a summary,
atomic operations, and the effects an interrupted one may have. It keeps the
messages truncated but not yet reclaimed (`gone`), because an interrupted
compaction brings them back, and whether the log is torn.

**`JsonlStore`** is one session of the store. `file` and `open` are the lines
and whether the last one lacks its newline, `meta` is the metadata file, `op`
is the operation under the session's lock with its locals. An append is
`AppendLine` or `TearAppend` (the write stops somewhere), then `CountLine`;
SetHistory and Compact are their metadata write and `Rewrite`; `ReadLine` is a
turn of `readMessages`' loop, `Messages` the whole of it. `Interrupt` between any two is a crash or a
returned error: both leave the files and free the lock. A JSON line is a
message or `Corrupt`; `WriteFileAtomic` (temporary file, fsync, rename) is one
step. `acked`, `glued` and `tears` are history variables of the properties.
`Promise` is the refinement mapping onto `SessionHistory`: `gone` and `hist` are the
messages of the lines before and after the offset, and while an operation is
between its two writes the caller still sees the offset from before
(`SkipSeen`).

**`ChannelManager`** is the outbound path. The bus is `bus[kind]`, bounded; each
generation `g` of the manager has two dispatchers `disp[g, kind]`
(`Subscribe`, `LookUp` under the manager's lock, `Enqueue`), a worker per channel
and kind (`Take`, `Admit` = rate limiter and preSend, `Send`, `BackOff`) and the
caller of the synchronous `SendMessage` as one more sender. `main` is the
gateway's goroutine: StopAll as `BeginStop`, `CloseTextQueues`,
`CloseMediaQueues`, `StopChannels` with the waits between, then `Leave`,
`RestartFails`, or `Restart` and `RestartReturns` (its deferred cancel). A
select whose cases are ready together takes either; a send on a closed queue
is ready and panics (`crashed`). A platform is the environment: a call
succeeds, fails for good, or fails in a way that is retried and may have
reached the platform all the same. Media for a channel that is not in
`MediaSender` is passed over without a call (`Supported`).

**`LlamaServer`** is the provider and what surrounds it. `call[c]` is a turn's
way through ensureServer and the request; a caller at `poll` holds `mu`. `proc`
are the children, which boot, take the port or die, load, serve and crash as
they like. `Swap` and `CloseOld` are the reload's two halves, `Shutdown` and
`CloseLast` the beginning of the gateway's end: the provider is closed first and
turns go on until the process is gone. A reload that fails before the swap
leaves all this as it was and is not modelled.

**`CronService`** has one table per service `s`, the file they share, a run loop
per service (`checkJobs`, then `Begin` and `End` around each callback), the
operations of the tool, and the CLI. A reload makes the next service while the
old one's loop may still be in a callback; `Crash` empties every table. `Commit`
is the save at the end of each critical section, which may fail. A job is on or
off and armed for a time; ids are fresh, as `generateID` makes them. A one-shot
job has a time `At`, which may be past when it is added (the tool cuts a
fraction of a second to nothing); a periodic one runs until `Until`: 0 is an
interval that is not positive or an expression without a next time, which
`computeNextRun` takes without an error. `ended` remembers the jobs whose schedule
had nothing left when it was last asked.

**`InferenceServer`** is llama-server's scheduler. `queue` and `deferred` are
`server_queue`'s, `waiting` and `results` are `server_response`'s, `slot` the
slots with their state and the updates they have had. The main thread is at
`main`: `Take` and the handlers (`HandleCancel`, `Defer`, `LaunchTask`,
`LaunchFails`, `Undo`) are `start_loop` and `process_single_task`; `Drained`,
`ShiftFails`, `StartBatch`, `FillBatch`, `Decode` or `DecodeFails` with `FailSlot`, and
`Sample` are `update_slots`, whose loops go over `todo` slot by slot, because an
HTTP thread may post or cancel between two slots. The batch starts with the
generations that go with the first one (`Joined`); prompts are added only with
`ContBatching` or if nobody generates, only if their adapters go with it (`Lora`),
and only while it holds fewer than `NBatch` generations; `DecodeNothing` is the kill switch that
aborts after four empty batches. `FallAsleep` and `LeaveSleep` are the idle
sleep, `Terminate` the signal. An HTTP thread is at `reader[r]`: it waits for
the server to be awake, adds its ids, posts its task, reads results, may give
up, stops and cancels. A request is one task with `NChildren` others for the
same prompt, which travel inside it and share its decoded prompt. What a batch
computes is left out: a prompt takes some updates, a generation some more, and
each may fail. A generation puts one token in the batch and a prompt takes what
room is left, so `NBatch` is compared with the number of generations.

**`AgentSession`** is one session and all who write to it: the turn of
`AgentLoop.Run` with `processMessage`, `runAgentLoop` and `runLLMIteration`
(`pc`), the summarizer it starts (`sum`), a crash, and turns of other sessions
that share the message tool's flag. Every agent has a message tool of its own;
`shared` says whether the one that Run looks at, the default agent's, is that
of the turn: not if the message was routed to another agent, nor after a
`Reload` in the middle of the turn. The answer to a system message goes to the
channel "system", which no platform serves. `Oversized` are the messages longer
than half the context window, which the summarizer leaves out of the summary
and truncates with the rest (`Omitted`). Every call on the session store is a step,
as `SessionHistory` promises, and an append may fail unnoticed. `Sanitize` is
`sanitizeHistoryForProvider`, both of its passes. A message has a number and a
role, and one tool call at most; a summary is the set of numbers it tells of,
so that a property can say what was forgotten. `said`, `excused`, `late`,
`erased`, `haunted`, `foreign` and `swallowed` are history variables: they name
the causes that the properties admit.

**`MC*`** instantiate these for TLC, **`*Proof`** hold the proofs; `AgentHistoryProof`
those about `AgentSession` that speak of whole histories, and `FoldLemmas` what the
proofs about recursive functions and folds rest on.

The modules contain, next to the definitions of the code, variants of some of
them, commented as a plausible bug or a mutant. No specification uses them:
each shows that a property notices the bug, by being put in place of the
definition it varies (`mutants` in `PROJECT.json`).

## Runs

| run | question | bounds, and why they are enough |
|---|---|---|
| `jsonl_store` | do acknowledged messages survive interruptions, and does the store implement `SessionHistory`? | 4 lines, 4 messages (3 symmetric), 2 torn appends: a torn append, its victim, the repair and a second tear fit; truncation by 0, 1, 2 meets empty, shorter and longer histories; replacement by nothing and by one message |
| `channel_manager` | order, no resend, one worker per channel, panics | one channel (order and queues are per channel), text only, 3 messages: one in two parts from cron, one the agent sends synchronously, and its reply; bus and queue of one, so that both fill; one retry; two generations, the second with the channel up, failing to start, or not configured |
| `channel_media` | what is lost, and media that a channel does not take; does the path come to rest, does StopAll end? | media only; two channels behind one dispatcher, of which one takes no media; four messages, bus and queues of one: three fill a worker, its queue and the dispatcher's hand, with the other channel's behind them; one generation |
| `stop_drains`, `serves_after_reload` (violated) | does StopAll drain; does a reloaded manager serve? | as `channel_manager` |
| `llama_server` | orphans, whose answer, return of callers and of Close | 2 callers, one reload, 3 children (one each, one after a cancel), one poll |
| `llama_crash` (violated) | is a dead child noticed? | the same |
| `inference_server` | one place, one answer, no loss, nothing left behind, children and parents, the kill switch, answers, freed slots | two slots and two requests: one with a child, so that it takes both slots, one that wants slot 1, streams and generates without end: each can have to wait for the other; a prompt takes up to two updates; sleeping on; no prompt meets another's generation, so cont_batching makes no difference here |
| `inference_batch` | is a prompt beside an endless generation answered, with cont_batching? | two slots, three requests: one in slot 2, two endless ones that take turns in slot 1, of which one goes with it and fills the batch, which keeps a prompt out as cont_batching off would, and one has other adapters |
| `deferred_served` (violated) | is a deferred task served once slots are idle? | one slot, three requests: one runs, one is popped and fails to launch, one stays |
| `agent_session` | what may be forgotten, what stays cleared, what a prompt looks like, when a turn is answered once | 3 turns, 6 messages, the second one oversized, one fault (a failed append or a crash); a summary keeps 2 messages and starts above 3, so that a turn after it can be compressed and summarised again; 2 rounds, one compression retry |
| `cron_service` | one-shot once, armed, written through, removals | a one-shot job with a command, due at 2, and a periodic job whose schedule ends at 3; times up to 3; two services, one fault (failed save, crash or CLI command) |

What each property says stands above its definition. Every run switches
deadlock checking off, because each system may rightly stop: the file is full
of its bound, the process has left or panicked, every message is settled, the
clock is at its bound.

Bounds are `MaxLines`, `MaxTears`, `MaxGen`, `MaxProvider`, `MaxProc`, `MaxTime`,
`MaxSvc`, `MaxFaults`, `MaxSteps`, `MaxTurns`, `MaxMessages`, and one unread partial
result per slot (`Unread` in `Sample`); `BusCap`, `QueueCap`, `MaxRetries`, `Polls`,
`NSlots`, `Threshold`, `PartLimit`, `MaxRounds` and `KeepLast` are constants of the
code made small. `KeepLast` stands for two constants that are both 4: what a
summary leaves, and what is too short to compress. `At`, `Until`, `Oversized`,
`MediaSender`, `Lora`, `ContBatching` and `NBatch` are inputs and settings, `Endless`
the requests without a token limit.

## Fairness

`JsonlStore`, `CronService` and `AgentSession` are checked for safety only.

`InferenceServer`: weak fairness for the main thread, which is a loop that
blocks only where no step is enabled, and for every HTTP thread once its request
has arrived (`Awake`, `AddWaiting`, `Post`, `Recv`, `Stop`, `PostCancels`). No fairness for
what comes from outside: a request need not arrive (`Arrive`), its client need
not leave (`GiveUp`), the server need not fall asleep or be terminated. A
generation that has a limit ends after `MaxSteps` updates that take part in it;
the requests in `Endless` have none, and `Answered` claims nothing of them. An
endless generation may keep others waiting for ever; the causes that `Answered`
and `SlotsFreed` admit are stated as `<>[]`: only what lasts for good excuses.

`ChannelManager`: weak fairness for each dispatcher, worker and caller (the Go
scheduler runs what can run, and a call to a platform returns: every adapter
has a timeout), and for the main goroutine once it has begun to stop or restart.
A message need not be issued and the gateway need not be stopped.

`LlamaServer`: strong fairness for a caller's steps and for Close. A health
check's GET (provider.go:416) has no timeout of its own and is taken to return:
llama-server answers it from a thread pool, with an error while it loads. The
steps compete for `p.mu`, which other turns take again and again, so weak
fairness would not do; `sync.Mutex` hands itself to a waiter after a millisecond
(starvation mode). Nobody has to start a turn, and no child has to load.

## What the checks found

Four statements of the repository's comments are violated by what the code
does, each with a run:

| run | statement | what the code does |
|---|---|---|
| `stop_drains` | StopAll drains the queues | it cancels the workers' context first |
| `serves_after_reload` | services restart under an independent context | that context ends as the restart returns |
| `llama_crash` | ensureServer checks that the process is alive | a child that died by itself is never known to have exited |
| `deferred_served` | deferred "until one slot is available" | the one task a freed slot wakes may fail to launch, or be cancelled first, and nobody wakes the next |

Others were met while modelling and shaped a property instead: it holds up to
a cause that it names.

| where | what happens | named by |
|---|---|---|
| JSONL append | the one after a torn one shares its line and is skipped when read, "crash-safe" or not | `GluedBounded`, `AckedVisible` |
| ensureServer | a failed health check calls Close under the lock that Close takes | `EnsureReturns`, `CloseReturns` (`stuck`) |
| ensureServer | while a reload has not closed the old server, that one answers the new one's health check and turns | `AnswerIsOwn` (`cur > 1`) |
| StopAll | a second one, or a dispatcher at a closed queue, panics | `PanicNeedsStop` |
| cron's checkJobs | overwrites what a `qclaw cron` command wrote | `WrittenThrough` (`foreign`) |
| TruncateHistory | counts lines that do not parse | `TruncateKeepsLast` |
| Compact | does not mend an interrupted Compact | `HResurrect` |
| server_queue | a request cancelled while its task is in the main thread's hand runs on for nobody | `SlotsFreed`, `ChildHasParent` (`escaped`) |
| update_slots | an empty prompt with n > 1 leaves children waiting until the kill switch aborts the server | `Answered`, `AbortHasCause` (`LeftAlone`) |
| wait_until_no_sleep | the server falls asleep between the question and the post: nobody wakes it | `Answered` (`sleeping`) |
| update_slots | generations keep a prompt out of the batch: without cont_batching, by their adapters or by their number | `Answered`, `SlotsFreed` (`KeptOut`) |
| summarizer | truncates messages added while the model worked | `LossBounded` (`late`) |
| summarizer | forgets the old summary with two batches or a failed model call | `LossBounded` (`excused`) |
| ClearHistory | a summarizer at work summarises what was cleared | `StaysCleared` (`haunted`) |
| Run | asks the default agent's message tool, whoever's turn it was: a second answer, or none | `AnsweredByOne` (`shared`) |
| summarizer | leaves oversized messages out of the summary and truncates them | `LossBounded` (`Omitted`) |
| sendMediaWithRetry | drops media for a channel that takes none, without an error | `LossHasCause` (`Supported`) |
| computeNextRun | a schedule without a next time leaves a job enabled and never run | `NeverDormant` (`ended`) |
| sanitizing | a result whose call was not appended passes unpaired | `PromptWellFormed` (`swallowed`) |

A background task's answer is published twice, but the second time to the
channel "system", where the dispatcher drops it; if its turn fails, nobody hears
of the error.
`PROJECT.json` quotes the lines.

## What is proved

Each theorem holds for every value of the constants that satisfies the named
assumption of its module (`JsonlAssumption`, `ManagerAssumption`, `LlamaAssumption`,
`CronAssumption`, `InferenceAssumption`, `AgentAssumption`), whatever the number of
channels, children, services, requests, slots, messages and faults.

| module | theorems |
|---|---|
| `JsonlStoreProof` | `StoreInvariant`; `StoreTypes`; `SkipNeverExceedsFile`: the offset never points past the file; `AcknowledgedStaysVisible`: what was acknowledged on an intact log is returned until truncated or replaced; `LossIsBounded`: a torn append costs at most one acknowledged message; `TruncateKeepsTheLast` (`TruncateKeepsLast`); `StoreKeepsPromise`: the store implements `SessionHistory` |
| `ChannelManagerProof` | `ManagerInvariant`; `ManagerTypes`; `ManagerPanics` (`PanicNeedsStop`); `ManagerWorkers` (`OneWorkerAlive`); `ManagerResends` (`NoResend`); `ManagerLines`, and with it `ManagerArrivals` (`ArrivalOrder`); `ManagerFirst`, and with it `ManagerLosses` (`LossHasCause`) |
| `LlamaServerProof` | `LlamaInvariant`; `LlamaTypes`; `LlamaOrphans` (`OrphanHasCause`); `LlamaTracked` (`UpMeansTracked`); `LlamaAnswers` (`AnswerIsOwn`) |
| `CronServiceProof` | `CronInvariant`; `CronTypes`; `CronOnce` (`OneShotOnce`); `CronAwake` (`NeverDormant`); `CronWritten` (`WrittenThrough`); `CronRemoved` (`StaysRemoved`) |
| `InferenceServerProof` | `ServerInvariant`; `ServerTypes`; `ServerOnePlace` (`OnePlace`); `ServerAnswersOnce` (`AnsweredOnce`); `ServerLosesNone` (`NoneLost`); `ServerClean` (`NoResidue`); `ChildrenWatched`, and with it `ServerChildHasParent` (`ChildHasParent`) and `ServerAbortHasCause` (`AbortHasCause`) |
| `AgentSessionProof` | `OneAnswer` (`AnsweredByOne`); `ClearedForGood` (`StaysCleared`) |
| `AgentHistoryProof` | `AgentTypes`; `PromptAlwaysPaired` (`PromptWellFormed`); `LossIsBounded` (`LossBounded`) |

Every invariant and every action property that a passing run checks is stated by
one of these theorems but `OneBatch`, and so is the refinement. A theorem says no
more than its property, with the causes named there. `StoreInv` and `UpMeansTracked`
are proved without a run.

Hardly any of these properties is inductive alone. What each inductive
invariant adds is what the code relies on without saying so:

- `StoreInv`: an append about to be counted has its line in place (`AddInv`);
  the messages Compact has collected are those of the lines it has read
  (`ReadInv`); once the offset is reset nothing acknowledged is missing from what
  is about to be written (`RewriteInv`); the open last line belongs to no message
  that counts as safe (`OpenInv`), which is why the append that destroys it
  costs nothing more; the victims so far, plus the one in the making, are at
  most the tears (`TearInv`). For the refinement the same must hold of sequences:
  what Compact has collected is the messages of the lines it has read, in their
  order, and what is about to be written is what a caller sees or has asked for
  (`OrderInv`). On top of it each step
  is shown to be a step of the promise or not to be seen: an append adds a
  message or, on a torn line, loses the newest; Compact and SetHistory take
  effect at their second write, and interrupted before it bring back what was
  truncated. The lemmas say what `Messages` makes of a slice of the file: of one
  more line, of two slices put together, of a spoilt last line.
- `ManagerInv`: a generation not made yet has nothing, one whose context lives
  was not stopped, and by each step of StopAll its workers are gone (`Frame`); a
  message is only where its kind and channel take it (`OnRoute`); it is in one
  place on its way - the bus, a dispatcher's hands, a queue - and not sent before
  (`OneWay`); and of the part a worker is sending, the platform has at most
  failed calls and earlier parts (`Progress`). `NoResend` follows from the last
  two: two workers of one channel would need the same message twice.
  `InOrder` lines up, per channel and kind, the message last sent, the one being
  sent, the worker's queue, the dispatcher's hand and the bus in the order of
  issue, across a reload; the order of arrival is its first two places. `First`
  says that until something is cancelled the first manager and all its workers
  are there, so that a message can only leave the line at its end.
- `LlamaInv`: who holds the lock and what it has started; each child has one
  provider; a provider that is up or coming up has the child it would kill.
- `CronInv`: a loop takes a job once (`DueDistinct`), only the newest service runs
  (`Unmade`), a one-shot job is armed for its own time or not at all (`OwnTime`),
  so that, once taken, its time has come and no recomputation arms it again
  (`TakenInTime`); at most one loop has yet to run it (`OneLoop`); and what the
  newest service may still take, now or through a stale copy, has not run and
  is in no other loop's hands (`ArmedOnce`). The file matters as much as the
  table: a successor loads it.
- `ServiceInv`: while a task is queued or in hand, nothing of it was begun
  (`Placed`); slots share no task (`Apart`) and one that works on a task still
  owes its final result (`Owed`); what waits to be read comes before the id's
  final result (`Ordered`); cancels are of readers that are gone (`Called`); a
  launch is undone for a request that gets an error (`Undoing`); what a reader
  waits for is pending, in a slot or answered (`Kept`, `Awaited`). The proof has a
  lemma per action of the main thread and of the reader, on lemmas about
  taking a task from the front, the middle and the end of a queue.
- `ChildInv`, beside it: only children wait, and only what was decoded is sampled
  (`Stages`); what a reader that is gone left in a slot has its cancel under way,
  unless it escaped it (`CalledOff`); while its reader waits, a child's parent is
  at work, failed or answered (`Watched`); and batches are empty one after the
  other only while every busy slot waits (`Starving`), so that the kill switch
  meets none but children left alone.
- `AgentSessionProof` has two small invariants instead of one: the flag of the
  message tool against what the turn has published, and the numbers of the
  history, the copies of it and the summary against what was erased.
- `PromptInv`: the history is tidy - a result directly follows its call, a call
  follows a request or a result - except at its first two messages, which a
  compression may have put together; it ends as the turn's step needs it. The
  lemmas say what the two passes of `Sanitize` make of such a history, message by
  message, and that truncating, compressing and clearing keep it tidy.
- `LossInv`: numbers rise along the history and its copies (`Sound`), and while a
  summarizer is at work, what is lost already and what its truncation may still
  cut beyond what it has read together fit into `late` (`Ahead`, `Room`); before it
  truncates, what it has read is in the summary or excused (`Written`).

## What is not shown

Only model-checked, within the bounds above, is liveness (`Settles`, `StopAllEnds`,
`EnsureReturns`, `CloseReturns`, `Answered`, `SlotsFreed`): fairness and ENABLED are out
of the prover's reach; and `OneBatch`. What a recursive function or a fold computes is proved
by induction as far as the theorems need it, through the least element of a set
of numbers (`FoldLemmas`), since the library's induction theorems take an operator
as a parameter, which the provers cannot instantiate. The four violated
statements are counterexamples of TLC's.

Abstracted: message contents and sizes (a line over the scanner's limit makes a
session unreadable), key sanitising and the lock shards, rate limits and
delays as durations, the HTTP server, formatting and logs, cron expressions.
`WriteFileAtomic` is taken to be atomic, the clock not to go back. A platform
that never answers is not modelled. Typing, reaction and placeholder
bookkeeping is reduced to the outcome of preSend's edit. Of an agent's message
with several tool calls only the first is modelled, and only appends fail, not
SetHistory or SetSummary. Of llama-server: completion tasks only; not prompts
that n_batch cuts in parts, images, or the split before an aLoRA invocation.

## Not modelled

Most of the repository by size is the vendored llama.cpp under
`engines/llamacli`: tensor kernels for a dozen back ends, model graphs,
tokenizers, samplers. It is numerical and sequential code without a state
space to explore, so the share of the repository's lines that the modules map
is small; the scheduler around it is modelled. Of this project's own Go code
these parts are left out:

- the typing, reaction and placeholder maps with their janitor: what a race
  there loses is an indicator, not a message;
- the configuration watcher: a reload is a step that may happen at any time;
- the fallback chain and the cooldown tracker: a sequential walk, and counters
  under one lock whose effects are wall-clock durations;
- the media store, the legacy session manager and its migration, subagents:
  their one or two races are listed as hazards in `PROJECT.json`, each with the
  reason no property covers it;
- provider and channel adapters, MCP, routing, configuration, auth, skills,
  commands, voice, launchers, hardware tools: I/O, parsing and lookups, which
  the models take as the environment.
