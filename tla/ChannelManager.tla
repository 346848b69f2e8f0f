--------------------------- MODULE ChannelManager ---------------------------
(* The outbound path: the message bus, the channel manager that serves it  *)
(* (dispatchers, one worker per channel and kind, the synchronous send of  *)
(* the agent) and the gateway's main goroutine, which stops the manager    *)
(* and, at a configuration reload, starts a new one on the same bus.       *)
(*                                                                         *)
(* A manager is a generation g.  StopAll waits for its workers and for no  *)
(* dispatcher, so the dispatchers of two generations may share the bus.    *)
EXTENDS Integers, Sequences, FiniteSets

CONSTANTS
  Channel,      \* configured channel names
  Kind,         \* the kinds of outbound message served: "text", "media"
  Msg,          \* the messages issued, a set of naturals
  To,           \* [Msg -> name], a name outside Channel is an unknown channel
  KindOf,       \* [Msg -> Kind]
  PartsOf,      \* [Msg -> number of parts SplitMessage makes]
  MediaSender,  \* channels that implement it; the others take text only
  AgentMsg,     \* messages of the agent's goroutine, issued in their order
  SyncMsg,      \* those it sends with SendMessage rather than through the bus
  Starts,       \* what StartAll may find: [conf, up], channels configured/started
  BusCap,       \* defaultBusBufferSize
  QueueCap,     \* defaultChannelQueueSize
  MaxRetries,
  MaxGen        \* bound on the managers created

ASSUME ManagerAssumption ==
  /\ Msg \subseteq Nat \ {0}
  /\ KindOf \in [Msg -> Kind] /\ "sync" \notin Kind
  /\ PartsOf \in [Msg -> Nat \ {0}] /\ \A m \in Msg : KindOf[m] # "text" => PartsOf[m] = 1
  /\ MediaSender \subseteq Channel
  /\ SyncMsg \subseteq AgentMsg /\ AgentMsg \subseteq Msg
  /\ Starts \subseteq [conf : SUBSET Channel, up : SUBSET Channel]
  /\ \A st \in Starts : st.up \subseteq st.conf
  /\ {BusCap, QueueCap, MaxGen} \subseteq Nat \ {0}
  /\ MaxRetries \in Nat

Gen    == 1 .. MaxGen
Worker == Gen \X Channel \X Kind
\* The agent inside SendMessage is one more sender on a manager's channels.
Caller(g) == <<g, "agent", "sync">>
Sender    == Worker \cup {Caller(g) : g \in Gen}

VARIABLES
  todo,         \* messages not issued yet
  issued,       \* ghost: published messages, in the order the bus took them
  bus,          \* [Kind -> Seq(Msg)]: the buffered outbound channels
  gen,          \* managers created; al.channelManager is the last one
  cur,          \* services.ChannelManager: gen, or 0 for nil
  ctx,          \* [Gen -> "new" | "live" | "cancelled"]: dispatchCtx
  chan,         \* [Gen -> [conf, up]]: m.channels and m.workers
  queue,        \* [Worker -> Seq(Msg)]
  closed,       \* workers whose queue is closed
  disp,         \* [Gen \X Kind -> [pc, msg]]
  snd,          \* [Sender -> [pc, msg, part, try]]
  main,         \* [pc, exit]: the gateway's main goroutine
  stopped,      \* generations whose channels were stopped
  crashed,      \* a goroutine panicked: the process is gone
  last          \* [Channel \X Kind -> <<msg, part, ok>>]: the latest part from
                \* the bus to reach the platform, and whether the call that
                \* brought it succeeded; external

busVars  == <<todo, issued, bus>>
lifeVars == <<gen, cur, ctx, chan, main, stopped>>
vars == <<busVars, lifeVars, queue, closed, disp, snd, crashed, last>>

Rest    == [pc |-> "idle", msg |-> 0, part |-> 0, try |-> 0]
Gone    == [pc |-> "done", msg |-> 0, part |-> 0, try |-> 0]
Dead    == [pc |-> "done", msg |-> 0]
Started == [pc |-> "sub",  msg |-> 0]

TypeOK ==
  /\ todo \subseteq Msg /\ issued \in Seq(Msg)
  /\ bus \in [Kind -> Seq(Msg)]
  /\ gen \in Gen /\ cur \in {0, gen}
  /\ ctx \in [Gen -> {"new", "live", "cancelled"}]
  /\ chan \in [Gen -> [conf : SUBSET Channel, up : SUBSET Channel]]
  /\ queue \in [Worker -> Seq(Msg)] /\ closed \subseteq Worker
  /\ disp \in [Gen \X Kind -> [pc : {"sub", "look", "put", "done"}, msg : Msg \cup {0}]]
  /\ snd \in [Sender -> [pc : {"idle", "limit", "send", "backoff", "done"},
                         msg : Msg \cup {0}, part : Nat, try : 0 .. MaxRetries]]
  /\ main \in [pc : {"run", "cancelled", "closedText", "closedMedia", "stopped",
                     "returning", "gone"}, exit : BOOLEAN]
  /\ stopped \subseteq Gen /\ crashed \in BOOLEAN
  /\ last \in [Channel \X Kind -> (Msg \cup {0}) \X Nat \X BOOLEAN]
  /\ \A k \in Kind : Len(bus[k]) <= BusCap
  /\ \A w \in Worker : Len(queue[w]) <= QueueCap

\* StopAll holds m.mu, which the look-ups of the dispatchers and of
\* SendMessage need.
Locked(g) == g = cur /\ main.pc \in {"cancelled", "closedText", "closedMedia"}

----------------------------------------------------------------------------
(* Generations                                                             *)

\* StartAll on a new manager: a channel that does not start has no worker,
\* and with no channel at all nothing runs.
Boot(g, st) ==
  /\ chan' = [chan EXCEPT ![g] = st]
  /\ ctx' = [ctx EXCEPT ![g] = IF st.conf = {} THEN "new" ELSE "live"]
  /\ disp' = [d \in DOMAIN disp |->
                IF d[1] = g /\ st.conf # {} THEN Started ELSE disp[d]]
  /\ snd' = [s \in Sender |->
                IF s[1] = g /\ (s[2] \in st.up \/ s = Caller(g)) THEN Rest ELSE snd[s]]

MInit ==
  /\ todo = Msg /\ issued = <<>>
  /\ bus = [k \in Kind |-> <<>>]
  /\ gen = 1 /\ cur = 1
  /\ \E st \in {x \in Starts : x.conf # {}} :
       /\ chan = [g \in Gen |-> IF g = 1 THEN st ELSE [conf |-> {}, up |-> {}]]
       /\ snd = [s \in Sender |->
                   IF s[1] = 1 /\ (s[2] \in st.up \/ s = Caller(1)) THEN Rest ELSE Gone]
  /\ ctx = [g \in Gen |-> IF g = 1 THEN "live" ELSE "new"]
  /\ disp = [d \in Gen \X Kind |-> IF d[1] = 1 THEN Started ELSE Dead]
  /\ queue = [w \in Worker |-> <<>>] /\ closed = {}
  /\ main = [pc |-> "run", exit |-> FALSE]
  /\ stopped = {} /\ crashed = FALSE
  /\ last = [l \in Channel \X Kind |-> <<0, 0, FALSE>>]

----------------------------------------------------------------------------
(* Issuing messages                                                        *)

Calling == \E g \in Gen : snd[Caller(g)].pc \notin {"idle", "done"}

\* The agent goes through its turn in order and waits inside SendMessage;
\* cron, subagents and devices publish whenever they like.
MayIssue(m) ==
  /\ m \in todo
  /\ m \in AgentMsg => ~Calling /\ \A n \in AgentMsg \cap todo : m <= n

\* PublishOutbound and PublishOutboundMedia with room in the buffer.  The
\* gateway never closes the bus.
Publish(m) ==
  /\ MayIssue(m) /\ m \notin SyncMsg
  /\ Len(bus[KindOf[m]]) < BusCap
  /\ bus' = [bus EXCEPT ![KindOf[m]] = Append(@, m)]
  /\ issued' = Append(issued, m)
  /\ todo' = todo \ {m}
  /\ UNCHANGED <<lifeVars, queue, closed, disp, snd, crashed, last>>

\* SendMessage: a missing channel or worker is an error to the caller, else
\* the caller's goroutine sends on the channel beside its worker.
SendMessage(m) ==
  /\ MayIssue(m) /\ m \in SyncMsg
  /\ ~Locked(gen)
  /\ todo' = todo \ {m}
  /\ snd' = IF To[m] \in chan[gen].up
            THEN [snd EXCEPT ![Caller(gen)] =
                    [pc |-> "limit", msg |-> m, part |-> 1, try |-> 0]]
            ELSE snd
  /\ UNCHANGED <<issued, bus, lifeVars, queue, closed, disp, crashed, last>>

----------------------------------------------------------------------------
(* The dispatchers: dispatchLoop                                           *)

\* SubscribeOutbound.  With the context cancelled and a message buffered the
\* select takes either.
Subscribe(g, k) ==
  /\ disp[<<g, k>>].pc = "sub"
  /\ \/ /\ bus[k] # <<>>
        /\ disp' = [disp EXCEPT ![<<g, k>>] = [pc |-> "look", msg |-> Head(bus[k])]]
        /\ bus' = [bus EXCEPT ![k] = Tail(@)]
     \/ /\ ctx[g] = "cancelled"
        /\ disp' = [disp EXCEPT ![<<g, k>>] = Dead]
        /\ UNCHANGED bus
  /\ UNCHANGED <<todo, issued, lifeVars, queue, closed, snd, crashed, last>>

\* The look-up under m.mu: a message for an unknown channel, or for one with
\* no worker, is skipped.
LookUp(g, k) ==
  /\ disp[<<g, k>>].pc = "look" /\ ~Locked(g)
  /\ disp' = [disp EXCEPT ![<<g, k>>] =
                IF To[@.msg] \in chan[g].up THEN [@ EXCEPT !.pc = "put"] ELSE Started]
  /\ UNCHANGED <<busVars, lifeVars, queue, closed, snd, crashed, last>>

Target(g, k) == <<g, To[disp[<<g, k>>].msg], k>>

\* The send on a queue with room.
Put(g, k) ==
  /\ Target(g, k) \notin closed /\ Len(queue[Target(g, k)]) < QueueCap
  /\ queue' = [queue EXCEPT ![Target(g, k)] = Append(@, disp[<<g, k>>].msg)]
  /\ disp' = [disp EXCEPT ![<<g, k>>] = Started]
  /\ UNCHANGED <<bus, crashed>>

\* A mutant of GiveUp: the message goes back for the next manager to send.
GiveUpPutsBack(g, k) ==
  /\ ctx[g] = "cancelled" /\ Len(bus[k]) < BusCap
  /\ bus' = [bus EXCEPT ![k] = Append(@, disp[<<g, k>>].msg)]
  /\ disp' = [disp EXCEPT ![<<g, k>>] = Dead]
  /\ UNCHANGED <<queue, crashed>>

\* ctx.Done: the message is lost with the dispatcher.
GiveUp(g, k) ==
  /\ ctx[g] = "cancelled"
  /\ disp' = [disp EXCEPT ![<<g, k>>] = Dead]
  /\ UNCHANGED <<bus, queue, crashed>>

\* enqueue: a select of the send and of ctx.Done.  A send on a closed queue
\* is ready, and panics when the select picks it.
Enqueue(g, k) ==
  /\ disp[<<g, k>>].pc = "put"
  /\ \/ Put(g, k)
     \/ GiveUp(g, k)
     \/ Target(g, k) \in closed /\ crashed' = TRUE /\ UNCHANGED <<bus, queue, disp>>
  /\ UNCHANGED <<todo, issued, lifeVars, closed, snd, last>>

----------------------------------------------------------------------------
(* The senders: runWorker with sendWithRetry and sendMediaWithRetry, and   *)
(* SendMessage on the caller's goroutine                                   *)

\* The caller of SendMessage passes its turn's context, which lives on.
Live(s) == s = Caller(s[1]) \/ ctx[s[1]] = "live"

\* What a sender turns to when it is through with a part, sent or not.
NextPart(r) ==
  IF r.part < PartsOf[r.msg]
  THEN [r EXCEPT !.pc = "limit", !.part = @ + 1, !.try = 0]
  ELSE Rest

Arrives(r, ok) ==
  last' = IF r.msg \in SyncMsg THEN last
          ELSE [last EXCEPT ![<<To[r.msg], KindOf[r.msg]>>] = <<r.msg, r.part, ok>>]

\* A mutant of Take: the worker looks its channel up under m.mu.
TakeUnderLock(w) ==
  /\ snd[w].pc = "idle" /\ ~Locked(w[1])
  /\ \/ /\ queue[w] # <<>>
        /\ snd' = [snd EXCEPT ![w] =
                     [pc |-> "limit", msg |-> Head(queue[w]), part |-> 1, try |-> 0]]
        /\ queue' = [queue EXCEPT ![w] = Tail(@)]
     \/ /\ ctx[w[1]] = "cancelled" \/ (w \in closed /\ queue[w] = <<>>)
        /\ snd' = [snd EXCEPT ![w] = Gone]
        /\ UNCHANGED queue
  /\ UNCHANGED <<busVars, lifeVars, closed, disp, crashed, last>>

\* The worker's select: a queued message, its closed queue run empty, or the
\* cancelled context.
Take(w) ==
  /\ snd[w].pc = "idle"
  /\ \/ /\ queue[w] # <<>>
        /\ snd' = [snd EXCEPT ![w] =
                     [pc |-> "limit", msg |-> Head(queue[w]), part |-> 1, try |-> 0]]
        /\ queue' = [queue EXCEPT ![w] = Tail(@)]
     \/ /\ ctx[w[1]] = "cancelled" \/ (w \in closed /\ queue[w] = <<>>)
        /\ snd' = [snd EXCEPT ![w] = Gone]
        /\ UNCHANGED queue
  /\ UNCHANGED <<busVars, lifeVars, closed, disp, crashed, last>>

\* A placeholder of the chat is edited, and the send spared, or the edit fails,
\* though it may have been applied.
preSend(s) ==
  LET r == snd[s] IN
  \/ snd' = [snd EXCEPT ![s] = NextPart(r)] /\ Arrives(r, TRUE)
  \/ snd' = [snd EXCEPT ![s].pc = "send"] /\ Arrives(r, FALSE)

Supported(m) == KindOf[m] = "text" \/ To[m] \in MediaSender

\* A mutant of Admit: what a worker takes under an exhausted limiter is left.
AdmitOrSkip(s) ==
  LET r == snd[s] IN
  /\ r.pc = "limit"
  /\ snd' = [snd EXCEPT ![s] = NextPart(r)] \/ snd' = [snd EXCEPT ![s].pc = "send"]
  /\ UNCHANGED <<busVars, lifeVars, queue, closed, disp, crashed, last>>

\* Media for a channel that is no MediaSender is skipped, silently.
\* limiter.Wait gives up at once on a cancelled context.  Past it the part is
\* sent, but a text part goes to preSend first.
Admit(s) ==
  LET r == snd[s] IN
  /\ r.pc = "limit"
  /\ \/ /\ ~Supported(r.msg) \/ ~Live(s)
        /\ snd' = [snd EXCEPT ![s] = NextPart(r)]
        /\ UNCHANGED last
     \/ /\ Supported(r.msg) /\ Live(s)
        /\ snd' = [snd EXCEPT ![s].pc = "send"]
        /\ UNCHANGED last
     \/ Live(s) /\ KindOf[r.msg] = "text" /\ s[1] \notin stopped /\ preSend(s)
  /\ UNCHANGED <<busVars, lifeVars, queue, closed, disp, crashed>>

\* A mutant of AfterFailure: one attempt too many.
AfterFailureOnceMore(r) ==
  IF r.try > MaxRetries THEN NextPart(r) ELSE [r EXCEPT !.pc = "backoff"]

AfterFailure(r) == IF r.try = MaxRetries THEN NextPart(r) ELSE [r EXCEPT !.pc = "backoff"]

\* A mutant of Send: the retry loop is not left on success.
SendAgain(s) ==
  LET r == snd[s] IN
  /\ r.pc = "send" /\ s[1] \notin stopped
  /\ snd' = [snd EXCEPT ![s] = AfterFailure(r)]
  /\ Arrives(r, TRUE)
  /\ UNCHANGED <<busVars, lifeVars, queue, closed, disp, crashed>>

\* One call of Send or SendMedia: it succeeds, or fails for good, or fails in a
\* way that is retried; a failed call may have reached the platform (a lost
\* reply).  A channel that was stopped answers ErrNotRunning.
Send(s) ==
  LET r == snd[s] IN
  /\ r.pc = "send"
  /\ \/ /\ s[1] \notin stopped                            \* success
        /\ snd' = [snd EXCEPT ![s] = NextPart(r)]
        /\ Arrives(r, TRUE)
     \/ /\ snd' = [snd EXCEPT ![s] = NextPart(r)]          \* permanent failure
        /\ UNCHANGED last
     \/ /\ s[1] \notin stopped                            \* any other failure
        /\ snd' = [snd EXCEPT ![s] = AfterFailure(r)]
        /\ Arrives(r, FALSE) \/ UNCHANGED last
  /\ UNCHANGED <<busVars, lifeVars, queue, closed, disp, crashed>>

\* A mutant of BackOff: a rate-limited attempt does not count.
BackOffUncounted(s) ==
  /\ snd[s].pc = "backoff"
  /\ \/ snd' = [snd EXCEPT ![s].pc = "send"]
     \/ ~Live(s) /\ snd' = [snd EXCEPT ![s] = NextPart(@)]
  /\ UNCHANGED <<busVars, lifeVars, queue, closed, disp, crashed, last>>

\* The delay before the next attempt, cut short by a cancelled context.
BackOff(s) ==
  /\ snd[s].pc = "backoff"
  /\ \/ snd' = [snd EXCEPT ![s].pc = "send", ![s].try = @ + 1]
     \/ ~Live(s) /\ snd' = [snd EXCEPT ![s] = NextPart(@)]
  /\ UNCHANGED <<busVars, lifeVars, queue, closed, disp, crashed, last>>

----------------------------------------------------------------------------
(* The gateway's main goroutine                                            *)

Workers(g, kinds) == {w \in Worker : w[1] = g /\ w[2] \in chan[g].up /\ w[3] \in kinds}

Quiet == UNCHANGED <<gen, cur, chan, busVars, queue, disp, snd, last>>

\* A mutant of Cancel: the dispatchers' context is left alone.
CancelNot == UNCHANGED ctx

Cancel == ctx' = IF cur # 0 /\ ctx[cur] = "live" THEN [ctx EXCEPT ![cur] = "cancelled"] ELSE ctx

\* A reload or the shutdown calls StopAll: it takes the lock and cancels the
\* dispatchers' context.  A nil manager is skipped.
BeginStop ==
  /\ main.pc = "run"
  /\ \E exit \in BOOLEAN :
       main' = [pc |-> IF cur = 0 THEN "stopped" ELSE "cancelled", exit |-> exit]
  /\ Cancel
  /\ UNCHANGED <<stopped, closed, crashed>> /\ Quiet

\* m.workers keeps the workers, so a second StopAll on the same manager closes
\* a closed queue and panics.
CloseQueues(ws, next) ==
  /\ IF ws \cap closed # {}
     THEN crashed' = TRUE /\ UNCHANGED <<closed, main>>
     ELSE /\ closed' = closed \cup ws
          /\ main' = [main EXCEPT !.pc = next]
          /\ UNCHANGED crashed
  /\ UNCHANGED <<ctx, stopped>> /\ Quiet

CloseTextQueues ==
  main.pc = "cancelled" /\ CloseQueues(Workers(cur, {"text"}), "closedText")

\* A mutant of CloseMediaQueues: the text workers are not waited for.
CloseMediaAtOnce ==
  main.pc = "closedText" /\ CloseQueues(Workers(cur, Kind \ {"text"}), "closedMedia")

\* With the text workers gone, the media queues.
CloseMediaQueues ==
  /\ main.pc = "closedText"
  /\ \A w \in Workers(cur, {"text"}) : snd[w].pc = "done"
  /\ CloseQueues(Workers(cur, Kind \ {"text"}), "closedMedia")

\* With the media workers gone too the channels are stopped and the lock
\* released.
StopChannels ==
  /\ main.pc = "closedMedia"
  /\ \A w \in Workers(cur, Kind \ {"text"}) : snd[w].pc = "done"
  /\ main' = [main EXCEPT !.pc = "stopped"]
  /\ stopped' = stopped \cup {cur}
  /\ UNCHANGED <<ctx, closed, crashed>> /\ Quiet

\* After the shutdown's StopAll the process ends.
Leave ==
  /\ main.pc = "stopped" /\ main.exit
  /\ main' = [main EXCEPT !.pc = "gone"]
  /\ UNCHANGED <<ctx, stopped, closed, crashed>> /\ Quiet

\* restartServices returns early: before NewManager (cron or heartbeat cannot
\* start), which leaves the stopped manager in place, or from a failed
\* NewManager, which leaves nil.
RestartFails ==
  /\ main.pc = "stopped" /\ ~main.exit
  /\ cur' \in {cur, 0}
  /\ main' = [main EXCEPT !.pc = "run"]
  /\ UNCHANGED <<gen, ctx, chan, stopped, busVars, queue, closed, disp, snd, crashed, last>>

\* restartServices creates and starts a manager under its own context.
Restart ==
  /\ main.pc = "stopped" /\ ~main.exit
  /\ gen < MaxGen
  /\ gen' = gen + 1 /\ cur' = gen + 1
  /\ \E st \in Starts : Boot(gen + 1, st)
  /\ main' = [main EXCEPT !.pc = "returning"]
  /\ UNCHANGED <<stopped, busVars, queue, closed, crashed, last>>

\* The deferred cancel of that context runs as restartServices returns.
RestartReturns ==
  /\ main.pc = "returning"
  /\ Cancel
  /\ main' = [main EXCEPT !.pc = "run"]
  /\ UNCHANGED <<stopped, closed, crashed>> /\ Quiet

----------------------------------------------------------------------------
Main ==
  \/ BeginStop \/ CloseTextQueues \/ CloseMediaQueues \/ StopChannels
  \/ Leave \/ RestartFails \/ Restart \/ RestartReturns
Dispatch(g, k) == Subscribe(g, k) \/ LookUp(g, k) \/ Enqueue(g, k)
Transmit(s) == Admit(s) \/ Send(s) \/ BackOff(s)

MNext ==
  /\ ~crashed /\ main.pc # "gone"
  /\ \/ \E m \in Msg : Publish(m) \/ SendMessage(m)
     \/ \E g \in Gen, k \in Kind : Dispatch(g, k)
     \/ \E w \in Worker : Take(w)
     \/ \E s \in Sender : Transmit(s)
     \/ Main

Running == ~crashed /\ main.pc # "gone"

\* Every goroutine that can go on is scheduled, calls to platforms return, and
\* StopAll and restartServices run to their end once begun.  Nothing makes a
\* message be issued or the gateway be stopped.
Fairness ==
  /\ \A g \in Gen, k \in Kind : WF_vars(Running /\ Dispatch(g, k))
  /\ \A w \in Worker : WF_vars(Running /\ (Take(w) \/ Transmit(w)))
  /\ \A g \in Gen : WF_vars(Running /\ Transmit(Caller(g)))
  /\ WF_vars(Running /\ main.pc # "run" /\ Main)

MSpec == MInit /\ [][MNext]_vars /\ Fairness

----------------------------------------------------------------------------
(* Properties                                                              *)

Before(s, a, b) == \E i, j \in 1 .. Len(s) : i < j /\ s[i] = a /\ s[j] = b

\* Messages of one channel and kind reach the platform in the order the bus
\* took them, and the parts of a message in theirs: through retries, edits, a
\* cancelled manager and its successor on the same bus.
ArrivalOrder ==
  [][\A l \in Channel \X Kind :
       LET old == last[l]  new == last'[l] IN
       old # new => \/ old[1] = 0
                    \/ old[1] = new[1] /\ (old[2] < new[2] \/ (old[2] = new[2] /\ ~old[3]))
                    \/ Before(issued, old[1], new[1])]_vars

\* A part whose edit or send succeeded is not sent again, by the worker that
\* sent it or by a worker of the next manager.
NoResend ==
  \A w \in Worker : snd[w].pc \in {"send", "backoff"} =>
    last[<<w[2], w[3]>>] # <<snd[w].msg, snd[w].part, TRUE>>

InFlight(m) ==
  \/ \E k \in Kind : \E i \in 1 .. Len(bus[k]) : bus[k][i] = m
  \/ \E d \in DOMAIN disp : disp[d].msg = m
  \/ \E w \in Worker : (\E i \in 1 .. Len(queue[w]) : queue[w][i] = m) /\ snd[w].pc # "done"
  \/ \E s \in Sender : snd[s].msg = m

Accepted == {issued[i] : i \in 1 .. Len(issued)}
EverCancelled == \E g \in Gen : ctx[g] = "cancelled"

\* While no manager was ever cancelled an accepted message is given up only
\* because its channel has no worker, by a worker that called the channel for
\* it, or, without a call and without a word, by the media worker of a channel
\* that takes no media: never in the bus, a dispatcher, a full queue, a limiter
\* or a delay between attempts.
LossHasCause ==
  [][\A m \in Accepted :
       InFlight(m) /\ ~InFlight(m)' =>
         \/ EverCancelled \/ To[m] \notin chan[gen].up
         \/ \E w \in Worker : /\ snd[w].msg = m
                              /\ \/ snd[w].pc = "send" \/ ~Supported(m)
                                 \/ last'[<<w[2], w[3]>>] = <<m, snd[w].part, TRUE>>]_vars

\* Of all the workers ever started for one channel and kind at most one is
\* alive, and none once the channels were stopped: no two generations send on
\* a platform at once.
OneWorkerAlive ==
  \A c \in Channel, k \in Kind :
    /\ Cardinality({g \in Gen : snd[<<g, c, k>>].pc # "done"}) <= 1
    /\ \A g \in stopped : snd[<<g, c, k>>].pc = "done"

\* A goroutine panics only where a manager was stopped: no queue is closed, and
\* no send on a closed queue can be selected, while the context lives.
PanicNeedsStop ==
  /\ \A w \in closed : ctx[w[1]] = "cancelled"
  /\ crashed => EverCancelled

\* StopAll ends, whatever the dispatchers and workers are doing when it takes
\* the lock, or the process panics.
StopAllEnds == main.pc \in {"cancelled", "closedText", "closedMedia"} ~> main.pc = "stopped" \/ crashed

\* While its manager lives the outbound path keeps coming to rest: no failing
\* channel, full queue or retry holds an accepted message for ever.
Settles == []<>((\A m \in Accepted : ~InFlight(m)) \/ ctx[gen] # "live" \/ ~Running)

\* manager.go: StopAll closes the worker queues and waits "for them to drain".
\* What a worker had queued when StopAll began is attempted before it ends.
StopDrains ==
  main.pc = "stopped" =>
    \A w \in Worker : w[1] \in stopped => queue[w] = <<>>

\* helpers.go: the restart uses an independent context "to prevent
\* cancellation"; once services are reloaded the manager serves the bus.
ServesAfterReload ==
  main.pc = "run" /\ cur # 0 /\ cur \notin stopped => ctx[cur] # "cancelled"
=============================================================================
