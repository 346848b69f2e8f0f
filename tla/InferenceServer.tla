--------------------------- MODULE InferenceServer ---------------------------
(* llama-server's scheduler: HTTP threads post tasks to server_queue and    *)
(* read server_response; one main thread moves tasks into slots and decodes *)
(* them.  A request is one task, with NChildren more for the same prompt.   *)
EXTENDS Integers, Sequences, FiniteSets

CONSTANTS
  Request,      \* requests, each served by an HTTP thread of its own
  NChildren,    \* [Request -> Nat]: n_cmpl - 1
  Wants,        \* [Request -> slot or 0]: id_slot, 0 for any
  Streams,      \* the requests with "stream" set
  Endless,      \* no token limit, and the context shifts when it is full
  NSlots,       \* --parallel
  Lora,         \* [Request -> the adapters it asks for]
  ContBatching, \* whether prompts are batched with generations
  NBatch,       \* --batch-size
  MaxSteps,     \* bound on the updates a prompt or a generation takes
  IdleSleep     \* whether --sleep-idle-seconds is set

ASSUME InferenceAssumption ==
  /\ NSlots \in Nat \ {0} /\ MaxSteps \in Nat \ {0}
  /\ NChildren \in [Request -> 0 .. NSlots - 1]  \* n_cmpl <= n_parallel
  /\ Wants \in [Request -> 0 .. NSlots]
  /\ Streams \subseteq Request /\ Endless \subseteq Request
  /\ NBatch \in Nat \ {0} /\ {ContBatching, IdleSleep} \subseteq BOOLEAN

Slot == 1 .. NSlots
Id   == {i \in Request \X (0 .. NSlots) : i[2] <= NChildren[i[1]]}
Ids(r) == {i \in Id : i[1] = r}
Top(r) == <<r, 0>>  \* the task itself; <<r, k>> is its k-th child

\* What server_queue carries; a child travels inside its parent.
NextResponse == [type |-> "next", id |-> <<>>]
Task(r)      == [type |-> "task", id |-> Top(r)]
Cancel(i)    == [type |-> "cancel", id |-> i]
Message      == {NextResponse} \cup {Task(r) : r \in Request} \cup {Cancel(i) : i \in Id}

Free    == [st |-> "idle", id |-> <<>>, n |-> 0]
Held(i) == [st |-> IF i[2] = 0 THEN "started" ELSE "wait", id |-> i, n |-> 0]

VARIABLES
  running, sleeping, reqStop,  \* server_queue's flags
  queue, deferred,  \* queue_tasks, queue_tasks_deferred
  main, todo,       \* the main thread: where it is, and the slots left of a loop
  hand,             \* the message it took from the queue, if any
  slot,             \* [Slot -> [st, id, n]]
  empties,          \* n_empty_consecutive
  waiting,          \* waiting_task_ids
  results,          \* queue_results, by the request that reads them
  reader, got,      \* each HTTP thread, and the ids it has a final result of
  escaped           \* ghost: requests cancelled with their task in hand

loopVars == <<running, sleeping, reqStop>>
readVars == <<waiting, reader, got, escaped>>
vars == <<running, sleeping, reqStop, queue, deferred, main, todo,
          hand, slot, empties, waiting, results, reader, got, escaped>>

MainPc   == {"boot", "drain", "handle", "undo", "shift", "prompt",
             "decode", "fail", "sample", "idle", "asleep", "exited", "aborted"}
ReaderPc == {"new", "waking", "ready", "adding", "wait", "stop", "cancel",
             "gone"}
Result   == [kind : {"partial", "final", "error"}, id : Id]

TypeOK ==
  /\ {running, sleeping, reqStop} \subseteq BOOLEAN
  /\ queue \in Seq(Message) /\ deferred \in Seq({Task(r) : r \in Request})
  /\ main \in MainPc /\ todo \subseteq Slot
  /\ hand \in Message
  /\ slot \in [Slot -> [st : {"idle", "wait", "started", "done", "gen"},
                        id : Id \cup {<<>>}, n : 0 .. MaxSteps]]
  /\ empties \in 0 .. 4
  /\ waiting \subseteq Id
  /\ results \in [Request -> Seq(Result)]
  /\ reader \in [Request -> ReaderPc]
  /\ got \in [Request -> SUBSET Id]
  /\ escaped \subseteq Request

Init ==
  /\ running = FALSE /\ sleeping = FALSE /\ reqStop = FALSE
  /\ queue = <<>> /\ deferred = <<>>
  /\ main = "boot" /\ todo = {} /\ hand = NextResponse
  /\ slot = [s \in Slot |-> Free]
  /\ empties = 0
  /\ waiting = {} /\ results = [r \in Request |-> <<>>]
  /\ reader = [r \in Request |-> "new"] /\ got = [r \in Request |-> {}]
  /\ escaped = {}

Busy(s)  == slot[s].st # "idle"
Idles    == {s \in Slot : ~Busy(s)}
Least(S) == CHOOSE s \in S : \A t \in S : s <= t
Places(q, r) == {j \in DOMAIN q : q[j] = Task(r)}
DropAt(q, j) == [k \in 1 .. Len(q) - 1 |-> IF k < j THEN q[k] ELSE q[k + 1]]

----------------------------------------------------------------------------
(* The queues under their mutexes                                          *)

\* A mutant of Send: no look at who waits.
SendUnasked(kind, i) ==
  results' = [results EXCEPT ![i[1]] = Append(@, [kind |-> kind, id |-> i])]

\* server_response::send: a result nobody waits for is dropped.
Send(kind, i) ==
  results' = IF i \in waiting
             THEN [results EXCEPT ![i[1]] = Append(@, [kind |-> kind, id |-> i])]
             ELSE results

\* A mutant of PopDeferred: the task is copied and not erased.
PopDeferredCopy(s) ==
  UNCHANGED deferred /\ queue' = (IF deferred = <<>> THEN <<>> ELSE <<Head(deferred)>>) \o queue

\* pop_deferred_task: the first task for this slot, else the first task,
\* goes to the front of the queue.
PopDeferred(s) ==
  LET own == {j \in DOMAIN deferred : Wants[deferred[j].id[1]] = s}
      at  == IF own = {} THEN 1 ELSE CHOOSE j \in own : \A k \in own : j <= k
  IN IF deferred = <<>>
     THEN UNCHANGED <<queue, deferred>>
     ELSE /\ queue' = <<deferred[at]>> \o queue
          /\ deferred' = DropAt(deferred, at)

\* server_slot::release with its callback.
Release(s) == slot' = [slot EXCEPT ![s] = Free] /\ PopDeferred(s)

\* A mutant of Without: the comparison of ids is missing.
WithoutAny(q, r) == SelectSeq(q, LAMBDA m : m.type # "task")

\* cleanup_pending_task: a task is queued at most once (OnePlace), so its
\* place is all there is to erase.
Without(q, r) ==
  IF Places(q, r) = {} THEN q ELSE DropAt(q, CHOOSE j \in Places(q, r) : TRUE)

----------------------------------------------------------------------------
(* The main thread: start_loop                                             *)

Goto(pc)     == main' = pc /\ UNCHANGED <<todo, hand>>
\* A loop over the slots in S, in order, that goes on at next.
Loop(pc, S, next) == todo' = S /\ main' = IF S = {} THEN next ELSE pc
Cur          == Least(todo)
Advance(next) == /\ todo' = todo \ {Cur}
                 /\ main' = IF todo = {Cur} THEN next ELSE main
Handled      == main' = "drain" /\ hand' = NextResponse /\ UNCHANGED todo

StartLoop ==
  /\ main = "boot"
  /\ running' = TRUE
  /\ Goto("drain")
  /\ UNCHANGED <<sleeping, reqStop, queue, deferred, slot, empties, results, readVars>>

Exit ==
  /\ main = "drain" /\ ~running
  /\ Goto("exited")
  /\ UNCHANGED <<loopVars, queue, deferred, slot, empties, results, readVars>>

\* A next-response message is taken and nothing is done with it.
Take ==
  /\ main = "drain" /\ running /\ queue # <<>>
  /\ queue' = Tail(queue)
  /\ IF Head(queue) = NextResponse
     THEN UNCHANGED <<main, hand>>
     ELSE main' = "handle" /\ hand' = Head(queue)
  /\ UNCHANGED <<loopVars, deferred, todo, slot, empties, results, readVars>>

\* A slot that generates for a request with children: no context shift.
Shared(s) == slot[s].st = "gen" /\ NChildren[slot[s].id[1]] > 0

\* The queue is drained: update_slots returns at once when all slots are idle,
\* and else posts a next-response message before it works on them.
Drained ==
  /\ main = "drain" /\ running /\ queue = <<>>
  /\ IF Idles = Slot
     THEN Goto("idle") /\ UNCHANGED queue
     ELSE /\ queue' = <<NextResponse>>
          /\ main' = "shift" /\ todo' = {s \in Slot : Shared(s)}
          /\ UNCHANGED hand
  /\ UNCHANGED <<loopVars, deferred, slot, empties, results, readVars>>

\* A mutant of Wake: the wait's condition forgets the queue.
WakeOnStop ==
  /\ main = "idle" /\ ~running
  /\ Goto("drain")
  /\ UNCHANGED <<loopVars, queue, deferred, slot, empties, results, readVars>>

\* The waiting loop of start_loop, which is also where the server falls asleep.
Wake ==
  /\ main = "idle"
  /\ ~running \/ queue # <<>>
  /\ Goto("drain")
  /\ UNCHANGED <<loopVars, queue, deferred, slot, empties, results, readVars>>

FallAsleep ==
  /\ main = "idle" /\ running /\ queue = <<>> /\ IdleSleep
  /\ sleeping' = TRUE /\ reqStop' = FALSE
  /\ Goto("asleep")
  /\ UNCHANGED <<running, queue, deferred, slot, empties, results, readVars>>

LeaveSleep ==
  /\ main = "asleep"
  /\ ~running \/ reqStop
  /\ IF running
     THEN sleeping' = FALSE /\ reqStop' = FALSE
     ELSE UNCHANGED <<sleeping, reqStop>>
  /\ Goto("drain")
  /\ UNCHANGED <<running, queue, deferred, slot, empties, results, readVars>>

----------------------------------------------------------------------------
(* process_single_task, on the message in hand                             *)

\* A mutant of HandleCancel: no slot is looked for.
HandleCancelNot ==
  /\ main = "handle" /\ hand.type = "cancel"
  /\ UNCHANGED <<slot, queue, deferred>>
  /\ Handled
  /\ UNCHANGED <<loopVars, empties, results, readVars>>

HandleCancel ==
  /\ main = "handle" /\ hand.type = "cancel"
  /\ \/ \E s \in Slot : slot[s].id = hand.id /\ Release(s)
     \/ (\A s \in Slot : slot[s].id # hand.id) /\ UNCHANGED <<slot, queue, deferred>>
  /\ Handled
  /\ UNCHANGED <<loopVars, empties, results, readVars>>

\* The slots get_slot_by_id or get_available_slot may give the task.
Candidates(r) == IF Wants[r] = 0 THEN Idles ELSE Idles \cap {Wants[r]}
Fits(r)       == Candidates(r) # {} /\ Cardinality(Idles) > NChildren[r]

Defer ==
  /\ main = "handle" /\ hand.type = "task" /\ ~Fits(hand.id[1])
  /\ deferred' = Append(deferred, hand)
  /\ Handled
  /\ UNCHANGED <<loopVars, queue, slot, empties, results, readVars>>

\* An assignment of slots to ks, a set of the request's indexes: 0 takes a
\* candidate, the children any other idle slots.
Assign(r, ks, f) ==
  /\ 0 \in ks => f[0] \in Candidates(r)
  /\ \A k, l \in ks : k # l => f[k] # f[l]
Launch(r, ks, f) ==
  slot' = [s \in Slot |-> IF \E k \in ks : f[k] = s
                          THEN Held(<<r, CHOOSE k \in ks : f[k] = s>>)
                          ELSE slot[s]]

LaunchTask ==
  /\ main = "handle" /\ hand.type = "task" /\ Fits(hand.id[1])
  /\ LET r == hand.id[1] IN
     \E f \in [0 .. NChildren[r] -> Idles] :
       Assign(r, DOMAIN f, f) /\ Launch(r, DOMAIN f, f)
  /\ empties' = 0
  /\ Handled
  /\ UNCHANGED <<loopVars, queue, deferred, results, readVars>>

\* launch_slot_with_task fails for the k-th child, or for the task itself
\* after its children: what was launched is released again.
LaunchFails ==
  /\ main = "handle" /\ hand.type = "task" /\ Fits(hand.id[1])
  /\ LET r == hand.id[1] IN
     \E k \in 0 .. NChildren[r] :
       LET ks == IF k = 0 THEN 1 .. NChildren[r] ELSE 1 .. k - 1 IN
       /\ \E f \in [ks -> Idles] : Assign(r, ks, f) /\ Launch(r, ks, f)
       /\ empties' = IF ks = {} THEN empties ELSE 0
       /\ Send("error", <<r, k>>)
  /\ todo' = {s \in Slot : slot'[s].id \in Ids(hand.id[1])}
  /\ IF todo' = {} THEN main' = "drain" /\ hand' = NextResponse
                   ELSE main' = "undo" /\ UNCHANGED hand
  /\ UNCHANGED <<loopVars, queue, deferred, readVars>>

\* release_slots of launch_slots_with_parent_task, one slot of the request.
Undo ==
  /\ main = "undo"
  /\ Release(Cur)
  /\ Advance("drain")
  /\ hand' = IF main' = "drain" THEN NextResponse ELSE hand
  /\ UNCHANGED <<loopVars, empties, results, readVars>>

----------------------------------------------------------------------------
(* update_slots                                                            *)

\* A mutant of Ends: the slot is not released.
EndsUnreleased(s, kind) == Send(kind, slot[s].id) /\ UNCHANGED <<slot, queue, deferred>>

\* The request ends in its slot with this result.
Ends(s, kind) == Send(kind, slot[s].id) /\ Release(s)

\* The context of a generation is full and cannot shift, as its prompt is
\* shared.
ShiftFails ==
  /\ main = "shift"
  /\ \E s \in todo : Ends(s, "error") /\ todo' = {t \in todo : s < t}
  /\ UNCHANGED <<loopVars, main, hand, empties, readVars>>

\* The generations in the batch: the first one and those that go with it.
Generating     == {s \in Slot : slot[s].st = "gen"}
CanBatch(s, t) == Lora[slot[s].id[1]] = Lora[slot[t].id[1]]
Joined         == {s \in Generating : CanBatch(Least(Generating), s)}

StartBatch ==
  /\ main = "shift"
  /\ Loop("prompt", IF ContBatching \/ Generating = {}
                    THEN {s \in Slot : slot[s].st = "started"} ELSE {}, "decode")
  /\ UNCHANGED <<loopVars, queue, deferred, hand, slot, empties, results, readVars>>

\* slot_batched, which the first generation or else the first prompt is, and
\* whether a prompt goes with it.
Prompts   == {s \in Slot \ todo : slot[s].st \in {"started", "done"}}
Batched   == Least(IF Generating # {} THEN Generating ELSE Prompts)

\* A mutant of Admits: any prompt goes with the batch.
AdmitsAny(s) == TRUE
Admits(s) == Generating \cup Prompts # {} => CanBatch(Batched, s)

\* One prompt while the batch is filled: it may be empty, fail, be added in
\* part or to its end, unless the generations fill the batch; a full batch
\* ends the loop.
FillBatch ==
  /\ main = "prompt" /\ slot[Cur].st = "started"
  /\ \/ ~Admits(Cur) /\ UNCHANGED <<slot, queue, deferred, results>> /\ Advance("decode")
     \/ Admits(Cur) /\ slot[Cur].n = 0 /\ Ends(Cur, "final") /\ Advance("decode")
     \/ Admits(Cur) /\ Ends(Cur, "error") /\ Advance("decode")
     \/ /\ Admits(Cur)
        /\ \/ Cardinality(Joined) >= NBatch /\ UNCHANGED slot
           \/ /\ Cardinality(Joined) < NBatch
              /\ \/ slot[Cur].n < MaxSteps /\ slot' = [slot EXCEPT ![Cur].n = @ + 1]
                 \/ slot' = [slot EXCEPT ![Cur].st = "done", ![Cur].n = 0]
        /\ \/ Cardinality(Joined) < NBatch /\ Advance("decode")
           \/ todo' = {} /\ main' = "decode"
        /\ UNCHANGED <<queue, deferred, results>>
  /\ UNCHANGED <<loopVars, hand, empties, readVars>>

\* No slot has a token for the batch, which the first prompt would take if there
\* were one and no generation: the fourth time in a row aborts.
BatchEmpty == \A s \in Slot : slot[s].st \in {"idle", "wait"}
KillSwitch(limit) ==
  /\ main = "decode" /\ BatchEmpty
  /\ empties' = empties + 1
  /\ Goto(IF empties + 1 > limit THEN "aborted" ELSE "idle")
  /\ UNCHANGED <<loopVars, queue, deferred, slot, results, readVars>>
\* Mutants of DecodeNothing: the limit is one too high, or missing.
DecodeNothingLate == KillSwitch(4)
DecodeNothingOnce == KillSwitch(0)
DecodeNothing     == KillSwitch(3)

DecodeFails ==
  /\ main = "decode" /\ ~BatchEmpty
  /\ empties' = 0
  /\ main' = "fail" /\ todo' = {s \in Slot : Busy(s)} /\ UNCHANGED hand
  /\ UNCHANGED <<loopVars, queue, deferred, slot, results, readVars>>

FailSlot ==
  /\ main = "fail"
  /\ Ends(Cur, "error")
  /\ Advance("idle") /\ UNCHANGED hand
  /\ UNCHANGED <<loopVars, empties, readVars>>

\* The children of a task whose prompt is done get a copy of its state.
Shares(s) ==
  slot[s].st = "wait" /\ \E t \in Slot : slot[t] = [st |-> "done", id |-> Top(slot[s].id[1]), n |-> 0]

\* A mutant of Decode: of the generations only the first is sampled.
DecodeFirst ==
  /\ main = "decode" /\ ~BatchEmpty
  /\ empties' = 0
  /\ slot' = [s \in Slot |-> IF Shares(s) THEN [slot[s] EXCEPT !.st = "done"] ELSE slot[s]]
  /\ Loop("sample", IF Generating # {} THEN {Least(Generating)}
                    ELSE {s \in Slot : slot'[s].st = "done"}, "idle") /\ UNCHANGED hand
  /\ UNCHANGED <<loopVars, queue, deferred, results, readVars>>

Decode ==
  /\ main = "decode" /\ ~BatchEmpty
  /\ empties' = 0
  /\ slot' = [s \in Slot |-> IF Shares(s) THEN [slot[s] EXCEPT !.st = "done"] ELSE slot[s]]
  /\ Loop("sample", {s \in Slot : slot'[s].st = "done"} \cup Joined, "idle") /\ UNCHANGED hand
  /\ UNCHANGED <<loopVars, queue, deferred, results, readVars>>

\* One slot samples its next token: it may stream it and may be at its end.
\* A reader has at most one partial result of a slot unread (bound).
Unread(i) == \E j \in DOMAIN results[i[1]] : results[i[1]][j] = [kind |-> "partial", id |-> i]
Sample ==
  /\ main = "sample"
  /\ LET s == slot[Cur] IN
     \/ Ends(Cur, "final")
     \/ /\ s.n < MaxSteps \/ s.id[1] \in Endless
        /\ slot' = [slot EXCEPT ![Cur].st = "gen",
                                ![Cur].n = IF @ < MaxSteps THEN @ + 1 ELSE @]
        /\ \/ UNCHANGED results
           \/ s.id[1] \in Streams /\ ~Unread(s.id) /\ Send("partial", s.id)
        /\ UNCHANGED <<queue, deferred>>
  /\ Advance("idle") /\ UNCHANGED hand
  /\ UNCHANGED <<loopVars, empties, readVars>>

Main ==
  \/ StartLoop \/ Exit \/ Take \/ Drained \/ Wake \/ LeaveSleep
  \/ HandleCancel \/ Defer \/ LaunchTask \/ LaunchFails \/ Undo
  \/ ShiftFails \/ StartBatch \/ FillBatch
  \/ DecodeNothing \/ DecodeFails \/ FailSlot \/ Decode \/ Sample

\* SIGINT or SIGTERM: terminate(), once and at any time.
Terminate ==
  /\ running
  /\ running' = FALSE
  /\ UNCHANGED <<sleeping, reqStop, queue, deferred, main, todo, hand,
                 slot, empties, results, readVars>>

----------------------------------------------------------------------------
(* An HTTP thread and its server_response_reader                           *)

mainVars == <<running, main, todo, hand, slot, empties>>
Step(r, pc) == reader' = [reader EXCEPT ![r] = pc]

\* create_response: with the sleep option, wait until the server is awake.
Arrive(r) ==
  /\ reader[r] = "new"
  /\ Step(r, IF IdleSleep /\ sleeping THEN "waking" ELSE "ready")
  /\ reqStop' = (reqStop \/ (IdleSleep /\ sleeping))
  /\ UNCHANGED <<sleeping, mainVars, queue, deferred, waiting, results, got, escaped>>

Awake(r) ==
  /\ reader[r] = "waking" /\ ~sleeping
  /\ Step(r, "ready")
  /\ UNCHANGED <<sleeping, reqStop, mainVars, queue, deferred, waiting, results, got, escaped>>

\* post_tasks: first the ids to wait for, then the task.
AddWaiting(r) ==
  /\ reader[r] = "ready"
  /\ waiting' = waiting \cup Ids(r)
  /\ Step(r, "adding")
  /\ UNCHANGED <<sleeping, reqStop, mainVars, queue, deferred, results, got, escaped>>

Post(r) ==
  /\ reader[r] = "adding"
  /\ queue' = Append(queue, Task(r))
  /\ Step(r, "wait")
  /\ UNCHANGED <<sleeping, reqStop, mainVars, deferred, waiting, results, got, escaped>>

\* next: the reader stops at an error and when every id has its final result.
Recv(r) ==
  /\ reader[r] = "wait" /\ results[r] # <<>>
  /\ LET m == Head(results[r]) IN
     /\ got' = [got EXCEPT ![r] = IF m.kind = "final" THEN @ \cup {m.id} ELSE @]
     /\ Step(r, IF m.kind = "error" \/ got'[r] = Ids(r) THEN "stop" ELSE "wait")
  /\ results' = [results EXCEPT ![r] = Tail(@)]
  /\ UNCHANGED <<sleeping, reqStop, mainVars, queue, deferred, waiting, escaped>>

\* A poll times out and the client has closed the connection.
GiveUp(r) ==
  /\ reader[r] = "wait"
  /\ Step(r, "stop")
  /\ UNCHANGED <<sleeping, reqStop, mainVars, queue, deferred, waiting, results, got, escaped>>

\* stop: stop waiting and, unless all is finished, drop the results read by
\* nobody else and cancel.
Stop(r) ==
  /\ reader[r] = "stop"
  /\ waiting' = waiting \ Ids(r)
  /\ IF got[r] = Ids(r)
     THEN Step(r, "gone") /\ UNCHANGED results
     ELSE Step(r, "cancel") /\ results' = [results EXCEPT ![r] = <<>>]
  /\ UNCHANGED <<sleeping, reqStop, mainVars, queue, deferred, got, escaped>>

\* A mutant of Cancels: the children are forgotten.
CancelsTop(r) == {<<Cancel(Top(r))>>}

\* The cancel messages of a request, in any order.
Cancels(r) == {c \in [1 .. NChildren[r] + 1 -> {Cancel(i) : i \in Ids(r)}] :
                 \A j, k \in DOMAIN c : j # k => c[j] # c[k]}
PostCancels(r) ==
  /\ reader[r] = "cancel"
  /\ \E c \in Cancels(r) : queue' = c \o Without(queue, r)
  /\ deferred' = Without(deferred, r)
  /\ escaped' = IF main = "handle" /\ hand = Task(r) THEN escaped \cup {r} ELSE escaped
  /\ Step(r, "gone")
  /\ UNCHANGED <<sleeping, reqStop, mainVars, waiting, results, got>>

Reader(r) == \/ Awake(r) \/ AddWaiting(r) \/ Post(r) \/ Recv(r)
             \/ Stop(r) \/ PostCancels(r)

Next == \/ Main
        \/ FallAsleep
        \/ Terminate
        \/ \E r \in Request : Arrive(r) \/ GiveUp(r) \/ Reader(r)

\* The main thread runs, and so does an HTTP thread; clients come and go.
Spec == Init /\ [][Next]_vars /\ WF_vars(Main) /\ \A r \in Request : WF_vars(Reader(r))

----------------------------------------------------------------------------
(* Properties                                                              *)

HasError(r) == \E j \in DOMAIN results[r] : results[r][j].kind = "error"
Finals(i)   == {j \in DOMAIN results[i[1]] : results[i[1]][j] = [kind |-> "final", id |-> i]}
InSlot(i)   == {s \in Slot : slot[s].id = i}
InHand(r)   == hand = Task(r) /\ main = "handle"
Pending(r)  == Places(queue, r) # {} \/ Places(deferred, r) # {} \/ InHand(r)
\* A cancel of i that the main thread has yet to carry out.
CancelDue(i) == Cancel(i) \in {queue[j] : j \in DOMAIN queue} \cup {hand}

\* A task is in one place only - a queue, the main thread's hand or a slot -
\* and no slot shares a task with another.
OnePlace ==
  \A r \in Request :
    /\ Cardinality(Places(queue, r)) + Cardinality(Places(deferred, r))
       + (IF InHand(r) THEN 1 ELSE 0) + Cardinality(InSlot(Top(r))) <= 1
    /\ \A i \in Ids(r) : Cardinality(InSlot(i)) <= 1

\* "duplicate result received": no id gets a second final result, nor one
\* while a slot still works on it.
AnsweredOnce ==
  \A i \in Id : Cardinality(Finals(i)) + Cardinality(InSlot(i))
                + (IF i \in got[i[1]] THEN 1 ELSE 0) <= 1

\* No request is lost: while its reader waits, the task is pending, or an
\* error is on its way, or each of its ids is in a slot or answered.
NoneLost ==
  \A r \in Request : reader[r] = "wait" /\ main # "undo" =>
    \/ Pending(r) \/ HasError(r)
    \/ \A i \in Ids(r) : InSlot(i) # {} \/ Finals(i) # {} \/ i \in got[r]

\* A reader that is gone leaves nothing behind in server_response.
NoResidue ==
  \A r \in Request :
    /\ reader[r] \in {"cancel", "gone"} => results[r] = <<>>
    /\ reader[r] \in {"cancel", "gone"} => waiting \cap Ids(r) = {}

\* A child in a slot whose parent is in none.
LeftAlone(s) == slot[s].st = "wait" /\ InSlot(Top(slot[s].id[1])) = {}

\* A child waits for a parent that is in a slot; a child left alone has a
\* reader that will cancel it or a cancel under way, unless the cancel came
\* while the main thread held the task, or the prompt was empty: then the
\* parent got its final result and nobody ends the child.
ChildHasParent ==
  \A s \in Slot : slot[s].st = "wait" =>
    LET r == slot[s].id[1] IN
    \/ \E t \in Slot : slot[t].id = Top(r) /\ slot[t].st \in {"started", "done"}
    \/ HasError(r) \/ reader[r] \in {"stop", "cancel"}
    \/ Finals(Top(r)) # {} \/ Top(r) \in got[r]
    \/ CancelDue(slot[s].id)
    \/ main = "undo" /\ hand.id = Top(r)
    \/ r \in escaped

\* The kill switch of update_slots only ever fires on such a child left alone.
AbortHasCause ==
  main = "aborted" =>
    \E s \in Slot : LeftAlone(s)

\* The generations in the slots can all be batched together (can_batch_with): a
\* prompt starts to generate only beside those it goes with.
OneBatch == Joined = Generating

\* A prompt that the batch passes over as long as these generations go on: for
\* a client that still reads, or for one that escaped its cancel.
KeptOut(s) ==
  /\ slot[s].st = "started"
  /\ \E t \in Generating : reader[slot[t].id[1]] = "wait" \/ slot[t].id[1] \in escaped
  /\ ~ContBatching \/ ~CanBatch(Least(Generating), s) \/ Cardinality(Joined) >= NBatch

\* A posted request that does not generate without end is answered or given
\* up, unless from some time on, and for good, it is deferred, or the batch
\* passes one of its prompts over, or a child of its is left alone, or the
\* server sleeps, has aborted or was terminated.
Answered ==
  \A r \in Request \ Endless :
    \/ reader[r] = "wait" ~> reader[r] = "gone"
    \/ <>[](Places(deferred, r) # {})
    \/ <>[](\E s \in Slot : slot[s].id \in Ids(r) /\ KeptOut(s))
    \/ <>[](\E s \in Slot : slot[s].id \in Ids(r) /\ LeftAlone(s))
    \/ <>[]sleeping \/ <>[](main = "aborted") \/ <>[]~running

\* Once its reader is gone, a request leaves its slots (test_cancel_request),
\* unless the server has aborted or was terminated, or the cancel came while the
\* main thread held the task, which then generates without end, or is passed
\* over, or has a child left alone.
SlotsFreed ==
  \A r \in Request :
    \/ reader[r] = "gone" ~> \A i \in Ids(r) : InSlot(i) = {}
    \/ <>[](/\ r \in escaped
           /\ \E s \in Slot : slot[s].id \in Ids(r) /\ (r \in Endless \/ KeptOut(s) \/ LeftAlone(s)))
    \/ <>[](main = "aborted") \/ <>[]~running

\* "Add a new task, but defer until one slot is available": no task stays
\* deferred while the main thread waits for news and every slot is idle.  A
\* released slot wakes one deferred task, and none when that one fails to launch
\* or is cancelled before it takes the slot.
DeferredServed ==
  main = "idle" /\ running /\ queue = <<>> /\ Idles = Slot => deferred = <<>>
=============================================================================
