---------------------------- MODULE CronService ----------------------------
(* The cron service: a job table in memory that every operation writes     *)
(* through to jobs.json, a run loop that takes the due jobs under the lock *)
(* and runs them outside it, and the successive services (a reload or a    *)
(* restart makes the next one) and CLI commands that share the file.       *)
EXTENDS Integers, Sequences, FiniteSets, SequencesExt

CONSTANTS
  OneShot,   \* ids of "at" jobs
  Periodic,  \* ids of "every" and "cron" jobs
  At,        \* [OneShot -> time]
  Period,    \* how far apart two runs of a periodic job are
  Until,     \* [Periodic -> the last time its schedule names]: 0 for an
             \* interval that is not positive and an expression that is empty
             \* or cannot be parsed, beyond the clock for one that never ends
  Command,   \* ids whose payload the cron tool completes with UpdateJob
  MaxTime,   \* bound on the clock
  MaxSvc,    \* bound on the services made
  MaxFaults  \* bound on failed saves, crashes and CLI commands together

ASSUME CronAssumption ==
  /\ IsFiniteSet(OneShot) /\ IsFiniteSet(Periodic)
  /\ OneShot \cap Periodic = {} /\ Command \subseteq OneShot \cup Periodic
  /\ At \in [OneShot -> Nat \ {0}] /\ Until \in [Periodic -> Nat]
  /\ {Period, MaxTime, MaxSvc} \subseteq Nat \ {0}
  /\ MaxFaults \in Nat

Id  == OneShot \cup Periodic
Svc == 1 .. MaxSvc

VARIABLES
  clock,
  file,      \* [Id -> record]: jobs.json
  mem,       \* [Svc -> [Id -> record]]: cs.store
  svc,       \* the newest service
  state,     \* [Svc -> "none" | "idle" | "running" | "stopped"], "none" when
             \* not made yet or gone with its process
  loop,      \* [Svc -> [pc, due]]: the run loop and its dueJobIDs
  tool,      \* [Svc -> the job AddJob returned, not yet given to UpdateJob]
  runs,      \* ghost: [OneShot -> number of executions begun]
  dropped,   \* ghost: <<s, id>> removed or deleted from the table of s
  faults,    \* faults that have happened
  ended,     \* ghost: jobs that were on and had no next run when it was computed
  foreign    \* ghost: the file was last written by another, or not at all

vars == <<clock, file, mem, svc, state, loop, tool, runs, dropped, faults, ended, foreign>>
ghosts == <<runs, dropped, ended>>

\* A job is on or off and armed for a time, 0 meaning no next run.
Job     == [on : BOOLEAN, next : Nat]
NoJob   == [on |-> FALSE, next |-> -1]
NoCopy  == [id |-> 0, job |-> NoJob]
Exited  == [pc |-> "gone", due |-> <<>>]
Waiting == [pc |-> "tick", due |-> <<>>]
Listed(t) == {j \in Id : t[j] # NoJob}

TypeOK ==
  /\ clock \in 1 .. MaxTime
  /\ file \in [Id -> Job \cup {NoJob}] /\ mem \in [Svc -> [Id -> Job \cup {NoJob}]]
  /\ svc \in Svc
  /\ state \in [Svc -> {"none", "idle", "running", "stopped"}]
  /\ loop \in [Svc -> [pc : {"tick", "next", "call", "gone"}, due : Seq(Id)]]
  /\ \A s \in Svc : loop[s].pc \in {"next", "call"} <=> loop[s].due # <<>>
  /\ tool \in [Svc -> [id : Id, job : Job] \cup {NoCopy}]
  /\ runs \in [OneShot -> Nat]
  /\ dropped \subseteq Svc \X Id /\ ended \subseteq Id /\ foreign \in BOOLEAN
  /\ faults \in 0 .. MaxFaults

----------------------------------------------------------------------------
(* The table                                                               *)

\* A mutant of computeNextRun: a time that has passed is due at once.
computeNextRunLate(j, now) == IF j \in OneShot THEN At[j] ELSE now + Period

\* A schedule may name no later time: nothing at the call sites rules it out.
computeNextRun(j, now) ==
  LET t == IF j \in OneShot THEN At[j] ELSE now + Period
  IN  IF t > now /\ (j \in Periodic => t <= Until[j]) THEN t ELSE 0

Due(t, now) == {j \in Listed(t) : t[j].on /\ t[j].next \in 1 .. now}

recomputeNextRuns(t, now) ==
  [j \in Id |-> IF t[j] # NoJob /\ t[j].on
                THEN [t[j] EXCEPT !.next = computeNextRun(j, now)] ELSE t[j]]

\* A mutant of Finished: a run that failed returns before the re-arming.
FinishedUnarmed(t, j, now) ==
  IF j \in OneShot THEN [t EXCEPT ![j] = NoJob] ELSE t

\* The end of executeJobByID: a one-shot job is deleted, another one re-armed,
\* whether or not it is still on.
Finished(t, j, now) ==
  IF t[j] = NoJob THEN t
  ELSE IF j \in OneShot THEN [t EXCEPT ![j] = NoJob]
  ELSE [t EXCEPT ![j].next = computeNextRun(j, now)]

Toggled(t, j, on, now) ==
  [t EXCEPT ![j] = [on |-> on, next |-> IF on THEN computeNextRun(j, now) ELSE 0]]

\* A mutant of Commit: the table is changed and not saved.
CommitUnsaved(s, t) ==
  /\ mem' = [mem EXCEPT ![s] = t]
  /\ UNCHANGED <<file, foreign, faults>>

Fault == faults < MaxFaults /\ faults' = faults + 1

\* saveStoreUnsafe in the critical section that changed the table; it may fail,
\* and the change stays.
Commit(s, t) ==
  /\ mem' = [mem EXCEPT ![s] = t]
  /\ \/ file' = t /\ foreign' = (s # svc) /\ UNCHANGED faults
     \/ Fault /\ file' = file /\ foreign' = TRUE

\* The ghost's note of the next runs that were just computed.
NoteEnded(js, t) ==
  ended' = ended \cup {j \in js : t[j] # NoJob /\ t[j].on /\ t[j].next = 0}

----------------------------------------------------------------------------
CInit ==
  /\ clock = 1
  /\ file = [j \in Id |-> NoJob] /\ mem = [s \in Svc |-> [j \in Id |-> NoJob]]
  /\ svc = 1
  /\ state = [s \in Svc |-> IF s = 1 THEN "running" ELSE "none"]
  /\ loop = [s \in Svc |-> IF s = 1 THEN Waiting ELSE Exited]
  /\ tool = [s \in Svc |-> NoCopy]
  /\ runs = [j \in OneShot |-> 0]
  /\ dropped = {} /\ ended = {} /\ foreign = FALSE
  /\ faults = 0

Tick ==
  /\ clock < MaxTime /\ clock' = clock + 1
  /\ UNCHANGED <<file, mem, svc, state, loop, tool, ghosts, foreign, faults>>

\* The next service: NewCronService and Start on the file as it is.  The run
\* loop starts only when the recomputed table could be saved; the tool is
\* registered either way.
Start ==
  /\ state[svc] # "running" /\ svc < MaxSvc
  /\ svc' = svc + 1
  /\ LET t == recomputeNextRuns(file, clock) IN
       /\ mem' = [mem EXCEPT ![svc + 1] = t]
       /\ NoteEnded(Id, t)
       /\ \/ /\ file' = t /\ foreign' = FALSE /\ UNCHANGED faults
             /\ state' = [state EXCEPT ![svc + 1] = "running"]
             /\ loop' = [loop EXCEPT ![svc + 1] = Waiting]
          \/ /\ Fault /\ file' = file /\ foreign' = TRUE
             /\ state' = [state EXCEPT ![svc + 1] = "idle"]
             /\ UNCHANGED loop
  /\ UNCHANGED <<clock, tool, runs, dropped>>

\* Stop does not wait for the run loop, nor for the jobs it has taken.
Stop ==
  /\ state[svc] = "running"
  /\ state' = [state EXCEPT ![svc] = "stopped"]
  /\ UNCHANGED <<clock, file, mem, svc, loop, tool, ghosts, foreign, faults>>

\* The process dies with every table and loop in it.
Crash ==
  /\ svc < MaxSvc /\ Fault
  /\ state' = [s \in Svc |-> "none"]
  /\ loop' = [s \in Svc |-> Exited]
  /\ tool' = [s \in Svc |-> NoCopy]
  /\ mem' = [s \in Svc |-> [j \in Id |-> NoJob]]
  /\ UNCHANGED <<clock, file, svc, ghosts, foreign>>

\* checkJobs: take the due jobs, disarm them and save, whether or not there
\* are any.
checkJobs(s) ==
  /\ loop[s].pc = "tick"
  /\ IF state[s] # "running"
     THEN /\ loop' = [loop EXCEPT ![s] = Exited]
          /\ UNCHANGED <<file, mem, foreign, faults>>
     ELSE LET due == Due(mem[s], clock) IN
          /\ loop' = IF due = {} THEN loop
                     ELSE [loop EXCEPT ![s] = [pc |-> "next", due |-> SetToSeq(due)]]
          /\ Commit(s, [j \in Id |-> IF j \in due THEN [mem[s][j] EXCEPT !.next = 0]
                                                  ELSE mem[s][j]])
  /\ UNCHANGED <<clock, svc, state, tool, ghosts>>

\* A mutant of Rest: the loop over the due jobs runs one too far.
RestTooFar(s) == [pc |-> "next", due |-> Tail(loop[s].due)]

Rest(s) == IF Len(loop[s].due) = 1 THEN Waiting
           ELSE [pc |-> "next", due |-> Tail(loop[s].due)]

\* executeJobByID up to the callback: only a job no longer in the table is
\* skipped.
Begin(s) ==
  LET j == Head(loop[s].due) IN
  /\ loop[s].pc = "next"
  /\ IF mem[s][j] = NoJob
     THEN loop' = [loop EXCEPT ![s] = Rest(s)] /\ UNCHANGED runs
     ELSE /\ loop' = [loop EXCEPT ![s].pc = "call"]
          /\ runs' = IF j \in OneShot THEN [runs EXCEPT ![j] = @ + 1] ELSE runs
  /\ UNCHANGED <<clock, file, mem, svc, state, tool, dropped, ended, foreign, faults>>

\* The callback is back, with or without an error.
End(s) ==
  LET j == Head(loop[s].due) IN
  /\ loop[s].pc = "call"
  /\ loop' = [loop EXCEPT ![s] = Rest(s)]
  /\ IF mem[s][j] = NoJob THEN UNCHANGED <<mem, file, foreign, faults>>
     ELSE Commit(s, Finished(mem[s], j, clock))
  /\ NoteEnded({j}, Finished(mem[s], j, clock))
  /\ dropped' = IF j \in OneShot THEN dropped \cup {<<s, j>>} ELSE dropped
  /\ UNCHANGED <<clock, svc, state, tool, runs>>

----------------------------------------------------------------------------
(* The cron tool, on the service of the turn that calls it, and the CLI     *)

\* Ids are fresh: a job is added once.  Its time may be past by then: at_seconds
\* below one adds nothing to the tool's now, and AddJob takes its own under the
\* lock.
Fresh(j) ==
  /\ file[j] = NoJob /\ \A s \in Svc : mem[s][j] = NoJob /\ <<s, j>> \notin dropped
  /\ j \in OneShot => runs[j] = 0

New(j) == [on |-> TRUE, next |-> computeNextRun(j, clock)]

\* A save that fails is an error to the tool, which stops there.
AddJob(s, j) ==
  /\ state[s] # "none" /\ tool[s] = NoCopy /\ Fresh(j)
  /\ Commit(s, [mem[s] EXCEPT ![j] = New(j)])
  /\ NoteEnded({j}, [mem[s] EXCEPT ![j] = New(j)])
  /\ tool' = IF j \in Command /\ faults' = faults THEN [tool EXCEPT ![s] = [id |-> j, job |-> New(j)]] ELSE tool
  /\ UNCHANGED <<clock, svc, state, loop, runs, dropped>>

\* A mutant of UpdateJob: a job that is not found is appended.
UpdateJobUpsert(s) ==
  /\ tool[s] # NoCopy
  /\ tool' = [tool EXCEPT ![s] = NoCopy]
  /\ Commit(s, [mem[s] EXCEPT ![tool[s].id] = tool[s].job])
  /\ UNCHANGED <<clock, svc, state, loop, ghosts>>

\* UpdateJob writes the job back as AddJob returned it, next run included.
UpdateJob(s) ==
  LET j == tool[s].id IN
  /\ tool[s] # NoCopy
  /\ tool' = [tool EXCEPT ![s] = NoCopy]
  /\ IF mem[s][j] = NoJob THEN UNCHANGED <<mem, file, foreign, faults>>
     ELSE Commit(s, [mem[s] EXCEPT ![j] = tool[s].job])
  /\ UNCHANGED <<clock, svc, state, loop, ghosts>>

RemoveJob(s, j) ==
  /\ mem[s][j] # NoJob
  /\ Commit(s, [mem[s] EXCEPT ![j] = NoJob])
  /\ dropped' = dropped \cup {<<s, j>>}
  /\ UNCHANGED <<clock, svc, state, loop, tool, runs, ended>>

EnableJob(s, j, on) ==
  /\ mem[s][j] # NoJob
  /\ LET t == Toggled(mem[s], j, on, clock) IN Commit(s, t) /\ NoteEnded({j}, t)
  /\ UNCHANGED <<clock, svc, state, loop, tool, runs, dropped>>

\* A command of the CLI loads the file, changes it and saves it.  It adds
\* periodic jobs only.
Cli(t) ==
  /\ Fault /\ file' = t /\ foreign' = TRUE
  /\ UNCHANGED <<clock, mem, svc, state, loop, tool, ghosts>>

CliCommand ==
  \E j \in Id :
    \/ j \in Periodic /\ Fresh(j) /\ Cli([file EXCEPT ![j] = New(j)])
    \/ file[j] # NoJob /\ Cli([file EXCEPT ![j] = NoJob])
    \/ \E on \in BOOLEAN : file[j] # NoJob /\ Cli(Toggled(file, j, on, clock))

Loop(s) == checkJobs(s) \/ Begin(s) \/ End(s)

CNext ==
  \/ Tick \/ Start \/ Stop \/ Crash \/ CliCommand
  \/ \E s \in Svc :
       \/ Loop(s) \/ UpdateJob(s)
       \/ \E j \in Id : \/ AddJob(s, j) \/ RemoveJob(s, j)
                        \/ \E on \in BOOLEAN : EnableJob(s, j, on)

CSpec == CInit /\ [][CNext]_vars

----------------------------------------------------------------------------
(* Properties                                                              *)

\* However ticks, a stale UpdateJob, reloads, crashes, failed saves and CLI
\* commands interleave, a one-shot job is not executed twice (on a clock that
\* does not go back).
OneShotOnce == \A j \in OneShot : runs[j] <= 1

Taken(s, j) == \E i \in 1 .. Len(loop[s].due) : loop[s].due[i] = j

\* What a schedule itself has left after a time: a one-shot job its time, a
\* periodic one a full period.
NothingLeft(j, now) ==
  IF j \in OneShot THEN At[j] <= now ELSE Until[j] < now + Period

\* A job that is on in a running service is armed or in the hands of its run
\* loop, through stops and restarts in the middle of its run, late ends and
\* stale updates.  It lies there for good for one reason only, which the code
\* neither refuses nor reports: its schedule named no time to come when its
\* next run was computed, a one-shot job's time being past, a periodic one's
\* interval not positive or its expression over or not to be parsed.
NeverDormant ==
  \A s \in Svc, j \in Id :
    state[s] = "running" /\ mem[s][j] # NoJob /\ mem[s][j].on =>
      \/ mem[s][j].next # 0 \/ Taken(s, j)
      \/ j \in ended /\ NothingLeft(j, clock)

\* Every change of the newest service's table is in the file by the time the
\* lock is released, but for a failed save and another writer.
WrittenThrough == ~foreign /\ state[svc] = "running" => file = mem[svc]

\* A job removed from a service's table, or deleted by its run, does not come
\* back into it: not by a late end of its run or an UpdateJob.
StaysRemoved == \A s \in Svc, j \in Id : <<s, j>> \in dropped => mem[s][j] = NoJob
=============================================================================
