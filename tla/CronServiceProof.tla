-------------------------- MODULE CronServiceProof --------------------------
(* The safety properties of the cron service for any jobs, periods and      *)
(* numbers of services and faults: CronInv is inductive and implies them.   *)
EXTENDS CronService, FiniteSetTheorems, SequenceTheorems, TLAPS

Entry == Job \cup {NoJob}
Table == [Id -> Entry]
RunLoop == [pc : {"tick", "next", "call", "gone"}, due : Seq(Id)]

\* The jobs a service's run loop has taken, and those of them it has not begun.
taken   == [s \in Svc |-> {j \in Id : Taken(s, j)}]
pending == [s \in Svc |-> {j \in Id : \E i \in 1 .. Len(loop[s].due) :
                             loop[s].due[i] = j /\ (loop[s].pc = "call" => i # 1)}]

\* A loop takes a job once.
DueDistinct ==
  \A s \in Svc : \A a, b \in 1 .. Len(loop[s].due) : loop[s].due[a] = loop[s].due[b] => a = b

\* A service not made yet has nothing, and only the newest one runs.
Unmade ==
  /\ \A s \in Svc : s > svc => /\ state[s] = "none" /\ loop[s] = Exited /\ tool[s] = NoCopy
                               /\ \A j \in Id : mem[s][j] = NoJob /\ <<s, j>> \notin dropped
  /\ \A s \in Svc : state[s] = "running" => s = svc

\* A one-shot job is armed for its own time or not at all, and a copy that the
\* tool holds is armed unless the job's schedule had ended.
OwnTime ==
  /\ \A j \in OneShot :
       /\ file[j].next \in {-1, 0, At[j]}
       /\ \A s \in Svc : mem[s][j].next \in {-1, 0, At[j]}
       /\ \A s \in Svc : tool[s] # NoCopy /\ tool[s].id = j => tool[s].job.next \in {0, At[j]}
  /\ \A s \in Svc : tool[s] # NoCopy /\ tool[s].job.next = 0 => tool[s].id \in ended

\* A one-shot job that was taken or run is due, and one in a loop's hands is in
\* the table or known to be gone.
TakenInTime ==
  \A j \in OneShot :
    /\ runs[j] # 0 => At[j] <= clock
    /\ \A s \in Svc : j \in taken[s] => At[j] <= clock /\ (mem[s][j] # NoJob \/ <<s, j>> \in dropped)

\* Live(s, j): the loop of s is yet to run j.
Live(s, j) == j \in pending[s] /\ mem[s][j] # NoJob

\* At most one loop is yet to run a one-shot job, and then it has not run.
OneLoop ==
  \A j \in OneShot, s \in Svc :
    Live(s, j) => runs[j] = 0 /\ \A t \in Svc : Live(t, j) => t = s

\* A job the newest service may take, now or once the tool has written its copy
\* back, has not run and is in no loop's hands, or its own loop has taken it.
ArmedOnce ==
  \A j \in OneShot :
    /\ state[svc] = "running" /\ mem[svc][j] # NoJob
    /\ \/ mem[svc][j].on /\ mem[svc][j].next # 0
       \/ tool[svc] # NoCopy /\ tool[svc].id = j
    => \/ runs[j] = 0 /\ \A t \in Svc : ~Live(t, j)
       \/ j \in taken[svc]

Once == OneShotOnce /\ TakenInTime /\ OneLoop /\ ArmedOnce

Shape == TypeOK /\ DueDistinct /\ Unmade /\ OwnTime

\* A schedule that had ended when it was computed has nothing left.
EndedKnown == \A j \in ended : NothingLeft(j, clock)

CronInv == Shape /\ EndedKnown /\ Once /\ StaysRemoved /\ NeverDormant /\ WrittenThrough

----------------------------------------------------------------------------
(* What the steps of a run loop do to the jobs it has taken                *)

\* There are finitely many job ids.
LEMMA IdFinite == IsFiniteSet(Id)
  BY CronAssumption, FS_Union DEF Id

\* The due jobs are listed in a sequence, each of them once.
LEMMA ListOfSet ==
  ASSUME NEW D \in SUBSET Id
  PROVE  LET d == SetToSeq(D) IN
         /\ d \in Seq(Id) /\ (d = <<>> <=> D = {})
         /\ \A a, b \in 1 .. Len(d) : d[a] = d[b] => a = b
         /\ \A j \in Id : j \in D <=> \E i \in 1 .. Len(d) : d[i] = j
  <1>. DEFINE n == Cardinality(D)
              d == SetToSeq(D)
  <1>1. IsFiniteSet(D) /\ n \in Nat /\ ExistsBijection(1 .. n, D)
    BY IdFinite, FS_Subset, FS_CardinalityType
  <1>2. \E f \in [1 .. n -> D] : IsInjective(f)
    <2>1. PICK f \in [1 .. n -> D] : \A a, b \in 1 .. n : f[a] = f[b] => a = b
      BY <1>1 DEF ExistsBijection, Bijection, Injection, Surjection, IsInjective
    <2>. QED
      BY <2>1 DEF IsInjective
  <1>3. d \in [1 .. n -> D] /\ IsInjective(d)
    BY <1>2 DEF SetToSeq
  <1>4. \A a, b \in 1 .. n : d[a] = d[b] => a = b
    BY <1>3 DEF IsInjective
  <1>5. d \in Seq(Id) /\ Len(d) = n
    <2>. HIDE DEF d, n
    <2>1. d \in Seq(D)
      BY <1>1, <1>3
    <2>2. DOMAIN d = 1 .. n /\ Len(d) = n
      BY <1>1, <1>3, <2>1, LenProperties
    <2>. QED
      BY <2>1, <2>2, SeqMonotonic
  <1>6. d \in Surjection(1 .. n, D)
    <2>1. IsFiniteSet(1 .. n) /\ Cardinality(1 .. n) = n
      BY <1>1, FS_Interval
    <2>2. d \in Injection(1 .. n, D)
      BY <1>3 DEF Injection, IsInjective
    <2>. QED
      BY <1>1, <2>1, <2>2, FS_Injection
  <1>7. \A j \in D : \E i \in 1 .. n : d[i] = j
    BY <1>6 DEF Surjection
  <1>8. d = <<>> <=> D = {}
    <2>1. n = 0 <=> D = {}
      BY <1>1, FS_EmptySet
    <2>2. d = <<>> <=> n = 0
      BY <1>5, EmptySeq
    <2>. QED
      BY <2>1, <2>2
  <1>. HIDE DEF d, n
  <1>. QED
    BY <1>3, <1>4, <1>5, <1>7, <1>8 DEF d

\* After the first of the due jobs come the others.
LEMMA RestOfLoop ==
  ASSUME NEW s \in Svc, loop[s] \in RunLoop, loop[s].due # <<>>
  PROVE  /\ Rest(s) \in RunLoop /\ Rest(s).pc \in {"tick", "next"}
         /\ Rest(s).pc = "next" <=> Rest(s).due # <<>>
         /\ Len(Rest(s).due) = Len(loop[s].due) - 1 /\ Len(Rest(s).due) \in Nat
         /\ \A i \in 1 .. Len(Rest(s).due) : Rest(s).due[i] = loop[s].due[i + 1]
         /\ Len(loop[s].due) \in Nat \ {0} /\ Head(loop[s].due) = loop[s].due[1]
         /\ Head(loop[s].due) \in Id
  <1>. DEFINE d == loop[s].due
  <1>1. d \in Seq(Id) /\ d # <<>>
    BY DEF RunLoop
  <1>. HIDE DEF d
  <1>2. /\ Len(d) \in Nat \ {0} /\ Head(d) \in Id /\ Head(d) = d[1]
        /\ Tail(d) \in Seq(Id) /\ Len(Tail(d)) = Len(d) - 1
        /\ \A i \in 1 .. Len(Tail(d)) : Tail(d)[i] = d[i + 1]
    <2>1. Len(d) \in Nat \ {0}
      BY <1>1, EmptySeq
    <2>2. /\ Head(d) \in Id /\ Tail(d) \in Seq(Id) /\ Len(Tail(d)) = Len(d) - 1
          /\ \A i \in 1 .. Len(Tail(d)) : Tail(d)[i] = d[i + 1]
      BY <1>1, HeadTailProperties
    <2>3. Head(d) = d[1]
      BY <1>1, <2>1
    <2>. QED
      BY <2>1, <2>2, <2>3
  <1>3. <<>> \in Seq(Id) /\ Len(<<>>) = 0
    BY EmptySeq
  <1>4. Tail(d) # <<>> <=> Len(d) # 1
    <2>. DEFINE t == Tail(d)
    <2>1. t \in Seq(Id) /\ Len(t) = Len(d) - 1
      BY <1>2
    <2>. HIDE DEF t
    <2>2. t # <<>> <=> Len(t) # 0
      BY <2>1, EmptySeq
    <2>3. t # <<>> <=> Len(d) # 1
      BY <1>2, <2>1, <2>2
    <2>. QED
      BY <2>3 DEF t
  <1>5. Rest(s) = IF Len(d) = 1 THEN Waiting ELSE [pc |-> "next", due |-> Tail(d)]
    BY DEF Rest, d
  <1>6. CASE Len(d) = 1
    BY <1>2, <1>3, <1>5, <1>6 DEF RunLoop, Waiting, d
  <1>7. CASE Len(d) # 1
    BY <1>2, <1>4, <1>5, <1>7 DEF RunLoop, d
  <1>. QED
    BY <1>6, <1>7

\* checkJobs takes the due jobs; a loop that ends had none.
LEMMA CheckTakes ==
  ASSUME Shape, NEW s \in Svc, checkJobs(s)
  PROVE  LET D == IF state[s] = "running" THEN Due(mem[s], clock) ELSE {} IN
         /\ taken' = [taken EXCEPT ![s] = D] /\ pending' = [pending EXCEPT ![s] = D]
         /\ taken[s] = {} /\ pending[s] = {}
         /\ loop' \in [Svc -> RunLoop] /\ DueDistinct'
         /\ \A t \in Svc : loop'[t].pc \in {"next", "call"} <=> loop'[t].due # <<>>
         /\ \A t \in Svc \ {s} : loop'[t] = loop[t]
  <1>. DEFINE due == Due(mem[s], clock)
              D == IF state[s] = "running" THEN due ELSE {}
              d == SetToSeq(due)
  <1>1. /\ loop \in [Svc -> RunLoop] /\ loop[s].pc = "tick" /\ loop[s].due = <<>>
        /\ \A t \in Svc : loop[t].pc \in {"next", "call"} <=> loop[t].due # <<>>
    BY DEF Shape, TypeOK, checkJobs, RunLoop
  <1>2. due \subseteq Id
    BY DEF Due, Listed
  <1>3. /\ d \in Seq(Id) /\ (d = <<>> <=> due = {})
        /\ \A a, b \in 1 .. Len(d) : d[a] = d[b] => a = b
        /\ \A j \in Id : j \in due <=> \E i \in 1 .. Len(d) : d[i] = j
    BY <1>2, ListOfSet
  <1>4. <<>> \in Seq(Id) /\ Len(<<>>) = 0
    BY EmptySeq
  <1>5. loop' = CASE state[s] # "running" -> [loop EXCEPT ![s] = Exited]
                  [] state[s] = "running" /\ due = {} -> loop
                  [] OTHER -> [loop EXCEPT ![s] = [pc |-> "next", due |-> d]]
    BY DEF checkJobs
  <1>. HIDE DEF due, d
  <1>6. /\ loop' \in [Svc -> RunLoop]
        /\ \A t \in Svc \ {s} : loop'[t] = loop[t]
        /\ loop'[s].pc \in {"next", "call"} <=> loop'[s].due # <<>>
        /\ loop'[s].pc # "call"
        /\ \A a, b \in 1 .. Len(loop'[s].due) : loop'[s].due[a] = loop'[s].due[b] => a = b
        /\ \A j \in Id : j \in D <=> \E i \in 1 .. Len(loop'[s].due) : loop'[s].due[i] = j
    <2>1. CASE state[s] # "running"
      BY <2>1, <1>1, <1>4, <1>5 DEF Exited, RunLoop
    <2>2. CASE state[s] = "running" /\ due = {}
      BY <2>2, <1>1, <1>3, <1>4, <1>5 DEF RunLoop
    <2>3. CASE state[s] = "running" /\ due # {}
      <3>1. loop' = [loop EXCEPT ![s] = [pc |-> "next", due |-> d]]
        BY <2>3, <1>5
      <3>2. /\ loop' \in [Svc -> RunLoop] /\ loop'[s].pc = "next" /\ loop'[s].due = d
            /\ \A t \in Svc \ {s} : loop'[t] = loop[t]
        BY <3>1, <1>1, <1>3 DEF RunLoop
      <3>. QED
        BY <2>3, <3>2, <1>3
    <2>. QED
      BY <2>1, <2>2, <2>3
  <1>7. taken[s] = {} /\ pending[s] = {}
    BY <1>1, <1>4 DEF taken, Taken, pending
  <1>8. taken' = [taken EXCEPT ![s] = D] /\ pending' = [pending EXCEPT ![s] = D]
    <2>1. D \subseteq Id
      BY <1>2
    <2>2. \A t \in Svc \ {s} : taken'[t] = taken[t] /\ pending'[t] = pending[t]
      BY <1>6 DEF taken, Taken, pending
    <2>3. taken'[s] = D /\ pending'[s] = D
      <3>. HIDE DEF D
      <3>. QED
        BY <1>6, <2>1 DEF taken, Taken, pending
    <2>. HIDE DEF D
    <2>4. taken' \in [Svc -> SUBSET Id] /\ taken \in [Svc -> SUBSET Id]
      BY DEF taken
    <2>5. pending' \in [Svc -> SUBSET Id] /\ pending \in [Svc -> SUBSET Id]
      BY DEF pending
    <2>. QED
      BY <2>2, <2>3, <2>4, <2>5
  <1>9. DueDistinct'
    BY <1>6 DEF Shape, DueDistinct
  <1>. QED
    BY <1>1, <1>6, <1>7, <1>8, <1>9 DEF due

\* Begin drops a job that is gone, and otherwise takes it from the pending ones.
LEMMA BeginTakes ==
  ASSUME Shape, NEW s \in Svc, Begin(s)
  PROVE  LET j == Head(loop[s].due) IN
         /\ j \in Id /\ j \in taken[s] /\ j \in pending[s]
         /\ pending' = [pending EXCEPT ![s] = @ \ {j}]
         /\ taken' = IF mem[s][j] = NoJob THEN [taken EXCEPT ![s] = @ \ {j}] ELSE taken
         /\ loop' \in [Svc -> RunLoop] /\ DueDistinct'
         /\ \A t \in Svc : loop'[t].pc \in {"next", "call"} <=> loop'[t].due # <<>>
         /\ \A t \in Svc \ {s} : loop'[t] = loop[t]
  <1>. DEFINE j == Head(loop[s].due)
  <1>1. /\ loop \in [Svc -> RunLoop] /\ loop[s].pc = "next" /\ loop[s].due # <<>>
        /\ \A t \in Svc : loop[t].pc \in {"next", "call"} <=> loop[t].due # <<>>
    BY DEF Shape, TypeOK, Begin, RunLoop
  <1>2. /\ Rest(s) \in RunLoop /\ Rest(s).pc \in {"tick", "next"}
        /\ Rest(s).pc = "next" <=> Rest(s).due # <<>>
        /\ Len(Rest(s).due) = Len(loop[s].due) - 1 /\ Len(Rest(s).due) \in Nat
        /\ \A i \in 1 .. Len(Rest(s).due) : Rest(s).due[i] = loop[s].due[i + 1]
        /\ Len(loop[s].due) \in Nat \ {0} /\ j = loop[s].due[1] /\ j \in Id
    BY <1>1, RestOfLoop
  <1>3. \A a, b \in 1 .. Len(loop[s].due) : loop[s].due[a] = loop[s].due[b] => a = b
    BY DEF Shape, DueDistinct
  <1>4. j \in Id /\ j \in taken[s] /\ j \in pending[s]
    BY <1>1, <1>2 DEF taken, Taken, pending
  <1>5. /\ taken' \in [Svc -> SUBSET Id] /\ taken \in [Svc -> SUBSET Id]
        /\ pending' \in [Svc -> SUBSET Id] /\ pending \in [Svc -> SUBSET Id]
    BY DEF taken, pending
  <1>6. CASE mem[s][j] = NoJob
    <2>1. loop' = [loop EXCEPT ![s] = Rest(s)]
      BY <1>6 DEF Begin
    <2>2. loop' \in [Svc -> RunLoop] /\ loop'[s] = Rest(s) /\ \A t \in Svc \ {s} : loop'[t] = loop[t]
      BY <2>1, <1>1, <1>2
    <2>3. \A k \in Id : (\E i \in 1 .. Len(Rest(s).due) : Rest(s).due[i] = k) <=> k # j /\ Taken(s, k)
      <3>. SUFFICES ASSUME NEW k \in Id
                    PROVE (\E i \in 1 .. Len(Rest(s).due) : Rest(s).due[i] = k) <=> k # j /\ Taken(s, k)
        OBVIOUS
      <3>1. ASSUME NEW i \in 1 .. Len(Rest(s).due), Rest(s).due[i] = k PROVE k # j /\ Taken(s, k)
        BY <3>1, <1>2, <1>3 DEF Taken
      <3>2. ASSUME k # j, NEW i \in 1 .. Len(loop[s].due), loop[s].due[i] = k
            PROVE  Rest(s).due[i - 1] = k /\ i - 1 \in 1 .. Len(Rest(s).due)
        BY <3>2, <1>2
      <3>. QED
        BY <3>1, <3>2 DEF Taken
    <2>4. /\ taken'[s] = taken[s] \ {j} /\ pending'[s] = pending[s] \ {j}
          /\ \A t \in Svc \ {s} : taken'[t] = taken[t] /\ pending'[t] = pending[t]
      <3>1. taken[s] = {k \in Id : Taken(s, k)} /\ pending[s] = {k \in Id : Taken(s, k)}
        BY <1>1 DEF taken, pending, Taken
      <3>2. /\ taken'[s] = {k \in Id : \E i \in 1 .. Len(Rest(s).due) : Rest(s).due[i] = k}
            /\ pending'[s] = {k \in Id : \E i \in 1 .. Len(Rest(s).due) : Rest(s).due[i] = k}
        BY <2>2, <1>2 DEF taken, pending, Taken
      <3>3. \A t \in Svc \ {s} : taken'[t] = taken[t] /\ pending'[t] = pending[t]
        BY <2>2 DEF taken, pending, Taken
      <3>. HIDE DEF j
      <3>. QED
        BY <3>1, <3>2, <3>3, <2>3
    <2>5. DueDistinct'
      <3>0. ASSUME NEW a \in 1 .. Len(Rest(s).due), NEW b \in 1 .. Len(Rest(s).due),
                   Rest(s).due[a] = Rest(s).due[b]
            PROVE  a = b
        <4>1. a + 1 \in 1 .. Len(loop[s].due) /\ b + 1 \in 1 .. Len(loop[s].due) /\ a \in Int /\ b \in Int
          BY <1>2
        <4>2. loop[s].due[a + 1] = loop[s].due[b + 1]
          BY <3>0, <1>2
        <4>3. a + 1 = b + 1
          BY <4>1, <4>2, <1>3
        <4>. QED
          BY <4>1, <4>3
      <3>1. \A a, b \in 1 .. Len(loop'[s].due) : loop'[s].due[a] = loop'[s].due[b] => a = b
        BY <2>2, <3>0
      <3>2. \A t \in Svc \ {s} : \A a, b \in 1 .. Len(loop'[t].due) :
              loop'[t].due[a] = loop'[t].due[b] => a = b
        BY <2>2 DEF Shape, DueDistinct
      <3>. QED
        BY <3>1, <3>2 DEF DueDistinct
    <2>. QED
      BY <1>1, <1>2, <1>4, <1>5, <1>6, <2>2, <2>4, <2>5
  <1>7. CASE mem[s][j] # NoJob
    <2>1. loop' = [loop EXCEPT ![s].pc = "call"]
      BY <1>7 DEF Begin
    <2>2. /\ loop' \in [Svc -> RunLoop] /\ loop'[s].pc = "call" /\ loop'[s].due = loop[s].due
          /\ \A t \in Svc \ {s} : loop'[t] = loop[t]
      BY <2>1, <1>1 DEF RunLoop
    <2>3. \A t \in Svc : taken'[t] = taken[t] /\ (t # s => pending'[t] = pending[t])
      BY <2>2 DEF taken, pending, Taken
    <2>4. pending'[s] = pending[s] \ {j}
      <3>1. pending[s] = {k \in Id : \E i \in 1 .. Len(loop[s].due) : loop[s].due[i] = k}
        BY <1>1 DEF pending
      <3>2. pending'[s] = {k \in Id : \E i \in 1 .. Len(loop[s].due) : loop[s].due[i] = k /\ i # 1}
        BY <2>2 DEF pending
      <3>. QED
        BY <3>1, <3>2, <1>2, <1>3
    <2>5. DueDistinct'
      BY <2>2 DEF Shape, DueDistinct
    <2>. QED
      BY <1>1, <1>4, <1>5, <1>7, <2>2, <2>3, <2>4, <2>5
  <1>. QED
    BY <1>6, <1>7

\* End drops the job it has run.
LEMMA EndTakes ==
  ASSUME Shape, NEW s \in Svc, End(s)
  PROVE  LET j == Head(loop[s].due) IN
         /\ j \in Id /\ j \in taken[s] /\ j \notin pending[s]
         /\ taken' = [taken EXCEPT ![s] = @ \ {j}] /\ pending' = pending
         /\ loop' \in [Svc -> RunLoop] /\ DueDistinct'
         /\ \A t \in Svc : loop'[t].pc \in {"next", "call"} <=> loop'[t].due # <<>>
         /\ \A t \in Svc \ {s} : loop'[t] = loop[t]
  <1>. DEFINE j == Head(loop[s].due)
  <1>1. /\ loop \in [Svc -> RunLoop] /\ loop[s].pc = "call" /\ loop[s].due # <<>>
        /\ \A t \in Svc : loop[t].pc \in {"next", "call"} <=> loop[t].due # <<>>
        /\ loop' = [loop EXCEPT ![s] = Rest(s)]
    BY DEF Shape, TypeOK, End, RunLoop
  <1>2. /\ Rest(s) \in RunLoop /\ Rest(s).pc \in {"tick", "next"}
        /\ Rest(s).pc = "next" <=> Rest(s).due # <<>>
        /\ Len(Rest(s).due) = Len(loop[s].due) - 1 /\ Len(Rest(s).due) \in Nat
        /\ \A i \in 1 .. Len(Rest(s).due) : Rest(s).due[i] = loop[s].due[i + 1]
        /\ Len(loop[s].due) \in Nat \ {0} /\ j = loop[s].due[1] /\ j \in Id
    BY <1>1, RestOfLoop
  <1>3. \A a, b \in 1 .. Len(loop[s].due) : loop[s].due[a] = loop[s].due[b] => a = b
    BY DEF Shape, DueDistinct
  <1>4. j \in Id /\ j \in taken[s] /\ j \notin pending[s]
    BY <1>1, <1>2, <1>3 DEF taken, Taken, pending
  <1>5. /\ taken' \in [Svc -> SUBSET Id] /\ taken \in [Svc -> SUBSET Id]
        /\ pending' \in [Svc -> SUBSET Id] /\ pending \in [Svc -> SUBSET Id]
    BY DEF taken, pending
  <1>6. loop' \in [Svc -> RunLoop] /\ loop'[s] = Rest(s) /\ \A t \in Svc \ {s} : loop'[t] = loop[t]
    BY <1>1, <1>2
  <1>7. \A k \in Id : (\E i \in 1 .. Len(Rest(s).due) : Rest(s).due[i] = k)
                        <=> \E i \in 1 .. Len(loop[s].due) : loop[s].due[i] = k /\ i # 1
    <2>. SUFFICES ASSUME NEW k \in Id
                  PROVE (\E i \in 1 .. Len(Rest(s).due) : Rest(s).due[i] = k)
                          <=> \E i \in 1 .. Len(loop[s].due) : loop[s].due[i] = k /\ i # 1
      OBVIOUS
    <2>1. ASSUME NEW i \in 1 .. Len(Rest(s).due), Rest(s).due[i] = k
          PROVE  i + 1 \in 1 .. Len(loop[s].due) /\ loop[s].due[i + 1] = k /\ i + 1 # 1
      BY <2>1, <1>2
    <2>2. ASSUME NEW i \in 1 .. Len(loop[s].due), loop[s].due[i] = k, i # 1
          PROVE  Rest(s).due[i - 1] = k /\ i - 1 \in 1 .. Len(Rest(s).due)
      BY <2>2, <1>2
    <2>. QED
      BY <2>1, <2>2
  <1>8. /\ taken'[s] = taken[s] \ {j} /\ pending'[s] = pending[s]
        /\ \A t \in Svc \ {s} : taken'[t] = taken[t] /\ pending'[t] = pending[t]
    <2>1. /\ taken[s] = {k \in Id : Taken(s, k)}
          /\ pending[s] = {k \in Id : \E i \in 1 .. Len(loop[s].due) : loop[s].due[i] = k /\ i # 1}
      BY <1>1 DEF taken, pending
    <2>2. /\ taken'[s] = {k \in Id : \E i \in 1 .. Len(Rest(s).due) : Rest(s).due[i] = k}
          /\ pending'[s] = {k \in Id : \E i \in 1 .. Len(Rest(s).due) : Rest(s).due[i] = k}
      BY <1>6, <1>2 DEF taken, pending, Taken
    <2>3. \A t \in Svc \ {s} : taken'[t] = taken[t] /\ pending'[t] = pending[t]
      BY <1>6 DEF taken, pending, Taken
    <2>4. \A k \in Id : (\E i \in 1 .. Len(loop[s].due) : loop[s].due[i] = k /\ i # 1) <=> k # j /\ Taken(s, k)
      BY <1>2, <1>3 DEF Taken
    <2>. HIDE DEF j
    <2>. QED
      BY <2>1, <2>2, <2>3, <2>4, <1>7
  <1>9. DueDistinct'
    <2>0. ASSUME NEW a \in 1 .. Len(Rest(s).due), NEW b \in 1 .. Len(Rest(s).due),
                 Rest(s).due[a] = Rest(s).due[b]
          PROVE  a = b
      <3>1. a + 1 \in 1 .. Len(loop[s].due) /\ b + 1 \in 1 .. Len(loop[s].due) /\ a \in Int /\ b \in Int
        BY <1>2
      <3>2. loop[s].due[a + 1] = loop[s].due[b + 1]
        BY <2>0, <1>2
      <3>3. a + 1 = b + 1
        BY <3>1, <3>2, <1>3
      <3>. QED
        BY <3>1, <3>3
    <2>1. \A a, b \in 1 .. Len(loop'[s].due) : loop'[s].due[a] = loop'[s].due[b] => a = b
      BY <1>6, <2>0
    <2>2. \A t \in Svc \ {s} : \A a, b \in 1 .. Len(loop'[t].due) :
            loop'[t].due[a] = loop'[t].due[b] => a = b
      BY <1>6 DEF Shape, DueDistinct
    <2>. QED
      BY <2>1, <2>2 DEF DueDistinct
  <1>. QED
    BY <1>1, <1>2, <1>4, <1>5, <1>6, <1>8, <1>9

\* Steps that leave every loop's jobs alone leave these sets alone.
LEMMA LoopsAlone ==
  ASSUME loop \in [Svc -> RunLoop], loop' \in [Svc -> RunLoop],
         \A t \in Svc : loop'[t] = loop[t]
                        \/ {loop[t], loop'[t]} \subseteq {Exited, Waiting}
  PROVE  /\ taken' = taken /\ pending' = pending
         /\ DueDistinct => DueDistinct'
  <1>1. Exited.due = <<>> /\ Waiting.due = <<>> /\ Len(<<>>) = 0
    BY EmptySeq DEF Exited, Waiting
  <1>2. \A t \in Svc : taken'[t] = taken[t] /\ pending'[t] = pending[t]
    BY <1>1 DEF taken, pending, Taken
  <1>3. /\ taken' \in [Svc -> SUBSET Id] /\ taken \in [Svc -> SUBSET Id]
        /\ pending' \in [Svc -> SUBSET Id] /\ pending \in [Svc -> SUBSET Id]
    BY DEF taken, pending
  <1>4. DueDistinct => DueDistinct'
    BY <1>1 DEF DueDistinct
  <1>. QED
    BY <1>2, <1>3, <1>4

----------------------------------------------------------------------------
(* Types and shape                                                         *)

\* What computeNextRun answers: a time, for a one-shot job its own or none.
LEMMA Times ==
  ASSUME NEW now \in Nat, NEW j \in Id
  PROVE  /\ computeNextRun(j, now) \in Nat
         /\ j \in OneShot => computeNextRun(j, now) \in {0, At[j]} /\ At[j] \in Nat \ {0}
                             /\ (computeNextRun(j, now) # 0 => now < At[j])
         /\ computeNextRun(j, now) = 0 => NothingLeft(j, now)
  BY CronAssumption DEF computeNextRun, NothingLeft, Id

\* The tables that the operations compute are tables.
LEMMA Tables ==
  ASSUME NEW t \in Table, NEW now \in Nat
  PROVE  /\ recomputeNextRuns(t, now) \in Table
         /\ \A j \in Id :
              /\ Finished(t, j, now) \in Table
              /\ \A on \in BOOLEAN : Toggled(t, j, on, now) \in Table
              /\ [t EXCEPT ![j] = NoJob] \in Table
              /\ \A e \in Job : [t EXCEPT ![j] = e] \in Table
         /\ \A D \in SUBSET Listed(t) :
              [k \in Id |-> IF k \in D THEN [t[k] EXCEPT !.next = 0] ELSE t[k]] \in Table
  <1>1. \A k \in Id : t[k] \in Entry /\ (t[k] # NoJob => t[k] \in Job) /\ computeNextRun(k, now) \in Nat
    BY Times DEF Table, Entry
  <1>2. \A e \in Job, n \in Nat : [e EXCEPT !.next = n] \in Job
    BY DEF Job
  <1>3. recomputeNextRuns(t, now) \in Table
    BY <1>1, <1>2 DEF recomputeNextRuns, Table, Entry
  <1>4. ASSUME NEW j \in Id PROVE Finished(t, j, now) \in Table
    <2>1. CASE t[j] = NoJob \/ j \in OneShot
      BY <2>1, <1>1 DEF Finished, Table, Entry
    <2>2. CASE t[j] # NoJob /\ j \notin OneShot
      <3>1. [t[j] EXCEPT !.next = computeNextRun(j, now)] \in Job
        BY <2>2, <1>1, <1>2
      <3>. QED
        BY <2>2, <3>1 DEF Finished, Table, Entry
    <2>. QED
      BY <2>1, <2>2
  <1>5. \A j \in Id, on \in BOOLEAN : Toggled(t, j, on, now) \in Table
    BY <1>1 DEF Toggled, Table, Entry, Job
  <1>6. \A j \in Id : [t EXCEPT ![j] = NoJob] \in Table /\ \A e \in Job : [t EXCEPT ![j] = e] \in Table
    BY DEF Table, Entry
  <1>7. \A D \in SUBSET Listed(t) :
          [k \in Id |-> IF k \in D THEN [t[k] EXCEPT !.next = 0] ELSE t[k]] \in Table
    BY <1>1, <1>2 DEF Listed, Table, Entry
  <1>. QED
    BY <1>3, <1>4, <1>5, <1>6, <1>7

\* A table is changed in memory, and in the file unless the save fails.
LEMMA Committed ==
  ASSUME TypeOK, NEW s \in Svc, NEW t \in Table, Commit(s, t)
  PROVE  /\ mem' \in [Svc -> Table] /\ mem'[s] = t
         /\ \A u \in Svc \ {s} : mem'[u] = mem[u]
         /\ file' \in {t, file} /\ file' \in Table
         /\ foreign' \in BOOLEAN /\ faults' \in 0 .. MaxFaults
         /\ ~foreign' => s = svc /\ file' = t
  <1>1. mem \in [Svc -> Table] /\ file \in Table /\ faults \in 0 .. MaxFaults /\ MaxFaults \in Nat
    BY CronAssumption DEF TypeOK, Table, Entry
  <1>2. mem' = [mem EXCEPT ![s] = t]
    BY DEF Commit
  <1>3. file' \in {t, file} /\ foreign' \in BOOLEAN /\ (~foreign' => s = svc /\ file' = t)
    BY DEF Commit
  <1>4. faults' \in 0 .. MaxFaults
    BY <1>1 DEF Commit, Fault
  <1>. QED
    BY <1>1, <1>2, <1>3, <1>4

\* A fault is counted.
LEMMA Counted ==
  ASSUME TypeOK, Fault
  PROVE  faults' \in 0 .. MaxFaults
  BY CronAssumption DEF TypeOK, Fault

\* The types, put together again.
LEMMA Typed ==
  ASSUME clock \in 1 .. MaxTime, file \in Table, mem \in [Svc -> Table], svc \in Svc,
         state \in [Svc -> {"none", "idle", "running", "stopped"}],
         loop \in [Svc -> RunLoop],
         \A s \in Svc : loop[s].pc \in {"next", "call"} <=> loop[s].due # <<>>,
         tool \in [Svc -> [id : Id, job : Job] \cup {NoCopy}],
         runs \in [OneShot -> Nat], dropped \subseteq Svc \X Id, ended \subseteq Id,
         foreign \in BOOLEAN, faults \in 0 .. MaxFaults
  PROVE  TypeOK
  BY DEF TypeOK, Table, Entry, RunLoop

\* A service starts with no job taken and nothing written.
LEMMA CronStart == CInit => CronInv
  <1>. SUFFICES ASSUME CInit PROVE CronInv
    OBVIOUS
  <1>1. /\ MaxTime \in Nat \ {0} /\ MaxSvc \in Nat \ {0} /\ MaxFaults \in Nat
        /\ 1 \in Svc /\ At \in [OneShot -> Nat \ {0}] /\ OneShot \subseteq Id
        /\ <<>> \in Seq(Id) /\ Len(<<>>) = 0
    BY CronAssumption, EmptySeq DEF Svc, Id
  <1>2. TypeOK
    <2>1. loop \in [Svc -> RunLoop] /\ \A s \in Svc : loop[s].due = <<>> /\ loop[s].pc \in {"tick", "gone"}
      BY <1>1 DEF CInit, RunLoop, Waiting, Exited
    <2>2. file \in Table /\ mem \in [Svc -> Table]
      BY DEF CInit, Table, Entry
    <2>3. tool \in [Svc -> [id : Id, job : Job] \cup {NoCopy}]
      BY DEF CInit
    <2>4. runs \in [OneShot -> Nat] /\ state \in [Svc -> {"none", "idle", "running", "stopped"}]
      BY DEF CInit
    <2>5. /\ clock \in 1 .. MaxTime /\ svc \in Svc /\ dropped \subseteq Svc \X Id /\ ended \subseteq Id
          /\ foreign \in BOOLEAN /\ faults \in 0 .. MaxFaults
      <3>1. clock = 1 /\ svc = 1 /\ dropped = {} /\ ended = {} /\ foreign = FALSE /\ faults = 0
        BY DEF CInit
      <3>2. 1 \in 1 .. MaxTime /\ 0 \in 0 .. MaxFaults
        BY <1>1
      <3>. QED
        BY <1>1, <3>1, <3>2
    <2>. QED
      BY <2>1, <2>2, <2>3, <2>4, <2>5, Typed
  <1>3. DueDistinct /\ \A s \in Svc : taken[s] = {} /\ pending[s] = {}
    BY <1>1 DEF CInit, DueDistinct, taken, Taken, pending, Waiting, Exited
  <1>4. Unmade /\ OwnTime
    BY <1>1 DEF CInit, Unmade, OwnTime, NoJob, Svc
  <1>5. Once
    BY <1>1, <1>3 DEF CInit, Once, OneShotOnce, TakenInTime, OneLoop, Live, ArmedOnce
  <1>6. StaysRemoved /\ NeverDormant /\ WrittenThrough
    BY <1>1 DEF CInit, StaysRemoved, NeverDormant, WrittenThrough
  <1>7. EndedKnown
    BY DEF CInit, EndedKnown
  <1>. QED
    BY <1>2, <1>3, <1>4, <1>5, <1>6, <1>7 DEF CronInv, Shape

\* Every step keeps the types and the shape of the state.
LEMMA ShapeStep == Shape /\ [CNext]_vars => Shape'
  <1>. SUFFICES ASSUME Shape, [CNext]_vars PROVE Shape'
    OBVIOUS
  <1>. DEFINE Steady == \A s \in Svc : loop[s].pc \in {"next", "call"} <=> loop[s].due # <<>>
  <1>1. /\ clock \in 1 .. MaxTime /\ file \in Table /\ mem \in [Svc -> Table] /\ svc \in Svc
        /\ state \in [Svc -> {"none", "idle", "running", "stopped"}]
        /\ loop \in [Svc -> RunLoop] /\ Steady
        /\ tool \in [Svc -> [id : Id, job : Job] \cup {NoCopy}]
        /\ runs \in [OneShot -> Nat] /\ dropped \subseteq Svc \X Id /\ ended \subseteq Id
        /\ foreign \in BOOLEAN /\ faults \in 0 .. MaxFaults
    BY DEF Shape, TypeOK, Table, Entry, RunLoop
  <1>2. /\ TypeOK /\ DueDistinct /\ Unmade /\ OwnTime
        /\ MaxTime \in Nat \ {0} /\ MaxSvc \in Nat \ {0} /\ MaxFaults \in Nat
        /\ At \in [OneShot -> Nat \ {0}] /\ OneShot \subseteq Id /\ Svc = 1 .. MaxSvc
        /\ clock \in Nat \ {0} /\ OneShot \cap Periodic = {}
        /\ Exited \in RunLoop /\ Waiting \in RunLoop
        /\ Exited.due = <<>> /\ Waiting.due = <<>> /\ Exited.pc = "gone" /\ Waiting.pc = "tick"
    BY <1>1, CronAssumption, EmptySeq DEF Shape, Svc, Id, Exited, Waiting, RunLoop
  <1>13. \A s \in Svc : loop[s].pc # "gone" => s <= svc
    BY <1>1, <1>2 DEF Unmade
  <1>3. CASE Tick
    <2>1. clock' \in 1 .. MaxTime
      BY <1>1, <1>2, <1>3 DEF Tick
    <2>2. UNCHANGED <<file, mem, svc, state, loop, tool, runs, dropped, ended, foreign, faults>>
      BY <1>3 DEF Tick, ghosts
    <2>3. TypeOK'
      BY <1>1, <2>1, <2>2, Typed DEF TypeOK, Table, Entry, RunLoop
    <2>. QED
      BY <1>2, <2>2, <2>3 DEF Shape, DueDistinct, Unmade, OwnTime
  <1>4. CASE Stop
    <2>1. /\ UNCHANGED <<clock, file, mem, svc, loop, tool, runs, dropped, ended, foreign, faults>>
          /\ state' = [state EXCEPT ![svc] = "stopped"]
      BY <1>4 DEF Stop, ghosts
    <2>2. TypeOK'
      BY <1>1, <2>1 DEF TypeOK, Table, Entry, RunLoop
    <2>3. Unmade'
      BY <1>1, <1>2, <2>1 DEF Unmade
    <2>. QED
      BY <1>2, <2>1, <2>2, <2>3 DEF Shape, DueDistinct, OwnTime
  <1>5. CASE Crash
    <2>1. /\ UNCHANGED <<clock, file, svc, runs, dropped, ended, foreign>>
          /\ \A s \in Svc : /\ state'[s] = "none" /\ loop'[s] = Exited /\ tool'[s] = NoCopy
                            /\ \A j \in Id : mem'[s][j] = NoJob
      BY <1>5 DEF Crash, ghosts
    <2>2. TypeOK'
      <3>1. faults' \in 0 .. MaxFaults
        BY <1>5, <1>2, Counted DEF Crash
      <3>2. mem' \in [Svc -> Table]
        BY <1>5 DEF Crash, Table, Entry
      <3>3. /\ state' \in [Svc -> {"none", "idle", "running", "stopped"}] /\ loop' \in [Svc -> RunLoop]
            /\ tool' \in [Svc -> [id : Id, job : Job] \cup {NoCopy}]
        BY <1>5, <1>2 DEF Crash
      <3>4. \A s \in Svc : loop'[s].pc \in {"next", "call"} <=> loop'[s].due # <<>>
        BY <2>1, <1>2
      <3>. QED
        BY <1>1, <2>1, <3>1, <3>2, <3>3, <3>4 DEF TypeOK, Table, Entry, RunLoop
    <2>3. DueDistinct'
      BY <2>1, <1>2, EmptySeq DEF DueDistinct
    <2>4. Unmade'
      BY <2>1, <1>2 DEF Unmade
    <2>5. OwnTime'
      BY <2>1, <1>2 DEF OwnTime, NoJob
    <2>. QED
      BY <2>2, <2>3, <2>4, <2>5 DEF Shape
  <1>6. CASE Start
    <2>. DEFINE t == recomputeNextRuns(file, clock)
                n == svc + 1
    <2>1. t \in Table /\ n \in Svc /\ svc < n
      <3>1. t \in Table
        BY <1>1, <1>2, Tables
      <3>2. svc < MaxSvc
        BY <1>6 DEF Start
      <3>. QED
        BY <1>1, <1>2, <3>1, <3>2
    <2>2. /\ mem' = [mem EXCEPT ![n] = t] /\ svc' = n
          /\ UNCHANGED <<clock, tool, runs, dropped>> /\ file' \in {t, file} /\ foreign' \in BOOLEAN
          /\ state' \in {[state EXCEPT ![n] = "running"], [state EXCEPT ![n] = "idle"]}
          /\ loop' \in {[loop EXCEPT ![n] = Waiting], loop}
      BY <1>6 DEF Start
    <2>3. ended' \subseteq Id /\ ended \subseteq ended' /\ faults' \in 0 .. MaxFaults
      BY <1>1, <1>2, <1>6, Counted DEF Start, NoteEnded
    <2>4. loop[n] = Exited /\ state[svc] # "running"
      BY <1>2, <1>6, <2>1 DEF Unmade, Start
    <2>. HIDE DEF t, n
    <2>5. /\ loop' \in [Svc -> RunLoop] /\ \A s \in Svc \ {n} : loop'[s] = loop[s]
          /\ loop'[n] \in {Waiting, Exited}
      <3>1. CASE loop' = loop
        BY <1>1, <2>4, <3>1
      <3>2. CASE loop' = [loop EXCEPT ![n] = Waiting]
        BY <1>1, <1>2, <2>1, <3>2
      <3>. QED
        BY <2>2, <3>1, <3>2
    <2>6. TypeOK'
      <3>1. mem' \in [Svc -> Table] /\ file' \in Table
        BY <1>1, <2>1, <2>2
      <3>2. state' \in [Svc -> {"none", "idle", "running", "stopped"}]
        BY <1>1, <2>1, <2>2
      <3>3. \A s \in Svc : loop'[s].pc \in {"next", "call"} <=> loop'[s].due # <<>>
        BY <1>1, <1>2, <2>5
      <3>. QED
        BY <1>1, <2>1, <2>2, <2>3, <2>5, <3>1, <3>2, <3>3 DEF TypeOK, Table, Entry, RunLoop
    <2>7. DueDistinct'
      <3>1. \A u \in Svc : loop'[u] = loop[u]
                            \/ {loop[u], loop'[u]} \subseteq {Exited, Waiting}
        BY <2>4, <2>5
      <3>. QED
        BY <1>1, <1>2, <2>5, <3>1, LoopsAlone
    <2>8. Unmade'
      BY <1>1, <1>2, <2>1, <2>2, <2>4, <2>5 DEF Unmade
    <2>9. OwnTime'
      <3>1. \A j \in OneShot : t[j].next \in {-1, 0, At[j]}
        BY <1>1, <1>2, Times DEF t, recomputeNextRuns, OwnTime, Table, Entry, Job
      <3>. QED
        BY <1>1, <1>2, <2>1, <2>2, <2>3, <3>1 DEF OwnTime
    <2>. QED
      BY <2>6, <2>7, <2>8, <2>9 DEF Shape
  <1>7. CASE CliCommand
    <2>1. PICK j \in Id : \/ Fresh(j) /\ j \in Periodic /\ Cli([file EXCEPT ![j] = New(j)])
                          \/ file[j] # NoJob /\ Cli([file EXCEPT ![j] = NoJob])
                          \/ \E on \in BOOLEAN : file[j] # NoJob /\ Cli(Toggled(file, j, on, clock))
      BY <1>7 DEF CliCommand
    <2>2. New(j) \in Job
      BY <1>2, Times DEF New, Job
    <2>3. PICK f \in Table : Cli(f) /\ \A k \in OneShot : f[k].next \in {-1, 0, At[k]}
      <3>1. CASE j \in Periodic /\ Cli([file EXCEPT ![j] = New(j)])
        <4>1. [file EXCEPT ![j] = New(j)] \in Table
          BY <1>1, <1>2, <2>2, Tables
        <4>2. \A k \in OneShot : [file EXCEPT ![j] = New(j)][k].next \in {-1, 0, At[k]}
          BY <3>1, <1>1, <1>2 DEF OwnTime, Table
        <4>. QED
          BY <3>1, <4>1, <4>2
      <3>2. CASE Cli([file EXCEPT ![j] = NoJob])
        <4>1. [file EXCEPT ![j] = NoJob] \in Table
          BY <1>1, <1>2, Tables
        <4>2. \A k \in OneShot : [file EXCEPT ![j] = NoJob][k].next \in {-1, 0, At[k]}
          BY <1>1, <1>2 DEF OwnTime, Table, NoJob
        <4>. QED
          BY <3>2, <4>1, <4>2
      <3>3. ASSUME NEW on \in BOOLEAN, file[j] # NoJob, Cli(Toggled(file, j, on, clock))
            PROVE  \E f \in Table : Cli(f) /\ \A k \in OneShot : f[k].next \in {-1, 0, At[k]}
        <4>1. Toggled(file, j, on, clock) \in Table
          BY <3>3, <1>1, <1>2, Tables
        <4>2. \A k \in OneShot : Toggled(file, j, on, clock)[k].next \in {-1, 0, At[k]}
          BY <1>1, <1>2, Times DEF Toggled, OwnTime, Table
        <4>. QED
          BY <3>3, <4>1, <4>2
      <3>. QED
        BY <2>1, <3>1, <3>2, <3>3
    <2>4. /\ UNCHANGED <<clock, mem, svc, state, loop, tool, runs, dropped, ended>>
          /\ file' = f /\ foreign' = TRUE /\ faults' \in 0 .. MaxFaults
      BY <1>2, <2>3, Counted DEF Cli, ghosts
    <2>5. TypeOK'
      BY <1>1, <2>3, <2>4 DEF TypeOK, Table, Entry, RunLoop
    <2>. QED
      BY <1>2, <2>3, <2>4, <2>5 DEF Shape, DueDistinct, Unmade, OwnTime
  <1>8. ASSUME NEW s \in Svc, checkJobs(s) PROVE Shape'
    <2>. DEFINE due == Due(mem[s], clock)
                t == [j \in Id |-> IF j \in due THEN [mem[s][j] EXCEPT !.next = 0] ELSE mem[s][j]]
    <2>1. mem[s] \in Table /\ due \in SUBSET Listed(mem[s])
      BY <1>1 DEF Due
    <2>2. t \in Table
      <3>. HIDE DEF due
      <3>. QED
        BY <1>2, <2>1, Tables
    <2>3. /\ loop' \in [Svc -> RunLoop] /\ DueDistinct'
          /\ \A u \in Svc : loop'[u].pc \in {"next", "call"} <=> loop'[u].due # <<>>
          /\ \A u \in Svc \ {s} : loop'[u] = loop[u]
      BY <1>8, CheckTakes
    <2>4. UNCHANGED <<clock, svc, state, tool, runs, dropped, ended>>
      BY <1>8 DEF checkJobs, ghosts
    <2>5. s <= svc
      BY <1>8, <1>13 DEF checkJobs
    <2>6. /\ mem' \in [Svc -> Table] /\ file' \in Table /\ foreign' \in BOOLEAN /\ faults' \in 0 .. MaxFaults
          /\ \A u \in Svc \ {s} : mem'[u] = mem[u]
          /\ mem'[s] \in {mem[s], t} /\ file' \in {t, file}
      <3>1. CASE state[s] # "running"
        BY <3>1, <1>1, <1>8 DEF checkJobs
      <3>2. CASE state[s] = "running"
        BY <3>2, <1>2, <1>8, <2>2, Committed DEF checkJobs
      <3>. QED
        BY <3>1, <3>2
    <2>7. \A j \in OneShot : t[j].next \in {-1, 0, At[j]}
      <3>1. \A j \in OneShot : mem[s][j] \in Entry /\ mem[s][j].next \in {-1, 0, At[j]}
        BY <1>2, <2>1 DEF OwnTime, Table
      <3>2. \A e \in Job : [e EXCEPT !.next = 0].next = 0
        BY DEF Job
      <3>3. \A j \in due : mem[s][j] \in Job
        BY <2>1 DEF Listed, Table, Entry
      <3>. QED
        BY <1>2, <3>1, <3>2, <3>3
    <2>. HIDE DEF t
    <2>8. TypeOK'
      BY <1>1, <2>3, <2>4, <2>6 DEF TypeOK, Table, Entry, RunLoop
    <2>9. Unmade'
      BY <1>1, <1>2, <2>3, <2>4, <2>5, <2>6 DEF Unmade
    <2>10. OwnTime'
      BY <1>1, <1>2, <2>4, <2>6, <2>7 DEF OwnTime
    <2>. QED
      BY <2>3, <2>8, <2>9, <2>10 DEF Shape
  <1>9. ASSUME NEW s \in Svc, Begin(s) PROVE Shape'
    <2>1. /\ loop' \in [Svc -> RunLoop] /\ DueDistinct'
          /\ \A u \in Svc : loop'[u].pc \in {"next", "call"} <=> loop'[u].due # <<>>
          /\ \A u \in Svc \ {s} : loop'[u] = loop[u]
      BY <1>9, BeginTakes
    <2>2. UNCHANGED <<clock, file, mem, svc, state, tool, dropped, ended, foreign, faults>>
      BY <1>9 DEF Begin
    <2>3. runs' \in [OneShot -> Nat]
      BY <1>1, <1>9 DEF Begin
    <2>4. s <= svc
      BY <1>9, <1>13 DEF Begin
    <2>5. TypeOK'
      BY <1>1, <2>1, <2>2, <2>3 DEF TypeOK, Table, Entry, RunLoop
    <2>6. Unmade'
      BY <1>1, <1>2, <2>1, <2>2, <2>4 DEF Unmade
    <2>. QED
      BY <1>2, <2>1, <2>2, <2>5, <2>6 DEF Shape, OwnTime
  <1>10. ASSUME NEW s \in Svc, End(s) PROVE Shape'
    <2>. DEFINE j == Head(loop[s].due)
                t == Finished(mem[s], j, clock)
    <2>1. /\ loop' \in [Svc -> RunLoop] /\ DueDistinct' /\ j \in Id
          /\ \A u \in Svc : loop'[u].pc \in {"next", "call"} <=> loop'[u].due # <<>>
          /\ \A u \in Svc \ {s} : loop'[u] = loop[u]
      BY <1>10, EndTakes
    <2>2. /\ UNCHANGED <<clock, svc, state, tool, runs>>
          /\ dropped' \in {dropped, dropped \cup {<<s, j>>}}
          /\ ended \subseteq ended' /\ ended' \subseteq Id
      BY <1>1, <1>10, <2>1 DEF End, NoteEnded
    <2>3. s <= svc
      BY <1>10, <1>13 DEF End
    <2>4. mem[s] \in Table /\ t \in Table
      BY <1>1, <1>2, <2>1, Tables
    <2>. HIDE DEF j, t
    <2>5. /\ mem' \in [Svc -> Table] /\ file' \in Table /\ foreign' \in BOOLEAN /\ faults' \in 0 .. MaxFaults
          /\ \A u \in Svc \ {s} : mem'[u] = mem[u]
          /\ mem'[s] \in {mem[s], t} /\ file' \in {t, file}
      <3>1. CASE mem[s][j] = NoJob
        BY <3>1, <1>1, <1>10 DEF End, j
      <3>2. CASE mem[s][j] # NoJob
        BY <3>2, <1>2, <1>10, <2>4, Committed DEF End, j, t
      <3>. QED
        BY <3>1, <3>2
    <2>6. \A k \in OneShot : t[k].next \in {-1, 0, At[k]}
      BY <1>2, <2>1, <2>4 DEF t, Finished, OwnTime, NoJob, Table, Id
    <2>7. dropped' \subseteq Svc \X Id
      BY <1>1, <2>1, <2>2
    <2>8. TypeOK'
      BY <1>1, <2>1, <2>2, <2>5, <2>7 DEF TypeOK, Table, Entry, RunLoop
    <2>9. Unmade'
      BY <1>1, <1>2, <2>1, <2>2, <2>3, <2>5 DEF Unmade
    <2>10. OwnTime'
      <3>1. \A k \in OneShot : file'[k].next \in {-1, 0, At[k]}
        BY <1>2, <2>5, <2>6 DEF OwnTime
      <3>2. \A k \in OneShot : \A u \in Svc : mem'[u][k].next \in {-1, 0, At[k]}
        BY <1>2, <2>5, <2>6 DEF OwnTime
      <3>3. tool' = tool /\ ended \subseteq ended'
        BY <2>2
      <3>. QED
        BY <1>2, <3>1, <3>2, <3>3 DEF OwnTime
    <2>. QED
      BY <2>1, <2>8, <2>9, <2>10 DEF Shape
  <1>11. ASSUME NEW s \in Svc, NEW j \in Id, AddJob(s, j) \/ RemoveJob(s, j)
                  \/ \E on \in BOOLEAN : EnableJob(s, j, on)
         PROVE  Shape'
    <2>1. mem[s] \in Table /\ New(j) \in Job
      BY <1>1, <1>2, Times DEF New, Job
    <2>2. PICK t \in Table :
            /\ Commit(s, t)
            /\ \A k \in OneShot : t[k].next \in {-1, 0, At[k]}
      <3>1. CASE AddJob(s, j)
        <4>1. [mem[s] EXCEPT ![j] = New(j)] \in Table
          BY <1>2, <2>1, Tables
        <4>2. \A k \in OneShot : [mem[s] EXCEPT ![j] = New(j)][k].next \in {-1, 0, At[k]}
          <5>1. j \in OneShot => New(j).next \in {0, At[j]}
            BY <1>2, Times DEF New
          <5>. QED
            BY <1>2, <2>1, <5>1 DEF OwnTime, Table
        <4>. QED
          BY <3>1, <4>1, <4>2 DEF AddJob
      <3>2. CASE RemoveJob(s, j)
        <4>1. [mem[s] EXCEPT ![j] = NoJob] \in Table
          BY <1>2, <2>1, Tables
        <4>2. \A k \in OneShot : [mem[s] EXCEPT ![j] = NoJob][k].next \in {-1, 0, At[k]}
          BY <1>2, <2>1 DEF OwnTime, Table, NoJob
        <4>. QED
          BY <3>2, <4>1, <4>2 DEF RemoveJob
      <3>3. ASSUME NEW on \in BOOLEAN, EnableJob(s, j, on)
            PROVE  \E t \in Table : Commit(s, t) /\ \A k \in OneShot : t[k].next \in {-1, 0, At[k]}
        <4>1. Toggled(mem[s], j, on, clock) \in Table
          BY <1>2, <2>1, Tables
        <4>2. \A k \in OneShot : Toggled(mem[s], j, on, clock)[k].next \in {-1, 0, At[k]}
          <5>1. j \in OneShot => computeNextRun(j, clock) \in {0, At[j]}
            BY <1>2, Times
          <5>. QED
            BY <1>2, <2>1, <5>1 DEF Toggled, OwnTime, Table
        <4>. QED
          BY <3>3, <4>1, <4>2 DEF EnableJob
      <3>. QED
        BY <1>11, <3>1, <3>2, <3>3
    <2>3. /\ mem' \in [Svc -> Table] /\ mem'[s] = t /\ \A u \in Svc \ {s} : mem'[u] = mem[u]
          /\ file' \in {t, file} /\ file' \in Table /\ foreign' \in BOOLEAN /\ faults' \in 0 .. MaxFaults
      BY <1>2, <2>2, Committed
    <2>4. /\ UNCHANGED <<clock, svc, state, loop, runs>>
          /\ ended' \subseteq Id /\ ended \subseteq ended'
          /\ dropped' \in {dropped, dropped \cup {<<s, j>>}}
          /\ tool' \in {tool, [tool EXCEPT ![s] = [id |-> j, job |-> New(j)]]}
          /\ tool' # tool /\ New(j).next = 0 => j \in ended'
      <3>1. CASE AddJob(s, j)
        <4>1. [mem[s] EXCEPT ![j] = New(j)][j] = New(j) /\ New(j) # NoJob /\ New(j).on
          BY <2>1 DEF Table, New, NoJob, Job
        <4>. QED
          BY <1>1, <3>1, <4>1 DEF AddJob, NoteEnded
      <3>2. CASE RemoveJob(s, j)
        BY <1>1, <3>2 DEF RemoveJob
      <3>3. ASSUME NEW on \in BOOLEAN, EnableJob(s, j, on)
            PROVE  /\ UNCHANGED <<clock, svc, state, loop, runs, tool, dropped>>
                   /\ ended' \subseteq Id /\ ended \subseteq ended'
        BY <1>1, <3>3 DEF EnableJob, NoteEnded
      <3>. QED
        BY <1>11, <3>1, <3>2, <3>3
    <2>5. s <= svc
      <3>1. s > svc => state[s] = "none" /\ mem[s][j] = NoJob
        BY <1>1, <1>2 DEF Unmade
      <3>. QED
        BY <1>1, <1>2, <1>11, <3>1 DEF AddJob, RemoveJob, EnableJob
    <2>6. TypeOK'
      <3>1. tool' \in [Svc -> [id : Id, job : Job] \cup {NoCopy}]
        BY <1>1, <2>1, <2>4
      <3>2. dropped' \subseteq Svc \X Id
        BY <1>1, <2>4
      <3>. QED
        BY <1>1, <2>3, <2>4, <3>1, <3>2 DEF TypeOK, Table, Entry, RunLoop
    <2>7. Unmade'
      <3>1. \A u \in Svc : u > svc => u # s
        BY <1>1, <1>2, <2>5
      <3>2. \A u \in Svc \ {s} : /\ tool'[u] = tool[u]
                                  /\ \A k \in Id : <<u, k>> \in dropped' <=> <<u, k>> \in dropped
        BY <1>1, <2>4
      <3>. QED
        BY <1>1, <1>2, <2>3, <2>4, <3>1, <3>2 DEF Unmade
    <2>8. OwnTime'
      <3>1. j \in OneShot => New(j).next \in {0, At[j]}
        BY <1>2, Times DEF New
      <3>2. \A u \in Svc : tool'[u] = tool[u]
                          \/ /\ tool'[u].id = j /\ tool'[u].job = New(j)
                             /\ New(j).next = 0 => j \in ended'
        BY <1>1, <2>4
      <3>3. \A k \in OneShot : file'[k].next \in {-1, 0, At[k]} /\ \A u \in Svc : mem'[u][k].next \in {-1, 0, At[k]}
        BY <1>2, <2>2, <2>3 DEF OwnTime
      <3>4. \A u \in Svc : tool'[u] # NoCopy =>
              /\ tool'[u].job.next = 0 => tool'[u].id \in ended'
              /\ \A k \in OneShot : tool'[u].id = k => tool'[u].job.next \in {0, At[k]}
        BY <1>2, <2>4, <3>1, <3>2 DEF OwnTime
      <3>. QED
        BY <3>3, <3>4 DEF OwnTime
    <2>. QED
      BY <1>2, <2>4, <2>6, <2>7, <2>8 DEF Shape, DueDistinct
  <1>12. ASSUME NEW s \in Svc, UpdateJob(s) PROVE Shape'
    <2>. DEFINE j == tool[s].id
                t == [mem[s] EXCEPT ![j] = tool[s].job]
    <2>1. tool[s] \in [id : Id, job : Job] /\ j \in Id
      BY <1>1, <1>12 DEF UpdateJob
    <2>2. t \in Table
      BY <1>1, <1>2, <2>1, Tables
    <2>3. \A k \in OneShot : t[k].next \in {-1, 0, At[k]}
      BY <1>1, <1>2, <1>12, <2>1 DEF OwnTime, UpdateJob, Table
    <2>4. UNCHANGED <<clock, svc, state, loop, runs, dropped, ended>> /\ tool' = [tool EXCEPT ![s] = NoCopy]
      BY <1>12 DEF UpdateJob, ghosts
    <2>. HIDE DEF t
    <2>5. /\ mem' \in [Svc -> Table] /\ file' \in Table /\ foreign' \in BOOLEAN /\ faults' \in 0 .. MaxFaults
          /\ \A u \in Svc \ {s} : mem'[u] = mem[u]
          /\ mem'[s] \in {mem[s], t} /\ file' \in {t, file}
      <3>1. CASE mem[s][j] = NoJob
        BY <3>1, <1>1, <1>12 DEF UpdateJob
      <3>2. CASE mem[s][j] # NoJob
        BY <3>2, <1>2, <1>12, <2>2, Committed DEF UpdateJob, t
      <3>. QED
        BY <3>1, <3>2
    <2>6. s <= svc
      BY <1>1, <1>2, <1>12 DEF Unmade, UpdateJob
    <2>7. TypeOK'
      BY <1>1, <2>4, <2>5 DEF TypeOK, Table, Entry, RunLoop
    <2>8. Unmade'
      BY <1>1, <1>2, <2>4, <2>5, <2>6 DEF Unmade
    <2>9. OwnTime'
      <3>1. \A k \in OneShot : file'[k].next \in {-1, 0, At[k]} /\ \A u \in Svc : mem'[u][k].next \in {-1, 0, At[k]}
        BY <1>2, <2>3, <2>5 DEF OwnTime
      <3>2. \A u \in Svc : tool'[u] # NoCopy => tool'[u] = tool[u]
        BY <1>1, <2>4
      <3>. QED
        BY <1>2, <2>4, <3>1, <3>2 DEF OwnTime
    <2>. QED
      BY <1>2, <2>4, <2>7, <2>8, <2>9 DEF Shape, DueDistinct
  <1>14. CASE UNCHANGED vars
    <2>1. UNCHANGED <<clock, file, mem, svc, state, loop, tool, runs, dropped, ended, foreign, faults>>
      BY <1>14 DEF vars
    <2>2. TypeOK'
      BY <1>2, <2>1 DEF TypeOK
    <2>3. DueDistinct'
      BY <1>2, <2>1 DEF DueDistinct
    <2>. QED
      BY <1>2, <2>1, <2>2, <2>3 DEF Shape, Unmade, OwnTime
  <1>. QED
    BY <1>3, <1>4, <1>5, <1>6, <1>7, <1>8, <1>9, <1>10, <1>11, <1>12, <1>14 DEF CNext, Loop

\* What the shape says of each variable.
LEMMA ShapeFacts ==
  ASSUME Shape
  PROVE  /\ TypeOK /\ clock \in Nat \ {0} /\ svc \in Svc /\ Svc = 1 .. MaxSvc /\ MaxSvc \in Nat
         /\ file \in Table /\ mem \in [Svc -> Table] /\ loop \in [Svc -> RunLoop]
         /\ state \in [Svc -> {"none", "idle", "running", "stopped"}]
         /\ tool \in [Svc -> [id : Id, job : Job] \cup {NoCopy}]
         /\ runs \in [OneShot -> Nat] /\ dropped \subseteq Svc \X Id
         /\ OneShot \subseteq Id /\ Id = OneShot \cup Periodic /\ OneShot \cap Periodic = {}
         /\ At \in [OneShot -> Nat \ {0}]
         /\ NoJob \notin Job /\ NoJob.on = FALSE
         /\ \A s \in Svc : state[s] = "running" => s = svc
         /\ taken \in [Svc -> SUBSET Id] /\ pending \in [Svc -> SUBSET Id]
         /\ \A s \in Svc : pending[s] \subseteq taken[s]
  <1>1. /\ TypeOK /\ file \in Table /\ mem \in [Svc -> Table] /\ loop \in [Svc -> RunLoop]
        /\ state \in [Svc -> {"none", "idle", "running", "stopped"}] /\ svc \in Svc
        /\ tool \in [Svc -> [id : Id, job : Job] \cup {NoCopy}]
        /\ runs \in [OneShot -> Nat] /\ dropped \subseteq Svc \X Id
    BY DEF Shape, TypeOK, Table, Entry, RunLoop
  <1>2. /\ clock \in Nat \ {0} /\ Svc = 1 .. MaxSvc /\ MaxSvc \in Nat
        /\ OneShot \subseteq Id /\ Id = OneShot \cup Periodic /\ OneShot \cap Periodic = {}
        /\ At \in [OneShot -> Nat \ {0}]
    BY CronAssumption DEF Shape, TypeOK, Svc, Id
  <1>3. NoJob \notin Job /\ NoJob.on = FALSE
    BY DEF Job, NoJob
  <1>4. \A s \in Svc : state[s] = "running" => s = svc
    BY DEF Shape, Unmade
  <1>5. /\ taken \in [Svc -> SUBSET Id] /\ pending \in [Svc -> SUBSET Id]
        /\ \A s \in Svc : pending[s] \subseteq taken[s]
    BY DEF taken, pending, Taken
  <1>. QED
    BY <1>1, <1>2, <1>3, <1>4, <1>5

\* A job that is not in a table is not in the one computed from it, and a
\* job the operation is not about is as it was.
LEMMA SameJobs ==
  ASSUME NEW t \in Table, NEW now \in Nat, NEW j \in Id
  PROVE  /\ \A k \in Id : recomputeNextRuns(t, now)[k] = NoJob <=> t[k] = NoJob
         /\ \A k \in Id \ {j} : Finished(t, j, now)[k] = t[k]
         /\ \A on \in BOOLEAN : /\ \A k \in Id \ {j} : Toggled(t, j, on, now)[k] = t[k]
                                /\ Toggled(t, j, on, now)[j] = [on |-> on, next |-> IF on THEN computeNextRun(j, now) ELSE 0]
                                /\ Toggled(t, j, on, now)[j] \in Job
         /\ j \in OneShot => Finished(t, j, now)[j] = NoJob
         /\ t[j] = NoJob => Finished(t, j, now)[j] = NoJob
         /\ t[j] # NoJob /\ j \notin OneShot => Finished(t, j, now)[j] \in Job
                                                /\ Finished(t, j, now)[j].next = computeNextRun(j, now)
  <1>1. \A k \in Id : t[k] \in Entry /\ (t[k] # NoJob => t[k] \in Job) /\ computeNextRun(k, now) \in Nat
    BY Times DEF Table, Entry
  <1>2. /\ NoJob \notin Job
        /\ \A e \in Job, n \in Nat : [e EXCEPT !.next = n] \in Job /\ [e EXCEPT !.next = n].next = n
    BY DEF Job, NoJob
  <1>3. \A k \in Id : recomputeNextRuns(t, now)[k] = NoJob <=> t[k] = NoJob
    BY <1>1, <1>2 DEF recomputeNextRuns
  <1>4. ASSUME NEW on \in BOOLEAN
        PROVE  /\ \A k \in Id \ {j} : Toggled(t, j, on, now)[k] = t[k]
               /\ Toggled(t, j, on, now)[j] = [on |-> on, next |-> IF on THEN computeNextRun(j, now) ELSE 0]
               /\ Toggled(t, j, on, now)[j] \in Job
    BY <1>1 DEF Toggled, Job, Table
  <1>5. \A k \in Id \ {j} : Finished(t, j, now)[k] = t[k]
    BY DEF Finished, Table
  <1>6. /\ j \in OneShot => Finished(t, j, now)[j] = NoJob
        /\ t[j] = NoJob => Finished(t, j, now)[j] = NoJob
    BY DEF Finished, Table
  <1>7. t[j] # NoJob /\ j \notin OneShot =>
          Finished(t, j, now)[j] \in Job /\ Finished(t, j, now)[j].next = computeNextRun(j, now)
    <2>1. t[j] # NoJob /\ j \notin OneShot =>
            Finished(t, j, now)[j] = [t[j] EXCEPT !.next = computeNextRun(j, now)]
      BY DEF Finished, Table
    <2>2. ASSUME t[j] # NoJob
          PROVE  LET e == [t[j] EXCEPT !.next = computeNextRun(j, now)] IN
                 e \in Job /\ e.next = computeNextRun(j, now)
      BY <2>2, <1>1, <1>2
    <2>. QED
      BY <2>1, <2>2
  <1>. QED
    BY <1>3, <1>4, <1>5, <1>6, <1>7

\* checkJobs disarms what it takes and leaves the rest.
LEMMA CheckMem ==
  ASSUME Shape, NEW s \in Svc, checkJobs(s)
  PROVE  LET D == IF state[s] = "running" THEN Due(mem[s], clock) ELSE {} IN
         /\ UNCHANGED <<clock, svc, state, tool, runs, dropped, ended>>
         /\ mem' \in [Svc -> Table]
         /\ \A u \in Svc \ {s} : mem'[u] = mem[u]
         /\ \A j \in Id : IF j \in D THEN /\ mem[s][j] \in Job /\ mem'[s][j] \in Job
                                          /\ mem'[s][j].next = 0
                          ELSE mem'[s][j] = mem[s][j]
         /\ ~foreign' => (~foreign /\ UNCHANGED <<mem, file>>) \/ (s = svc /\ file' = mem'[s])
  <1>. DEFINE D == Due(mem[s], clock)
              t == [j \in Id |-> IF j \in D THEN [mem[s][j] EXCEPT !.next = 0] ELSE mem[s][j]]
  <1>1. UNCHANGED <<clock, svc, state, tool, runs, dropped, ended>>
    BY DEF checkJobs, ghosts
  <1>2. CASE state[s] # "running"
    <2>1. UNCHANGED <<mem, file, foreign>>
      BY <1>2 DEF checkJobs
    <2>. QED
      BY <1>1, <1>2, <2>1, ShapeFacts
  <1>3. CASE state[s] = "running"
    <2>1. D \subseteq Id /\ D \in SUBSET Listed(mem[s]) /\ mem[s] \in Table
      BY ShapeFacts DEF Due, Listed
    <2>2. t \in Table
      <3>. HIDE DEF D
      <3>. QED
        BY <2>1, Tables, ShapeFacts
    <2>3. /\ mem' \in [Svc -> Table] /\ mem'[s] = t /\ \A u \in Svc \ {s} : mem'[u] = mem[u]
          /\ ~foreign' => s = svc /\ file' = t
      BY <1>3, <2>2, Committed, ShapeFacts DEF checkJobs
    <2>4. \A j \in Id : IF j \in D THEN mem[s][j] \in Job /\ t[j] \in Job /\ t[j].next = 0
                        ELSE t[j] = mem[s][j]
      <3>1. \A j \in D : mem[s][j] \in Job
        BY <2>1 DEF Listed, Table, Entry
      <3>2. \A e \in Job : [e EXCEPT !.next = 0] \in Job /\ [e EXCEPT !.next = 0].next = 0
        BY DEF Job
      <3>. HIDE DEF D
      <3>. QED
        BY <3>1, <3>2
    <2>. HIDE DEF D, t
    <2>. QED
      BY <1>1, <1>3, <2>3, <2>4 DEF D
  <1>. QED
    BY <1>2, <1>3

\* What a step does to one job of one service's table.
OneJob(s, j) ==
  /\ UNCHANGED <<clock, svc, state>>
  /\ mem' \in [Svc -> Table]
  /\ \A u \in Svc \ {s} : mem'[u] = mem[u]
  /\ \A k \in Id \ {j} : mem'[s][k] = mem[s][k]
  /\ ~foreign' => (~foreign /\ UNCHANGED <<mem, file>>) \/ (s = svc /\ file' = mem'[s])

\* The end of a job: its entry alone changes, a one-shot job goes.
LEMMA EndMem ==
  ASSUME Shape, NEW s \in Svc, End(s)
  PROVE  LET j == Head(loop[s].due) IN
         /\ OneJob(s, j) /\ UNCHANGED <<tool, runs>> /\ ended \subseteq ended'
         /\ \A k \in ended' \ ended : NothingLeft(k, clock)
         /\ j \in OneShot => mem'[s][j] = NoJob /\ dropped' = dropped \cup {<<s, j>>}
         /\ j \notin OneShot => dropped' = dropped
         /\ mem[s][j] = NoJob => mem'[s][j] = NoJob
         /\ mem[s][j] # NoJob /\ j \notin OneShot =>
              /\ mem'[s][j] \in Job /\ mem'[s][j].next = computeNextRun(j, clock)
              /\ mem'[s][j].on /\ mem'[s][j].next = 0 => j \in ended'
  <1>. DEFINE j == Head(loop[s].due)
              t == Finished(mem[s], j, clock)
  <1>1. j \in Id /\ mem[s] \in Table /\ clock \in Nat /\ mem \in [Svc -> Table] /\ TypeOK
    BY EndTakes, ShapeFacts
  <1>2. /\ UNCHANGED <<clock, svc, state, tool, runs>>
        /\ dropped' = IF j \in OneShot THEN dropped \cup {<<s, j>>} ELSE dropped
        /\ NoteEnded({j}, t)
    BY DEF End
  <1>3. /\ t \in Table /\ \A k \in Id \ {j} : t[k] = mem[s][k]
        /\ j \in OneShot => t[j] = NoJob
        /\ mem[s][j] # NoJob /\ j \notin OneShot => t[j] \in Job /\ t[j].next = computeNextRun(j, clock)
    <2>1. t \in Table
      BY <1>1, Tables
    <2>2. /\ \A k \in Id \ {j} : t[k] = mem[s][k]
          /\ j \in OneShot => t[j] = NoJob
          /\ mem[s][j] # NoJob /\ j \notin OneShot => t[j] \in Job /\ t[j].next = computeNextRun(j, clock)
      BY <1>1, SameJobs
    <2>. QED
      BY <2>1, <2>2
  <1>6. ended \subseteq ended' /\ \A k \in ended' \ ended : NothingLeft(k, clock)
    <2>1. t[j] # NoJob => t[j].next = computeNextRun(j, clock)
      <3>1. mem[s][j] = NoJob => t[j] = NoJob
        BY <1>1, SameJobs
      <3>. QED
        BY <1>3, <3>1
    <2>. HIDE DEF j, t
    <2>. QED
      BY <1>1, <1>2, <2>1, Times DEF NoteEnded
  <1>4. CASE mem[s][j] = NoJob
    <2>1. UNCHANGED <<mem, file, foreign>>
      BY <1>4 DEF End
    <2>. HIDE DEF t
    <2>. QED
      BY <1>1, <1>2, <1>4, <1>6, <2>1 DEF OneJob
  <1>5. CASE mem[s][j] # NoJob
    <2>1. Commit(s, t)
      BY <1>5 DEF End
    <2>. HIDE DEF j, t
    <2>2. /\ mem' \in [Svc -> Table] /\ mem'[s] = t /\ \A u \in Svc \ {s} : mem'[u] = mem[u]
          /\ ~foreign' => s = svc /\ file' = t
      BY <1>1, <1>3, <2>1, Committed
    <2>3. t[j] # NoJob /\ t[j].on /\ t[j].next = 0 => j \in ended'
      BY <1>2 DEF NoteEnded
    <2>4. NoJob \notin Job
      BY DEF NoJob, Job
    <2>. QED
      BY <1>2, <1>3, <1>5, <1>6, <2>2, <2>3, <2>4 DEF OneJob, j
  <1>. QED
    BY <1>4, <1>5

\* An update from a copy puts the copy in the table, or changes nothing.
LEMMA UpdateMem ==
  ASSUME Shape, NEW s \in Svc, UpdateJob(s)
  PROVE  LET j == tool[s].id IN
         /\ tool[s] \in [id : Id, job : Job] /\ tool[s] # NoCopy
         /\ OneJob(s, j) /\ UNCHANGED <<loop, runs, ended, dropped>>
         /\ tool' = [tool EXCEPT ![s] = NoCopy]
         /\ mem[s][j] = NoJob => mem'[s][j] = NoJob
         /\ mem[s][j] # NoJob => mem'[s][j] = tool[s].job
  <1>. DEFINE j == tool[s].id
              t == [mem[s] EXCEPT ![j] = tool[s].job]
  <1>1. /\ mem[s] \in Table /\ clock \in Nat /\ mem \in [Svc -> Table] /\ TypeOK
        /\ tool[s] \in [id : Id, job : Job] /\ j \in Id /\ tool[s] # NoCopy /\ tool[s].job \in Job
    BY ShapeFacts DEF UpdateJob
  <1>2. UNCHANGED <<clock, svc, state, loop, runs, dropped, ended>> /\ tool' = [tool EXCEPT ![s] = NoCopy]
    BY DEF UpdateJob, ghosts
  <1>3. t \in Table /\ t[j] = tool[s].job /\ \A k \in Id \ {j} : t[k] = mem[s][k]
    BY <1>1, Tables DEF Table
  <1>4. CASE mem[s][j] = NoJob
    <2>1. UNCHANGED <<mem, file, foreign>>
      BY <1>4 DEF UpdateJob
    <2>. QED
      BY <1>1, <1>2, <1>4, <2>1 DEF OneJob
  <1>5. CASE mem[s][j] # NoJob
    <2>1. Commit(s, t)
      BY <1>5 DEF UpdateJob
    <2>. HIDE DEF j, t
    <2>2. /\ mem' \in [Svc -> Table] /\ mem'[s] = t /\ \A u \in Svc \ {s} : mem'[u] = mem[u]
          /\ ~foreign' => s = svc /\ file' = t
      BY <1>1, <1>3, <2>1, Committed
    <2>. QED
      BY <1>1, <1>2, <1>3, <1>5, <2>2 DEF OneJob, j
  <1>. QED
    BY <1>4, <1>5

\* An added job is new and has a next time, or its schedule has ended.
LEMMA AddMem ==
  ASSUME Shape, NEW s \in Svc, NEW j \in Id, AddJob(s, j)
  PROVE  /\ OneJob(s, j) /\ UNCHANGED <<loop, runs, dropped>>
         /\ Fresh(j) /\ mem'[s][j] = New(j) /\ New(j) \in Job
         /\ ended \subseteq ended' /\ (New(j).next = 0 => j \in ended')
         /\ \A k \in ended' \ ended : NothingLeft(k, clock)
         /\ tool' \in {tool, [tool EXCEPT ![s] = [id |-> j, job |-> New(j)]]}
  <1>. DEFINE t == [mem[s] EXCEPT ![j] = New(j)]
  <1>1. mem[s] \in Table /\ clock \in Nat /\ mem \in [Svc -> Table] /\ TypeOK
    BY ShapeFacts
  <1>2. /\ UNCHANGED <<clock, svc, state, loop, runs, dropped>> /\ Fresh(j) /\ Commit(s, t)
        /\ NoteEnded({j}, t)
        /\ tool' \in {tool, [tool EXCEPT ![s] = [id |-> j, job |-> New(j)]]}
    BY DEF AddJob
  <1>3. New(j) \in Job /\ New(j).on /\ New(j).next = computeNextRun(j, clock)
    BY <1>1, Times DEF New, Job
  <1>4. t \in Table /\ t[j] = New(j) /\ \A k \in Id \ {j} : t[k] = mem[s][k]
    BY <1>1, <1>3, Tables DEF Table
  <1>. HIDE DEF t
  <1>5. /\ mem' \in [Svc -> Table] /\ mem'[s] = t /\ \A u \in Svc \ {s} : mem'[u] = mem[u]
        /\ ~foreign' => s = svc /\ file' = t
    BY <1>1, <1>2, <1>4, Committed
  <1>6. /\ ended \subseteq ended' /\ (New(j).next = 0 => j \in ended')
        /\ \A k \in ended' \ ended : NothingLeft(k, clock)
    <2>1. New(j) # NoJob /\ (New(j).next = 0 => NothingLeft(j, clock))
      BY <1>1, <1>3, Times, ShapeFacts
    <2>. QED
      BY <1>2, <1>3, <1>4, <2>1 DEF NoteEnded
  <1>. QED
    BY <1>2, <1>3, <1>4, <1>5, <1>6 DEF OneJob

\* A removed job is in no entry of the table and is noted as dropped.
LEMMA RemoveMem ==
  ASSUME Shape, NEW s \in Svc, NEW j \in Id, RemoveJob(s, j)
  PROVE  /\ OneJob(s, j) /\ UNCHANGED <<loop, runs, ended, tool>>
         /\ mem'[s][j] = NoJob /\ dropped' = dropped \cup {<<s, j>>}
  <1>. DEFINE t == [mem[s] EXCEPT ![j] = NoJob]
  <1>1. mem[s] \in Table /\ clock \in Nat /\ mem \in [Svc -> Table] /\ TypeOK
    BY ShapeFacts
  <1>2. /\ UNCHANGED <<clock, svc, state, loop, runs, tool, ended>> /\ Commit(s, t)
        /\ dropped' = dropped \cup {<<s, j>>}
    BY DEF RemoveJob
  <1>3. t \in Table /\ t[j] = NoJob /\ \A k \in Id \ {j} : t[k] = mem[s][k]
    BY <1>1, Tables DEF Table
  <1>. HIDE DEF t
  <1>4. /\ mem' \in [Svc -> Table] /\ mem'[s] = t /\ \A u \in Svc \ {s} : mem'[u] = mem[u]
        /\ ~foreign' => s = svc /\ file' = t
    BY <1>1, <1>2, <1>3, Committed
  <1>. QED
    BY <1>2, <1>3, <1>4 DEF OneJob

\* A job enabled or disabled has a next time or none.
LEMMA EnableMem ==
  ASSUME Shape, NEW s \in Svc, NEW j \in Id, NEW on \in BOOLEAN, EnableJob(s, j, on)
  PROVE  /\ OneJob(s, j) /\ UNCHANGED <<loop, runs, dropped, tool>>
         /\ mem[s][j] # NoJob /\ mem'[s][j] \in Job
         /\ mem'[s][j] = [on |-> on, next |-> IF on THEN computeNextRun(j, clock) ELSE 0]
         /\ ended \subseteq ended'
         /\ on /\ mem'[s][j].next = 0 => j \in ended'
         /\ \A k \in ended' \ ended : NothingLeft(k, clock)
  <1>. DEFINE t == Toggled(mem[s], j, on, clock)
  <1>1. mem[s] \in Table /\ clock \in Nat /\ mem \in [Svc -> Table] /\ TypeOK
    BY ShapeFacts
  <1>2. UNCHANGED <<clock, svc, state, loop, runs, tool, dropped>> /\ Commit(s, t) /\ NoteEnded({j}, t)
        /\ mem[s][j] # NoJob
    BY DEF EnableJob
  <1>3. /\ t \in Table /\ \A k \in Id \ {j} : t[k] = mem[s][k]
        /\ t[j] = [on |-> on, next |-> IF on THEN computeNextRun(j, clock) ELSE 0] /\ t[j] \in Job
    <2>1. t \in Table
      BY <1>1, Tables
    <2>2. /\ \A k \in Id \ {j} : t[k] = mem[s][k]
          /\ t[j] = [on |-> on, next |-> IF on THEN computeNextRun(j, clock) ELSE 0] /\ t[j] \in Job
      BY <1>1, SameJobs
    <2>. QED
      BY <2>1, <2>2
  <1>. HIDE DEF t
  <1>4. /\ mem' \in [Svc -> Table] /\ mem'[s] = t /\ \A u \in Svc \ {s} : mem'[u] = mem[u]
        /\ ~foreign' => s = svc /\ file' = t
    BY <1>1, <1>2, <1>3, Committed
  <1>5. /\ ended \subseteq ended'
        /\ on /\ t[j].next = 0 => j \in ended'
        /\ \A k \in ended' \ ended : NothingLeft(k, clock)
    <2>1. t[j] # NoJob /\ t[j].on = on /\ (on /\ t[j].next = 0 => NothingLeft(j, clock))
      <3>1. t[j].on = on /\ (on => t[j].next = computeNextRun(j, clock))
        BY <1>3
      <3>. QED
        BY <1>1, <1>3, <3>1, Times, ShapeFacts
    <2>. QED
      BY <1>2, <2>1 DEF NoteEnded
  <1>. QED
    BY <1>2, <1>3, <1>4, <1>5 DEF OneJob

\* A new service reads the file into a table of its own.
LEMMA StartMem ==
  ASSUME Shape, Start
  PROVE  LET n == svc + 1 IN
         /\ n \in Svc /\ svc' = n /\ n # svc /\ state[svc] # "running"
         /\ UNCHANGED <<clock, tool, runs, dropped>>
         /\ mem' \in [Svc -> Table] /\ \A u \in Svc \ {n} : mem'[u] = mem[u]
         /\ \A j \in Id : mem'[n][j] # NoJob /\ mem'[n][j].on => mem'[n][j].next = computeNextRun(j, clock)
         /\ \A j \in Id : mem'[n][j] # NoJob /\ mem'[n][j].on /\ mem'[n][j].next = 0 => j \in ended'
         /\ ended \subseteq ended' /\ \A k \in ended' \ ended : NothingLeft(k, clock)
         /\ tool[n] = NoCopy /\ \A j \in Id : <<n, j>> \notin dropped
         /\ loop[n] = Exited /\ \A u \in Svc \ {n} : loop'[u] = loop[u] /\ state'[u] = state[u]
         /\ loop' \in [Svc -> RunLoop] /\ loop'[n] \in {Waiting, Exited}
         /\ state'[n] \in {"running", "idle"}
         /\ ~foreign' => file' = mem'[n]
         /\ taken' = taken /\ pending' = pending
         /\ taken[n] = {} /\ pending[n] = {}
  <1>. DEFINE n == svc + 1
              t == recomputeNextRuns(file, clock)
  <1>1. /\ svc < MaxSvc /\ state[svc] # "running" /\ svc' = n
        /\ UNCHANGED <<clock, tool, runs, dropped>> /\ mem' = [mem EXCEPT ![n] = t] /\ NoteEnded(Id, t)
        /\ ~foreign' => file' = t
        /\ loop' \in {[loop EXCEPT ![n] = Waiting], loop}
        /\ state' \in {[state EXCEPT ![n] = "running"], [state EXCEPT ![n] = "idle"]}
    BY DEF Start
  <1>2. n \in Svc /\ n # svc /\ n > svc
    BY <1>1, ShapeFacts
  <1>3. t \in Table /\ file \in Table
    BY Tables, ShapeFacts
  <1>4. loop[n] = Exited /\ tool[n] = NoCopy /\ \A j \in Id : <<n, j>> \notin dropped
    BY <1>2 DEF Shape, Unmade
  <1>5. \A j \in Id : t[j] # NoJob /\ t[j].on => t[j].next = computeNextRun(j, clock)
    BY <1>3, ShapeFacts DEF recomputeNextRuns, Table, Entry, Job
  <1>6. /\ ended \subseteq ended'
        /\ \A j \in Id : t[j] # NoJob /\ t[j].on /\ t[j].next = 0 => j \in ended'
        /\ \A k \in ended' \ ended : NothingLeft(k, clock)
    BY <1>1, <1>5, Times, ShapeFacts DEF NoteEnded
  <1>. HIDE DEF t, n
  <1>7. mem' \in [Svc -> Table] /\ mem'[n] = t /\ \A u \in Svc \ {n} : mem'[u] = mem[u]
    BY <1>1, <1>2, <1>3, ShapeFacts
  <1>8. Exited \in RunLoop /\ Waiting \in RunLoop /\ Exited.due = <<>> /\ Len(<<>>) = 0
    BY EmptySeq DEF Exited, Waiting, RunLoop
  <1>9. /\ loop' \in [Svc -> RunLoop] /\ loop'[n] \in {Waiting, Exited}
        /\ \A u \in Svc \ {n} : loop'[u] = loop[u]
    <2>1. loop \in [Svc -> RunLoop]
      BY ShapeFacts
    <2>2. CASE loop' = loop
      BY <2>1, <2>2, <1>4
    <2>3. CASE loop' = [loop EXCEPT ![n] = Waiting]
      BY <2>1, <2>3, <1>2, <1>8
    <2>. QED
      BY <1>1, <2>2, <2>3
  <1>10. state'[n] \in {"running", "idle"} /\ \A u \in Svc \ {n} : state'[u] = state[u]
    BY <1>1, <1>2, ShapeFacts
  <1>11. taken' = taken /\ pending' = pending
    <2>1. \A u \in Svc : loop'[u] = loop[u] \/ {loop[u], loop'[u]} \subseteq {Exited, Waiting}
      BY <1>4, <1>9
    <2>. QED
      BY <1>9, <2>1, LoopsAlone, ShapeFacts
  <1>12. taken[n] = {} /\ pending[n] = {}
    BY <1>2, <1>4, <1>8 DEF taken, Taken, pending
  <1>. QED
    BY <1>1, <1>2, <1>4, <1>5, <1>6, <1>7, <1>9, <1>10, <1>11, <1>12 DEF n

----------------------------------------------------------------------------
(* What was removed stays away                                             *)

\* No step brings a removed job back into a table.
LEMMA RemovedStep == Shape /\ StaysRemoved /\ [CNext]_vars => StaysRemoved'
  <1>. SUFFICES ASSUME Shape, StaysRemoved, [CNext]_vars PROVE StaysRemoved'
    OBVIOUS
  <1>1. CASE Tick \/ Stop \/ CliCommand \/ UNCHANGED vars \/ \E s \in Svc : Begin(s)
    BY <1>1 DEF Tick, Stop, CliCommand, Cli, Begin, vars, ghosts, StaysRemoved
  <1>2. CASE Crash
    BY <1>2 DEF Crash, ghosts, StaysRemoved
  <1>3. CASE Start
    BY <1>3, StartMem DEF StaysRemoved
  <1>4. ASSUME NEW s \in Svc, checkJobs(s) PROVE StaysRemoved'
    <2>1. \A j \in Id : mem[s][j] = NoJob => mem'[s][j] = NoJob
      BY <1>4, CheckMem, ShapeFacts
    <2>. QED
      BY <1>4, <2>1, CheckMem DEF StaysRemoved
  <1>5. ASSUME NEW s \in Svc, End(s) PROVE StaysRemoved'
    BY <1>5, EndMem, EndTakes DEF StaysRemoved, OneJob
  <1>6. ASSUME NEW s \in Svc, UpdateJob(s) PROVE StaysRemoved'
    BY <1>6, UpdateMem DEF StaysRemoved, OneJob
  <1>7. ASSUME NEW s \in Svc, NEW j \in Id, AddJob(s, j) PROVE StaysRemoved'
    BY <1>7, AddMem DEF StaysRemoved, OneJob, Fresh
  <1>8. ASSUME NEW s \in Svc, NEW j \in Id, RemoveJob(s, j) PROVE StaysRemoved'
    BY <1>8, RemoveMem DEF StaysRemoved, OneJob
  <1>9. ASSUME NEW s \in Svc, NEW j \in Id, NEW on \in BOOLEAN, EnableJob(s, j, on) PROVE StaysRemoved'
    <2>1. OneJob(s, j) /\ dropped' = dropped /\ mem[s][j] # NoJob
      BY <1>9, EnableMem
    <2>. QED
      BY <2>1 DEF StaysRemoved, OneJob
  <1>. QED
    BY <1>1, <1>2, <1>3, <1>4, <1>5, <1>6, <1>7, <1>8, <1>9 DEF CNext, Loop

----------------------------------------------------------------------------
(* The newest table is in the file                                         *)

\* A change of the newest table reaches the file, unless another wrote it.
LEMMA WrittenStep == Shape /\ WrittenThrough /\ [CNext]_vars => WrittenThrough'
  <1>. SUFFICES ASSUME Shape, WrittenThrough, [CNext]_vars PROVE WrittenThrough'
    OBVIOUS
  <1>1. CASE Tick \/ UNCHANGED vars \/ \E s \in Svc : Begin(s)
    BY <1>1 DEF Tick, Begin, vars, WrittenThrough
  <1>2. CASE Stop \/ Crash
    BY <1>2, ShapeFacts DEF Stop, Crash, WrittenThrough
  <1>3. CASE CliCommand
    BY <1>3 DEF CliCommand, Cli, WrittenThrough
  <1>4. CASE Start
    BY <1>4, StartMem DEF WrittenThrough
  <1>5. ASSUME NEW s \in Svc, checkJobs(s) PROVE WrittenThrough'
    BY <1>5, CheckMem DEF WrittenThrough
  <1>6. ASSUME NEW s \in Svc, NEW j \in Id, OneJob(s, j) PROVE WrittenThrough'
    BY <1>6 DEF WrittenThrough, OneJob
  <1>7. ASSUME NEW s \in Svc, End(s) \/ UpdateJob(s) PROVE WrittenThrough'
    BY <1>6, <1>7, EndMem, EndTakes, UpdateMem
  <1>8. ASSUME NEW s \in Svc, NEW j \in Id, AddJob(s, j) \/ RemoveJob(s, j) PROVE WrittenThrough'
    BY <1>6, <1>8, AddMem, RemoveMem
  <1>9. ASSUME NEW s \in Svc, NEW j \in Id, NEW on \in BOOLEAN, EnableJob(s, j, on) PROVE WrittenThrough'
    BY <1>6, <1>9, EnableMem
  <1>. QED
    BY <1>1, <1>2, <1>3, <1>4, <1>5, <1>7, <1>8, <1>9 DEF CNext, Loop

----------------------------------------------------------------------------
(* No job lies dormant                                                     *)

\* What had ended stays so, and a step notes only schedules that have ended.
LEMMA EndedStep == Shape /\ EndedKnown /\ [CNext]_vars => EndedKnown'
  <1>. SUFFICES ASSUME Shape, EndedKnown, [CNext]_vars PROVE EndedKnown'
    OBVIOUS
  <1>1. /\ clock' \in {clock, clock + 1}
        /\ \A k \in ended' \ ended : NothingLeft(k, clock)
    <2>1. CASE Tick \/ Stop \/ Crash \/ CliCommand \/ UNCHANGED vars
      BY <2>1 DEF Tick, Stop, Crash, CliCommand, Cli, vars, ghosts
    <2>2. CASE Start
      BY <2>2, StartMem
    <2>3. ASSUME NEW s \in Svc, checkJobs(s) \/ Begin(s) \/ UpdateJob(s)
          PROVE  UNCHANGED <<clock, ended>>
      BY <2>3 DEF checkJobs, Begin, UpdateJob, ghosts
    <2>4. ASSUME NEW s \in Svc, End(s)
          PROVE  clock' = clock /\ \A k \in ended' \ ended : NothingLeft(k, clock)
      BY <2>4, EndMem DEF OneJob
    <2>5. ASSUME NEW s \in Svc, NEW j \in Id, AddJob(s, j) \/ RemoveJob(s, j)
          PROVE  clock' = clock /\ \A k \in ended' \ ended : NothingLeft(k, clock)
      BY <2>5, AddMem, RemoveMem DEF OneJob
    <2>6. ASSUME NEW s \in Svc, NEW j \in Id, NEW on \in BOOLEAN, EnableJob(s, j, on)
          PROVE  clock' = clock /\ \A k \in ended' \ ended : NothingLeft(k, clock)
      BY <2>6, EnableMem DEF OneJob
    <2>. QED
      BY <2>1, <2>2, <2>3, <2>4, <2>5, <2>6 DEF CNext, Loop
  <1>2. \A k \in ended' : k \in Id
    BY ShapeStep DEF Shape, TypeOK
  <1>3. \A k \in Id : NothingLeft(k, clock) => NothingLeft(k, clock')
    BY <1>1, CronAssumption, ShapeFacts DEF NothingLeft
  <1>4. \A k \in ended' : NothingLeft(k, clock')
    BY <1>1, <1>2, <1>3 DEF EndedKnown
  <1>. QED
    BY <1>4 DEF EndedKnown, NothingLeft

\* NeverDormant, by the loops' sets.
LEMMA DormantTaken ==
  ASSUME EndedKnown
  PROVE
  NeverDormant <=>
    \A s \in Svc, j \in Id :
      state[s] = "running" /\ mem[s][j] # NoJob /\ mem[s][j].on =>
        mem[s][j].next # 0 \/ j \in taken[s] \/ j \in ended
  BY DEF NeverDormant, taken, EndedKnown

\* What a step that changes one job of one table must see to.
LEMMA OneAwake ==
  ASSUME Shape, NeverDormant, EndedKnown, EndedKnown', NEW s \in Svc, NEW j \in Id, OneJob(s, j),
         ended \subseteq ended', taken' \in [Svc -> SUBSET Id],
         \A u \in Svc \ {s} : taken'[u] = taken[u],
         \A k \in Id \ {j} : k \in taken[s] => k \in taken'[s],
         mem'[s][j] # NoJob /\ mem'[s][j].on => mem'[s][j].next # 0 \/ j \in taken'[s] \/ j \in ended'
  PROVE  NeverDormant'
  <1>. DEFINE Awake(u, k) == state[u] = "running" /\ mem[u][k] # NoJob /\ mem[u][k].on =>
                               mem[u][k].next # 0 \/ k \in taken[u] \/ k \in ended
  <1>1. \A u \in Svc, k \in Id : Awake(u, k)
    BY DormantTaken
  <1>2. \A u \in Svc, k \in Id :
          state'[u] = "running" /\ mem'[u][k] # NoJob /\ mem'[u][k].on =>
            mem'[u][k].next # 0 \/ k \in taken'[u] \/ k \in ended'
    BY <1>1 DEF OneJob
  <1>. QED
    BY <1>2 DEF NeverDormant, taken, EndedKnown

\* No step leaves an enabled job unarmed unless its schedule has ended.
LEMMA DormantStep == Shape /\ EndedKnown /\ NeverDormant /\ [CNext]_vars => NeverDormant'
  <1>. SUFFICES ASSUME Shape, EndedKnown, EndedKnown', NeverDormant, [CNext]_vars PROVE NeverDormant'
    BY EndedStep
  <1>. DEFINE Awoken ==
         \A s \in Svc, j \in Id :
           state'[s] = "running" /\ mem'[s][j] # NoJob /\ mem'[s][j].on =>
             mem'[s][j].next # 0 \/ j \in taken'[s] \/ j \in ended'
  <1>0. /\ \A s \in Svc, j \in Id :
             state[s] = "running" /\ mem[s][j] # NoJob /\ mem[s][j].on =>
               mem[s][j].next # 0 \/ j \in taken[s] \/ j \in ended
        /\ Awoken => NeverDormant'
    BY DormantTaken DEF NeverDormant, taken, EndedKnown
  <1>. HIDE DEF Awoken
  <1>1. CASE Tick \/ CliCommand \/ UNCHANGED vars
    <2>1. UNCHANGED <<mem, state, ended, loop>>
      BY <1>1 DEF Tick, CliCommand, Cli, vars, ghosts
    <2>2. taken' = taken
      BY <2>1 DEF taken, Taken
    <2>. QED
      BY <1>0, <2>1, <2>2 DEF Awoken
  <1>2. CASE Stop
    <2>1. UNCHANGED <<mem, ended, loop>> /\ state' = [state EXCEPT ![svc] = "stopped"]
      BY <1>2 DEF Stop, ghosts
    <2>2. taken' = taken
      BY <2>1 DEF taken, Taken
    <2>. QED
      BY <1>0, <2>1, <2>2, ShapeFacts DEF Awoken
  <1>3. CASE Crash
    BY <1>3 DEF Crash, NeverDormant
  <1>4. CASE Start
    <2>1. \A j \in Id : mem'[svc + 1][j] # NoJob /\ mem'[svc + 1][j].on =>
            mem'[svc + 1][j].next # 0 \/ j \in ended'
      BY <1>4, StartMem
    <2>. QED
      BY <1>0, <1>4, <2>1, StartMem DEF Awoken
  <1>5. ASSUME NEW s \in Svc, checkJobs(s) PROVE NeverDormant'
    <2>. DEFINE D == IF state[s] = "running" THEN Due(mem[s], clock) ELSE {}
    <2>1. /\ UNCHANGED <<state, ended>> /\ \A u \in Svc \ {s} : mem'[u] = mem[u]
          /\ \A j \in Id \ D : mem'[s][j] = mem[s][j]
      BY <1>5, CheckMem
    <2>2. taken' = [taken EXCEPT ![s] = D] /\ taken[s] = {}
      BY <1>5, CheckTakes
    <2>. HIDE DEF D
    <2>3. taken'[s] = D /\ \A u \in Svc \ {s} : taken'[u] = taken[u]
      BY <2>2, ShapeFacts
    <2>. QED
      BY <1>0, <2>1, <2>2, <2>3 DEF Awoken
  <1>6. ASSUME NEW s \in Svc, Begin(s) PROVE NeverDormant'
    <2>1. UNCHANGED <<mem, state, ended>>
      BY <1>6 DEF Begin
    <2>. QED
      <3>. DEFINE j == Head(loop[s].due)
      <3>1. taken' = IF mem[s][j] = NoJob THEN [taken EXCEPT ![s] = @ \ {j}] ELSE taken
        BY <1>6, BeginTakes
      <3>. HIDE DEF j
      <3>2. \A u \in Svc, k \in Id : mem[u][k] # NoJob /\ k \in taken[u] => k \in taken'[u]
        BY <3>1, ShapeFacts
      <3>. QED
        BY <1>0, <2>1, <3>2 DEF Awoken
  <1>7. ASSUME NEW s \in Svc, End(s) PROVE NeverDormant'
    <2>. DEFINE j == Head(loop[s].due)
    <2>1. /\ OneJob(s, j) /\ ended \subseteq ended' /\ j \in Id
          /\ taken' = [taken EXCEPT ![s] = @ \ {j}]
          /\ mem'[s][j] # NoJob /\ mem'[s][j].on => mem'[s][j].next # 0 \/ j \in ended'
      BY <1>7, EndMem, EndTakes
    <2>. HIDE DEF j
    <2>. QED
      BY <2>1, OneAwake, ShapeFacts
  <1>8. ASSUME NEW s \in Svc, UpdateJob(s) PROVE NeverDormant'
    <2>. DEFINE j == tool[s].id
    <2>1. /\ OneJob(s, j) /\ ended' = ended /\ j \in Id /\ loop' = loop
          /\ mem'[s][j] # NoJob => mem'[s][j].next # 0 \/ j \in ended'
      BY <1>8, UpdateMem DEF Shape, OwnTime
    <2>2. taken' = taken
      BY <2>1 DEF taken, Taken
    <2>. HIDE DEF j
    <2>. QED
      BY <2>1, <2>2, OneAwake, ShapeFacts
  <1>9. ASSUME NEW s \in Svc, NEW j \in Id, AddJob(s, j) \/ RemoveJob(s, j) PROVE NeverDormant'
    <2>1. /\ OneJob(s, j) /\ ended \subseteq ended' /\ loop' = loop
          /\ mem'[s][j] # NoJob => mem'[s][j].next # 0 \/ j \in ended'
      <3>1. CASE AddJob(s, j)
        BY <3>1, AddMem
      <3>2. CASE RemoveJob(s, j)
        BY <3>2, RemoveMem
      <3>. QED
        BY <1>9, <3>1, <3>2
    <2>2. taken' = taken
      BY <2>1 DEF taken, Taken
    <2>. QED
      BY <2>1, <2>2, OneAwake, ShapeFacts
  <1>10. ASSUME NEW s \in Svc, NEW j \in Id, NEW on \in BOOLEAN, EnableJob(s, j, on) PROVE NeverDormant'
    <2>1. /\ OneJob(s, j) /\ ended \subseteq ended' /\ loop' = loop
          /\ mem'[s][j].on => mem'[s][j].next # 0 \/ j \in ended'
      <3>1. /\ OneJob(s, j) /\ ended \subseteq ended' /\ loop' = loop
            /\ mem'[s][j].on = on /\ (on => mem'[s][j].next = computeNextRun(j, clock))
            /\ on /\ mem'[s][j].next = 0 => j \in ended'
        <4>1. /\ OneJob(s, j) /\ ended \subseteq ended' /\ loop' = loop
              /\ mem'[s][j] = [on |-> on, next |-> IF on THEN computeNextRun(j, clock) ELSE 0]
              /\ on /\ mem'[s][j].next = 0 => j \in ended'
          BY <1>10, EnableMem
        <4>. QED
          BY <4>1
      <3>. QED
        BY <3>1
    <2>2. taken' = taken
      BY <2>1 DEF taken, Taken
    <2>. QED
      BY <2>1, <2>2, OneAwake, ShapeFacts
  <1>. QED
    BY <1>1, <1>2, <1>3, <1>4, <1>5, <1>6, <1>7, <1>8, <1>9, <1>10 DEF CNext, Loop

----------------------------------------------------------------------------
(* A one-shot job runs once                                                *)

\* One job of a table changed, and no loop touched: what the change must see to.
LEMMA OnceKept ==
  ASSUME Shape, Once, NEW s \in Svc, NEW j \in Id, OneJob(s, j), UNCHANGED <<loop, runs>>,
         dropped \subseteq dropped',
         \A u \in Svc : tool'[u] = NoCopy \/ tool'[u] = tool[u] \/ (u = s /\ tool'[u].id = j),
         j \in OneShot /\ mem[s][j] # NoJob /\ mem'[s][j] = NoJob => <<s, j>> \in dropped',
         j \in OneShot /\ mem'[s][j] # NoJob =>
           \/ /\ mem[s][j] # NoJob
              /\ \/ tool[s] # NoCopy /\ tool[s].id = j
                 \/ ~mem'[s][j].on
                 \/ mem'[s][j].next = 0
              /\ tool'[s] = tool[s] \/ tool'[s] = NoCopy
           \/ runs[j] = 0 /\ \A u \in Svc : j \in pending[u] => u # s /\ mem[u][j] = NoJob
  PROVE  Once'
  <1>1. /\ taken' = taken /\ pending' = pending
        /\ UNCHANGED <<clock, svc, state, runs>>
    BY DEF taken, Taken, pending, OneJob
  <1>2. \A u \in Svc, k \in Id : ~(u = s /\ k = j) => mem'[u][k] = mem[u][k]
    BY DEF OneJob
  <1>3. OneShotOnce'
    BY <1>1 DEF Once, OneShotOnce
  <1>4. TakenInTime'
    <2>. SUFFICES ASSUME NEW k \in OneShot, NEW u \in Svc, k \in taken[u]
                  PROVE  mem'[u][k] # NoJob \/ <<u, k>> \in dropped'
      BY <1>1 DEF TakenInTime, Once
    <2>1. mem[u][k] # NoJob \/ <<u, k>> \in dropped
      BY DEF Once, TakenInTime
    <2>. QED
      BY <1>2, <2>1, ShapeFacts
  <1>5. ASSUME NEW k \in OneShot,
               \A u \in Svc : Live(u, k)' => Live(u, k),
               k # j \/ s # svc \/ mem'[s][k] = NoJob \/
                 (/\ mem[s][k] # NoJob
                  /\ \/ tool[s] # NoCopy /\ tool[s].id = k
                     \/ ~mem'[s][k].on
                     \/ mem'[s][k].next = 0
                  /\ tool'[s] = tool[s] \/ tool'[s] = NoCopy)
        PROVE  /\ \A u \in Svc : Live(u, k)' => runs[k] = 0 /\ \A t \in Svc : Live(t, k)' => t = u
               /\ /\ state[svc] = "running" /\ mem'[svc][k] # NoJob
                  /\ \/ mem'[svc][k].on /\ mem'[svc][k].next # 0
                     \/ tool'[svc] # NoCopy /\ tool'[svc].id = k
                  => \/ runs[k] = 0 /\ \A t \in Svc : ~Live(t, k)'
                     \/ k \in taken[svc]
    <2>1. \A u \in Svc : Live(u, k)' => runs[k] = 0 /\ \A t \in Svc : Live(t, k)' => t = u
      BY <1>5 DEF Once, OneLoop
    <2>2. ASSUME state[svc] = "running", mem'[svc][k] # NoJob,
                 \/ mem'[svc][k].on /\ mem'[svc][k].next # 0
                 \/ tool'[svc] # NoCopy /\ tool'[svc].id = k
          PROVE  (runs[k] = 0 /\ \A t \in Svc : ~Live(t, k)') \/ k \in taken[svc]
      <3>1. /\ mem[svc][k] # NoJob
            /\ \/ mem[svc][k].on /\ mem[svc][k].next # 0
               \/ tool[svc] # NoCopy /\ tool[svc].id = k
        BY <1>2, <1>5, <2>2, ShapeFacts
      <3>2. (runs[k] = 0 /\ \A t \in Svc : ~Live(t, k)) \/ k \in taken[svc]
        BY <2>2, <3>1 DEF Once, ArmedOnce
      <3>. QED
        BY <3>2, <1>5
    <2>. QED
      BY <2>1, <2>2
  <1>6. ASSUME NEW k \in OneShot
        PROVE  /\ \A u \in Svc : Live(u, k)' => runs[k] = 0 /\ \A t \in Svc : Live(t, k)' => t = u
               /\ /\ state[svc] = "running" /\ mem'[svc][k] # NoJob
                  /\ \/ mem'[svc][k].on /\ mem'[svc][k].next # 0
                     \/ tool'[svc] # NoCopy /\ tool'[svc].id = k
                  => \/ runs[k] = 0 /\ \A t \in Svc : ~Live(t, k)'
                     \/ k \in taken[svc]
    <2>1. CASE k # j
      <3>1. \A u \in Svc : Live(u, k)' => Live(u, k)
        BY <1>1, <1>2, <2>1, ShapeFacts DEF Live
      <3>. QED
        BY <1>5, <2>1, <3>1
    <2>2. CASE k = j /\ (mem'[s][j] = NoJob \/ mem[s][j] # NoJob)
      <3>1. \A u \in Svc : Live(u, k)' => Live(u, k)
        BY <1>1, <1>2, <2>2, ShapeFacts DEF Live
      <3>2. CASE mem'[s][j] = NoJob
        BY <1>5, <2>2, <3>1, <3>2
      <3>3. CASE mem'[s][j] # NoJob /\ runs[j] = 0
                 /\ \A u \in Svc : j \in pending[u] => u # s /\ mem[u][j] = NoJob
        <4>1. \A u \in Svc : ~Live(u, k)'
          BY <1>1, <1>2, <2>2, <3>3, ShapeFacts DEF Live
        <4>. QED
          BY <2>2, <3>3, <4>1
      <3>4. CASE /\ mem'[s][j] # NoJob /\ mem[s][j] # NoJob
                 /\ \/ tool[s] # NoCopy /\ tool[s].id = j
                    \/ ~mem'[s][j].on
                    \/ mem'[s][j].next = 0
                 /\ tool'[s] = tool[s] \/ tool'[s] = NoCopy
        BY <1>5, <2>2, <3>1, <3>4
      <3>. QED
        BY <2>2, <3>2, <3>3, <3>4
    <2>3. CASE k = j /\ mem'[s][j] # NoJob /\ mem[s][j] = NoJob
      <3>1. runs[j] = 0 /\ \A u \in Svc : j \in pending[u] => u # s /\ mem[u][j] = NoJob
        BY <2>3
      <3>2. \A u \in Svc : ~Live(u, k)'
        BY <1>1, <1>2, <2>3, <3>1, ShapeFacts DEF Live
      <3>. QED
        BY <2>3, <3>1, <3>2
    <2>. QED
      BY <2>1, <2>2, <2>3
  <1>7. OneLoop' /\ ArmedOnce'
    BY <1>1, <1>6 DEF OneLoop, ArmedOnce
  <1>. QED
    BY <1>3, <1>4, <1>7 DEF Once

\* No step takes a one-shot job a second time.
LEMMA OnceStep == Shape /\ Once /\ [CNext]_vars => Once'
  <1>. SUFFICES ASSUME Shape, Once, [CNext]_vars PROVE Once'
    OBVIOUS
  <1>. DEFINE SameLoops == taken' = taken /\ pending' = pending
  <1>0. loop' = loop => SameLoops
    BY DEF taken, Taken, pending
  <1>1. CASE Tick
    <2>1. SameLoops /\ UNCHANGED <<mem, svc, state, tool, runs, dropped>> /\ clock' = clock + 1
      BY <1>0, <1>1 DEF Tick, ghosts
    <2>. QED
      BY <2>1, ShapeFacts DEF Once, OneShotOnce, TakenInTime, OneLoop, ArmedOnce, Live
  <1>2. CASE Stop
    <2>1. SameLoops /\ UNCHANGED <<clock, mem, svc, tool, runs, dropped>> /\ state'[svc] = "stopped"
      BY <1>0, <1>2, ShapeFacts DEF Stop, ghosts
    <2>. QED
      BY <2>1, ShapeFacts DEF Once, OneShotOnce, TakenInTime, OneLoop, ArmedOnce, Live
  <1>3. CASE CliCommand \/ UNCHANGED vars
    <2>1. SameLoops /\ UNCHANGED <<clock, mem, svc, state, tool, runs, dropped>>
      BY <1>0, <1>3 DEF CliCommand, Cli, vars, ghosts
    <2>. QED
      BY <2>1 DEF Once, OneShotOnce, TakenInTime, OneLoop, ArmedOnce, Live
  <1>4. CASE Crash
    <2>1. /\ UNCHANGED <<clock, svc, runs, dropped>>
          /\ \A s \in Svc : state'[s] = "none" /\ loop'[s] = Exited
      BY <1>4 DEF Crash, ghosts
    <2>2. \A s \in Svc : taken'[s] = {} /\ pending'[s] = {}
      <3>1. Exited.due = <<>> /\ Len(<<>>) = 0
        BY EmptySeq DEF Exited
      <3>. QED
        BY <2>1, <3>1 DEF taken, Taken, pending
    <2>. QED
      BY <2>1, <2>2, ShapeFacts DEF Once, OneShotOnce, TakenInTime, OneLoop, ArmedOnce, Live
  <1>5. CASE Start
    <2>. DEFINE n == svc + 1
    <2>1. /\ n \in Svc /\ svc' = n /\ SameLoops /\ taken[n] = {} /\ pending[n] = {}
          /\ UNCHANGED <<clock, tool, runs, dropped>> /\ tool[n] = NoCopy
          /\ \A u \in Svc \ {n} : mem'[u] = mem[u]
          /\ \A j \in Id : mem'[n][j] # NoJob /\ mem'[n][j].on => mem'[n][j].next = computeNextRun(j, clock)
      BY <1>5, StartMem
    <2>. HIDE DEF n
    <2>2. OneShotOnce' /\ TakenInTime'
      BY <2>1 DEF Once, OneShotOnce, TakenInTime
    <2>3. \A j \in OneShot, u \in Svc : Live(u, j)' => Live(u, j)
      BY <2>1 DEF Live
    <2>4. OneLoop'
      BY <2>1, <2>3 DEF Once, OneLoop
    <2>5. ArmedOnce'
      <3>. SUFFICES ASSUME NEW j \in OneShot, mem'[n][j] # NoJob, mem'[n][j].on, mem'[n][j].next # 0
                    PROVE  runs[j] = 0 /\ \A t \in Svc : j \notin pending[t]
        BY <2>1 DEF ArmedOnce, Live
      <3>1. clock < At[j] /\ clock \in Nat /\ At[j] \in Nat
        BY <2>1, Times, ShapeFacts
      <3>2. runs[j] = 0 /\ \A t \in Svc : j \notin taken[t]
        <4>1. ~(At[j] <= clock)
          BY <3>1
        <4>2. (runs[j] # 0 => At[j] <= clock) /\ \A t \in Svc : j \in taken[t] => At[j] <= clock
          BY DEF Once, TakenInTime
        <4>. QED
          BY <4>1, <4>2
      <3>. QED
        BY <3>2, ShapeFacts
    <2>. QED
      BY <2>2, <2>4, <2>5 DEF Once
  <1>6. ASSUME NEW s \in Svc, checkJobs(s) PROVE Once'
    <2>. DEFINE D == IF state[s] = "running" THEN Due(mem[s], clock) ELSE {}
    <2>1. /\ UNCHANGED <<clock, svc, state, tool, runs, dropped>>
          /\ \A u \in Svc \ {s} : mem'[u] = mem[u]
          /\ \A j \in Id : IF j \in D THEN mem[s][j] \in Job /\ mem'[s][j] \in Job /\ mem'[s][j].next = 0
                           ELSE mem'[s][j] = mem[s][j]
      BY <1>6, CheckMem
    <2>2. /\ taken[s] = {} /\ pending[s] = {}
          /\ taken'[s] = D /\ pending'[s] = D
          /\ \A u \in Svc \ {s} : taken'[u] = taken[u] /\ pending'[u] = pending[u]
      <3>1. /\ taken[s] = {} /\ pending[s] = {}
            /\ taken' = [taken EXCEPT ![s] = D] /\ pending' = [pending EXCEPT ![s] = D]
        BY <1>6, CheckTakes
      <3>. HIDE DEF D
      <3>. QED
        BY <3>1, ShapeFacts
    <2>3. \A j \in D : /\ s = svc /\ state[svc] = "running" /\ mem[s][j] # NoJob /\ mem[s][j].on
                       /\ mem[s][j].next # 0 /\ mem[s][j].next <= clock
      BY ShapeFacts DEF Due, Listed
    <2>. HIDE DEF D
    <2>4. \A u \in Svc, j \in Id : mem'[u][j] = NoJob <=> mem[u][j] = NoJob
      <3>1. NoJob \notin Job
        BY ShapeFacts
      <3>. QED
        BY <2>1, <3>1
    <2>5. \A j \in OneShot \cap D : At[j] <= clock /\ runs[j] = 0 /\ \A t \in Svc : ~Live(t, j)
      <3>. SUFFICES ASSUME NEW j \in OneShot \cap D
                    PROVE At[j] <= clock /\ runs[j] = 0 /\ \A t \in Svc : ~Live(t, j)
        OBVIOUS
      <3>1. runs[j] = 0 /\ \A t \in Svc : ~Live(t, j)
        BY <2>2, <2>3 DEF Once, ArmedOnce
      <3>2. mem[s][j].next = At[j]
        <4>1. mem[s][j].next \in {-1, 0, At[j]} /\ mem[s][j] \in Job /\ mem[s][j].next # 0
          BY <2>1, <2>3, ShapeFacts DEF Shape, OwnTime
        <4>2. mem[s][j].next \in Nat
          BY <4>1 DEF Job
        <4>. QED
          BY <4>1, <4>2
      <3>. QED
        BY <2>3, <3>1, <3>2
    <2>6. OneShotOnce' /\ TakenInTime'
      <3>1. \A j \in OneShot : runs[j] # 0 => At[j] <= clock
        BY DEF Once, TakenInTime
      <3>2. \A u \in Svc, j \in OneShot : j \in taken'[u] =>
              At[j] <= clock /\ (mem'[u][j] # NoJob \/ <<u, j>> \in dropped)
        <4>. SUFFICES ASSUME NEW u \in Svc, NEW j \in OneShot, j \in taken'[u]
                      PROVE  At[j] <= clock /\ (mem'[u][j] # NoJob \/ <<u, j>> \in dropped)
          OBVIOUS
        <4>1. CASE u = s
          BY <4>1, <2>2, <2>3, <2>4, <2>5, ShapeFacts
        <4>2. CASE u # s
          BY <4>2, <2>2, <2>4, ShapeFacts DEF Once, TakenInTime
        <4>. QED
          BY <4>1, <4>2
      <3>. QED
        BY <2>1, <3>1, <3>2 DEF Once, OneShotOnce, TakenInTime
    <2>7. \A u \in Svc, j \in OneShot : Live(u, j)' <=> Live(u, j) \/ (u = s /\ j \in D)
      BY <2>2, <2>3, <2>4, ShapeFacts DEF Live
    <2>8. OneLoop'
      BY <2>1, <2>5, <2>7 DEF Once, OneLoop
    <2>9. ArmedOnce'
      <3>. SUFFICES ASSUME NEW j \in OneShot, state[svc] = "running", mem'[svc][j] # NoJob,
                           \/ mem'[svc][j].on /\ mem'[svc][j].next # 0
                           \/ tool[svc] # NoCopy /\ tool[svc].id = j
                    PROVE  (runs[j] = 0 /\ \A t \in Svc : ~Live(t, j)') \/ j \in taken'[svc]
        BY <2>1 DEF ArmedOnce
      <3>1. CASE s = svc /\ j \in D
        BY <3>1, <2>2
      <3>2. CASE ~(s = svc /\ j \in D)
        <4>1. mem'[svc][j] = mem[svc][j]
          BY <3>2, <2>1, ShapeFacts
        <4>2. (runs[j] = 0 /\ \A t \in Svc : ~Live(t, j)) \/ j \in taken[svc]
          BY <4>1 DEF Once, ArmedOnce
        <4>3. ~(j \in D)
          BY <3>2, <2>3
        <4>4. j \in taken[svc] => j \in taken'[svc]
          BY <2>2, ShapeFacts
        <4>. QED
          BY <4>2, <4>3, <4>4, <2>7
      <3>. QED
        BY <3>1, <3>2
    <2>. QED
      BY <2>6, <2>8, <2>9 DEF Once
  <1>7. ASSUME NEW s \in Svc, Begin(s) PROVE Once'
    <2>. DEFINE j == Head(loop[s].due)
    <2>1. /\ UNCHANGED <<clock, mem, svc, state, tool, dropped>>
          /\ runs' = IF mem[s][j] # NoJob /\ j \in OneShot THEN [runs EXCEPT ![j] = @ + 1] ELSE runs
      BY <1>7 DEF Begin
    <2>2. /\ j \in Id /\ j \in taken[s] /\ j \in pending[s]
          /\ pending' = [pending EXCEPT ![s] = @ \ {j}]
          /\ taken' = IF mem[s][j] = NoJob THEN [taken EXCEPT ![s] = @ \ {j}] ELSE taken
      BY <1>7, BeginTakes
    <2>. HIDE DEF j
    <2>3. \A u \in Svc, k \in Id : Live(u, k)' <=> Live(u, k) /\ ~(u = s /\ k = j)
      BY <2>1, <2>2, ShapeFacts DEF Live
    <2>4. /\ \A u \in Svc, k \in Id : k \in taken'[u] => k \in taken[u]
          /\ \A u \in Svc, k \in Id : k \in taken[u] /\ mem[u][k] # NoJob => k \in taken'[u]
      BY <2>2, ShapeFacts
    <2>5. j \in OneShot /\ mem[s][j] # NoJob =>
            runs[j] = 0 /\ At[j] <= clock /\ (\A t \in Svc : Live(t, j) => t = s) /\ Live(s, j)
      BY <2>2 DEF Once, OneLoop, Live, TakenInTime
    <2>6. \A k \in OneShot : runs'[k] = IF k = j /\ mem[s][j] # NoJob THEN runs[k] + 1 ELSE runs[k]
      BY <2>1, ShapeFacts
    <2>7. OneShotOnce' /\ TakenInTime'
      BY <2>1, <2>4, <2>5, <2>6, ShapeFacts DEF Once, OneShotOnce, TakenInTime
    <2>8. OneLoop'
      <3>. SUFFICES ASSUME NEW k \in OneShot, NEW u \in Svc, Live(u, k)'
                    PROVE  runs'[k] = 0 /\ \A t \in Svc : Live(t, k)' => t = u
        BY DEF OneLoop
      <3>1. Live(u, k) /\ ~(u = s /\ k = j)
        BY <2>3, ShapeFacts
      <3>2. runs[k] = 0 /\ \A t \in Svc : Live(t, k) => t = u
        BY <3>1 DEF Once, OneLoop
      <3>3. ~(k = j /\ mem[s][j] # NoJob)
        BY <2>5, <3>1
      <3>. QED
        BY <2>3, <2>6, <3>2, <3>3, ShapeFacts
    <2>9. ArmedOnce'
      <3>. SUFFICES ASSUME NEW k \in OneShot, state[svc] = "running", mem[svc][k] # NoJob,
                           \/ mem[svc][k].on /\ mem[svc][k].next # 0
                           \/ tool[svc] # NoCopy /\ tool[svc].id = k
                    PROVE  (runs'[k] = 0 /\ \A t \in Svc : ~Live(t, k)') \/ k \in taken'[svc]
        BY <2>1 DEF ArmedOnce
      <3>1. (runs[k] = 0 /\ \A t \in Svc : ~Live(t, k)) \/ k \in taken[svc]
        BY DEF Once, ArmedOnce
      <3>2. CASE k \in taken[svc]
        BY <3>2, <2>4, ShapeFacts
      <3>3. CASE runs[k] = 0 /\ \A t \in Svc : ~Live(t, k)
        BY <3>3, <2>3, <2>5, <2>6, ShapeFacts
      <3>. QED
        BY <3>1, <3>2, <3>3
    <2>. QED
      BY <2>7, <2>8, <2>9 DEF Once
  <1>8. ASSUME NEW s \in Svc, End(s) PROVE Once'
    <2>. DEFINE j == Head(loop[s].due)
    <2>1. /\ OneJob(s, j) /\ UNCHANGED <<tool, runs>>
          /\ j \in OneShot => mem'[s][j] = NoJob /\ dropped' = dropped \cup {<<s, j>>}
          /\ j \notin OneShot => dropped' = dropped
      BY <1>8, EndMem
    <2>2. /\ j \in Id /\ j \in taken[s] /\ j \notin pending[s]
          /\ taken' = [taken EXCEPT ![s] = @ \ {j}] /\ pending' = pending
      BY <1>8, EndTakes
    <2>. HIDE DEF j
    <2>3. /\ UNCHANGED <<clock, svc, state>> /\ dropped \subseteq dropped'
          /\ \A u \in Svc, k \in OneShot : ~(u = s /\ k = j) =>
               /\ mem'[u][k] = mem[u][k]
               /\ k \in taken'[u] <=> k \in taken[u]
          /\ \A u \in Svc, k \in OneShot : k \in taken'[u] => k \in taken[u] /\ ~(u = s /\ k = j)
          /\ j \in OneShot => mem'[s][j] = NoJob
      BY <2>1, <2>2, ShapeFacts DEF OneJob
    <2>4. \A u \in Svc, k \in OneShot : Live(u, k)' => Live(u, k)
      BY <2>2, <2>3 DEF Live
    <2>5. OneShotOnce' /\ TakenInTime'
      BY <2>1, <2>3 DEF Once, OneShotOnce, TakenInTime
    <2>6. OneLoop'
      BY <2>1, <2>4 DEF Once, OneLoop
    <2>7. ArmedOnce'
      BY <2>1, <2>3, <2>4, ShapeFacts DEF Once, ArmedOnce
    <2>. QED
      BY <2>5, <2>6, <2>7 DEF Once
  <1>9. ASSUME NEW s \in Svc, UpdateJob(s) PROVE Once'
    <2>. DEFINE j == tool[s].id
    <2>1. /\ j \in Id /\ tool[s] # NoCopy /\ OneJob(s, j) /\ UNCHANGED <<loop, runs, dropped>>
          /\ tool' = [tool EXCEPT ![s] = NoCopy]
          /\ mem[s][j] = NoJob => mem'[s][j] = NoJob
      BY <1>9, UpdateMem
    <2>2. tool'[s] = NoCopy /\ \A u \in Svc \ {s} : tool'[u] = tool[u]
      BY <2>1, ShapeFacts
    <2>3. mem[s][j] # NoJob => mem'[s][j] # NoJob
      BY <1>9, UpdateMem, ShapeFacts
    <2>4. tool[s] # NoCopy /\ tool[s].id = j
      BY <2>1
    <2>. HIDE DEF j
    <2>5. \A u \in Svc : tool'[u] = NoCopy \/ tool'[u] = tool[u] \/ (u = s /\ tool'[u].id = j)
      BY <2>2
    <2>6. mem[s][j] # NoJob <=> mem'[s][j] # NoJob
      BY <2>1, <2>3
    <2>. QED
      BY <2>1, <2>2, <2>4, <2>5, <2>6, OnceKept
  <1>10. ASSUME NEW s \in Svc, NEW j \in Id, AddJob(s, j) PROVE Once'
    <2>1. /\ OneJob(s, j) /\ UNCHANGED <<loop, runs, dropped>> /\ Fresh(j)
          /\ tool' \in {tool, [tool EXCEPT ![s] = [id |-> j, job |-> New(j)]]}
      BY <1>10, AddMem
    <2>2. \A u \in Svc : tool'[u] = tool[u] \/ (u = s /\ tool'[u].id = j)
      BY <2>1, ShapeFacts
    <2>3. /\ \A u \in Svc : mem[u][j] = NoJob /\ <<u, j>> \notin dropped
          /\ j \in OneShot => runs[j] = 0
      BY <2>1 DEF Fresh
    <2>4. j \in OneShot => \A u \in Svc : j \notin pending[u]
      BY <2>3, ShapeFacts DEF Once, TakenInTime
    <2>5. j \in OneShot => runs[j] = 0 /\ \A u \in Svc : j \in pending[u] => u # s /\ mem[u][j] = NoJob
      BY <2>3, <2>4
    <2>6. mem[s][j] = NoJob
      BY <2>3
    <2>. QED
      <3>1. OneJob(s, j) /\ UNCHANGED <<loop, runs>> /\ dropped \subseteq dropped'
        BY <2>1
      <3>. QED
        BY <2>2, <2>5, <2>6, <3>1, OnceKept
  <1>11. ASSUME NEW s \in Svc, NEW j \in Id, RemoveJob(s, j) PROVE Once'
    <2>1. /\ OneJob(s, j) /\ UNCHANGED <<loop, runs, tool>>
          /\ mem'[s][j] = NoJob /\ dropped' = dropped \cup {<<s, j>>}
      BY <1>11, RemoveMem
    <2>. QED
      BY <2>1, OnceKept
  <1>12. ASSUME NEW s \in Svc, NEW j \in Id, NEW on \in BOOLEAN, EnableJob(s, j, on) PROVE Once'
    <2>1. /\ OneJob(s, j) /\ UNCHANGED <<loop, runs, dropped, tool>>
          /\ mem[s][j] # NoJob /\ mem'[s][j] \in Job
          /\ mem'[s][j] = [on |-> on, next |-> IF on THEN computeNextRun(j, clock) ELSE 0]
      BY <1>12, EnableMem
    <2>2. mem'[s][j].on = on /\ mem'[s][j].next = IF on THEN computeNextRun(j, clock) ELSE 0
      BY <2>1
    <2>3. j \in OneShot => \/ ~mem'[s][j].on
                           \/ mem'[s][j].next = 0
                           \/ runs[j] = 0 /\ \A u \in Svc : j \notin pending[u]
      <3>. SUFFICES ASSUME j \in OneShot, on, computeNextRun(j, clock) # 0
                    PROVE  runs[j] = 0 /\ \A u \in Svc : j \notin pending[u]
        BY <2>2
      <3>1. ~(At[j] <= clock)
        BY Times, ShapeFacts
      <3>2. (runs[j] # 0 => At[j] <= clock) /\ \A t \in Svc : j \in taken[t] => At[j] <= clock
        BY DEF Once, TakenInTime
      <3>. QED
        BY <3>1, <3>2, ShapeFacts
    <2>4. mem'[s][j] # NoJob
      BY <2>1, ShapeFacts
    <2>. QED
      BY <2>1, <2>3, <2>4, OnceKept
  <1>. QED
    BY <1>1, <1>2, <1>3, <1>4, <1>5, <1>6, <1>7, <1>8, <1>9, <1>10, <1>11, <1>12 DEF CNext, Loop

----------------------------------------------------------------------------
(* The theorems                                                            *)

\* The inductive invariant holds in every reachable state.
THEOREM CronInvariant == CSpec => []CronInv
  <1>1. CronInv /\ [CNext]_vars => CronInv'
    BY ShapeStep, EndedStep, RemovedStep, WrittenStep, DormantStep, OnceStep DEF CronInv
  <1>. QED
    BY <1>1, CronStart, PTL DEF CSpec

\* The variables of the cron service keep their types.
THEOREM CronTypes == CSpec => []TypeOK
  <1>1. CronInv => TypeOK
    BY DEF CronInv, Shape
  <1>. QED
    BY <1>1, CronInvariant, PTL

\* A one-shot job is executed at most once, however ticks, stale copies,
\* reloads, crashes, failed saves and CLI commands interleave.
THEOREM CronOnce == CSpec => []OneShotOnce
  <1>1. CronInv => OneShotOnce
    BY DEF CronInv, Once
  <1>. QED
    BY <1>1, CronInvariant, PTL

\* A job that is on in a running service is armed, in its loop's hands, or one
\* whose schedule named no time to come when its next run was computed.
THEOREM CronAwake == CSpec => []NeverDormant
  <1>1. CronInv => NeverDormant
    BY DEF CronInv
  <1>. QED
    BY <1>1, CronInvariant, PTL

\* The newest service's table is in the file, but for a failed save and another
\* writer.
THEOREM CronWritten == CSpec => []WrittenThrough
  <1>1. CronInv => WrittenThrough
    BY DEF CronInv
  <1>. QED
    BY <1>1, CronInvariant, PTL

\* A removed or deleted job does not come back into the table it left.
THEOREM CronRemoved == CSpec => []StaysRemoved
  <1>1. CronInv => StaysRemoved
    BY DEF CronInv
  <1>. QED
    BY <1>1, CronInvariant, PTL
=============================================================================
