------------------------ MODULE InferenceServerProof ------------------------
(* For any requests, children, slots and bounds: no task is in two places,  *)
(* none is lost and no id is answered twice (ServerInv is inductive); a     *)
(* child waits for a parent at work, and the kill switch has its cause      *)
(* (ServerInv and ChildInv together are).                                   *)
EXTENDS InferenceServer, FiniteSetTheorems, FunctionTheorems, SequenceTheorems,
        WellFoundedInduction, TLAPS

\* A set of naturals has a least one.
LEMMA HasLeast ==
  ASSUME NEW T \in SUBSET Nat, T # {}
  PROVE  \E x \in T : \A y \in T : x <= y
<1> DEFINE R == StrictSubsetOrdering(Nat)
           S == FiniteSubsetsOf(Nat)
           U == {1 .. x : x \in T}
<1>1. IsWellFoundedOn(R, S) BY FS_StrictSubsetOrderingWellFounded
<1>2. \A x \in T : IsFiniteSet(1 .. x) /\ 1 .. x \in SUBSET Nat BY FS_Interval
<1>3. U \subseteq S BY <1>2 DEF FiniteSubsetsOf
<1>4. U # {} OBVIOUS
<1>5. \A x, y \in T : y < x => <<1 .. y, 1 .. x>> \in R
  <2> TAKE x, y \in T
  <2> HAVE y < x
  <2>1. x \in Nat /\ y \in Nat OBVIOUS
  <2>2. 1 .. y \subseteq 1 .. x BY <2>1
  <2>3. x \in 1 .. x /\ x \notin 1 .. y BY <2>1
  <2>4. 1 .. y # 1 .. x BY <2>3
  <2> QED BY <1>2, <2>2, <2>4 DEF StrictSubsetOrdering
<1> HIDE DEF R, S
<1>6. PICK u \in U : \A v \in U : ~(<<v, u>> \in R) BY <1>1, <1>3, <1>4, WFMin
<1>7. PICK x \in T : u = 1 .. x OBVIOUS
<1>8. \A y \in T : ~(y < x) BY <1>5, <1>6, <1>7
<1> QED BY <1>8

----------------------------------------------------------------------------
(* The queues                                                              *)

Has(q, r)  == \E j \in 1 .. Len(q) : q[j] = Task(r)
Once(q, r) == \A j, k \in 1 .. Len(q) : q[j] = Task(r) /\ q[k] = Task(r) => j = k

\* A message put at the end.
LEMMA QAppend ==
  ASSUME NEW S, NEW q \in Seq(S), NEW m \in S, NEW r
  PROVE  /\ Append(q, m) \in Seq(S)
         /\ Has(Append(q, m), r) <=> Has(q, r) \/ m = Task(r)
         /\ Once(q, r) /\ (m = Task(r) => ~Has(q, r)) => Once(Append(q, m), r)
<1>1. /\ Append(q, m) \in Seq(S) /\ Len(Append(q, m)) = Len(q) + 1 /\ Len(q) \in Nat
      /\ \A i \in 1 .. Len(q) : Append(q, m)[i] = q[i]
      /\ Append(q, m)[Len(q) + 1] = m
  BY AppendProperties, LenProperties
<1> DEFINE a == Append(q, m)  n == Len(q)
<1>2. a[n + 1] = m /\ Len(a) = n + 1 /\ n \in Nat /\ \A i \in 1 .. n : a[i] = q[i] BY <1>1
<1>3. a \in Seq(S) BY <1>1
<1> HIDE DEF a
<1>4. Has(a, r) <=> Has(q, r) \/ m = Task(r) BY <1>2 DEF Has
<1>5. ASSUME Once(q, r), m = Task(r) => ~Has(q, r) PROVE Once(a, r)
  <2> SUFFICES ASSUME NEW j \in 1 .. n + 1, NEW k \in 1 .. n + 1, a[j] = Task(r), a[k] = Task(r)
               PROVE  j = k
    BY <1>2 DEF Once
  <2>1. CASE j \in 1 .. n /\ k \in 1 .. n BY <1>2, <1>5, <2>1 DEF Once
  <2>2. CASE j = n + 1 /\ k \in 1 .. n BY <1>2, <1>5, <2>2 DEF Has
  <2>3. CASE k = n + 1 /\ j \in 1 .. n BY <1>2, <1>5, <2>3 DEF Has
  <2>4. CASE k = n + 1 /\ j = n + 1 BY <2>4
  <2> QED BY <1>2, <2>1, <2>2, <2>3, <2>4
<1> QED BY <1>3, <1>4, <1>5 DEF a

\* A message taken from the front.
LEMMA QTail ==
  ASSUME NEW S, NEW q \in Seq(S), q # <<>>, NEW r, Once(q, r)
  PROVE  /\ Tail(q) \in Seq(S) /\ Head(q) \in S
         /\ Has(q, r) <=> Has(Tail(q), r) \/ Head(q) = Task(r)
         /\ ~(Has(Tail(q), r) /\ Head(q) = Task(r))
         /\ Once(Tail(q), r)
<1> DEFINE n == Len(q)  u == Tail(q)
<1>1. /\ n \in Nat \ {0} /\ Len(u) = n - 1 /\ u \in Seq(S)
      /\ \A i \in 1 .. n - 1 : u[i] = q[i + 1]
      /\ Head(q) = q[1] /\ Head(q) \in S
  BY HeadTailProperties, LenProperties, EmptySeq
<1> HIDE DEF u
<1>2. \A i \in 1 .. n - 1 : i + 1 \in 1 .. n /\ i + 1 # 1 BY <1>1
<1>3. \A i \in 1 .. n : i # 1 => i - 1 \in 1 .. n - 1 /\ (i - 1) + 1 = i BY <1>1
<1>4. ASSUME Has(u, r) PROVE Has(q, r) /\ Head(q) # Task(r)
  <2>1. PICK i \in 1 .. n - 1 : q[i + 1] = Task(r) BY <1>1, <1>4 DEF Has
  <2> QED BY <1>1, <1>2, <2>1 DEF Has, Once
<1>5. ASSUME Has(q, r), q[1] # Task(r) PROVE Has(u, r)
  <2>1. PICK i \in 1 .. n : q[i] = Task(r) BY <1>5 DEF Has
  <2>2. u[i - 1] = Task(r) /\ i - 1 \in 1 .. n - 1 BY <1>1, <1>3, <1>5, <2>1
  <2> QED BY <1>1, <2>2 DEF Has
<1>6. q[1] = Task(r) => Has(q, r) BY <1>1 DEF Has
<1>7. Once(u, r)
  <2> SUFFICES ASSUME NEW j \in 1 .. n - 1, NEW k \in 1 .. n - 1,
                      q[j + 1] = Task(r), q[k + 1] = Task(r)
               PROVE  j = k
    BY <1>1 DEF Once
  <2>1. j + 1 = k + 1 BY <1>2 DEF Once
  <2> QED BY <1>1, <2>1
<1> QED BY <1>1, <1>4, <1>5, <1>6, <1>7 DEF u

\* Messages put at the front, none of them r's task.
LEMMA QConcat ==
  ASSUME NEW S, NEW c \in Seq(S), NEW q \in Seq(S), NEW r, ~Has(c, r)
  PROVE  /\ c \o q \in Seq(S)
         /\ Has(c \o q, r) <=> Has(q, r)
         /\ Once(q, r) => Once(c \o q, r)
<1> DEFINE m == Len(c)  n == Len(q)  a == c \o q
<1>1. /\ a \in Seq(S) /\ Len(a) = m + n /\ m \in Nat /\ n \in Nat
      /\ \A i \in 1 .. m + n : a[i] = IF i <= m THEN c[i] ELSE q[i - m]
  BY ConcatProperties, LenProperties
<1> HIDE DEF a
<1>2. \A i \in 1 .. m + n : a[i] = Task(r) => i - m \in 1 .. n /\ q[i - m] = Task(r)
  <2> TAKE i \in 1 .. m + n
  <2>1. CASE i <= m
    <3>1. i \in 1 .. m BY <1>1, <2>1
    <3> QED BY <1>1, <2>1, <3>1 DEF Has
  <2>2. CASE ~(i <= m) BY <1>1, <2>2
  <2> QED BY <2>1, <2>2
<1>3. \A j \in 1 .. n : j + m \in 1 .. m + n /\ a[j + m] = q[j]
  <2> TAKE j \in 1 .. n
  <2>1. j + m \in 1 .. m + n /\ ~(j + m <= m) /\ (j + m) - m = j BY <1>1
  <2> QED BY <1>1, <2>1
<1>4. Has(a, r) => Has(q, r) BY <1>1, <1>2 DEF Has
<1>5. Has(q, r) => Has(a, r) BY <1>1, <1>3 DEF Has
<1>6. ASSUME Once(q, r) PROVE Once(a, r)
  <2> SUFFICES ASSUME NEW j \in 1 .. m + n, NEW k \in 1 .. m + n, a[j] = Task(r), a[k] = Task(r)
               PROVE  j = k
    BY <1>1 DEF Once
  <2>1. j - m = k - m BY <1>2, <1>6 DEF Once
  <2> QED BY <1>1, <2>1
<1> QED BY <1>1, <1>4, <1>5, <1>6 DEF a

\* One message put at the front.
LEMMA QCons ==
  ASSUME NEW S, NEW m \in S, NEW q \in Seq(S), NEW r
  PROVE  /\ <<m>> \o q \in Seq(S)
         /\ Has(<<m>> \o q, r) <=> Has(q, r) \/ m = Task(r)
         /\ Once(q, r) /\ (m = Task(r) => ~Has(q, r)) => Once(<<m>> \o q, r)
<1> DEFINE n == Len(q)  a == <<m>> \o q
<1>1. <<m>> \in Seq(S) /\ Len(<<m>>) = 1 /\ <<m>>[1] = m OBVIOUS
<1>2. /\ a \in Seq(S) /\ Len(a) = 1 + n /\ n \in Nat
      /\ \A i \in 1 .. 1 + n : a[i] = IF i <= 1 THEN <<m>>[i] ELSE q[i - 1]
  BY <1>1, ConcatProperties, LenProperties
<1> HIDE DEF a
<1>3. a[1] = m /\ 1 \in 1 .. 1 + n BY <1>1, <1>2
<1>4. \A i \in 1 .. 1 + n : i # 1 => i - 1 \in 1 .. n /\ a[i] = q[i - 1] BY <1>2
<1>5. \A j \in 1 .. n : j + 1 \in 1 .. 1 + n /\ a[j + 1] = q[j]
  <2> TAKE j \in 1 .. n
  <2>1. j + 1 \in 1 .. 1 + n /\ ~(j + 1 <= 1) /\ (j + 1) - 1 = j BY <1>2
  <2>2. \A i \in 1 .. 1 + n : ~(i <= 1) => a[i] = q[i - 1] BY <1>2
  <2>3. a[j + 1] = q[(j + 1) - 1] BY <2>1, <2>2
  <2> QED BY <2>1, <2>3
<1>6. Has(a, r) <=> Has(q, r) \/ m = Task(r)
  <2>1. m = Task(r) => Has(a, r) BY <1>2, <1>3 DEF Has
  <2>2. Has(q, r) => Has(a, r)
    <3>1. ASSUME NEW j \in 1 .. n, q[j] = Task(r) PROVE Has(a, r)
      <4>1. a[j + 1] = Task(r) /\ j + 1 \in 1 .. 1 + n BY <1>5, <3>1
      <4> QED BY <1>2, <4>1 DEF Has
    <3> QED BY <3>1 DEF Has
  <2>3. Has(a, r) /\ m # Task(r) => Has(q, r)
    <3>1. ASSUME NEW i \in 1 .. 1 + n, a[i] = Task(r), m # Task(r) PROVE Has(q, r)
      <4>1. q[i - 1] = Task(r) /\ i - 1 \in 1 .. n BY <1>3, <1>4, <3>1
      <4> QED BY <4>1 DEF Has
    <3> QED BY <1>2, <3>1 DEF Has
  <2> QED BY <2>1, <2>2, <2>3
<1>7. ASSUME Once(q, r), m = Task(r) => ~Has(q, r) PROVE Once(a, r)
  <2> SUFFICES ASSUME NEW j \in 1 .. 1 + n, NEW k \in 1 .. 1 + n, a[j] = Task(r), a[k] = Task(r)
               PROVE  j = k
    BY <1>2 DEF Once
  <2>1. CASE j = 1 \/ k = 1
    <3>1. m = Task(r) BY <1>3, <2>1
    <3> QED BY <1>4, <1>7, <2>1, <3>1 DEF Has
  <2>2. CASE j # 1 /\ k # 1
    <3>1. j - 1 = k - 1 BY <1>4, <1>7, <2>2 DEF Once
    <3> QED BY <1>2, <3>1
  <2> QED BY <2>1, <2>2
<1> QED BY <1>2, <1>6, <1>7 DEF a

\* A message taken from the middle.
LEMMA QDrop ==
  ASSUME NEW S, NEW q \in Seq(S), NEW j \in 1 .. Len(q), NEW r, Once(q, r)
  PROVE  /\ DropAt(q, j) \in Seq(S) /\ q[j] \in S
         /\ Has(DropAt(q, j), r) <=> Has(q, r) /\ q[j] # Task(r)
         /\ Once(DropAt(q, j), r)
<1> DEFINE n == Len(q)  a == DropAt(q, j)
<1>1. n \in Nat /\ (\A k \in 1 .. n : q[k] \in S) BY LenProperties, ElementOfSeq
<1>2. n - 1 \in Nat /\ \A k \in 1 .. n - 1 : k \in 1 .. n /\ k + 1 \in 1 .. n BY <1>1
<1>3. a \in [1 .. n - 1 -> S]
  <2>1. \A k \in 1 .. n - 1 : (IF k < j THEN q[k] ELSE q[k + 1]) \in S BY <1>1, <1>2
  <2>2. a = [k \in 1 .. n - 1 |-> IF k < j THEN q[k] ELSE q[k + 1]] BY DEF DropAt
  <2> HIDE DEF a
  <2> QED BY <2>1, <2>2
<1>4. a \in Seq(S)
  <2> HIDE DEF a
  <2>1. \E m \in Nat : a \in [1 .. m -> S] BY <1>2, <1>3
  <2> QED BY <2>1
<1>5. Len(a) = n - 1
  <2>1. DOMAIN a = 1 .. n - 1 BY <1>3
  <2> HIDE DEF a
  <2> QED BY <1>2, <1>4, <2>1, LenProperties
<1>6. \A k \in 1 .. n - 1 : a[k] = IF k < j THEN q[k] ELSE q[k + 1] BY DEF DropAt
<1> DEFINE at(k) == IF k < j THEN k ELSE k + 1
<1>7. \A k \in 1 .. n - 1 : at(k) \in 1 .. n /\ at(k) # j /\ a[k] = q[at(k)] BY <1>1, <1>6
<1>8. \A i \in 1 .. n : i # j => \E k \in 1 .. n - 1 : at(k) = i
  <2> TAKE i \in 1 .. n
  <2> HAVE i # j
  <2>1. CASE i < j
    <3>1. i \in 1 .. n - 1 /\ at(i) = i BY <1>1, <2>1
    <3> QED BY <3>1
  <2>2. CASE i > j
    <3>1. i - 1 \in 1 .. n - 1 /\ at(i - 1) = i BY <1>1, <2>2
    <3> QED BY <3>1
  <2> QED BY <1>1, <2>1, <2>2
<1>9. \A k, l \in 1 .. n - 1 : at(k) = at(l) => k = l BY <1>1
<1> HIDE DEF a, at
<1>10. ASSUME Has(a, r) PROVE Has(q, r) /\ q[j] # Task(r)
  <2>1. PICK k \in 1 .. n - 1 : a[k] = Task(r) BY <1>5, <1>10 DEF Has
  <2>2. q[at(k)] = Task(r) /\ at(k) \in 1 .. n /\ at(k) # j BY <1>7, <2>1
  <2> QED BY <2>2 DEF Has, Once
<1>11. ASSUME Has(q, r), q[j] # Task(r) PROVE Has(a, r)
  <2>1. PICK i \in 1 .. n : q[i] = Task(r) BY <1>11 DEF Has
  <2>2. PICK k \in 1 .. n - 1 : at(k) = i BY <1>8, <1>11, <2>1
  <2>3. a[k] = Task(r) BY <1>7, <2>1, <2>2
  <2> QED BY <1>5, <2>3 DEF Has
<1>12. Once(a, r)
  <2> SUFFICES ASSUME NEW k \in 1 .. n - 1, NEW l \in 1 .. n - 1, a[k] = Task(r), a[l] = Task(r)
               PROVE  k = l
    BY <1>5 DEF Once
  <2>1. q[at(k)] = Task(r) /\ q[at(l)] = Task(r) /\ at(k) \in 1 .. n /\ at(l) \in 1 .. n BY <1>7
  <2>2. at(k) = at(l) BY <2>1 DEF Once
  <2> QED BY <1>9, <2>2
<1> QED BY <1>1, <1>4, <1>10, <1>11, <1>12 DEF a

----------------------------------------------------------------------------
(* The invariant                                                           *)

Early == {"new", "waking", "ready", "adding"}
Tasks == {Task(r) : r \in Request}
Final(i) == [kind |-> "final", id |-> i]

\* Where requests are: their task queued or in hand, or not posted yet; an
\* error under way; and nothing of them in a slot or answered.
slotId    == [s \in Slot |-> slot[s].id]
inQueues  == {r \in Request : Has(queue, r) \/ Has(deferred, r)}
handed    == {r \in Request : InHand(r)}
early     == {r \in Request : reader[r] \in Early}
waits     == {r \in Request : reader[r] = "wait"}
erred     == {r \in Request : \E j \in 1 .. Len(results[r]) : results[r][j].kind = "error"}
untouched == {r \in Request : /\ results[r] = <<>> /\ got[r] = {}
                              /\ \A s \in Slot : slotId[s] \notin Ids(r)}
\* The ids with no final result, read or unread.
owing == {i \in Id : /\ i \notin got[i[1]]
                     /\ \A j \in 1 .. Len(results[i[1]]) : results[i[1]][j] # Final(i)}

\* A slot has a task while it works; the loops of the main thread go over such.
Shape ==
  /\ \A s \in Slot : /\ slot[s].st = "idle" => slot[s].id = <<>>
                     /\ slot[s].st # "idle" => slot[s].id \in Id
  /\ main \in {"undo", "shift", "prompt", "fail", "sample"} => \A s \in todo : slot[s].st # "idle"
  /\ main \in {"undo", "prompt", "fail", "sample"} => todo # {}
  /\ main # "aborted" => empties <= 3

\* No task is twice in the queues.
Singles ==
  \A r \in Request : /\ Once(queue, r) /\ Once(deferred, r)
                     /\ ~(Has(queue, r) /\ Has(deferred, r))

\* While a task is queued or in hand nothing of it was begun.
Placed ==
  /\ Singles
  /\ inQueues \cap handed = {}
  /\ inQueues \cup handed \cup early \subseteq untouched
  /\ early \cap (inQueues \cup handed) = {}

\* Slots share no task, and one that works on it has not answered it.
Apart == \A s, t \in Slot : slotId[s] = slotId[t] /\ slotId[s] # <<>> => s = t
Owed  == \A s \in Slot : slotId[s] # <<>> => slotId[s] \in owing

\* What waits to be read is the reader's and comes before its id's final result.
Ordered ==
  \A r \in Request :
    /\ got[r] \subseteq Ids(r)
    /\ \A j \in 1 .. Len(results[r]) : results[r][j].id \in Ids(r) /\ results[r][j].id \notin got[r]
    /\ \A j, k \in 1 .. Len(results[r]) :
         j < k /\ results[r][j].kind = "final" => results[r][k].id # results[r][j].id

\* Tasks are cancelled when their reader is gone.
Called ==
  /\ \A j \in 1 .. Len(queue) : queue[j].type = "cancel" => reader[queue[j].id[1]] = "gone"
  /\ main = "handle" /\ hand.type = "cancel" => reader[hand.id[1]] = "gone"

\* A launch is undone for a request that gets an error.
Undoing ==
  main = "undo" => /\ hand \in Tasks
                   /\ \A s \in todo : slotId[s] \in Ids(hand.id[1])
                   /\ hand.id[1] \in waits => hand.id[1] \in erred

\* What a reader waits for is pending, in a slot, or answered.
Kept ==
  \A r \in waits :
    /\ Ids(r) \subseteq waiting
    /\ \/ r \in inQueues \cup handed \cup erred
       \/ \A i \in Ids(r) : i \notin owing \/ \E s \in Slot : slotId[s] = i

ServerInv ==
  /\ TypeOK /\ Shape /\ Placed /\ Apart /\ Owed /\ Ordered /\ NoResidue
  /\ Called /\ Undoing /\ Kept

----------------------------------------------------------------------------
(* What the parts of a step do                                             *)

\* Ids, tasks and cancels.
LEMMA Names ==
  /\ \A r \in Request : Top(r) \in Ids(r) /\ Task(r) \in Message /\ Task(r).id[1] = r
  /\ \A i \in Id : i[1] \in Request /\ i \in Ids(i[1]) /\ i # <<>> /\ i = <<i[1], i[2]>>
  /\ \A r \in Request : \A i \in Ids(r) : i \in Id /\ i[1] = r
  /\ \A r, p : Task(r) = Task(p) => r = p
  /\ \A m \in Message : m.type = "task" => \E r \in Request : m = Task(r)
  /\ \A m \in Message : m.type = "cancel" => \E i \in Id : m = Cancel(i) /\ m.id = i
  /\ \A m \in Message : m.type = "next" => m = NextResponse
  /\ \A i, r : Cancel(i) # Task(r) /\ NextResponse # Task(r)
  /\ NextResponse \in Message /\ \A i \in Id : Cancel(i) \in Message /\ Cancel(i).id = i
  /\ \A r : Task(r).type = "task" /\ \A i : Cancel(i).type = "cancel"
  /\ NextResponse.type = "next"
<1>1. \A r \in Request : NChildren[r] \in Nat /\ NSlots \in Nat BY InferenceAssumption
<1>2. \A i \in Id : i[1] \in Request /\ i \in Ids(i[1]) /\ i = <<i[1], i[2]>> /\ i # <<>>
  BY DEF Id, Ids
<1>3. \A r \in Request : Top(r) \in Ids(r) BY <1>1 DEF Id, Ids, Top
<1>4. \A r \in Request : \A i \in Ids(r) : i \in Id /\ i[1] = r BY DEF Ids
<1>5. \A r : Task(r).type = "task" /\ Task(r).id = <<r, 0>> BY DEF Task, Top
<1>6. \A i : Cancel(i).type = "cancel" /\ Cancel(i).id = i BY DEF Cancel
<1>7. NextResponse.type = "next" BY DEF NextResponse
<1>8. \A m \in Message : \/ m = NextResponse
                         \/ \E r \in Request : m = Task(r)
                         \/ \E i \in Id : m = Cancel(i)
  BY DEF Message
<1>9. NextResponse \in Message /\ (\A i \in Id : Cancel(i) \in Message)
      /\ \A r \in Request : Task(r) \in Message
  BY DEF Message
<1>10. \A r, p : Task(r) = Task(p) => r = p
  <2> TAKE r, p
  <2> HAVE Task(r) = Task(p)
  <2>1. <<r, 0>> = <<p, 0>> BY <1>5
  <2> QED BY <2>1
<1> QED BY <1>2, <1>3, <1>4, <1>5, <1>6, <1>7, <1>8, <1>9, <1>10

\* pop_deferred_task picks one of the deferred tasks.
LEMMA PopFrom ==
  ASSUME TypeOK, NEW s \in Slot, PopDeferred(s), deferred # <<>>
  PROVE  \E at \in 1 .. Len(deferred) :
           queue' = <<deferred[at]>> \o queue /\ deferred' = DropAt(deferred, at)
<1> DEFINE own == {j \in DOMAIN deferred : Wants[deferred[j].id[1]] = s}
           at  == IF own = {} THEN 1 ELSE CHOOSE j \in own : \A k \in own : j <= k
<1>1. Len(deferred) \in Nat \ {0} /\ DOMAIN deferred = 1 .. Len(deferred)
  <2>1. deferred \in Seq(Tasks) BY DEF TypeOK, Tasks
  <2> QED BY <2>1, EmptySeq, LenProperties
<1>2. queue' = <<deferred[at]>> \o queue /\ deferred' = DropAt(deferred, at) BY DEF PopDeferred
<1>3. own \subseteq Nat /\ own \subseteq 1 .. Len(deferred) BY <1>1
<1>4. CASE own = {} BY <1>1, <1>2, <1>4
<1>5. CASE own # {}
  <2> HIDE DEF own
  <2>1. \E j \in own : \A k \in own : j <= k BY <1>3, <1>5, HasLeast
  <2>2. at \in own BY <1>5, <2>1
  <2> QED BY <1>2, <1>3, <2>2
<1> QED BY <1>4, <1>5

\* pop_deferred_task only moves a task.
LEMMA PopEffect ==
  ASSUME TypeOK, Singles, NEW s \in Slot, PopDeferred(s)
  PROVE  /\ queue' \in Seq(Message) /\ deferred' \in Seq(Tasks)
         /\ inQueues' = inQueues /\ Singles'
         /\ Called => \A j \in 1 .. Len(queue') :
                        queue'[j].type = "cancel" => reader[queue'[j].id[1]] = "gone"
<1>1. queue \in Seq(Message) /\ deferred \in Seq(Tasks) BY DEF TypeOK, Tasks
<1>2. CASE deferred = <<>>
  BY <1>1, <1>2 DEF PopDeferred, inQueues, Singles, Called
<1>3. CASE deferred # <<>>
  <2>1. PICK at \in 1 .. Len(deferred) :
          queue' = <<deferred[at]>> \o queue /\ deferred' = DropAt(deferred, at)
    BY <1>3, PopFrom
  <2>2. at \in 1 .. Len(deferred) OBVIOUS
  <2>3. PICK p \in Request : deferred[at] = Task(p)
    <3>1. deferred[at] \in Tasks BY <1>1, <2>2, ElementOfSeq
    <3> QED BY <3>1 DEF Tasks
  <2>4. Task(p) \in Message /\ Task(p) \in Tasks BY Names DEF Tasks
  <2>5. Has(deferred, p) BY <2>2, <2>3 DEF Has
  <2>6. \A r \in Request :
          /\ deferred' \in Seq(Tasks)
          /\ Has(deferred', r) <=> Has(deferred, r) /\ r # p
          /\ Once(deferred', r)
    <3> TAKE r \in Request
    <3>1. Once(deferred, r) BY DEF Singles
    <3>2. Task(p) = Task(r) <=> p = r BY Names
    <3> QED BY <1>1, <2>1, <2>2, <2>3, <3>1, <3>2, QDrop
  <2>7. \A r \in Request :
          /\ queue' \in Seq(Message)
          /\ Has(queue', r) <=> Has(queue, r) \/ r = p
          /\ Once(queue', r)
    <3> TAKE r \in Request
    <3>1. Once(queue, r) /\ ~Has(queue, p) BY <2>5 DEF Singles
    <3>2. Task(p) = Task(r) <=> p = r BY Names
    <3>3. queue' = <<Task(p)>> \o queue BY <2>1, <2>3
    <3> QED BY <1>1, <2>4, <3>1, <3>2, <3>3, QCons
  <2>8. inQueues' = inQueues
    <3>1. inQueues' = {r \in Request : Has(queue', r) \/ Has(deferred', r)} BY DEF inQueues, Has
    <3> QED BY <2>5, <2>6, <2>7, <3>1 DEF inQueues
  <2>9. Singles'
    <3>1. Singles' = \A r \in Request : /\ Once(queue', r) /\ Once(deferred', r)
                                        /\ ~(Has(queue', r) /\ Has(deferred', r))
      BY DEF Singles, Once, Has
    <3> QED BY <2>5, <2>6, <2>7, <3>1 DEF Singles
  <2>10. ASSUME Called, NEW j \in 1 .. Len(queue'), queue'[j].type = "cancel"
         PROVE  reader[queue'[j].id[1]] = "gone"
    <3>1. <<Task(p)>> \in Seq(Message) /\ Len(<<Task(p)>>) = 1 /\ <<Task(p)>>[1] = Task(p)
      BY <2>4
    <3>2. queue' = <<Task(p)>> \o queue BY <2>1, <2>3
    <3> DEFINE c == <<Task(p)>>
    <3>3. c \in Seq(Message) /\ Len(c) = 1 /\ c[1] = Task(p) /\ queue' = c \o queue BY <3>1, <3>2
    <3> HIDE DEF c
    <3>4. /\ Len(c \o queue) = 1 + Len(queue) /\ Len(queue) \in Nat
          /\ \A k \in 1 .. 1 + Len(queue) : (c \o queue)[k] = IF k <= 1 THEN c[k] ELSE queue[k - 1]
      <4>1. /\ Len(c \o queue) = Len(c) + Len(queue)
            /\ \A k \in 1 .. Len(c) + Len(queue) :
                 (c \o queue)[k] = IF k <= Len(c) THEN c[k] ELSE queue[k - Len(c)]
        BY <1>1, <3>3, ConcatProperties
      <4>2. Len(queue) \in Nat BY <1>1, LenProperties
      <4> QED BY <3>3, <4>1, <4>2
    <3>5. j # 1 BY <2>10, <3>3, <3>4, Names
    <3>6. j - 1 \in 1 .. Len(queue) /\ queue'[j] = queue[j - 1] BY <3>3, <3>4, <3>5
    <3> QED BY <2>10, <3>6 DEF Called
  <2>11. queue' \in Seq(Message) /\ deferred' \in Seq(Tasks) BY <2>3, <2>6, <2>7
  <2> QED BY <2>8, <2>9, <2>10, <2>11
<1> QED BY <1>2, <1>3

\* A result on its way to the reader that waits for it.
LEMMA SendEffect ==
  ASSUME TypeOK, Ordered, NEW i \in Id, i \in owing, NEW kind \in {"partial", "final", "error"},
         Send(kind, i), UNCHANGED got
  PROVE  /\ results' \in [Request -> Seq(Result)] /\ Ordered'
         /\ owing' \subseteq owing /\ owing \ {i} \subseteq owing'
         /\ kind # "final" => owing' = owing
         /\ erred \subseteq erred'
         /\ i \in waiting /\ kind = "error" => i[1] \in erred'
         /\ i \in waiting /\ kind = "final" => i \notin owing'
         /\ i \notin waiting => results' = results
         /\ \A r \in Request : r # i[1] => results'[r] = results[r]
<1>1. /\ results \in [Request -> Seq(Result)] /\ got \in [Request -> SUBSET Id]
      /\ i[1] \in Request /\ i \in Ids(i[1])
  BY Names DEF TypeOK
<1>2. CASE i \notin waiting
  <2>1. results' = results BY <1>2 DEF Send
  <2> QED BY <1>1, <1>2, <2>1 DEF Ordered, owing, erred
<1>3. CASE i \in waiting
  <2> DEFINE m == [kind |-> kind, id |-> i]  p == i[1]  q == results[p]  a == Append(q, m)  n == Len(q)
  <2>1. m \in Result /\ m.kind = kind /\ m.id = i BY DEF Result
  <2>2. results' = [results EXCEPT ![p] = a] BY <1>3 DEF Send
  <2>3. /\ q \in Seq(Result) /\ a \in Seq(Result) /\ Len(a) = n + 1 /\ n \in Nat
        /\ \A j \in 1 .. n : a[j] = q[j]
        /\ a[n + 1] = m
    BY <1>1, <2>1, AppendProperties, LenProperties
  <2>4. results'[p] = a /\ \A r \in Request : r # p => results'[r] = results[r] BY <1>1, <2>2
  <2>5. results' \in [Request -> Seq(Result)] BY <1>1, <2>2, <2>3
  <2>6. i \notin got[p] /\ \A j \in 1 .. n : q[j] # Final(i) BY DEF owing
  <2>7. \A j \in 1 .. n : q[j] \in Result BY <2>3, ElementOfSeq
  <2>8. m = Final(i) <=> kind = "final" BY <2>1 DEF Final
  <2>9. \A k : k # i => m # Final(k) BY <2>1 DEF Final
  <2>a. \A j \in 1 .. n : q[j].kind = "final" => q[j].id # i BY <2>6, <2>7 DEF Final, Result
  <2>b. p \in Request /\ i \in Ids(p) BY <1>1
  <2> HIDE DEF m, a
  <2>10. \A j \in 1 .. n + 1 : j = n + 1 \/ j \in 1 .. n BY <2>3
  <2>11. Ordered'
    <3> SUFFICES ASSUME NEW r \in Request
                 PROVE /\ got[r] \subseteq Ids(r)
                       /\ \A j \in 1 .. Len(results'[r]) : results'[r][j].id \in Ids(r) /\ results'[r][j].id \notin got[r]
                       /\ \A j, k \in 1 .. Len(results'[r]) :
                            j < k /\ results'[r][j].kind = "final" => results'[r][k].id # results'[r][j].id
      BY DEF Ordered
    <3>1. CASE r # p BY <2>4, <3>1 DEF Ordered
    <3>2. CASE r = p
      <4>1. got[p] \subseteq Ids(p) BY <2>b DEF Ordered
      <4>2. \A j \in 1 .. n : q[j].id \in Ids(p) /\ q[j].id \notin got[p] BY <2>b DEF Ordered
      <4>3. \A j, k \in 1 .. n : j < k /\ q[j].kind = "final" => q[k].id # q[j].id
        BY <2>b DEF Ordered
      <4>4. \A j \in 1 .. n + 1 : a[j].id \in Ids(p) /\ a[j].id \notin got[p]
        BY <2>1, <2>3, <2>6, <2>b, <2>10, <4>2
      <4>5. ASSUME NEW j \in 1 .. n + 1, NEW k \in 1 .. n + 1, j < k, a[j].kind = "final"
            PROVE  a[k].id # a[j].id
        <5>1. j \in 1 .. n BY <2>3, <4>5
        <5>2. CASE k = n + 1 BY <2>1, <2>3, <2>a, <4>5, <5>1, <5>2
        <5>3. CASE k \in 1 .. n BY <2>3, <4>3, <4>5, <5>1, <5>3
        <5> QED BY <2>10, <5>2, <5>3
      <4> HIDE DEF q, p
      <4> QED BY <2>3, <2>4, <3>2, <4>1, <4>4, <4>5
    <3> QED BY <3>1, <3>2
  <2>12. \A k \in Id : k \in owing' <=>
           k \notin got[k[1]] /\ \A j \in 1 .. Len(results'[k[1]]) : results'[k[1]][j] # Final(k)
    BY DEF owing, Final
  <2>13. \A k \in Id : k \in owing <=>
           k \notin got[k[1]] /\ \A j \in 1 .. Len(results[k[1]]) : results[k[1]][j] # Final(k)
    BY DEF owing
  <2>14. \A k \in Id : k[1] # p => (k \in owing' <=> k \in owing)
    BY <2>4, <2>12, <2>13, Names
  <2>15. \A k \in Id : k[1] = p =>
           (k \in owing' <=> k \in owing /\ ~(k = i /\ kind = "final"))
    <3> TAKE k \in Id
    <3> HAVE k[1] = p
    <3>1. k \in owing' <=> k \notin got[p] /\ \A j \in 1 .. n + 1 : a[j] # Final(k)
      BY <2>3, <2>4, <2>12
    <3>2. k \in owing <=> k \notin got[p] /\ \A j \in 1 .. n : q[j] # Final(k) BY <2>13
    <3>3. (\A j \in 1 .. n + 1 : a[j] # Final(k)) <=> (\A j \in 1 .. n : q[j] # Final(k)) /\ m # Final(k)
      BY <2>3, <2>10
    <3>4. m # Final(k) <=> ~(k = i /\ kind = "final") BY <2>8, <2>9
    <3> QED BY <3>1, <3>2, <3>3, <3>4
  <2>16. owing' \subseteq Id /\ owing \subseteq Id BY DEF owing
  <2>17. /\ owing' \subseteq owing /\ owing \ {i} \subseteq owing'
         /\ kind # "final" => owing' = owing
         /\ kind = "final" => i \notin owing'
    BY <2>14, <2>15, <2>16
  <2>18. \A r \in Request : r \in erred' <=> \E j \in 1 .. Len(results'[r]) : results'[r][j].kind = "error"
    BY DEF erred
  <2>19. erred \subseteq erred'
    <3> SUFFICES ASSUME NEW r \in erred PROVE r \in erred' OBVIOUS
    <3>1. r \in Request BY DEF erred
    <3>2. PICK j \in 1 .. Len(results[r]) : results[r][j].kind = "error" BY DEF erred
    <3>3. CASE r # p BY <2>4, <2>18, <3>1, <3>2, <3>3
    <3>4. CASE r = p
      <4>1. j \in 1 .. n + 1 /\ a[j].kind = "error" BY <2>3, <3>2, <3>4
      <4> QED BY <2>3, <2>4, <2>18, <3>1, <3>4, <4>1
    <3> QED BY <3>3, <3>4
  <2>20. kind = "error" => p \in erred'
    <3>1. n + 1 \in 1 .. Len(a) BY <2>3
    <3> QED BY <2>1, <2>3, <2>4, <2>18, <2>b, <3>1
  <2> QED BY <1>3, <2>4, <2>5, <2>11, <2>17, <2>19, <2>20
<1> QED BY <1>2, <1>3

\* The rest of the invariant where no task begins: slots may end, tasks may
\* vanish from queues and hand, a slot may send.
LEMMA MainKeeps ==
  ASSUME ServerInv, UNCHANGED <<waiting, reader, got>>, Singles',
         inQueues' \cup handed' \subseteq inQueues \cup handed, inQueues' \cap handed' = {},
         \A s \in Slot : slotId'[s] \in {slotId[s], <<>>},
         \/ results' = results
         \/ \E s \in Slot, kind \in {"partial", "final", "error"} :
              /\ slotId[s] # <<>> /\ Send(kind, slotId[s])
              /\ kind = "final" => slotId'[s] = <<>>
  PROVE  /\ Placed' /\ Apart' /\ Owed' /\ Ordered' /\ NoResidue'
         /\ results' \in [Request -> Seq(Result)]
         /\ owing' \subseteq owing /\ erred \subseteq erred'
<1>0. /\ TypeOK /\ Placed /\ Apart /\ Owed /\ Ordered /\ NoResidue
      /\ results \in [Request -> Seq(Result)]
      /\ \A s \in Slot : slotId[s] \in Id \cup {<<>>}
  BY DEF ServerInv, TypeOK, slotId
<1>1. early' = early BY DEF early
<1>2. untouched' = {r \in Request : /\ results'[r] = <<>> /\ got[r] = {}
                                    /\ \A s \in Slot : slotId'[s] \notin Ids(r)}
  BY DEF untouched
<1>3. \A r \in Request : <<>> \notin Ids(r) BY Names
<1>4. ASSUME results' = results
      PROVE  /\ Ordered' /\ NoResidue' /\ owing' = owing /\ erred' = erred
             /\ \A s \in Slot : slotId'[s] # <<>> => slotId'[s] \in owing'
             /\ untouched \subseteq untouched'
  <2>1. owing' = owing /\ erred' = erred BY <1>4 DEF owing, erred
  <2>2. Ordered' /\ NoResidue' BY <1>0, <1>4 DEF Ordered, NoResidue
  <2>3. untouched \subseteq untouched' BY <1>2, <1>3, <1>4 DEF untouched
  <2>4. \A s \in Slot : slotId'[s] # <<>> => slotId'[s] \in owing' BY <1>0, <2>1 DEF Owed
  <2> QED BY <2>1, <2>2, <2>3, <2>4
<1>5. ASSUME NEW s \in Slot, NEW kind \in {"partial", "final", "error"},
             slotId[s] # <<>>, Send(kind, slotId[s]), kind = "final" => slotId'[s] = <<>>
      PROVE  /\ Ordered' /\ NoResidue' /\ owing' \subseteq owing /\ erred \subseteq erred'
             /\ \A u \in Slot : slotId'[u] # <<>> => slotId'[u] \in owing'
             /\ untouched \subseteq untouched'
             /\ results' \in [Request -> Seq(Result)]
  <2> DEFINE i == slotId[s]
  <2>1. i \in Id /\ i \in owing /\ Send(kind, i) BY <1>0, <1>5 DEF Owed
  <2>2. /\ results' \in [Request -> Seq(Result)] /\ Ordered'
        /\ owing' \subseteq owing /\ owing \ {i} \subseteq owing'
        /\ kind # "final" => owing' = owing
        /\ erred \subseteq erred'
        /\ i \notin waiting => results' = results
        /\ \A r \in Request : r # i[1] => results'[r] = results[r]
    <3> HIDE DEF i
    <3> QED BY <1>0, <2>1, SendEffect
  <2> HIDE DEF i
  <2>3. NoResidue'
    <3> SUFFICES ASSUME NEW r \in Request, reader[r] \in {"cancel", "gone"}
                 PROVE  results'[r] = <<>> /\ waiting \cap Ids(r) = {}
      BY DEF NoResidue
    <3>1. results[r] = <<>> /\ waiting \cap Ids(r) = {} BY <1>0 DEF NoResidue
    <3>2. i[1] = r => i \in Ids(r) BY <2>1, Names
    <3> QED BY <2>2, <3>1, <3>2
  <2>4. untouched \subseteq untouched'
    <3> SUFFICES ASSUME NEW r \in untouched PROVE r \in untouched' OBVIOUS
    <3>1. /\ r \in Request /\ results[r] = <<>> /\ got[r] = {}
          /\ \A u \in Slot : slotId[u] \notin Ids(r)
      BY DEF untouched
    <3>2. r # i[1] BY <2>1, <3>1, Names DEF i
    <3> QED BY <1>2, <1>3, <2>2, <3>1, <3>2
  <2>5. \A u \in Slot : slotId'[u] # <<>> => slotId'[u] \in owing'
    <3> SUFFICES ASSUME NEW u \in Slot, slotId'[u] # <<>> PROVE slotId'[u] \in owing' OBVIOUS
    <3>1. slotId'[u] = slotId[u] /\ slotId[u] \in owing BY <1>0 DEF Owed
    <3>2. kind = "final" => slotId[u] # i
      <4>1. kind = "final" => u # s BY <1>5
      <4> QED BY <1>0, <1>5, <3>1, <4>1 DEF Apart, i
    <3> QED BY <2>2, <3>1, <3>2
  <2> QED BY <2>2, <2>3, <2>4, <2>5
<1>6. /\ Ordered' /\ NoResidue' /\ owing' \subseteq owing /\ erred \subseteq erred'
      /\ \A u \in Slot : slotId'[u] # <<>> => slotId'[u] \in owing'
      /\ untouched \subseteq untouched'
      /\ results' \in [Request -> Seq(Result)]
  BY <1>0, <1>4, <1>5
<1>7. Placed' BY <1>0, <1>1, <1>6 DEF Placed
<1>8. Apart' BY <1>0 DEF Apart
<1>9. Owed' BY <1>6 DEF Owed
<1> QED BY <1>6, <1>7, <1>8, <1>9

\* Readers keep what they wait for, where each slot that ends sends its last.
LEMMA KeptKeeps ==
  ASSUME Kept, UNCHANGED <<waiting, reader>>, owing' \subseteq owing, erred \subseteq erred',
         inQueues \cup handed \subseteq inQueues' \cup handed',
         \A s \in Slot : slotId[s] # <<>> /\ slotId'[s] # slotId[s] /\ slotId[s][1] \in waits =>
           slotId[s][1] \in erred' \/ slotId[s] \notin owing'
  PROVE  Kept'
<1>1. waits' = waits /\ waits \subseteq Request BY DEF waits
<1> SUFFICES ASSUME NEW r \in waits
             PROVE  /\ Ids(r) \subseteq waiting
                    /\ \/ r \in inQueues' \cup handed' \cup erred'
                       \/ \A i \in Ids(r) : i \notin owing' \/ \E s \in Slot : slotId'[s] = i
  BY <1>1 DEF Kept
<1>2. Ids(r) \subseteq waiting BY DEF Kept
<1>3. CASE r \in inQueues \cup handed \cup erred BY <1>2, <1>3
<1>4. CASE r \notin erred' /\ \A i \in Ids(r) : i \notin owing \/ \E s \in Slot : slotId[s] = i
  <2> SUFFICES ASSUME NEW i \in Ids(r), i \in owing' PROVE \E s \in Slot : slotId'[s] = i
    BY <1>2
  <2>1. PICK s \in Slot : slotId[s] = i BY <1>4
  <2>2. i # <<>> /\ i[1] = r BY <1>1, Names
  <2>3. slotId'[s] = slotId[s] BY <1>4, <2>1, <2>2
  <2> QED BY <2>1, <2>3
<1> QED BY <1>2, <1>3, <1>4 DEF Kept

\* A slot that ends with a result, outside of the handling of a task.
LEMMA EndsKeeps ==
  ASSUME ServerInv, NEW s \in Slot, slot[s].st # "idle", NEW kind \in {"final", "error"},
         Ends(s, kind), UNCHANGED readVars, main # "handle", main' # "handle"
  PROVE  /\ Placed' /\ Apart' /\ Owed' /\ Ordered' /\ NoResidue' /\ Kept' /\ Called'
         /\ queue' \in Seq(Message) /\ deferred' \in Seq(Tasks)
         /\ results' \in [Request -> Seq(Result)]
         /\ slot' = [slot EXCEPT ![s] = Free]
<1>0. TypeOK /\ Shape /\ Placed /\ Singles /\ Owed /\ Called /\ Kept
  BY DEF ServerInv, Placed
<1>1. slot' = [slot EXCEPT ![s] = Free] /\ PopDeferred(s) /\ Send(kind, slot[s].id)
  BY DEF Ends, Release
<1>2. /\ queue' \in Seq(Message) /\ deferred' \in Seq(Tasks)
      /\ inQueues' = inQueues /\ Singles'
      /\ \A j \in 1 .. Len(queue') : queue'[j].type = "cancel" => reader[queue'[j].id[1]] = "gone"
  BY <1>0, <1>1, PopEffect
<1>3. handed = {} /\ handed' = {} BY DEF handed, InHand
<1>4. UNCHANGED <<waiting, reader, got>> BY DEF readVars
<1>5. slotId[s] = slot[s].id /\ slotId[s] \in Id /\ slotId[s] # <<>> BY <1>0, Names DEF slotId, Shape
<1>6. slotId'[s] = <<>> /\ \A u \in Slot : u # s => slotId'[u] = slotId[u]
  BY <1>0, <1>1 DEF slotId, TypeOK, Free
<1>7. /\ Placed' /\ Apart' /\ Owed' /\ Ordered' /\ NoResidue'
      /\ results' \in [Request -> Seq(Result)]
      /\ owing' \subseteq owing /\ erred \subseteq erred'
  BY <1>1, <1>2, <1>3, <1>4, <1>5, <1>6, MainKeeps
<1>8. Kept'
  <2> DEFINE i == slotId[s]
  <2>1. i \in Id /\ i \in owing /\ Send(kind, i) BY <1>0, <1>1, <1>5 DEF Owed
  <2>2. i \in waiting => (kind = "error" => i[1] \in erred') /\ (kind = "final" => i \notin owing')
    <3> HIDE DEF i
    <3> QED BY <1>0, <1>4, <2>1, SendEffect DEF ServerInv
  <2>3. i[1] \in waits => i \in waiting BY <1>0, <2>1, Names DEF Kept
  <2>4. i[1] \in waits => i[1] \in erred' \/ i \notin owing' BY <2>2, <2>3
  <2>5. \A u \in Slot : slotId[u] # <<>> /\ slotId'[u] # slotId[u] /\ slotId[u][1] \in waits =>
           slotId[u][1] \in erred' \/ slotId[u] \notin owing'
    BY <1>6, <2>4
  <2> QED BY <1>0, <1>2, <1>3, <1>4, <1>7, <2>5, KeptKeeps
<1>9. Called' BY <1>2, <1>4 DEF Called
<1> QED BY <1>1, <1>2, <1>7, <1>8, <1>9

\* A step that moves no task, no slot and no result.
LEMMA Still ==
  ASSUME ServerInv, UNCHANGED <<queue, deferred, slotId, results>>, UNCHANGED readVars,
         main # "handle", main' # "handle"
  PROVE  Placed' /\ Apart' /\ Owed' /\ Ordered' /\ NoResidue' /\ Called' /\ Kept'
<1>1. handed = {} /\ handed' = {} BY DEF handed, InHand
<1>2. inQueues' = inQueues /\ Singles' BY DEF inQueues, Has, Once, Singles, ServerInv, Placed
<1>3. UNCHANGED <<waiting, reader, got>> BY DEF readVars
<1>4. /\ Placed' /\ Apart' /\ Owed' /\ Ordered' /\ NoResidue'
      /\ owing' \subseteq owing /\ erred \subseteq erred'
  BY <1>1, <1>2, <1>3, MainKeeps
<1>5. Kept' BY <1>1, <1>2, <1>3, <1>4, KeptKeeps DEF ServerInv
<1>6. Called' BY <1>3 DEF Called, ServerInv
<1> QED BY <1>4, <1>5, <1>6

\* The least slot of a loop is one of its slots.
LEMMA CurIn ==
  ASSUME todo \subseteq Slot, todo # {}
  PROVE  Cur \in todo
<1>1. todo \subseteq Nat BY InferenceAssumption DEF Slot
<1>2. \E s \in todo : \A t \in todo : s <= t BY <1>1, HasLeast
<1> QED BY <1>2 DEF Cur, Least
----------------------------------------------------------------------------
(* The steps of the main thread                                            *)

\* A step that changes none of what the invariant is about.
LEMMA Unmoved ==
  ASSUME ServerInv, TypeOK', UNCHANGED <<queue, deferred, main, todo, hand, slot, empties>>,
         UNCHANGED <<waiting, results, reader, got>>
  PROVE  ServerInv'
<1> USE DEF ServerInv
<1>1. UNCHANGED <<slotId, inQueues, handed, early, waits, erred, owing, Singles>>
  BY DEF slotId, inQueues, handed, early, waits, erred, owing, Singles, Has, Once, InHand, Final
<1>2. untouched' = untouched BY <1>1 DEF untouched
<1>3. Shape' BY DEF Shape
<1>4. Placed' /\ Apart' /\ Owed' BY <1>1, <1>2 DEF Placed, Apart, Owed
<1>5. Ordered' /\ NoResidue' /\ Called' BY DEF Ordered, NoResidue, Called
<1>6. Undoing' BY <1>1 DEF Undoing
<1>7. Kept' BY <1>1 DEF Kept
<1> QED BY <1>3, <1>4, <1>5, <1>6, <1>7

\* The main thread goes on where it neither takes nor gives a message.
LEMMA QuietStep ==
  ASSUME ServerInv,
         \/ StartLoop \/ Exit \/ Wake \/ FallAsleep \/ LeaveSleep
         \/ StartBatch \/ DecodeNothing \/ DecodeFails \/ Decode
  PROVE  ServerInv'
<1>0. TypeOK /\ Shape BY DEF ServerInv
<1>1. CASE StartLoop \/ Exit \/ Wake \/ FallAsleep \/ LeaveSleep
  <2>1. /\ UNCHANGED <<queue, deferred, slot, empties, results, todo, hand>> /\ UNCHANGED readVars
        /\ main \in {"boot", "drain", "idle", "asleep"} /\ main' \in {"drain", "exited", "asleep"}
        /\ running' \in BOOLEAN /\ sleeping' \in BOOLEAN /\ reqStop' \in BOOLEAN
    <3>1. running \in BOOLEAN /\ sleeping \in BOOLEAN /\ reqStop \in BOOLEAN BY <1>0 DEF TypeOK
    <3> QED BY <1>1, <3>1 DEF StartLoop, Exit, Wake, FallAsleep, LeaveSleep, Goto, loopVars
  <2>2. TypeOK'
    <3>1. {running', sleeping', reqStop'} \subseteq BOOLEAN BY <2>1
    <3>2. main' \in MainPc BY <2>1 DEF MainPc
    <3>3. UNCHANGED <<waiting, reader, got, escaped>> BY <2>1 DEF readVars
    <3>4. queue' = queue /\ deferred' = deferred /\ slot' = slot /\ empties' = empties
          /\ results' = results /\ todo' = todo /\ hand' = hand
      BY <2>1
    <3> QED BY <1>0, <3>1, <3>2, <3>3, <3>4 DEF TypeOK
  <2>3. Shape' BY <1>0, <2>1 DEF Shape
  <2>4. slotId' = slotId BY <2>1 DEF slotId
  <2>5. Placed' /\ Apart' /\ Owed' /\ Ordered' /\ NoResidue' /\ Called' /\ Kept' BY <2>1, <2>4, Still
  <2> QED BY <2>1, <2>2, <2>3, <2>5 DEF ServerInv, Undoing
<1>2. CASE DecodeNothing
  <2>1. /\ UNCHANGED <<queue, deferred, slot, results, todo, hand>> /\ UNCHANGED <<loopVars, readVars>>
        /\ main = "decode" /\ empties' = empties + 1
        /\ main' = IF empties + 1 > 3 THEN "aborted" ELSE "idle"
    BY <1>2 DEF DecodeNothing, KillSwitch, Goto
  <2>2. empties \in 0 .. 3 BY <1>0, <2>1 DEF TypeOK, Shape
  <2>3. TypeOK' BY <1>0, <2>1, <2>2 DEF TypeOK, MainPc, readVars, loopVars
  <2>4. Shape' BY <1>0, <2>1, <2>2 DEF Shape
  <2>5. slotId' = slotId BY <2>1 DEF slotId
  <2>6. Placed' /\ Apart' /\ Owed' /\ Ordered' /\ NoResidue' /\ Called' /\ Kept' BY <2>1, <2>5, Still
  <2> QED BY <2>1, <2>3, <2>4, <2>6 DEF ServerInv, Undoing
<1>3. CASE DecodeFails
  <2>1. /\ UNCHANGED <<queue, deferred, slot, results, hand>> /\ UNCHANGED <<loopVars, readVars>>
        /\ main = "decode" /\ empties' = 0 /\ main' = "fail" /\ todo' = {s \in Slot : slot[s].st # "idle"}
        /\ \E s \in Slot : slot[s].st \notin {"idle", "wait"}
    BY <1>3 DEF DecodeFails, Busy, BatchEmpty
  <2>2. TypeOK' BY <1>0, <2>1 DEF TypeOK, MainPc, readVars, loopVars
  <2>3. todo' # {} BY <2>1
  <2>4. Shape' BY <1>0, <2>1, <2>3 DEF Shape
  <2>5. slotId' = slotId BY <2>1 DEF slotId
  <2>6. Placed' /\ Apart' /\ Owed' /\ Ordered' /\ NoResidue' /\ Called' /\ Kept' BY <2>1, <2>5, Still
  <2> QED BY <2>1, <2>2, <2>4, <2>6 DEF ServerInv, Undoing
<1>4. CASE Decode
  <2>1. /\ UNCHANGED <<queue, deferred, results, hand>> /\ UNCHANGED <<loopVars, readVars>>
        /\ main = "decode" /\ empties' = 0
        /\ slot' = [s \in Slot |-> IF Shares(s) THEN [slot[s] EXCEPT !.st = "done"] ELSE slot[s]]
        /\ todo' \subseteq Slot /\ \A s \in todo' : slot'[s].st = "done" \/ slot[s].st = "gen"
        /\ main' = IF todo' = {} THEN "idle" ELSE "sample"
    BY <1>4 DEF Decode, Loop, Joined, Generating
  <2>2. \A s \in Slot : slot[s] \in [st : {"idle", "wait", "started", "done", "gen"},
                                     id : Id \cup {<<>>}, n : 0 .. MaxSteps]
    BY <1>0 DEF TypeOK
  <2>3. \A s \in Slot : /\ slot'[s].id = slot[s].id
                        /\ slot'[s] \in [st : {"idle", "wait", "started", "done", "gen"},
                                         id : Id \cup {<<>>}, n : 0 .. MaxSteps]
                        /\ slot'[s].st # slot[s].st => slot[s].st = "wait" /\ slot'[s].st = "done"
    <3> TAKE s \in Slot
    <3>1. CASE Shares(s)
      <4>1. slot'[s] = [slot[s] EXCEPT !.st = "done"] /\ slot[s].st = "wait" BY <2>1, <3>1 DEF Shares
      <4> QED BY <2>2, <4>1
    <3>2. CASE ~Shares(s) BY <2>1, <2>2, <3>2
    <3> QED BY <3>1, <3>2
  <2>4. slot' \in [Slot -> [st : {"idle", "wait", "started", "done", "gen"},
                            id : Id \cup {<<>>}, n : 0 .. MaxSteps]]
    BY <2>1, <2>3
  <2>5. TypeOK'
    <3>1. main' \in MainPc /\ todo' \subseteq Slot /\ empties' \in 0 .. 4 BY <2>1 DEF MainPc
    <3>2. /\ UNCHANGED <<queue, deferred, results, hand, running, sleeping, reqStop>>
          /\ UNCHANGED <<waiting, reader, got, escaped>>
      BY <2>1 DEF readVars, loopVars
    <3> QED BY <1>0, <2>4, <3>1, <3>2 DEF TypeOK
  <2>6. Shape'
    <3>1. \A s \in todo' : slot'[s].st # "idle" BY <2>1, <2>3
    <3>2. \A s \in Slot : /\ slot'[s].st = "idle" => slot'[s].id = <<>>
                          /\ slot'[s].st # "idle" => slot'[s].id \in Id
      BY <1>0, <2>3 DEF Shape
    <3>3. main' # "sample" \/ todo' # {} BY <2>1
    <3>4. empties' <= 3 /\ main' \in {"idle", "sample"} BY <2>1
    <3> QED BY <3>1, <3>2, <3>3, <3>4 DEF Shape
  <2>7. slotId' = slotId BY <2>3 DEF slotId
  <2>8. Placed' /\ Apart' /\ Owed' /\ Ordered' /\ NoResidue' /\ Called' /\ Kept' BY <2>1, <2>7, Still
  <2> QED BY <2>1, <2>5, <2>6, <2>8 DEF ServerInv, Undoing
<1>5. CASE StartBatch
  <2>1. /\ UNCHANGED <<queue, deferred, slot, empties, results, hand>> /\ UNCHANGED <<loopVars, readVars>>
        /\ main = "shift" /\ todo' \subseteq {s \in Slot : slot[s].st = "started"}
        /\ main' = IF todo' = {} THEN "decode" ELSE "prompt"
    BY <1>5 DEF StartBatch, Loop
  <2>2. TypeOK' BY <1>0, <2>1 DEF TypeOK, MainPc, readVars, loopVars
  <2>3. Shape' BY <1>0, <2>1 DEF Shape
  <2>4. slotId' = slotId BY <2>1 DEF slotId
  <2>5. Placed' /\ Apart' /\ Owed' /\ Ordered' /\ NoResidue' /\ Called' /\ Kept' BY <2>1, <2>4, Still
  <2> QED BY <2>1, <2>2, <2>3, <2>5 DEF ServerInv, Undoing
<1> QED BY <1>1, <1>2, <1>3, <1>4, <1>5

\* The slots are looked at.
LEMMA DrainedStep ==
  ASSUME ServerInv, Drained
  PROVE  ServerInv'
<1>0. TypeOK /\ Shape /\ Placed /\ Singles BY DEF ServerInv, Placed
<1>1. /\ UNCHANGED <<deferred, slot, empties, results, hand>> /\ UNCHANGED <<loopVars, readVars>>
      /\ main = "drain" /\ queue = <<>>
      /\ queue' = queue \/ queue' = <<NextResponse>>
      /\ \/ todo' = todo /\ main' = "idle"
         \/ todo' = {s \in Slot : Shared(s)} /\ main' = "shift"
  BY DEF Drained, Goto
<1>2. queue' \in Seq(Message) /\ (\A r \in Request : ~Has(queue, r) /\ ~Has(queue', r) /\ Once(queue', r))
  <2>1. CASE queue' = queue BY <1>0, <1>1, <2>1 DEF TypeOK, Has, Once
  <2>2. CASE queue' = <<NextResponse>>
    <3>1. Len(queue') = 1 /\ queue'[1] = NextResponse /\ queue' \in Seq(Message) BY <2>2, Names
    <3> QED BY <1>1, <3>1, Names DEF Has, Once
  <2> QED BY <1>1, <2>1, <2>2
<1>3. inQueues' = inQueues /\ Singles'
  <2>1. inQueues' = {r \in Request : Has(queue', r) \/ Has(deferred', r)} BY DEF inQueues, Has
  <2>2. inQueues' = inQueues BY <1>1, <1>2, <2>1 DEF inQueues
  <2>3. Singles' = \A r \in Request : /\ Once(queue', r) /\ Once(deferred, r)
                                      /\ ~(Has(queue', r) /\ Has(deferred, r))
    BY <1>1 DEF Singles, Once, Has
  <2> QED BY <1>0, <1>2, <2>2, <2>3 DEF Singles
<1>4. handed = {} /\ handed' = {} BY <1>1 DEF handed, InHand
<1>5. UNCHANGED <<waiting, reader, got, slotId>> BY <1>1 DEF readVars, slotId
<1>6. /\ Placed' /\ Apart' /\ Owed' /\ Ordered' /\ NoResidue'
      /\ owing' \subseteq owing /\ erred \subseteq erred'
  BY <1>1, <1>3, <1>4, <1>5, MainKeeps
<1>7. Kept' BY <1>3, <1>4, <1>5, <1>6, KeptKeeps DEF ServerInv
<1>8. TypeOK' BY <1>0, <1>1, <1>2 DEF TypeOK, MainPc, loopVars, readVars
<1>9. Shape'
  <2>1. \A s \in Slot : Shared(s) => slot[s].st # "idle" BY DEF Shared
  <2> QED BY <1>0, <1>1, <2>1 DEF Shape
<1>10. Called'
  <2>1. \A j \in 1 .. Len(queue') : queue'[j].type # "cancel"
    <3>1. CASE queue' = queue BY <1>1, <3>1
    <3>2. CASE queue' = <<NextResponse>>
      <4>1. Len(queue') = 1 /\ queue'[1] = NextResponse BY <3>2
      <4> QED BY <4>1, Names
    <3> QED BY <1>1, <3>1, <3>2
  <2> QED BY <1>1, <2>1 DEF Called
<1> QED BY <1>1, <1>6, <1>7, <1>8, <1>9, <1>10 DEF ServerInv, Undoing

\* A message is taken.
LEMMA TakeStep ==
  ASSUME ServerInv, Take
  PROVE  ServerInv'
<1>0. TypeOK /\ Shape /\ Placed /\ Singles /\ Called BY DEF ServerInv, Placed
<1>1. /\ UNCHANGED <<deferred, todo, slot, empties, results>> /\ UNCHANGED <<loopVars, readVars>>
      /\ main = "drain" /\ queue # <<>> /\ queue' = Tail(queue) /\ queue \in Seq(Message)
      /\ IF Head(queue) = NextResponse THEN UNCHANGED <<main, hand>>
                                       ELSE main' = "handle" /\ hand' = Head(queue)
  BY <1>0 DEF Take, TypeOK
<1>2. /\ queue' \in Seq(Message) /\ Head(queue) \in Message
      /\ Head(queue) = queue[1] /\ 1 \in 1 .. Len(queue)
      /\ \A j \in 1 .. Len(queue') : j + 1 \in 1 .. Len(queue) /\ queue'[j] = queue[j + 1]
  BY <1>1, HeadTailProperties, LenProperties, EmptySeq
<1>3. \A r \in Request : /\ Has(queue, r) <=> Has(queue', r) \/ Head(queue) = Task(r)
                         /\ ~(Has(queue', r) /\ Head(queue) = Task(r))
                         /\ Once(queue', r)
  BY <1>0, <1>1, QTail DEF Singles
<1>4. \A r \in Request : r \in inQueues' <=> Has(queue', r) \/ Has(deferred, r)
  BY <1>1 DEF inQueues, Has
<1>5. \A r \in Request : r \in handed' <=> Head(queue) = Task(r)
  <2> TAKE r \in Request
  <2>1. CASE Head(queue) = NextResponse BY <1>1, <2>1, Names DEF handed, InHand
  <2>2. CASE Head(queue) # NextResponse BY <1>1, <2>2 DEF handed, InHand
  <2> QED BY <2>1, <2>2
<1>6. handed = {} BY <1>1 DEF handed, InHand
<1>7. inQueues' \cup handed' = inQueues /\ inQueues' \cap handed' = {}
  <2>1. inQueues' \cup handed' \subseteq Request /\ inQueues \subseteq Request
    BY DEF inQueues, handed
  <2>2. \A r \in Request : Has(queue, r) => ~Has(deferred, r) BY <1>0 DEF Singles
  <2>3. \A r \in Request : r \in inQueues <=> Has(queue, r) \/ Has(deferred, r) BY DEF inQueues
  <2> QED BY <1>3, <1>4, <1>5, <2>1, <2>2, <2>3
<1>8. Singles'
  <2>1. Singles' = \A r \in Request : /\ Once(queue', r) /\ Once(deferred, r)
                                      /\ ~(Has(queue', r) /\ Has(deferred, r))
    BY <1>1 DEF Singles, Once, Has
  <2> QED BY <1>0, <1>3, <2>1 DEF Singles
<1>9. UNCHANGED <<waiting, reader, got, slotId>> BY <1>1 DEF readVars, slotId
<1>10. /\ Placed' /\ Apart' /\ Owed' /\ Ordered' /\ NoResidue'
       /\ owing' \subseteq owing /\ erred \subseteq erred'
  BY <1>1, <1>6, <1>7, <1>8, <1>9, MainKeeps
<1>11. Kept' BY <1>6, <1>7, <1>9, <1>10, KeptKeeps DEF ServerInv
<1>12. TypeOK' BY <1>0, <1>1, <1>2 DEF TypeOK, MainPc, loopVars, readVars
<1>13. Shape' BY <1>0, <1>1 DEF Shape
<1>14. Called' BY <1>0, <1>1, <1>2, <1>9 DEF Called
<1> QED BY <1>1, <1>10, <1>11, <1>12, <1>13, <1>14 DEF ServerInv, Undoing

\* A task is deferred.
LEMMA DeferStep ==
  ASSUME ServerInv, Defer
  PROVE  ServerInv'
<1>0. TypeOK /\ Shape /\ Placed /\ Singles /\ Called BY DEF ServerInv, Placed
<1>1. /\ UNCHANGED <<queue, todo, slot, empties, results>> /\ UNCHANGED <<loopVars, readVars>>
      /\ main = "handle" /\ hand.type = "task" /\ deferred' = Append(deferred, hand)
      /\ main' = "drain" /\ hand' = NextResponse /\ deferred \in Seq(Tasks) /\ hand \in Message
  BY <1>0 DEF Defer, Handled, TypeOK, Tasks
<1>2. PICK p \in Request : hand = Task(p) BY <1>1, Names
<1>3. Task(p) \in Tasks BY DEF Tasks
<1>4. handed = {p} /\ handed' = {}
  <2>1. \A r \in Request : Task(p) = Task(r) <=> p = r BY Names
  <2>2. handed = {p} BY <1>1, <1>2, <2>1 DEF handed, InHand
  <2> QED BY <1>1, <2>2 DEF handed, InHand
<1>5. ~Has(queue, p) /\ ~Has(deferred, p) BY <1>0, <1>4 DEF Placed, inQueues
<1>6. \A r \in Request : /\ deferred' \in Seq(Tasks)
                         /\ Has(deferred', r) <=> Has(deferred, r) \/ r = p
                         /\ Once(deferred', r)
  <2> TAKE r \in Request
  <2>1. Task(p) = Task(r) <=> p = r BY Names
  <2>2. Once(deferred, r) BY <1>0 DEF Singles
  <2> QED BY <1>1, <1>2, <1>3, <1>5, <2>1, <2>2, QAppend
<1>7. inQueues' = inQueues \cup {p}
  <2>1. inQueues' = {r \in Request : Has(queue, r) \/ Has(deferred', r)} BY <1>1 DEF inQueues, Has
  <2> QED BY <1>6, <2>1 DEF inQueues
<1>8. Singles'
  <2>1. Singles' = \A r \in Request : /\ Once(queue, r) /\ Once(deferred', r)
                                      /\ ~(Has(queue, r) /\ Has(deferred', r))
    BY <1>1 DEF Singles, Once, Has
  <2> QED BY <1>0, <1>5, <1>6, <2>1 DEF Singles
<1>9. UNCHANGED <<waiting, reader, got, slotId>> BY <1>1 DEF readVars, slotId
<1>10. /\ Placed' /\ Apart' /\ Owed' /\ Ordered' /\ NoResidue'
       /\ owing' \subseteq owing /\ erred \subseteq erred'
  BY <1>1, <1>4, <1>7, <1>8, <1>9, MainKeeps
<1>11. Kept' BY <1>4, <1>7, <1>9, <1>10, KeptKeeps DEF ServerInv
<1>12. TypeOK' BY <1>0, <1>1, <1>6, Names DEF TypeOK, MainPc, loopVars, readVars, Tasks
<1>13. Shape' BY <1>0, <1>1 DEF Shape
<1>14. Called' BY <1>0, <1>1, <1>9 DEF Called
<1> QED BY <1>1, <1>10, <1>11, <1>12, <1>13, <1>14 DEF ServerInv, Undoing
\* A slot's request is cancelled.
LEMMA CancelStep ==
  ASSUME ServerInv, HandleCancel
  PROVE  ServerInv'
<1>0. TypeOK /\ Shape /\ Placed /\ Singles /\ Called /\ Kept BY DEF ServerInv, Placed
<1>1. /\ UNCHANGED <<todo, empties, results>> /\ UNCHANGED <<loopVars, readVars>>
      /\ main = "handle" /\ hand.type = "cancel" /\ main' = "drain" /\ hand' = NextResponse
      /\ \/ \E s \in Slot : slot[s].id = hand.id /\ Release(s)
         \/ UNCHANGED <<slot, queue, deferred>>
      /\ hand \in Message
  BY <1>0 DEF HandleCancel, Handled, TypeOK
<1>2. PICK i \in Id : hand = Cancel(i) /\ hand.id = i BY <1>1, Names
<1>3. i # <<>> /\ i[1] \notin waits BY <1>0, <1>1, <1>2, Names DEF Called, waits
<1>4. handed = {} /\ handed' = {} BY <1>1, <1>2, Names DEF handed, InHand
<1>5. UNCHANGED <<waiting, reader, got>> BY <1>1 DEF readVars
<1>6. CASE UNCHANGED <<slot, queue, deferred>>
  <2>1. inQueues' = inQueues /\ Singles' /\ slotId' = slotId
    BY <1>0, <1>6 DEF inQueues, Singles, Has, Once, slotId
  <2>2. /\ Placed' /\ Apart' /\ Owed' /\ Ordered' /\ NoResidue'
        /\ owing' \subseteq owing /\ erred \subseteq erred'
    BY <1>1, <1>4, <1>5, <2>1, MainKeeps
  <2>3. Kept' BY <1>0, <1>4, <1>5, <2>1, <2>2, KeptKeeps
  <2>4. TypeOK' BY <1>0, <1>1, <1>6, Names DEF TypeOK, MainPc, loopVars, readVars
  <2>5. Shape' BY <1>0, <1>1, <1>6 DEF Shape
  <2>6. Called' BY <1>0, <1>1, <1>5, <1>6 DEF Called
  <2> QED BY <1>1, <2>2, <2>3, <2>4, <2>5, <2>6 DEF ServerInv, Undoing
<1>7. CASE \E s \in Slot : slot[s].id = hand.id /\ Release(s)
  <2>1. PICK s \in Slot : slot[s].id = i /\ slot' = [slot EXCEPT ![s] = Free] /\ PopDeferred(s)
    BY <1>2, <1>7 DEF Release
  <2>2. /\ queue' \in Seq(Message) /\ deferred' \in Seq(Tasks)
        /\ inQueues' = inQueues /\ Singles'
        /\ \A j \in 1 .. Len(queue') : queue'[j].type = "cancel" => reader[queue'[j].id[1]] = "gone"
    BY <1>0, <2>1, PopEffect
  <2>3. slotId[s] = i /\ slotId'[s] = <<>> /\ \A u \in Slot : u # s => slotId'[u] = slotId[u]
    BY <1>0, <2>1 DEF slotId, TypeOK, Free
  <2>4. /\ Placed' /\ Apart' /\ Owed' /\ Ordered' /\ NoResidue'
        /\ owing' \subseteq owing /\ erred \subseteq erred'
    BY <1>1, <1>4, <1>5, <2>2, <2>3, MainKeeps
  <2>5. Kept' BY <1>0, <1>3, <1>4, <1>5, <2>2, <2>3, <2>4, KeptKeeps
  <2>6. slot' \in [Slot -> [st : {"idle", "wait", "started", "done", "gen"},
                            id : Id \cup {<<>>}, n : 0 .. MaxSteps]]
    BY <1>0, <2>1, InferenceAssumption DEF TypeOK, Free
  <2>7. TypeOK' BY <1>0, <1>1, <2>2, <2>6, Names DEF TypeOK, MainPc, loopVars, readVars, Tasks
  <2>8. Shape' BY <1>0, <1>1, <2>1 DEF Shape, Free, TypeOK
  <2>9. Called' BY <1>1, <1>5, <2>2 DEF Called
  <2> QED BY <1>1, <2>4, <2>5, <2>7, <2>8, <2>9 DEF ServerInv, Undoing
<1> QED BY <1>1, <1>6, <1>7

\* What a launch does to the slots.
LEMMA LaunchSlots ==
  ASSUME NEW p \in Request, NEW ks \in SUBSET (0 .. NChildren[p]),
         NEW f \in [ks -> Idles], Assign(p, ks, f), Launch(p, ks, f)
  PROVE  /\ \A k \in ks : f[k] \in Slot /\ slot[f[k]].st = "idle" /\ slot'[f[k]] = Held(<<p, k>>)
         /\ \A s \in Slot : \/ slot'[s] = slot[s]
                            \/ \E k \in ks : f[k] = s /\ slot'[s] = Held(<<p, k>>)
<1>1. \A k, l \in ks : f[k] = f[l] => k = l BY DEF Assign
<1>2. \A k \in ks : f[k] \in Slot /\ slot[f[k]].st = "idle" BY DEF Idles, Busy
<1>3. \A s \in Slot : slot'[s] = IF \E k \in ks : f[k] = s
                                 THEN Held(<<p, CHOOSE k \in ks : f[k] = s>>)
                                 ELSE slot[s]
  BY DEF Launch
<1>4. \A k \in ks : slot'[f[k]] = Held(<<p, k>>)
  <2> TAKE k \in ks
  <2>1. (CHOOSE l \in ks : f[l] = f[k]) = k BY <1>1
  <2> QED BY <1>2, <1>3, <2>1
<1>5. \A s \in Slot : \/ slot'[s] = slot[s]
                      \/ \E k \in ks : f[k] = s /\ slot'[s] = Held(<<p, k>>)
  BY <1>3, <1>4
<1> QED BY <1>2, <1>4, <1>5

\* What it does to the types and the names.
LEMMA LaunchEffect ==
  ASSUME TypeOK, Shape, NEW p \in Request, NEW ks \in SUBSET (0 .. NChildren[p]),
         NEW f \in [ks -> Idles], Assign(p, ks, f), Launch(p, ks, f)
  PROVE  /\ slot' \in [Slot -> [st : {"idle", "wait", "started", "done", "gen"},
                                id : Id \cup {<<>>}, n : 0 .. MaxSteps]]
         /\ \A s \in Slot : /\ slot'[s].st = "idle" => slot'[s].id = <<>>
                            /\ slot'[s].st # "idle" => slot'[s].id \in Id
         /\ \A s \in Slot : \/ slotId'[s] = slotId[s]
                            \/ slotId[s] = <<>> /\ \E k \in ks : f[k] = s /\ slotId'[s] = <<p, k>>
         /\ \A k \in ks : <<p, k>> \in Ids(p) /\ \E s \in Slot : slotId'[s] = <<p, k>>
<1>2. \A k \in ks : f[k] \in Slot /\ slot[f[k]].st = "idle" BY DEF Idles, Busy
<1>3. NChildren[p] \in Nat /\ NChildren[p] <= NSlots /\ MaxSteps \in Nat /\ NSlots \in Nat
  BY InferenceAssumption
<1>4. \A k \in ks : k \in 0 .. NSlots /\ k <= NChildren[p] BY <1>3
<1>5. \A k \in ks : <<p, k>> \in Id /\ <<p, k>> \in Ids(p) BY <1>4 DEF Id, Ids
<1>6. \A k \in ks : /\ Held(<<p, k>>) \in [st : {"idle", "wait", "started", "done", "gen"},
                                          id : Id \cup {<<>>}, n : 0 .. MaxSteps]
                    /\ Held(<<p, k>>).st # "idle" /\ Held(<<p, k>>).id = <<p, k>>
  BY <1>3, <1>5 DEF Held
<1>8. \A k \in ks : slot'[f[k]] = Held(<<p, k>>) BY LaunchSlots
<1>9. \A s \in Slot : \/ slot'[s] = slot[s]
                      \/ \E k \in ks : f[k] = s /\ slot'[s] = Held(<<p, k>>)
  BY LaunchSlots
<1>10. \A s \in Slot : slot[s] \in [st : {"idle", "wait", "started", "done", "gen"},
                                    id : Id \cup {<<>>}, n : 0 .. MaxSteps]
  BY DEF TypeOK
<1>11. slot' \in [Slot -> [st : {"idle", "wait", "started", "done", "gen"},
                           id : Id \cup {<<>>}, n : 0 .. MaxSteps]]
  <2>1. \A s \in Slot : slot'[s] \in [st : {"idle", "wait", "started", "done", "gen"},
                                      id : Id \cup {<<>>}, n : 0 .. MaxSteps]
    <3> TAKE s \in Slot
    <3>1. CASE slot'[s] = slot[s] BY <1>10, <3>1
    <3>2. CASE \E k \in ks : f[k] = s /\ slot'[s] = Held(<<p, k>>)
      <4>1. PICK k \in ks : slot'[s] = Held(<<p, k>>) BY <3>2
      <4> QED BY <1>6, <4>1
    <3> QED BY <1>9, <3>1, <3>2
  <2>2. slot' = [s \in Slot |-> slot'[s]] BY DEF Launch
  <2> QED BY <2>1, <2>2
<1>12. \A s \in Slot : /\ slot'[s].st = "idle" => slot'[s].id = <<>>
                       /\ slot'[s].st # "idle" => slot'[s].id \in Id
  <2> TAKE s \in Slot
  <2>1. CASE slot'[s] = slot[s] BY <2>1 DEF Shape
  <2>2. CASE \E k \in ks : f[k] = s /\ slot'[s] = Held(<<p, k>>)
    <3>1. PICK k \in ks : slot'[s] = Held(<<p, k>>) BY <2>2
    <3>2. slot'[s].st # "idle" /\ slot'[s].id = <<p, k>> /\ <<p, k>> \in Id BY <1>5, <1>6, <3>1
    <3> QED BY <3>2
  <2> QED BY <1>9, <2>1, <2>2
<1>13. \A s \in Slot : \/ slotId'[s] = slotId[s]
                       \/ slotId[s] = <<>> /\ \E k \in ks : f[k] = s /\ slotId'[s] = <<p, k>>
  <2> TAKE s \in Slot
  <2>1. slotId[s] = slot[s].id /\ slotId'[s] = slot'[s].id BY DEF slotId
  <2>2. CASE slot'[s] = slot[s] BY <2>1, <2>2
  <2>3. CASE \E k \in ks : f[k] = s /\ slot'[s] = Held(<<p, k>>)
    <3>1. slot[s].id = <<>> BY <1>2, <2>3 DEF Shape
    <3> QED BY <1>6, <2>1, <2>3, <3>1
  <2> QED BY <1>9, <2>2, <2>3
<1>14. \A k \in ks : slotId'[f[k]] = <<p, k>> BY <1>2, <1>6, <1>8 DEF slotId
<1> QED BY <1>2, <1>5, <1>11, <1>12, <1>13, <1>14

\* A task begins: all of its slots are taken, or an error is sent.
LEMMA Begins ==
  ASSUME ServerInv, main = "handle", main' # "handle", NEW p \in Request, hand = Task(p),
         UNCHANGED <<queue, deferred>>, UNCHANGED readVars,
         NEW ks \in SUBSET (0 .. NChildren[p]), NEW f \in [ks -> Idles],
         Assign(p, ks, f), Launch(p, ks, f),
         \/ ks = 0 .. NChildren[p] /\ results' = results
         \/ \E k \in 0 .. NChildren[p] : Send("error", <<p, k>>)
  PROVE  /\ Placed' /\ Apart' /\ Owed' /\ Ordered' /\ NoResidue' /\ Called' /\ Kept'
         /\ results' \in [Request -> Seq(Result)]
         /\ ks # 0 .. NChildren[p] /\ p \in waits => p \in erred'
<1>0. /\ TypeOK /\ Shape /\ Placed /\ Singles /\ Apart /\ Owed /\ Ordered /\ NoResidue /\ Called /\ Kept
      /\ results \in [Request -> Seq(Result)]
  BY DEF ServerInv, Placed, TypeOK
<1>1. UNCHANGED <<waiting, reader, got>> /\ early' = early /\ waits' = waits
  BY DEF readVars, early, waits
<1>2. handed = {p} /\ handed' = {}
  <2>1. \A r \in Request : Task(p) = Task(r) <=> p = r BY Names
  <2> QED BY <2>1 DEF handed, InHand
<1>3. inQueues' = inQueues /\ Singles' BY <1>0 DEF inQueues, Singles, Has, Once
<1>4. p \in untouched /\ p \notin inQueues /\ p \notin early BY <1>0, <1>2 DEF Placed
<1>5. /\ \A s \in Slot : \/ slotId'[s] = slotId[s]
                         \/ slotId[s] = <<>> /\ \E k \in ks : f[k] = s /\ slotId'[s] = <<p, k>>
      /\ \A k \in ks : <<p, k>> \in Ids(p) /\ \E s \in Slot : slotId'[s] = <<p, k>>
  BY <1>0, LaunchEffect
<1>6. Ids(p) \subseteq owing /\ \A i \in Ids(p) : i \in Id /\ i[1] = p /\ i # <<>>
  <2>1. \A i \in Ids(p) : i \in Id /\ i[1] = p /\ i # <<>> BY Names
  <2>2. got[p] = {} /\ results[p] = <<>> BY <1>4 DEF untouched
  <2> QED BY <2>1, <2>2 DEF owing
<1>7. \A i \in Ids(p) : \A s \in Slot : slotId[s] # i BY <1>4 DEF untouched
<1>8. \A k \in 0 .. NChildren[p] : <<p, k>> \in Ids(p)
  <2>1. NChildren[p] \in Nat /\ NChildren[p] <= NSlots /\ NSlots \in Nat BY InferenceAssumption
  <2>2. \A k \in 0 .. NChildren[p] : k \in 0 .. NSlots /\ k <= NChildren[p] BY <2>1
  <2> QED BY <2>2 DEF Id, Ids
<1>9. /\ results' \in [Request -> Seq(Result)] /\ Ordered' /\ NoResidue'
      /\ owing' = owing /\ erred \subseteq erred'
      /\ \A r \in Request : r # p => results'[r] = results[r]
      /\ ks = 0 .. NChildren[p] \/ (p \in waits => p \in erred')
  <2>1. CASE ks = 0 .. NChildren[p] /\ results' = results
    <3>1. owing' = owing /\ erred' = erred BY <1>1, <2>1 DEF owing, erred
    <3>2. Ordered' BY <1>0, <1>1, <2>1 DEF Ordered
    <3>3. NoResidue' BY <1>0, <1>1, <2>1 DEF NoResidue
    <3> QED BY <1>0, <2>1, <3>1, <3>2, <3>3
  <2>2. CASE \E k \in 0 .. NChildren[p] : Send("error", <<p, k>>)
    <3>1. PICK i \in Ids(p) : Send("error", i) BY <1>8, <2>2
    <3>2. i \in Id /\ i \in owing /\ i[1] = p BY <1>6
    <3>3. /\ results' \in [Request -> Seq(Result)] /\ Ordered' /\ owing' = owing
          /\ erred \subseteq erred'
          /\ i \in waiting => p \in erred'
          /\ i \notin waiting => results' = results
          /\ \A r \in Request : r # p => results'[r] = results[r]
      BY <1>0, <1>1, <3>1, <3>2, SendEffect
    <3>4. p \in waits => i \in waiting BY <1>0 DEF Kept
    <3>5. NoResidue'
      <4> SUFFICES ASSUME NEW r \in Request, reader[r] \in {"cancel", "gone"}
                   PROVE  results'[r] = <<>> /\ waiting \cap Ids(r) = {}
        BY <1>1 DEF NoResidue
      <4>1. results[r] = <<>> /\ waiting \cap Ids(r) = {} BY <1>0 DEF NoResidue
      <4> QED BY <3>3, <4>1
    <3> QED BY <3>3, <3>4, <3>5
  <2> QED BY <2>1, <2>2
<1>10. Placed'
  <2>1. untouched' = {r \in Request : /\ results'[r] = <<>> /\ got[r] = {}
                                      /\ \A s \in Slot : slotId'[s] \notin Ids(r)}
    BY <1>1 DEF untouched
  <2>2. untouched \ {p} \subseteq untouched'
    <3> SUFFICES ASSUME NEW r \in untouched, r # p PROVE r \in untouched' OBVIOUS
    <3>1. /\ r \in Request /\ results[r] = <<>> /\ got[r] = {}
          /\ \A s \in Slot : slotId[s] \notin Ids(r)
      BY DEF untouched
    <3>2. \A k \in ks : <<p, k>> \notin Ids(r) BY <1>5, <3>1, Names
    <3>3. \A s \in Slot : slotId'[s] \notin Ids(r)
      <4> TAKE s \in Slot
      <4>1. CASE slotId'[s] = slotId[s] BY <3>1, <4>1
      <4>2. CASE slotId'[s] # slotId[s]
        <5>1. PICK k \in ks : slotId'[s] = <<p, k>> BY <1>5, <4>2
        <5> QED BY <3>2, <5>1
      <4> QED BY <4>1, <4>2
    <3> QED BY <1>9, <2>1, <3>1, <3>3
  <2> QED BY <1>0, <1>1, <1>2, <1>3, <1>4, <2>2 DEF Placed
<1>11. Apart'
  <2> SUFFICES ASSUME NEW s \in Slot, NEW t \in Slot, slotId'[s] = slotId'[t], slotId'[s] # <<>>
               PROVE  s = t
    BY DEF Apart
  <2>1. CASE slotId'[s] = slotId[s] /\ slotId'[t] = slotId[t] BY <1>0, <2>1 DEF Apart
  <2>2. CASE slotId'[s] = slotId[s] /\ slotId'[t] # slotId[t]
    <3>0. \E k \in ks : f[k] = t /\ slotId'[t] = <<p, k>> BY <1>5, <2>2
    <3>1. PICK k \in ks : slotId'[t] = <<p, k>> BY <3>0
    <3>2. slotId[s] = <<p, k>> BY <2>2, <3>1
    <3>3. <<p, k>> \in Ids(p) BY <1>5
    <3> QED BY <1>7, <3>2, <3>3
  <2>3. CASE slotId'[s] # slotId[s] /\ slotId'[t] = slotId[t]
    <3>0. \E k \in ks : f[k] = s /\ slotId'[s] = <<p, k>> BY <1>5, <2>3
    <3>1. PICK k \in ks : slotId'[s] = <<p, k>> BY <3>0
    <3>2. slotId[t] = <<p, k>> BY <2>3, <3>1
    <3>3. <<p, k>> \in Ids(p) BY <1>5
    <3> QED BY <1>7, <3>2, <3>3
  <2>4. CASE slotId'[s] # slotId[s] /\ slotId'[t] # slotId[t]
    <3>1. PICK k \in ks : f[k] = s /\ slotId'[s] = <<p, k>> BY <1>5, <2>4
    <3>2. PICK l \in ks : f[l] = t /\ slotId'[t] = <<p, l>> BY <1>5, <2>4
    <3>3. <<p, k>> = <<p, l>> BY <3>1, <3>2
    <3>4. k = l BY <3>3
    <3> QED BY <3>1, <3>2, <3>4
  <2> QED BY <2>1, <2>2, <2>3, <2>4
<1>12. Owed'
  <2>1. \A s \in Slot : slotId'[s] # <<>> => slotId'[s] \in owing
    BY <1>0, <1>5, <1>6 DEF Owed
  <2> QED BY <1>9, <2>1 DEF Owed
<1>13. Called' BY <1>0, <1>1 DEF Called
<1>14. Kept'
  <2> SUFFICES ASSUME NEW r \in waits
               PROVE  /\ Ids(r) \subseteq waiting
                      /\ \/ r \in inQueues' \cup handed' \cup erred'
                         \/ \A i \in Ids(r) : i \notin owing' \/ \E s \in Slot : slotId'[s] = i
    BY <1>1 DEF Kept
  <2>1. Ids(r) \subseteq waiting BY <1>0 DEF Kept
  <2>2. CASE r = p
    <3>1. CASE ks = 0 .. NChildren[p]
      <4>2. \A i \in Ids(p) : \E k \in 0 .. NChildren[p] : i = <<p, k>>
        <5> SUFFICES ASSUME NEW i \in Ids(p) PROVE \E k \in 0 .. NChildren[p] : i = <<p, k>> OBVIOUS
        <5>1. i[2] \in 0 .. NSlots /\ i[2] <= NChildren[p] /\ i = <<p, i[2]>> /\ NChildren[p] \in Nat
          BY InferenceAssumption DEF Ids, Id
        <5> QED BY <5>1
      <4>3. \A i \in Ids(p) : \E s \in Slot : slotId'[s] = i
        <5> TAKE i \in Ids(p)
        <5>1. PICK k \in ks : i = <<p, k>> BY <3>1, <4>2
        <5> QED BY <1>5, <5>1
      <4> QED BY <2>1, <2>2, <4>3
    <3>2. CASE p \in erred' BY <2>1, <2>2, <3>2
    <3> QED BY <1>9, <2>2, <3>1, <3>2
  <2>3. CASE r # p
    <3>1. CASE r \in inQueues \cup handed \cup erred BY <1>2, <1>3, <1>9, <2>1, <2>3, <3>1
    <3>2. CASE \A i \in Ids(r) : i \notin owing \/ \E s \in Slot : slotId[s] = i
      <4>1. \A i \in Ids(r) : i # <<>>
        <5>1. r \in Request BY DEF waits
        <5> QED BY <5>1, Names
      <4>2. \A s \in Slot : slotId[s] # <<>> => slotId'[s] = slotId[s] BY <1>5
      <4> QED BY <1>9, <2>1, <3>2, <4>1, <4>2
    <3> QED BY <1>0, <3>1, <3>2 DEF Kept
  <2> QED BY <2>2, <2>3
<1> QED BY <1>9, <1>10, <1>11, <1>12, <1>13, <1>14
\* A task is launched, or fails to be.
LEMMA LaunchStep ==
  ASSUME ServerInv, LaunchTask \/ LaunchFails
  PROVE  ServerInv'
<1>0. TypeOK /\ Shape BY DEF ServerInv
<1>1. main = "handle" /\ hand.type = "task" /\ hand \in Message
  BY <1>0 DEF LaunchTask, LaunchFails, TypeOK
<1>2. PICK p \in Request : hand = Task(p) /\ hand.id[1] = p BY <1>1, Names
<1>3. NChildren[p] \in Nat BY InferenceAssumption
<1>4. CASE LaunchTask
  <2>1. /\ UNCHANGED <<queue, deferred, todo, results>> /\ UNCHANGED <<loopVars, readVars>>
        /\ empties' = 0 /\ main' = "drain" /\ hand' = NextResponse
    BY <1>4 DEF LaunchTask, Handled
  <2> DEFINE ks == 0 .. NChildren[p]
  <2>2. PICK f \in [ks -> Idles] : Assign(p, ks, f) /\ Launch(p, ks, f)
    <3>1. PICK f \in [ks -> Idles] : Assign(p, DOMAIN f, f) /\ Launch(p, DOMAIN f, f)
      BY <1>2, <1>4 DEF LaunchTask
    <3>2. DOMAIN f = ks OBVIOUS
    <3> QED BY <3>1, <3>2
  <2>3. ks \in SUBSET (0 .. NChildren[p]) /\ ks = 0 .. NChildren[p] OBVIOUS
  <2> HIDE DEF ks
  <2>4. /\ slot' \in [Slot -> [st : {"idle", "wait", "started", "done", "gen"},
                               id : Id \cup {<<>>}, n : 0 .. MaxSteps]]
        /\ \A s \in Slot : /\ slot'[s].st = "idle" => slot'[s].id = <<>>
                           /\ slot'[s].st # "idle" => slot'[s].id \in Id
    BY <1>0, <2>2, <2>3, LaunchEffect
  <2>5. Placed' /\ Apart' /\ Owed' /\ Ordered' /\ NoResidue' /\ Called' /\ Kept'
    <3>1. main' # "handle" /\ UNCHANGED <<queue, deferred>> /\ UNCHANGED readVars /\ results' = results
      BY <2>1
    <3> QED BY <1>1, <1>2, <2>2, <2>3, <3>1, Begins
  <2>6. TypeOK' BY <1>0, <2>1, <2>4, Names DEF TypeOK, MainPc, loopVars, readVars
  <2>7. Shape' BY <2>1, <2>4 DEF Shape
  <2> QED BY <2>1, <2>5, <2>6, <2>7 DEF ServerInv, Undoing
<1>5. CASE LaunchFails
  <2>1. /\ UNCHANGED <<queue, deferred>> /\ UNCHANGED <<loopVars, readVars>>
        /\ empties' \in {0, empties}
        /\ todo' = {s \in Slot : slot'[s].id \in Ids(p)}
        /\ IF todo' = {} THEN main' = "drain" /\ hand' = NextResponse
                         ELSE main' = "undo" /\ hand' = hand
    BY <1>2, <1>5 DEF LaunchFails
  <2>2. PICK k \in 0 .. NChildren[p] :
          LET ks == IF k = 0 THEN 1 .. NChildren[p] ELSE 1 .. k - 1 IN
          /\ \E f \in [ks -> Idles] : Assign(p, ks, f) /\ Launch(p, ks, f)
          /\ Send("error", <<p, k>>)
    BY <1>2, <1>5 DEF LaunchFails
  <2> DEFINE ks == IF k = 0 THEN 1 .. NChildren[p] ELSE 1 .. k - 1
  <2>3. ks \in SUBSET (0 .. NChildren[p]) /\ 0 \notin ks BY <1>3
  <2>4. Send("error", <<p, k>>) BY <2>2
  <2>5. PICK f \in [ks -> Idles] : Assign(p, ks, f) /\ Launch(p, ks, f) BY <2>2
  <2> HIDE DEF ks
  <2>6. /\ slot' \in [Slot -> [st : {"idle", "wait", "started", "done", "gen"},
                               id : Id \cup {<<>>}, n : 0 .. MaxSteps]]
        /\ \A s \in Slot : /\ slot'[s].st = "idle" => slot'[s].id = <<>>
                           /\ slot'[s].st # "idle" => slot'[s].id \in Id
    BY <1>0, <2>3, <2>5, LaunchEffect
  <2>7. main' \in {"drain", "undo"} BY <2>1
  <2>8. /\ Placed' /\ Apart' /\ Owed' /\ Ordered' /\ NoResidue' /\ Called' /\ Kept'
        /\ results' \in [Request -> Seq(Result)]
        /\ ks # 0 .. NChildren[p] /\ p \in waits => p \in erred'
    <3>1. main' # "handle" /\ UNCHANGED <<queue, deferred>> /\ UNCHANGED readVars BY <2>1, <2>7
    <3> QED BY <1>1, <1>2, <2>3, <2>4, <2>5, <3>1, Begins
  <2>9. hand' \in Message BY <1>1, <2>1, Names
  <2>10. TypeOK'
    <3>1. todo' \subseteq Slot /\ empties' \in 0 .. 4 BY <1>0, <2>1 DEF TypeOK
    <3>2. main' \in MainPc BY <2>7 DEF MainPc
    <3> QED BY <1>0, <2>1, <2>6, <2>8, <2>9, <3>1, <3>2 DEF TypeOK, loopVars, readVars
  <2>11. Shape'
    <3>1. \A s \in todo' : slot'[s].st # "idle"
      <4>1. <<>> \notin Ids(p) BY Names
      <4> QED BY <2>1, <2>6, <4>1
    <3>2. empties' <= 3 BY <1>0, <1>1, <2>1 DEF Shape
    <3> QED BY <2>1, <2>6, <2>7, <3>1, <3>2 DEF Shape
  <2>12. Undoing'
    <3> SUFFICES ASSUME main' = "undo"
                 PROVE  /\ hand' \in Tasks /\ \A s \in todo' : slotId'[s] \in Ids(hand'.id[1])
                        /\ hand'.id[1] \in waits' => hand'.id[1] \in erred'
      BY DEF Undoing, Tasks
    <3>1. hand' = hand /\ hand'.id[1] = p /\ hand' \in Tasks BY <1>2, <2>1 DEF Tasks
    <3>2. \A s \in todo' : slotId'[s] \in Ids(p) BY <2>1 DEF slotId
    <3>3. waits' = waits BY <2>1 DEF waits, readVars
    <3>4. 0 \in 0 .. NChildren[p] BY <1>3
    <3>5. p \in waits => p \in erred' BY <2>3, <2>8, <3>4
    <3> QED BY <3>1, <3>2, <3>3, <3>5
  <2> QED BY <2>8, <2>10, <2>11, <2>12 DEF ServerInv
<1> QED BY <1>4, <1>5

\* A loop leaves the slot c behind it, and goes on or ends.
Onward(c) ==
  /\ main \in {"undo", "shift", "prompt", "fail", "sample"} /\ c \in todo /\ todo' \subseteq todo \ {c}
  /\ \/ main' = main /\ (main # "shift" => todo' # {})
     \/ main = "undo" /\ main' = "drain"
     \/ main = "prompt" /\ main' = "decode"
     \/ main \in {"fail", "sample"} /\ main' = "idle"


\* A loop over slots goes on to its next slot.
LEMMA LoopOn ==
  ASSUME TypeOK, Shape, NEW c \in Slot, Onward(c), empties' = empties,
         \A u \in Slot : u # c => slot'[u] = slot[u],
         slot'[c].st = "idle" => slot'[c].id = <<>>,
         slot'[c].st # "idle" => slot'[c].id \in Id
  PROVE  slot[c].st # "idle" /\ Shape' /\ todo' \subseteq Slot
<1>1. todo \subseteq Slot BY DEF TypeOK
<1>2. c \in todo /\ todo' \subseteq todo \ {c} BY DEF Onward
<1>3. \A s \in todo' : slot'[s].st # "idle" BY <1>1, <1>2 DEF Shape, Onward
<1>4. \A s \in Slot : /\ slot'[s].st = "idle" => slot'[s].id = <<>>
                      /\ slot'[s].st # "idle" => slot'[s].id \in Id
  BY DEF Shape
<1>5. main' \in {"undo", "prompt", "fail", "sample"} => todo' # {} BY DEF Onward
<1>6. main' # "aborted" => empties' <= 3 BY DEF Onward, Shape
<1>7. Shape' BY <1>3, <1>4, <1>5, <1>6 DEF Shape
<1> QED BY <1>1, <1>2, <1>7 DEF Shape, Onward

\* A loop that goes over the slots in order goes on.
LEMMA OnwardCur ==
  ASSUME TypeOK, Shape, NEW next, Advance(next),
         \/ main = "undo" /\ next = "drain"
         \/ main = "prompt" /\ next = "decode"
         \/ main \in {"fail", "sample"} /\ next = "idle"
  PROVE  Cur \in Slot /\ Onward(Cur)
<1>1. todo \subseteq Slot /\ todo # {} BY DEF TypeOK, Shape
<1>2. Cur \in todo BY <1>1, CurIn
<1>3. todo' = todo \ {Cur} /\ main' = IF todo = {Cur} THEN next ELSE main BY DEF Advance
<1> HIDE DEF Cur
<1> QED BY <1>1, <1>2, <1>3 DEF Onward

\* A slot of a failed launch is released.
LEMMA UndoStep ==
  ASSUME ServerInv, Undo
  PROVE  ServerInv'
<1>0. TypeOK /\ Shape /\ Placed /\ Singles /\ Called /\ Kept /\ Undoing BY DEF ServerInv, Placed
<1>1. /\ UNCHANGED <<empties, results>> /\ UNCHANGED <<loopVars, readVars>>
      /\ main = "undo" /\ Release(Cur) /\ Advance("drain")
      /\ hand' = IF main' = "drain" THEN NextResponse ELSE hand
  BY DEF Undo
<1>2. Cur \in todo /\ todo \subseteq Slot BY <1>0, <1>1, CurIn DEF TypeOK, Shape
<1> DEFINE s == Cur
<1>3. s \in Slot /\ slot' = [slot EXCEPT ![s] = Free] /\ PopDeferred(s) BY <1>1, <1>2 DEF Release
<1>4. slot'[s] = Free /\ \A u \in Slot : u # s => slot'[u] = slot[u]
  <2> HIDE DEF s
  <2> QED BY <1>0, <1>3 DEF TypeOK
<1>5. /\ Shape' /\ todo' = todo \ {s} /\ todo' \subseteq Slot /\ main' \in {"drain", "undo"}
  <2>1. slot'[Cur].st = "idle" /\ slot'[Cur].id = <<>> BY <1>4 DEF Free
  <2>2. \A u \in Slot : u # Cur => slot'[u] = slot[u] BY <1>4
  <2>3. Cur \in Slot /\ Onward(Cur) BY <1>0, <1>1, OnwardCur
  <2>4. Shape' /\ todo' \subseteq Slot
    <3> HIDE DEF Cur
    <3> QED BY <1>0, <1>1, <2>1, <2>2, <2>3, LoopOn
  <2> QED BY <1>1, <2>4 DEF Advance
<1>6. s \in todo BY <1>2
<1> HIDE DEF s
<1>7. /\ queue' \in Seq(Message) /\ deferred' \in Seq(Tasks)
      /\ inQueues' = inQueues /\ Singles'
      /\ \A j \in 1 .. Len(queue') : queue'[j].type = "cancel" => reader[queue'[j].id[1]] = "gone"
  BY <1>0, <1>3, PopEffect
<1>8. slotId'[s] = <<>> /\ (\A u \in Slot : u # s => slotId'[u] = slotId[u])
  BY <1>3, <1>4 DEF slotId, Free
<1>9. UNCHANGED <<waiting, reader, got, waits>> BY <1>1 DEF readVars, waits
<1>10. handed = {} /\ handed' = {} BY <1>1, <1>5 DEF handed, InHand
<1>11. /\ Placed' /\ Apart' /\ Owed' /\ Ordered' /\ NoResidue'
       /\ owing' \subseteq owing /\ erred \subseteq erred'
  BY <1>1, <1>7, <1>8, <1>9, <1>10, MainKeeps
<1>12. PICK p \in Request : hand = Task(p) /\ hand.id[1] = p BY <1>0, <1>1, Names DEF Undoing, Tasks
<1>13. slotId[s] \in Ids(p) /\ slotId[s][1] = p /\ (p \in waits => p \in erred)
  BY <1>0, <1>1, <1>6, <1>12, Names DEF Undoing
<1>14. Kept' BY <1>0, <1>7, <1>8, <1>9, <1>10, <1>11, <1>13, KeptKeeps
<1>15. TypeOK'
  <2>1. slot' \in [Slot -> [st : {"idle", "wait", "started", "done", "gen"},
                            id : Id \cup {<<>>}, n : 0 .. MaxSteps]]
    BY <1>0, <1>3, InferenceAssumption DEF TypeOK, Free
  <2>2. hand' \in Message /\ main' \in MainPc BY <1>0, <1>1, <1>5, Names DEF TypeOK, MainPc
  <2> QED BY <1>0, <1>1, <1>5, <1>7, <2>1, <2>2 DEF TypeOK, loopVars, readVars, Tasks
<1>16. Called' BY <1>5, <1>7, <1>9 DEF Called
<1>17. Undoing'
  <2> SUFFICES ASSUME main' = "undo"
               PROVE  /\ hand' \in Tasks /\ \A u \in todo' : slotId'[u] \in Ids(hand'.id[1])
                      /\ hand'.id[1] \in waits' => hand'.id[1] \in erred'
    BY DEF Undoing, Tasks
  <2>1. hand' = hand BY <1>1
  <2>2. \A u \in todo' : slotId'[u] = slotId[u] /\ u \in todo BY <1>5, <1>8
  <2> QED BY <1>0, <1>1, <1>9, <1>11, <2>1, <2>2 DEF Undoing
<1> QED BY <1>5, <1>11, <1>14, <1>15, <1>16, <1>17 DEF ServerInv
\* A slot's request ends in a loop of update_slots.
LEMMA EndsStep ==
  ASSUME ServerInv, main # "undo", NEW s \in Slot, NEW kind \in {"final", "error"},
         Ends(s, kind), Onward(s), UNCHANGED hand, UNCHANGED <<loopVars, empties, readVars>>
  PROVE  ServerInv'
<1>0. TypeOK /\ Shape BY DEF ServerInv
<1>2. slot' = [slot EXCEPT ![s] = Free] /\ slot[s].st # "idle"
  BY <1>0 DEF Ends, Release, Shape, Onward
<1>3. slot'[s] = Free /\ \A u \in Slot : u # s => slot'[u] = slot[u] BY <1>0, <1>2 DEF TypeOK
<1>4. Shape' /\ todo' \subseteq Slot /\ main' \in {"shift", "prompt", "decode", "fail", "sample", "idle"}
  <2>1. slot'[s].st = "idle" /\ slot'[s].id = <<>> BY <1>3 DEF Free
  <2> QED BY <1>0, <1>3, <2>1, LoopOn DEF Onward
<1>5. main # "handle" BY DEF Onward
<1>6. /\ Placed' /\ Apart' /\ Owed' /\ Ordered' /\ NoResidue' /\ Kept' /\ Called'
      /\ queue' \in Seq(Message) /\ deferred' \in Seq(Tasks)
      /\ results' \in [Request -> Seq(Result)]
  <2>1. main # "handle" /\ main' # "handle" /\ UNCHANGED readVars BY <1>4, <1>5
  <2> QED BY <1>2, <2>1, EndsKeeps
<1>7. TypeOK'
  <2>1. slot' \in [Slot -> [st : {"idle", "wait", "started", "done", "gen"},
                            id : Id \cup {<<>>}, n : 0 .. MaxSteps]]
    BY <1>0, <1>2, InferenceAssumption DEF TypeOK, Free
  <2>2. main' \in MainPc BY <1>4 DEF MainPc
  <2> QED BY <1>0, <1>4, <1>6, <2>1, <2>2 DEF TypeOK, loopVars, readVars, Tasks
<1>8. main' # "undo" BY <1>4
<1> QED BY <1>4, <1>6, <1>7, <1>8 DEF ServerInv, Undoing

\* A slot works on in a loop of update_slots, and may send a partial result.
LEMMA WorksOn ==
  ASSUME ServerInv, main # "undo", NEW s \in Slot, Onward(s),
         UNCHANGED <<hand, queue, deferred>>, UNCHANGED <<loopVars, empties, readVars>>,
         NEW st \in {"started", "done", "gen"}, NEW n \in 0 .. MaxSteps,
         slot' = [slot EXCEPT ![s].st = st, ![s].n = n],
         results' = results \/ Send("partial", slot[s].id)
  PROVE  ServerInv'
<1>0. TypeOK /\ Shape /\ Placed /\ Singles /\ Called /\ Kept /\ Owed BY DEF ServerInv, Placed
<1>2. slot[s].st # "idle" BY <1>0 DEF Shape, Onward
<1>3. slot \in [Slot -> [st : {"idle", "wait", "started", "done", "gen"},
                         id : Id \cup {<<>>}, n : 0 .. MaxSteps]]
  BY <1>0 DEF TypeOK
<1>4. /\ slot'[s].st = st /\ slot'[s].id = slot[s].id
      /\ \A u \in Slot : u # s => slot'[u] = slot[u]
      /\ slot' \in [Slot -> [st : {"idle", "wait", "started", "done", "gen"},
                             id : Id \cup {<<>>}, n : 0 .. MaxSteps]]
  <2>1. slot[s] \in [st : {"idle", "wait", "started", "done", "gen"}, id : Id \cup {<<>>}, n : 0 .. MaxSteps]
    BY <1>2, <1>3
  <2> DEFINE v == [slot[s] EXCEPT !.st = st, !.n = n]
  <2>3. slot' = [slot EXCEPT ![s] = v] BY <1>2, <1>3
  <2>4. v.st = st /\ v.id = slot[s].id
        /\ v \in [st : {"idle", "wait", "started", "done", "gen"}, id : Id \cup {<<>>}, n : 0 .. MaxSteps]
    BY <2>1
  <2> HIDE DEF v
  <2>6. slot'[s] = v /\ \A u \in Slot : u # s => slot'[u] = slot[u] BY <1>2, <1>3, <2>3
  <2>7. slot' \in [Slot -> [st : {"idle", "wait", "started", "done", "gen"},
                            id : Id \cup {<<>>}, n : 0 .. MaxSteps]]
    BY <1>2, <1>3, <2>3, <2>4
  <2> QED BY <2>4, <2>6, <2>7
<1>5. slot[s].id \in Id BY <1>0, <1>2 DEF Shape
<1>6. /\ Shape' /\ todo' \subseteq Slot /\ main # "handle"
      /\ main' \in {"shift", "prompt", "decode", "fail", "sample", "idle"}
  <2>1. slot'[s].st # "idle" /\ slot'[s].id \in Id BY <1>4, <1>5
  <2> QED BY <1>0, <1>4, <2>1, LoopOn DEF Onward
<1>7. UNCHANGED <<waiting, reader, got>> BY DEF readVars
<1>8. slotId' = slotId /\ slotId[s] = slot[s].id /\ slotId[s] # <<>>
  <2>1. \A u \in Slot : slot'[u].id = slot[u].id BY <1>4
  <2>2. slotId' = slotId BY <2>1 DEF slotId
  <2>3. slotId[s] = slot[s].id BY <1>2 DEF slotId
  <2>4. slot[s].id # <<>> BY <1>5, Names
  <2> QED BY <2>2, <2>3, <2>4
<1>9. handed = {} /\ handed' = {} BY <1>6 DEF handed, InHand
<1>10. inQueues' = inQueues /\ Singles' BY <1>0 DEF inQueues, Singles, Has, Once
<1>11. \/ results' = results
       \/ \E u \in Slot, kind \in {"partial", "final", "error"} :
            /\ slotId[u] # <<>> /\ Send(kind, slotId[u])
            /\ kind = "final" => slotId'[u] = <<>>
  <2>1. CASE Send("partial", slot[s].id)
    <3>1. Send("partial", slotId[s]) BY <1>8, <2>1
    <3> QED BY <1>2, <1>8, <3>1
  <2> QED BY <1>2, <2>1
<1>12. /\ Placed' /\ Apart' /\ Owed' /\ Ordered' /\ NoResidue'
       /\ results' \in [Request -> Seq(Result)]
       /\ owing' \subseteq owing /\ erred \subseteq erred'
  BY <1>7, <1>8, <1>9, <1>10, <1>11, MainKeeps
<1>13. Kept' BY <1>0, <1>7, <1>8, <1>9, <1>10, <1>12, KeptKeeps
<1>14. TypeOK'
  <2>1. main' \in MainPc BY <1>6 DEF MainPc
  <2> QED BY <1>0, <1>4, <1>6, <1>12, <2>1 DEF TypeOK, loopVars, readVars
<1>15. Called' BY <1>0, <1>6, <1>7 DEF Called
<1>16. main' # "undo" BY <1>6
<1> QED BY <1>6, <1>12, <1>13, <1>14, <1>15, <1>16 DEF ServerInv, Undoing

\* The loops of update_slots.
LEMMA SlotStep ==
  ASSUME ServerInv, FillBatch \/ FailSlot \/ Sample \/ ShiftFails
  PROVE  ServerInv'
<1>0. TypeOK /\ Shape BY DEF ServerInv
<1>1. main # "undo" /\ UNCHANGED hand /\ UNCHANGED <<loopVars, empties, readVars>>
  BY DEF FillBatch, FailSlot, Sample, ShiftFails
<1> DEFINE s == slot[Cur]
<1>3. main # "shift" =>
        s \in [st : {"idle", "wait", "started", "done", "gen"}, id : Id \cup {<<>>}, n : 0 .. MaxSteps]
        /\ MaxSteps \in Nat /\ Cur \in Slot
        /\ slot \in [Slot -> [st : {"idle", "wait", "started", "done", "gen"},
                              id : Id \cup {<<>>}, n : 0 .. MaxSteps]]
  BY <1>0, CurIn, InferenceAssumption DEF TypeOK, Shape, FillBatch, FailSlot, Sample, ShiftFails
<1>4. CASE FailSlot
  <2>1. Ends(Cur, "error") /\ Advance("idle") /\ main = "fail" BY <1>4 DEF FailSlot
  <2>2. Cur \in Slot /\ Onward(Cur) BY <1>0, <2>1, OnwardCur
  <2> HIDE DEF Cur
  <2> QED BY <1>1, <2>1, <2>2, EndsStep
<1>5. CASE FillBatch
  <2>1. main = "prompt" /\ todo # {} /\ todo \subseteq Slot BY <1>0, <1>5 DEF FillBatch, TypeOK, Shape
  <2>2. Cur \in Slot /\ Cur \in todo /\ s.st = "started" BY <1>5, <2>1, CurIn DEF FillBatch
  <2>3. Onward(Cur)
    <3>1. Advance("decode") => Onward(Cur) BY <1>0, <2>1, OnwardCur
    <3>2. todo' = {} /\ main' = "decode" => Onward(Cur)
      <4> HIDE DEF Cur
      <4> QED BY <2>1, <2>2 DEF Onward
    <3> QED BY <1>5, <3>1, <3>2 DEF FillBatch
  <2> HIDE DEF Cur
  <2>4. CASE \E kind \in {"final", "error"} : Ends(Cur, kind) BY <1>1, <2>1, <2>2, <2>3, <2>4, EndsStep
  <2>5. CASE UNCHANGED <<slot, queue, deferred, results>>
    <3>1. slot' = [slot EXCEPT ![Cur].st = s.st, ![Cur].n = s.n] /\ s.n \in 0 .. MaxSteps
      BY <1>3, <2>1, <2>2, <2>5
    <3> QED BY <1>1, <2>1, <2>2, <2>3, <2>5, <3>1, WorksOn
  <2>6. CASE s.n < MaxSteps /\ slot' = [slot EXCEPT ![Cur].n = @ + 1]
             /\ UNCHANGED <<queue, deferred, results>>
    <3>1. slot' = [slot EXCEPT ![Cur].st = s.st, ![Cur].n = s.n + 1] /\ s.n + 1 \in 0 .. MaxSteps
      <4>1. s.n + 1 \in 0 .. MaxSteps BY <1>3, <2>1, <2>6
      <4>2. [s EXCEPT !.n = s.n + 1] = [s EXCEPT !.st = s.st, !.n = s.n + 1] BY <1>3, <2>1
      <4> QED BY <2>6, <4>1, <4>2
    <3> QED BY <1>1, <2>1, <2>2, <2>3, <2>6, <3>1, WorksOn
  <2>7. CASE slot' = [slot EXCEPT ![Cur].st = "done", ![Cur].n = 0]
             /\ UNCHANGED <<queue, deferred, results>>
    <3>1. 0 \in 0 .. MaxSteps BY <1>3, <2>1
    <3> QED BY <1>1, <2>1, <2>2, <2>3, <2>7, <3>1, WorksOn
  <2> HIDE DEF Ends, Advance, Admits
  <2> QED BY <1>5, <2>4, <2>5, <2>6, <2>7 DEF FillBatch
<1>6. CASE Sample
  <2>1. Advance("idle") /\ main = "sample" BY <1>6 DEF Sample
  <2>2. Cur \in Slot /\ Onward(Cur) BY <1>0, <2>1, OnwardCur
  <2> HIDE DEF Cur
  <2>3. CASE Ends(Cur, "final") BY <1>1, <2>1, <2>2, <2>3, EndsStep
  <2>4. CASE /\ slot' = [slot EXCEPT ![Cur].st = "gen",
                                     ![Cur].n = IF @ < MaxSteps THEN @ + 1 ELSE @]
             /\ results' = results \/ Send("partial", s.id)
             /\ UNCHANGED <<queue, deferred>>
    <3> DEFINE n == IF s.n < MaxSteps THEN s.n + 1 ELSE s.n
    <3>1. slot' = [slot EXCEPT ![Cur].st = "gen", ![Cur].n = n] /\ n \in 0 .. MaxSteps
      BY <1>3, <2>1, <2>4
    <3> HIDE DEF n
    <3> QED BY <1>1, <2>1, <2>2, <2>4, <3>1, WorksOn
  <2> QED BY <1>6, <2>3, <2>4 DEF Sample
<1>7. CASE ShiftFails
  <2>1. PICK u \in todo : Ends(u, "error") /\ todo' = {t \in todo : u < t} BY <1>7 DEF ShiftFails
  <2>2. u \in Slot /\ main = "shift" /\ main' = main BY <1>0, <1>7 DEF ShiftFails, TypeOK
  <2>4. u \in Nat BY <2>2, InferenceAssumption DEF Slot
  <2>3. Onward(u) BY <2>1, <2>2, <2>4 DEF Onward
  <2> QED BY <1>1, <2>1, <2>2, <2>3, EndsStep
<1> QED BY <1>4, <1>5, <1>6, <1>7

----------------------------------------------------------------------------
(* The steps of the readers                                                *)

\* A reader that posts its task waits for its ids already.
Awaited == \A r \in Request : reader[r] = "adding" => Ids(r) \subseteq waiting

\* A step of a reader leaves the main thread and the slots alone.
LEMMA ReaderFrame ==
  ASSUME ServerInv, NEW r \in Request, NEW pc \in ReaderPc, Step(r, pc), UNCHANGED mainVars,
         pc = "wait" => r \in waits \cup early,
         \A p \in Request : reader'[p] = "wait" /\ p \in erred => p \in erred'
  PROVE  /\ slotId' = slotId /\ handed' = handed /\ Shape' /\ Undoing'
         /\ reader' \in [Request -> ReaderPc] /\ reader'[r] = pc
         /\ \A q \in Request : q # r => reader'[q] = reader[q]
<1>0. TypeOK /\ Shape /\ Placed /\ Undoing BY DEF ServerInv
<1>1. UNCHANGED <<main, todo, hand, slot, empties>> BY DEF mainVars
<1>2. reader \in [Request -> ReaderPc] /\ reader' = [reader EXCEPT ![r] = pc] BY <1>0 DEF TypeOK, Step
<1>3. /\ reader' \in [Request -> ReaderPc] /\ reader'[r] = pc
      /\ \A q \in Request : q # r => reader'[q] = reader[q]
  BY <1>2
<1>4. slotId' = slotId /\ handed' = handed BY <1>1 DEF slotId, handed, InHand
<1>5. Shape' BY <1>0, <1>1 DEF Shape
<1>6. Undoing'
  <2> SUFFICES ASSUME main = "undo"
               PROVE  /\ hand \in Tasks /\ \A s \in todo : slotId[s] \in Ids(hand.id[1])
                      /\ hand.id[1] \in waits' => hand.id[1] \in erred'
    BY <1>1, <1>4 DEF Undoing, Tasks
  <2>1. PICK p \in Request : hand = Task(p) /\ hand.id[1] = p BY <1>0, Names DEF Undoing, Tasks
  <2>2. p \notin early
    <3>1. \E s \in Slot : slotId[s] \in Ids(p) BY <1>0, <2>1 DEF Shape, Undoing, TypeOK
    <3> QED BY <1>0, <3>1 DEF Placed, untouched
  <2>3. p \in waits' => p \in waits
    <3>1. p \in waits' <=> reader'[p] = "wait" BY DEF waits
    <3>2. p \in waits <=> reader[p] = "wait" BY DEF waits
    <3> QED BY <1>3, <2>2, <3>1, <3>2
  <2>4. p \in waits' => reader'[p] = "wait" BY DEF waits
  <2> QED BY <1>0, <2>1, <2>3, <2>4 DEF Undoing
<1> QED BY <1>3, <1>4, <1>5, <1>6

\* A request on its way to the queue.
LEMMA EarlyStep ==
  ASSUME ServerInv, NEW r \in Request, Arrive(r) \/ Awake(r) \/ AddWaiting(r)
  PROVE  ServerInv'
<1>0. TypeOK /\ Placed /\ Apart /\ Owed /\ Ordered /\ NoResidue /\ Called /\ Kept /\ Singles
  BY DEF ServerInv, Placed
<1>1. PICK pc \in {"waking", "ready", "adding"} : Step(r, pc)
  BY DEF Arrive, Awake, AddWaiting
<1>2. /\ UNCHANGED <<queue, deferred, results, got, escaped>> /\ UNCHANGED mainVars /\ sleeping' = sleeping
      /\ reader[r] \in {"new", "waking", "ready"}
      /\ waiting \subseteq waiting' /\ waiting' \subseteq waiting \cup Ids(r)
      /\ reqStop' \in BOOLEAN /\ running' = running
  <2>1. reqStop \in BOOLEAN /\ sleeping \in BOOLEAN BY <1>0 DEF TypeOK
  <2> QED BY <2>1 DEF Arrive, Awake, AddWaiting, mainVars
<1>3. erred' = erred /\ owing' = owing /\ inQueues' = inQueues /\ Singles'
  BY <1>0, <1>2 DEF erred, owing, inQueues, Singles, Has, Once
<1>4. /\ slotId' = slotId /\ handed' = handed /\ Shape' /\ Undoing'
      /\ reader' \in [Request -> ReaderPc] /\ reader'[r] = pc
      /\ \A q \in Request : q # r => reader'[q] = reader[q]
  <2>1. pc \in ReaderPc /\ pc # "wait" BY DEF ReaderPc
  <2> QED BY <1>1, <1>2, <1>3, <2>1, ReaderFrame
<1>5. early' = early /\ waits' = waits BY <1>2, <1>4 DEF early, waits, Early
<1>6. untouched' = untouched BY <1>2, <1>4 DEF untouched
<1>7. Placed' /\ Apart' /\ Owed' BY <1>0, <1>3, <1>4, <1>5, <1>6 DEF Placed, Apart, Owed
<1>8. Ordered' BY <1>0, <1>2 DEF Ordered
<1>9. NoResidue'
  <2> SUFFICES ASSUME NEW q \in Request, reader'[q] \in {"cancel", "gone"}
               PROVE  results'[q] = <<>> /\ waiting' \cap Ids(q) = {}
    BY DEF NoResidue
  <2>1. q # r /\ reader[q] \in {"cancel", "gone"} BY <1>4
  <2>2. results[q] = <<>> /\ waiting \cap Ids(q) = {} BY <1>0, <2>1 DEF NoResidue
  <2>3. Ids(r) \cap Ids(q) = {} BY <2>1, Names
  <2> QED BY <1>2, <2>2, <2>3
<1>10. Called'
  <2>1. \A q \in Request : reader[q] = "gone" => reader'[q] = "gone" BY <1>2, <1>4
  <2>2. UNCHANGED <<queue, main, hand>> BY <1>2 DEF mainVars
  <2>3. queue \in Seq(Message) /\ hand \in Message BY <1>0 DEF TypeOK
  <2>4. \A j \in 1 .. Len(queue) : queue[j].type = "cancel" => queue[j].id[1] \in Request
    BY <2>3, ElementOfSeq, Names
  <2>5. hand.type = "cancel" => hand.id[1] \in Request BY <2>3, Names
  <2> QED BY <1>0, <2>1, <2>2, <2>4, <2>5 DEF Called
<1>11. Kept' BY <1>0, <1>2, <1>3, <1>4, <1>5 DEF Kept
<1>12. TypeOK'
  <2>1. waiting' \subseteq Id BY <1>0, <1>2, Names DEF TypeOK
  <2> QED BY <1>0, <1>2, <1>4, <2>1 DEF TypeOK, mainVars
<1> QED BY <1>4, <1>7, <1>8, <1>9, <1>10, <1>11, <1>12 DEF ServerInv

\* Cancels stay those of gone readers.
LEMMA CalledKeeps ==
  ASSUME TypeOK, Called, UNCHANGED <<main, hand>>, queue' \in Seq(Message),
         \A q \in Request : reader[q] = "gone" => reader'[q] = "gone",
         \A j \in 1 .. Len(queue') : queue'[j].type = "cancel" =>
            \/ \E k \in 1 .. Len(queue) : queue'[j] = queue[k]
            \/ reader'[queue'[j].id[1]] = "gone"
  PROVE  Called'
<1>1. queue \in Seq(Message) /\ hand \in Message BY DEF TypeOK
<1>2. \A j \in 1 .. Len(queue) : queue[j].type = "cancel" => queue[j].id[1] \in Request
  BY <1>1, ElementOfSeq, Names
<1>3. hand.type = "cancel" => hand.id[1] \in Request BY <1>1, Names
<1> QED BY <1>2, <1>3 DEF Called

\* A task is posted.
LEMMA PostStep ==
  ASSUME ServerInv, Awaited, NEW r \in Request, Post(r)
  PROVE  ServerInv'
<1>0. TypeOK /\ Placed /\ Apart /\ Owed /\ Ordered /\ NoResidue /\ Called /\ Kept /\ Singles
  BY DEF ServerInv, Placed
<1>1. /\ UNCHANGED <<deferred, waiting, results, got, escaped>> /\ UNCHANGED mainVars
      /\ UNCHANGED <<sleeping, reqStop>>
      /\ reader[r] = "adding" /\ Step(r, "wait") /\ queue' = Append(queue, Task(r))
      /\ queue \in Seq(Message) /\ Task(r) \in Message
  BY <1>0, Names DEF Post, TypeOK
<1>2. erred' = erred /\ owing' = owing BY <1>1 DEF erred, owing
<1>3. r \in early /\ r \notin inQueues \cup handed /\ r \in untouched
  <2>1. r \in early BY <1>1 DEF early, Early
  <2> QED BY <1>0, <2>1 DEF Placed
<1>4. /\ slotId' = slotId /\ handed' = handed /\ Shape' /\ Undoing'
      /\ reader' \in [Request -> ReaderPc] /\ reader'[r] = "wait"
      /\ \A q \in Request : q # r => reader'[q] = reader[q]
  <2>1. "wait" \in ReaderPc BY DEF ReaderPc
  <2> QED BY <1>1, <1>2, <1>3, <2>1, ReaderFrame
<1>5. early' = early \ {r} /\ waits' = waits \cup {r} BY <1>4 DEF early, waits, Early
<1>6. untouched' = untouched BY <1>1, <1>4 DEF untouched
<1>7. \A q \in Request : /\ queue' \in Seq(Message)
                         /\ Has(queue', q) <=> Has(queue, q) \/ q = r
                         /\ Once(queue', q)
  <2> TAKE q \in Request
  <2>1. Task(r) = Task(q) <=> q = r BY Names
  <2>2. Once(queue, q) /\ ~Has(queue, r) BY <1>0, <1>3 DEF Singles, inQueues
  <2> QED BY <1>1, <2>1, <2>2, QAppend
<1>8. inQueues' = inQueues \cup {r}
  <2>1. inQueues' = {q \in Request : Has(queue', q) \/ Has(deferred, q)} BY <1>1 DEF inQueues, Has
  <2> QED BY <1>7, <2>1 DEF inQueues
<1>9. Singles'
  <2>1. Singles' = \A q \in Request : /\ Once(queue', q) /\ Once(deferred, q)
                                      /\ ~(Has(queue', q) /\ Has(deferred, q))
    BY <1>1 DEF Singles, Once, Has
  <2>2. ~Has(deferred, r) BY <1>3 DEF inQueues
  <2> QED BY <1>0, <1>7, <2>1, <2>2 DEF Singles
<1>10. Placed' BY <1>0, <1>3, <1>4, <1>5, <1>6, <1>8, <1>9 DEF Placed
<1>11. Apart' /\ Owed' BY <1>0, <1>2, <1>4 DEF Apart, Owed
<1>12. Ordered' BY <1>0, <1>1 DEF Ordered
<1>13. NoResidue' BY <1>0, <1>1, <1>4 DEF NoResidue
<1>14. Called'
  <2>1. \A q \in Request : reader[q] = "gone" => reader'[q] = "gone" BY <1>1, <1>4
  <2>2. ASSUME NEW j \in 1 .. Len(queue'), queue'[j].type = "cancel"
        PROVE  \E k \in 1 .. Len(queue) : queue'[j] = queue[k]
    <3>1. /\ Len(queue') = Len(queue) + 1 /\ Len(queue) \in Nat
          /\ \A k \in 1 .. Len(queue) : queue'[k] = queue[k]
          /\ queue'[Len(queue) + 1] = Task(r)
      BY <1>1, AppendProperties, LenProperties
    <3>2. j # Len(queue) + 1 BY <2>2, <3>1, Names
    <3> QED BY <3>1, <3>2
  <2>3. UNCHANGED <<main, hand>> BY <1>1 DEF mainVars
  <2>4. queue' \in Seq(Message) BY <1>7
  <2> QED BY <1>0, <2>1, <2>2, <2>3, <2>4, CalledKeeps
<1>15. Kept'
  <2>1. Ids(r) \subseteq waiting BY <1>1 DEF Awaited
  <2> QED BY <1>0, <1>1, <1>2, <1>4, <1>5, <1>8, <2>1 DEF Kept
<1>16. TypeOK' BY <1>0, <1>1, <1>4, <1>7 DEF TypeOK, mainVars
<1> QED BY <1>4, <1>10, <1>11, <1>12, <1>13, <1>14, <1>15, <1>16 DEF ServerInv
\* The client closes the connection.
LEMMA GiveUpStep ==
  ASSUME ServerInv, NEW r \in Request, GiveUp(r)
  PROVE  ServerInv'
<1>0. TypeOK /\ Placed /\ Apart /\ Owed /\ Ordered /\ NoResidue /\ Called /\ Kept /\ Singles
  BY DEF ServerInv, Placed
<1>1. /\ UNCHANGED <<queue, deferred, waiting, results, got, escaped>> /\ UNCHANGED mainVars
      /\ UNCHANGED <<sleeping, reqStop>>
      /\ reader[r] = "wait" /\ Step(r, "stop")
  BY DEF GiveUp
<1>2. erred' = erred /\ owing' = owing /\ inQueues' = inQueues /\ Singles'
  BY <1>0, <1>1 DEF erred, owing, inQueues, Singles, Has, Once
<1>3. /\ slotId' = slotId /\ handed' = handed /\ Shape' /\ Undoing'
      /\ reader' \in [Request -> ReaderPc] /\ reader'[r] = "stop"
      /\ \A q \in Request : q # r => reader'[q] = reader[q]
  <2>1. "stop" \in ReaderPc BY DEF ReaderPc
  <2> QED BY <1>1, <1>2, <2>1, ReaderFrame
<1>4. early' = early /\ waits' \subseteq waits BY <1>1, <1>3 DEF early, waits, Early
<1>5. untouched' = untouched BY <1>1, <1>3 DEF untouched
<1>6. Placed' /\ Apart' /\ Owed' BY <1>0, <1>2, <1>3, <1>4, <1>5 DEF Placed, Apart, Owed
<1>7. Ordered' BY <1>0, <1>1 DEF Ordered
<1>8. NoResidue' BY <1>0, <1>1, <1>3 DEF NoResidue
<1>9. Called'
  <2>1. \A q \in Request : reader[q] = "gone" => reader'[q] = "gone" BY <1>1, <1>3
  <2>2. UNCHANGED <<main, hand, queue>> /\ queue' \in Seq(Message) BY <1>0, <1>1 DEF mainVars, TypeOK
  <2> QED BY <1>0, <2>1, <2>2, CalledKeeps
<1>10. Kept' BY <1>0, <1>1, <1>2, <1>3, <1>4 DEF Kept
<1>11. TypeOK' BY <1>0, <1>1, <1>3 DEF TypeOK, mainVars
<1> QED BY <1>3, <1>6, <1>7, <1>8, <1>9, <1>10, <1>11 DEF ServerInv

\* A result is read.
LEMMA RecvStep ==
  ASSUME ServerInv, NEW r \in Request, Recv(r)
  PROVE  /\ ServerInv'
         /\ owing' = owing /\ waits' \subseteq waits
         /\ \A p \in waits' : p \in erred => p \in erred'
<1>0. TypeOK /\ Placed /\ Apart /\ Owed /\ Ordered /\ NoResidue /\ Called /\ Kept /\ Singles
  BY DEF ServerInv, Placed
<1> DEFINE q == results[r]  m == Head(q)  u == Tail(q)  n == Len(q)
           pc == IF m.kind = "error" \/ got'[r] = Ids(r) THEN "stop" ELSE "wait"
<1>1. /\ UNCHANGED <<queue, deferred, waiting, escaped>> /\ UNCHANGED mainVars
      /\ UNCHANGED <<sleeping, reqStop>>
      /\ reader[r] = "wait" /\ Step(r, pc) /\ q # <<>> /\ q \in Seq(Result)
      /\ got' = [got EXCEPT ![r] = IF m.kind = "final" THEN @ \cup {m.id} ELSE @]
      /\ results' = [results EXCEPT ![r] = u]
  BY <1>0 DEF Recv, TypeOK
<1>2. results \in [Request -> Seq(Result)] /\ got \in [Request -> SUBSET Id] BY <1>0 DEF TypeOK
<1>3. /\ n \in Nat \ {0} /\ Len(u) = n - 1 /\ u \in Seq(Result)
      /\ \A j \in 1 .. n - 1 : u[j] = q[j + 1] /\ j + 1 \in 1 .. n
      /\ m = q[1] /\ m \in Result
  BY <1>1, HeadTailProperties, LenProperties, EmptySeq
<1>4. \A j \in 1 .. n : j # 1 => j - 1 \in 1 .. n - 1 /\ u[j - 1] = q[j] BY <1>3
<1>5. pc \in {"stop", "wait"} /\ (m.kind = "error" => pc = "stop") OBVIOUS
<1>6. /\ got[r] \subseteq Ids(r)
      /\ \A j \in 1 .. n : q[j].id \in Ids(r) /\ q[j].id \notin got[r]
      /\ \A j, k \in 1 .. n : j < k /\ q[j].kind = "final" => q[k].id # q[j].id
  BY <1>0 DEF Ordered
<1>7. /\ results'[r] = u /\ \A p \in Request : p # r => results'[p] = results[p]
      /\ results' \in [Request -> Seq(Result)]
  <2> HIDE DEF u, q
  <2> QED BY <1>1, <1>2, <1>3
<1>8. /\ got'[r] = (IF m.kind = "final" THEN got[r] \cup {m.id} ELSE got[r])
      /\ \A p \in Request : p # r => got'[p] = got[p]
      /\ got' \in [Request -> SUBSET Id]
  <2>1. m.id \in Id BY <1>3 DEF Result
  <2> HIDE DEF m
  <2> QED BY <1>1, <1>2, <2>1
<1> HIDE DEF q, m, u, n, pc
<1>9. \A p \in Request : p \in erred => p \in erred' \/ (p = r /\ m.kind = "error")
  <2> SUFFICES ASSUME NEW p \in Request, p \in erred, ~(p = r /\ m.kind = "error") PROVE p \in erred'
    OBVIOUS
  <2>1. PICK j \in 1 .. Len(results[p]) : results[p][j].kind = "error" BY DEF erred
  <2>2. CASE p # r
    <3>1. results'[p] = results[p] BY <1>7, <2>2
    <3> QED BY <2>1, <3>1 DEF erred
  <2>3. CASE p = r
    <3>1. j \in 1 .. n /\ q[j].kind = "error" BY <2>1, <2>3 DEF q, n
    <3>2. j # 1 BY <1>3, <2>3, <3>1
    <3>3. j - 1 \in 1 .. Len(u) /\ u[j - 1].kind = "error" BY <1>3, <1>4, <3>1, <3>2
    <3> QED BY <1>7, <2>3, <3>3 DEF erred
  <2> QED BY <2>2, <2>3
<1>10. owing' = owing
  <2>1. \A i \in Id : i \in owing' <=>
          i \notin got'[i[1]] /\ \A j \in 1 .. Len(results'[i[1]]) : results'[i[1]][j] # Final(i)
    BY DEF owing, Final
  <2>2. \A i \in Id : i \in owing <=>
          i \notin got[i[1]] /\ \A j \in 1 .. Len(results[i[1]]) : results[i[1]][j] # Final(i)
    BY DEF owing
  <2>3. ASSUME NEW i \in Id, i[1] # r PROVE i \in owing' <=> i \in owing
    <3>1. i[1] \in Request BY Names
    <3>2. results'[i[1]] = results[i[1]] /\ got'[i[1]] = got[i[1]] BY <1>7, <1>8, <2>3, <3>1
    <3> QED BY <2>1, <2>2, <3>2
  <2>4. ASSUME NEW i \in Id, i[1] = r PROVE i \in owing' <=> i \in owing
    <3>1. i \in owing' <=> i \notin got'[r] /\ \A j \in 1 .. n - 1 : u[j] # Final(i)
      BY <1>3, <1>7, <2>1, <2>4
    <3>2. i \in owing <=> i \notin got[r] /\ \A j \in 1 .. n : q[j] # Final(i)
      BY <2>2, <2>4 DEF q, n
    <3>3. (\A j \in 1 .. n : q[j] # Final(i)) <=> (\A j \in 1 .. n - 1 : u[j] # Final(i)) /\ m # Final(i)
      <4>1. ASSUME \A j \in 1 .. n : q[j] # Final(i)
            PROVE  (\A j \in 1 .. n - 1 : u[j] # Final(i)) /\ m # Final(i)
        BY <1>3, <4>1
      <4>2. ASSUME \A j \in 1 .. n - 1 : u[j] # Final(i), m # Final(i), NEW j \in 1 .. n
            PROVE  q[j] # Final(i)
        BY <1>3, <1>4, <4>2
      <4> QED BY <4>1, <4>2
    <3>4. m = Final(i) <=> m.kind = "final" /\ m.id = i BY <1>3 DEF Final, Result
    <3>5. i \notin got'[r] <=> i \notin got[r] /\ ~(m.kind = "final" /\ m.id = i) BY <1>8
    <3> QED BY <3>1, <3>2, <3>3, <3>4, <3>5
  <2>5. owing \subseteq Id /\ owing' \subseteq Id BY DEF owing
  <2> QED BY <2>3, <2>4, <2>5
<1>11. inQueues' = inQueues /\ Singles'
  BY <1>0, <1>1 DEF inQueues, Singles, Has, Once
<1>12. /\ slotId' = slotId /\ handed' = handed /\ Shape' /\ Undoing'
       /\ reader' \in [Request -> ReaderPc] /\ reader'[r] = pc
       /\ \A p \in Request : p # r => reader'[p] = reader[p]
  <2>1. pc \in ReaderPc BY <1>5 DEF ReaderPc
  <2>2. r \in waits BY <1>1 DEF waits
  <2>3. reader'[r] = pc BY <1>0, <1>1 DEF Step, TypeOK
  <2>4. \A p \in Request : reader'[p] = "wait" /\ p \in erred => p \in erred' BY <1>5, <1>9, <2>3
  <2> QED BY <1>1, <2>1, <2>2, <2>4, ReaderFrame
<1>13. early' = early /\ waits' \subseteq waits /\ (r \in waits' => m.kind # "error")
  BY <1>1, <1>5, <1>12 DEF early, waits, Early
<1>14. untouched \subseteq untouched'
  <2>1. r \notin untouched BY <1>1 DEF untouched, q
  <2>2. untouched' = {p \in Request : /\ results'[p] = <<>> /\ got'[p] = {}
                                      /\ \A s \in Slot : slotId'[s] \notin Ids(p)}
    BY DEF untouched
  <2> QED BY <1>7, <1>8, <1>12, <2>1, <2>2 DEF untouched
<1>15. Placed' /\ Apart' /\ Owed'
  BY <1>0, <1>10, <1>11, <1>12, <1>13, <1>14 DEF Placed, Apart, Owed
<1>16. Ordered'
  <2> SUFFICES ASSUME NEW p \in Request
               PROVE /\ got'[p] \subseteq Ids(p)
                     /\ \A j \in 1 .. Len(results'[p]) : results'[p][j].id \in Ids(p) /\ results'[p][j].id \notin got'[p]
                     /\ \A j, k \in 1 .. Len(results'[p]) :
                          j < k /\ results'[p][j].kind = "final" => results'[p][k].id # results'[p][j].id
    BY DEF Ordered
  <2>1. CASE p # r
    <3>1. results'[p] = results[p] /\ got'[p] = got[p] BY <1>7, <1>8, <2>1
    <3> QED BY <1>0, <3>1 DEF Ordered
  <2>2. CASE p = r
    <3>1. 1 \in 1 .. n BY <1>3
    <3>2. m.id \in Ids(r) /\ m.id \notin got[r] BY <1>3, <1>6, <3>1
    <3>3. got'[r] \subseteq Ids(r) BY <1>6, <1>8, <3>2
    <3>4. ASSUME NEW j \in 1 .. n - 1 PROVE u[j].id \in Ids(r) /\ u[j].id \notin got'[r]
      <4>1. j + 1 \in 1 .. n /\ 1 < j + 1 /\ u[j] = q[j + 1] BY <1>3
      <4>2. u[j].id \in Ids(r) /\ u[j].id \notin got[r] BY <1>6, <4>1
      <4>3. m.kind = "final" => u[j].id # m.id BY <1>3, <1>6, <3>1, <4>1
      <4> QED BY <1>8, <4>2, <4>3
    <3>5. ASSUME NEW j \in 1 .. n - 1, NEW k \in 1 .. n - 1, j < k, u[j].kind = "final"
          PROVE  u[k].id # u[j].id
      <4>1. j + 1 \in 1 .. n /\ k + 1 \in 1 .. n /\ j + 1 < k + 1 BY <1>3, <3>5
      <4>2. q[j + 1] = u[j] /\ q[k + 1] = u[k] BY <1>3
      <4> QED BY <1>6, <3>5, <4>1, <4>2
    <3> QED BY <1>3, <1>7, <2>2, <3>3, <3>4, <3>5
  <2> QED BY <2>1, <2>2
<1>17. NoResidue'
  <2>1. reader'[r] \notin {"cancel", "gone"} BY <1>5, <1>12
  <2> QED BY <1>0, <1>1, <1>7, <1>12, <2>1 DEF NoResidue
<1>18. Called'
  <2>1. \A p \in Request : reader[p] = "gone" => reader'[p] = "gone" BY <1>1, <1>12
  <2>2. UNCHANGED <<main, hand, queue>> /\ queue' \in Seq(Message) BY <1>0, <1>1 DEF mainVars, TypeOK
  <2> QED BY <1>0, <2>1, <2>2, CalledKeeps
<1>19. Kept'
  <2> SUFFICES ASSUME NEW p \in waits'
               PROVE  /\ Ids(p) \subseteq waiting'
                      /\ \/ p \in inQueues' \cup handed' \cup erred'
                         \/ \A i \in Ids(p) : i \notin owing' \/ \E s \in Slot : slotId'[s] = i
    BY DEF Kept
  <2>1. p \in waits /\ p \in Request BY <1>13 DEF waits
  <2>2. p \in erred => p \in erred' BY <1>9, <1>13, <2>1
  <2> QED BY <1>0, <1>1, <1>10, <1>11, <1>12, <2>1, <2>2 DEF Kept
<1>20. TypeOK' BY <1>0, <1>1, <1>7, <1>8, <1>12 DEF TypeOK, mainVars
<1>21. \A p \in waits' : p \in erred => p \in erred'
  <2>1. waits' \subseteq Request BY DEF waits
  <2> QED BY <1>9, <1>13, <2>1
<1>22. ServerInv' BY <1>12, <1>15, <1>16, <1>17, <1>18, <1>19, <1>20 DEF ServerInv
<1> QED BY <1>10, <1>13, <1>21, <1>22
\* A reader stops waiting.
LEMMA StopStep ==
  ASSUME ServerInv, NEW r \in Request, Stop(r)
  PROVE  /\ ServerInv'
         /\ waits' = waits /\ r \notin waits
         /\ \A i \in Id : i[1] # r => (i \in owing' <=> i \in owing)
         /\ \A p \in Request : p # r => (p \in erred' <=> p \in erred)
<1>0. TypeOK /\ Placed /\ Apart /\ Owed /\ Ordered /\ NoResidue /\ Called /\ Kept /\ Singles
  BY DEF ServerInv, Placed
<1>1. /\ UNCHANGED <<queue, deferred, got, escaped>> /\ UNCHANGED mainVars
      /\ UNCHANGED <<sleeping, reqStop>>
      /\ reader[r] = "stop" /\ waiting' = waiting \ Ids(r)
  BY DEF Stop
<1>2. results \in [Request -> Seq(Result)] BY <1>0 DEF TypeOK
<1>3. got[r] = Ids(r) => results[r] = <<>>
  <2> SUFFICES ASSUME got[r] = Ids(r) PROVE results[r] = <<>> OBVIOUS
  <2>1. \A j \in 1 .. Len(results[r]) : FALSE BY <1>0 DEF Ordered
  <2>2. results[r] \in Seq(Result) BY <1>2
  <2>3. Len(results[r]) \in Nat BY <2>2, LenProperties
  <2>4. Len(results[r]) = 0 BY <2>1, <2>3
  <2> QED BY <2>2, <2>4, EmptySeq
<1>4. /\ results'[r] = <<>> /\ (\A p \in Request : p # r => results'[p] = results[p])
      /\ results' \in [Request -> Seq(Result)]
  <2>1. CASE got[r] = Ids(r)
    <3>1. results' = results BY <2>1 DEF Stop
    <3> QED BY <1>2, <1>3, <2>1, <3>1
  <2>2. CASE got[r] # Ids(r)
    <3>1. results' = [results EXCEPT ![r] = <<>>] BY <2>2 DEF Stop
    <3>2. <<>> \in Seq(Result) OBVIOUS
    <3> QED BY <1>2, <3>1, <3>2
  <2> QED BY <2>1, <2>2
<1>5. PICK pc \in {"gone", "cancel"} : Step(r, pc) BY DEF Stop
<1>6. \A p \in Request : p # r => (p \in erred' <=> p \in erred) BY <1>4 DEF erred
<1>7. \A i \in Id : /\ i \in owing => i \in owing'
                    /\ i[1] # r => (i \in owing' <=> i \in owing)
  <2> TAKE i \in Id
  <2>1. i[1] \in Request BY Names
  <2>2. i \in owing' <=> i \notin got[i[1]] /\ \A j \in 1 .. Len(results'[i[1]]) : results'[i[1]][j] # Final(i)
    BY <1>1 DEF owing, Final
  <2>3. CASE i[1] = r
    <3>1. Len(results'[i[1]]) = 0 BY <1>4, <2>3
    <3>2. \A j \in 1 .. Len(results'[i[1]]) : FALSE BY <3>1
    <3> QED BY <2>2, <2>3, <3>2 DEF owing
  <2>4. CASE i[1] # r
    <3>1. results'[i[1]] = results[i[1]] BY <1>4, <2>1, <2>4
    <3> QED BY <2>2, <3>1 DEF owing
  <2> QED BY <2>3, <2>4
<1>8. inQueues' = inQueues /\ Singles'
  BY <1>0, <1>1 DEF inQueues, Singles, Has, Once
<1>9. /\ slotId' = slotId /\ handed' = handed /\ Shape' /\ Undoing'
      /\ reader' \in [Request -> ReaderPc] /\ reader'[r] = pc
      /\ \A p \in Request : p # r => reader'[p] = reader[p]
  <2>1. pc \in ReaderPc /\ pc # "wait" BY DEF ReaderPc
  <2>2. reader'[r] = pc BY <1>0, <1>5 DEF Step, TypeOK
  <2>3. \A p \in Request : reader'[p] = "wait" /\ p \in erred => p \in erred'
    BY <1>6, <2>1, <2>2
  <2> QED BY <1>1, <1>5, <2>1, <2>3, ReaderFrame
<1>10. early' = early /\ waits' = waits /\ r \notin waits BY <1>1, <1>9 DEF early, waits, Early
<1>11. untouched \subseteq untouched'
  <2>1. untouched' = {p \in Request : /\ results'[p] = <<>> /\ got'[p] = {}
                                      /\ \A s \in Slot : slotId'[s] \notin Ids(p)}
    BY DEF untouched
  <2> QED BY <1>1, <1>4, <1>9, <2>1 DEF untouched
<1>12. Placed' BY <1>0, <1>8, <1>9, <1>10, <1>11 DEF Placed
<1>13. Apart' BY <1>0, <1>9 DEF Apart
<1>14. Owed'
  <2>1. owing \subseteq Id BY DEF owing
  <2> QED BY <1>0, <1>7, <1>9, <2>1 DEF Owed
<1>15. Ordered'
  <2> SUFFICES ASSUME NEW p \in Request
               PROVE /\ got[p] \subseteq Ids(p)
                     /\ \A j \in 1 .. Len(results'[p]) : results'[p][j].id \in Ids(p) /\ results'[p][j].id \notin got[p]
                     /\ \A j, k \in 1 .. Len(results'[p]) :
                          j < k /\ results'[p][j].kind = "final" => results'[p][k].id # results'[p][j].id
    BY <1>1 DEF Ordered
  <2>1. CASE p # r BY <1>0, <1>4, <2>1 DEF Ordered
  <2>2. CASE p = r
    <3>1. Len(results'[r]) = 0 BY <1>4
    <3>2. \A j \in 1 .. Len(results'[r]) : FALSE BY <3>1
    <3> QED BY <1>0, <2>2, <3>2 DEF Ordered
  <2> QED BY <2>1, <2>2
<1>16. NoResidue'
  <2> SUFFICES ASSUME NEW p \in Request, reader'[p] \in {"cancel", "gone"}
               PROVE  results'[p] = <<>> /\ waiting' \cap Ids(p) = {}
    BY DEF NoResidue
  <2>1. CASE p = r BY <1>1, <1>4, <2>1
  <2>2. CASE p # r
    <3>1. results[p] = <<>> /\ waiting \cap Ids(p) = {} BY <1>0, <1>9, <2>2 DEF NoResidue
    <3> QED BY <1>1, <1>4, <2>2, <3>1
  <2> QED BY <2>1, <2>2
<1>17. Called'
  <2>1. \A p \in Request : reader[p] = "gone" => reader'[p] = "gone" BY <1>1, <1>9
  <2>2. UNCHANGED <<main, hand, queue>> /\ queue' \in Seq(Message) BY <1>0, <1>1 DEF mainVars, TypeOK
  <2> QED BY <1>0, <2>1, <2>2, CalledKeeps
<1>18. Kept'
  <2> SUFFICES ASSUME NEW p \in waits
               PROVE  /\ Ids(p) \subseteq waiting'
                      /\ \/ p \in inQueues' \cup handed' \cup erred'
                         \/ \A i \in Ids(p) : i \notin owing' \/ \E s \in Slot : slotId'[s] = i
    BY <1>10 DEF Kept
  <2>1. p # r /\ p \in Request BY <1>10 DEF waits
  <2>2. \A i \in Ids(p) : i \in Id /\ i[1] = p BY <2>1, Names
  <2>3. \A i \in Ids(p) : i \notin Ids(r) /\ (i \in owing' <=> i \in owing)
    BY <1>7, <2>1, <2>2, Names
  <2>4. Ids(p) \subseteq waiting' BY <1>0, <1>1, <2>3 DEF Kept
  <2>5. \/ p \in inQueues \cup handed \cup erred
        \/ \A i \in Ids(p) : i \notin owing \/ \E s \in Slot : slotId[s] = i
    BY <1>0 DEF Kept
  <2> QED BY <1>6, <1>8, <1>9, <2>1, <2>3, <2>4, <2>5
<1>19. TypeOK'
  <2>1. waiting' \subseteq Id BY <1>0, <1>1 DEF TypeOK
  <2> QED BY <1>0, <1>1, <1>4, <1>9, <2>1 DEF TypeOK, mainVars
<1>20. ServerInv' BY <1>9, <1>12, <1>13, <1>14, <1>15, <1>16, <1>17, <1>18, <1>19 DEF ServerInv
<1> QED BY <1>6, <1>7, <1>10, <1>20

\* A task taken out of a queue.
LEMMA QWithout ==
  ASSUME NEW S, NEW q \in Seq(S), NEW r \in Request, NEW p \in Request, Once(q, p)
  PROVE  /\ Without(q, r) \in Seq(S)
         /\ Has(Without(q, r), p) <=> Has(q, p) /\ p # r
         /\ Once(Without(q, r), p)
         /\ \A k \in 1 .. Len(Without(q, r)) : \E j \in 1 .. Len(q) : Without(q, r)[k] = q[j]
<1> DEFINE T == {q[j] : j \in 1 .. Len(q)}
<1>1. Len(q) \in Nat /\ DOMAIN q = 1 .. Len(q) BY LenProperties
<1>2. q \in Seq(T)
  <2>1. q \in [1 .. Len(q) -> T] BY LenProperties
  <2> HIDE DEF T
  <2>2. [1 .. Len(q) -> T] \in {[1 .. n -> T] : n \in Nat} BY <1>1, Zenon
  <2> QED BY <2>1, <2>2, SeqDef, Zenon
<1>3. Task(r) = Task(p) <=> r = p BY Names
<1>4. CASE Places(q, r) = {}
  <2>1. Without(q, r) = q BY <1>4 DEF Without
  <2>2. ~Has(q, r) BY <1>1, <1>4 DEF Has, Places
  <2> QED BY <2>1, <2>2
<1>5. CASE Places(q, r) # {}
  <2>1. PICK j \in 1 .. Len(q) : q[j] = Task(r) /\ Without(q, r) = DropAt(q, j)
    <3> DEFINE j == CHOOSE j \in Places(q, r) : TRUE
    <3>1. j \in Places(q, r) BY <1>5
    <3> HIDE DEF j
    <3>2. j \in 1 .. Len(q) /\ q[j] = Task(r) BY <1>1, <3>1 DEF Places
    <3>3. Without(q, r) = DropAt(q, j) BY <1>5 DEF Without, j
    <3> QED BY <3>2, <3>3
  <2> HIDE DEF T
  <2>2. /\ DropAt(q, j) \in Seq(S)
        /\ Has(DropAt(q, j), p) <=> Has(q, p) /\ q[j] # Task(p)
        /\ Once(DropAt(q, j), p)
    BY QDrop
  <2>3. DropAt(q, j) \in Seq(T) BY <1>2, QDrop
  <2>4. \A k \in 1 .. Len(DropAt(q, j)) : DropAt(q, j)[k] \in T BY <2>3, ElementOfSeq
  <2> QED BY <1>3, <2>1, <2>2, <2>4 DEF T
<1> QED BY <1>4, <1>5

\* A reader cancels.
LEMMA PostCancelsStep ==
  ASSUME ServerInv, NEW r \in Request, PostCancels(r)
  PROVE  ServerInv'
<1>0. TypeOK /\ Placed /\ Apart /\ Owed /\ Ordered /\ NoResidue /\ Called /\ Kept /\ Singles
  BY DEF ServerInv, Placed
<1>1. /\ UNCHANGED <<waiting, results, got>> /\ UNCHANGED mainVars
      /\ UNCHANGED <<sleeping, reqStop>>
      /\ reader[r] = "cancel" /\ Step(r, "gone") /\ deferred' = Without(deferred, r)
      /\ escaped' \in {escaped, escaped \cup {r}}
      /\ queue \in Seq(Message) /\ deferred \in Seq(Tasks)
  BY <1>0 DEF PostCancels, TypeOK, Tasks
<1>2. PICK c \in Cancels(r) : queue' = c \o Without(queue, r) BY DEF PostCancels
<1>3. c \in Seq(Message) /\ \A k \in 1 .. Len(c) : c[k].type = "cancel" /\ c[k].id[1] = r
  <2>1. NChildren[r] + 1 \in Nat BY InferenceAssumption
  <2>2. c \in [1 .. NChildren[r] + 1 -> {Cancel(i) : i \in Ids(r)}] BY DEF Cancels
  <2>3. \A m \in {Cancel(i) : i \in Ids(r)} : m \in Message /\ m.type = "cancel" /\ m.id[1] = r
    BY Names
  <2>4. c \in [1 .. NChildren[r] + 1 -> Message] BY <2>2, <2>3
  <2>5. \E n \in Nat : c \in [1 .. n -> Message] BY <2>1, <2>4
  <2>6. c \in Seq(Message) BY <2>5
  <2>7. 1 .. Len(c) = DOMAIN c BY <2>6, LenProperties
  <2> QED BY <2>2, <2>3, <2>6, <2>7
<1>4. \A p : ~Has(c, p) BY <1>3, Names DEF Has
<1> DEFINE w == Without(queue, r)
<1>5. \A p \in Request : /\ w \in Seq(Message)
                         /\ Has(w, p) <=> Has(queue, p) /\ p # r
                         /\ Once(w, p)
                         /\ \A k \in 1 .. Len(w) : \E j \in 1 .. Len(queue) : w[k] = queue[j]
  <2> TAKE p \in Request
  <2>1. Once(queue, p) BY <1>0 DEF Singles
  <2> QED BY <1>1, <2>1, QWithout
<1>6. \A p \in Request : /\ deferred' \in Seq(Tasks)
                         /\ Has(deferred', p) <=> Has(deferred, p) /\ p # r
                         /\ Once(deferred', p)
  <2> TAKE p \in Request
  <2>1. Once(deferred, p) BY <1>0 DEF Singles
  <2> QED BY <1>1, <2>1, QWithout
<1>7. queue' = c \o w BY <1>2
<1> HIDE DEF w
<1>8. \A p \in Request : /\ queue' \in Seq(Message)
                         /\ Has(queue', p) <=> Has(queue, p) /\ p # r
                         /\ Once(queue', p)
  BY <1>3, <1>4, <1>5, <1>7, QConcat
<1>9. inQueues' = inQueues \ {r}
  <2>1. inQueues' = {p \in Request : Has(queue', p) \/ Has(deferred', p)} BY DEF inQueues, Has
  <2> QED BY <1>6, <1>8, <2>1 DEF inQueues
<1>10. Singles'
  <2>1. Singles' = \A p \in Request : /\ Once(queue', p) /\ Once(deferred', p)
                                      /\ ~(Has(queue', p) /\ Has(deferred', p))
    BY DEF Singles, Once, Has
  <2> QED BY <1>0, <1>6, <1>8, <2>1 DEF Singles
<1>11. erred' = erred /\ owing' = owing BY <1>1 DEF erred, owing
<1>12. /\ slotId' = slotId /\ handed' = handed /\ Shape' /\ Undoing'
       /\ reader' \in [Request -> ReaderPc] /\ reader'[r] = "gone"
       /\ \A p \in Request : p # r => reader'[p] = reader[p]
  <2>1. "gone" \in ReaderPc BY DEF ReaderPc
  <2> QED BY <1>1, <1>11, <2>1, ReaderFrame
<1>13. early' = early /\ waits' = waits /\ r \notin waits BY <1>1, <1>12 DEF early, waits, Early
<1>14. untouched' = untouched BY <1>1, <1>12 DEF untouched
<1>15. Placed' BY <1>0, <1>9, <1>10, <1>12, <1>13, <1>14 DEF Placed
<1>16. Apart' /\ Owed' BY <1>0, <1>11, <1>12 DEF Apart, Owed
<1>17. Ordered' BY <1>0, <1>1 DEF Ordered
<1>18. NoResidue' BY <1>0, <1>1, <1>12 DEF NoResidue
<1>19. Called'
  <2>1. \A p \in Request : reader[p] = "gone" => reader'[p] = "gone" BY <1>1, <1>12
  <2>2. UNCHANGED <<main, hand>> /\ queue' \in Seq(Message) BY <1>1, <1>8 DEF mainVars
  <2>3. ASSUME NEW j \in 1 .. Len(queue'), queue'[j].type = "cancel"
        PROVE  \/ \E k \in 1 .. Len(queue) : queue'[j] = queue[k]
               \/ reader'[queue'[j].id[1]] = "gone"
    <3>1. /\ Len(c \o w) = Len(c) + Len(w) /\ Len(c) \in Nat /\ Len(w) \in Nat
          /\ \A i \in 1 .. Len(c) + Len(w) : (c \o w)[i] = IF i <= Len(c) THEN c[i] ELSE w[i - Len(c)]
      BY <1>3, <1>5, ConcatProperties, LenProperties
    <3>2. CASE j <= Len(c)
      <4>1. j \in 1 .. Len(c) /\ queue'[j] = c[j] BY <1>7, <3>1, <3>2
      <4> QED BY <1>3, <1>12, <4>1
    <3>3. CASE ~(j <= Len(c))
      <4>1. j - Len(c) \in 1 .. Len(w) /\ queue'[j] = w[j - Len(c)] BY <1>7, <3>1, <3>3
      <4> QED BY <1>5, <4>1
    <3> QED BY <3>2, <3>3
  <2> QED BY <1>0, <2>1, <2>2, <2>3, CalledKeeps
<1>20. Kept' BY <1>0, <1>1, <1>9, <1>11, <1>12, <1>13 DEF Kept
<1>21. TypeOK'
  <2>1. escaped' \subseteq Request BY <1>0, <1>1 DEF TypeOK
  <2> QED BY <1>0, <1>1, <1>6, <1>8, <1>12, <2>1 DEF TypeOK, mainVars, Tasks
<1> QED BY <1>12, <1>15, <1>16, <1>17, <1>18, <1>19, <1>20, <1>21 DEF ServerInv
----------------------------------------------------------------------------
(* The invariant, and what follows                                         *)

ServiceInv == ServerInv /\ Awaited

\* Nothing has begun.
LEMMA ServerStart == Init => ServiceInv
<1> SUFFICES ASSUME Init PROVE ServiceInv OBVIOUS
<1>1. /\ running = FALSE /\ sleeping = FALSE /\ reqStop = FALSE /\ queue = <<>> /\ deferred = <<>>
      /\ main = "boot" /\ todo = {} /\ hand = NextResponse /\ slot = [s \in Slot |-> Free]
      /\ empties = 0 /\ waiting = {} /\ results = [r \in Request |-> <<>>]
      /\ reader = [r \in Request |-> "new"] /\ got = [r \in Request |-> {}] /\ escaped = {}
  BY DEF Init
<1>2. Len(queue) = 0 /\ Len(deferred) = 0 /\ 1 .. Len(queue) = {} /\ 1 .. Len(deferred) = {} BY <1>1
<1>3. \A r : ~Has(queue, r) /\ ~Has(deferred, r) /\ Once(queue, r) /\ Once(deferred, r)
  BY <1>2 DEF Has, Once
<1>4. \A s \in Slot : slotId[s] = <<>> BY <1>1 DEF slotId, Free
<1>5. inQueues = {} /\ handed = {} /\ waits = {} BY <1>1, <1>3 DEF inQueues, handed, InHand, waits
<1>6. \A r \in Request : results[r] = <<>> /\ got[r] = {} /\ <<>> \notin Ids(r)
  BY <1>1, Names
<1>7. untouched = Request BY <1>4, <1>6 DEF untouched
<1>8. early \subseteq Request BY DEF early
<1>9. Singles BY <1>3 DEF Singles
<1>10. Placed BY <1>5, <1>7, <1>8, <1>9 DEF Placed
<1>11. Apart /\ Owed BY <1>4 DEF Apart, Owed
<1>12. \A r \in Request : Len(results[r]) = 0 /\ 1 .. Len(results[r]) = {} BY <1>6
<1>13. Ordered BY <1>6, <1>12 DEF Ordered
<1>14. NoResidue BY <1>1 DEF NoResidue
<1>15. Called BY <1>1, <1>2 DEF Called
<1>16. Undoing /\ Kept BY <1>1, <1>5 DEF Undoing, Kept
<1>17. Shape BY <1>1 DEF Shape, Free
<1>18. TypeOK
  <2>1. MaxSteps \in Nat BY InferenceAssumption
  <2>2. Free \in [st : {"idle", "wait", "started", "done", "gen"}, id : Id \cup {<<>>}, n : 0 .. MaxSteps]
    BY <2>1 DEF Free
  <2>3. slot \in [Slot -> [st : {"idle", "wait", "started", "done", "gen"},
                           id : Id \cup {<<>>}, n : 0 .. MaxSteps]]
    BY <1>1, <2>2
  <2>4. queue \in Seq(Message) /\ deferred \in Seq({Task(r) : r \in Request}) BY <1>1
  <2>5. results \in [Request -> Seq(Result)] BY <1>1
  <2>6. main \in MainPc /\ hand \in Message BY <1>1, Names DEF MainPc
  <2>7. reader \in [Request -> ReaderPc] BY <1>1 DEF ReaderPc
  <2>8. got \in [Request -> SUBSET Id] BY <1>1
  <2>9. {running, sleeping, reqStop} \subseteq BOOLEAN
    <3>1. running \in BOOLEAN /\ sleeping \in BOOLEAN /\ reqStop \in BOOLEAN BY <1>1
    <3> QED BY <3>1
  <2>10. todo \subseteq Slot /\ waiting \subseteq Id /\ escaped \subseteq Request BY <1>1
  <2>11. empties \in 0 .. 4
    <3>1. empties = 0 BY <1>1
    <3> QED BY <3>1
  <2> QED BY <2>3, <2>4, <2>5, <2>6, <2>7, <2>8, <2>9, <2>10, <2>11 DEF TypeOK
<1>19. Awaited BY <1>1 DEF Awaited
<1> QED BY <1>10, <1>11, <1>13, <1>14, <1>15, <1>16, <1>17, <1>18, <1>19 DEF ServiceInv, ServerInv

\* The ids of a reader about to post stay waited for.
LEMMA AwaitedStep == TypeOK /\ Awaited /\ [Next]_vars => Awaited'
<1> SUFFICES ASSUME TypeOK, Awaited, [Next]_vars PROVE Awaited' OBVIOUS
<1>1. CASE UNCHANGED <<waiting, reader>> BY <1>1 DEF Awaited
<1>2. CASE \E r \in Request : Arrive(r) \/ GiveUp(r) \/ Reader(r)
  <2>1. PICK r \in Request : Arrive(r) \/ GiveUp(r) \/ Reader(r) BY <1>2
  <2>2. PICK pc \in ReaderPc : Step(r, pc) /\ (pc = "adding" => AddWaiting(r))
    BY <2>1 DEF Arrive, GiveUp, Reader, Awake, AddWaiting, Post, Recv, Stop, PostCancels, ReaderPc
  <2>3. reader'[r] = pc /\ \A q \in Request : q # r => reader'[q] = reader[q]
    BY <2>2 DEF Step, TypeOK
  <2>4. waiting \ Ids(r) \subseteq waiting'
    BY <2>1 DEF Arrive, GiveUp, Reader, Awake, AddWaiting, Post, Recv, Stop, PostCancels
  <2>5. SUFFICES ASSUME NEW q \in Request, reader'[q] = "adding" PROVE Ids(q) \subseteq waiting'
    BY DEF Awaited
  <2>6. CASE q = r BY <2>2, <2>3, <2>5, <2>6 DEF AddWaiting
  <2>7. CASE q # r
    <3>1. Ids(q) \subseteq waiting BY <2>3, <2>5, <2>7 DEF Awaited
    <3>2. Ids(q) \cap Ids(r) = {} BY <2>7, Names
    <3> QED BY <2>4, <3>1, <3>2
  <2> QED BY <2>6, <2>7
<1>3. CASE Main \/ FallAsleep \/ Terminate
  <2>1. UNCHANGED <<waiting, reader>>
    BY <1>3 DEF Main, FallAsleep, Terminate, StartLoop, Exit, Take, Drained, Wake, LeaveSleep,
         HandleCancel, Defer, LaunchTask, LaunchFails, Undo, FillBatch, ShiftFails, StartBatch,
         DecodeNothing, KillSwitch,
         DecodeFails, FailSlot, Decode, Sample, readVars
  <2> QED BY <1>1, <2>1
<1>4. CASE UNCHANGED vars BY <1>1, <1>4 DEF vars
<1> QED BY <1>2, <1>3, <1>4 DEF Next

\* Every step of the server and of its readers.
LEMMA ServerStep == ServiceInv /\ [Next]_vars => ServiceInv'
<1> SUFFICES ASSUME ServiceInv, [Next]_vars PROVE ServiceInv' OBVIOUS
<1>0. ServerInv /\ Awaited /\ TypeOK BY DEF ServiceInv, ServerInv
<1>1. Awaited' BY <1>0, AwaitedStep
<1>2. CASE Main
  <2> SUFFICES ServerInv' BY <1>1 DEF ServiceInv
  <2>1. CASE \/ StartLoop \/ Exit \/ Wake \/ LeaveSleep
             \/ StartBatch \/ DecodeNothing \/ DecodeFails \/ Decode
    BY <1>0, <2>1, QuietStep
  <2>2. CASE Take BY <1>0, <2>2, TakeStep
  <2>3. CASE Drained BY <1>0, <2>3, DrainedStep
  <2>4. CASE HandleCancel BY <1>0, <2>4, CancelStep
  <2>5. CASE Defer BY <1>0, <2>5, DeferStep
  <2>6. CASE LaunchTask \/ LaunchFails BY <1>0, <2>6, LaunchStep
  <2>7. CASE Undo BY <1>0, <2>7, UndoStep
  <2>8. CASE FillBatch \/ FailSlot \/ Sample \/ ShiftFails BY <1>0, <2>8, SlotStep
  <2> QED BY <1>2, <2>1, <2>2, <2>3, <2>4, <2>5, <2>6, <2>7, <2>8 DEF Main
<1>3. CASE FallAsleep
  <2>1. ServerInv' BY <1>0, <1>3, QuietStep
  <2> QED BY <1>1, <2>1 DEF ServiceInv
<1>4. CASE Terminate
  <2>1. /\ UNCHANGED <<queue, deferred, main, todo, hand, slot, empties>>
        /\ UNCHANGED <<waiting, results, reader, got>>
        /\ UNCHANGED <<sleeping, reqStop, escaped>> /\ running' = FALSE
    BY <1>4 DEF Terminate, readVars
  <2>2. TypeOK' BY <1>0, <2>1 DEF TypeOK
  <2>3. ServerInv' BY <1>0, <2>1, <2>2, Unmoved
  <2> QED BY <1>1, <2>3 DEF ServiceInv
<1>5. CASE \E r \in Request : Arrive(r) \/ GiveUp(r) \/ Reader(r)
  <2>1. PICK r \in Request : Arrive(r) \/ GiveUp(r) \/ Reader(r) BY <1>5
  <2> SUFFICES ServerInv' BY <1>1 DEF ServiceInv
  <2>2. CASE Arrive(r) \/ Awake(r) \/ AddWaiting(r) BY <1>0, <2>2, EarlyStep
  <2>3. CASE Post(r) BY <1>0, <2>3, PostStep
  <2>4. CASE Recv(r) BY <1>0, <2>4, RecvStep
  <2>5. CASE GiveUp(r) BY <1>0, <2>5, GiveUpStep
  <2>6. CASE Stop(r) BY <1>0, <2>6, StopStep
  <2>7. CASE PostCancels(r) BY <1>0, <2>7, PostCancelsStep
  <2> QED BY <2>1, <2>2, <2>3, <2>4, <2>5, <2>6, <2>7 DEF Reader
<1>6. CASE UNCHANGED vars
  <2>1. /\ UNCHANGED <<queue, deferred, main, todo, hand, slot, empties>>
        /\ UNCHANGED <<waiting, results, reader, got>>
        /\ UNCHANGED <<running, sleeping, reqStop, escaped>>
    BY <1>6 DEF vars
  <2>2. TypeOK' BY <1>0, <2>1 DEF TypeOK
  <2>3. ServerInv' BY <1>0, <2>1, <2>2, Unmoved
  <2> QED BY <1>1, <2>3 DEF ServiceInv
<1> QED BY <1>2, <1>3, <1>4, <1>5, <1>6 DEF Next

\* The strengthened invariant: where each task is, what each slot owes and
\* what each reader can still expect, in every reachable state.
THEOREM ServerInvariant == Spec => []ServiceInv
<1>1. Init => ServiceInv BY ServerStart
<1>2. ServiceInv /\ [Next]_vars => ServiceInv' BY ServerStep
<1> QED BY <1>1, <1>2, PTL DEF Spec

\* Every variable keeps its type, the kill switch's count its bound of four.
THEOREM ServerTypes == Spec => []TypeOK
<1>1. ServiceInv => TypeOK BY DEF ServiceInv, ServerInv
<1> QED BY <1>1, ServerInvariant, PTL

\* A reader that is gone leaves no result and no id it waited for behind.
THEOREM ServerClean == Spec => []NoResidue
<1>1. ServiceInv => NoResidue BY DEF ServiceInv, ServerInv
<1> QED BY <1>1, ServerInvariant, PTL

\* A set without two elements.
LEMMA AtMostOne ==
  ASSUME NEW T, \A x, y \in T : x = y
  PROVE  Cardinality(T) = IF T = {} THEN 0 ELSE 1
<1>1. CASE T = {} BY <1>1, FS_EmptySet
<1>2. CASE T # {}
  <2>1. PICK x \in T : T = {x} BY <1>2
  <2> QED BY <1>2, <2>1, FS_Singleton
<1> QED BY <1>1, <1>2

\* A task is in one place only, and no slot shares a task with another.
THEOREM ServerOnePlace == Spec => []OnePlace
<1>1. ServiceInv => OnePlace
  <2> SUFFICES ASSUME ServiceInv, NEW r \in Request
               PROVE  /\ Cardinality(Places(queue, r)) + Cardinality(Places(deferred, r))
                         + (IF InHand(r) THEN 1 ELSE 0) + Cardinality(InSlot(Top(r))) <= 1
                      /\ \A i \in Ids(r) : Cardinality(InSlot(i)) <= 1
    BY DEF OnePlace
  <2>1. TypeOK /\ Placed /\ Singles /\ Apart BY DEF ServiceInv, ServerInv, Placed
  <2>2. DOMAIN queue = 1 .. Len(queue) /\ DOMAIN deferred = 1 .. Len(deferred)
    BY <2>1, LenProperties DEF TypeOK
  <2>3. Cardinality(Places(queue, r)) = IF Has(queue, r) THEN 1 ELSE 0
    <3>1. \A j, k \in Places(queue, r) : j = k BY <2>1, <2>2 DEF Singles, Once, Places
    <3>2. Places(queue, r) = {} <=> ~Has(queue, r) BY <2>2 DEF Places, Has
    <3> QED BY <3>1, <3>2, AtMostOne
  <2>4. Cardinality(Places(deferred, r)) = IF Has(deferred, r) THEN 1 ELSE 0
    <3>1. \A j, k \in Places(deferred, r) : j = k BY <2>1, <2>2 DEF Singles, Once, Places
    <3>2. Places(deferred, r) = {} <=> ~Has(deferred, r) BY <2>2 DEF Places, Has
    <3> QED BY <3>1, <3>2, AtMostOne
  <2>5. \A i \in Ids(r) : Cardinality(InSlot(i)) = IF InSlot(i) = {} THEN 0 ELSE 1
    <3> TAKE i \in Ids(r)
    <3>1. i # <<>> BY Names
    <3>2. \A s, t \in InSlot(i) : s = t BY <2>1, <3>1 DEF InSlot, Apart, slotId
    <3> QED BY <3>2, AtMostOne
  <2>6. Top(r) \in Ids(r) BY Names
  <2>7. r \in untouched => InSlot(Top(r)) = {} BY <2>6 DEF untouched, InSlot, slotId
  <2>8. Has(queue, r) \/ Has(deferred, r) \/ InHand(r) => InSlot(Top(r)) = {}
    BY <2>1, <2>7 DEF Placed, inQueues, handed
  <2>9. ~(InHand(r) /\ (Has(queue, r) \/ Has(deferred, r))) BY <2>1 DEF Placed, inQueues, handed
  <2>10. ~(Has(queue, r) /\ Has(deferred, r)) BY <2>1 DEF Singles
  <2>11. \A i \in Ids(r) : Cardinality(InSlot(i)) <= 1 BY <2>5
  <2>12. Cardinality(InSlot(Top(r))) = IF InSlot(Top(r)) = {} THEN 0 ELSE 1 BY <2>5, <2>6
  <2> QED BY <2>3, <2>4, <2>8, <2>9, <2>10, <2>11, <2>12
<1> QED BY <1>1, ServerInvariant, PTL

\* No id gets a second final result, nor one while a slot still works on it.
THEOREM ServerAnswersOnce == Spec => []AnsweredOnce
<1>1. ServiceInv => AnsweredOnce
  <2> SUFFICES ASSUME ServiceInv, NEW i \in Id
               PROVE  Cardinality(Finals(i)) + Cardinality(InSlot(i))
                      + (IF i \in got[i[1]] THEN 1 ELSE 0) <= 1
    BY DEF AnsweredOnce
  <2>1. TypeOK /\ Apart /\ Owed /\ Ordered BY DEF ServiceInv, ServerInv
  <2>2. i[1] \in Request /\ i # <<>> BY Names
  <2> DEFINE q == results[i[1]]
  <2>3. DOMAIN q = 1 .. Len(q) /\ Len(q) \in Nat BY <2>1, <2>2, LenProperties DEF TypeOK
  <2>4. Finals(i) = {j \in 1 .. Len(q) : q[j] = Final(i)} BY <2>3 DEF Finals, Final
  <2>5. Final(i).kind = "final" /\ Final(i).id = i BY DEF Final
  <2>6. \A j, k \in Finals(i) : j = k
    <3> SUFFICES ASSUME NEW j \in 1 .. Len(q), NEW k \in 1 .. Len(q), q[j] = Final(i), q[k] = Final(i)
                 PROVE  j = k
      BY <2>4
    <3>1. ~(j < k) /\ ~(k < j) BY <2>1, <2>2, <2>5 DEF Ordered
    <3> QED BY <2>3, <3>1
  <2>7. Cardinality(Finals(i)) = IF Finals(i) = {} THEN 0 ELSE 1 BY <2>6, AtMostOne
  <2>8. \A s, t \in InSlot(i) : s = t BY <2>1, <2>2 DEF InSlot, Apart, slotId
  <2>9. Cardinality(InSlot(i)) = IF InSlot(i) = {} THEN 0 ELSE 1 BY <2>8, AtMostOne
  <2>10. i \in got[i[1]] => Finals(i) = {} BY <2>1, <2>2, <2>4, <2>5 DEF Ordered
  <2>11. InSlot(i) # {} => i \in owing
    <3>1. \A s \in InSlot(i) : s \in Slot /\ slotId[s] = i BY DEF InSlot, slotId
    <3> QED BY <2>1, <2>2, <3>1 DEF Owed
  <2>12. i \in owing => i \notin got[i[1]] /\ Finals(i) = {} BY <2>4 DEF owing
  <2> QED BY <2>7, <2>9, <2>10, <2>11, <2>12
<1> QED BY <1>1, ServerInvariant, PTL

\* What a reader waits for is pending, in a slot, answered, or an error.
THEOREM ServerLosesNone == Spec => []NoneLost
<1>1. ServiceInv => NoneLost
  <2> SUFFICES ASSUME ServiceInv, NEW r \in Request, reader[r] = "wait"
               PROVE  \/ Pending(r) \/ HasError(r)
                      \/ \A i \in Ids(r) : InSlot(i) # {} \/ Finals(i) # {} \/ i \in got[r]
    BY DEF NoneLost
  <2>1. TypeOK /\ Kept BY DEF ServiceInv, ServerInv
  <2>2. DOMAIN queue = 1 .. Len(queue) /\ DOMAIN deferred = 1 .. Len(deferred)
        /\ \A p \in Request : DOMAIN results[p] = 1 .. Len(results[p])
    BY <2>1, LenProperties DEF TypeOK
  <2>3. r \in waits BY DEF waits
  <2>4. CASE r \in inQueues \cup handed
    BY <2>2, <2>4 DEF inQueues, handed, Has, Pending, Places
  <2>5. CASE r \in erred BY <2>2, <2>5 DEF erred, HasError
  <2>6. CASE \A i \in Ids(r) : i \notin owing \/ \E s \in Slot : slotId[s] = i
    <3> SUFFICES ASSUME NEW i \in Ids(r) PROVE InSlot(i) # {} \/ Finals(i) # {} \/ i \in got[r] OBVIOUS
    <3>1. i \in Id /\ i[1] = r BY Names
    <3>2. CASE i \notin owing BY <2>2, <3>1, <3>2 DEF owing, Finals, Final
    <3>3. CASE \E s \in Slot : slotId[s] = i BY <3>3 DEF InSlot, slotId
    <3> QED BY <2>6, <3>2, <3>3
  <2> QED BY <2>1, <2>3, <2>4, <2>5, <2>6 DEF Kept
<1> QED BY <1>1, ServerInvariant, PTL

----------------------------------------------------------------------------
(* Children and the kill switch                                            *)

On(q) == {q[j] : j \in 1 .. Len(q)}

\* What the queues and the main thread's hand carry.
carried == On(queue) \cup On(deferred) \cup (IF main = "handle" THEN {hand} ELSE {})

\* The states of a slot whose request's children wait for it: in the loop that
\* samples, those of the slots decoded just before are past it.
Parental == IF main = "sample" THEN {"started"} ELSE {"started", "done"}

\* Only children wait, only decoded slots are sampled, and a launch that is
\* undone leaves no slot out.
Stages ==
  /\ \A s \in Slot : /\ slot[s].st \in {"wait", "done"} => slot[s].n = 0
                     /\ slot[s].st = "wait" => slot[s].id[2] # 0
  /\ main = "shift" => \A s \in todo : slot[s].st = "gen"
  /\ main = "prompt" => \A s \in todo : slot[s].st = "started"
  /\ main = "sample" => \A s \in todo : slot[s].st \in {"done", "gen"}
  /\ hand.type = "cancel" => main = "handle"

\* What a gone reader left in a queue escaped it; what it left in a slot has
\* its cancel under way.
CalledOff ==
  /\ \A r \in Request : Task(r) \in carried /\ reader[r] = "gone" => r \in escaped
  /\ \A s \in Slot : slot[s].id # <<>> /\ reader[slot[s].id[1]] = "gone" =>
       Cancel(slot[s].id) \in carried \/ slot[s].id[1] \in escaped

\* While its reader waits, a child's parent is at work, failed or answered.
Watched ==
  \A s \in Slot : slot[s].st = "wait" /\ slot[s].id[1] \in waits =>
    LET r == slot[s].id[1] IN
    \/ \E t \in Slot : slot[t].id = Top(r) /\ slot[t].st \in Parental
    \/ r \in erred \/ Top(r) \notin owing

\* Batches are empty one after the other only while every busy slot waits.
Starving ==
  /\ empties > 0 => \A s \in Slot : slot[s].st \in {"idle", "wait"}
  /\ main \in {"shift", "decode"} /\ empties > 0 => \E s \in Slot : slot[s].st = "wait"
  /\ main = "aborted" => \E s \in Slot : LeftAlone(s)

ChildInv == Stages /\ CalledOff /\ Watched /\ Starving

\* What a queue holds after it changed.
LEMMA OnAppend ==
  ASSUME NEW S, NEW q \in Seq(S), NEW m \in S
  PROVE  On(Append(q, m)) = On(q) \cup {m}
<1>1. /\ Len(Append(q, m)) = Len(q) + 1 /\ Len(q) \in Nat
      /\ \A i \in 1 .. Len(q) : Append(q, m)[i] = q[i]
      /\ Append(q, m)[Len(q) + 1] = m
  BY AppendProperties, LenProperties
<1> DEFINE a == Append(q, m)  n == Len(q)
<1>2. a[n + 1] = m /\ Len(a) = n + 1 /\ n \in Nat /\ \A i \in 1 .. n : a[i] = q[i] BY <1>1
<1> HIDE DEF a
<1>3. \A j \in 1 .. n + 1 : j = n + 1 \/ j \in 1 .. n BY <1>2
<1>4. n + 1 \in 1 .. n + 1 /\ \A j \in 1 .. n : j \in 1 .. n + 1 BY <1>2
<1> QED BY <1>2, <1>3, <1>4 DEF On, a

\* What is behind the head of a queue.
LEMMA OnTail ==
  ASSUME NEW S, NEW q \in Seq(S), q # <<>>
  PROVE  On(q) = On(Tail(q)) \cup {Head(q)}
<1> DEFINE n == Len(q)  u == Tail(q)
<1>1. /\ n \in Nat \ {0} /\ Len(u) = n - 1
      /\ \A i \in 1 .. n - 1 : u[i] = q[i + 1]
      /\ Head(q) = q[1]
  BY HeadTailProperties, LenProperties, EmptySeq
<1> HIDE DEF u
<1>2. \A i \in 1 .. n - 1 : i + 1 \in 1 .. n BY <1>1
<1>3. \A i \in 1 .. n : i # 1 => i - 1 \in 1 .. n - 1 /\ q[i] = u[i - 1] BY <1>1
<1>4. 1 \in 1 .. n BY <1>1
<1>5. \A i \in 1 .. n - 1 : u[i] \in On(q) BY <1>1, <1>2 DEF On
<1>6. \A i \in 1 .. n : i # 1 => q[i] \in On(u) BY <1>1, <1>3 DEF On
<1>7. On(u) \subseteq On(q) BY <1>1, <1>5 DEF On
<1>8. On(q) \subseteq On(u) \cup {q[1]} BY <1>6 DEF On
<1>9. q[1] \in On(q) BY <1>4 DEF On
<1> QED BY <1>1, <1>7, <1>8, <1>9 DEF u

\* What two queues put together hold.
LEMMA OnConcat ==
  ASSUME NEW S, NEW c \in Seq(S), NEW q \in Seq(S)
  PROVE  On(c \o q) = On(c) \cup On(q)
<1> DEFINE m == Len(c)  n == Len(q)  a == c \o q
<1>1. /\ Len(a) = m + n /\ m \in Nat /\ n \in Nat
      /\ \A i \in 1 .. m + n : a[i] = IF i <= m THEN c[i] ELSE q[i - m]
  BY ConcatProperties, LenProperties
<1> HIDE DEF a
<1>2. \A i \in 1 .. m + n : a[i] \in On(c) \cup On(q)
  <2> TAKE i \in 1 .. m + n
  <2>1. CASE i <= m
    <3>1. i \in 1 .. m /\ a[i] = c[i] BY <1>1, <2>1
    <3> QED BY <3>1 DEF On
  <2>2. CASE ~(i <= m)
    <3>1. i - m \in 1 .. n /\ a[i] = q[i - m] BY <1>1, <2>2
    <3> QED BY <3>1 DEF On
  <2> QED BY <2>1, <2>2
<1>3. \A j \in 1 .. m : j \in 1 .. m + n /\ a[j] = c[j] BY <1>1
<1>4. \A j \in 1 .. n : j + m \in 1 .. m + n /\ a[j + m] = q[j]
  <2> TAKE j \in 1 .. n
  <2>1. j + m \in 1 .. m + n /\ ~(j + m <= m) /\ (j + m) - m = j BY <1>1
  <2> QED BY <1>1, <2>1
<1>5. On(a) \subseteq On(c) \cup On(q) BY <1>1, <1>2 DEF On
<1>6. On(c) \subseteq On(a) BY <1>1, <1>3 DEF On
<1>7. On(q) \subseteq On(a) BY <1>1, <1>4 DEF On
<1> QED BY <1>5, <1>6, <1>7 DEF a

\* What a queue holds after one message was taken out.
LEMMA OnDrop ==
  ASSUME NEW S, NEW q \in Seq(S), NEW j \in 1 .. Len(q)
  PROVE  On(q) = On(DropAt(q, j)) \cup {q[j]}
<1> DEFINE n == Len(q)  a == DropAt(q, j)
<1>1. n \in Nat BY LenProperties
<1>2. n - 1 \in Nat BY <1>1
<1>3. DOMAIN a = 1 .. n - 1 /\ \A k \in 1 .. n - 1 : a[k] = IF k < j THEN q[k] ELSE q[k + 1]
  BY DEF DropAt
<1>4. Len(a) = n - 1
  <2>2. a \in Seq(S)
    <3>1. \A k \in 1 .. n : q[k] \in S BY ElementOfSeq
    <3>2. \A k \in 1 .. n - 1 : k \in 1 .. n /\ k + 1 \in 1 .. n BY <1>1
    <3>3. \A k \in 1 .. n - 1 : (IF k < j THEN q[k] ELSE q[k + 1]) \in S BY <3>1, <3>2
    <3>4. a = [k \in 1 .. n - 1 |-> IF k < j THEN q[k] ELSE q[k + 1]] BY DEF DropAt
    <3> HIDE DEF a
    <3>5. a \in [1 .. n - 1 -> S] BY <3>3, <3>4
    <3>6. \E m \in Nat : a \in [1 .. m -> S] BY <1>2, <3>5
    <3> QED BY <3>6
  <2> HIDE DEF a
  <2> QED BY <1>2, <1>3, <2>2, LenProperties
<1> HIDE DEF a
<1>5. \A k \in 1 .. n - 1 : a[k] \in On(q)
  <2> TAKE k \in 1 .. n - 1
  <2>1. k \in 1 .. n /\ k + 1 \in 1 .. n BY <1>1
  <2> QED BY <1>3, <2>1 DEF On
<1>6. \A i \in 1 .. n : i # j => q[i] \in On(a)
  <2> TAKE i \in 1 .. n
  <2> HAVE i # j
  <2>1. CASE i < j
    <3>1. i \in 1 .. n - 1 /\ a[i] = q[i] BY <1>1, <1>3, <2>1
    <3> QED BY <1>4, <3>1 DEF On
  <2>2. CASE i > j
    <3>1. i - 1 \in 1 .. n - 1 /\ ~(i - 1 < j) /\ (i - 1) + 1 = i BY <1>1, <2>2
    <3>2. a[i - 1] = q[i] BY <1>3, <3>1
    <3> QED BY <1>4, <3>1, <3>2 DEF On
  <2> QED BY <1>1, <2>1, <2>2
<1>7. On(a) \subseteq On(q) BY <1>4, <1>5 DEF On
<1>8. On(q) \subseteq On(a) \cup {q[j]} BY <1>6 DEF On
<1>9. q[j] \in On(q) BY DEF On
<1> QED BY <1>7, <1>8, <1>9 DEF a

\* A popped task is one of the deferred ones.
LEMMA PopKeeps ==
  ASSUME TypeOK, NEW s \in Slot, PopDeferred(s)
  PROVE  On(queue') \cup On(deferred') = On(queue) \cup On(deferred)
<1>1. queue \in Seq(Message) /\ deferred \in Seq(Tasks) BY DEF TypeOK, Tasks
<1>2. CASE deferred = <<>> BY <1>2 DEF PopDeferred
<1>3. CASE deferred # <<>>
  <2>1. PICK at \in 1 .. Len(deferred) :
          queue' = <<deferred[at]>> \o queue /\ deferred' = DropAt(deferred, at)
    BY <1>3, PopFrom
  <2>2. deferred[at] \in Message
    <3>1. deferred[at] \in Tasks BY <1>1, ElementOfSeq
    <3> QED BY <3>1, Names DEF Tasks
  <2> DEFINE m == deferred[at]  c == <<m>>
  <2>3. c \in Seq(Message) /\ Len(c) = 1 /\ c[1] = m BY <2>2
  <2>4. On(c) = {m} BY <2>3 DEF On
  <2>5. queue' = c \o queue BY <2>1
  <2> HIDE DEF c
  <2>6. On(queue') = {m} \cup On(queue) BY <1>1, <2>3, <2>4, <2>5, OnConcat
  <2>7. On(deferred) = On(deferred') \cup {m} BY <1>1, <2>1, OnDrop
  <2> QED BY <2>6, <2>7
<1> QED BY <1>2, <1>3

\* A gone reader's requests stay called off where no reader goes.
LEMMA CalledOffKeeps ==
  ASSUME TypeOK, CalledOff, escaped \subseteq escaped',
         \A r \in Request : reader'[r] = "gone" => reader[r] = "gone" /\ (Task(r) \in carried' => Task(r) \in carried),
         \A s \in Slot : \/ slotId'[s] \in {slotId[s], <<>>}
                         \/ slotId'[s] \in Id /\ Task(slotId'[s][1]) \in carried,
         \A i \in Id : Cancel(i) \in carried => Cancel(i) \in carried' \/ \A s \in Slot : slotId'[s] # i
  PROVE  CalledOff'
<1>1. \A s \in Slot : slotId[s] = slot[s].id /\ slotId'[s] = slot'[s].id /\ slotId[s] \in Id \cup {<<>>}
  BY DEF slotId, TypeOK
<1>2. \A r \in Request : Task(r) \in carried' /\ reader'[r] = "gone" => r \in escaped'
  BY DEF CalledOff
<1>3. ASSUME NEW s \in Slot, slotId'[s] # <<>>, reader'[slotId'[s][1]] = "gone"
      PROVE  Cancel(slotId'[s]) \in carried' \/ slotId'[s][1] \in escaped'
  <2>1. slotId'[s] \in Id /\ slotId'[s][1] \in Request BY <1>1, <1>3, Names
  <2>2. reader[slotId'[s][1]] = "gone" BY <1>3, <2>1
  <2>3. CASE slotId'[s] = slotId[s]
    <3>1. Cancel(slotId[s]) \in carried \/ slotId[s][1] \in escaped
      BY <1>1, <1>3, <2>2, <2>3 DEF CalledOff
    <3> QED BY <2>1, <2>3, <3>1
  <2>4. CASE Task(slotId'[s][1]) \in carried BY <2>1, <2>2, <2>4 DEF CalledOff
  <2> QED BY <1>3, <2>3, <2>4
<1>4. \A r : Task(r)' = Task(r) /\ \A i : Cancel(i)' = Cancel(i) OBVIOUS
<1> QED BY <1>1, <1>2, <1>3, <1>4 DEF CalledOff, Task, Cancel, Top

\* Children stay watched where no child begins, where a slot that ends sends
\* its last and one that works on stays what its children wait for.
LEMMA WatchedKeeps ==
  ASSUME Watched,
         \A i \in owing' : i[1] \in waits' => i \in owing,
         \A r \in waits' : r \in erred => r \in erred',
         \A s \in Slot : slot'[s].st = "wait" /\ slot'[s].id[1] \in waits' =>
           slot'[s].id = slot[s].id /\ slot[s].st = "wait" /\ slot[s].id[1] \in waits,
         \A t \in Slot : \/ /\ slot'[t].id = slot[t].id
                            /\ \/ slot[t].st \in Parental => slot'[t].st \in Parental'
                               \/ \A s \in Slot : slot'[s].st = "wait" => slot[t].id # Top(slot[s].id[1])
                         \/ slot[t].id[1] \in waits' => slot[t].id[1] \in erred' \/ slot[t].id \notin owing'
  PROVE  Watched'
<1> SUFFICES ASSUME NEW s \in Slot, slot'[s].st = "wait", slot'[s].id[1] \in waits',
                    slot'[s].id[1] \notin erred', Top(slot'[s].id[1]) \in owing'
             PROVE  \E t \in Slot : slot'[t].id = Top(slot'[s].id[1]) /\ slot'[t].st \in Parental'
  BY DEF Watched, Top
<1> DEFINE r == slot'[s].id[1]
<1>1. slot[s].st = "wait" /\ slot[s].id[1] = r /\ r \in waits /\ Top(r)[1] = r BY DEF Top
<1>2. r \notin erred /\ Top(r) \in owing BY <1>1
<1>3. PICK t \in Slot : slot[t].id = Top(r) /\ slot[t].st \in Parental BY <1>1, <1>2 DEF Watched
<1> QED BY <1>1, <1>3

\* A step that moves no slot, no result and no reader, and loses no message.
LEMMA StayKeeps ==
  ASSUME ServerInv, ChildInv, UNCHANGED <<slot, results>>, UNCHANGED readVars,
         carried \ {NextResponse} \subseteq carried', carried' \subseteq carried \cup {NextResponse},
         main' = "sample" => main = "sample"
  PROVE  CalledOff' /\ Watched'
<1>0. TypeOK /\ CalledOff /\ Watched BY DEF ServerInv, ChildInv
<1>1. UNCHANGED <<waiting, reader, got, escaped, slotId, waits, owing, erred>>
  BY DEF readVars, slotId, waits, owing, erred, Final
<1>2. CalledOff'
  <2>1. \A r \in Request : Task(r) \in carried' => Task(r) \in carried BY Names
  <2>2. \A i \in Id : Cancel(i) \in carried => Cancel(i) \in carried'
    <3>1. \A i : Cancel(i) # NextResponse BY Names
    <3> QED BY <3>1
  <2>3. /\ escaped \subseteq escaped' /\ \A s \in Slot : slotId'[s] \in {slotId[s], <<>>}
        /\ \A r \in Request : reader'[r] = "gone" => reader[r] = "gone"
    BY <1>1
  <2> QED BY <1>0, <2>1, <2>2, <2>3, CalledOffKeeps
<1>3. Watched'
  <2>1. Parental \subseteq Parental' BY DEF Parental
  <2> QED BY <1>0, <1>1, <2>1, WatchedKeeps
<1> QED BY <1>2, <1>3

\* The main thread goes on and no slot changes.
LEMMA StayStep ==
  ASSUME ServerInv, ChildInv,
         \/ StartLoop \/ Exit \/ Wake \/ FallAsleep \/ LeaveSleep \/ Terminate
         \/ Take \/ Drained \/ Defer \/ StartBatch \/ DecodeFails \/ DecodeNothing \/ UNCHANGED vars
  PROVE  ChildInv'
<1>0. TypeOK /\ Shape /\ Stages /\ Starving /\ queue \in Seq(Message) /\ deferred \in Seq(Tasks) /\ hand \in Message
  BY DEF ServerInv, ChildInv, TypeOK, Tasks
<1>1. UNCHANGED <<slot, results>> /\ UNCHANGED readVars
  BY DEF StartLoop, Exit, Wake, FallAsleep, LeaveSleep, Terminate, Take, Drained, Defer,
         StartBatch, DecodeFails, DecodeNothing, KillSwitch, vars, readVars
<1>2. carried' = On(queue') \cup On(deferred') \cup (IF main' = "handle" THEN {hand'} ELSE {})
  BY DEF carried, On
<1>3. \A s \in Slot : LeftAlone(s)' <=> LeftAlone(s) BY <1>1 DEF LeftAlone, InSlot, Top
<1> SUFFICES /\ carried \ {NextResponse} \subseteq carried' /\ carried' \subseteq carried \cup {NextResponse}
             /\ main' = "sample" => main = "sample"
             /\ Stages' /\ Starving'
  BY <1>1, StayKeeps DEF ChildInv
<1>4. CASE UNCHANGED <<queue, deferred, main, todo, hand, empties>>
  <2>1. carried' = carried BY <1>2, <1>4 DEF carried
  <2>2. Stages' /\ Starving' BY <1>0, <1>1, <1>3, <1>4 DEF Stages, Starving
  <2> QED BY <1>4, <2>1, <2>2
<1>5. CASE StartLoop \/ Exit \/ Wake \/ FallAsleep \/ LeaveSleep
  <2>1. /\ UNCHANGED <<queue, deferred, hand, empties>> /\ main' \in {"drain", "exited", "asleep"}
        /\ main \in {"boot", "drain", "idle", "asleep"}
    BY <1>5 DEF StartLoop, Exit, Wake, FallAsleep, LeaveSleep, Goto
  <2>2. carried' = carried BY <1>2, <2>1 DEF carried
  <2>3. Stages' BY <1>0, <1>1, <2>1 DEF Stages
  <2>4. Starving' BY <1>0, <1>1, <2>1 DEF Starving
  <2> QED BY <2>1, <2>2, <2>3, <2>4
<1>6. CASE Take
  <2>1. /\ UNCHANGED <<deferred, todo, empties>> /\ main = "drain" /\ queue # <<>> /\ queue' = Tail(queue)
        /\ IF Head(queue) = NextResponse THEN UNCHANGED <<main, hand>>
                                         ELSE main' = "handle" /\ hand' = Head(queue)
    BY <1>6 DEF Take
  <2>2. On(queue) = On(queue') \cup {Head(queue)} BY <1>0, <2>1, OnTail
  <2>3. carried \ {NextResponse} \subseteq carried' /\ carried' \subseteq carried
    BY <1>2, <2>1, <2>2 DEF carried
  <2>4. Stages' BY <1>0, <1>1, <2>1 DEF Stages
  <2>5. Starving' BY <1>0, <1>1, <2>1 DEF Starving
  <2> QED BY <2>1, <2>3, <2>4, <2>5
<1>7. CASE Drained
  <2>1. /\ UNCHANGED <<deferred, hand, empties>> /\ main = "drain" /\ queue = <<>>
        /\ \/ Idles = Slot /\ queue' = queue /\ main' = "idle" /\ todo' = todo
           \/ /\ Idles # Slot /\ queue' = <<NextResponse>>
              /\ todo' = {s \in Slot : Shared(s)} /\ main' = "shift"
    BY <1>7 DEF Drained, Goto
  <2>2. On(queue) = {} /\ On(queue') \subseteq {NextResponse} BY <2>1 DEF On
  <2>3. carried \subseteq carried' /\ carried' \subseteq carried \cup {NextResponse}
    BY <1>2, <2>1, <2>2 DEF carried
  <2>4. main' = "shift" => \A s \in todo' : slot[s].st = "gen" BY <2>1 DEF Shared
  <2>5. Stages' BY <1>0, <1>1, <2>1, <2>4 DEF Stages
  <2>6. main' = "shift" /\ empties > 0 => \E s \in Slot : slot[s].st = "wait"
    BY <1>0, <2>1 DEF Idles, Busy, Starving
  <2>7. Starving' BY <1>0, <1>1, <2>1, <2>6 DEF Starving
  <2> QED BY <2>1, <2>3, <2>5, <2>7
<1>8. CASE Defer
  <2>1. /\ UNCHANGED <<queue, empties>> /\ main = "handle" /\ hand.type = "task"
        /\ deferred' = Append(deferred, hand) /\ main' = "drain" /\ hand' = NextResponse
    BY <1>8 DEF Defer, Handled
  <2>2. hand \in Tasks BY <1>0, <2>1, Names DEF Tasks
  <2>3. On(deferred') = On(deferred) \cup {hand} BY <1>0, <2>1, <2>2, OnAppend
  <2>4. carried' = carried BY <1>2, <2>1, <2>3 DEF carried
  <2>5. Stages' BY <1>0, <1>1, <2>1, Names DEF Stages
  <2>6. Starving' BY <1>0, <1>1, <2>1 DEF Starving
  <2> QED BY <2>1, <2>4, <2>5, <2>6
<1>9. CASE DecodeFails
  <2>1. UNCHANGED <<queue, deferred, hand>> /\ main = "decode" /\ main' = "fail" /\ empties' = 0
    BY <1>9 DEF DecodeFails
  <2>2. carried' = carried BY <1>2, <2>1 DEF carried
  <2>3. Stages' BY <1>0, <1>1, <2>1 DEF Stages
  <2>4. Starving' BY <1>0, <1>1, <2>1 DEF Starving
  <2> QED BY <2>1, <2>2, <2>3, <2>4
<1>10. CASE DecodeNothing
  <2>1. /\ UNCHANGED <<queue, deferred, hand>> /\ main = "decode" /\ empties' = empties + 1
        /\ main' = IF empties + 1 > 3 THEN "aborted" ELSE "idle"
        /\ \A s \in Slot : slot[s].st \in {"idle", "wait"}
    BY <1>10 DEF DecodeNothing, KillSwitch, Goto, BatchEmpty
  <2>2. carried' = carried BY <1>2, <2>1 DEF carried
  <2>3. Stages' BY <1>0, <1>1, <2>1 DEF Stages
  <2>4. main' = "aborted" => \E s \in Slot : LeftAlone(s)
    <3> SUFFICES ASSUME main' = "aborted" PROVE \E s \in Slot : LeftAlone(s) OBVIOUS
    <3>1. empties > 0 BY <1>0, <2>1 DEF TypeOK
    <3>2. PICK s \in Slot : slot[s].st = "wait" BY <1>0, <2>1, <3>1 DEF Starving
    <3>3. ASSUME NEW t \in Slot, slot[t].id = Top(slot[s].id[1]) PROVE FALSE
      <4>1. slot[t].id # <<>> /\ slot[t].id[2] = 0 BY <3>3 DEF Top
      <4>2. slot[t].st = "wait" BY <1>0, <2>1, <4>1 DEF Shape
      <4> QED BY <1>0, <4>1, <4>2 DEF Stages
    <3> QED BY <3>2, <3>3 DEF LeftAlone, InSlot
  <2>5. Starving' BY <1>0, <1>1, <1>3, <2>1, <2>4 DEF Starving
  <2> QED BY <2>1, <2>2, <2>3, <2>5
<1>11. CASE Terminate \/ UNCHANGED vars
  <2>1. UNCHANGED <<queue, deferred, main, todo, hand, empties>> BY <1>11 DEF Terminate, vars
  <2> QED BY <1>4, <2>1
<1>12. CASE StartBatch
  <2>1. /\ UNCHANGED <<queue, deferred, hand, empties>> /\ main = "shift"
        /\ todo' \subseteq {s \in Slot : slot[s].st = "started"} /\ main' \in {"prompt", "decode"}
    BY <1>12 DEF StartBatch, Loop
  <2>2. carried' = carried BY <1>2, <2>1 DEF carried
  <2>3. Stages' BY <1>0, <1>1, <2>1 DEF Stages
  <2>4. Starving' BY <1>0, <1>1, <2>1 DEF Starving
  <2> QED BY <2>1, <2>2, <2>3, <2>4
<1> QED BY <1>5, <1>6, <1>7, <1>8, <1>9, <1>10, <1>11, <1>12

\* A slot is released and its task was cancelled, failed or answered.
LEMMA FreeKeeps ==
  ASSUME ServerInv, ChildInv, NEW s \in Slot, slot[s].st # "idle",
         slot' = [slot EXCEPT ![s] = Free], UNCHANGED <<waiting, reader, escaped>>,
         carried' \subseteq carried, carried \ {Cancel(slot[s].id)} \subseteq carried',
         owing' \subseteq owing, erred \subseteq erred',
         slot[s].id[1] \in waits => slot[s].id[1] \in erred' \/ slot[s].id \notin owing',
         main' = "sample" => main = "sample"
  PROVE  /\ CalledOff' /\ Watched'
         /\ slot'[s] = Free /\ \A t \in Slot : t # s => slot'[t] = slot[t]
<1>0. TypeOK /\ Apart /\ CalledOff /\ Watched BY DEF ServerInv, ChildInv
<1>1. slot'[s] = Free /\ \A t \in Slot : t # s => slot'[t] = slot[t] BY <1>0 DEF TypeOK
<1>2. waits' = waits BY DEF waits
<1>3. slotId'[s] = <<>> /\ slotId[s] = slot[s].id /\ \A t \in Slot : t # s => slotId'[t] = slotId[t]
  BY <1>1 DEF slotId, Free
<1>4. CalledOff'
  <2>1. \A i \in Id : Cancel(i) \in carried => Cancel(i) \in carried' \/ \A t \in Slot : slotId'[t] # i
    <3> SUFFICES ASSUME NEW i \in Id, Cancel(i) \in carried, NEW t \in Slot, slotId'[t] = i
                 PROVE  Cancel(i) \in carried'
      OBVIOUS
    <3>1. i # <<>> /\ Cancel(i).id = i /\ Cancel(slot[s].id).id = slot[s].id BY Names DEF Cancel
    <3>2. slotId[t] = i /\ t # s BY <1>3, <3>1
    <3>3. slotId[s] # i BY <1>0, <3>1, <3>2 DEF Apart
    <3> QED BY <1>3, <3>1, <3>3
  <2>2. /\ escaped \subseteq escaped' /\ \A t \in Slot : slotId'[t] \in {slotId[t], <<>>}
        /\ \A r \in Request : reader'[r] = "gone" => reader[r] = "gone" /\ (Task(r) \in carried' => Task(r) \in carried)
    BY <1>3
  <2> QED BY <1>0, <2>1, <2>2, CalledOffKeeps
<1>5. Watched'
  <2>1. Parental \subseteq Parental' BY DEF Parental
  <2>2. \A t \in Slot : slot'[t].st = "wait" => slot'[t] = slot[t] BY <1>1 DEF Free
  <2>3. \A t \in Slot : \/ slot'[t] = slot[t]
                        \/ slot[t].id[1] \in waits' => slot[t].id[1] \in erred' \/ slot[t].id \notin owing'
    BY <1>1, <1>2
  <2> QED BY <1>0, <1>2, <2>1, <2>2, <2>3, WatchedKeeps
<1> QED BY <1>1, <1>4, <1>5

\* Slots that are released, or dropped from a loop, spoil no stage.
LEMMA StagesKeep ==
  ASSUME Stages, \A t \in Slot : slot'[t] \in {slot[t], Free},
         main' \in {"shift", "prompt", "sample"} =>
           main' = main /\ \A t \in todo' : t \in todo /\ slot'[t] = slot[t],
         hand'.type # "cancel"
  PROVE  Stages'
<1>1. \A t \in Slot : /\ slot'[t].st \in {"wait", "done"} => slot'[t].n = 0
                      /\ slot'[t].st = "wait" => slot'[t].id[2] # 0
  BY DEF Stages, Free
<1>2. main' = "prompt" => \A t \in todo' : slot'[t].st = "started" BY DEF Stages
<1>3. main' = "sample" => \A t \in todo' : slot'[t].st \in {"done", "gen"} BY DEF Stages
<1>4. main' = "shift" => \A t \in todo' : slot'[t].st = "gen" BY DEF Stages
<1> QED BY <1>1, <1>2, <1>3, <1>4 DEF Stages

\* A slot's request is cancelled, or a failed launch undone.
LEMMA CancelsStep ==
  ASSUME ServerInv, ChildInv, HandleCancel \/ Undo
  PROVE  ChildInv'
<1>0. /\ TypeOK /\ Shape /\ Stages /\ Starving /\ Placed /\ Singles /\ Called /\ CalledOff /\ Watched /\ Undoing
      /\ deferred \in Seq(Tasks) /\ hand \in Message
  BY DEF ServerInv, ChildInv, TypeOK, Tasks, Placed
<1>1. UNCHANGED <<empties, results>> /\ UNCHANGED readVars BY DEF HandleCancel, Undo
<1>2. UNCHANGED <<waiting, reader, escaped, waits, owing, erred>>
  BY <1>1 DEF readVars, waits, owing, erred, Final
<1>3. carried' = On(queue') \cup On(deferred') \cup (IF main' = "handle" THEN {hand'} ELSE {})
  BY DEF carried, On
<1>4. CASE HandleCancel /\ UNCHANGED <<slot, queue, deferred>> /\ \A s \in Slot : slot[s].id # hand.id
  <2>1. main = "handle" /\ main' = "drain" /\ hand.type = "cancel" /\ hand' = NextResponse
    BY <1>4 DEF HandleCancel, Handled
  <2>2. PICK i \in Id : hand = Cancel(i) /\ hand.id = i BY <1>0, <2>1, Names
  <2>3. carried' \subseteq carried /\ carried \ {hand} \subseteq carried' BY <1>3, <1>4, <2>1 DEF carried
  <2>4. slotId' = slotId /\ \A s \in Slot : slotId[s] # i BY <1>4, <2>2 DEF slotId
  <2>5. CalledOff'
    <3>1. \A k \in Id : Cancel(k) \in carried => Cancel(k) \in carried' \/ \A s \in Slot : slotId'[s] # k
      <4>1. \A k \in Id : k # i => Cancel(k) # hand BY <2>2, Names
      <4> QED BY <2>3, <2>4, <4>1
    <3>2. /\ escaped \subseteq escaped' /\ \A s \in Slot : slotId'[s] \in {slotId[s], <<>>}
          /\ \A r \in Request : reader'[r] = "gone" => reader[r] = "gone" /\ (Task(r) \in carried' => Task(r) \in carried)
      BY <1>2, <2>3, <2>4
    <3> QED BY <1>0, <3>1, <3>2, CalledOffKeeps
  <2>6. Watched'
    <3>1. Parental \subseteq Parental' BY <2>1 DEF Parental
    <3> QED BY <1>0, <1>2, <1>4, <3>1, WatchedKeeps
  <2>7. Stages' BY <1>0, <1>4, <2>1, Names DEF Stages
  <2>8. Starving' BY <1>0, <1>1, <1>4, <2>1 DEF Starving
  <2> QED BY <2>5, <2>6, <2>7, <2>8 DEF ChildInv
<1>5. CASE HandleCancel /\ \E s \in Slot : slot[s].id = hand.id /\ Release(s)
  <2>1. main = "handle" /\ main' = "drain" /\ hand.type = "cancel" /\ hand' = NextResponse
    BY <1>5 DEF HandleCancel, Handled
  <2>2. PICK i \in Id : hand = Cancel(i) /\ hand.id = i BY <1>0, <2>1, Names
  <2>3. PICK s \in Slot : slot[s].id = i /\ slot' = [slot EXCEPT ![s] = Free] /\ PopDeferred(s)
    BY <1>5, <2>2 DEF Release
  <2>4. i # <<>> /\ i[1] \notin waits BY <1>0, <2>1, <2>2, Names DEF Called, waits
  <2>5. slot[s].st # "idle" BY <1>0, <2>3, <2>4 DEF Shape
  <2>6. On(queue') \cup On(deferred') = On(queue) \cup On(deferred) BY <1>0, <2>3, PopKeeps
  <2>7. carried' \subseteq carried /\ carried \ {Cancel(slot[s].id)} \subseteq carried'
    BY <1>3, <2>1, <2>2, <2>3, <2>6 DEF carried
  <2>8. CalledOff' /\ Watched' /\ slot'[s] = Free /\ \A t \in Slot : t # s => slot'[t] = slot[t]
    BY <1>2, <2>1, <2>3, <2>4, <2>5, <2>7, FreeKeeps
  <2>9. Stages' BY <1>0, <2>1, <2>8, Names DEF Stages, Free
  <2>10. Starving' BY <1>0, <1>1, <2>1, <2>8 DEF Starving, Free
  <2> QED BY <2>8, <2>9, <2>10 DEF ChildInv
<1>6. CASE Undo
  <2>1. /\ main = "undo" /\ Release(Cur) /\ Advance("drain")
        /\ hand' = IF main' = "drain" THEN NextResponse ELSE hand
    BY <1>6 DEF Undo
  <2>2. Cur \in todo /\ todo \subseteq Slot BY <1>0, <2>1, CurIn DEF TypeOK, Shape
  <2>3. main' \in {"drain", "undo"} BY <2>1 DEF Advance
  <2>4. PICK s \in Slot : s \in todo /\ slot' = [slot EXCEPT ![s] = Free] /\ PopDeferred(s)
    BY <2>1, <2>2 DEF Release
  <2>5. PICK p \in Request : hand = Task(p) /\ hand.id[1] = p BY <1>0, <2>1, Names DEF Undoing, Tasks
  <2>6. slot[s].id \in Ids(p) /\ slot[s].id[1] = p /\ (p \in waits => p \in erred)
    <3>1. slotId[s] = slot[s].id BY DEF slotId
    <3>2. slotId[s] \in Ids(p) BY <1>0, <2>1, <2>4, <2>5 DEF Undoing
    <3>3. p \in waits => p \in erred BY <1>0, <2>1, <2>5 DEF Undoing
    <3> QED BY <3>1, <3>2, <3>3, Names
  <2>7. slot[s].st # "idle" BY <1>0, <2>1, <2>4 DEF Shape
  <2>8. On(queue') \cup On(deferred') = On(queue) \cup On(deferred) BY <1>0, <2>4, PopKeeps
  <2>9. carried' = carried BY <1>3, <2>1, <2>3, <2>8 DEF carried
  <2>10. CalledOff' /\ Watched' /\ slot'[s] = Free /\ \A t \in Slot : t # s => slot'[t] = slot[t]
    BY <1>2, <2>3, <2>4, <2>6, <2>7, <2>9, FreeKeeps
  <2>11. Stages'
    <3>1. \A t \in Slot : slot'[t] \in {slot[t], Free} BY <2>10
    <3>2. hand'.type # "cancel" /\ main' \notin {"shift", "prompt", "sample"} BY <2>1, <2>3, <2>5, Names
    <3> QED BY <1>0, <3>1, <3>2, StagesKeep
  <2>12. Starving' BY <1>0, <1>1, <2>3, <2>10 DEF Starving, Free
  <2> QED BY <2>10, <2>11, <2>12 DEF ChildInv
<1>7. HandleCancel => \/ \E s \in Slot : slot[s].id = hand.id /\ Release(s)
                      \/ UNCHANGED <<slot, queue, deferred>> /\ \A s \in Slot : slot[s].id # hand.id
  BY DEF HandleCancel
<1> QED BY <1>4, <1>5, <1>6, <1>7

\* A slot's request ends in a loop of update_slots.
LEMMA EndStep ==
  ASSUME ServerInv, ChildInv, main # "undo", NEW s \in Slot, NEW kind \in {"final", "error"},
         Ends(s, kind), Onward(s), UNCHANGED hand, UNCHANGED <<loopVars, empties, readVars>>
  PROVE  ChildInv'
<1>0. /\ TypeOK /\ Shape /\ Stages /\ Starving /\ Owed /\ Kept /\ Ordered
  BY DEF ServerInv, ChildInv
<1>1. UNCHANGED <<waiting, reader, escaped, got, waits>> BY DEF readVars, waits
<1>3. /\ s \in todo /\ todo' \subseteq todo \ {s} /\ main \in {"shift", "prompt", "fail", "sample"}
      /\ \/ main' = main \/ main' = "idle"
         \/ main = "prompt" /\ main' = "decode"
  BY DEF Onward
<1>4. /\ slot' = [slot EXCEPT ![s] = Free] /\ PopDeferred(s)
      /\ Send(kind, slot[s].id) /\ slot[s].st # "idle"
  BY <1>0, <1>3 DEF Ends, Release, Shape
<1> DEFINE i == slot[s].id
<1>5. i \in Id /\ i \in owing
  <2>1. i \in Id /\ slotId[s] = i BY <1>0, <1>4 DEF Shape, slotId
  <2> QED BY <1>0, <2>1, Names DEF Owed
<1>6. Send(kind, i) BY <1>4
<1> HIDE DEF i
<1>7. /\ owing' \subseteq owing /\ erred \subseteq erred'
      /\ i \in waiting /\ kind = "error" => i[1] \in erred'
      /\ i \in waiting /\ kind = "final" => i \notin owing'
  BY <1>0, <1>1, <1>5, <1>6, SendEffect
<1>8. i[1] \in waits => i[1] \in erred' \/ i \notin owing'
  <2>1. i[1] \in waits => i \in waiting BY <1>0, <1>5, Names DEF Kept
  <2> QED BY <1>7, <2>1
<1>9. carried' = carried
  <2>1. carried' = On(queue') \cup On(deferred') \cup (IF main' = "handle" THEN {hand'} ELSE {})
    BY DEF carried, On
  <2>2. On(queue') \cup On(deferred') = On(queue) \cup On(deferred) BY <1>0, <1>4, PopKeeps
  <2> QED BY <1>3, <2>1, <2>2 DEF carried
<1>10. CalledOff' /\ Watched' /\ slot'[s] = Free /\ \A t \in Slot : t # s => slot'[t] = slot[t]
  BY <1>1, <1>3, <1>4, <1>7, <1>8, <1>9, FreeKeeps DEF i
<1>12. Stages'
  <2>2. \A t \in todo' : t \in todo /\ slot'[t] = slot[t] BY <1>0, <1>3, <1>10 DEF TypeOK
  <2>3. \A t \in Slot : slot'[t] \in {slot[t], Free} BY <1>10
  <2>4. main' \in {"shift", "prompt", "sample"} => main' = main
    <3>1. \/ main' = main
          \/ main' = "idle"
          \/ main' = "decode"
      BY <1>3
    <3> QED BY <3>1
  <2>5. hand'.type # "cancel"
    <3>1. main # "handle" BY <1>3
    <3> QED BY <1>0, <3>1 DEF Stages
  <2> QED BY <1>0, <2>2, <2>3, <2>4, <2>5, StagesKeep
<1>13. Starving'
  <2>1. main \in {"shift", "prompt"} => ~(empties > 0)
    <3>1. main \in {"shift", "prompt"} => slot[s].st \in {"started", "gen"} BY <1>0, <1>3 DEF Stages
    <3> QED BY <1>0, <3>1 DEF Starving
  <2> QED BY <1>0, <1>3, <1>10, <2>1 DEF Starving, Free
<1> QED BY <1>10, <1>12, <1>13 DEF ChildInv

\* A slot works on, and may send a partial result.
LEMMA WorkStep ==
  ASSUME ServerInv, ChildInv, main \in {"prompt", "sample"}, NEW c \in Slot, Onward(c),
         UNCHANGED <<hand, queue, deferred>>, UNCHANGED <<loopVars, empties, readVars>>,
         NEW st \in {"started", "done", "gen"}, NEW n \in 0 .. MaxSteps,
         slot' = [slot EXCEPT ![c].st = st, ![c].n = n],
         st = "done" => n = 0 /\ main = "prompt",
         st # slot[c].st => IF main = "prompt" THEN slot[c].st = "started" /\ st = "done" ELSE st = "gen",
         results' = results \/ Send("partial", slot[c].id)
  PROVE  ChildInv'
<1>0. TypeOK /\ Shape /\ Stages /\ Starving /\ CalledOff /\ Watched /\ Owed /\ Ordered
  BY DEF ServerInv, ChildInv
<1>1. UNCHANGED <<waiting, reader, escaped, got, waits>> BY DEF readVars, waits
<1>3. /\ c \in todo /\ todo' \subseteq todo \ {c}
      /\ main' = main \/ main' = IF main = "prompt" THEN "decode" ELSE "idle"
  BY DEF Onward
<1>5. /\ slot'[c].st = st /\ slot'[c].n = n /\ slot'[c].id = slot[c].id
      /\ \A t \in Slot : t # c => slot'[t] = slot[t]
  <2>1. slot[c] \in [st : {"idle", "wait", "started", "done", "gen"}, id : Id \cup {<<>>}, n : 0 .. MaxSteps]
        /\ slot \in [Slot -> [st : {"idle", "wait", "started", "done", "gen"},
                              id : Id \cup {<<>>}, n : 0 .. MaxSteps]]
    BY <1>0 DEF TypeOK
  <2> DEFINE v == [slot[c] EXCEPT !.st = st, !.n = n]
  <2>2. slot' = [slot EXCEPT ![c] = v] BY <2>1
  <2>3. v.st = st /\ v.n = n /\ v.id = slot[c].id BY <2>1
  <2> HIDE DEF v
  <2> QED BY <2>1, <2>2, <2>3
<1>6. slot[c].st \in (IF main = "prompt" THEN {"started"} ELSE {"done", "gen"})
  BY <1>0, <1>3 DEF Stages
<1>8. carried' = carried
  <2>1. carried' = On(queue') \cup On(deferred') \cup (IF main' = "handle" THEN {hand'} ELSE {})
    BY DEF carried, On
  <2> QED BY <1>3, <2>1 DEF carried
<1>9. owing' \subseteq owing /\ erred \subseteq erred'
  <2>1. CASE results' = results
    <3>1. owing' = owing /\ erred' = erred BY <1>1, <2>1 DEF owing, erred, Final
    <3> QED BY <3>1
  <2>2. CASE Send("partial", slot[c].id)
    <3> DEFINE i == slot[c].id
    <3>1. i \in Id /\ slotId[c] = i BY <1>0, <1>6 DEF Shape, slotId
    <3>2. i \in owing BY <1>0, <3>1, Names DEF Owed
    <3>3. Send("partial", i) BY <2>2
    <3> HIDE DEF i
    <3> QED BY <1>0, <1>1, <3>1, <3>2, <3>3, SendEffect
  <2> QED BY <2>1, <2>2
<1>10. \A t \in Slot : slot'[t].id = slot[t].id /\ (slot'[t].st = "wait" => slot[t].st = "wait")
  BY <1>5
<1>11. CalledOff'
  <2>1. slotId' = slotId BY <1>10 DEF slotId
  <2> QED BY <1>0, <1>1, <1>8, <2>1, CalledOffKeeps
<1>12. Watched'
  <2>1. \A t \in Slot : slot[t].st \in Parental => slot'[t].st \in Parental'
    <3> SUFFICES ASSUME NEW t \in Slot, slot[t].st \in Parental PROVE slot'[t].st \in Parental' OBVIOUS
    <3>1. Parental \subseteq Parental' BY <1>3 DEF Parental
    <3>2. CASE t # c BY <1>5, <3>1, <3>2
    <3>3. CASE t = c
      <4>1. main = "prompt"
        <5>1. main = "sample" => slot[c].st # "started" BY <1>6
        <5> QED BY <3>3, <5>1 DEF Parental
      <4>2. Parental' = {"started", "done"} BY <1>3, <4>1 DEF Parental
      <4> QED BY <1>5, <1>6, <3>3, <4>1, <4>2 DEF Parental
    <3> QED BY <3>2, <3>3
  <2>2. \A i \in owing' : i[1] \in waits' => i \in owing BY <1>9
  <2>3. \A r \in waits' : r \in erred => r \in erred' BY <1>9
  <2>4. \A s \in Slot : slot'[s].st = "wait" /\ slot'[s].id[1] \in waits' =>
           slot'[s].id = slot[s].id /\ slot[s].st = "wait" /\ slot[s].id[1] \in waits
    <3>1. waits' = waits BY <1>1
    <3> TAKE s \in Slot
    <3>2. slot'[s].id = slot[s].id /\ (slot'[s].st = "wait" => slot[s].st = "wait") BY <1>10
    <3> QED BY <3>1, <3>2
  <2> QED BY <1>0, <1>10, <2>1, <2>2, <2>3, <2>4, WatchedKeeps
<1>13. Stages'
  <2>1. \A t \in todo' : t \in todo /\ slot'[t] = slot[t] BY <1>0, <1>3, <1>5 DEF TypeOK
  <2>2. \A t \in Slot : /\ slot'[t].st \in {"wait", "done"} => slot'[t].n = 0
                        /\ slot'[t].st = "wait" => slot'[t].id[2] # 0
    <3> TAKE t \in Slot
    <3>1. CASE t # c BY <1>0, <1>5, <3>1 DEF Stages
    <3>2. CASE t = c BY <1>5, <3>2
    <3> QED BY <3>1, <3>2
  <2>3. main' = "prompt" => \A t \in todo' : slot'[t].st = "started"
    BY <1>0, <1>3, <2>1 DEF Stages
  <2>4. main' = "sample" => \A t \in todo' : slot'[t].st \in {"done", "gen"}
    BY <1>0, <1>3, <2>1 DEF Stages
  <2>5. hand'.type # "cancel" BY <1>0 DEF Stages
  <2>6. main' # "shift" BY <1>3
  <2> QED BY <2>2, <2>3, <2>4, <2>5, <2>6 DEF Stages
<1>14. Starving'
  <2>1. ~(empties > 0) BY <1>0, <1>6 DEF Starving
  <2> QED BY <1>3, <2>1 DEF Starving
<1> QED BY <1>11, <1>12, <1>13, <1>14 DEF ChildInv

\* The loops of update_slots.
LEMMA LoopStep ==
  ASSUME ServerInv, ChildInv, FillBatch \/ FailSlot \/ Sample \/ ShiftFails
  PROVE  ChildInv'
<1>0. TypeOK /\ Shape /\ Stages BY DEF ServerInv, ChildInv
<1>1. main # "undo" /\ UNCHANGED hand /\ UNCHANGED <<loopVars, empties, readVars>>
  BY DEF FillBatch, FailSlot, Sample, ShiftFails
<1> DEFINE s == slot[Cur]
<1>3. main # "shift" =>
        s \in [st : {"idle", "wait", "started", "done", "gen"}, id : Id \cup {<<>>}, n : 0 .. MaxSteps]
        /\ MaxSteps \in Nat /\ Cur \in Slot
        /\ slot \in [Slot -> [st : {"idle", "wait", "started", "done", "gen"},
                              id : Id \cup {<<>>}, n : 0 .. MaxSteps]]
  BY <1>0, CurIn, InferenceAssumption DEF TypeOK, Shape, FillBatch, FailSlot, Sample, ShiftFails
<1>4. CASE FailSlot
  <2>1. Ends(Cur, "error") /\ Advance("idle") /\ main = "fail" BY <1>4 DEF FailSlot
  <2>2. Cur \in Slot /\ Onward(Cur) BY <1>0, <2>1, OnwardCur
  <2> HIDE DEF Cur
  <2> QED BY <1>1, <2>1, <2>2, EndStep
<1>5. CASE FillBatch
  <2>1. main = "prompt" /\ todo # {} /\ todo \subseteq Slot BY <1>0, <1>5 DEF FillBatch, TypeOK, Shape
  <2>2. Cur \in Slot /\ Cur \in todo /\ s.st = "started" BY <1>5, <2>1, CurIn DEF FillBatch
  <2>3. Onward(Cur)
    <3>1. Advance("decode") => Onward(Cur) BY <1>0, <2>1, OnwardCur
    <3>2. todo' = {} /\ main' = "decode" => Onward(Cur)
      <4> HIDE DEF Cur
      <4> QED BY <2>1, <2>2 DEF Onward
    <3> QED BY <1>5, <3>1, <3>2 DEF FillBatch
  <2> HIDE DEF Cur
  <2>4. CASE \E kind \in {"final", "error"} : Ends(Cur, kind) BY <1>1, <2>1, <2>2, <2>3, <2>4, EndStep
  <2>5. CASE UNCHANGED <<slot, queue, deferred, results>>
    <3>1. slot' = [slot EXCEPT ![Cur].st = s.st, ![Cur].n = s.n] /\ s.n \in 0 .. MaxSteps
      BY <1>3, <2>1, <2>2, <2>5
    <3> QED BY <1>1, <2>1, <2>2, <2>3, <2>5, <3>1, WorkStep
  <2>6. CASE s.n < MaxSteps /\ slot' = [slot EXCEPT ![Cur].n = @ + 1]
             /\ UNCHANGED <<queue, deferred, results>>
    <3>1. slot' = [slot EXCEPT ![Cur].st = s.st, ![Cur].n = s.n + 1] /\ s.n + 1 \in 0 .. MaxSteps
      <4>1. s.n + 1 \in 0 .. MaxSteps BY <1>3, <2>1, <2>6
      <4>2. [s EXCEPT !.n = s.n + 1] = [s EXCEPT !.st = s.st, !.n = s.n + 1] BY <1>3, <2>1
      <4> QED BY <2>6, <4>1, <4>2
    <3> QED BY <1>1, <2>1, <2>2, <2>3, <2>6, <3>1, WorkStep
  <2>7. CASE slot' = [slot EXCEPT ![Cur].st = "done", ![Cur].n = 0]
             /\ UNCHANGED <<queue, deferred, results>>
    <3>1. 0 \in 0 .. MaxSteps BY <1>3, <2>1
    <3> QED BY <1>1, <2>1, <2>2, <2>3, <2>7, <3>1, WorkStep
  <2> HIDE DEF Ends, Advance, Admits
  <2> QED BY <1>5, <2>4, <2>5, <2>6, <2>7 DEF FillBatch
<1>6. CASE Sample
  <2>1. Advance("idle") /\ main = "sample" BY <1>6 DEF Sample
  <2>2. Cur \in Slot /\ Onward(Cur) BY <1>0, <2>1, OnwardCur
  <2> HIDE DEF Cur
  <2>3. CASE Ends(Cur, "final") BY <1>1, <2>1, <2>2, <2>3, EndStep
  <2>4. CASE /\ slot' = [slot EXCEPT ![Cur].st = "gen",
                                     ![Cur].n = IF @ < MaxSteps THEN @ + 1 ELSE @]
             /\ results' = results \/ Send("partial", s.id)
             /\ UNCHANGED <<queue, deferred>>
    <3> DEFINE n == IF s.n < MaxSteps THEN s.n + 1 ELSE s.n
    <3>1. slot' = [slot EXCEPT ![Cur].st = "gen", ![Cur].n = n] /\ n \in 0 .. MaxSteps
      BY <1>3, <2>1, <2>4
    <3> HIDE DEF n
    <3> QED BY <1>1, <2>1, <2>2, <2>4, <3>1, WorkStep
  <2> QED BY <1>6, <2>3, <2>4 DEF Sample
<1>7. CASE ShiftFails
  <2>1. PICK u \in todo : Ends(u, "error") /\ todo' = {t \in todo : u < t} BY <1>7 DEF ShiftFails
  <2>2. u \in Slot /\ main = "shift" /\ main' = main BY <1>0, <1>7 DEF ShiftFails, TypeOK
  <2>4. u \in Nat BY <2>2, InferenceAssumption DEF Slot
  <2>3. Onward(u) BY <2>1, <2>2, <2>4 DEF Onward
  <2> QED BY <1>1, <2>1, <2>2, <2>3, EndStep
<1> QED BY <1>4, <1>5, <1>6, <1>7

\* The children of a decoded parent go on with it.
LEMMA DecodeStep ==
  ASSUME ServerInv, ChildInv, Decode
  PROVE  ChildInv'
<1>0. TypeOK /\ Stages /\ CalledOff /\ Watched BY DEF ServerInv, ChildInv
<1>1. /\ UNCHANGED <<queue, deferred, results, hand>> /\ UNCHANGED <<loopVars, readVars>>
      /\ main = "decode" /\ empties' = 0
      /\ slot' = [s \in Slot |-> IF Shares(s) THEN [slot[s] EXCEPT !.st = "done"] ELSE slot[s]]
      /\ \A s \in todo' : s \in Slot /\ (slot'[s].st = "done" \/ slot[s].st = "gen")
      /\ main' \in {"idle", "sample"}
  BY DEF Decode, Loop, Joined, Generating
<1>2. \A s \in Slot : slot[s] \in [st : {"idle", "wait", "started", "done", "gen"},
                                   id : Id \cup {<<>>}, n : 0 .. MaxSteps]
  BY <1>0 DEF TypeOK
<1>3. \A s \in Slot : /\ slot'[s].id = slot[s].id /\ slot'[s].n = slot[s].n
                      /\ Shares(s) => slot[s].st = "wait" /\ slot'[s].st = "done"
                      /\ ~Shares(s) => slot'[s] = slot[s]
  <2> TAKE s \in Slot
  <2>1. CASE Shares(s)
    <3>1. slot'[s] = [slot[s] EXCEPT !.st = "done"] /\ slot[s].st = "wait" BY <1>1, <2>1 DEF Shares
    <3> QED BY <1>2, <2>1, <3>1
  <2>2. CASE ~Shares(s) BY <1>1, <2>2
  <2> QED BY <2>1, <2>2
<1>4. UNCHANGED <<waiting, reader, escaped, waits, owing, erred, slotId>>
  BY <1>1, <1>3 DEF readVars, waits, owing, erred, Final, slotId
<1>5. carried' = carried
  <2>1. carried' = On(queue') \cup On(deferred') \cup (IF main' = "handle" THEN {hand'} ELSE {})
    BY DEF carried, On
  <2> QED BY <1>1, <2>1 DEF carried
<1>6. CalledOff' BY <1>0, <1>4, <1>5, CalledOffKeeps
<1>7. Watched'
  <2>1. \A s \in Slot : slot'[s].st = "wait" => slot'[s] = slot[s] /\ ~Shares(s) BY <1>3
  <2>2. \A t \in Slot : \/ slot[t].st \in Parental => slot'[t].st \in Parental'
                        \/ \A s \in Slot : slot'[s].st = "wait" => slot[t].id # Top(slot[s].id[1])
    <3> SUFFICES ASSUME NEW t \in Slot, slot[t].st \in Parental, slot'[t].st \notin Parental',
                        NEW s \in Slot, slot'[s].st = "wait", slot[t].id = Top(slot[s].id[1])
                 PROVE  FALSE
      OBVIOUS
    <3>1. slot[t].st \in {"started", "done"} /\ "started" \in Parental' BY <1>1 DEF Parental
    <3>2. slot'[t] = slot[t] BY <1>3, <3>1
    <3>3. slot[t].st = "done" BY <3>1, <3>2
    <3>4. slot[t].n = 0 BY <1>0, <3>3 DEF Stages
    <3>5. slot[t] = [st |-> "done", id |-> Top(slot[s].id[1]), n |-> 0] BY <1>2, <3>3, <3>4
    <3>6. slot[s].st = "wait" /\ ~Shares(s) BY <2>1
    <3> QED BY <3>5, <3>6 DEF Shares
  <2> QED BY <1>0, <1>3, <1>4, <2>1, <2>2, WatchedKeeps
<1>8. Stages'
  <2>1. \A s \in Slot : /\ slot'[s].st \in {"wait", "done"} => slot'[s].n = 0
                        /\ slot'[s].st = "wait" => slot'[s].id[2] # 0
    <3> TAKE s \in Slot
    <3>1. CASE Shares(s) BY <1>0, <1>3, <3>1 DEF Stages
    <3>2. CASE ~Shares(s) BY <1>0, <1>3, <3>2 DEF Stages
    <3> QED BY <3>1, <3>2
  <2>2. hand'.type # "cancel" BY <1>0, <1>1 DEF Stages
  <2>3. \A s \in todo' : slot'[s].st \in {"done", "gen"} BY <1>1, <1>3 DEF Shares
  <2> QED BY <1>1, <2>1, <2>2, <2>3 DEF Stages
<1>9. Starving' BY <1>1 DEF Starving
<1> QED BY <1>6, <1>7, <1>8, <1>9 DEF ChildInv

\* A task begins: its children have their parent, or its reader gets an error.
LEMMA BeginKeeps ==
  ASSUME ServerInv, ChildInv, main = "handle", main' \in {"drain", "undo"},
         NEW p \in Request, hand = Task(p), hand' \in {hand, NextResponse},
         UNCHANGED <<queue, deferred>>, UNCHANGED readVars,
         NEW ks \in SUBSET (0 .. NChildren[p]), NEW f \in [ks -> Idles],
         Assign(p, ks, f), Launch(p, ks, f), owing' \subseteq owing, erred \subseteq erred',
         0 \in ks \/ (p \in waits => p \in erred'),
         empties' = 0 \/ (ks = {} /\ empties' = empties)
  PROVE  ChildInv'
<1>0. TypeOK /\ Shape /\ Stages /\ Starving /\ CalledOff /\ Watched BY DEF ServerInv, ChildInv
<1>1. UNCHANGED <<waiting, reader, escaped, waits>> BY DEF readVars, waits
<1>2. /\ \A k \in ks : f[k] \in Slot /\ slot[f[k]].st = "idle" /\ slot'[f[k]] = Held(<<p, k>>)
      /\ \A s \in Slot : \/ slot'[s] = slot[s]
                         \/ \E k \in ks : f[k] = s /\ slot'[s] = Held(<<p, k>>)
  BY LaunchSlots
<1>3. \A k \in ks : <<p, k>> \in Id /\ <<p, k>>[1] = p
  <2>1. \A k \in ks : <<p, k>> \in Ids(p) BY <1>0, LaunchEffect
  <2> QED BY <2>1, Names
<1>4. \A k \in ks : /\ Held(<<p, k>>).id = <<p, k>> /\ Held(<<p, k>>).n = 0
                    /\ Held(<<p, k>>).st = IF k = 0 THEN "started" ELSE "wait"
  BY DEF Held
<1>5. carried' \subseteq carried /\ carried \ {hand} \subseteq carried' /\ Task(p) \in carried
  <2>1. carried' = On(queue') \cup On(deferred') \cup (IF main' = "handle" THEN {hand'} ELSE {})
    BY DEF carried, On
  <2> QED BY <2>1 DEF carried
<1>6. CalledOff'
  <2>1. \A i \in Id : Cancel(i) \in carried => Cancel(i) \in carried'
    <3>1. \A i : Cancel(i) # hand BY Names
    <3> QED BY <1>5, <3>1
  <2>2. \A s \in Slot : \/ slotId'[s] \in {slotId[s], <<>>}
                        \/ slotId'[s] \in Id /\ Task(slotId'[s][1]) \in carried
    <3> TAKE s \in Slot
    <3>1. slotId'[s] = slot'[s].id /\ slotId[s] = slot[s].id BY DEF slotId
    <3>2. CASE slot'[s] = slot[s] BY <3>1, <3>2
    <3>3. CASE \E k \in ks : slot'[s] = Held(<<p, k>>)
      <4>1. PICK k \in ks : slot'[s].id = <<p, k>> BY <1>4, <3>3
      <4> QED BY <1>3, <1>5, <3>1, <4>1
    <3> QED BY <1>2, <3>2, <3>3
  <2>3. \A r \in Request : reader'[r] = "gone" => reader[r] = "gone" /\ (Task(r) \in carried' => Task(r) \in carried)
    BY <1>1, <1>5
  <2>4. escaped \subseteq escaped' BY <1>1
  <2> QED BY <1>0, <2>1, <2>2, <2>3, <2>4, CalledOffKeeps
<1>7. Watched'
  <2> SUFFICES ASSUME NEW s \in Slot, slot'[s].st = "wait", slot'[s].id[1] \in waits',
                      slot'[s].id[1] \notin erred', Top(slot'[s].id[1]) \in owing'
               PROVE  \E t \in Slot : slot'[t].id = Top(slot'[s].id[1]) /\ slot'[t].st \in Parental'
    BY DEF Watched, Top
  <2> DEFINE r == slot'[s].id[1]
  <2>1. Parental' = {"started", "done"} /\ Parental = {"started", "done"} BY DEF Parental
  <2>2. CASE slot'[s] = slot[s]
    <3>1. r \in waits /\ r \notin erred /\ Top(r) \in owing BY <1>1
    <3>2. PICK t \in Slot : slot[t].id = Top(r) /\ slot[t].st \in Parental
      BY <1>0, <2>2, <3>1 DEF Watched
    <3>3. slot'[t] = slot[t] BY <1>2, <2>1, <3>2
    <3> QED BY <2>1, <3>2, <3>3
  <2>3. CASE \E k \in ks : slot'[s] = Held(<<p, k>>)
    <3>1. PICK k \in ks : slot'[s].id = <<p, k>> BY <1>4, <2>3
    <3>2. r = p BY <1>3, <3>1
    <3>3. 0 \in ks BY <1>1, <3>2
    <3>4. f[0] \in Slot /\ slot'[f[0]].id = <<p, 0>> /\ slot'[f[0]].st = "started" BY <1>2, <1>4, <3>3
    <3> QED BY <2>1, <3>2, <3>4 DEF Top
  <2> QED BY <1>2, <2>2, <2>3
<1>8. Stages'
  <2>1. \A s \in Slot : /\ slot'[s].st \in {"wait", "done"} => slot'[s].n = 0
                        /\ slot'[s].st = "wait" => slot'[s].id[2] # 0
    <3> TAKE s \in Slot
    <3>1. CASE slot'[s] = slot[s] BY <1>0, <3>1 DEF Stages
    <3>2. CASE \E k \in ks : slot'[s] = Held(<<p, k>>) BY <1>4, <3>2
    <3> QED BY <1>2, <3>1, <3>2
  <2>2. hand'.type # "cancel" BY Names
  <2> QED BY <2>1, <2>2 DEF Stages
<1>9. Starving'
  <2>1. main' \notin {"shift", "decode", "aborted"} OBVIOUS
  <2>2. CASE empties' = 0 BY <2>1, <2>2 DEF Starving
  <2>3. CASE ks = {} /\ empties' = empties
    <3>1. \A s \in Slot : slot'[s] = slot[s] BY <1>2, <2>3
    <3> QED BY <1>0, <2>1, <2>3, <3>1 DEF Starving
  <2> QED BY <2>2, <2>3
<1> QED BY <1>6, <1>7, <1>8, <1>9 DEF ChildInv

\* A task is launched, or fails to be.
LEMMA BeginStep ==
  ASSUME ServerInv, ChildInv, LaunchTask \/ LaunchFails
  PROVE  ChildInv'
<1>0. TypeOK /\ Ordered /\ Placed /\ Kept BY DEF ServerInv
<1>1. main = "handle" /\ hand.type = "task" /\ hand \in Message
  BY <1>0 DEF LaunchTask, LaunchFails, TypeOK
<1>2. PICK p \in Request : hand = Task(p) /\ hand.id[1] = p BY <1>1, Names
<1>3. NChildren[p] \in Nat BY InferenceAssumption
<1>4. CASE LaunchTask
  <2>1. /\ UNCHANGED <<queue, deferred, todo, results>> /\ UNCHANGED <<loopVars, readVars>>
        /\ empties' = 0 /\ main' = "drain" /\ hand' = NextResponse
    BY <1>4 DEF LaunchTask, Handled
  <2> DEFINE ks == 0 .. NChildren[p]
  <2>2. PICK f \in [ks -> Idles] : Assign(p, ks, f) /\ Launch(p, ks, f)
    <3>1. PICK f \in [ks -> Idles] : Assign(p, DOMAIN f, f) /\ Launch(p, DOMAIN f, f)
      BY <1>2, <1>4 DEF LaunchTask
    <3>2. DOMAIN f = ks OBVIOUS
    <3> QED BY <3>1, <3>2
  <2>3. ks \in SUBSET (0 .. NChildren[p]) /\ 0 \in ks BY <1>3
  <2> HIDE DEF ks
  <2>4. owing' = owing /\ erred' = erred BY <2>1 DEF owing, erred, Final, readVars
  <2> QED BY <1>1, <1>2, <2>1, <2>2, <2>3, <2>4, BeginKeeps
<1>5. CASE LaunchFails
  <2>1. PICK k \in 0 .. NChildren[p] :
          LET ks == IF k = 0 THEN 1 .. NChildren[p] ELSE 1 .. k - 1 IN
          /\ \E f \in [ks -> Idles] : Assign(p, ks, f) /\ Launch(p, ks, f)
          /\ empties' = IF ks = {} THEN empties ELSE 0
          /\ Send("error", <<p, k>>)
    BY <1>2, <1>5 DEF LaunchFails
  <2> DEFINE ks == IF k = 0 THEN 1 .. NChildren[p] ELSE 1 .. k - 1
  <2>2. /\ UNCHANGED <<queue, deferred>> /\ UNCHANGED readVars
        /\ main' \in {"drain", "undo"} /\ hand' \in {hand, NextResponse}
    BY <1>5 DEF LaunchFails
  <2>3. ks \in SUBSET (0 .. NChildren[p])
    <3>1. 1 .. NChildren[p] \subseteq 0 .. NChildren[p] /\ 1 .. k - 1 \subseteq 0 .. NChildren[p]
      BY <1>3
    <3> QED BY <3>1
  <2>4. PICK f \in [ks -> Idles] : Assign(p, ks, f) /\ Launch(p, ks, f) BY <2>1
  <2>5. empties' = 0 \/ (ks = {} /\ empties' = empties) BY <2>1
  <2> HIDE DEF ks
  <2>6. <<p, k>> \in Ids(p)
    <3>1. NSlots \in Nat /\ NChildren[p] <= NSlots BY InferenceAssumption
    <3>2. k \in 0 .. NSlots /\ k <= NChildren[p] BY <1>3, <3>1
    <3> QED BY <3>2 DEF Id, Ids
  <2> DEFINE i == <<p, k>>
  <2>7. i \in Id /\ i[1] = p /\ i \in Ids(p) BY <2>6, Names
  <2>8. i \in owing
    <3>1. p \in handed BY <1>1, <1>2 DEF handed, InHand
    <3>2. got[p] = {} /\ results[p] = <<>> BY <1>0, <3>1 DEF Placed, untouched
    <3> HIDE DEF i
    <3> QED BY <2>7, <3>2 DEF owing
  <2>9. Send("error", i) BY <2>1
  <2> HIDE DEF i
  <2>10. owing' \subseteq owing /\ erred \subseteq erred' /\ (i \in waiting => p \in erred')
    <3>1. UNCHANGED got BY <2>2 DEF readVars
    <3> QED BY <1>0, <2>7, <2>8, <2>9, <3>1, SendEffect
  <2>11. p \in waits => p \in erred' BY <1>0, <2>7, <2>10 DEF Kept
  <2> QED BY <1>1, <1>2, <2>2, <2>3, <2>4, <2>5, <2>10, <2>11, BeginKeeps
<1> QED BY <1>4, <1>5

\* The cancels of a request are one for each of its ids.
LEMMA CancelsAll ==
  ASSUME NEW r \in Request, NEW c \in Cancels(r)
  PROVE  /\ c \in Seq(Message)
         /\ \A k \in 1 .. Len(c) : c[k].type = "cancel"
         /\ \A i \in Ids(r) : Cancel(i) \in On(c)
<1> DEFINE n == NChildren[r]  C == {Cancel(i) : i \in Ids(r)}
<1>1. n \in Nat /\ n <= NSlots /\ NSlots \in Nat BY InferenceAssumption
<1>2. c \in [1 .. n + 1 -> C] /\ \A j, k \in 1 .. n + 1 : c[j] = c[k] => j = k BY DEF Cancels
<1>3. \A m \in C : m \in Message /\ m.type = "cancel" BY Names
<1>4. c \in Seq(Message)
  <2>1. c \in [1 .. n + 1 -> Message] /\ n + 1 \in Nat BY <1>1, <1>2, <1>3
  <2>2. \E m \in Nat : c \in [1 .. m -> Message] BY <2>1
  <2> QED BY <2>2
<1>5. 1 .. Len(c) = 1 .. n + 1
  <2>1. 1 .. Len(c) = DOMAIN c BY <1>4, LenProperties
  <2> QED BY <1>2, <2>1
<1>6. Cardinality(C) = n + 1 /\ IsFiniteSet(C)
  <2> DEFINE g == [k \in 0 .. n |-> Cancel(<<r, k>>)]
  <2>1. \A k \in 0 .. n : <<r, k>> \in Ids(r)
    <3>1. \A k \in 0 .. n : k \in 0 .. NSlots /\ k <= NChildren[r] BY <1>1
    <3> QED BY <3>1 DEF Id, Ids
  <2>2. g \in [0 .. n -> C] BY <2>1
  <2>3. \A j, k \in 0 .. n : g[j] = g[k] => j = k
    <3> TAKE j, k \in 0 .. n
    <3> HAVE g[j] = g[k]
    <3>1. Cancel(<<r, j>>).id = Cancel(<<r, k>>).id OBVIOUS
    <3>2. <<r, j>> = <<r, k>> BY <3>1 DEF Cancel
    <3> QED BY <3>2
  <2>4. \A m \in C : \E k \in 0 .. n : g[k] = m
    <3> SUFFICES ASSUME NEW i \in Ids(r) PROVE \E k \in 0 .. n : g[k] = Cancel(i) OBVIOUS
    <3>1. i \in Id /\ i[1] = r /\ i = <<r, i[2]>> BY Names
    <3>2. i[2] \in 0 .. n BY <1>1, <3>1 DEF Id
    <3> QED BY <3>1, <3>2
  <2> HIDE DEF C, g
  <2>5. g \in Bijection(0 .. n, C) BY <2>2, <2>3, <2>4, Fun_IsBij
  <2>6. ExistsBijection(0 .. n, C) BY <2>5 DEF ExistsBijection
  <2>7. IsFiniteSet(0 .. n) /\ Cardinality(0 .. n) = n + 1
    <3> HIDE DEF n
    <3>1. n \in Int /\ ~(0 > n) /\ n - 0 + 1 = n + 1 BY <1>1
    <3> QED BY <3>1, FS_Interval
  <2> QED BY <2>6, <2>7, FS_Bijection
<1>7. IsFiniteSet(1 .. n + 1) /\ Cardinality(1 .. n + 1) = n + 1
  <2> HIDE DEF n
  <2>1. n + 1 \in Int /\ ~(1 > n + 1) /\ (n + 1) - 1 + 1 = n + 1 BY <1>1
  <2> QED BY <2>1, FS_Interval
<1>8. c \in Surjection(1 .. n + 1, C)
  <2> HIDE DEF C
  <2>1. c \in Injection(1 .. n + 1, C) BY <1>2, Fun_IsInj
  <2> QED BY <1>6, <1>7, <2>1, FS_Injection
<1>9. \A m \in C : \E k \in 1 .. n + 1 : c[k] = m
  <2> HIDE DEF C
  <2> QED BY <1>8 DEF Surjection
<1>10. \A i \in Ids(r) : Cancel(i) \in On(c) BY <1>5, <1>9 DEF On
<1>11. \A k \in 1 .. Len(c) : c[k].type = "cancel" BY <1>2, <1>3, <1>5
<1> QED BY <1>4, <1>10, <1>11

\* What is left in a queue of which a task is taken out.
LEMMA OnWithout ==
  ASSUME NEW S, NEW q \in Seq(S), NEW r \in Request, Once(q, r)
  PROVE  /\ Without(q, r) \in Seq(S)
         /\ On(Without(q, r)) \subseteq On(q) \ {Task(r)}
         /\ On(q) \ {Task(r)} \subseteq On(Without(q, r))
<1>1. /\ Without(q, r) \in Seq(S) /\ ~Has(Without(q, r), r)
      /\ \A k \in 1 .. Len(Without(q, r)) : \E j \in 1 .. Len(q) : Without(q, r)[k] = q[j]
  BY QWithout
<1>2. On(Without(q, r)) \subseteq On(q) \ {Task(r)} BY <1>1 DEF On, Has
<1>3. On(q) \ {Task(r)} \subseteq On(Without(q, r))
  <2>1. CASE Places(q, r) = {} BY <2>1 DEF Without
  <2>2. CASE Places(q, r) # {}
    <3>1. DOMAIN q = 1 .. Len(q) BY LenProperties
    <3> DEFINE j == CHOOSE j \in Places(q, r) : TRUE
    <3>2. j \in Places(q, r) BY <2>2
    <3>3. Without(q, r) = DropAt(q, j) BY <2>2 DEF Without
    <3> HIDE DEF j
    <3>4. j \in 1 .. Len(q) /\ q[j] = Task(r) BY <3>1, <3>2 DEF Places
    <3>5. On(q) = On(DropAt(q, j)) \cup {q[j]} BY <3>4, OnDrop
    <3> QED BY <3>3, <3>4, <3>5
  <2> QED BY <2>1, <2>2
<1> QED BY <1>1, <1>2, <1>3

\* A reader's step leaves the main thread and the slots alone, and calls off
\* what the reader leaves behind.
LEMMA ReaderKeeps ==
  ASSUME ServerInv, ChildInv, NEW r \in Request, UNCHANGED mainVars, escaped \subseteq escaped',
         \A q \in Request : q # r => reader'[q] = reader[q],
         \A q \in Request : q # r /\ Task(q) \in carried' => Task(q) \in carried,
         \A i \in Id : Cancel(i) \in carried => Cancel(i) \in carried',
         Task(r) \in carried' /\ reader'[r] = "gone" => r \in escaped',
         \A i \in Ids(r) : reader'[r] = "gone" =>
            Cancel(i) \in carried' \/ r \in escaped' \/ \A s \in Slot : slotId[s] # i,
         \A i \in owing' : i[1] \in waits' => i \in owing,
         \A q \in waits' : q \in erred => q \in erred',
         waits' \subseteq waits \/ (waits' = waits \cup {r} /\ r \in untouched)
  PROVE  ChildInv'
<1>0. TypeOK /\ Shape /\ Stages /\ Starving /\ CalledOff /\ Watched BY DEF ServerInv, ChildInv
<1>1. UNCHANGED <<main, todo, hand, slot, empties>> BY DEF mainVars
<1>2. slotId' = slotId /\ (\A s \in Slot : slotId[s] = slot[s].id /\ slotId[s] \in Id \cup {<<>>})
  BY <1>0, <1>1 DEF slotId, TypeOK
<1>3. Stages' BY <1>0, <1>1 DEF Stages
<1>4. Starving'
  <2>1. \A s \in Slot : LeftAlone(s)' <=> LeftAlone(s) BY <1>1 DEF LeftAlone, InSlot, Top
  <2> QED BY <1>0, <1>1, <2>1 DEF Starving
<1>5. Watched'
  <2>1. Parental' = Parental BY <1>1 DEF Parental
  <2>2. \A s \in Slot : slot[s].st = "wait" /\ slot[s].id[1] \in waits' => slot[s].id[1] \in waits
    <3> SUFFICES ASSUME NEW s \in Slot, slot[s].st = "wait", slot[s].id[1] \in waits'
                 PROVE  slot[s].id[1] \in waits
      OBVIOUS
    <3>1. slot[s].id \in Id BY <1>0 DEF Shape
    <3>2. slot[s].id \in Ids(slot[s].id[1]) BY <3>1, Names
    <3>3. r \in untouched => slot[s].id[1] # r BY <1>2, <3>2 DEF untouched
    <3> QED BY <3>3
  <2> QED BY <1>0, <1>1, <2>1, <2>2, WatchedKeeps
<1>6. CalledOff'
  <2>1. ASSUME NEW q \in Request, Task(q) \in carried', reader'[q] = "gone" PROVE q \in escaped'
    <3>1. CASE q = r BY <2>1, <3>1
    <3>2. CASE q # r BY <1>0, <2>1, <3>2 DEF CalledOff
    <3> QED BY <3>1, <3>2
  <2>2. ASSUME NEW s \in Slot, slotId[s] # <<>>, reader'[slotId[s][1]] = "gone"
        PROVE  Cancel(slotId[s]) \in carried' \/ slotId[s][1] \in escaped'
    <3>1. slotId[s] \in Id /\ slotId[s][1] \in Request /\ slotId[s] \in Ids(slotId[s][1])
      BY <1>2, <2>2, Names
    <3>2. CASE slotId[s][1] = r BY <2>2, <3>1, <3>2
    <3>3. CASE slotId[s][1] # r
      <4>1. reader[slotId[s][1]] = "gone" BY <2>2, <3>1, <3>3
      <4>2. Cancel(slotId[s]) \in carried \/ slotId[s][1] \in escaped
        BY <1>0, <1>2, <2>2, <4>1 DEF CalledOff
      <4> QED BY <3>1, <4>2
    <3> QED BY <3>2, <3>3
  <2> QED BY <1>1, <1>2, <2>1, <2>2 DEF CalledOff, Task, Cancel, Top
<1> QED BY <1>3, <1>4, <1>5, <1>6 DEF ChildInv

\* A reader's step.
LEMMA ReaderStep ==
  ASSUME ServerInv, ChildInv, NEW r \in Request, Arrive(r) \/ GiveUp(r) \/ Reader(r)
  PROVE  ChildInv'
<1>0. /\ TypeOK /\ Placed /\ Singles /\ Owed /\ queue \in Seq(Message) /\ deferred \in Seq(Tasks)
      /\ reader \in [Request -> ReaderPc]
  BY DEF ServerInv, TypeOK, Tasks, Placed
<1>1. UNCHANGED mainVars /\ escaped \subseteq escaped'
  BY DEF Arrive, GiveUp, Reader, Awake, AddWaiting, Post, Recv, Stop, PostCancels
<1>2. carried' = On(queue') \cup On(deferred') \cup (IF main = "handle" THEN {hand} ELSE {})
  BY <1>1 DEF carried, On, mainVars
<1>3. CASE Arrive(r) \/ Awake(r) \/ AddWaiting(r) \/ GiveUp(r)
  <2>1. PICK pc \in ReaderPc : Step(r, pc) /\ pc # "gone" /\ pc # "wait"
    BY <1>3 DEF Arrive, Awake, AddWaiting, GiveUp, ReaderPc
  <2>2. UNCHANGED <<queue, deferred, results, got>> BY <1>3 DEF Arrive, Awake, AddWaiting, GiveUp
  <2>3. reader'[r] = pc /\ \A q \in Request : q # r => reader'[q] = reader[q] BY <1>0, <2>1 DEF Step
  <2>4. waits' \subseteq waits BY <2>1, <2>3 DEF waits
  <2>5. owing' = owing /\ erred' = erred BY <2>2 DEF owing, erred, Final
  <2>6. carried' = carried BY <1>2, <2>2 DEF carried
  <2> QED BY <1>1, <2>1, <2>3, <2>4, <2>5, <2>6, ReaderKeeps
<1>4. CASE Post(r)
  <2>1. /\ reader[r] = "adding" /\ Step(r, "wait") /\ queue' = Append(queue, Task(r))
        /\ UNCHANGED <<deferred, results, got>>
    BY <1>4 DEF Post
  <2>2. reader'[r] = "wait" /\ \A q \in Request : q # r => reader'[q] = reader[q] BY <1>0, <2>1 DEF Step
  <2>3. waits' = waits \cup {r} BY <2>2 DEF waits
  <2>4. r \in untouched
    <3>1. r \in early BY <2>1 DEF early, Early
    <3> QED BY <1>0, <3>1 DEF Placed
  <2>5. owing' = owing /\ erred' = erred BY <2>1 DEF owing, erred, Final
  <2>6. carried' = carried \cup {Task(r)}
    <3>1. On(queue') = On(queue) \cup {Task(r)} BY <1>0, <2>1, Names, OnAppend
    <3> QED BY <1>2, <2>1, <3>1 DEF carried
  <2>7. \A q \in Request : q # r /\ Task(q) \in carried' => Task(q) \in carried BY <2>6, Names
  <2> QED BY <1>1, <2>2, <2>3, <2>4, <2>5, <2>6, <2>7, ReaderKeeps
<1>5. CASE Recv(r)
  <2>1. owing' = owing /\ waits' \subseteq waits /\ \A p \in waits' : p \in erred => p \in erred'
    BY <1>5, RecvStep
  <2>2. PICK pc \in {"stop", "wait"} : Step(r, pc) BY <1>5 DEF Recv
  <2>3. reader'[r] = pc /\ \A q \in Request : q # r => reader'[q] = reader[q] BY <1>0, <2>2 DEF Step
  <2>4. UNCHANGED <<queue, deferred>> BY <1>5 DEF Recv
  <2>5. carried' = carried BY <1>2, <2>4 DEF carried
  <2> QED BY <1>1, <2>1, <2>3, <2>5, ReaderKeeps
<1>6. CASE Stop(r)
  <2>1. /\ waits' = waits /\ r \notin waits
        /\ \A i \in Id : i[1] # r => (i \in owing' <=> i \in owing)
        /\ \A p \in Request : p # r => (p \in erred' <=> p \in erred)
    BY <1>6, StopStep
  <2>2. PICK pc \in {"gone", "cancel"} : Step(r, pc) /\ (pc = "gone" => got[r] = Ids(r))
    BY <1>6 DEF Stop
  <2>3. reader'[r] = pc /\ \A q \in Request : q # r => reader'[q] = reader[q] BY <1>0, <2>2 DEF Step
  <2>4. UNCHANGED <<queue, deferred>> BY <1>6 DEF Stop
  <2>5. carried' = carried BY <1>2, <2>4 DEF carried
  <2>6. \A i \in owing' : i[1] \in waits' => i \in owing
    <3>1. owing' \subseteq Id BY DEF owing
    <3> QED BY <2>1, <3>1
  <2>7. \A q \in waits' : q \in erred => q \in erred' BY <2>1 DEF waits
  <2>8. Task(r) \in carried' => reader'[r] # "gone"
    <3> SUFFICES ASSUME Task(r) \in carried, got[r] = Ids(r) PROVE FALSE BY <2>2, <2>3, <2>5
    <3>1. r \in inQueues \cup handed BY DEF carried, inQueues, handed, InHand, Has, On
    <3>2. got[r] = {} BY <1>0, <3>1 DEF Placed, untouched
    <3>3. Top(r) \in Ids(r) BY Names
    <3> QED BY <3>2, <3>3
  <2>9. \A i \in Ids(r) : reader'[r] = "gone" => \A s \in Slot : slotId[s] # i
    <3> SUFFICES ASSUME got[r] = Ids(r), NEW i \in Ids(r), NEW s \in Slot, slotId[s] = i PROVE FALSE
      BY <2>2, <2>3
    <3>1. i # <<>> /\ i[1] = r BY Names
    <3>2. i \in owing BY <1>0, <3>1 DEF Owed
    <3> QED BY <3>1, <3>2 DEF owing
  <2> QED BY <1>1, <2>1, <2>3, <2>5, <2>6, <2>7, <2>8, <2>9, ReaderKeeps
<1>7. CASE PostCancels(r)
  <2>1. /\ UNCHANGED <<results, got>> /\ reader[r] = "cancel" /\ Step(r, "gone")
        /\ deferred' = Without(deferred, r)
        /\ escaped' = IF main = "handle" /\ hand = Task(r) THEN escaped \cup {r} ELSE escaped
    BY <1>7 DEF PostCancels
  <2>2. PICK c \in Cancels(r) : queue' = c \o Without(queue, r) BY <1>7 DEF PostCancels
  <2>3. reader'[r] = "gone" /\ \A q \in Request : q # r => reader'[q] = reader[q] BY <1>0, <2>1 DEF Step
  <2>4. waits' \subseteq waits BY <2>3 DEF waits
  <2>5. owing' = owing /\ erred' = erred BY <2>1 DEF owing, erred, Final
  <2>6. /\ Without(queue, r) \in Seq(Message)
        /\ On(Without(queue, r)) \subseteq On(queue) \ {Task(r)}
        /\ On(queue) \ {Task(r)} \subseteq On(Without(queue, r))
    BY <1>0, OnWithout DEF Singles
  <2>7. On(deferred') \subseteq On(deferred) \ {Task(r)} /\ On(deferred) \ {Task(r)} \subseteq On(deferred')
    BY <1>0, <2>1, OnWithout DEF Singles
  <2>8. /\ c \in Seq(Message) /\ \A k \in 1 .. Len(c) : c[k].type = "cancel"
        /\ \A i \in Ids(r) : Cancel(i) \in On(c)
    BY CancelsAll
  <2>9. On(queue') = On(c) \cup On(Without(queue, r)) BY <2>2, <2>6, <2>8, OnConcat
  <2>10. \A q \in Request : Task(q) \notin On(c) BY <2>8, Names DEF On
  <2>11. \A q \in Request : Task(q) \in carried' => Task(q) \in carried
    BY <1>2, <2>6, <2>7, <2>9, <2>10 DEF carried
  <2>12. \A i \in Id : Cancel(i) \in carried => Cancel(i) \in carried'
    <3>1. \A i : Cancel(i) # Task(r) BY Names
    <3> QED BY <1>2, <2>6, <2>7, <2>9, <3>1 DEF carried
  <2>13. \A i \in Ids(r) : Cancel(i) \in carried' BY <1>2, <2>8, <2>9
  <2>14. Task(r) \in carried' => r \in escaped'
    BY <1>2, <2>1, <2>6, <2>7, <2>9, <2>10
  <2> QED BY <1>1, <2>3, <2>4, <2>5, <2>11, <2>12, <2>13, <2>14, ReaderKeeps
<1> QED BY <1>3, <1>4, <1>5, <1>6, <1>7 DEF Reader

\* No slot is busy and no task is queued at the start.
LEMMA ChildStart == Init => ChildInv
<1> SUFFICES ASSUME Init PROVE ChildInv OBVIOUS
<1>1. /\ queue = <<>> /\ deferred = <<>> /\ main = "boot" /\ todo = {} /\ hand = NextResponse
      /\ \A s \in Slot : slot[s].st = "idle" /\ slot[s].id = <<>>
      /\ empties = 0
  BY DEF Init, Free
<1>2. hand.type = "next" BY <1>1, Names
<1>3. carried = {}
  <2>1. Len(queue) = 0 /\ Len(deferred) = 0 BY <1>1
  <2>2. 1 .. 0 = {} OBVIOUS
  <2>3. On(queue) = {} /\ On(deferred) = {} BY <2>1, <2>2 DEF On
  <2> QED BY <1>1, <2>3 DEF carried
<1>4. Stages BY <1>1, <1>2 DEF Stages
<1>5. CalledOff BY <1>1, <1>3 DEF CalledOff
<1>6. Watched BY <1>1 DEF Watched
<1>7. Starving BY <1>1 DEF Starving
<1> QED BY <1>4, <1>5, <1>6, <1>7 DEF ChildInv

\* Every step keeps it.
LEMMA ChildStep == ServerInv /\ ChildInv /\ [Next]_vars => ChildInv'
<1> SUFFICES ASSUME ServerInv, ChildInv, [Next]_vars PROVE ChildInv' OBVIOUS
<1>1. CASE \/ StartLoop \/ Exit \/ Wake \/ FallAsleep \/ LeaveSleep \/ Terminate
           \/ Take \/ Drained \/ Defer \/ StartBatch \/ DecodeFails \/ DecodeNothing \/ UNCHANGED vars
  BY <1>1, StayStep
<1>2. CASE HandleCancel \/ Undo BY <1>2, CancelsStep
<1>3. CASE LaunchTask \/ LaunchFails BY <1>3, BeginStep
<1>4. CASE FillBatch \/ FailSlot \/ Sample \/ ShiftFails BY <1>4, LoopStep
<1>5. CASE Decode BY <1>5, DecodeStep
<1>6. CASE \E r \in Request : Arrive(r) \/ GiveUp(r) \/ Reader(r) BY <1>6, ReaderStep
<1> QED BY <1>1, <1>2, <1>3, <1>4, <1>5, <1>6 DEF Next, Main

\* What a child waits for and what stays of a task whose reader is gone, in
\* every reachable state.
THEOREM ChildrenWatched == Spec => []ChildInv
<1>1. Init => ChildInv BY ChildStart
<1>2. ServiceInv /\ ChildInv /\ [Next]_vars => ChildInv'
  <2>1. ServiceInv => ServerInv BY DEF ServiceInv
  <2> QED BY <2>1, ChildStep
<1> QED BY <1>1, <1>2, ServerInvariant, PTL DEF Spec

\* A child waits for a parent that is at work; one left alone is cancelled by
\* its reader, unless the cancel came while the main thread held the task or
\* the parent was answered with an empty prompt.
THEOREM ServerChildHasParent == Spec => []ChildHasParent
<1>1. ServiceInv /\ ChildInv => ChildHasParent
  <2> SUFFICES ASSUME ServiceInv, ChildInv, NEW s \in Slot, slot[s].st = "wait"
               PROVE  LET r == slot[s].id[1] IN
                      \/ \E t \in Slot : slot[t].id = Top(r) /\ slot[t].st \in {"started", "done"}
                      \/ HasError(r) \/ reader[r] \in {"stop", "cancel"}
                      \/ Finals(Top(r)) # {} \/ Top(r) \in got[r]
                      \/ CancelDue(slot[s].id)
                      \/ main = "undo" /\ hand.id = Top(r)
                      \/ r \in escaped
    BY DEF ChildHasParent
  <2>1. TypeOK /\ Shape /\ Placed /\ CalledOff /\ Watched BY DEF ServiceInv, ServerInv, ChildInv
  <2> DEFINE r == slot[s].id[1]
  <2>2. slot[s].id \in Id /\ slot[s].id # <<>> /\ r \in Request /\ slot[s].id \in Ids(r) BY <2>1, Names DEF Shape
  <2>3. \A p \in Request : DOMAIN results[p] = 1 .. Len(results[p]) BY <2>1, LenProperties DEF TypeOK
  <2>4. reader[r] \in ReaderPc BY <2>1, <2>2 DEF TypeOK
  <2>5. CASE reader[r] \in Early
    <3>1. r \in untouched BY <2>1, <2>2, <2>5 DEF Placed, early
    <3> QED BY <2>2, <3>1 DEF untouched, slotId
  <2>6. CASE reader[r] = "wait"
    <3>1. r \in waits BY <2>2, <2>6 DEF waits
    <3>2. \/ \E t \in Slot : slot[t].id = Top(r) /\ slot[t].st \in Parental
          \/ r \in erred \/ Top(r) \notin owing
      BY <2>1, <3>1 DEF Watched
    <3>3. r \in erred => HasError(r) BY <2>2, <2>3 DEF erred, HasError
    <3>4. Top(r) \notin owing => Finals(Top(r)) # {} \/ Top(r) \in got[r]
      <4>1. Top(r) \in Id /\ Top(r)[1] = r BY <2>2, Names DEF Top
      <4> QED BY <2>2, <2>3, <4>1 DEF owing, Finals, Final
    <3> QED BY <3>2, <3>3, <3>4 DEF Parental
  <2>7. CASE reader[r] \in {"stop", "cancel"} BY <2>7
  <2>8. CASE reader[r] = "gone"
    <3>1. Cancel(slot[s].id) \in carried \/ r \in escaped BY <2>1, <2>2, <2>8 DEF CalledOff
    <3>2. Cancel(slot[s].id) \in carried => CancelDue(slot[s].id)
      <4>1. DOMAIN queue = 1 .. Len(queue) BY <2>1, LenProperties DEF TypeOK
      <4>2. Cancel(slot[s].id) \notin On(deferred)
        <5>1. \A k \in 1 .. Len(deferred) : deferred[k] \in Tasks BY <2>1, ElementOfSeq DEF TypeOK, Tasks
        <5> QED BY <5>1, Names DEF On, Tasks
      <4> QED BY <4>1, <4>2 DEF carried, CancelDue, On
    <3> QED BY <3>1, <3>2
  <2> QED BY <2>4, <2>5, <2>6, <2>7, <2>8 DEF ReaderPc, Early
<1> QED BY <1>1, ServerInvariant, ChildrenWatched, PTL

\* The kill switch fires on a child left alone, whatever the requests are.
THEOREM ServerAbortHasCause == Spec => []AbortHasCause
<1>1. ChildInv => AbortHasCause BY DEF ChildInv, Starving, AbortHasCause
<1> QED BY <1>1, ChildrenWatched, PTL
=============================================================================
