------------------------ MODULE ChannelManagerProof ------------------------
(* The safety properties of the outbound path for any channels, messages,  *)
(* capacities and numbers of managers: ManagerInv is inductive and implies *)
(* the invariants; with the lines of messages (InOrder) it implies the     *)
(* order of arrival, with First that every loss has a cause.               *)
EXTENDS ChannelManager, FiniteSetTheorems, SequenceTheorems, TLAPS

Disp   == [pc : {"sub", "look", "put", "done"}, msg : Msg \cup {0}]
Sending == {"limit", "send", "backoff"}
Snd    == [pc : {"idle", "limit", "send", "backoff", "done"},
           msg : Msg \cup {0}, part : Nat, try : 0 .. MaxRetries]

\* A sender has a message while it sends one, and a dispatcher from the bus to
\* the queue of a worker of its manager.
HandsFull ==
  /\ \A s \in Sender :
       /\ snd[s].pc \in Sending => snd[s].msg \in Msg /\ snd[s].part # 0
       /\ snd[s].pc \notin Sending => snd[s].msg = 0
       /\ snd[s].pc = "backoff" => snd[s].try < MaxRetries
  /\ \A g \in Gen, k \in Kind :
       /\ disp[<<g, k>>].pc \in {"look", "put"} => disp[<<g, k>>].msg \in Msg
       /\ disp[<<g, k>>].pc \notin {"look", "put"} => disp[<<g, k>>].msg = 0
       /\ disp[<<g, k>>].pc = "put" => To[disp[<<g, k>>].msg] \in chan[g].up

\* A manager not made yet has nothing running.
Unborn ==
  \A g \in Gen : g > gen =>
    /\ ctx[g] = "new" /\ chan[g].up = {} /\ g \notin stopped
    /\ \A k \in Kind : disp[<<g, k>>].pc = "done"
    /\ \A s \in Sender : s[1] = g => snd[s].pc = "done"

\* Where a queue is closed or about to be, the context is cancelled, and a
\* manager whose context was never made live has no workers.
Cancelled ==
  /\ \A w \in closed : ctx[w[1]] = "cancelled"
  /\ \A g \in Gen : ctx[g] = "new" => chan[g].up = {}
  /\ main.pc \in {"cancelled", "closedText", "closedMedia"} => cur = gen /\ ctx[gen] # "live"
  /\ crashed => EverCancelled

\* Only the last manager has workers that are alive, and none once it is down.
WorkersEnd ==
  /\ \A w \in Worker : snd[w].pc # "done" => /\ w[1] = gen /\ w[2] \in chan[gen].up
                                             /\ gen \notin stopped
                                             /\ main.pc # "stopped" /\ cur # 0
  /\ main.pc = "closedMedia" => \A w \in Worker : w[3] = "text" => snd[w].pc = "done"

Frame == TypeOK /\ HandsFull /\ Unborn /\ Cancelled /\ WorkersEnd

----------------------------------------------------------------------------
(* What the actions do                                                     *)

\* What senders are: a worker is no caller.
LEMMA Senders ==
  /\ \A g \in Gen : Caller(g) \in Sender /\ Caller(g)[1] = g
  /\ \A s \in Sender : s[1] \in Gen
  /\ \A w \in Worker : /\ w \in Sender /\ w[1] \in Gen /\ w[2] \in Channel /\ w[3] \in Kind
                       /\ w = <<w[1], w[2], w[3]>> /\ \A g \in Gen : w # Caller(g)
BY ManagerAssumption DEF Sender, Worker, Caller

\* The state of one sender through one step of Transmit, and what reaches the
\* platform with it.
LEMMA TransmitEffect ==
  ASSUME Frame, NEW s \in Sender, Transmit(s)
  PROVE  /\ snd[s].pc \in Sending
         /\ snd' = [snd EXCEPT ![s] = snd'[s]]
         /\ \/ snd'[s] = Rest
            \/ /\ snd'[s] \in Snd /\ snd'[s].pc \in Sending
               /\ snd'[s].msg = snd[s].msg /\ snd'[s].part # 0
               /\ snd'[s].pc = "backoff" => snd'[s].try < MaxRetries
         /\ \/ last' = last
            \/ /\ snd[s].msg \notin SyncMsg
               /\ \E ok \in BOOLEAN :
                    last' = [last EXCEPT ![<<To[snd[s].msg], KindOf[snd[s].msg]>>]
                                           = <<snd[s].msg, snd[s].part, ok>>]
         /\ UNCHANGED <<busVars, lifeVars, queue, closed, disp, crashed>>
<1> DEFINE r == snd[s]
<1>1. r \in Snd /\ snd \in [Sender -> Snd] BY DEF Frame, TypeOK, Snd
<1>2. r.pc \in Sending => r.msg \in Msg /\ r.part # 0 BY DEF Frame, HandsFull
<1>3. r.pc = "backoff" => r.try < MaxRetries BY DEF Frame, HandsFull
<1>4. r.msg \in Msg => PartsOf[r.msg] \in Nat BY ManagerAssumption
<1>5. ASSUME r.pc \in Sending
      PROVE  \/ NextPart(r) = Rest
             \/ /\ NextPart(r) \in Snd /\ NextPart(r).pc = "limit"
                /\ NextPart(r).msg = r.msg /\ NextPart(r).part # 0
  <2>1. CASE r.part < PartsOf[r.msg]
    <3>1. NextPart(r) = [r EXCEPT !.pc = "limit", !.part = r.part + 1, !.try = 0]
      BY <2>1 DEF NextPart
    <3> HIDE DEF r
    <3>2. 0 \in 0 .. MaxRetries /\ r.part + 1 \in Nat /\ r.part + 1 # 0
      BY <1>1, ManagerAssumption DEF Snd
    <3> QED BY <1>1, <3>1, <3>2 DEF Snd
  <2>2. CASE ~(r.part < PartsOf[r.msg])
    BY <2>2 DEF NextPart
  <2> QED BY <2>1, <2>2
<1>6. \A ok : Arrives(r, ok) =>
        \/ last' = last
        \/ /\ r.msg \notin SyncMsg
           /\ last' = [last EXCEPT ![<<To[r.msg], KindOf[r.msg]>>] = <<r.msg, r.part, ok>>]
  BY DEF Arrives
<1>7. CASE Admit(s)
  <2>1. r.pc = "limit" BY <1>7 DEF Admit
  <2>2. \/ snd' = [snd EXCEPT ![s] = NextPart(r)]
        \/ snd' = [snd EXCEPT ![s].pc = "send"]
    BY <1>7 DEF Admit, preSend
  <2>3. last' = last \/ Arrives(r, TRUE) \/ Arrives(r, FALSE)
    BY <1>7 DEF Admit, preSend
  <2>4. UNCHANGED <<busVars, lifeVars, queue, closed, disp, crashed>> BY <1>7 DEF Admit
  <2> HIDE DEF r
  <2>5. CASE snd' = [snd EXCEPT ![s] = NextPart(r)]
    BY <1>1, <1>5, <1>6, <2>1, <2>3, <2>4, <2>5 DEF Sending, r
  <2>6. CASE snd' = [snd EXCEPT ![s].pc = "send"]
    <3>1. snd'[s] = [r EXCEPT !.pc = "send"] BY <1>1, <2>6 DEF r
    <3>2. snd' = [snd EXCEPT ![s] = snd'[s]] BY <1>1, <2>6, <3>1 DEF r
    <3>3. snd'[s] \in Snd /\ snd'[s].pc = "send" /\ snd'[s].msg = r.msg /\ snd'[s].part = r.part
      BY <1>1, <3>1 DEF Snd
    <3> QED BY <1>2, <1>6, <2>1, <2>3, <2>4, <3>2, <3>3 DEF Sending, r
  <2> QED BY <2>2, <2>5, <2>6
<1>8. CASE Send(s)
  <2>1. r.pc = "send" BY <1>8 DEF Send
  <2>2. \/ snd' = [snd EXCEPT ![s] = NextPart(r)]
        \/ snd' = [snd EXCEPT ![s] = AfterFailure(r)]
    BY <1>8 DEF Send
  <2>3. last' = last \/ Arrives(r, TRUE) \/ Arrives(r, FALSE) BY <1>8 DEF Send
  <2>4. UNCHANGED <<busVars, lifeVars, queue, closed, disp, crashed>> BY <1>8 DEF Send
  <2>5. \/ AfterFailure(r) = NextPart(r)
        \/ /\ AfterFailure(r) = [r EXCEPT !.pc = "backoff"] /\ r.try # MaxRetries
    BY DEF AfterFailure
  <2> HIDE DEF r
  <2>6. CASE snd' = [snd EXCEPT ![s] = NextPart(r)]
    BY <1>1, <1>5, <1>6, <2>1, <2>3, <2>4, <2>6 DEF Sending, r
  <2>7. CASE snd' = [snd EXCEPT ![s] = [r EXCEPT !.pc = "backoff"]] /\ r.try # MaxRetries
    <3>1. snd'[s] = [r EXCEPT !.pc = "backoff"] BY <1>1, <2>7 DEF r
    <3>2. /\ snd'[s] \in Snd /\ snd'[s].pc = "backoff" /\ snd'[s].msg = r.msg
          /\ snd'[s].part = r.part /\ snd'[s].try = r.try
      BY <1>1, <3>1 DEF Snd
    <3>3. r.try < MaxRetries BY <1>1, <2>7, ManagerAssumption DEF Snd
    <3> QED BY <1>2, <1>6, <2>1, <2>3, <2>4, <2>7, <3>1, <3>2, <3>3 DEF Sending, r
  <2> QED BY <2>2, <2>5, <2>6, <2>7
<1>9. CASE BackOff(s)
  <2>1. r.pc = "backoff" /\ last' = last BY <1>9 DEF BackOff
  <2>2. \/ snd' = [snd EXCEPT ![s] = NextPart(r)]
        \/ snd' = [snd EXCEPT ![s].pc = "send", ![s].try = @ + 1]
    BY <1>1, <1>9 DEF BackOff
  <2>4. UNCHANGED <<busVars, lifeVars, queue, closed, disp, crashed>> BY <1>9 DEF BackOff
  <2> HIDE DEF r
  <2>5. CASE snd' = [snd EXCEPT ![s] = NextPart(r)]
    BY <1>1, <1>5, <2>1, <2>4, <2>5 DEF Sending, r
  <2>6. CASE snd' = [snd EXCEPT ![s].pc = "send", ![s].try = @ + 1]
    <3>1. snd'[s] = [r EXCEPT !.pc = "send", !.try = @ + 1] BY <1>1, <2>6 DEF r, Snd
    <3>2. snd' = [snd EXCEPT ![s] = snd'[s]] BY <1>1, <2>6, <3>1 DEF r
    <3>3. r.try + 1 \in 0 .. MaxRetries BY <1>1, <1>3, <2>1, ManagerAssumption DEF Snd
    <3>4. snd'[s] \in Snd /\ snd'[s].pc = "send" /\ snd'[s].msg = r.msg /\ snd'[s].part = r.part
      BY <1>1, <3>1, <3>3 DEF Snd
    <3> QED BY <1>2, <2>1, <2>4, <3>2, <3>4 DEF Sending, r
  <2> QED BY <2>2, <2>5, <2>6
<1> QED BY <1>7, <1>8, <1>9 DEF Transmit

\* The sequences of messages, and those put at their end.
LEMMA PutLast ==
  ASSUME NEW q \in Seq(Msg), NEW m \in Msg
  PROVE  Append(q, m) \in Seq(Msg) /\ Len(Append(q, m)) = Len(q) + 1
BY AppendProperties

\* The types of everything after a step.
LEMMA TypesStep ==
  ASSUME Frame, MNext
  PROVE  TypeOK'
<1> USE DEF Frame
<1>1. TypeOK OBVIOUS
<1>a. disp \in [Gen \X Kind -> Disp] /\ snd \in [Sender -> Snd] BY <1>1 DEF TypeOK, Disp, Snd
<1>b. Dead \in Disp /\ Started \in Disp BY DEF Dead, Started, Disp
<1>2. ASSUME NEW m \in Msg, Publish(m) PROVE TypeOK'
  <2>1. KindOf[m] \in Kind BY ManagerAssumption
  <2>2. bus[KindOf[m]] \in Seq(Msg) BY <1>1, <2>1 DEF TypeOK
  <2>3. bus' = [bus EXCEPT ![KindOf[m]] = Append(bus[KindOf[m]], m)] /\ Len(bus[KindOf[m]]) < BusCap
    BY <1>2 DEF Publish
  <2>4. bus' \in [Kind -> Seq(Msg)] BY <1>1, <2>1, <2>2, <2>3, PutLast DEF TypeOK
  <2>5. \A k \in Kind : Len(bus'[k]) <= BusCap
    BY <1>1, <2>1, <2>2, <2>3, PutLast, ManagerAssumption DEF TypeOK
  <2>6. issued' \in Seq(Msg) /\ todo' \subseteq Msg
    BY <1>1, <1>2, PutLast DEF TypeOK, Publish
  <2> QED BY <1>1, <1>2, <2>4, <2>5, <2>6 DEF TypeOK, Publish, lifeVars
<1>3. ASSUME NEW m \in Msg, SendMessage(m) PROVE TypeOK'
  <2>1. PartsOf[m] \in Nat \ {0} /\ 0 \in 0 .. MaxRetries BY ManagerAssumption
  <2>2. snd' \in [Sender -> Snd] BY <1>1, <1>3, <2>1 DEF TypeOK, SendMessage, Snd
  <2>3. todo' \subseteq Msg BY <1>1, <1>3 DEF TypeOK, SendMessage
  <2> QED BY <1>1, <1>3, <2>2, <2>3 DEF TypeOK, SendMessage, lifeVars, Snd
<1>4. ASSUME NEW g \in Gen, NEW k \in Kind, Subscribe(g, k) PROVE TypeOK'
  <2>1. CASE UNCHANGED bus
    <3>1. disp' \in [Gen \X Kind -> Disp]
      <4>1. \/ disp' = [disp EXCEPT ![<<g, k>>] = Dead]
            \/ bus[k] # <<>> /\ bus' = [bus EXCEPT ![k] = Tail(@)]
        BY <1>4 DEF Subscribe
      <4>2. CASE disp' = [disp EXCEPT ![<<g, k>>] = Dead] BY <1>a, <1>b, <4>2
      <4>3. CASE bus[k] # <<>> /\ bus' = [bus EXCEPT ![k] = Tail(@)]
        <5>1. bus[k] \in Seq(Msg) /\ Len(Tail(bus[k])) = Len(bus[k]) - 1
          BY <1>1, <4>3, HeadTailProperties DEF TypeOK
        <5> QED BY <1>1, <2>1, <4>3, <5>1 DEF TypeOK
      <4> QED BY <4>1, <4>2, <4>3
    <3> QED BY <1>1, <1>4, <2>1, <3>1 DEF TypeOK, Subscribe, lifeVars, Disp
  <2>2. CASE /\ bus[k] # <<>>
             /\ disp' = [disp EXCEPT ![<<g, k>>] = [pc |-> "look", msg |-> Head(bus[k])]]
             /\ bus' = [bus EXCEPT ![k] = Tail(@)]
    <3>1. bus[k] \in Seq(Msg) /\ Len(bus[k]) <= BusCap BY <1>1 DEF TypeOK
    <3>2. /\ Tail(bus[k]) \in Seq(Msg) /\ Len(Tail(bus[k])) = Len(bus[k]) - 1
          /\ Head(bus[k]) \in Msg
      BY <2>2, <3>1, HeadTailProperties
    <3>3. disp' \in [Gen \X Kind -> Disp] BY <1>1, <2>2, <3>2 DEF TypeOK, Disp
    <3>4. bus' \in [Kind -> Seq(Msg)] BY <1>1, <2>2, <3>2 DEF TypeOK
    <3>5. \A l \in Kind : Len(bus'[l]) <= BusCap
      BY <1>1, <2>2, <3>1, <3>2, ManagerAssumption DEF TypeOK
    <3> QED BY <1>1, <1>4, <3>3, <3>4, <3>5 DEF TypeOK, Subscribe, lifeVars, Disp
  <2> QED BY <1>4, <2>1, <2>2 DEF Subscribe
<1>5. ASSUME NEW g \in Gen, NEW k \in Kind, LookUp(g, k) PROVE TypeOK'
  <2>1. disp' \in [Gen \X Kind -> Disp]
    <3>1. disp[<<g, k>>] \in Disp BY <1>a
    <3>2. [disp[<<g, k>>] EXCEPT !.pc = "put"] \in Disp BY <3>1 DEF Disp
    <3>3. \/ disp' = [disp EXCEPT ![<<g, k>>] = Started]
          \/ disp' = [disp EXCEPT ![<<g, k>>] = [disp[<<g, k>>] EXCEPT !.pc = "put"]]
      BY <1>5 DEF LookUp
    <3> QED BY <1>a, <1>b, <3>2, <3>3
  <2> QED BY <1>1, <1>5, <2>1 DEF TypeOK, LookUp, busVars, lifeVars, Disp
<1>6. ASSUME NEW g \in Gen, NEW k \in Kind, Enqueue(g, k) PROVE TypeOK'
  <2>1. disp[<<g, k>>].msg \in Msg BY <1>6 DEF HandsFull, Enqueue
  <2>2. UNCHANGED <<bus, todo, issued, lifeVars, closed, snd, last>>
    BY <1>6 DEF Enqueue, Put, GiveUp
  <2>3. disp' \in [Gen \X Kind -> Disp] /\ crashed' \in BOOLEAN
    <3>1. \/ disp' = [disp EXCEPT ![<<g, k>>] = Started]
          \/ disp' = [disp EXCEPT ![<<g, k>>] = Dead]
          \/ disp' = disp
      BY <1>6 DEF Enqueue, Put, GiveUp
    <3>2. crashed' \in BOOLEAN BY <1>1, <1>6 DEF TypeOK, Enqueue, Put, GiveUp
    <3> QED BY <1>a, <1>b, <3>1, <3>2
  <2>4. queue' \in [Worker -> Seq(Msg)] /\ \A w \in Worker : Len(queue'[w]) <= QueueCap
    <3>1. CASE queue' = queue BY <1>1, <3>1 DEF TypeOK
    <3>2. CASE Put(g, k)
      <4> DEFINE t == Target(g, k)
      <4>1. /\ queue' = [queue EXCEPT ![t] = Append(queue[t], disp[<<g, k>>].msg)]
            /\ Len(queue[t]) < QueueCap
        BY <3>2 DEF Put
      <4> HIDE DEF t
      <4>2. CASE t \in Worker
        <5>1. queue[t] \in Seq(Msg) BY <1>1, <4>2 DEF TypeOK
        <5> QED BY <1>1, <2>1, <4>1, <4>2, <5>1, PutLast, ManagerAssumption DEF TypeOK
      <4>3. CASE t \notin Worker BY <1>1, <4>1, <4>3 DEF TypeOK
      <4> QED BY <4>2, <4>3
    <3> QED BY <1>6, <3>1, <3>2 DEF Enqueue, GiveUp
  <2> QED BY <1>1, <2>2, <2>3, <2>4 DEF TypeOK, lifeVars, Disp
<1>7. ASSUME NEW w \in Worker, Take(w) PROVE TypeOK'
  <2>0. w \in Sender BY Senders
  <2>1. CASE UNCHANGED queue
    <3>1. CASE snd' = [snd EXCEPT ![w] = Gone]
      <4>1. Gone \in Snd BY ManagerAssumption DEF Gone, Snd
      <4>2. snd' \in [Sender -> Snd] BY <1>1, <3>1, <4>1 DEF TypeOK, Snd
      <4> QED BY <1>1, <1>7, <2>1, <4>2 DEF TypeOK, Take, busVars, lifeVars, Snd
    <3>2. CASE queue[w] # <<>> /\ queue' = [queue EXCEPT ![w] = Tail(@)]
      <4>1. queue[w] \in Seq(Msg) /\ Len(Tail(queue[w])) = Len(queue[w]) - 1
        BY <1>1, <3>2, HeadTailProperties DEF TypeOK
      <4> QED BY <1>1, <2>1, <3>2, <4>1 DEF TypeOK
    <3> QED BY <1>7, <2>1, <3>1, <3>2 DEF Take
  <2>2. CASE /\ queue[w] # <<>>
             /\ snd' = [snd EXCEPT ![w] =
                          [pc |-> "limit", msg |-> Head(queue[w]), part |-> 1, try |-> 0]]
             /\ queue' = [queue EXCEPT ![w] = Tail(@)]
    <3>1. queue[w] \in Seq(Msg) /\ Len(queue[w]) <= QueueCap BY <1>1 DEF TypeOK
    <3>2. /\ Tail(queue[w]) \in Seq(Msg) /\ Len(Tail(queue[w])) = Len(queue[w]) - 1
          /\ Head(queue[w]) \in Msg
      BY <2>2, <3>1, HeadTailProperties
    <3>3. [pc |-> "limit", msg |-> Head(queue[w]), part |-> 1, try |-> 0] \in Snd
      BY <3>2, ManagerAssumption DEF Snd
    <3>4. snd' \in [Sender -> Snd] BY <1>1, <2>2, <3>3 DEF TypeOK, Snd
    <3>5. queue' \in [Worker -> Seq(Msg)] BY <1>1, <2>2, <3>2 DEF TypeOK
    <3>6. \A v \in Worker : Len(queue'[v]) <= QueueCap
      BY <1>1, <2>2, <3>1, <3>2, ManagerAssumption DEF TypeOK
    <3> QED BY <1>1, <1>7, <3>4, <3>5, <3>6 DEF TypeOK, Take, busVars, lifeVars, Snd
  <2> QED BY <1>7, <2>1, <2>2 DEF Take
<1>8. ASSUME NEW s \in Sender, Transmit(s) PROVE TypeOK'
  <2>0. Frame BY <1>1 DEF Frame
  <2>1. snd[s].msg \in Msg /\ snd[s].part \in Nat
    BY <1>1, <1>8, <2>0, TransmitEffect DEF HandsFull, TypeOK
  <2>2. Rest \in Snd BY ManagerAssumption DEF Rest, Snd
  <2>3. snd' \in [Sender -> Snd]
    <3>1. snd' = [snd EXCEPT ![s] = snd'[s]] /\ (snd'[s] = Rest \/ snd'[s] \in Snd)
      BY <1>8, <2>0, TransmitEffect
    <3> QED BY <1>a, <2>2, <3>1
  <2>4. last' \in [Channel \X Kind -> (Msg \cup {0}) \X Nat \X BOOLEAN]
    <3>1. PICK ok \in BOOLEAN : \/ last' = last
                 \/ last' = [last EXCEPT ![<<To[snd[s].msg], KindOf[snd[s].msg]>>]
                                           = <<snd[s].msg, snd[s].part, ok>>]
      BY <1>8, <2>0, TransmitEffect
    <3>2. <<snd[s].msg, snd[s].part, ok>> \in (Msg \cup {0}) \X Nat \X BOOLEAN BY <2>1
    <3> QED BY <1>1, <3>1, <3>2 DEF TypeOK
  <2>5. UNCHANGED <<busVars, lifeVars, queue, closed, disp, crashed>>
    BY <1>8, <2>0, TransmitEffect
  <2> QED BY <1>1, <2>3, <2>4, <2>5 DEF TypeOK, busVars, lifeVars, Snd
<1>9. ASSUME Quiet, ctx' \in [Gen -> {"new", "live", "cancelled"}], closed' \subseteq Worker,
             stopped' \subseteq Gen, crashed' \in BOOLEAN,
             main' \in [pc : {"run", "cancelled", "closedText", "closedMedia", "stopped",
                              "returning", "gone"}, exit : BOOLEAN]
      PROVE  TypeOK'
  BY <1>1, <1>9 DEF TypeOK, Quiet, busVars
<1>10. Cancel => ctx' \in [Gen -> {"new", "live", "cancelled"}]
  BY <1>1 DEF TypeOK, Cancel
<1>11. CASE BeginStop BY <1>1, <1>9, <1>10, <1>11 DEF TypeOK, BeginStop
<1>12. CASE CloseTextQueues
  BY <1>1, <1>9, <1>12 DEF TypeOK, CloseTextQueues, CloseQueues, Workers
<1>13. CASE CloseMediaQueues
  BY <1>1, <1>9, <1>13 DEF TypeOK, CloseMediaQueues, CloseQueues, Workers
<1>14. CASE StopChannels
  <2>1. cur \in Gen BY <1>1, <1>14 DEF Cancelled, StopChannels, TypeOK
  <2> QED BY <1>1, <1>9, <1>14, <2>1 DEF TypeOK, StopChannels
<1>15. CASE Leave BY <1>1, <1>9, <1>15 DEF TypeOK, Leave
<1>16. CASE RestartFails
  BY <1>1, <1>16 DEF TypeOK, RestartFails, busVars
<1>17. CASE Restart
  <2>1. PICK st \in Starts : Boot(gen + 1, st) BY <1>17 DEF Restart
  <2>2. st.up \subseteq Channel /\ st.conf \subseteq Channel /\ 0 \in 0 .. MaxRetries
    BY ManagerAssumption
  <2>3. gen' \in Gen /\ cur' \in {0, gen'}
    BY <1>1, <1>17, ManagerAssumption DEF TypeOK, Restart, Gen
  <2>4. snd' \in [Sender -> Snd] BY <1>1, <2>1, <2>2 DEF TypeOK, Boot, Rest, Snd
  <2>5. disp' \in [Gen \X Kind -> Disp] BY <1>1, <2>1 DEF TypeOK, Boot, Started, Disp
  <2>6. chan' \in [Gen -> [conf : SUBSET Channel, up : SUBSET Channel]]
    <3>1. st \in [conf : SUBSET Channel, up : SUBSET Channel] BY ManagerAssumption
    <3> QED BY <1>1, <2>1, <3>1 DEF TypeOK, Boot
  <2>7. ctx' \in [Gen -> {"new", "live", "cancelled"}] BY <1>1, <2>1 DEF TypeOK, Boot
  <2>8. main' \in [pc : {"returning"}, exit : BOOLEAN] BY <1>1, <1>17 DEF TypeOK, Restart
  <2> QED BY <1>1, <1>17, <2>3, <2>4, <2>5, <2>6, <2>7, <2>8
          DEF TypeOK, Restart, busVars, Snd, Disp
<1>18. CASE RestartReturns BY <1>1, <1>9, <1>10, <1>18 DEF TypeOK, RestartReturns
<1> QED BY <1>2, <1>3, <1>4, <1>5, <1>6, <1>7, <1>8, <1>11, <1>12, <1>13, <1>14, <1>15,
           <1>16, <1>17, <1>18 DEF MNext, Dispatch, Main

\* The main goroutine leaves the bus, the queues, the dispatchers and the
\* senders alone, except where it boots a manager.
LEMMA MainLeaves ==
  ASSUME Main
  PROVE  /\ UNCHANGED <<busVars, queue, last>>
         /\ Restart \/ UNCHANGED <<gen, chan, disp, snd>>
         /\ Restart \/ RestartFails \/ UNCHANGED cur
BY DEF Main, BeginStop, CloseTextQueues, CloseMediaQueues, CloseQueues, StopChannels, Leave,
       RestartFails, Restart, RestartReturns, Quiet, busVars

\* What the manager being booted has before and after.
LEMMA BootEffect ==
  ASSUME Frame, Restart
  PROVE  /\ gen + 1 \in Gen /\ gen' = gen + 1 /\ cur' = gen + 1
         /\ \A s \in Sender : IF s[1] = gen + 1 THEN snd[s].pc = "done" /\ snd'[s] \in {snd[s], Rest}
                                                ELSE snd'[s] = snd[s]
         /\ \A w \in Worker : w[1] = gen + 1 /\ snd'[w].pc # "done" => w[2] \in chan'[gen + 1].up
         /\ \A g \in Gen, k \in Kind :
              IF g = gen + 1 THEN disp[<<g, k>>].pc = "done" /\ disp'[<<g, k>>] \in {disp[<<g, k>>], Started}
                             ELSE disp'[<<g, k>>] = disp[<<g, k>>]
         /\ \A g \in Gen : g # gen + 1 => chan'[g] = chan[g] /\ ctx'[g] = ctx[g]
         /\ ctx'[gen + 1] \in {"new", "live"}
         /\ ctx'[gen + 1] = "new" => chan'[gen + 1].up = {}
<1>1. PICK st \in Starts : Boot(gen + 1, st) BY DEF Restart
<1>2. st.up \subseteq st.conf BY ManagerAssumption
<1>3. gen \in Gen /\ gen + 1 \in Gen /\ gen' = gen + 1 /\ cur' = gen + 1 /\ gen + 1 > gen
  BY ManagerAssumption DEF Frame, TypeOK, Gen, Restart
<1>4. /\ chan \in [Gen -> [conf : SUBSET Channel, up : SUBSET Channel]]
      /\ ctx \in [Gen -> {"new", "live", "cancelled"}]
      /\ DOMAIN disp = Gen \X Kind
  BY DEF Frame, TypeOK
<1>5. chan'[gen + 1] = st /\ \A g \in Gen : g # gen + 1 => chan'[g] = chan[g]
  BY <1>1, <1>3, <1>4 DEF Boot
<1>6. /\ ctx'[gen + 1] = IF st.conf = {} THEN "new" ELSE "live"
      /\ \A g \in Gen : g # gen + 1 => ctx'[g] = ctx[g]
  BY <1>1, <1>3, <1>4 DEF Boot
<1>7. \A s \in Sender : snd'[s] = IF s[1] = gen + 1 /\ (s[2] \in st.up \/ s = Caller(gen + 1))
                                  THEN Rest ELSE snd[s]
  BY <1>1 DEF Boot
<1>8. \A g \in Gen, k \in Kind :
        disp'[<<g, k>>] = IF g = gen + 1 /\ st.conf # {} THEN Started ELSE disp[<<g, k>>]
  BY <1>1, <1>4 DEF Boot
<1>9. /\ \A s \in Sender : s[1] = gen + 1 => snd[s].pc = "done"
      /\ \A k \in Kind : disp[<<gen + 1, k>>].pc = "done"
  BY <1>3 DEF Frame, Unborn
<1>10. \A w \in Worker : w[1] = gen + 1 /\ snd'[w].pc # "done" => w[2] \in chan'[gen + 1].up
  BY <1>3, <1>5, <1>7, <1>9, Senders
<1> QED BY <1>2, <1>3, <1>5, <1>6, <1>7, <1>8, <1>9, <1>10

\* Who has a message has one worth the name.
LEMMA HandsFullStep ==
  ASSUME Frame, MNext
  PROVE  HandsFull'
<1>1. TypeOK /\ HandsFull BY DEF Frame
<1>a. disp \in [Gen \X Kind -> Disp] /\ snd \in [Sender -> Snd] BY <1>1 DEF TypeOK, Disp, Snd
<1>b. 0 \notin Msg BY ManagerAssumption
<1>2. ASSUME NEW m \in Msg, Publish(m) PROVE HandsFull'
  BY <1>1, <1>2 DEF HandsFull, Publish, lifeVars
<1>3. ASSUME NEW m \in Msg, SendMessage(m) PROVE HandsFull'
  <2>1. UNCHANGED <<disp, chan>> BY <1>3 DEF SendMessage, lifeVars
  <2>2. \/ snd' = snd
        \/ snd' = [snd EXCEPT ![Caller(gen)] = [pc |-> "limit", msg |-> m, part |-> 1, try |-> 0]]
    BY <1>3 DEF SendMessage
  <2>3. snd' = snd => HandsFull' BY <1>1, <2>1 DEF HandsFull
  <2>4. CASE snd' = [snd EXCEPT ![Caller(gen)] = [pc |-> "limit", msg |-> m, part |-> 1, try |-> 0]]
    BY <1>1, <1>a, <2>1, <2>4 DEF HandsFull, Sending
  <2> QED BY <2>2, <2>3, <2>4
<1>4. ASSUME NEW g \in Gen, NEW k \in Kind, Dispatch(g, k) PROVE HandsFull'
  <2>1. UNCHANGED <<snd, chan>>
    BY <1>4 DEF Dispatch, Subscribe, LookUp, Enqueue, lifeVars
  <2>2. \/ disp' = [disp EXCEPT ![<<g, k>>] = Dead]
        \/ disp' = [disp EXCEPT ![<<g, k>>] = Started]
        \/ disp' = disp
        \/ /\ bus[k] # <<>>
           /\ disp' = [disp EXCEPT ![<<g, k>>] = [pc |-> "look", msg |-> Head(bus[k])]]
        \/ /\ disp[<<g, k>>].pc = "look" /\ To[disp[<<g, k>>].msg] \in chan[g].up
           /\ disp' = [disp EXCEPT ![<<g, k>>] = [disp[<<g, k>>] EXCEPT !.pc = "put"]]
    BY <1>4 DEF Dispatch, Subscribe, LookUp, Enqueue, Put, GiveUp
  <2>3. CASE disp' = [disp EXCEPT ![<<g, k>>] = Dead]
    BY <1>1, <1>a, <2>1, <2>3 DEF HandsFull, Dead
  <2>4. CASE disp' = [disp EXCEPT ![<<g, k>>] = Started]
    BY <1>1, <1>a, <2>1, <2>4 DEF HandsFull, Started
  <2>5. CASE disp' = disp BY <1>1, <2>1, <2>5 DEF HandsFull
  <2>6. CASE /\ bus[k] # <<>>
             /\ disp' = [disp EXCEPT ![<<g, k>>] = [pc |-> "look", msg |-> Head(bus[k])]]
    <3>1. bus[k] \in Seq(Msg) BY <1>1 DEF TypeOK
    <3>2. Head(bus[k]) \in Msg BY <2>6, <3>1, HeadTailProperties
    <3> QED BY <1>1, <1>a, <2>1, <2>6, <3>2 DEF HandsFull
  <2>7. CASE /\ disp[<<g, k>>].pc = "look" /\ To[disp[<<g, k>>].msg] \in chan[g].up
             /\ disp' = [disp EXCEPT ![<<g, k>>] = [disp[<<g, k>>] EXCEPT !.pc = "put"]]
    <3>1. /\ disp'[<<g, k>>].pc = "put" /\ disp'[<<g, k>>].msg = disp[<<g, k>>].msg
          /\ \A h \in Gen, l \in Kind : <<h, l>> # <<g, k>> => disp'[<<h, l>>] = disp[<<h, l>>]
      BY <1>a, <2>7 DEF Disp
    <3> QED BY <1>1, <2>1, <2>7, <3>1 DEF HandsFull
  <2> QED BY <2>2, <2>3, <2>4, <2>5, <2>6, <2>7
<1>5. ASSUME NEW w \in Worker, Take(w) PROVE HandsFull'
  <2>0. w \in Sender BY Senders
  <2>1. UNCHANGED <<disp, chan>> BY <1>5 DEF Take, lifeVars
  <2>2. \/ snd' = [snd EXCEPT ![w] = Gone]
        \/ /\ queue[w] # <<>>
           /\ snd' = [snd EXCEPT ![w] =
                        [pc |-> "limit", msg |-> Head(queue[w]), part |-> 1, try |-> 0]]
    BY <1>5 DEF Take
  <2>3. CASE snd' = [snd EXCEPT ![w] = Gone]
    BY <1>1, <1>a, <2>0, <2>1, <2>3 DEF HandsFull, Gone, Sending
  <2>4. CASE /\ queue[w] # <<>>
             /\ snd' = [snd EXCEPT ![w] =
                          [pc |-> "limit", msg |-> Head(queue[w]), part |-> 1, try |-> 0]]
    <3>1. queue[w] \in Seq(Msg) BY <1>1 DEF TypeOK
    <3>2. Head(queue[w]) \in Msg BY <2>4, <3>1, HeadTailProperties
    <3> QED BY <1>1, <1>a, <2>0, <2>1, <2>4, <3>2 DEF HandsFull, Sending
  <2> QED BY <2>2, <2>3, <2>4
<1>6. ASSUME NEW s \in Sender, Transmit(s) PROVE HandsFull'
  <2>1. /\ UNCHANGED <<disp, chan>>
        /\ snd' = [snd EXCEPT ![s] = snd'[s]] /\ snd[s].pc \in Sending
        /\ \/ snd'[s] = Rest
           \/ /\ snd'[s].pc \in Sending
              /\ snd'[s].msg = snd[s].msg /\ snd'[s].part # 0
              /\ snd'[s].pc = "backoff" => snd'[s].try < MaxRetries
    BY <1>6, TransmitEffect DEF lifeVars
  <2>2. \A u \in Sender : u # s => snd'[u] = snd[u] BY <1>a, <2>1
  <2>3. /\ snd'[s].pc \in Sending => snd'[s].msg \in Msg /\ snd'[s].part # 0
        /\ snd'[s].pc \notin Sending => snd'[s].msg = 0
        /\ snd'[s].pc = "backoff" => snd'[s].try < MaxRetries
    BY <1>1, <2>1 DEF HandsFull, Rest, Sending
  <2> QED BY <1>1, <2>1, <2>2, <2>3 DEF HandsFull
<1>7. ASSUME Main PROVE HandsFull'
  <2>1. CASE Restart
    <3>1. gen + 1 \in Gen /\ \A s \in Sender : snd'[s] = snd[s] \/ snd'[s] = Rest
      BY <2>1, BootEffect
    <3>2. \A g \in Gen, k \in Kind : /\ disp'[<<g, k>>] = disp[<<g, k>>] \/ disp'[<<g, k>>] = Started
                                     /\ disp'[<<g, k>>].pc = "put" => g # gen + 1
                                     /\ g # gen + 1 => chan'[g] = chan[g]
      <4>1. Started.pc # "put" BY DEF Started
      <4> QED BY <2>1, <4>1, BootEffect
    <3>3. \A s \in Sender :
            /\ snd'[s].pc \in Sending => snd'[s].msg \in Msg /\ snd'[s].part # 0
            /\ snd'[s].pc \notin Sending => snd'[s].msg = 0
            /\ snd'[s].pc = "backoff" => snd'[s].try < MaxRetries
      BY <1>1, <3>1 DEF HandsFull, Rest, Sending
    <3> QED BY <1>1, <3>2, <3>3 DEF HandsFull, Started
  <2>2. CASE ~Restart BY <1>1, <1>7, <2>2, MainLeaves DEF HandsFull
  <2> QED BY <2>1, <2>2
<1> QED BY <1>2, <1>3, <1>4, <1>5, <1>6, <1>7 DEF MNext

\* Managers are made in their order.
LEMMA UnbornStep ==
  ASSUME Frame, MNext
  PROVE  Unborn'
<1>1. TypeOK /\ Unborn /\ Cancelled /\ gen \in Nat /\ Gen \subseteq Nat /\ cur \in {0, gen}
  BY DEF Frame, TypeOK, Gen
<1>a. disp \in [Gen \X Kind -> Disp] /\ snd \in [Sender -> Snd] BY <1>1 DEF TypeOK, Disp, Snd
<1>2. ASSUME NEW m \in Msg, Publish(m) PROVE Unborn'
  BY <1>1, <1>2 DEF Unborn, Publish, lifeVars
<1>3. ASSUME NEW m \in Msg, SendMessage(m) PROVE Unborn'
  <2>1. UNCHANGED <<disp, chan, gen, ctx, stopped>> BY <1>3 DEF SendMessage, lifeVars
  <2>2. \A s \in Sender : snd'[s] = snd[s] \/ s[1] = gen
    <3>1. \/ snd' = snd
          \/ \E r : snd' = [snd EXCEPT ![Caller(gen)] = r]
      BY <1>3 DEF SendMessage
    <3>2. Caller(gen)[1] = gen BY DEF Caller
    <3> QED BY <1>a, <3>1, <3>2
  <2>3. ~(gen > gen) BY <1>1
  <2>4. \A s \in Sender : s[1] > gen => snd'[s] = snd[s] BY <2>2, <2>3
  <2> QED BY <1>1, <2>1, <2>4 DEF Unborn
<1>4. ASSUME NEW g \in Gen, NEW k \in Kind, Dispatch(g, k) PROVE Unborn'
  <2>1. UNCHANGED <<snd, lifeVars>> /\ disp[<<g, k>>].pc # "done"
    BY <1>4 DEF Dispatch, Subscribe, LookUp, Enqueue
  <2>2. \A h \in Gen, l \in Kind : disp'[<<h, l>>] = disp[<<h, l>>] \/ (h = g /\ l = k)
    BY <1>a, <1>4 DEF Dispatch, Subscribe, LookUp, Enqueue, Put, GiveUp
  <2>3. ~(g > gen) BY <1>1, <2>1 DEF Unborn
  <2> QED BY <1>1, <2>1, <2>2, <2>3 DEF Unborn, lifeVars
<1>5. ASSUME NEW w \in Worker, Take(w) PROVE Unborn'
  <2>1. UNCHANGED <<disp, lifeVars>> /\ snd[w].pc # "done" BY <1>5 DEF Take
  <2>2. \A s \in Sender : snd'[s] = snd[s] \/ s = w BY <1>a, <1>5 DEF Take
  <2>3. ~(w[1] > gen) BY <1>1, <2>1, Senders DEF Unborn
  <2> QED BY <1>1, <2>1, <2>2, <2>3 DEF Unborn, lifeVars
<1>6. ASSUME NEW s \in Sender, Transmit(s) PROVE Unborn'
  <2>1. UNCHANGED <<disp, lifeVars>> /\ snd[s].pc # "done" /\ snd' = [snd EXCEPT ![s] = snd'[s]]
    BY <1>6, TransmitEffect DEF Sending
  <2>2. \A u \in Sender : snd'[u] = snd[u] \/ u = s BY <1>a, <2>1
  <2>3. ~(s[1] > gen) BY <1>1, <2>1, Senders DEF Unborn
  <2> QED BY <1>1, <2>1, <2>2, <2>3 DEF Unborn, lifeVars
<1>7. ASSUME Main PROVE Unborn'
  <2>1. CASE Restart
    <3>1. /\ gen' = gen + 1 /\ stopped' = stopped
          /\ \A g \in Gen : g > gen' => g # gen + 1 /\ g > gen
      BY <1>1, <2>1 DEF Restart
    <3>2. \A g \in Gen : g # gen + 1 =>
            /\ chan'[g] = chan[g] /\ ctx'[g] = ctx[g]
            /\ \A k \in Kind : disp'[<<g, k>>] = disp[<<g, k>>]
            /\ \A s \in Sender : s[1] = g => snd'[s] = snd[s]
      BY <2>1, BootEffect
    <3> QED BY <1>1, <3>1, <3>2 DEF Unborn
  <2>2. CASE ~Restart
    <3>1. UNCHANGED <<gen, chan, disp, snd>> BY <1>7, <2>2, MainLeaves
    <3>2. ~(cur > gen) BY <1>1
    <3>3. \A g \in Gen : ctx'[g] = ctx[g] \/ g = cur
      BY <1>1, <1>7, <2>2 DEF TypeOK, Main, BeginStop, CloseTextQueues, CloseMediaQueues, CloseQueues,
             StopChannels, Leave, RestartFails, RestartReturns, Cancel
    <3>4. stopped' \subseteq stopped \cup {cur}
      BY <1>7, <2>2 DEF Main, BeginStop, CloseTextQueues, CloseMediaQueues, CloseQueues,
             StopChannels, Leave, RestartFails, RestartReturns
    <3> QED BY <1>1, <3>1, <3>2, <3>3, <3>4 DEF Unborn
  <2> QED BY <2>1, <2>2
<1> QED BY <1>2, <1>3, <1>4, <1>5, <1>6, <1>7 DEF MNext

\* Where queues are closed the context is cancelled.
LEMMA CancelledStep ==
  ASSUME Frame, MNext
  PROVE  Cancelled'
<1>1. TypeOK /\ Cancelled /\ gen \in Gen /\ cur \in {0, gen} /\ 0 \notin Gen
  BY DEF Frame, TypeOK, Gen
<1>a. ctx \in [Gen -> {"new", "live", "cancelled"}] BY <1>1 DEF TypeOK
<1>2. ASSUME UNCHANGED <<closed, ctx, chan, main, cur, gen, crashed>> PROVE Cancelled'
  BY <1>1, <1>2 DEF Cancelled, EverCancelled
<1>3. ASSUME NEW m \in Msg, Publish(m) \/ SendMessage(m) PROVE Cancelled'
  BY <1>2, <1>3 DEF Publish, SendMessage, lifeVars
<1>4. ASSUME NEW g \in Gen, NEW k \in Kind, Dispatch(g, k) PROVE Cancelled'
  <2>1. UNCHANGED <<closed, ctx, chan, main, cur, gen>>
    BY <1>4 DEF Dispatch, Subscribe, LookUp, Enqueue, lifeVars
  <2>2. crashed' = crashed \/ Target(g, k) \in closed
    BY <1>4 DEF Dispatch, Subscribe, LookUp, Enqueue, Put, GiveUp
  <2>3. Target(g, k) \in closed => ctx[g] = "cancelled"
    BY <1>1 DEF Cancelled, Target
  <2> QED BY <1>1, <2>1, <2>2, <2>3 DEF Cancelled, EverCancelled
<1>5. ASSUME NEW w \in Worker, Take(w) PROVE Cancelled'
  BY <1>2, <1>5 DEF Take, lifeVars
<1>6. ASSUME NEW s \in Sender, Transmit(s) PROVE Cancelled'
  BY <1>2, <1>6, TransmitEffect DEF lifeVars
<1>7. ASSUME UNCHANGED <<closed, chan, cur, gen, crashed>>, Cancel,
             main'.pc \in {"cancelled", "closedText", "closedMedia"} => cur # 0
      PROVE  Cancelled'
  <2>1. \A g \in Gen : ctx[g] = "cancelled" => ctx'[g] = "cancelled"
    BY <1>a, <1>7 DEF Cancel
  <2>2. \A g \in Gen : ctx'[g] = "new" => ctx[g] = "new"
    BY <1>a, <1>7 DEF Cancel
  <2>3. cur # 0 => ctx'[gen] # "live" BY <1>1, <1>a, <1>7 DEF Cancel
  <2>4. \A w \in closed : w[1] \in Gen BY <1>1, Senders DEF TypeOK
  <2> QED BY <1>1, <1>7, <2>1, <2>2, <2>3, <2>4 DEF Cancelled, EverCancelled
<1>8. CASE BeginStop BY <1>7, <1>8 DEF BeginStop, Quiet
<1>9. CASE RestartReturns BY <1>7, <1>9 DEF RestartReturns, Quiet
<1>10. ASSUME NEW kinds, NEW next, main.pc \in {"cancelled", "closedText"},
              CloseQueues(Workers(cur, kinds), next)
       PROVE  Cancelled'
  <2>1. cur = gen /\ ctx[gen] # "live" BY <1>1, <1>10 DEF Cancelled
  <2>2. \A w \in Workers(cur, kinds) : w[1] = gen /\ ctx[gen] = "cancelled"
    BY <1>1, <1>a, <2>1 DEF Cancelled, Workers
  <2>3. UNCHANGED <<ctx, chan, cur, gen>> BY <1>10 DEF CloseQueues, Quiet
  <2>4. closed' \subseteq closed \cup Workers(cur, kinds) BY <1>10 DEF CloseQueues
  <2>5. crashed' = crashed \/ Workers(cur, kinds) # {} BY <1>10 DEF CloseQueues
  <2>6. EverCancelled' <=> EverCancelled BY <2>3 DEF EverCancelled
  <2>7. Workers(cur, kinds) # {} => EverCancelled BY <1>1, <2>2 DEF EverCancelled
  <2>8. crashed' => EverCancelled' BY <1>1, <2>5, <2>6, <2>7 DEF Cancelled
  <2>9. \A w \in closed' : ctx'[w[1]] = "cancelled" BY <1>1, <2>2, <2>3, <2>4 DEF Cancelled
  <2> QED BY <1>1, <2>1, <2>3, <2>8, <2>9 DEF Cancelled
<1>11. CASE CloseTextQueues BY <1>10, <1>11 DEF CloseTextQueues
<1>12. CASE CloseMediaQueues BY <1>10, <1>12 DEF CloseMediaQueues
<1>13. CASE StopChannels \/ Leave
  <2>1. UNCHANGED <<closed, ctx, chan, cur, gen, crashed>>
        /\ main'.pc \notin {"cancelled", "closedText", "closedMedia"}
    BY <1>1, <1>13 DEF StopChannels, Leave, Quiet, TypeOK
  <2> QED BY <1>1, <2>1 DEF Cancelled, EverCancelled
<1>14. CASE RestartFails
  <2>1. UNCHANGED <<closed, ctx, chan, gen, crashed>>
        /\ main'.pc \notin {"cancelled", "closedText", "closedMedia"}
    BY <1>1, <1>14 DEF RestartFails, TypeOK
  <2> QED BY <1>1, <2>1 DEF Cancelled, EverCancelled
<1>15. CASE Restart
  <2>1. UNCHANGED <<closed, crashed>>
        /\ main'.pc \notin {"cancelled", "closedText", "closedMedia"}
    BY <1>1, <1>15 DEF Restart, TypeOK
  <2>2. gen + 1 \in Gen /\ gen + 1 > gen /\ ctx[gen + 1] = "new"
    BY <1>1, <1>15, BootEffect DEF Frame, Unborn, Gen
  <2>3. /\ \A g \in Gen : g # gen + 1 => chan'[g] = chan[g] /\ ctx'[g] = ctx[g]
        /\ ctx'[gen + 1] = "new" => chan'[gen + 1].up = {}
    BY <1>15, BootEffect
  <2>4. \A w \in closed : w[1] \in Gen BY <1>1, Senders DEF TypeOK
  <2>5. \A g \in Gen : ctx[g] = "cancelled" => ctx'[g] = "cancelled" BY <2>2, <2>3
  <2>6. EverCancelled => EverCancelled' BY <2>5 DEF EverCancelled
  <2>7. \A w \in closed' : ctx'[w[1]] = "cancelled" BY <1>1, <2>1, <2>4, <2>5 DEF Cancelled
  <2>8. \A g \in Gen : ctx'[g] = "new" => chan'[g].up = {} BY <1>1, <2>3 DEF Cancelled
  <2> QED BY <1>1, <2>1, <2>6, <2>7, <2>8 DEF Cancelled
<1> QED BY <1>3, <1>4, <1>5, <1>6, <1>8, <1>9, <1>11, <1>12, <1>13, <1>14, <1>15
        DEF MNext, Main

\* Workers of a manager end before the next one is made.
LEMMA WorkersEndStep ==
  ASSUME Frame, MNext
  PROVE  WorkersEnd'
<1>1. TypeOK /\ WorkersEnd /\ gen \in Gen /\ cur \in {0, gen} /\ 0 \notin Gen
  BY DEF Frame, TypeOK, Gen
<1>a. snd \in [Sender -> Snd] BY <1>1 DEF TypeOK, Snd
<1>2. ASSUME UNCHANGED lifeVars,
             \A w \in Worker : snd'[w].pc # "done" => snd[w].pc # "done"
      PROVE  WorkersEnd'
  BY <1>1, <1>2 DEF WorkersEnd, lifeVars
<1>3. ASSUME NEW m \in Msg, Publish(m) \/ SendMessage(m) PROVE WorkersEnd'
  <2>1. UNCHANGED lifeVars BY <1>3 DEF Publish, SendMessage
  <2>2. \/ snd' = snd
        \/ \E r : snd' = [snd EXCEPT ![Caller(gen)] = r]
    BY <1>3 DEF Publish, SendMessage
  <2>3. \A w \in Worker : snd'[w] = snd[w] BY <1>1, <1>a, <2>2, Senders
  <2> QED BY <1>2, <2>1, <2>3
<1>4. ASSUME NEW g \in Gen, NEW k \in Kind, Dispatch(g, k) PROVE WorkersEnd'
  BY <1>2, <1>4 DEF Dispatch, Subscribe, LookUp, Enqueue
<1>5. ASSUME NEW w \in Worker, Take(w) PROVE WorkersEnd'
  <2>1. UNCHANGED lifeVars /\ snd[w].pc = "idle" BY <1>5 DEF Take
  <2>2. \E r : snd' = [snd EXCEPT ![w] = r] BY <1>5 DEF Take
  <2>3. \A v \in Worker : v # w => snd'[v] = snd[v] BY <1>a, <2>2, Senders
  <2> QED BY <1>2, <2>1, <2>3
<1>6. ASSUME NEW s \in Sender, Transmit(s) PROVE WorkersEnd'
  <2>1. UNCHANGED lifeVars /\ snd[s].pc # "done" /\ snd' = [snd EXCEPT ![s] = snd'[s]]
    BY <1>6, TransmitEffect DEF Sending
  <2>2. \A v \in Worker : v # s => snd'[v] = snd[v] BY <1>a, <2>1, Senders
  <2> QED BY <1>2, <2>1, <2>2
<1>7. ASSUME UNCHANGED <<gen, chan, snd>>, Main,
             BeginStop \/ CloseTextQueues \/ CloseMediaQueues \/ RestartReturns
      PROVE  WorkersEnd'
  <2>1. UNCHANGED <<cur, stopped>>
    BY <1>7 DEF BeginStop, CloseTextQueues, CloseMediaQueues, CloseQueues, RestartReturns, Quiet
  <2>2. main'.pc = "stopped" => cur = 0 \/ main.pc = "stopped"
    BY <1>1, <1>7 DEF BeginStop, CloseTextQueues, CloseMediaQueues, CloseQueues, RestartReturns, TypeOK
  <2>3. main'.pc = "closedMedia" =>
          \/ main.pc = "closedMedia"
          \/ \A w \in Workers(cur, {"text"}) : snd[w].pc = "done"
    BY <1>1, <1>7 DEF BeginStop, CloseTextQueues, CloseMediaQueues, CloseQueues, RestartReturns, TypeOK
  <2>4. \A w \in Worker : snd[w].pc # "done" /\ w[3] = "text" => w \in Workers(cur, {"text"})
    BY <1>1 DEF WorkersEnd, Workers
  <2>5. main'.pc = "closedMedia" => \A w \in Worker : w[3] = "text" => snd[w].pc = "done"
    BY <1>1, <2>3, <2>4 DEF WorkersEnd
  <2> QED BY <1>1, <1>7, <2>1, <2>2, <2>5 DEF WorkersEnd
<1>8. CASE StopChannels \/ Leave
  <2>1. UNCHANGED <<snd, gen, cur, chan>> /\ main'.pc # "closedMedia"
    BY <1>1, <1>8 DEF StopChannels, Leave, Quiet, TypeOK
  <2>2. \A w \in Worker : snd[w].pc = "done"
    <3>1. CASE Leave BY <1>1, <3>1 DEF Leave, WorkersEnd
    <3>2. CASE StopChannels
      <4>1. \A w \in Workers(cur, Kind \ {"text"}) : snd[w].pc = "done" BY <3>2 DEF StopChannels
      <4>2. \A w \in Worker : w[3] = "text" => snd[w].pc = "done"
        BY <1>1, <3>2 DEF StopChannels, WorkersEnd
      <4>3. \A w \in Worker : snd[w].pc # "done" /\ w[3] # "text" => w \in Workers(cur, Kind \ {"text"})
        BY <1>1, Senders DEF WorkersEnd, Workers
      <4> QED BY <4>1, <4>2, <4>3
    <3> QED BY <1>8, <3>1, <3>2
  <2> QED BY <2>1, <2>2 DEF WorkersEnd
<1>9. CASE RestartFails
  <2>1. snd' = snd /\ main.pc = "stopped" /\ main'.pc # "closedMedia"
    BY <1>1, <1>9 DEF RestartFails, TypeOK
  <2>2. \A w \in Worker : snd[w].pc = "done" BY <1>1, <2>1 DEF WorkersEnd
  <2> QED BY <2>1, <2>2 DEF WorkersEnd
<1>10. CASE Restart
  <2>1. main.pc = "stopped" /\ main'.pc = "returning" /\ stopped' = stopped
    BY <1>1, <1>10 DEF Restart, TypeOK
  <2>2. \A w \in Worker : snd[w].pc = "done" BY <1>1, <2>1 DEF WorkersEnd
  <2>3. /\ gen + 1 \in Gen /\ gen + 1 > gen /\ gen + 1 # 0 /\ gen' = gen + 1 /\ cur' = gen + 1
        /\ \A w \in Worker : snd'[w].pc # "done" => w[1] = gen + 1
        /\ \A w \in Worker : w[1] = gen + 1 /\ snd'[w].pc # "done" => w[2] \in chan'[gen + 1].up
    BY <1>1, <1>10, <2>2, BootEffect, Senders DEF Gen
  <2>4. gen + 1 \notin stopped BY <2>3 DEF Frame, Unborn
  <2> QED BY <2>1, <2>3, <2>4 DEF WorkersEnd
<1>11. Main => Restart \/ UNCHANGED <<gen, chan, snd>> BY MainLeaves
<1> QED BY <1>3, <1>4, <1>5, <1>6, <1>7, <1>8, <1>9, <1>10, <1>11 DEF MNext, Main, Restart

----------------------------------------------------------------------------
(* The way of a message, from its issue to its platform                    *)

\* What sequence q carries, and that it carries nothing twice.
In(q)    == {m \in Msg : \E i \in 1 .. Len(q) : q[i] = m}
NoDup(q) == \A i, j \in 1 .. Len(q) : q[i] = q[j] => i = j

\* The places on the way, and what a worker has or a platform was last sent.
onBus  == [k \in Kind |-> In(bus[k])]
held   == [d \in Gen \X Kind |-> disp[d].msg]
queued == [w \in Worker |-> In(queue[w])]
borne  == [s \in Sender |-> snd[s].msg]
sent   == {last[l][1] : l \in Channel \X Kind} \cup {borne[w] : w \in Worker}

\* Messages are where their kind and channel take them.
OnRoute ==
  /\ \A k \in Kind : \A m \in onBus[k] : KindOf[m] = k /\ m \notin SyncMsg
  /\ \A d \in Gen \X Kind : held[d] # 0 => KindOf[held[d]] = d[2] /\ held[d] \notin SyncMsg
  /\ \A w \in Worker : \A m \in queued[w] : <<To[m], KindOf[m]>> = <<w[2], w[3]>> /\ m \notin SyncMsg
  /\ \A w \in Worker : borne[w] # 0 =>
       <<To[borne[w]], KindOf[borne[w]]>> = <<w[2], w[3]>> /\ borne[w] \notin SyncMsg
  /\ \A g \in Gen : borne[Caller(g)] # 0 => borne[Caller(g)] \in SyncMsg

\* No dispatcher, no queue has m.
Unheld(m)   == \A d \in Gen \X Kind : held[d] # m
Unqueued(m) == \A w \in Worker : m \notin queued[w]

\* On its way a message is in one place, and was not sent before.
OneWay ==
  /\ \A k \in Kind : NoDup(bus[k])
  /\ \A w \in Worker : NoDup(queue[w])
  /\ \A m \in todo : (\A k \in Kind : m \notin onBus[k]) /\ Unheld(m) /\ Unqueued(m) /\ m \notin sent
  /\ \A k \in Kind : \A m \in onBus[k] : Unheld(m) /\ Unqueued(m) /\ m \notin sent
  /\ \A d \in Gen \X Kind : held[d] # 0 =>
       /\ \A e \in Gen \X Kind : held[e] = held[d] => e = d
       /\ Unqueued(held[d]) /\ held[d] \notin sent
  /\ \A w \in Worker : \A m \in queued[w] :
       m \notin sent /\ \A v \in Worker : m \in queued[v] => v = w

\* What the platform has of a worker's message are earlier parts, or this one
\* by a call that failed.
PartFits(r, l) ==
  r.msg # 0 /\ l[1] = r.msg =>
    l[2] < r.part \/ (l[2] = r.part /\ ~l[3] /\ r.pc \in {"send", "backoff"})
Progress == \A w \in Worker : PartFits(snd[w], last[<<w[2], w[3]>>])

ManagerInv == Frame /\ OnRoute /\ OneWay /\ Progress

\* Where nothing moves the way stays as it was.
LEMMA WayKept ==
  ASSUME OnRoute, OneWay, UNCHANGED <<todo, bus, queue, last, held, borne>>
  PROVE  OnRoute' /\ OneWay'
<1>1. UNCHANGED <<onBus, queued, sent>> BY DEF onBus, queued, sent, In
<1>2. OnRoute' BY <1>1 DEF OnRoute
<1>3. OneWay' BY <1>1 DEF OneWay, NoDup, Unheld, Unqueued
<1> QED BY <1>2, <1>3

\* A message put at the end.
LEMMA InAppend ==
  ASSUME NEW q \in Seq(Msg), NEW m \in Msg
  PROVE  /\ In(Append(q, m)) = In(q) \cup {m}
         /\ NoDup(q) /\ m \notin In(q) => NoDup(Append(q, m))
<1>1. /\ Len(Append(q, m)) = Len(q) + 1 /\ Len(q) \in Nat
      /\ \A i \in 1 .. Len(q) : Append(q, m)[i] = q[i]
      /\ Append(q, m)[Len(q) + 1] = m
  BY AppendProperties, LenProperties
<1>2. In(Append(q, m)) = In(q) \cup {m} BY <1>1 DEF In
<1>3. ASSUME NoDup(q), m \notin In(q) PROVE NoDup(Append(q, m))
  <2>1. \A i \in 1 .. Len(q) : q[i] # m BY <1>3 DEF In
  <2> QED BY <1>1, <1>3, <2>1 DEF NoDup
<1> QED BY <1>2, <1>3

\* A message taken from the front.
LEMMA InTail ==
  ASSUME NEW q \in Seq(Msg), q # <<>>, NoDup(q)
  PROVE  /\ Head(q) \in In(q) /\ In(Tail(q)) = In(q) \ {Head(q)}
         /\ NoDup(Tail(q))
<1>1. /\ Len(q) \in Nat \ {0} /\ Len(Tail(q)) = Len(q) - 1
      /\ \A i \in 1 .. Len(q) - 1 : Tail(q)[i] = q[i + 1]
      /\ Head(q) = q[1] /\ Head(q) \in Msg
      /\ \A i \in 1 .. Len(q) : q[i] \in Msg
  BY HeadTailProperties, LenProperties, ElementOfSeq, EmptySeq
<1>2. Head(q) \in In(q) BY <1>1 DEF In
<1>3. ASSUME NEW m \in In(Tail(q)) PROVE m \in In(q) \ {Head(q)}
  <2>1. PICK i \in 1 .. Len(q) - 1 : q[i + 1] = m BY <1>1, <1>3 DEF In
  <2>2. i + 1 \in 1 .. Len(q) /\ 1 \in 1 .. Len(q) /\ i + 1 # 1 BY <1>1, <2>1
  <2>3. q[i + 1] # q[1] BY <2>2 DEF NoDup
  <2> QED BY <1>1, <1>3, <2>1, <2>2, <2>3 DEF In
<1>4. ASSUME NEW m \in In(q) \ {Head(q)} PROVE m \in In(Tail(q))
  <2>1. PICK i \in 1 .. Len(q) : q[i] = m BY <1>4 DEF In
  <2>2. i - 1 \in 1 .. Len(q) - 1 /\ (i - 1) + 1 = i BY <1>1, <1>4, <2>1
  <2>3. Tail(q)[i - 1] = m BY <1>1, <2>1, <2>2
  <2> QED BY <1>1, <1>4, <2>2, <2>3 DEF In
<1>5. NoDup(Tail(q))
  <2>1. \A i \in 1 .. Len(q) - 1 : i + 1 \in 1 .. Len(q) BY <1>1
  <2> QED BY <1>1, <2>1 DEF NoDup
<1> QED BY <1>2, <1>3, <1>4, <1>5

\* A published message joins the bus.
LEMMA PublishWay ==
  ASSUME Frame, OnRoute, OneWay, NEW m \in Msg, Publish(m)
  PROVE  OnRoute' /\ OneWay'
<1> DEFINE k == KindOf[m]
<1>1. k \in Kind /\ m # 0 BY ManagerAssumption
<1>2. bus \in [Kind -> Seq(Msg)] BY DEF Frame, TypeOK
<1>3. /\ bus' = [bus EXCEPT ![k] = Append(bus[k], m)] /\ todo' = todo \ {m}
      /\ m \in todo /\ m \notin SyncMsg
      /\ UNCHANGED <<queue, disp, snd, last>>
  BY DEF Publish, MayIssue
<1>4. KindOf[m] = k OBVIOUS
<1> HIDE DEF k
<1>5. UNCHANGED <<queued, held, borne, sent>> BY <1>3 DEF queued, held, borne, sent, In
<1>6. /\ m \notin onBus[k] /\ onBus'[k] = onBus[k] \cup {m} /\ NoDup(bus'[k])
      /\ \A l \in Kind : l # k => onBus'[l] = onBus[l] /\ bus'[l] = bus[l]
  <2>1. m \notin onBus[k] BY <1>1, <1>3 DEF OneWay
  <2>2. bus'[k] = Append(bus[k], m) /\ bus[k] \in Seq(Msg) /\ \A l \in Kind : l # k => bus'[l] = bus[l]
    BY <1>1, <1>2, <1>3
  <2>3. onBus[k] = In(bus[k]) /\ NoDup(bus[k]) BY <1>1 DEF onBus, OneWay
  <2>4. \A l \in Kind : onBus'[l] = In(bus'[l]) /\ onBus[l] = In(bus[l]) BY DEF onBus, In
  <2> QED BY <1>1, <2>1, <2>2, <2>3, <2>4, InAppend
<1>7. OnRoute' BY <1>1, <1>3, <1>4, <1>5, <1>6 DEF OnRoute
<1>8. \A l \in Kind : NoDup(bus'[l]) BY <1>6 DEF OneWay
<1>9. \A l \in Kind : \A x \in onBus'[l] :
        Unheld(x)' /\ Unqueued(x)' /\ x \notin sent' /\ x \notin todo'
  <2>1. Unheld(m) /\ Unqueued(m) /\ m \notin sent BY <1>3 DEF OneWay
  <2> QED BY <1>3, <1>5, <1>6, <2>1 DEF OneWay, Unheld, Unqueued
<1>10. \A l \in Kind : NoDup(bus[l])' BY <1>8 DEF NoDup
<1> QED BY <1>3, <1>5, <1>7, <1>9, <1>10 DEF OneWay, Unheld, Unqueued, NoDup

\* A message sent by SendMessage is with the caller and nowhere on the way.
LEMMA SendMessageWay ==
  ASSUME Frame, OnRoute, OneWay, NEW m \in Msg, SendMessage(m)
  PROVE  OnRoute' /\ OneWay'
<1>1. /\ UNCHANGED <<bus, queue, disp, last, gen>> /\ todo' = todo \ {m} /\ m \in SyncMsg
      /\ gen \in Gen /\ snd \in [Sender -> Snd]
  BY DEF SendMessage, MayIssue, lifeVars, Frame, TypeOK, Snd
<1>2. UNCHANGED <<onBus, held, queued>> BY <1>1 DEF onBus, queued, held, In
<1>3. \/ snd' = snd
      \/ snd' = [snd EXCEPT ![Caller(gen)] = [pc |-> "limit", msg |-> m, part |-> 1, try |-> 0]]
  BY DEF SendMessage
<1>4. \A w \in Worker : borne'[w] = borne[w] BY <1>1, <1>3, Senders DEF borne
<1>5. \A g \in Gen : borne'[Caller(g)] \in {borne[Caller(g)], m}
  BY <1>1, <1>3, Senders DEF borne
<1>6. sent' = sent BY <1>1, <1>4 DEF sent
<1>7. OnRoute' BY <1>1, <1>2, <1>4, <1>5 DEF OnRoute
<1>8. OneWay' BY <1>1, <1>2, <1>6 DEF OneWay, NoDup, Unheld, Unqueued
<1> QED BY <1>7, <1>8

\* What a dispatcher takes from the bus it holds alone.
LEMMA SubscribeWay ==
  ASSUME Frame, OnRoute, OneWay, NEW g \in Gen, NEW k \in Kind, Subscribe(g, k), bus[k] # <<>>,
         disp' = [disp EXCEPT ![<<g, k>>] = [pc |-> "look", msg |-> Head(bus[k])]],
         bus' = [bus EXCEPT ![k] = Tail(@)]
  PROVE  OnRoute' /\ OneWay'
<1> DEFINE m == Head(bus[k])  d == <<g, k>>
<1>1. bus[k] \in Seq(Msg) /\ bus \in [Kind -> Seq(Msg)] /\ NoDup(bus[k])
  BY DEF Frame, TypeOK, OneWay
<1>2. /\ m \in onBus[k] /\ NoDup(bus'[k]) /\ onBus'[k] = onBus[k] \ {m}
      /\ \A l \in Kind : l # k => onBus'[l] = onBus[l] /\ bus'[l] = bus[l]
  <2>1. \A l \in Kind : onBus'[l] = In(bus'[l]) /\ onBus[l] = In(bus[l]) BY DEF onBus, In
  <2>2. bus'[k] = Tail(bus[k]) /\ \A l \in Kind : l # k => bus'[l] = bus[l] BY <1>1
  <2> QED BY <1>1, <2>1, <2>2, InTail
<1>3. d \in Gen \X Kind /\ d[2] = k OBVIOUS
<1>4. disp \in [Gen \X Kind -> Disp] BY DEF Frame, TypeOK, Disp
<1>5. held'[d] = m /\ \A e \in Gen \X Kind : e # d => held'[e] = held[e]
  BY <1>3, <1>4 DEF held
<1>6. UNCHANGED <<todo, queue, snd, last>> BY DEF Subscribe
<1>7. UNCHANGED <<queued, borne, sent>> BY <1>6 DEF queued, borne, sent, In
<1>8. m \in Msg /\ m # 0 BY <1>2, ManagerAssumption DEF onBus, In
<1> HIDE DEF m, d
<1>9. OnRoute'
  <2>1. KindOf[m] = k /\ m \notin SyncMsg BY <1>2 DEF OnRoute
  <2>2. \A l \in Kind : \A x \in onBus'[l] : KindOf[x] = l /\ x \notin SyncMsg
    BY <1>2 DEF OnRoute
  <2>3. \A e \in Gen \X Kind : held'[e] # 0 => KindOf[held'[e]] = e[2] /\ held'[e] \notin SyncMsg
    BY <1>3, <1>5, <2>1 DEF OnRoute
  <2> QED BY <1>7, <2>2, <2>3 DEF OnRoute
<1>10. \A l \in Kind : NoDup(bus[l])' BY <1>2 DEF OneWay, NoDup
<1>11. Unheld(m) /\ Unqueued(m) /\ m \notin sent /\ m \notin todo BY <1>2 DEF OneWay
<1>12. \A l \in Kind : m \notin onBus'[l]
  <2>1. \A l \in Kind : l # k => m \notin onBus[l] BY <1>2 DEF OnRoute
  <2> QED BY <1>2, <2>1
<1>13. \A l \in Kind : \A x \in onBus'[l] : Unheld(x)' /\ Unqueued(x)' /\ x \notin sent'
  <2>1. \A l \in Kind : onBus'[l] \subseteq onBus[l] BY <1>2
  <2>2. \A x : Unheld(x) /\ x # m => Unheld(x)' BY <1>5 DEF Unheld
  <2>3. \A x : Unqueued(x) => Unqueued(x)' BY <1>7 DEF Unqueued
  <2> QED BY <1>7, <1>12, <2>1, <2>2, <2>3 DEF OneWay
<1>14. \A x \in todo' : (\A l \in Kind : x \notin onBus'[l]) /\ Unheld(x)' /\ Unqueued(x)' /\ x \notin sent'
  BY <1>2, <1>5, <1>6, <1>7, <1>11 DEF OneWay, Unheld, Unqueued
<1>15. \A e \in Gen \X Kind : held'[e] # 0 =>
         /\ \A f \in Gen \X Kind : held'[f] = held'[e] => f = e
         /\ Unqueued(held[e])' /\ held'[e] \notin sent'
  <2> SUFFICES ASSUME NEW e \in Gen \X Kind, held'[e] # 0
               PROVE  /\ \A f \in Gen \X Kind : held'[f] = held'[e] => f = e
                      /\ Unqueued(held[e])' /\ held'[e] \notin sent'
    OBVIOUS
  <2>1. \A f \in Gen \X Kind : f # d => held[f] # m BY <1>11 DEF Unheld
  <2>2. CASE e = d BY <1>3, <1>5, <1>7, <1>11, <2>1, <2>2 DEF Unqueued
  <2>3. CASE e # d
    <3>1. held'[e] = held[e] /\ held[e] # 0 /\ held[e] # m BY <1>5, <2>1, <2>3
    <3>2. /\ \A f \in Gen \X Kind : held[f] = held[e] => f = e
          /\ Unqueued(held[e]) /\ held[e] \notin sent
      BY <3>1 DEF OneWay
    <3> QED BY <1>3, <1>5, <1>7, <3>1, <3>2 DEF Unqueued
  <2> QED BY <2>2, <2>3
<1> QED BY <1>6, <1>7, <1>9, <1>10, <1>13, <1>14, <1>15 DEF OneWay, NoDup, Unqueued

\* A dispatcher that lets go of its message, to nowhere.
LEMMA DropWay ==
  ASSUME Frame, OnRoute, OneWay, NEW g \in Gen, NEW k \in Kind,
         UNCHANGED <<todo, bus, queue, snd, last>>,
         disp' = [disp EXCEPT ![<<g, k>>] = disp'[<<g, k>>]],
         disp'[<<g, k>>].msg \in {0, disp[<<g, k>>].msg}
  PROVE  OnRoute' /\ OneWay'
<1>1. disp \in [Gen \X Kind -> Disp] BY DEF Frame, TypeOK, Disp
<1>2. \A d \in Gen \X Kind : held'[d] \in {0, held[d]} BY <1>1 DEF held
<1>3. UNCHANGED <<onBus, queued, borne, sent>> BY DEF onBus, queued, borne, sent, In
<1>4. 0 \notin Msg BY ManagerAssumption
<1>5. OnRoute' BY <1>2, <1>3 DEF OnRoute
<1>6. \A m \in Msg : Unheld(m) => Unheld(m)' BY <1>2, <1>4 DEF Unheld
<1>7. \A m : Unqueued(m) => Unqueued(m)' BY <1>3 DEF Unqueued
<1>8. todo \subseteq Msg /\ \A k1 \in Kind : onBus[k1] \subseteq Msg
  BY DEF Frame, TypeOK, onBus, In
<1>9. \A d \in Gen \X Kind : held'[d] # 0 =>
        /\ held'[d] = held[d]
        /\ \A e \in Gen \X Kind : held'[e] = held'[d] => e = d
  BY <1>2 DEF OneWay
<1>10. \A d \in Gen \X Kind : held'[d] # 0 => Unqueued(held[d])' /\ held'[d] \notin sent'
  BY <1>3, <1>7, <1>9 DEF OneWay
<1>11. OneWay' BY <1>3, <1>6, <1>7, <1>8, <1>9, <1>10 DEF OneWay, NoDup
<1> QED BY <1>5, <1>11

\* What a dispatcher holds joins the queue of its worker.
LEMMA PutWay ==
  ASSUME Frame, OnRoute, OneWay, NEW g \in Gen, NEW k \in Kind, Enqueue(g, k), Put(g, k)
  PROVE  OnRoute' /\ OneWay'
<1> DEFINE m == disp[<<g, k>>].msg  d == <<g, k>>  t == <<g, To[disp[<<g, k>>].msg], k>>
<1>1. m \in Msg /\ m # 0 /\ To[m] \in Channel
  BY ManagerAssumption DEF Enqueue, Frame, HandsFull, TypeOK
<1>2. t \in Worker /\ d \in Gen \X Kind /\ t[2] = To[m] /\ t[3] = k /\ d[2] = k BY <1>1 DEF Worker
<1>3. /\ queue' = [queue EXCEPT ![t] = Append(queue[t], m)]
      /\ disp' = [disp EXCEPT ![d] = Started]
      /\ UNCHANGED <<todo, bus, snd, last>>
  BY DEF Put, Target, Enqueue
<1>4. disp \in [Gen \X Kind -> Disp] /\ queue \in [Worker -> Seq(Msg)]
  BY DEF Frame, TypeOK, Disp
<1>5. held[d] = m BY <1>2 DEF held
<1> HIDE DEF m, d, t
<1>6. held'[d] = 0 /\ \A e \in Gen \X Kind : e # d => held'[e] = held[e]
  BY <1>2, <1>3, <1>4 DEF held, Started
<1>7. UNCHANGED <<onBus, borne, sent>> BY <1>3 DEF onBus, borne, sent, In
<1>8. Unqueued(m) /\ m \notin sent BY <1>1, <1>2, <1>5 DEF OneWay
<1>9. /\ NoDup(queue'[t]) /\ queued'[t] = queued[t] \cup {m}
      /\ \A w \in Worker : w # t => queued'[w] = queued[w] /\ queue'[w] = queue[w]
  <2>1. \A w \in Worker : queued'[w] = In(queue'[w]) /\ queued[w] = In(queue[w]) BY DEF queued, In
  <2>2. queue'[t] = Append(queue[t], m) /\ \A w \in Worker : w # t => queue'[w] = queue[w]
    BY <1>2, <1>3, <1>4
  <2>3. m \notin In(queue[t]) /\ NoDup(queue[t]) /\ queue[t] \in Seq(Msg)
    BY <1>2, <1>4, <1>8, <2>1 DEF Unqueued, OneWay
  <2>4. In(Append(queue[t], m)) = In(queue[t]) \cup {m} /\ NoDup(Append(queue[t], m))
    BY <1>1, <2>3, InAppend
  <2>5. NoDup(queue'[t]) BY <2>2, <2>4
  <2>6. queued'[t] = queued[t] \cup {m} BY <1>2, <2>1, <2>2, <2>4
  <2>7. \A w \in Worker : w # t => queued'[w] = queued[w] BY <2>1, <2>2
  <2> QED BY <2>2, <2>5, <2>6, <2>7
<1>10. OnRoute'
  <2>1. KindOf[m] = k /\ m \notin SyncMsg BY <1>1, <1>2, <1>5 DEF OnRoute
  <2>2. \A w \in Worker : \A x \in queued'[w] :
          <<To[x], KindOf[x]>> = <<w[2], w[3]>> /\ x \notin SyncMsg
    BY <1>2, <1>9, <2>1 DEF OnRoute
  <2> QED BY <1>6, <1>7, <2>2 DEF OnRoute
<1>11. \A w \in Worker : NoDup(queue[w])' BY <1>9 DEF OneWay, NoDup
<1>12. \A x \in Msg : x # m /\ Unqueued(x) => Unqueued(x)' BY <1>9 DEF Unqueued
<1>13. \A x \in Msg : Unheld(x) => Unheld(x)' /\ x # m
  BY <1>1, <1>2, <1>5, <1>6, ManagerAssumption DEF Unheld
<1>14. todo \subseteq Msg /\ \A l \in Kind : onBus[l] \subseteq Msg
  BY DEF Frame, TypeOK, onBus, In
<1>15. \A e \in Gen \X Kind : held'[e] # 0 =>
         /\ held'[e] = held[e] /\ held[e] # m /\ held[e] \in Msg
         /\ \A f \in Gen \X Kind : held'[f] = held'[e] => f = e
  <2>1. \A e \in Gen \X Kind : held[e] \in Msg \cup {0} BY <1>4 DEF held, Disp
  <2> QED BY <1>1, <1>2, <1>5, <1>6, <2>1 DEF OneWay
<1>16. \A e \in Gen \X Kind : held'[e] # 0 => Unqueued(held[e])' /\ held'[e] \notin sent'
  BY <1>7, <1>12, <1>15 DEF OneWay
<1>17. \A w \in Worker : \A x \in queued'[w] :
         x \notin sent' /\ \A v \in Worker : x \in queued'[v] => v = w
  BY <1>2, <1>7, <1>8, <1>9 DEF OneWay, Unqueued
<1>18. \A x \in todo' :
         (\A l \in Kind : x \notin onBus'[l]) /\ Unheld(x)' /\ Unqueued(x)' /\ x \notin sent'
  BY <1>3, <1>7, <1>12, <1>13, <1>14 DEF OneWay
<1>19. \A l \in Kind : \A x \in onBus'[l] : Unheld(x)' /\ Unqueued(x)' /\ x \notin sent'
  BY <1>7, <1>12, <1>13, <1>14 DEF OneWay
<1> QED BY <1>3, <1>10, <1>11, <1>15, <1>16, <1>17, <1>18, <1>19 DEF OneWay, NoDup

\* What a worker takes from its queue it alone bears, and no platform has it.
LEMMA TakeWay ==
  ASSUME Frame, OnRoute, OneWay, NEW w \in Worker, Take(w), queue[w] # <<>>,
         snd' = [snd EXCEPT ![w] =
                   [pc |-> "limit", msg |-> Head(queue[w]), part |-> 1, try |-> 0]],
         queue' = [queue EXCEPT ![w] = Tail(@)]
  PROVE  OnRoute' /\ OneWay'
<1> DEFINE m == Head(queue[w])
<1>1. /\ queue[w] \in Seq(Msg) /\ queue \in [Worker -> Seq(Msg)] /\ NoDup(queue[w])
      /\ snd \in [Sender -> Snd] /\ w \in Sender
  BY Senders DEF Frame, TypeOK, OneWay, Snd
<1>2. /\ m \in queued[w] /\ NoDup(queue'[w]) /\ queued'[w] = queued[w] \ {m}
      /\ \A v \in Worker : v # w => queued'[v] = queued[v] /\ queue'[v] = queue[v]
  <2>1. \A v \in Worker : queued'[v] = In(queue'[v]) /\ queued[v] = In(queue[v]) BY DEF queued, In
  <2>2. queue'[w] = Tail(queue[w]) /\ \A v \in Worker : v # w => queue'[v] = queue[v] BY <1>1
  <2> QED BY <1>1, <2>1, <2>2, InTail
<1>3. UNCHANGED <<todo, bus, disp, last>> BY DEF Take, busVars
<1>4. UNCHANGED <<onBus, held>> BY <1>3 DEF onBus, held, In
<1>5. borne'[w] = m /\ \A s \in Sender : s # w => borne'[s] = borne[s] BY <1>1 DEF borne
<1>6. m \in Msg /\ m # 0 BY <1>2, ManagerAssumption DEF queued, In
<1> HIDE DEF m
<1>7. sent' \subseteq sent \cup {m}
  <2>1. \A v \in Worker : borne'[v] \in {m, borne[v]} BY <1>5, Senders
  <2> QED BY <1>3, <2>1 DEF sent
<1>8. OnRoute'
  <2>1. <<To[m], KindOf[m]>> = <<w[2], w[3]>> /\ m \notin SyncMsg BY <1>2 DEF OnRoute
  <2>2. \A v \in Worker : borne'[v] # 0 =>
          <<To[borne'[v]], KindOf[borne'[v]]>> = <<v[2], v[3]>> /\ borne'[v] \notin SyncMsg
    BY <1>5, <2>1, Senders DEF OnRoute
  <2>3. \A g \in Gen : borne'[Caller(g)] = borne[Caller(g)] BY <1>5, Senders
  <2>4. \A v \in Worker : \A x \in queued'[v] :
          <<To[x], KindOf[x]>> = <<v[2], v[3]>> /\ x \notin SyncMsg
    BY <1>2 DEF OnRoute
  <2> QED BY <1>4, <2>2, <2>3, <2>4 DEF OnRoute
<1>9. \A v \in Worker : NoDup(queue[v])' BY <1>2 DEF OneWay, NoDup
<1>10. \A x \in Msg : Unqueued(x) => Unqueued(x)' /\ x # m BY <1>2 DEF Unqueued
<1>11. todo \subseteq Msg /\ (\A l \in Kind : onBus[l] \subseteq Msg)
       /\ \A e \in Gen \X Kind : held[e] \in Msg \cup {0}
  BY DEF Frame, TypeOK, onBus, In, held, Disp
<1>12. \A x \in todo' :
         (\A l \in Kind : x \notin onBus'[l]) /\ Unheld(x)' /\ Unqueued(x)' /\ x \notin sent'
  BY <1>3, <1>4, <1>7, <1>10, <1>11 DEF OneWay, Unheld
<1>13. \A l \in Kind : \A x \in onBus'[l] : Unheld(x)' /\ Unqueued(x)' /\ x \notin sent'
  BY <1>4, <1>7, <1>10, <1>11 DEF OneWay, Unheld
<1>14. \A e \in Gen \X Kind : held'[e] # 0 =>
         /\ \A f \in Gen \X Kind : held'[f] = held'[e] => f = e
         /\ Unqueued(held[e])' /\ held'[e] \notin sent'
  BY <1>4, <1>7, <1>10, <1>11 DEF OneWay
<1>15. \A v \in Worker : \A x \in queued'[v] :
         x \notin sent' /\ \A u \in Worker : x \in queued'[u] => u = v
  BY <1>2, <1>7 DEF OneWay
<1> QED BY <1>3, <1>4, <1>8, <1>9, <1>12, <1>13, <1>14, <1>15 DEF OneWay, NoDup

\* Sending does not touch the way.
LEMMA TransmitWay ==
  ASSUME Frame, OnRoute, OneWay, NEW s \in Sender, Transmit(s)
  PROVE  OnRoute' /\ OneWay'
<1>1. /\ UNCHANGED <<busVars, queue, disp>> /\ snd' = [snd EXCEPT ![s] = snd'[s]]
      /\ snd[s].pc \in Sending /\ snd'[s].msg \in {0, snd[s].msg}
  <2>1. Rest.msg = 0 BY DEF Rest
  <2> QED BY <2>1, TransmitEffect
<1>2. snd \in [Sender -> Snd] /\ 0 \notin Msg BY ManagerAssumption DEF Frame, TypeOK, Snd
<1>3. UNCHANGED <<onBus, held, queued>> BY <1>1 DEF onBus, held, queued, In, busVars
<1>4. borne'[s] \in {0, borne[s]} /\ \A u \in Sender : u # s => borne'[u] = borne[u]
  BY <1>1, <1>2 DEF borne
<1>5. \A w \in Worker : borne'[w] \in sent \cup {0} BY <1>4, Senders DEF sent
<1>6. \A l \in Channel \X Kind : last'[l][1] \in sent
  <2>1. PICK ok \in BOOLEAN :
          \/ last' = last
          \/ /\ snd[s].msg \notin SyncMsg
             /\ last' = [last EXCEPT ![<<To[snd[s].msg], KindOf[snd[s].msg]>>]
                                       = <<snd[s].msg, snd[s].part, ok>>]
    BY TransmitEffect
  <2>2. snd[s].msg \notin SyncMsg => snd[s].msg \in sent
    <3>1. snd[s].msg # 0 BY <1>1, <1>2 DEF Frame, HandsFull
    <3>2. CASE s \in Worker BY <3>2 DEF sent, borne
    <3>3. CASE \E g \in Gen : s = Caller(g)
      BY <3>1, <3>3, Senders DEF OnRoute, borne
    <3> QED BY <3>2, <3>3 DEF Sender
  <2>3. last \in [Channel \X Kind -> (Msg \cup {0}) \X Nat \X BOOLEAN] BY DEF Frame, TypeOK
  <2>4. \A l \in Channel \X Kind :
          last'[l] = last[l] \/ (snd[s].msg \notin SyncMsg /\ last'[l][1] = snd[s].msg)
    <3> DEFINE at == <<To[snd[s].msg], KindOf[snd[s].msg]>>
               new == <<snd[s].msg, snd[s].part, ok>>
    <3>1. new[1] = snd[s].msg OBVIOUS
    <3>2. last' = last \/ (snd[s].msg \notin SyncMsg /\ last' = [last EXCEPT ![at] = new])
      BY <2>1
    <3> HIDE DEF at, new
    <3> QED BY <2>3, <3>1, <3>2
  <2>5. \A l \in Channel \X Kind : last[l][1] \in sent BY DEF sent
  <2> QED BY <2>2, <2>4, <2>5
<1>7. sent' \subseteq sent \cup {0} BY <1>5, <1>6 DEF sent
<1>8. OnRoute' BY <1>3, <1>4, Senders DEF OnRoute
<1>9. todo \subseteq Msg /\ (\A l \in Kind : onBus[l] \subseteq Msg)
      /\ \A w \in Worker : queued[w] \subseteq Msg
  BY DEF Frame, TypeOK, onBus, queued, In
<1>10. UNCHANGED <<todo, bus, queue>> BY <1>1 DEF busVars
<1>11. OneWay' BY <1>2, <1>3, <1>7, <1>9, <1>10 DEF OneWay, NoDup, Unheld, Unqueued
<1> QED BY <1>8, <1>11

\* A step of the model keeps messages on their way.
LEMMA WayStep ==
  ASSUME Frame, OnRoute, OneWay, MNext
  PROVE  OnRoute' /\ OneWay'
<1>a. disp \in [Gen \X Kind -> Disp] /\ snd \in [Sender -> Snd] BY DEF Frame, TypeOK, Disp, Snd
<1>1. ASSUME NEW m \in Msg, Publish(m) \/ SendMessage(m) PROVE OnRoute' /\ OneWay'
  BY <1>1, PublishWay, SendMessageWay
<1>2. ASSUME NEW g \in Gen, NEW k \in Kind, Dispatch(g, k) PROVE OnRoute' /\ OneWay'
  <2>1. UNCHANGED <<todo, snd, last>> BY <1>2 DEF Dispatch, Subscribe, LookUp, Enqueue, busVars
  <2>2. CASE Enqueue(g, k) /\ Put(g, k) BY <2>2, PutWay
  <2>3. CASE /\ Subscribe(g, k) /\ bus[k] # <<>>
             /\ disp' = [disp EXCEPT ![<<g, k>>] = [pc |-> "look", msg |-> Head(bus[k])]]
             /\ bus' = [bus EXCEPT ![k] = Tail(@)]
    BY <2>3, SubscribeWay
  <2>4. CASE /\ UNCHANGED <<bus, queue>>
             /\ \/ disp' = [disp EXCEPT ![<<g, k>>] = Dead]
                \/ disp' = [disp EXCEPT ![<<g, k>>] = Started]
                \/ disp' = [disp EXCEPT ![<<g, k>>] = [disp[<<g, k>>] EXCEPT !.pc = "put"]]
                \/ disp' = disp
    <3>1. Dead.msg = 0 /\ Started.msg = 0 BY DEF Dead, Started
    <3>2. disp[<<g, k>>] \in Disp BY <1>a
    <3>3. [disp[<<g, k>>] EXCEPT !.pc = "put"].msg = disp[<<g, k>>].msg BY <3>2 DEF Disp
    <3>4. disp' = [disp EXCEPT ![<<g, k>>] = disp'[<<g, k>>]] BY <1>a, <2>4
    <3>5. disp'[<<g, k>>].msg \in {0, disp[<<g, k>>].msg} BY <1>a, <2>4, <3>1, <3>3
    <3> QED BY <2>1, <2>4, <3>4, <3>5, DropWay
  <2> QED BY <1>2, <2>2, <2>3, <2>4 DEF Dispatch, Subscribe, LookUp, Enqueue, GiveUp, busVars
<1>3. ASSUME NEW w \in Worker, Take(w) PROVE OnRoute' /\ OneWay'
  <2>1. CASE /\ queue[w] # <<>>
             /\ snd' = [snd EXCEPT ![w] =
                          [pc |-> "limit", msg |-> Head(queue[w]), part |-> 1, try |-> 0]]
             /\ queue' = [queue EXCEPT ![w] = Tail(@)]
    BY <1>3, <2>1, TakeWay
  <2>2. CASE snd' = [snd EXCEPT ![w] = Gone] /\ UNCHANGED queue
    <3>1. Gone.msg = 0 /\ snd[w].msg = 0
      BY <1>3, Senders DEF Gone, Take, Frame, HandsFull, Sending
    <3>2. \A s \in Sender : snd'[s].msg = snd[s].msg BY <1>a, <2>2, <3>1
    <3>3. UNCHANGED <<todo, bus, queue, last, held, borne>>
      BY <1>3, <2>2, <3>2 DEF Take, busVars, held, borne
    <3> QED BY <3>3, WayKept
  <2> QED BY <1>3, <2>1, <2>2 DEF Take
<1>4. ASSUME NEW s \in Sender, Transmit(s) PROVE OnRoute' /\ OneWay'
  BY <1>4, TransmitWay
<1>5. CASE Main
  <2>1. CASE Restart
    <3>1. Rest.msg = 0 /\ Started.msg = 0 BY DEF Rest, Started
    <3>2. \A s \in Sender : snd'[s] = snd[s] \/ (snd'[s] = Rest /\ snd[s].pc = "done")
      BY <2>1, BootEffect
    <3>3. \A s \in Sender : snd'[s].msg = snd[s].msg
      BY <3>1, <3>2 DEF Frame, HandsFull, Sending
    <3>4. \A g \in Gen, k \in Kind :
            disp'[<<g, k>>] = disp[<<g, k>>] \/ (disp'[<<g, k>>] = Started /\ disp[<<g, k>>].pc = "done")
      BY <2>1, BootEffect
    <3>5. \A d \in Gen \X Kind : disp'[d].msg = disp[d].msg
      BY <3>1, <3>4 DEF Frame, HandsFull
    <3>6. UNCHANGED <<todo, bus, queue, last, held, borne>>
      BY <1>5, <3>3, <3>5, MainLeaves DEF busVars, held, borne
    <3> QED BY <3>6, WayKept
  <2>2. CASE ~Restart
    <3>1. UNCHANGED <<todo, bus, queue, last, held, borne>>
      BY <1>5, <2>2, MainLeaves DEF busVars, held, borne
    <3> QED BY <3>1, WayKept
  <2> QED BY <2>1, <2>2
<1> QED BY <1>1, <1>2, <1>3, <1>4, <1>5 DEF MNext

\* A sender's next part, and the one it just sent.
LEMMA NextPartFits ==
  ASSUME NEW r \in Snd, NEW l \in (Msg \cup {0}) \X Nat \X BOOLEAN, l[1] = r.msg => l[2] <= r.part
  PROVE  PartFits(NextPart(r), l)
<1>1. CASE r.part < PartsOf[r.msg]
  <2>1. NextPart(r) = [r EXCEPT !.pc = "limit", !.part = r.part + 1, !.try = 0]
    BY <1>1 DEF NextPart
  <2>2. NextPart(r).msg = r.msg /\ NextPart(r).part = r.part + 1 BY <2>1 DEF Snd
  <2>3. l[2] \in Nat /\ r.part \in Nat BY DEF Snd
  <2> QED BY <2>2, <2>3 DEF PartFits
<1>2. CASE ~(r.part < PartsOf[r.msg])
  BY <1>2 DEF NextPart, Rest, PartFits
<1> QED BY <1>1, <1>2

\* A sender that sends, fails or waits never goes back to a part that went
\* through.
LEMMA TransmitFits ==
  ASSUME Frame, OnRoute, Progress, NEW w \in Worker, Transmit(w)
  PROVE  PartFits(snd'[w], last'[<<w[2], w[3]>>])
<1> DEFINE r == snd[w]  l == last[<<w[2], w[3]>>]  k == last'[<<w[2], w[3]>>]
<1>1. /\ w \in Sender /\ <<w[2], w[3]>> \in Channel \X Kind
      /\ snd \in [Sender -> Snd] /\ r \in Snd
      /\ last \in [Channel \X Kind -> (Msg \cup {0}) \X Nat \X BOOLEAN]
      /\ l \in (Msg \cup {0}) \X Nat \X BOOLEAN
  BY Senders DEF Frame, TypeOK, Snd
<1>2. r.pc \in Sending BY <1>1, TransmitEffect
<1>3. r.msg \in Msg /\ r.msg # 0 BY <1>1, <1>2, ManagerAssumption DEF Frame, HandsFull
<1>4. <<To[r.msg], KindOf[r.msg]>> = <<w[2], w[3]>> /\ r.msg \notin SyncMsg
  BY <1>1, <1>3 DEF OnRoute, borne
<1>5. PartFits(r, l) BY DEF Progress
<1>6. \A ok \in BOOLEAN : Arrives(r, ok) => k = <<r.msg, r.part, ok>>
  BY <1>1, <1>4 DEF Arrives
<1>7. last' = last => k = l OBVIOUS
<1>8. \A ok \in BOOLEAN : <<r.msg, r.part, ok>> \in (Msg \cup {0}) \X Nat \X BOOLEAN
  BY <1>1, <1>3 DEF Snd
<1>9. PartFits(NextPart(r), l)
  BY <1>1, <1>3, <1>5, NextPartFits DEF PartFits, Snd
<1>10. \A ok \in BOOLEAN : PartFits(NextPart(r), <<r.msg, r.part, ok>>)
  <2> TAKE ok \in BOOLEAN
  <2>1. <<r.msg, r.part, ok>>[1] = r.msg /\ <<r.msg, r.part, ok>>[2] <= r.part BY <1>1 DEF Snd
  <2> QED BY <1>1, <1>8, <2>1, NextPartFits
\* The step goes on to a part, or tries the same again after a failure.
<1>11. \/ snd'[w] = NextPart(r) /\ (last' = last \/ \E ok \in BOOLEAN : Arrives(r, ok))
       \/ /\ snd'[w] \in Snd /\ snd'[w].msg = r.msg /\ snd'[w].part = r.part
          /\ snd'[w].pc \in {"send", "backoff"}
          /\ last' = last \/ Arrives(r, FALSE)
  <2>1. CASE Admit(w)
    <3>1. \/ /\ snd' = [snd EXCEPT ![w] = NextPart(r)]
             /\ last' = last \/ \E ok \in BOOLEAN : Arrives(r, ok)
          \/ /\ snd' = [snd EXCEPT ![w].pc = "send"]
             /\ last' = last \/ Arrives(r, FALSE)
      BY <2>1 DEF Admit, preSend
    <3>2. snd' = [snd EXCEPT ![w].pc = "send"] => snd'[w] = [r EXCEPT !.pc = "send"]
      BY <1>1
    <3>3. snd' = [snd EXCEPT ![w] = NextPart(r)] => snd'[w] = NextPart(r) BY <1>1
    <3> HIDE DEF r
    <3> QED BY <1>1, <3>1, <3>2, <3>3 DEF Snd
  <2>2. CASE Send(w)
    <3>1. \/ /\ snd' = [snd EXCEPT ![w] = NextPart(r)]
             /\ last' = last \/ \E ok \in BOOLEAN : Arrives(r, ok)
          \/ /\ snd' = [snd EXCEPT ![w] = AfterFailure(r)]
             /\ last' = last \/ Arrives(r, FALSE)
      BY <2>2 DEF Send
    <3>2. \A x : snd' = [snd EXCEPT ![w] = x] => snd'[w] = x BY <1>1
    <3>3. AfterFailure(r) \in {NextPart(r), [r EXCEPT !.pc = "backoff"]} BY DEF AfterFailure
    <3> HIDE DEF r
    <3>4. LET b == [r EXCEPT !.pc = "backoff"] IN
            b \in Snd /\ b.msg = r.msg /\ b.part = r.part /\ b.pc = "backoff"
      BY <1>1 DEF Snd
    <3> QED BY <3>1, <3>2, <3>3, <3>4
  <2>3. CASE BackOff(w)
    <3>1. /\ last' = last
          /\ \/ snd' = [snd EXCEPT ![w] = NextPart(r)]
             \/ snd' = [snd EXCEPT ![w].pc = "send", ![w].try = @ + 1]
      BY <1>1, <2>3 DEF BackOff
    <3>2. \A x : snd' = [snd EXCEPT ![w] = x] => snd'[w] = x BY <1>1
    <3>3. snd' = [snd EXCEPT ![w].pc = "send", ![w].try = @ + 1] =>
            snd'[w].msg = r.msg /\ snd'[w].part = r.part /\ snd'[w].pc = "send"
      BY <1>1 DEF Snd
    <3>4. snd'[w] \in Snd \/ snd'[w] = Rest BY <1>1, TransmitEffect
    <3> QED BY <1>3, <3>1, <3>2, <3>3, <3>4 DEF Rest
  <2> QED BY <2>1, <2>2, <2>3 DEF Transmit
<1> HIDE DEF r, l, k
<1>12. CASE snd'[w] = NextPart(r)
  BY <1>6, <1>7, <1>9, <1>10, <1>11, <1>12 DEF k
<1>13. CASE /\ snd'[w] \in Snd /\ snd'[w].msg = r.msg /\ snd'[w].part = r.part
            /\ snd'[w].pc \in {"send", "backoff"}
            /\ last' = last \/ Arrives(r, FALSE)
  <2>1. k = l \/ k = <<r.msg, r.part, FALSE>> BY <1>6, <1>7, <1>13
  <2>2. CASE k = l BY <1>5, <1>13, <2>2 DEF PartFits, k
  <2>3. CASE k = <<r.msg, r.part, FALSE>>
    <3>1. k[2] = r.part /\ ~k[3] BY <2>3
    <3> QED BY <1>13, <3>1 DEF PartFits, k
  <2> QED BY <2>1, <2>2, <2>3
<1> QED BY <1>11, <1>12, <1>13

\* The parts a platform has and those to come, after a step.
LEMMA ProgressStep ==
  ASSUME ManagerInv, MNext
  PROVE  Progress'
<1>1. Frame /\ OnRoute /\ OneWay /\ Progress BY DEF ManagerInv
<1>a. snd \in [Sender -> Snd] /\ 0 \notin Msg BY <1>1, ManagerAssumption DEF Frame, TypeOK, Snd
<1>2. ASSUME UNCHANGED last, \A w \in Worker : snd'[w] = snd[w] \/ snd'[w].msg = 0
      PROVE  Progress'
  BY <1>1, <1>2 DEF Progress, PartFits
<1>3. ASSUME NEW m \in Msg, Publish(m) \/ SendMessage(m) PROVE Progress'
  <2>1. UNCHANGED last BY <1>3 DEF Publish, SendMessage
  <2>2. snd' = snd \/ \E r : snd' = [snd EXCEPT ![Caller(gen)] = r]
    BY <1>3 DEF Publish, SendMessage
  <2>3. gen \in Gen BY <1>1 DEF Frame, TypeOK
  <2>4. \A w \in Worker : snd'[w] = snd[w] BY <1>a, <2>2, <2>3, Senders
  <2> QED BY <1>2, <2>1, <2>4
<1>4. ASSUME NEW g \in Gen, NEW k \in Kind, Dispatch(g, k) PROVE Progress'
  BY <1>2, <1>4 DEF Dispatch, Subscribe, LookUp, Enqueue
<1>5. ASSUME NEW w \in Worker, Take(w) PROVE Progress'
  <2>0. w \in Sender /\ UNCHANGED last BY <1>5, Senders DEF Take
  <2>1. CASE snd' = [snd EXCEPT ![w] = Gone]
    <3>1. \A v \in Worker : snd'[v] = snd[v] \/ snd'[v].msg = 0 BY <1>a, <2>1, Senders DEF Gone
    <3> QED BY <1>2, <2>0, <3>1
  <2>2. CASE /\ queue[w] # <<>>
             /\ snd' = [snd EXCEPT ![w] =
                          [pc |-> "limit", msg |-> Head(queue[w]), part |-> 1, try |-> 0]]
    <3>1. queue[w] \in Seq(Msg) /\ NoDup(queue[w]) BY <1>1 DEF Frame, TypeOK, OneWay
    <3>2. Head(queue[w]) \in queued[w] BY <2>2, <3>1, InTail DEF queued
    <3>3. Head(queue[w]) \notin sent BY <1>1, <3>2 DEF OneWay
    <3>4. last[<<w[2], w[3]>>][1] # Head(queue[w]) BY <3>3, Senders DEF sent
    <3>5. snd'[w].msg = Head(queue[w]) /\ \A v \in Worker : v # w => snd'[v] = snd[v]
      BY <1>a, <2>0, <2>2, Senders
    <3> QED BY <1>1, <2>0, <3>4, <3>5 DEF Progress, PartFits
  <2> QED BY <1>5, <2>1, <2>2 DEF Take
<1>6. ASSUME NEW s \in Sender, Transmit(s) PROVE Progress'
  <2>1. /\ snd' = [snd EXCEPT ![s] = snd'[s]] /\ snd[s].pc \in Sending
        /\ \/ last' = last
           \/ /\ snd[s].msg \notin SyncMsg
              /\ \E ok : last' = [last EXCEPT ![<<To[snd[s].msg], KindOf[snd[s].msg]>>]
                                                = <<snd[s].msg, snd[s].part, ok>>]
    BY <1>1, <1>6, TransmitEffect
  <2>2. snd[s].msg # 0 BY <1>1, <1>a, <2>1 DEF Frame, HandsFull
  <2>3. \A v \in Worker : v # s => snd'[v] = snd[v] BY <1>a, <2>1, Senders
  <2>4. CASE s \notin Worker
    <3>1. PICK g \in Gen : s = Caller(g) BY <2>4 DEF Sender
    <3>2. last' = last BY <1>1, <2>1, <2>2, <3>1, Senders DEF OnRoute, borne
    <3> QED BY <1>2, <2>3, <2>4, <3>2
  <2>5. CASE s \in Worker
    <3>1. PartFits(snd'[s], last'[<<s[2], s[3]>>]) BY <1>1, <1>6, <2>5, TransmitFits
    <3>2. <<To[snd[s].msg], KindOf[snd[s].msg]>> = <<s[2], s[3]>>
      BY <1>1, <2>2, <2>5, Senders DEF OnRoute, borne
    <3>3. last \in [Channel \X Kind -> (Msg \cup {0}) \X Nat \X BOOLEAN]
      BY <1>1 DEF Frame, TypeOK
    <3>4. ASSUME NEW v \in Worker, v # s PROVE PartFits(snd'[v], last'[<<v[2], v[3]>>])
      <4>1. snd'[v] = snd[v] /\ PartFits(snd[v], last[<<v[2], v[3]>>])
        BY <1>1, <2>3, <3>4 DEF Progress
      <4>2. CASE snd[v].msg = 0 BY <4>1, <4>2 DEF PartFits
      <4>3. CASE snd[v].msg # 0
        <5>1. v[1] = gen /\ s[1] = gen
          BY <1>1, <2>1, <2>5, <4>3, Senders DEF Frame, HandsFull, WorkersEnd, Sending
        <5>2. <<v[2], v[3]>> # <<s[2], s[3]>> BY <2>5, <3>4, <5>1, Senders
        <5>3. last'[<<v[2], v[3]>>] = last[<<v[2], v[3]>>] BY <2>1, <3>2, <3>3, <5>2, Senders
        <5> QED BY <4>1, <5>3
      <4> QED BY <4>2, <4>3
    <3> QED BY <3>1, <3>4 DEF Progress
  <2> QED BY <2>4, <2>5
<1>7. CASE Main
  <2>1. UNCHANGED last BY <1>7, MainLeaves
  <2>2. \A w \in Worker : snd'[w] = snd[w] \/ snd'[w].msg = 0
    <3>1. CASE Restart
      <4>1. Rest.msg = 0 BY DEF Rest
      <4> QED BY <1>1, <3>1, <4>1, BootEffect, Senders
    <3>2. CASE ~Restart BY <1>7, <3>2, MainLeaves
    <3> QED BY <3>1, <3>2
  <2> QED BY <1>2, <2>1, <2>2
<1> QED BY <1>3, <1>4, <1>5, <1>6, <1>7 DEF MNext

----------------------------------------------------------------------------
(* The invariant and what it implies                                       *)

\* The gateway starts with everything at rest.
LEMMA ManagerInit == MInit => ManagerInv
<1> SUFFICES ASSUME MInit PROVE ManagerInv OBVIOUS
<1> USE DEF MInit
<1>1. PICK st \in {x \in Starts : x.conf # {}} :
        /\ chan = [g \in Gen |-> IF g = 1 THEN st ELSE [conf |-> {}, up |-> {}]]
        /\ snd = [s \in Sender |->
                    IF s[1] = 1 /\ (s[2] \in st.up \/ s = Caller(1)) THEN Rest ELSE Gone]
  OBVIOUS
<1>2. st \in [conf : SUBSET Channel, up : SUBSET Channel] BY ManagerAssumption
<1>3. Rest \in Snd /\ Gone \in Snd /\ Rest.pc = "idle" /\ Gone.pc = "done" /\ Rest.msg = 0 /\ Gone.msg = 0
  BY ManagerAssumption DEF Rest, Gone, Snd
<1>4. /\ snd \in [Sender -> Snd]
      /\ \A s \in Sender : snd[s].msg = 0 /\ snd[s].pc \in {"idle", "done"}
      /\ \A s \in Sender : s[1] # 1 => snd[s].pc = "done"
      /\ \A w \in Worker : snd[w].pc # "done" => w[1] = 1 /\ w[2] \in chan[1].up
  <2>1. \A s \in Sender : snd[s] \in {Rest, Gone} BY <1>1
  <2>2. \A s \in Sender : s[1] # 1 => snd[s] = Gone BY <1>1
  <2>3. 1 \in Gen BY ManagerAssumption DEF Gen
  <2>4. \A w \in Worker : snd[w] # Gone => w[1] = 1 /\ w[2] \in st.up BY <1>1, <2>3, Senders
  <2>5. chan[1] = st BY <1>1, <2>3
  <2> QED BY <1>1, <1>3, <2>1, <2>2, <2>4, <2>5
<1>5. /\ disp \in [Gen \X Kind -> Disp]
      /\ \A g \in Gen, k \in Kind : disp[<<g, k>>].msg = 0 /\ disp[<<g, k>>].pc \in {"sub", "done"}
      /\ \A g \in Gen, k \in Kind : g # 1 => disp[<<g, k>>].pc = "done"
  BY DEF Disp, Started, Dead
<1>6. \A k \in Kind : Len(bus[k]) = 0 /\ bus[k] \in Seq(Msg) /\ In(bus[k]) = {} /\ NoDup(bus[k])
  BY DEF In, NoDup
<1>7. \A w \in Worker : Len(queue[w]) = 0 /\ queue[w] \in Seq(Msg) /\ In(queue[w]) = {} /\ NoDup(queue[w])
  BY DEF In, NoDup
<1>8. 1 \in Gen /\ gen = 1 /\ cur = 1 /\ Gen \subseteq Nat BY ManagerAssumption DEF Gen
<1>9. TypeOK
  <2>1. chan \in [Gen -> [conf : SUBSET Channel, up : SUBSET Channel]] BY <1>1, <1>2
  <2>2. ctx \in [Gen -> {"new", "live", "cancelled"}] OBVIOUS
  <2>3. bus \in [Kind -> Seq(Msg)] /\ queue \in [Worker -> Seq(Msg)] BY <1>6, <1>7
  <2>4. (\A k \in Kind : Len(bus[k]) <= BusCap) /\ \A w \in Worker : Len(queue[w]) <= QueueCap
    BY <1>6, <1>7, ManagerAssumption
  <2>5. issued \in Seq(Msg) /\ todo \subseteq Msg OBVIOUS
  <2>6. last \in [Channel \X Kind -> (Msg \cup {0}) \X Nat \X BOOLEAN] OBVIOUS
  <2>7. /\ main \in [pc : {"run", "cancelled", "closedText", "closedMedia", "stopped",
                           "returning", "gone"}, exit : BOOLEAN]
        /\ stopped \subseteq Gen /\ closed \subseteq Worker /\ crashed \in BOOLEAN
    OBVIOUS
  <2> QED BY <1>4, <1>5, <1>8, <2>1, <2>2, <2>3, <2>4, <2>5, <2>6, <2>7 DEF TypeOK, Disp, Snd
<1>10. HandsFull BY <1>4, <1>5 DEF HandsFull, Sending
<1>11. Unborn
  <2>1. \A g \in Gen : g > gen => g # 1 BY <1>8
  <2>2. \A g \in Gen : g # 1 => ctx[g] = "new" /\ chan[g].up = {} BY <1>1
  <2>3. stopped = {} OBVIOUS
  <2> HIDE DEF MInit
  <2> QED BY <1>4, <1>5, <2>1, <2>2, <2>3 DEF Unborn
<1>12. Cancelled
  <2>1. \A g \in Gen : ctx[g] = "new" => chan[g].up = {} BY <1>1
  <2> QED BY <2>1 DEF Cancelled
<1>13. WorkersEnd
  <2>1. main.pc = "run" /\ stopped = {} /\ cur # 0 BY <1>8
  <2>2. \A w \in Worker : snd[w].pc # "done" => w[1] = gen /\ w[2] \in chan[gen].up
    BY <1>4, <1>8
  <2> QED BY <2>1, <2>2 DEF WorkersEnd
<1>14. /\ \A k \in Kind : onBus[k] = {}
       /\ \A w \in Worker : queued[w] = {}
       /\ \A d \in Gen \X Kind : held[d] = 0
       /\ \A s \in Sender : borne[s] = 0
  BY <1>4, <1>5, <1>6, <1>7 DEF onBus, queued, held, borne
<1>15. sent \subseteq {0} BY <1>14, Senders DEF sent
<1>16. 0 \notin Msg /\ todo = Msg BY ManagerAssumption
<1>17. OnRoute BY <1>14, Senders DEF OnRoute
<1>18. OneWay
  <2>1. \A m \in todo : (\A k \in Kind : m \notin onBus[k]) /\ Unheld(m) /\ Unqueued(m) /\ m \notin sent
    <3> HIDE DEF MInit
    <3> SUFFICES ASSUME NEW m \in todo
                 PROVE  (\A k \in Kind : m \notin onBus[k]) /\ Unheld(m) /\ Unqueued(m) /\ m \notin sent
      OBVIOUS
    <3>1. m # 0 BY <1>16
    <3>2. Unheld(m) BY <1>14, <3>1 DEF Unheld
    <3>3. Unqueued(m) BY <1>14 DEF Unqueued
    <3> QED BY <1>14, <1>15, <3>1, <3>2, <3>3
  <2> HIDE DEF MInit
  <2> QED BY <1>6, <1>7, <1>14, <2>1 DEF OneWay
<1>19. Progress BY <1>4, Senders DEF Progress, PartFits
<1> QED BY <1>9, <1>10, <1>11, <1>12, <1>13, <1>17, <1>18, <1>19 DEF ManagerInv, Frame

\* Every step keeps the invariant.
LEMMA ManagerStep ==
  ASSUME ManagerInv, [MNext]_vars
  PROVE  ManagerInv'
<1>1. CASE MNext
  <2>1. Frame /\ OnRoute /\ OneWay BY DEF ManagerInv
  <2>2. Frame' BY <1>1, <2>1, TypesStep, HandsFullStep, UnbornStep, CancelledStep, WorkersEndStep
               DEF Frame
  <2> QED BY <1>1, <2>1, <2>2, WayStep, ProgressStep DEF ManagerInv
<1>2. CASE UNCHANGED vars
  <2>1. UNCHANGED <<onBus, queued, held, borne, sent>>
    BY <1>2 DEF vars, busVars, lifeVars, onBus, queued, held, borne, sent, In
  <2>2. Frame'
    BY <1>2 DEF ManagerInv, Frame, TypeOK, HandsFull, Unborn, Cancelled, WorkersEnd, EverCancelled,
                vars, busVars, lifeVars
  <2>3. OnRoute' /\ OneWay'
    BY <1>2, <2>1, WayKept DEF ManagerInv, vars, busVars, lifeVars
  <2>4. Progress' BY <1>2 DEF ManagerInv, Progress, vars, busVars, lifeVars
  <2> QED BY <2>2, <2>3, <2>4 DEF ManagerInv
<1> QED BY <1>1, <1>2

\* The invariant holds in every state of every behaviour.
THEOREM ManagerInvariant == MSpec => []ManagerInv
BY ManagerInit, ManagerStep, PTL DEF MSpec

\* TypeOK: the state of bus, managers and workers, within its capacities.
THEOREM ManagerTypes == MSpec => []TypeOK
<1>1. ManagerInv => TypeOK BY DEF ManagerInv, Frame
<1> QED BY <1>1, ManagerInvariant, PTL

\* PanicNeedsStop: no goroutine panics before a manager was stopped.
THEOREM ManagerPanics == MSpec => []PanicNeedsStop
<1>1. ManagerInv => PanicNeedsStop BY DEF ManagerInv, Frame, Cancelled, PanicNeedsStop
<1> QED BY <1>1, ManagerInvariant, PTL

\* OneWorkerAlive: whatever the reloads, one goroutine at a time works a
\* platform's queue, and none once the platform was stopped.
THEOREM ManagerWorkers == MSpec => []OneWorkerAlive
<1>1. ASSUME ManagerInv PROVE OneWorkerAlive
  <2> SUFFICES ASSUME NEW c \in Channel, NEW k \in Kind
               PROVE  /\ Cardinality({g \in Gen : snd[<<g, c, k>>].pc # "done"}) <= 1
                      /\ \A g \in stopped : snd[<<g, c, k>>].pc = "done"
    BY DEF OneWorkerAlive
  <2>1. \A g \in Gen : <<g, c, k>> \in Worker BY DEF Worker
  <2>2. \A g \in Gen : snd[<<g, c, k>>].pc # "done" => g = gen /\ gen \notin stopped
    BY <1>1, <2>1 DEF ManagerInv, Frame, WorkersEnd
  <2>3. stopped \subseteq Gen BY <1>1 DEF ManagerInv, Frame, TypeOK
  <2>4. \/ {g \in Gen : snd[<<g, c, k>>].pc # "done"} = {}
        \/ {g \in Gen : snd[<<g, c, k>>].pc # "done"} = {gen}
    BY <2>2
  <2>5. Cardinality({g \in Gen : snd[<<g, c, k>>].pc # "done"}) \in {0, 1}
    BY <2>4, FS_EmptySet, FS_Singleton
  <2> QED BY <2>2, <2>3, <2>5
<1> QED BY <1>1, ManagerInvariant, PTL

\* NoResend: a part that went through is not sent again, by this manager or
\* by the next, whatever fails around it.
THEOREM ManagerResends == MSpec => []NoResend
<1>1. ASSUME ManagerInv PROVE NoResend
  <2> SUFFICES ASSUME NEW w \in Worker, snd[w].pc \in {"send", "backoff"},
                      last[<<w[2], w[3]>>] = <<snd[w].msg, snd[w].part, TRUE>>
               PROVE  FALSE
    BY DEF NoResend
  <2>1. w \in Sender BY Senders
  <2>2. snd[w].msg # 0 /\ snd[w].part \in Nat
    BY <1>1, <2>1, ManagerAssumption DEF ManagerInv, Frame, HandsFull, TypeOK, Sending
  <2>3. PartFits(snd[w], last[<<w[2], w[3]>>]) BY <1>1 DEF ManagerInv, Progress
  <2> QED BY <2>2, <2>3 DEF PartFits
<1> QED BY <1>1, ManagerInvariant, PTL

----------------------------------------------------------------------------
(* The order of arrival and the causes of a loss                           *)

Precede(s, S, T) == \A x \in S, y \in T : Before(s, x, y)
Sorted(s, q)     == \A i, j \in 1 .. Len(q) : i < j => Before(s, q[i], q[j])

\* The messages of one channel and kind on their way, in the order s of their
\* issue: A has reached the platform, B is with the worker, p is its queue, D
\* with the dispatcher, q on the bus.
InLine(s, A, B, p, D, q) ==
  /\ \A x \in A, y \in B : x = y \/ Before(s, x, y)
  /\ Precede(s, A \cup B, In(p) \cup D \cup In(q))
  /\ Precede(s, In(p), D \cup In(q)) /\ Precede(s, D, In(q))
  /\ Sorted(s, p) /\ Sorted(s, q)
  /\ A \cup B \cup In(p) \cup D \cup In(q) \subseteq In(s)

\* Only the last manager delivers: its predecessors' dispatchers may still take
\* from the bus, but their workers are gone.
InOrder ==
  \A c \in Channel, k \in Kind :
    InLine(issued, {last[<<c, k>>][1]} \ {0}, {borne[<<gen, c, k>>]} \ {0},
           queue[<<gen, c, k>>], {held[<<gen, k>>]} \ {0}, bus[k])

\* A manager not made yet has empty queues.
Fresh == \A w \in Worker : w[1] > gen => queue[w] = <<>>

\* Before the first StopAll the first manager and all its workers are there.
First ==
  /\ \A m \in Accepted : m \notin SyncMsg
  /\ ~EverCancelled =>
     /\ gen = 1 /\ cur = 1 /\ ctx[1] = "live" /\ main.pc = "run"
     /\ \A w \in Worker : w[1] = 1 /\ w[2] \in chan[1].up => snd[w].pc # "done"

\* Whoever was before another in a sequence still is when one is appended, and
\* all are before the new one.
LEMMA BeforeAppend ==
  ASSUME NEW s \in Seq(Msg), NEW m \in Msg
  PROVE  /\ \A x, y : Before(s, x, y) => Before(Append(s, m), x, y)
         /\ \A x \in In(s) : Before(Append(s, m), x, m)
<1> DEFINE a == Append(s, m)  n == Len(s)
<1>1. /\ Len(a) = n + 1 /\ n \in Nat
      /\ \A i \in 1 .. n : a[i] = s[i]
      /\ a[n + 1] = m
  BY AppendProperties, LenProperties
<1> HIDE DEF a
<1>2. n + 1 \in 1 .. n + 1 /\ \A i \in 1 .. n : i \in 1 .. n + 1 /\ i < n + 1 BY <1>1
<1>3. ASSUME NEW x, NEW y, Before(s, x, y) PROVE Before(a, x, y)
  <2>1. PICK i, j \in 1 .. n : i < j /\ s[i] = x /\ s[j] = y BY <1>3 DEF Before
  <2> QED BY <1>1, <1>2, <2>1 DEF Before
<1>4. ASSUME NEW x \in In(s) PROVE Before(a, x, m)
  <2>1. PICK i \in 1 .. n : s[i] = x BY DEF In
  <2> QED BY <1>1, <1>2, <2>1 DEF Before
<1> QED BY <1>3, <1>4 DEF a

\* A message issued and put at the end of the bus is the last in line.
LEMMA LinePublish ==
  ASSUME NEW s \in Seq(Msg), NEW A, NEW B, NEW p, NEW D, NEW q \in Seq(Msg), NEW m \in Msg,
         InLine(s, A, B, p, D, q)
  PROVE  InLine(Append(s, m), A, B, p, D, Append(q, m)) /\ InLine(Append(s, m), A, B, p, D, q)
<1> DEFINE t == Append(s, m)  u == Append(q, m)
<1>1. In(t) = In(s) \cup {m} /\ In(u) = In(q) \cup {m} BY InAppend
<1>2. (\A x, y : Before(s, x, y) => Before(t, x, y)) /\ \A x \in In(s) : Before(t, x, m)
  BY BeforeAppend
<1>3. Sorted(t, p) /\ Sorted(t, q) BY <1>2 DEF InLine, Sorted
<1>4. Sorted(t, u)
  <2>1. /\ Len(u) = Len(q) + 1 /\ Len(q) \in Nat /\ u[Len(q) + 1] = m
        /\ \A i \in 1 .. Len(q) : u[i] = q[i] /\ q[i] \in Msg
    BY AppendProperties, LenProperties, ElementOfSeq
  <2> HIDE DEF t, u
  <2> SUFFICES ASSUME NEW i \in 1 .. Len(u), NEW j \in 1 .. Len(u), i < j PROVE Before(t, u[i], u[j])
    BY DEF Sorted
  <2>2. i \in 1 .. Len(q) BY <2>1
  <2>3. CASE j \in 1 .. Len(q) BY <1>3, <2>1, <2>2, <2>3 DEF Sorted
  <2>4. CASE j = Len(q) + 1
    <3>1. q[i] \in In(q) BY <2>1, <2>2 DEF In
    <3>2. q[i] \in In(s) BY <3>1 DEF InLine
    <3> QED BY <1>2, <2>1, <2>2, <2>4, <3>2
  <2> QED BY <2>1, <2>3, <2>4
<1> HIDE DEF t, u
<1>5. \A x \in A, y \in B : x = y \/ Before(t, x, y) BY <1>2 DEF InLine
<1>6. A \cup B \cup In(p) \cup D \cup In(q) \subseteq In(s) BY DEF InLine
<1>7. /\ Precede(t, A \cup B, In(p) \cup D \cup In(q))
      /\ Precede(t, In(p), D \cup In(q)) /\ Precede(t, D, In(q))
  BY <1>2 DEF InLine, Precede
<1>8. \A x \in A \cup B \cup In(p) \cup D : Before(t, x, m) BY <1>2, <1>6
<1>9. /\ Precede(t, A \cup B, In(p) \cup D \cup In(u))
      /\ Precede(t, In(p), D \cup In(u)) /\ Precede(t, D, In(u))
  BY <1>1, <1>7, <1>8 DEF Precede
<1> QED BY <1>1, <1>3, <1>4, <1>5, <1>6, <1>7, <1>9 DEF InLine, t, u

\* What is taken from the front of a sorted queue was before all that is left.
LEMMA SortedTail ==
  ASSUME NEW s, NEW q \in Seq(Msg), q # <<>>, NoDup(q), Sorted(s, q)
  PROVE  Sorted(s, Tail(q)) /\ Precede(s, {Head(q)}, In(Tail(q)))
<1> DEFINE u == Tail(q)  n == Len(q)
<1>1. /\ n \in Nat \ {0} /\ Len(u) = n - 1
      /\ \A i \in 1 .. n - 1 : u[i] = q[i + 1]
      /\ Head(q) = q[1]
  BY HeadTailProperties, LenProperties, EmptySeq
<1> HIDE DEF u
<1>2. \A i \in 1 .. n - 1 : i + 1 \in 1 .. n /\ 1 < i + 1 /\ 1 \in 1 .. n BY <1>1
<1>3. \A i, j \in 1 .. n - 1 : i < j => i + 1 < j + 1 BY <1>1
<1>4. Sorted(s, u) BY <1>1, <1>2, <1>3 DEF Sorted
<1>5. \A i \in 1 .. n - 1 : Before(s, q[1], u[i]) BY <1>1, <1>2 DEF Sorted
<1>6. Precede(s, {Head(q)}, In(u)) BY <1>1, <1>5 DEF Precede, In
<1> QED BY <1>4, <1>6 DEF u

\* The dispatcher takes the first of the bus; another's is lost to the line.
LEMMA LineSubscribe ==
  ASSUME NEW s, NEW A, NEW B, NEW p, NEW D, NEW q \in Seq(Msg), q # <<>>, NoDup(q),
         InLine(s, A, B, p, D, q)
  PROVE  InLine(s, A, B, p, {Head(q)}, Tail(q)) /\ InLine(s, A, B, p, D, Tail(q))
<1>1. Head(q) \in In(q) /\ In(Tail(q)) \subseteq In(q) BY InTail
<1>2. Sorted(s, Tail(q)) /\ Precede(s, {Head(q)}, In(Tail(q))) BY SortedTail DEF InLine
<1> QED BY <1>1, <1>2 DEF InLine, Precede

\* It puts it at the end of the worker's queue.
LEMMA LinePut ==
  ASSUME NEW s, NEW A, NEW B, NEW p \in Seq(Msg), NEW m \in Msg, NEW q,
         InLine(s, A, B, p, {m}, q)
  PROVE  InLine(s, A, B, Append(p, m), {}, q)
<1> DEFINE u == Append(p, m)
<1>1. In(u) = In(p) \cup {m} BY InAppend
<1>2. Sorted(s, u)
  <2>1. /\ Len(u) = Len(p) + 1 /\ Len(p) \in Nat /\ u[Len(p) + 1] = m
        /\ \A i \in 1 .. Len(p) : u[i] = p[i] /\ p[i] \in Msg
    BY AppendProperties, LenProperties, ElementOfSeq
  <2> HIDE DEF u
  <2> SUFFICES ASSUME NEW i \in 1 .. Len(u), NEW j \in 1 .. Len(u), i < j PROVE Before(s, u[i], u[j])
    BY DEF Sorted
  <2>2. i \in 1 .. Len(p) BY <2>1
  <2>3. CASE j \in 1 .. Len(p) BY <2>1, <2>2, <2>3 DEF Sorted, InLine
  <2>4. CASE j = Len(p) + 1
    <3>1. p[i] \in In(p) BY <2>1, <2>2 DEF In
    <3> QED BY <2>1, <2>2, <2>4, <3>1 DEF InLine, Precede
  <2> QED BY <2>1, <2>3, <2>4
<1> HIDE DEF u
<1> QED BY <1>1, <1>2 DEF InLine, Precede, u

\* The worker takes the first of its queue.
LEMMA LineTake ==
  ASSUME NEW s, NEW A, NEW B, NEW p \in Seq(Msg), p # <<>>, NoDup(p), NEW D, NEW q,
         InLine(s, A, B, p, D, q)
  PROVE  InLine(s, A, {Head(p)}, Tail(p), D, q)
<1>1. Head(p) \in In(p) /\ In(Tail(p)) \subseteq In(p) BY InTail
<1>2. Sorted(s, Tail(p)) /\ Precede(s, {Head(p)}, In(Tail(p))) BY SortedTail DEF InLine
<1> QED BY <1>1, <1>2 DEF InLine, Precede

\* Less in line, or the worker's message at the platform.
LEMMA LineLess ==
  ASSUME NEW s, NEW A, NEW B, NEW p, NEW D, NEW q, InLine(s, A, B, p, D, q),
         NEW C \in SUBSET B, NEW E \in SUBSET D
  PROVE  /\ InLine(s, A, C, p, E, q)
         /\ \A m : B \subseteq {m} => InLine(s, B, C, p, E, q)
<1>1. InLine(s, A, C, p, E, q) BY DEF InLine, Precede
<1>2. ASSUME NEW m, B \subseteq {m} PROVE InLine(s, B, C, p, E, q)
  <2>1. \A x \in B, y \in C : x = y BY <1>2
  <2> QED BY <2>1 DEF InLine, Precede
<1> QED BY <1>1, <1>2

\* A new manager starts with an empty line behind the bus.
LEMMA LineRestart ==
  ASSUME NEW s, NEW A, NEW B, NEW p, NEW D, NEW q, InLine(s, A, B, p, D, q)
  PROVE  InLine(s, A, {}, <<>>, {}, q)
<1>1. In(<<>>) = {} /\ Sorted(s, <<>>) BY DEF In, Sorted
<1> QED BY <1>1 DEF InLine, Precede

\* Where what line up stays, the lines stay.
LEMMA OrderKept ==
  ASSUME InOrder, Fresh, UNCHANGED <<issued, bus, gen, queue, last>>,
         \A c \in Channel, k \in Kind : borne'[<<gen, c, k>>] \in {0, borne[<<gen, c, k>>]},
         \A k \in Kind : held'[<<gen, k>>] \in {0, held[<<gen, k>>]}
  PROVE  InOrder' /\ Fresh'
<1>1. Fresh' BY DEF Fresh
<1>2. ASSUME NEW c \in Channel, NEW k \in Kind
      PROVE  InLine(issued', {last'[<<c, k>>][1]} \ {0}, {borne'[<<gen', c, k>>]} \ {0},
                    queue'[<<gen', c, k>>], {held'[<<gen', k>>]} \ {0}, bus'[k])
  <2> DEFINE A == {last[<<c, k>>][1]} \ {0}  B == {borne[<<gen, c, k>>]} \ {0}
             D == {held[<<gen, k>>]} \ {0}
             C == {borne'[<<gen, c, k>>]} \ {0}  E == {held'[<<gen, k>>]} \ {0}
  <2>1. InLine(issued, A, B, queue[<<gen, c, k>>], D, bus[k]) BY DEF InOrder
  <2>2. C \subseteq B /\ E \subseteq D OBVIOUS
  <2> HIDE DEF A, B, C, D, E
  <2>3. InLine(issued, A, C, queue[<<gen, c, k>>], E, bus[k]) BY <2>1, <2>2, LineLess
  <2> QED BY <2>3 DEF A, C, E
<1>3. InOrder' BY <1>2 DEF InOrder, InLine, Precede, Sorted, Before, In
<1> QED BY <1>1, <1>3

\* One line in the next state.
NextLine(c, k) == InLine(issued', {last'[<<c, k>>][1]} \ {0}, {borne'[<<gen', c, k>>]} \ {0},
                         queue'[<<gen', c, k>>], {held'[<<gen', k>>]} \ {0}, bus'[k])

\* The lines of the next state are its order.
LEMMA Lines == (\A c \in Channel, k \in Kind : NextLine(c, k)) => InOrder'
BY DEF InOrder, NextLine, InLine, Precede, Sorted, Before, In

\* A published message comes last in every line of its kind.
LEMMA PublishOrder ==
  ASSUME ManagerInv, InOrder, Fresh, NEW m \in Msg, Publish(m)
  PROVE  InOrder' /\ Fresh'
<1>1. /\ bus' = [bus EXCEPT ![KindOf[m]] = Append(bus[KindOf[m]], m)] /\ issued' = Append(issued, m)
      /\ UNCHANGED <<gen, queue, disp, snd, last>>
  BY DEF Publish, lifeVars
<1>2. bus \in [Kind -> Seq(Msg)] /\ issued \in Seq(Msg) /\ KindOf[m] \in Kind
  BY ManagerAssumption DEF ManagerInv, Frame, TypeOK
<1>3. UNCHANGED <<held, borne>> BY <1>1 DEF held, borne
<1>4. Fresh' BY <1>1 DEF Fresh
<1>5. ASSUME NEW c \in Channel, NEW k \in Kind PROVE NextLine(c, k)
  <2> DEFINE A == {last[<<c, k>>][1]} \ {0}  B == {borne[<<gen, c, k>>]} \ {0}
             D == {held[<<gen, k>>]} \ {0}
  <2>1. InLine(issued, A, B, queue[<<gen, c, k>>], D, bus[k]) BY DEF InOrder
  <2>2. bus'[k] = IF k = KindOf[m] THEN Append(bus[k], m) ELSE bus[k] BY <1>1, <1>2
  <2>3. bus[k] \in Seq(Msg) BY <1>2
  <2> HIDE DEF A, B, D
  <2>4. /\ InLine(Append(issued, m), A, B, queue[<<gen, c, k>>], D, Append(bus[k], m))
        /\ InLine(Append(issued, m), A, B, queue[<<gen, c, k>>], D, bus[k])
    BY <1>2, <2>1, <2>3, LinePublish
  <2>5. InLine(issued', A, B, queue[<<gen, c, k>>], D, bus'[k]) BY <1>1, <2>2, <2>4
  <2> QED BY <1>1, <1>3, <2>5 DEF A, B, D, NextLine
<1> QED BY <1>4, <1>5, Lines

\* Dispatchers take from the front of the bus and put to the end of a queue.
LEMMA DispatchOrder ==
  ASSUME ManagerInv, InOrder, Fresh, NEW g \in Gen, NEW h \in Kind, Dispatch(g, h)
  PROVE  InOrder' /\ Fresh'
<1>0. /\ disp \in [Gen \X Kind -> Disp] /\ bus \in [Kind -> Seq(Msg)] /\ queue \in [Worker -> Seq(Msg)]
      /\ gen \in Gen /\ HandsFull /\ Unborn /\ OneWay
  BY DEF ManagerInv, Frame, TypeOK, Disp
<1>1. UNCHANGED <<issued, gen, snd, last>> BY DEF Dispatch, Subscribe, LookUp, Enqueue, busVars, lifeVars
<1>2. UNCHANGED borne BY <1>1 DEF borne
<1>3. CASE /\ bus[h] # <<>> /\ bus' = [bus EXCEPT ![h] = Tail(@)]
           /\ disp' = [disp EXCEPT ![<<g, h>>] = [pc |-> "look", msg |-> Head(bus[h])]]
           /\ UNCHANGED queue
  <2>1. Fresh' BY <1>1, <1>3 DEF Fresh
  <2>2. held'[<<g, h>>] = Head(bus[h]) /\ \A d \in Gen \X Kind : d # <<g, h>> => held'[d] = held[d]
    BY <1>0, <1>3 DEF held
  <2>3. Head(bus[h]) # 0
    <3>1. NoDup(bus[h]) /\ bus[h] \in Seq(Msg) BY <1>0 DEF OneWay
    <3>2. Head(bus[h]) \in In(bus[h]) BY <1>3, <3>1, InTail
    <3> QED BY <3>2, ManagerAssumption DEF In
  <2>4. ASSUME NEW c \in Channel, NEW k \in Kind PROVE NextLine(c, k)
    <3> DEFINE A == {last[<<c, k>>][1]} \ {0}  B == {borne[<<gen, c, k>>]} \ {0}
               D == {held[<<gen, k>>]} \ {0}  E == {held'[<<gen, k>>]} \ {0}
    <3>1. InLine(issued, A, B, queue[<<gen, c, k>>], D, bus[k]) BY DEF InOrder
    <3>2. k # h => E = D /\ bus'[k] = bus[k] BY <1>0, <1>3, <2>2
    <3>3. k = h => bus'[k] = Tail(bus[k]) /\ (E = D \/ E = {Head(bus[k])}) BY <1>0, <1>3, <2>2, <2>3
    <3>4. NoDup(bus[k]) /\ bus[k] \in Seq(Msg) BY <1>0 DEF OneWay
    <3> HIDE DEF A, B, D, E
    <3>5. InLine(issued, A, B, queue[<<gen, c, k>>], E, bus'[k])
      <4>1. CASE k # h BY <3>1, <3>2, <4>1
      <4>2. CASE k = h
        <5>1. /\ InLine(issued, A, B, queue[<<gen, c, k>>], {Head(bus[k])}, Tail(bus[k]))
              /\ InLine(issued, A, B, queue[<<gen, c, k>>], D, Tail(bus[k]))
          BY <1>3, <3>1, <3>4, <4>2, LineSubscribe
        <5> QED BY <3>3, <4>2, <5>1
      <4> QED BY <4>1, <4>2
    <3> QED BY <1>1, <1>2, <1>3, <3>5 DEF A, B, E, NextLine
  <2> QED BY <2>1, <2>4, Lines
<1>4. CASE Put(g, h) /\ disp[<<g, h>>].pc = "put"
  <2> DEFINE m == disp[<<g, h>>].msg  t == <<g, To[disp[<<g, h>>].msg], h>>
  <2>1. m \in Msg /\ To[m] \in chan[g].up /\ To[m] \in Channel
    BY <1>0, <1>4 DEF HandsFull, ManagerInv, Frame, TypeOK
  <2>2. t \in Worker BY <2>1 DEF Worker
  <2>3. queue' = [queue EXCEPT ![t] = Append(queue[t], m)] /\ disp' = [disp EXCEPT ![<<g, h>>] = Started]
        /\ UNCHANGED bus
    BY <1>4 DEF Put, Target
  <2>4. ~(g > gen) BY <1>0, <1>4 DEF Unborn
  <2>5. held[<<g, h>>] = m BY DEF held
  <2>6. t[1] = g /\ \A c \in Channel, k \in Kind : <<gen, c, k>> = t => g = gen /\ k = h OBVIOUS
  <2> HIDE DEF m, t
  <2>7. held'[<<g, h>>] = 0 /\ \A d \in Gen \X Kind : d # <<g, h>> => held'[d] = held[d]
    BY <1>0, <2>3 DEF held, Started
  <2>8. Fresh' BY <1>0, <1>1, <2>2, <2>3, <2>4, <2>6 DEF Fresh
  <2>9. ASSUME NEW c \in Channel, NEW k \in Kind PROVE NextLine(c, k)
    <3> DEFINE w == <<gen, c, k>>
               A == {last[<<c, k>>][1]} \ {0}  B == {borne[w]} \ {0}
               D == {held[<<gen, k>>]} \ {0}  E == {held'[<<gen, k>>]} \ {0}
    <3>1. InLine(issued, A, B, queue[w], D, bus[k]) BY DEF InOrder
    <3>2. w \in Worker BY <1>0 DEF Worker
    <3>3. E \subseteq D BY <1>0, <2>7
    <3>4. w = t => D = {m} /\ E = {} BY <1>0, <2>1, <2>5, <2>6, <2>7, ManagerAssumption
    <3>a. w = <<gen, c, k>> OBVIOUS
    <3> HIDE DEF A, B, D, E, w
    <3>5. InLine(issued, A, B, queue'[w], E, bus[k])
      <4>1. CASE w # t
        <5>1. queue'[w] = queue[w] BY <1>0, <2>3, <3>2, <4>1
        <5> QED BY <3>1, <3>3, <5>1, LineLess
      <4>2. CASE w = t
        <5>1. queue'[w] = Append(queue[w], m) /\ queue[w] \in Seq(Msg) BY <1>0, <2>3, <3>2, <4>2
        <5>2. InLine(issued, A, B, queue[w], {m}, bus[k]) BY <3>1, <3>4, <4>2
        <5>3. InLine(issued, A, B, Append(queue[w], m), {}, bus[k]) BY <2>1, <5>1, <5>2, LinePut
        <5> QED BY <3>4, <4>2, <5>1, <5>3
      <4> QED BY <4>1, <4>2
    <3> QED BY <1>1, <1>2, <2>3, <3>5 DEF A, B, E, w, NextLine
  <2> QED BY <2>8, <2>9, Lines
<1>5. CASE /\ UNCHANGED <<bus, queue>>
           /\ \/ disp' = [disp EXCEPT ![<<g, h>>] = Dead]
              \/ disp' = [disp EXCEPT ![<<g, h>>] = Started]
              \/ disp' = [disp EXCEPT ![<<g, h>>] = [disp[<<g, h>>] EXCEPT !.pc = "put"]]
              \/ disp' = disp
  <2>1. Dead.msg = 0 /\ Started.msg = 0 BY DEF Dead, Started
  <2>2. [disp[<<g, h>>] EXCEPT !.pc = "put"].msg = disp[<<g, h>>].msg BY <1>0 DEF Disp
  <2>3. \A d \in Gen \X Kind : disp'[d].msg \in {0, disp[d].msg} BY <1>0, <1>5, <2>1, <2>2
  <2>4. \A k \in Kind : held'[<<gen, k>>] \in {0, held[<<gen, k>>]} BY <1>0, <2>3 DEF held
  <2> QED BY <1>1, <1>2, <1>5, <2>4, OrderKept
<1> QED BY <1>3, <1>4, <1>5 DEF Dispatch, Subscribe, LookUp, Enqueue, GiveUp, busVars

\* A worker takes from the front of its queue.
LEMMA TakeOrder ==
  ASSUME ManagerInv, InOrder, Fresh, NEW v \in Worker, Take(v)
  PROVE  InOrder' /\ Fresh'
<1>0. /\ snd \in [Sender -> Snd] /\ queue \in [Worker -> Seq(Msg)] /\ gen \in Gen /\ OneWay
      /\ v \in Sender /\ v = <<v[1], v[2], v[3]>> /\ v[1] = gen
  <2>1. snd[v].pc # "done" BY DEF Take
  <2> QED BY <2>1, Senders DEF ManagerInv, Frame, TypeOK, Snd, WorkersEnd
<1>1. UNCHANGED <<issued, bus, gen, disp, last>> BY DEF Take, busVars, lifeVars
<1>2. UNCHANGED held BY <1>1 DEF held
<1>3. CASE snd' = [snd EXCEPT ![v] = Gone] /\ UNCHANGED queue
  <2>1. Gone.msg = 0 BY DEF Gone
  <2>2. \A s \in Sender : borne'[s] \in {0, borne[s]} BY <1>0, <1>3, <2>1 DEF borne
  <2>3. \A c \in Channel, k \in Kind : <<gen, c, k>> \in Sender BY <1>0 DEF Sender, Worker
  <2> QED BY <1>1, <1>2, <1>3, <2>2, <2>3, OrderKept
<1>4. CASE /\ queue[v] # <<>> /\ queue' = [queue EXCEPT ![v] = Tail(@)]
           /\ snd' = [snd EXCEPT ![v] = [pc |-> "limit", msg |-> Head(queue[v]), part |-> 1, try |-> 0]]
  <2>1. borne'[v] = Head(queue[v]) /\ \A s \in Sender : s # v => borne'[s] = borne[s]
    BY <1>0, <1>4 DEF borne
  <2>2. Head(queue[v]) # 0
    <3>1. NoDup(queue[v]) /\ queue[v] \in Seq(Msg) BY <1>0 DEF OneWay
    <3>2. Head(queue[v]) \in In(queue[v]) BY <1>4, <3>1, InTail
    <3> QED BY <3>2, ManagerAssumption DEF In
  <2>3. Fresh'
    <3>1. ~(v[1] > gen) BY <1>0, ManagerAssumption DEF Gen
    <3> QED BY <1>0, <1>1, <1>4, <3>1 DEF Fresh
  <2>4. ASSUME NEW c \in Channel, NEW k \in Kind PROVE NextLine(c, k)
    <3> DEFINE w == <<gen, c, k>>
               A == {last[<<c, k>>][1]} \ {0}  B == {borne[w]} \ {0}
               D == {held[<<gen, k>>]} \ {0}  C == {borne'[w]} \ {0}
    <3>1. InLine(issued, A, B, queue[w], D, bus[k]) BY DEF InOrder
    <3>2. w \in Worker /\ w \in Sender BY <1>0 DEF Worker, Sender
    <3>3. w # v => C = B /\ queue'[w] = queue[w] BY <1>0, <1>4, <2>1, <3>2
    <3>4. w = v => C = {Head(queue[w])} /\ queue'[w] = Tail(queue[w]) BY <1>0, <1>4, <2>1, <2>2, <3>2
    <3>5. NoDup(queue[w]) /\ queue[w] \in Seq(Msg) BY <1>0, <3>2 DEF OneWay
    <3> HIDE DEF A, B, C, D, w
    <3>6. InLine(issued, A, C, queue'[w], D, bus[k])
      <4>1. CASE w # v BY <3>1, <3>3, <4>1
      <4>2. CASE w = v
        <5>1. InLine(issued, A, {Head(queue[w])}, Tail(queue[w]), D, bus[k])
          BY <1>4, <3>1, <3>5, <4>2, LineTake
        <5> QED BY <3>4, <4>2, <5>1
      <4> QED BY <4>1, <4>2
    <3> QED BY <1>1, <1>2, <3>6 DEF A, C, D, w, NextLine
  <2> QED BY <2>3, <2>4, Lines
<1> QED BY <1>3, <1>4 DEF Take

\* What reaches a platform is what its worker has.
LEMMA TransmitOrder ==
  ASSUME ManagerInv, InOrder, Fresh, NEW s \in Sender, Transmit(s)
  PROVE  /\ InOrder' /\ Fresh'
         /\ last' = last \/ /\ s \in Worker /\ s[1] = gen /\ borne[s] # 0
                            /\ \A l \in Channel \X Kind :
                                 IF l = <<s[2], s[3]>> THEN last'[l][1] = borne[s] ELSE last'[l] = last[l]
<1>0. /\ snd \in [Sender -> Snd] /\ gen \in Gen /\ OnRoute /\ Frame /\ 0 \notin Msg
      /\ last \in [Channel \X Kind -> (Msg \cup {0}) \X Nat \X BOOLEAN]
  BY ManagerAssumption DEF ManagerInv, Frame, TypeOK, Snd
<1>1. /\ snd[s].pc \in Sending /\ snd' = [snd EXCEPT ![s] = snd'[s]] /\ snd'[s].msg \in {0, snd[s].msg}
      /\ UNCHANGED <<issued, bus, gen, queue, disp>>
  <2>1. Rest.msg = 0 BY DEF Rest
  <2> QED BY <1>0, <2>1, TransmitEffect DEF busVars, lifeVars
<1>2. UNCHANGED held BY <1>1 DEF held
<1>3. borne'[s] \in {0, borne[s]} /\ \A u \in Sender : u # s => borne'[u] = borne[u]
  BY <1>0, <1>1 DEF borne
<1>4. borne[s] # 0 /\ borne[s] = snd[s].msg BY <1>0, <1>1 DEF borne, Frame, HandsFull
<1>5. \A c \in Channel, k \in Kind : <<gen, c, k>> \in Sender BY <1>0 DEF Sender, Worker
<1>6. CASE last' = last
  <2>1. \A c \in Channel, k \in Kind : borne'[<<gen, c, k>>] \in {0, borne[<<gen, c, k>>]} BY <1>3, <1>5
  <2> QED BY <1>1, <1>2, <1>6, <2>1, OrderKept
<1>7. CASE last' # last
  <2>1. PICK ok \in BOOLEAN :
          /\ snd[s].msg \notin SyncMsg
          /\ last' = [last EXCEPT ![<<To[snd[s].msg], KindOf[snd[s].msg]>>]
                                    = <<snd[s].msg, snd[s].part, ok>>]
    BY <1>0, <1>7, TransmitEffect
  <2>2. s \in Worker
    <3>1. ASSUME NEW g \in Gen, s = Caller(g) PROVE FALSE BY <1>0, <1>4, <2>1, <3>1 DEF OnRoute
    <3> QED BY <3>1 DEF Sender
  <2>3. <<To[snd[s].msg], KindOf[snd[s].msg]>> = <<s[2], s[3]>> BY <1>0, <1>4, <2>2 DEF OnRoute
  <2>4. s[1] = gen /\ s = <<s[1], s[2], s[3]>> BY <1>0, <1>1, <2>2, Senders DEF Frame, WorkersEnd, Sending
  <2>5. \A l \in Channel \X Kind :
          IF l = <<s[2], s[3]>> THEN last'[l][1] = borne[s] ELSE last'[l] = last[l]
    <3> DEFINE new == <<snd[s].msg, snd[s].part, ok>>
    <3>1. last' = [last EXCEPT ![<<s[2], s[3]>>] = new] BY <2>1, <2>3
    <3>2. new[1] = borne[s] BY <1>4
    <3> HIDE DEF new
    <3> QED BY <1>0, <3>1, <3>2
  <2>6. Fresh' BY <1>1 DEF Fresh
  <2>7. ASSUME NEW c \in Channel, NEW k \in Kind PROVE NextLine(c, k)
    <3> DEFINE w == <<gen, c, k>>
               A == {last[<<c, k>>][1]} \ {0}  B == {borne[w]} \ {0}
               D == {held[<<gen, k>>]} \ {0}  C == {borne'[w]} \ {0}  Z == {last'[<<c, k>>][1]} \ {0}
    <3>1. InLine(issued, A, B, queue[w], D, bus[k]) BY DEF InOrder
    <3>2. w \in Sender /\ (w = s <=> <<c, k>> = <<s[2], s[3]>>) BY <1>5, <2>4
    <3>3. C \subseteq B /\ (w # s => Z = A) /\ (w = s => Z = B /\ B \subseteq {borne[s]})
      BY <1>3, <1>4, <2>5, <3>2
    <3> HIDE DEF A, B, C, D, Z, w
    <3>4. InLine(issued, Z, C, queue[w], D, bus[k]) BY <3>1, <3>3, LineLess
    <3> QED BY <1>1, <1>2, <3>4 DEF C, D, Z, w, NextLine
  <2> QED BY <1>4, <2>2, <2>4, <2>5, <2>6, <2>7, Lines
<1> QED BY <1>6, <1>7

\* Every step keeps the lines.
LEMMA OrderStep ==
  ASSUME ManagerInv, InOrder, Fresh, [MNext]_vars
  PROVE  InOrder' /\ Fresh'
<1>0. /\ snd \in [Sender -> Snd] /\ gen \in Gen /\ Frame
      /\ \A c \in Channel, k \in Kind : <<gen, c, k>> \in Worker /\ <<gen, c, k>> \in Sender
  BY DEF ManagerInv, Frame, TypeOK, Snd, Worker, Sender
<1>1. ASSUME NEW m \in Msg, Publish(m) PROVE InOrder' /\ Fresh' BY <1>1, PublishOrder
<1>2. ASSUME NEW m \in Msg, SendMessage(m) PROVE InOrder' /\ Fresh'
  <2>1. /\ UNCHANGED <<issued, bus, gen, queue, disp, last>>
        /\ snd' = snd \/ \E r : snd' = [snd EXCEPT ![Caller(gen)] = r]
    BY <1>2 DEF SendMessage, lifeVars
  <2>2. \A w \in Worker : borne'[w] = borne[w] BY <1>0, <2>1, Senders DEF borne
  <2>3. UNCHANGED held BY <2>1 DEF held
  <2> QED BY <1>0, <2>1, <2>2, <2>3, OrderKept
<1>3. ASSUME NEW g \in Gen, NEW k \in Kind, Dispatch(g, k) PROVE InOrder' /\ Fresh'
  BY <1>3, DispatchOrder
<1>4. ASSUME NEW w \in Worker, Take(w) PROVE InOrder' /\ Fresh' BY <1>4, TakeOrder
<1>5. ASSUME NEW s \in Sender, Transmit(s) PROVE InOrder' /\ Fresh' BY <1>5, TransmitOrder
<1>6. CASE Main /\ ~Restart
  <2>1. UNCHANGED <<issued, bus, gen, queue, disp, snd, last>> BY <1>6, MainLeaves DEF busVars
  <2>2. UNCHANGED <<held, borne>> BY <2>1 DEF held, borne
  <2> QED BY <2>1, <2>2, OrderKept
<1>7. CASE Restart
  <2>1. UNCHANGED <<issued, bus, queue, last>> BY <1>7 DEF Restart, busVars
  <2>2. gen' = gen + 1 /\ gen + 1 \in Gen /\ gen \in Nat /\ Gen \subseteq Nat
    BY <1>0, <1>7, BootEffect DEF Gen
  <2>3. \A c \in Channel, k \in Kind : <<gen + 1, c, k>> \in Worker /\ <<gen + 1, c, k>> \in Sender
    BY <2>2 DEF Worker, Sender
  <2>4. Rest.msg = 0 /\ Started.msg = 0 BY DEF Rest, Started
  <2>5. \A c \in Channel, k \in Kind : borne'[<<gen + 1, c, k>>] = 0
    <3> SUFFICES ASSUME NEW c \in Channel, NEW k \in Kind PROVE borne'[<<gen + 1, c, k>>] = 0 OBVIOUS
    <3> DEFINE w == <<gen + 1, c, k>>
    <3>1. w \in Sender /\ w[1] = gen + 1 BY <2>3
    <3> HIDE DEF w
    <3>2. snd[w].pc = "done" /\ snd'[w] \in {snd[w], Rest} BY <1>0, <1>7, <3>1, BootEffect
    <3>3. snd[w].msg = 0 BY <1>0, <3>1, <3>2 DEF Frame, HandsFull, Sending
    <3> QED BY <2>4, <3>1, <3>2, <3>3 DEF borne, w
  <2>6. \A k \in Kind : held'[<<gen + 1, k>>] = 0
    <3>1. \A k \in Kind : disp[<<gen + 1, k>>].pc = "done"
                          /\ disp'[<<gen + 1, k>>] \in {disp[<<gen + 1, k>>], Started}
      BY <1>0, <1>7, <2>2, BootEffect
    <3>2. \A k \in Kind : disp[<<gen + 1, k>>].msg = 0
      BY <1>0, <2>2, <3>1 DEF Frame, HandsFull
    <3> QED BY <2>2, <2>4, <3>1, <3>2 DEF held
  <2>7. \A c \in Channel, k \in Kind : queue[<<gen + 1, c, k>>] = <<>>
    <3> SUFFICES ASSUME NEW c \in Channel, NEW k \in Kind PROVE queue[<<gen + 1, c, k>>] = <<>> OBVIOUS
    <3>1. <<gen + 1, c, k>> \in Worker /\ <<gen + 1, c, k>>[1] > gen BY <2>2, <2>3
    <3> QED BY <3>1 DEF Fresh
  <2>8. Fresh' BY <2>1, <2>2, Senders DEF Fresh
  <2>9. ASSUME NEW c \in Channel, NEW k \in Kind PROVE NextLine(c, k)
    <3> DEFINE A == {last[<<c, k>>][1]} \ {0}
    <3>1. \E B, D : InLine(issued, A, B, queue[<<gen, c, k>>], D, bus[k]) BY DEF InOrder
    <3> HIDE DEF A
    <3>2. InLine(issued, A, {}, <<>>, {}, bus[k]) BY <3>1, LineRestart
    <3>3. {borne'[<<gen', c, k>>]} \ {0} = {} /\ {held'[<<gen', k>>]} \ {0} = {}
          /\ queue'[<<gen', c, k>>] = <<>>
      BY <2>1, <2>2, <2>5, <2>6, <2>7
    <3> QED BY <2>1, <3>2, <3>3 DEF A, NextLine
  <2> QED BY <2>8, <2>9, Lines
<1>8. CASE UNCHANGED vars
  <2>1. UNCHANGED <<issued, bus, gen, queue, last, held, borne>>
    BY <1>8 DEF vars, busVars, lifeVars, held, borne
  <2> QED BY <2>1, OrderKept
<1> QED BY <1>1, <1>2, <1>3, <1>4, <1>5, <1>6, <1>7, <1>8 DEF MNext

\* The lines are empty at the start.
LEMMA OrderStart == MInit => InOrder /\ Fresh
<1> SUFFICES ASSUME MInit PROVE InOrder /\ Fresh OBVIOUS
<1>1. ManagerInv BY ManagerInit
<1>2. /\ \A k \in Kind : bus[k] = <<>>
      /\ \A w \in Worker : queue[w] = <<>>
      /\ issued = <<>> /\ \A l \in Channel \X Kind : last[l][1] = 0
      /\ gen = 1 /\ \A d \in Gen \X Kind : disp[d].msg = 0
  BY DEF MInit, Started, Dead
<1>3. 1 \in Gen BY ManagerAssumption DEF Gen
<1>4. \A s \in Sender : snd[s].pc \in {"idle", "done"} BY DEF MInit, Rest, Gone
<1>5. \A s \in Sender : snd[s].msg = 0 BY <1>1, <1>4 DEF ManagerInv, Frame, HandsFull, Sending
<1>6. In(<<>>) = {} /\ \A s : Sorted(s, <<>>) BY DEF In, Sorted
<1>7. InLine(<<>>, {}, {}, <<>>, {}, <<>>) BY <1>6 DEF InLine, Precede
<1>8. ASSUME NEW c \in Channel, NEW k \in Kind
      PROVE  InLine(issued, {last[<<c, k>>][1]} \ {0}, {borne[<<gen, c, k>>]} \ {0},
                    queue[<<gen, c, k>>], {held[<<gen, k>>]} \ {0}, bus[k])
  <2>1. <<gen, c, k>> \in Worker /\ <<gen, c, k>> \in Sender /\ <<gen, k>> \in Gen \X Kind
    BY <1>2, <1>3 DEF Worker, Sender
  <2>2. {last[<<c, k>>][1]} \ {0} = {} /\ {borne[<<gen, c, k>>]} \ {0} = {} /\ {held[<<gen, k>>]} \ {0} = {}
        /\ queue[<<gen, c, k>>] = <<>> /\ bus[k] = <<>> /\ issued = <<>>
    BY <1>2, <1>5, <2>1 DEF borne, held
  <2> QED BY <1>7, <2>2
<1>9. InOrder BY <1>8 DEF InOrder
<1>10. Fresh BY <1>2 DEF Fresh
<1> QED BY <1>9, <1>10

\* What a step brings to a platform is a later message or part, or the same
\* part again after a call that failed.
LEMMA ArrivalStep ==
  ASSUME ManagerInv, InOrder, Fresh, MNext, NEW l \in Channel \X Kind, last'[l] # last[l]
  PROVE  LET old == last[l]  new == last'[l] IN
         \/ old[1] = 0
         \/ old[1] = new[1] /\ (old[2] < new[2] \/ (old[2] = new[2] /\ ~old[3]))
         \/ Before(issued, old[1], new[1])
<1>1. PICK s \in Sender : Transmit(s)
  <2>1. Main => UNCHANGED last BY MainLeaves
  <2> QED BY <2>1 DEF MNext, Publish, SendMessage, Dispatch, Subscribe, LookUp, Enqueue, Take
<1>2. /\ s \in Worker /\ s[1] = gen /\ borne[s] # 0
      /\ l = <<s[2], s[3]>> /\ last'[l][1] = borne[s]
  BY <1>1, TransmitOrder
<1>3. borne[s] = snd[s].msg /\ s = <<gen, s[2], s[3]>> /\ s[2] \in Channel /\ s[3] \in Kind
  BY <1>2, Senders DEF borne
<1>4. /\ snd[s] \in Snd /\ last \in [Channel \X Kind -> (Msg \cup {0}) \X Nat \X BOOLEAN]
      /\ Frame /\ Progress
  BY DEF ManagerInv, Frame, TypeOK, Snd
<1>5. CASE last[l][1] = 0 BY <1>5
<1>6. CASE last[l][1] # 0 /\ last[l][1] # borne[s]
  <2>1. InLine(issued, {last[l][1]} \ {0}, {borne[s]} \ {0}, queue[s], {held[<<gen, s[3]>>]} \ {0}, bus[s[3]])
    BY <1>2, <1>3 DEF InOrder
  <2>2. Before(issued, last[l][1], borne[s])
    <3> DEFINE x == last[l][1]  y == borne[s]
    <3>1. x \in {x} \ {0} /\ y \in {y} \ {0} /\ x # y BY <1>2, <1>6
    <3>2. \A u \in {x} \ {0}, v \in {y} \ {0} : u = v \/ Before(issued, u, v) BY <2>1 DEF InLine
    <3> QED BY <3>1, <3>2
  <2> QED BY <1>2, <2>2
<1>7. CASE last[l][1] # 0 /\ last[l][1] = borne[s]
  <2>1. last[l][2] < snd[s].part \/ (last[l][2] = snd[s].part /\ ~last[l][3])
    <3>1. PartFits(snd[s], last[<<s[2], s[3]>>]) BY <1>2, <1>4 DEF Progress
    <3> QED BY <1>2, <1>3, <1>7, <3>1 DEF PartFits
  <2>2. last'[l][2] = snd[s].part
    <3>1. PICK ok \in BOOLEAN :
             last' = [last EXCEPT ![<<To[snd[s].msg], KindOf[snd[s].msg]>>] = <<snd[s].msg, snd[s].part, ok>>]
      BY <1>1, <1>4, TransmitEffect
    <3> DEFINE at == <<To[snd[s].msg], KindOf[snd[s].msg]>>  new == <<snd[s].msg, snd[s].part, ok>>
    <3>2. last' = [last EXCEPT ![at] = new] /\ new[2] = snd[s].part BY <3>1
    <3> HIDE DEF at, new
    <3> QED BY <1>4, <3>2
  <2> QED BY <1>2, <1>7, <2>1, <2>2
<1> QED BY <1>5, <1>6, <1>7

\* The messages of every channel and kind are in line in every state.
THEOREM ManagerLines == MSpec => [](InOrder /\ Fresh)
<1>1. MInit => InOrder /\ Fresh BY OrderStart
<1>2. ManagerInv /\ (InOrder /\ Fresh) /\ [MNext]_vars => (InOrder /\ Fresh)' BY OrderStep
<1> QED BY <1>1, <1>2, ManagerInvariant, PTL DEF MSpec

\* ArrivalOrder: platforms get messages in the order of their issue, whatever
\* fails and whatever the reloads.
THEOREM ManagerArrivals == MSpec => ArrivalOrder
<1> DEFINE Orderly == \A l \in Channel \X Kind :
      LET old == last[l]  new == last'[l] IN
      old # new => \/ old[1] = 0
                   \/ old[1] = new[1] /\ (old[2] < new[2] \/ (old[2] = new[2] /\ ~old[3]))
                   \/ Before(issued, old[1], new[1])
<1>1. ManagerInv /\ InOrder /\ Fresh /\ [MNext]_vars => [Orderly]_vars
  <2>1. ManagerInv /\ InOrder /\ Fresh /\ MNext => Orderly BY ArrivalStep
  <2> QED BY <2>1
<1> QED BY <1>1, ManagerInvariant, ManagerLines, PTL DEF MSpec, ArrivalOrder

\* Nothing is cancelled before a StopAll, which cancels the first manager.
LEMMA FirstStep ==
  ASSUME ManagerInv, First, [MNext]_vars
  PROVE  First'
<1>0. /\ ctx \in [Gen -> {"new", "live", "cancelled"}] /\ gen \in Gen /\ issued \in Seq(Msg)
      /\ snd \in [Sender -> Snd] /\ Frame /\ 1 \in Gen /\ Gen \subseteq Nat
  BY ManagerAssumption DEF ManagerInv, Frame, TypeOK, Snd, Gen
<1>1. \A m \in Accepted' : m \notin SyncMsg
  <2>1. CASE issued' = issued BY <2>1 DEF Accepted, First
  <2>2. CASE \E m \in Msg : Publish(m)
    <3>1. PICK m \in Msg : m \notin SyncMsg /\ issued' = Append(issued, m) BY <2>2 DEF Publish
    <3>2. \A i \in 1 .. Len(issued') : (i \in 1 .. Len(issued) /\ issued'[i] = issued[i]) \/ issued'[i] = m
      <4>1. /\ Len(issued') = Len(issued) + 1 /\ Len(issued) \in Nat
            /\ \A i \in 1 .. Len(issued) : issued'[i] = issued[i]
            /\ issued'[Len(issued) + 1] = m
        BY <1>0, <3>1, AppendProperties, LenProperties
      <4> HIDE <3>1
      <4> QED BY <4>1
    <3> QED BY <3>1, <3>2 DEF Accepted, First
  <2>3. Main => issued' = issued BY MainLeaves DEF busVars
  <2> QED BY <2>1, <2>2, <2>3 DEF MNext, SendMessage, Dispatch, Subscribe, LookUp, Enqueue, Take,
             Transmit, Admit, Send, BackOff, vars, busVars
<1> DEFINE Alive == \A w \in Worker : w[1] = 1 /\ w[2] \in chan[1].up => snd[w].pc # "done"
<1>2. ASSUME ~EverCancelled' PROVE gen' = 1 /\ cur' = 1 /\ ctx'[1] = "live" /\ main'.pc = "run" /\ Alive'
  <2>1. ~EverCancelled
    <3> SUFFICES ASSUME NEW g \in Gen, ctx[g] = "cancelled" PROVE ctx'[g] = "cancelled"
      BY <1>2 DEF EverCancelled
    <3>1. CASE Restart
      <4>1. ctx[gen + 1] = "new" /\ gen + 1 \in Gen
        <5>1. gen + 1 \in Gen /\ gen + 1 > gen BY <1>0, <3>1, BootEffect
        <5> QED BY <1>0, <5>1 DEF Frame, Unborn
      <4>2. g # gen + 1 BY <4>1
      <4> QED BY <1>0, <3>1, <4>2, BootEffect
    <3>2. CASE BeginStop \/ RestartReturns BY <1>0, <3>2 DEF BeginStop, RestartReturns, Cancel
    <3>3. CASE CloseTextQueues \/ CloseMediaQueues \/ StopChannels \/ Leave \/ RestartFails
      BY <3>3 DEF CloseTextQueues, CloseMediaQueues, CloseQueues, StopChannels, Leave, RestartFails
    <3>4. CASE UNCHANGED lifeVars BY <3>4 DEF lifeVars
    <3> QED BY <3>1, <3>2, <3>3, <3>4
        DEF MNext, Main, Publish, SendMessage, Dispatch, Subscribe, LookUp, Enqueue, Take,
            Transmit, Admit, Send, BackOff, vars
  <2>2. gen = 1 /\ cur = 1 /\ ctx[1] = "live" /\ main.pc = "run" /\ Alive BY <2>1 DEF First
  <2>3. ~Main
    <3>1. CASE BeginStop
      <4>1. ctx'[1] = "cancelled" BY <1>0, <2>2, <3>1 DEF BeginStop, Cancel
      <4> QED BY <1>0, <1>2, <4>1 DEF EverCancelled
    <3> QED BY <2>2, <3>1 DEF Main, CloseTextQueues, CloseMediaQueues, StopChannels, Leave, RestartFails,
                              Restart, RestartReturns
  <2>4. UNCHANGED lifeVars
    BY <2>3 DEF MNext, Publish, SendMessage, Dispatch, Subscribe, LookUp, Enqueue, Take,
                Transmit, Admit, Send, BackOff, vars
  <2>5. \A s \in Sender : snd[s].pc # "done" /\ s[1] = 1 => snd'[s].pc # "done"
    <3>1. ASSUME NEW s \in Sender, Transmit(s) PROVE snd' = [snd EXCEPT ![s] = snd'[s]] /\ snd'[s].pc # "done"
      <4>1. Rest.pc = "idle" BY DEF Rest
      <4> QED BY <1>0, <3>1, <4>1, TransmitEffect DEF Sending
    <3>2. ASSUME NEW m \in Msg, SendMessage(m)
          PROVE  \/ snd' = snd
                 \/ snd' = [snd EXCEPT ![Caller(gen)] = [pc |-> "limit", msg |-> m, part |-> 1, try |-> 0]]
      BY <3>2 DEF SendMessage
    <3>3. ASSUME NEW w \in Worker, Take(w)
          PROVE  \/ snd' = [snd EXCEPT ![w] = [pc |-> "limit", msg |-> Head(queue[w]), part |-> 1, try |-> 0]]
                 \/ snd' = [snd EXCEPT ![w] = Gone] /\ w[1] # 1
      <4>1. w \notin closed /\ (ctx[w[1]] = "cancelled" => w[1] # 1)
        BY <2>1, <2>2, Senders DEF ManagerInv, Frame, Cancelled, EverCancelled
      <4> QED BY <3>3, <4>1 DEF Take
    <3>4. CASE snd' = snd BY <3>4
    <3>5. CASE \E s \in Sender : Transmit(s) BY <1>0, <3>1, <3>5
    <3>6. CASE \E m \in Msg : SendMessage(m) BY <1>0, <3>2, <3>6
    <3>7. CASE \E w \in Worker : Take(w) BY <1>0, <3>3, <3>7, Senders
    <3> QED BY <2>3, <3>4, <3>5, <3>6, <3>7
        DEF MNext, Publish, Dispatch, Subscribe, LookUp, Enqueue, vars
  <2>6. Alive' BY <2>2, <2>4, <2>5, Senders DEF lifeVars
  <2> QED BY <2>2, <2>4, <2>6 DEF lifeVars
<1> QED BY <1>1, <1>2 DEF First

\* The first manager starts alive with all its workers.
LEMMA FirstStart == MInit => First
<1> SUFFICES ASSUME MInit PROVE First OBVIOUS
<1>1. 1 \in Gen BY ManagerAssumption DEF Gen
<1>2. gen = 1 /\ cur = 1 /\ main.pc = "run" /\ ctx[1] = "live" BY <1>1 DEF MInit
<1>3. Accepted = {}
  <2>1. Len(issued) = 0 /\ 1 .. 0 = {} BY DEF MInit
  <2> QED BY <2>1 DEF Accepted
<1>4. PICK st \in Starts :
        /\ chan = [g \in Gen |-> IF g = 1 THEN st ELSE [conf |-> {}, up |-> {}]]
        /\ snd = [s \in Sender |->
                    IF s[1] = 1 /\ (s[2] \in st.up \/ s = Caller(1)) THEN Rest ELSE Gone]
  BY DEF MInit
<1>5. \A w \in Worker : w[1] = 1 /\ w[2] \in chan[1].up => snd[w].pc # "done"
  <2>1. chan[1] = st /\ Rest.pc = "idle" BY <1>1, <1>4 DEF Rest
  <2> QED BY <1>4, <2>1, Senders
<1> QED BY <1>2, <1>3, <1>5 DEF First

\* The places where a message is in flight.
Flies(m) == \/ \E k \in Kind : m \in onBus[k]
            \/ \E d \in Gen \X Kind : held[d] = m
            \/ \E w \in Worker : m \in queued[w] /\ snd[w].pc # "done"
            \/ \E s \in Sender : borne[s] = m

\* A message in flight is on the bus, with a dispatcher, in the queue of a
\* worker or with a sender.
LEMMA Flying == TypeOK => \A m \in Msg : InFlight(m) <=> Flies(m)
<1> SUFFICES ASSUME TypeOK, NEW m \in Msg PROVE InFlight(m) <=> Flies(m) OBVIOUS
<1>1. DOMAIN disp = Gen \X Kind BY DEF TypeOK
<1>2. (\E k \in Kind : \E i \in 1 .. Len(bus[k]) : bus[k][i] = m) <=> \E k \in Kind : m \in onBus[k]
  BY DEF onBus, In
<1>3. (\E d \in DOMAIN disp : disp[d].msg = m) <=> \E d \in Gen \X Kind : held[d] = m
  BY <1>1 DEF held
<1>4. ASSUME NEW w \in Worker PROVE (\E i \in 1 .. Len(queue[w]) : queue[w][i] = m) <=> m \in queued[w]
  BY DEF queued, In
<1>5. (\E s \in Sender : snd[s].msg = m) <=> \E s \in Sender : borne[s] = m BY DEF borne
<1> QED BY <1>2, <1>3, <1>4, <1>5 DEF InFlight, Flies

\* The same after a step.
LEMMA FlyingNext == TypeOK' => \A m \in Msg : InFlight(m)' <=> Flies(m)'
<1> SUFFICES ASSUME TypeOK', NEW m \in Msg PROVE InFlight(m)' <=> Flies(m)' OBVIOUS
<1>1. DOMAIN disp' = Gen \X Kind BY DEF TypeOK
<1>2. (\E k \in Kind : \E i \in 1 .. Len(bus'[k]) : bus'[k][i] = m) <=> \E k \in Kind : m \in onBus'[k]
  BY DEF onBus, In
<1>3. (\E d \in DOMAIN disp' : disp'[d].msg = m) <=> \E d \in Gen \X Kind : held'[d] = m
  BY <1>1 DEF held
<1>4. ASSUME NEW w \in Worker PROVE (\E i \in 1 .. Len(queue'[w]) : queue'[w][i] = m) <=> m \in queued'[w]
  BY DEF queued, In
<1>5. (\E s \in Sender : snd'[s].msg = m) <=> \E s \in Sender : borne'[s] = m BY DEF borne
<1> QED BY <1>2, <1>3, <1>4, <1>5 DEF InFlight, Flies

\* A message leaves the flight for a cause only.
LEMMA LossStep ==
  ASSUME ManagerInv, First, MNext, ~EverCancelled, NEW m \in Msg, m \notin SyncMsg,
         Flies(m), ~Flies(m)'
  PROVE  \/ To[m] \notin chan[gen].up
         \/ \E w \in Worker : /\ snd[w].msg = m
                              /\ \/ snd[w].pc = "send" \/ ~Supported(m)
                                 \/ last'[<<w[2], w[3]>>] = <<m, snd[w].part, TRUE>>
<1>0. /\ snd \in [Sender -> Snd] /\ disp \in [Gen \X Kind -> Disp] /\ bus \in [Kind -> Seq(Msg)]
      /\ queue \in [Worker -> Seq(Msg)] /\ OnRoute /\ OneWay /\ Frame /\ m # 0
      /\ last \in [Channel \X Kind -> (Msg \cup {0}) \X Nat \X BOOLEAN]
  BY ManagerAssumption DEF ManagerInv, Frame, TypeOK, Snd, Disp
<1>1. /\ gen = 1 /\ ctx[1] = "live" /\ main.pc = "run" /\ \A g \in Gen : ctx[g] # "cancelled"
      /\ \A w \in Worker : w[1] = 1 /\ w[2] \in chan[1].up => snd[w].pc # "done"
  BY DEF First, EverCancelled
<1>2. closed = {} BY <1>0, <1>1, Senders DEF Frame, TypeOK, Cancelled
<1>3. CASE UNCHANGED <<bus, queue, disp, snd>>
  BY <1>3 DEF Flies, onBus, held, queued, borne, In
<1>4. ASSUME NEW p \in Msg, Publish(p) PROVE FALSE
  <2>1. UNCHANGED <<held, queued, borne, snd>> BY <1>4 DEF Publish, held, queued, borne, In
  <2>2. \A k \in Kind : onBus[k] \subseteq onBus'[k]
    <3>1. bus' = [bus EXCEPT ![KindOf[p]] = Append(bus[KindOf[p]], p)] BY <1>4 DEF Publish
    <3>2. KindOf[p] \in Kind BY ManagerAssumption
    <3>3. \A k \in Kind : bus'[k] = bus[k] \/ bus'[k] = Append(bus[k], p) BY <1>0, <3>1, <3>2
    <3>4. \A k \in Kind : onBus[k] = In(bus[k]) /\ onBus'[k] = In(bus'[k]) BY DEF onBus, In
    <3>5. \A k \in Kind : In(Append(bus[k], p)) = In(bus[k]) \cup {p} BY <1>0, InAppend
    <3>6. \A k \in Kind : bus'[k] = bus[k] => In(bus'[k]) = In(bus[k]) OBVIOUS
    <3>7. \A k \in Kind : bus'[k] = Append(bus[k], p) => In(bus'[k]) = In(Append(bus[k], p)) OBVIOUS
    <3> QED BY <3>3, <3>4, <3>5, <3>6, <3>7
  <2> QED BY <2>1, <2>2 DEF Flies
<1>5. ASSUME NEW p \in Msg, SendMessage(p) PROVE FALSE
  <2>1. UNCHANGED <<bus, queue, disp, gen>> BY <1>5 DEF SendMessage, lifeVars
  <2>2. \/ snd' = snd
        \/ snd' = [snd EXCEPT ![Caller(gen)] = [pc |-> "limit", msg |-> p, part |-> 1, try |-> 0]]
    BY <1>5 DEF SendMessage
  <2>3. UNCHANGED <<onBus, held, queued>> BY <2>1 DEF onBus, held, queued, In
  <2>a. gen \in Gen /\ Caller(gen) \in Sender BY <1>0, Senders DEF Frame, TypeOK
  <2>b. PICK r : r.pc = "limit" /\ (snd' = snd \/ snd' = [snd EXCEPT ![Caller(gen)] = r])
    <3>1. [pc |-> "limit", msg |-> p, part |-> 1, try |-> 0].pc = "limit" OBVIOUS
    <3> QED BY <2>2, <3>1
  <2>4. \A s \in Sender : snd[s].pc # "done" => snd'[s].pc # "done" BY <1>0, <2>a, <2>b
  <2>5. \A w \in Worker : borne'[w] = borne[w] BY <1>0, <2>a, <2>b, Senders DEF borne
  <2>6. \A s \in Sender : borne[s] = m => s \in Worker
    BY <1>0 DEF OnRoute, Sender
  <2> QED BY <2>3, <2>4, <2>5, <2>6, Senders DEF Flies
<1>6. ASSUME NEW g \in Gen, NEW h \in Kind, Dispatch(g, h) PROVE To[m] \notin chan[gen].up
  <2>1. UNCHANGED <<snd, gen>> /\ UNCHANGED borne BY <1>6 DEF Dispatch, Subscribe, LookUp, Enqueue, borne, lifeVars
  <2>2. g = gen /\ disp[<<g, h>>].pc # "done"
    <3>1. disp[<<g, h>>].pc # "done" BY <1>6 DEF Dispatch, Subscribe, LookUp, Enqueue
    <3>2. \A x \in Gen : x # 1 => x > 1 BY DEF Gen
    <3> QED BY <1>0, <1>1, <3>1, <3>2 DEF Frame, Unborn
  <2>3. CASE Subscribe(g, h)
    <3>1. /\ bus[h] # <<>> /\ bus' = [bus EXCEPT ![h] = Tail(@)]
          /\ disp' = [disp EXCEPT ![<<g, h>>] = [pc |-> "look", msg |-> Head(bus[h])]]
          /\ disp[<<g, h>>].pc = "sub" /\ UNCHANGED queue
      BY <1>1, <2>3 DEF Subscribe
    <3>2. UNCHANGED queued BY <3>1 DEF queued, In
    <3>3. held[<<g, h>>] = 0 BY <1>0, <3>1 DEF Frame, HandsFull, held
    <3>4. held'[<<g, h>>] = Head(bus[h]) /\ \A d \in Gen \X Kind : d # <<g, h>> => held'[d] = held[d]
      BY <1>0, <3>1 DEF held
    <3>5. \A k \in Kind : onBus[k] \subseteq onBus'[k] \cup {Head(bus[h])}
      <4>1. \A k \in Kind : onBus[k] = In(bus[k]) /\ onBus'[k] = In(bus'[k]) BY DEF onBus, In
      <4>2. bus'[h] = Tail(bus[h]) /\ \A k \in Kind : k # h => bus'[k] = bus[k] BY <1>0, <3>1
      <4>3. NoDup(bus[h]) /\ bus[h] \in Seq(Msg) BY <1>0 DEF OneWay
      <4>4. In(Tail(bus[h])) = In(bus[h]) \ {Head(bus[h])} BY <3>1, <4>3, InTail
      <4> QED BY <4>1, <4>2, <4>4
    <3> QED BY <1>0, <2>1, <3>2, <3>3, <3>4, <3>5 DEF Flies
  <2>4. CASE LookUp(g, h)
    <3>1. UNCHANGED <<bus, queue>> /\ disp[<<g, h>>].pc = "look" BY <2>4 DEF LookUp, busVars
    <3>2. UNCHANGED <<onBus, queued>> BY <3>1 DEF onBus, queued, In
    <3>3. \A d \in Gen \X Kind : d # <<g, h>> => held'[d] = held[d] BY <1>0, <2>4 DEF LookUp, held
    <3>4. CASE To[disp[<<g, h>>].msg] \in chan[g].up
      <4>1. disp' = [disp EXCEPT ![<<g, h>>] = [disp[<<g, h>>] EXCEPT !.pc = "put"]]
        BY <2>4, <3>4 DEF LookUp
      <4>2. [disp[<<g, h>>] EXCEPT !.pc = "put"].msg = disp[<<g, h>>].msg BY <1>0 DEF Disp
      <4>3. held'[<<g, h>>] = held[<<g, h>>] BY <1>0, <4>1, <4>2 DEF held
      <4> QED BY <2>1, <3>2, <3>3, <4>3 DEF Flies
    <3>5. CASE To[disp[<<g, h>>].msg] \notin chan[g].up
      <4>1. held[<<g, h>>] = m => To[m] \notin chan[g].up BY <3>5 DEF held
      <4> QED BY <2>1, <2>2, <3>2, <3>3, <4>1 DEF Flies
    <3> QED BY <3>4, <3>5
  <2>5. CASE Enqueue(g, h)
    <3> DEFINE p == disp[<<g, h>>].msg  t == <<g, To[disp[<<g, h>>].msg], h>>
    <3>1. disp[<<g, h>>].pc = "put" /\ Put(g, h) BY <1>1, <1>2, <2>5 DEF Enqueue, GiveUp
    <3>2. p \in Msg /\ To[p] \in chan[g].up /\ To[p] \in Channel
      BY <1>0, <3>1 DEF Frame, HandsFull, TypeOK
    <3>3. t \in Worker /\ t[1] = g /\ t[2] = To[p] BY <3>2 DEF Worker
    <3>4. /\ queue' = [queue EXCEPT ![t] = Append(queue[t], p)] /\ UNCHANGED bus
          /\ disp' = [disp EXCEPT ![<<g, h>>] = Started]
      BY <3>1 DEF Put, Target
    <3>5. held[<<g, h>>] = p BY DEF held
    <3> HIDE DEF p, t
    <3>6. UNCHANGED onBus BY <3>4 DEF onBus, In
    <3>7. \A d \in Gen \X Kind : d # <<g, h>> => held'[d] = held[d] BY <1>0, <3>4 DEF held
    <3>8. p \in queued'[t] /\ \A w \in Worker : queued[w] \subseteq queued'[w]
      <4>1. \A w \in Worker : queued[w] = In(queue[w]) /\ queued'[w] = In(queue'[w]) BY DEF queued, In
      <4>2. queue'[t] = Append(queue[t], p) /\ \A w \in Worker : w # t => queue'[w] = queue[w]
        BY <1>0, <3>3, <3>4
      <4>3. In(Append(queue[t], p)) = In(queue[t]) \cup {p} BY <1>0, <3>2, <3>3, InAppend
      <4>4. In(queue'[t]) = In(queue[t]) \cup {p} BY <4>2, <4>3
      <4>5. \A w \in Worker : w # t => In(queue'[w]) = In(queue[w]) BY <4>2
      <4> QED BY <3>3, <4>1, <4>4, <4>5
    <3>9. snd[t].pc # "done" BY <1>1, <2>2, <3>2, <3>3
    <3> QED BY <2>1, <3>3, <3>5, <3>6, <3>7, <3>8, <3>9 DEF Flies
  <2> QED BY <1>6, <2>3, <2>4, <2>5 DEF Dispatch
<1>7. ASSUME NEW w \in Worker, Take(w) PROVE FALSE
  <2>1. w[1] = gen
    <3>1. snd[w].pc # "done" BY <1>7 DEF Take
    <3> QED BY <1>0, <3>1 DEF Frame, WorkersEnd
  <2>2. /\ queue[w] # <<>> /\ queue' = [queue EXCEPT ![w] = Tail(@)]
        /\ snd' = [snd EXCEPT ![w] = [pc |-> "limit", msg |-> Head(queue[w]), part |-> 1, try |-> 0]]
        /\ snd[w].pc = "idle" /\ UNCHANGED <<bus, disp>>
    BY <1>1, <1>2, <1>7, <2>1 DEF Take, busVars
  <2>3. UNCHANGED <<onBus, held>> BY <2>2 DEF onBus, held, In
  <2>4. w \in Sender BY Senders
  <2>5. borne[w] = 0 BY <1>0, <2>2, <2>4 DEF Frame, HandsFull, Sending, borne
  <2>6. /\ borne'[w] = Head(queue[w])
        /\ \A s \in Sender : s # w => borne'[s] = borne[s] /\ snd'[s] = snd[s]
    BY <1>0, <2>2, <2>4 DEF borne
  <2>7. \A v \in Worker : v # w => queued'[v] = queued[v]
    BY <1>0, <2>2 DEF queued, In
  <2>8. queued[w] \subseteq {Head(queue[w])} \cup queued'[w]
    <3>1. NoDup(queue[w]) /\ queue[w] \in Seq(Msg) BY <1>0 DEF OneWay
    <3>2. In(Tail(queue[w])) = In(queue[w]) \ {Head(queue[w])} BY <2>2, <3>1, InTail
    <3>3. queue'[w] = Tail(queue[w]) BY <1>0, <2>2
    <3>4. queued[w] = In(queue[w]) /\ queued'[w] = In(queue'[w]) BY DEF queued, In
    <3> QED BY <3>2, <3>3, <3>4
  <2>9. snd'[w].pc # "done" BY <1>0, <2>2, <2>4
  <2> QED BY <1>0, <2>3, <2>4, <2>5, <2>6, <2>7, <2>8, <2>9, Senders DEF Flies
<1>8. ASSUME NEW s \in Sender, Transmit(s)
      PROVE  /\ s \in Worker /\ snd[s].msg = m
             /\ \/ snd[s].pc = "send" \/ ~Supported(m)
                \/ last'[<<s[2], s[3]>>] = <<m, snd[s].part, TRUE>>
  <2>1. /\ snd[s].pc \in Sending /\ snd' = [snd EXCEPT ![s] = snd'[s]] /\ UNCHANGED <<bus, queue, disp>>
        /\ snd'[s] = Rest \/ (snd'[s].msg = snd[s].msg /\ snd'[s].pc \in Sending)
    BY <1>0, <1>8, TransmitEffect DEF busVars
  <2>2. UNCHANGED <<onBus, held, queued>> BY <2>1 DEF onBus, held, queued, In
  <2>3. \A u \in Sender : u # s => borne'[u] = borne[u] /\ snd'[u] = snd[u] BY <1>0, <2>1 DEF borne
  <2>4. snd'[s].pc # "done" BY <2>1 DEF Rest, Sending
  <2>5. borne[s] = m /\ borne'[s] # m BY <2>2, <2>3, <2>4, Senders DEF Flies
  <2>6. s \in Worker /\ snd[s].msg = m /\ snd'[s] = Rest
    <3>1. ASSUME NEW g \in Gen, s = Caller(g) PROVE FALSE BY <1>0, <2>5, <3>1 DEF OnRoute
    <3>2. s \in Worker BY <3>1 DEF Sender
    <3>3. snd[s].msg = m /\ snd'[s].msg # m BY <2>5 DEF borne
    <3> QED BY <2>1, <3>2, <3>3
  <2>7. s[1] = gen /\ Live(s)
    <3>1. snd[s].pc # "done" BY <2>1 DEF Sending
    <3> QED BY <1>0, <1>1, <2>6, <3>1 DEF Frame, WorkersEnd, Live
  <2>8. <<To[m], KindOf[m]>> = <<s[2], s[3]>> BY <1>0, <2>5, <2>6 DEF OnRoute
  <2>9. CASE Admit(s)
    <3>1. snd' # [snd EXCEPT ![s].pc = "send"]
      <4>1. Rest.pc = "idle" BY DEF Rest
      <4> QED BY <1>0, <2>6, <4>1 DEF Snd
    <3>2. ~Supported(m) \/ Arrives(snd[s], TRUE) BY <2>6, <2>7, <2>9, <3>1 DEF Admit, preSend
    <3>3. Arrives(snd[s], TRUE) => last' = [last EXCEPT ![<<s[2], s[3]>>] = <<m, snd[s].part, TRUE>>]
      BY <2>6, <2>8 DEF Arrives
    <3>4. ~Supported(m) \/ last'[<<s[2], s[3]>>] = <<m, snd[s].part, TRUE>>
      BY <1>0, <2>6, <3>2, <3>3, Senders
    <3> QED BY <2>6, <3>4
  <2>10. CASE Send(s) BY <2>6, <2>10 DEF Send
  <2>11. CASE BackOff(s)
    <3>1. snd' = [snd EXCEPT ![s].pc = "send", ![s].try = @ + 1] BY <2>7, <2>11 DEF BackOff
    <3>2. snd'[s].pc = "send" BY <1>0, <3>1 DEF Snd
    <3> QED BY <2>6, <3>2 DEF Rest
  <2> QED BY <1>8, <2>9, <2>10, <2>11 DEF Transmit
<1>9. Main => UNCHANGED <<bus, queue, disp, snd>>
  BY <1>1, MainLeaves DEF Restart, busVars
<1> QED BY <1>3, <1>4, <1>5, <1>6, <1>7, <1>8, <1>9 DEF MNext

\* The first manager is there until something is cancelled.
THEOREM ManagerFirst == MSpec => []First
<1>1. MInit => First BY FirstStart
<1>2. ManagerInv /\ First /\ [MNext]_vars => First' BY FirstStep
<1> QED BY <1>1, <1>2, ManagerInvariant, PTL DEF MSpec

\* LossHasCause: an accepted message is not lost while no manager was ever
\* stopped, unless its channel has no worker, its worker called the channel for
\* it, or it is media for a channel that takes none.
THEOREM ManagerLosses == MSpec => LossHasCause
<1> DEFINE Caused == \A m \in Accepted :
      InFlight(m) /\ ~InFlight(m)' =>
        \/ EverCancelled \/ To[m] \notin chan[gen].up
        \/ \E w \in Worker : /\ snd[w].msg = m
                             /\ \/ snd[w].pc = "send" \/ ~Supported(m)
                                \/ last'[<<w[2], w[3]>>] = <<m, snd[w].part, TRUE>>
<1>1. ManagerInv /\ First /\ [MNext]_vars => [Caused]_vars
  <2> SUFFICES ASSUME ManagerInv, First, MNext, NEW m \in Accepted, InFlight(m), ~InFlight(m)', ~EverCancelled
               PROVE  \/ To[m] \notin chan[gen].up
                      \/ \E w \in Worker : /\ snd[w].msg = m
                                           /\ \/ snd[w].pc = "send" \/ ~Supported(m)
                                              \/ last'[<<w[2], w[3]>>] = <<m, snd[w].part, TRUE>>
    OBVIOUS
  <2>1. TypeOK /\ TypeOK' BY ManagerStep DEF ManagerInv, Frame
  <2>2. m \in Msg
    <3>1. issued \in Seq(Msg) BY <2>1 DEF TypeOK
    <3> QED BY <3>1, ElementOfSeq DEF Accepted
  <2>3. m \notin SyncMsg BY DEF First
  <2>4. Flies(m) /\ ~Flies(m)' BY <2>1, <2>2, Flying, FlyingNext
  <2> QED BY <2>2, <2>3, <2>4, LossStep
<1> QED BY <1>1, ManagerInvariant, ManagerFirst, PTL DEF MSpec, LossHasCause
=============================================================================
