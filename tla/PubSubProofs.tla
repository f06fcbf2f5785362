----------------------------- MODULE PubSubProofs -----------------------------
(***************************************************************************)
(* Safety of publish/subscribe: jobs first, whatever the messages, then    *)
(* the order in which messages are handed over.                            *)
(***************************************************************************)
EXTENDS PubSub, FiniteSetTheorems, SequenceTheorems, TLAPS

-----------------------------------------------------------------------------
(* The jobs of one subscription that hold its function are one.             *)
Alone ==
    \A s \in Sub, n, m \in Slot : job[s][n] \in Holding /\ job[s][m] \in Holding => n = m

(* A subscription without a function has no job.                            *)
Idle ==
    \A s \in Sub : state[s] \in {"none", "lazy"} =>
        ~running[s] /\ \A n \in Slot : job[s][n] = "none"

JobInv == PubSubTypeOK /\ OneJob /\ Alone /\ Idle

(* A message in hand is that of the job which took it.                      *)
HandHeld == \A s \in Sub : hand[s] # <<>> => \E n \in Slot : job[s][n] = "taken"

(* Nothing was sent to a subscription that is not made yet.                 *)
Fresh ==
    \A s \in Sub : state[s] = "none" => sent[s] = <<>> /\ got[s] = <<>> /\ hand[s] = <<>>

PubSubInv == JobInv /\ InOrder /\ HandHeld /\ Fresh

-----------------------------------------------------------------------------
(* A subscription whose flag is not set has room for another job.           *)
LEMMA RoomForJob ==
    ASSUME JobInv, NEW s \in Sub, ~running[s]
    PROVE  NewJob(s) \in Slot /\ job[s][NewJob(s)] = "none"
<1>1. \A n \in Slot : job[s][n] \in {"none", "leaving"}
  BY DEF JobInv, OneJob, Owner
<1>2. \E n \in Slot : job[s][n] = "none"
  <2>1. PICK n \in Slot : TRUE
    BY PubSubAssumption
  <2>2. PICK m \in Slot : m # n
    BY PubSubAssumption
  <2> QED
    BY <1>1, <2>2 DEF JobInv, OneJob
<1> QED
  BY <1>2 DEF NewJob

(* Schedule queues one job for each of the subscriptions, none of which has *)
(* its flag set, and leaves every other job where it is.                    *)
LEMMA ScheduleEffect ==
    ASSUME JobInv, NEW ss \in SUBSET Sub, \A s \in ss : ~running[s], Schedule(ss)
    PROVE  /\ running' \in [Sub -> BOOLEAN]
           /\ \A u \in Sub : running'[u] <=> (running[u] \/ u \in ss)
           /\ job' \in [Sub -> [Slot -> Place]]
           /\ \A u \in Sub, m \in Slot :
                job'[u][m] = IF u \in ss /\ m = NewJob(u) THEN "queued" ELSE job[u][m]
<1> USE DEF JobInv, PubSubTypeOK, Schedule
<1>1. \A u \in ss : NewJob(u) \in Slot
  BY RoomForJob
<1>2. \A u \in Sub : running[u] \in BOOLEAN
  OBVIOUS
<1>3. running' \in [Sub -> BOOLEAN]
  BY <1>2
<1>4. \A u \in Sub : running'[u] <=> (running[u] \/ u \in ss)
  OBVIOUS
<1>5. \A u \in Sub : [job[u] EXCEPT ![NewJob(u)] = "queued"] \in [Slot -> Place]
  BY DEF Place
<1>6. job' \in [Sub -> [Slot -> Place]]
  BY <1>5
<1>7. \A u \in Sub, m \in Slot :
        job'[u][m] = IF u \in ss /\ m = NewJob(u) THEN "queued" ELSE job[u][m]
  BY <1>1
<1> QED
  BY <1>3, <1>4, <1>6, <1>7

(* A step of a job moves that job and no other.                             *)
LEMMA MoveEffect ==
    ASSUME JobInv, NEW s \in Sub, NEW n \in Slot, NEW from, NEW to \in Place,
           Move(s, n, from, to)
    PROVE  /\ job' \in [Sub -> [Slot -> Place]]
           /\ \A u \in Sub, m \in Slot :
                job'[u][m] = IF u = s /\ m = n THEN to ELSE job[u][m]
BY DEF JobInv, PubSubTypeOK, Move

-----------------------------------------------------------------------------
(* What a notification or an activation does to the jobs of ss.             *)
LEMMA ScheduleKeepsJobs ==
    ASSUME JobInv, NEW ss \in SUBSET Sub, \A s \in ss : ~running[s], Schedule(ss)
    PROVE  OneJob' /\ Alone'
<1> DEFINE new(u, m) == u \in ss /\ m = NewJob(u)
<1>1. \A u \in Sub : running'[u] <=> (running[u] \/ u \in ss)
  BY ScheduleEffect
<1>2. \A u \in Sub, m \in Slot : job'[u][m] = IF new(u, m) THEN "queued" ELSE job[u][m]
  BY ScheduleEffect
<1>3. \A u \in ss : NewJob(u) \in Slot /\ job[u][NewJob(u)] = "none"
  BY RoomForJob
<1>4. \A u \in Sub, m \in Slot : Owner(u, m)' <=> (Owner(u, m) \/ new(u, m))
  BY <1>2 DEF Owner
<1>5. \A u \in Sub : running[u] <=> \E n \in Slot : Owner(u, n)
  BY DEF JobInv, OneJob
<1>6. \A u \in Sub : running'[u] <=> \E n \in Slot : Owner(u, n)'
  BY <1>1, <1>3, <1>4, <1>5
<1>7. \A u \in Sub, n, m \in Slot : Owner(u, n)' /\ Owner(u, m)' => n = m
  BY <1>4, <1>5 DEF JobInv, OneJob
<1>8. \A u \in Sub, m \in Slot : job'[u][m] # "queued" => job'[u][m] = job[u][m]
  BY <1>2
<1>9. OneJob'
  BY <1>6, <1>7, <1>8 DEF JobInv, OneJob
<1>10. Alone'
  BY <1>8 DEF JobInv, Alone, Holding
<1> QED
  BY <1>9, <1>10

(* A step that moves job n of s from one place to another where it keeps or *)
(* clears the flag keeps the jobs apart, if it enters the function only     *)
(* when nobody is in it, and starts to leave only from inside.              *)
LEMMA MoveKeepsJobs ==
    ASSUME JobInv, NEW s \in Sub, NEW n \in Slot, NEW from \in Place, NEW to \in Place,
           Move(s, n, from, to), from # "none",
           from = "leaving" => to = "none",
           running' = IF from # "leaving" /\ to \in {"none", "leaving"}
                      THEN [running EXCEPT ![s] = FALSE] ELSE running,
           to \in Holding => from \in Holding \/ \A m \in Slot : job[s][m] \notin Holding
    PROVE  OneJob' /\ Alone'
<1> USE DEF JobInv
<1>1. \A u \in Sub, m \in Slot : job'[u][m] = IF u = s /\ m = n THEN to ELSE job[u][m]
  BY MoveEffect
<1>2. job[s][n] = from
  BY DEF Move
<1>3. \A u \in Sub \ {s} : running'[u] = running[u]
  BY DEF PubSubTypeOK
<1>4. ASSUME NEW u \in Sub \ {s}
      PROVE  /\ running'[u] <=> \E m \in Slot : Owner(u, m)'
             /\ \A m, k \in Slot : Owner(u, m)' /\ Owner(u, k)' => m = k
             /\ \A m, k \in Slot : job'[u][m] = "leaving" /\ job'[u][k] = "leaving" => m = k
  BY <1>1, <1>3 DEF OneJob, Owner
<1>5. Alone'
  BY <1>1, <1>2 DEF Alone
<1>6. \A m, k \in Slot : job'[s][m] = "leaving" /\ job'[s][k] = "leaving" => m = k
  BY <1>5 DEF Alone, Holding
<1>7. \A m, k \in Slot : Owner(s, m)' /\ Owner(s, k)' => m = k
  BY <1>1, <1>2 DEF OneJob, Owner
<1>8. running'[s] <=> \E m \in Slot : Owner(s, m)'
  <2>1. CASE from # "leaving" /\ to \in {"none", "leaving"}
    <3>1. ~running'[s]
      BY <2>1 DEF PubSubTypeOK
    <3>2. \A m \in Slot : ~Owner(s, m)'
      BY <1>1, <1>2, <2>1 DEF OneJob, Owner
    <3> QED
      BY <3>1, <3>2
  <2>2. CASE from # "leaving" /\ to \notin {"none", "leaving"}
    <3>1. Owner(s, n) /\ Owner(s, n)'
      BY <1>1, <1>2, <2>2 DEF Owner
    <3> QED
      BY <3>1, <2>2 DEF OneJob
  <2>3. CASE from = "leaving"
    BY <1>1, <1>2, <2>3 DEF OneJob, Owner
  <2> QED
    BY <2>1, <2>2, <2>3
<1> QED
  BY <1>4, <1>5, <1>6, <1>7, <1>8 DEF OneJob

-----------------------------------------------------------------------------
LEMMA JobInvInit == Init => JobInv
<1> SUFFICES ASSUME Init PROVE JobInv
  OBVIOUS
<1>1. PubSubTypeOK
  BY DEF Init, PubSubTypeOK, Place
<1>2. OneJob
  BY DEF Init, OneJob, Owner
<1>3. Alone /\ Idle
  BY DEF Init, Alone, Idle, Holding
<1> QED
  BY <1>1, <1>2, <1>3 DEF JobInv

(* A message queued for subscriptions that are registered.                  *)
LEMMA QueueKeepsJobs ==
    ASSUME JobInv, NEW ss \in SUBSET Sub, \A s \in ss : Registered(s), Queue(ss)
    PROVE  JobInv'
<1> DEFINE wake == {s \in ss : state[s] = "active" /\ Wakes(s)}
<1> USE DEF JobInv
<1>1. Schedule(wake) /\ wake \in SUBSET Sub /\ \A s \in wake : ~running[s]
  BY DEF Queue, Wakes
<1>2. OneJob' /\ Alone'
  BY <1>1, ScheduleKeepsJobs
<1>3. /\ running' \in [Sub -> BOOLEAN]
      /\ \A u \in Sub : running'[u] <=> (running[u] \/ u \in wake)
      /\ job' \in [Sub -> [Slot -> Place]]
      /\ \A u \in Sub, m \in Slot :
            job'[u][m] = IF u \in wake /\ m = NewJob(u) THEN "queued" ELSE job[u][m]
  BY <1>1, ScheduleEffect
<1>4. msg' \in Nat
  BY DEF Queue, PubSubTypeOK
<1>5. backlog' \in [Sub -> Seq(Nat)] /\ sent' \in [Sub -> Seq(Nat)]
  <2>1. \A s \in Sub : Append(backlog[s], msg') \in Seq(Nat) /\ Append(sent[s], msg') \in Seq(Nat)
    BY <1>4, AppendProperties DEF PubSubTypeOK
  <2> QED
    BY <2>1 DEF Queue, PubSubTypeOK
<1>6. \A s \in Sub : ~Registered(s)' => backlog'[s] = <<>>
  BY DEF Queue, PubSubTypeOK, Registered
<1>7. PubSubTypeOK'
  BY <1>3, <1>4, <1>5, <1>6 DEF Queue, PubSubTypeOK
<1>8. Idle'
  <2> SUFFICES ASSUME NEW u \in Sub, state[u] \in {"none", "lazy"}
               PROVE  ~running'[u] /\ \A m \in Slot : job'[u][m] = "none"
    BY DEF Queue, Idle
  <2>1. u \notin wake
    OBVIOUS
  <2>2. ~running[u] /\ \A m \in Slot : job[u][m] = "none"
    BY DEF Idle
  <2> QED
    BY <1>3, <2>1, <2>2
<1> QED
  BY <1>2, <1>7, <1>8

(* Each step preserves JobInv.                                              *)
LEMMA JobInvStep == JobInv /\ [Next]_vars => JobInv'
<1> SUFFICES ASSUME JobInv, [Next]_vars PROVE JobInv'
  OBVIOUS
<1> USE DEF JobInv
<1>1. ASSUME NEW s \in Sub, NEW how \in {"lazy", "active"}, Subscribe(s, how) PROVE JobInv'
  <2>1. PubSubTypeOK'
    BY <1>1 DEF Subscribe, PubSubTypeOK, Registered
  <2>2. OneJob' /\ Alone'
    BY <1>1 DEF Subscribe, OneJob, Alone, Owner
  <2>3. Idle'
    BY <1>1 DEF Subscribe, Idle, PubSubTypeOK
  <2> QED
    BY <2>1, <2>2, <2>3
<1>2. ASSUME NEW s \in Sub, Activate(s) PROVE JobInv'
  <2> DEFINE wake == {u \in {s} : Wakes(u)}
  <2>1. Schedule(wake) /\ wake \in SUBSET Sub /\ \A u \in wake : ~running[u]
    BY <1>2 DEF Activate, Wakes
  <2>2. OneJob' /\ Alone'
    BY <2>1, ScheduleKeepsJobs
  <2>3. /\ running' \in [Sub -> BOOLEAN]
        /\ \A u \in Sub : running'[u] <=> (running[u] \/ u \in wake)
        /\ job' \in [Sub -> [Slot -> Place]]
        /\ \A u \in Sub, m \in Slot :
              job'[u][m] = IF u \in wake /\ m = NewJob(u) THEN "queued" ELSE job[u][m]
    BY <2>1, ScheduleEffect
  <2>4. PubSubTypeOK'
    BY <1>2, <2>3 DEF Activate, PubSubTypeOK, Registered
  <2>5. Idle'
    BY <1>2, <2>3 DEF Activate, Idle, PubSubTypeOK
  <2> QED
    BY <2>2, <2>4, <2>5
<1>3. ASSUME NEW s \in Sub, Cancel(s) PROVE JobInv'
  <2>1. PubSubTypeOK'
    BY <1>3, EmptySeq DEF Cancel, PubSubTypeOK, Registered
  <2>2. OneJob' /\ Alone'
    BY <1>3 DEF Cancel, OneJob, Alone, Owner
  <2>3. Idle'
    BY <1>3 DEF Cancel, Idle, PubSubTypeOK
  <2> QED
    BY <2>1, <2>2, <2>3
<1>4. ASSUME NEW c, Notify(c) PROVE JobInv'
  BY <1>4, QueueKeepsJobs DEF Notify, OfChannel
<1>5. ASSUME NEW s \in Sub, NotifyOthers(s) PROVE JobInv'
  BY <1>5, QueueKeepsJobs DEF NotifyOthers, OfChannel
<1>6. ASSUME NEW s \in Sub, NEW n \in Slot, JobStep(s, n) PROVE JobInv'
  <2>1. PICK from \in Place, to \in Place :
          /\ Move(s, n, from, to)
          /\ from # "none"
          /\ from = "leaving" => to = "none"
          /\ running' = IF from # "leaving" /\ to \in {"none", "leaving"}
                        THEN [running EXCEPT ![s] = FALSE] ELSE running
          /\ to \in Holding => from \in Holding \/ \A m \in Slot : job[s][m] \notin Holding
    <3> USE DEF Place, OnThread, Holding
    <3>1. CASE Start(s, n)
      BY <3>1 DEF Start
    <3>2. CASE Lock(s, n)
      BY <3>2 DEF Lock
    <3>3. CASE Look(s, n)
      BY <3>3 DEF Look
    <3>4. CASE Call(s, n)
      BY <3>4 DEF Call
    <3>5. CASE Return(s, n) \/ Panic(s, n)
      BY <3>5 DEF Return, Panic
    <3>6. CASE Clear(s, n)
      BY <3>6 DEF Clear
    <3>7. CASE Leave(s, n)
      BY <3>7 DEF Leave
    <3> QED
      BY <1>6, <3>1, <3>2, <3>3, <3>4, <3>5, <3>6, <3>7 DEF JobStep
  <2>2. OneJob' /\ Alone'
    BY <2>1, MoveKeepsJobs
  <2>3. /\ job' \in [Sub -> [Slot -> Place]]
        /\ \A u \in Sub, m \in Slot :
              job'[u][m] = IF u = s /\ m = n THEN to ELSE job[u][m]
    BY <2>1, MoveEffect
  <2>4. running' \in [Sub -> BOOLEAN] /\ poisoned' \in [Sub -> BOOLEAN]
    BY <1>6 DEF JobStep, Start, Lock, Look, Call, Return, Panic, Clear, Leave, PubSubTypeOK
  <2>5. /\ backlog' \in [Sub -> Seq(Nat)] /\ hand' \in [Sub -> Seq(Nat)]
        /\ \A u \in Sub : ~Registered(u)' => backlog'[u] = <<>>
        /\ got' \in [Sub -> Seq(Nat)]
        /\ UNCHANGED <<state, msg, sent>>
    <3>1. CASE Look(s, n)
      <4>1. CASE backlog[s] # <<>>
        <5>1. Tail(backlog[s]) \in Seq(Nat) /\ <<Head(backlog[s])>> \in Seq(Nat)
          BY <4>1, HeadTailProperties DEF PubSubTypeOK
        <5> QED
          BY <3>1, <4>1, <5>1 DEF Look, PubSubTypeOK, Registered
      <4>2. CASE backlog[s] = <<>>
        BY <3>1, <4>2 DEF Look, PubSubTypeOK, Registered
      <4> QED
        BY <4>1, <4>2
    <3>2. CASE Call(s, n)
      <4>1. got[s] \o hand[s] \in Seq(Nat)
        BY ConcatProperties DEF PubSubTypeOK
      <4> QED
        BY <3>2, <4>1, EmptySeq DEF Call, PubSubTypeOK, Registered
    <3>3. CASE Start(s, n) \/ Lock(s, n) \/ Return(s, n) \/ Panic(s, n) \/ Clear(s, n) \/ Leave(s, n)
      BY <3>3 DEF Start, Lock, Return, Panic, Clear, Leave, PubSubTypeOK, Registered
    <3> QED
      BY <1>6, <3>1, <3>2, <3>3 DEF JobStep
  <2>6. PubSubTypeOK'
    BY <2>3, <2>4, <2>5 DEF PubSubTypeOK
  <2>7. Idle'
    <3> SUFFICES ASSUME NEW u \in Sub, state[u] \in {"none", "lazy"}
                 PROVE  ~running'[u] /\ \A m \in Slot : job'[u][m] = "none"
      BY <2>5 DEF Idle
    <3>1. u # s
      BY <2>1 DEF Move, Idle
    <3>2. running'[u] = running[u]
      BY <2>1, <3>1 DEF PubSubTypeOK
    <3> QED
      BY <2>3, <3>1, <3>2 DEF Idle
  <2> QED
    BY <2>2, <2>6, <2>7
<1>7. CASE UNCHANGED vars
  BY <1>7 DEF vars, PubSubTypeOK, Registered, OneJob, Alone, Idle, Owner
<1> QED
  BY <1>1, <1>2, <1>3, <1>4, <1>5, <1>6, <1>7 DEF Next

(* The jobs of a subscription are kept apart, and its flag tells whether    *)
(* one of them has yet to clear it (schedule_worker).                       *)
THEOREM JobsApart == Spec => []OneJob
<1>1. JobInv => OneJob
  BY DEF JobInv
<1> QED
  BY <1>1, JobInvInit, JobInvStep, PTL DEF Spec

(* The state keeps its type, and no backlog outlives its subscription.      *)
THEOREM PubSubTypeCorrect == Spec => []PubSubTypeOK
<1>1. JobInv => PubSubTypeOK
  BY DEF JobInv
<1> QED
  BY <1>1, JobInvInit, JobInvStep, PTL DEF Spec

-----------------------------------------------------------------------------
LEMMA PrefixOfConcat ==
    ASSUME NEW S, NEW s \in Seq(S), NEW t \in Seq(S)
    PROVE  IsPrefix(s, s \o t)
<1>1. Len(s) <= Len(s \o t)
  BY ConcatProperties, LenProperties
<1>2. SubSeq(s \o t, 1, Len(s)) = SubSeq(s, 1, Len(s))
  <2>1. CASE s = <<>>
    BY <2>1, SubSeqEmpty, ConcatProperties, LenProperties
  <2>2. CASE s # <<>>
    BY <2>2, SubSeqOfConcat1, LenProperties, EmptySeq
  <2> QED
    BY <2>1, <2>2
<1> QED
  BY <1>1, <1>2 DEF IsPrefix

LEMMA ConcatThree ==
    \A s, t, u \in Seq(Nat) : (s \o t) \o u = s \o (t \o u)
<1> TAKE s, t, u \in Seq(Nat)
<1> DEFINE l == (s \o t) \o u
           r == s \o (t \o u)
<1>1. l \in Seq(Nat) /\ r \in Seq(Nat)
  BY ConcatProperties
<1>2. Len(l) = Len(r) /\ \A i \in 1 .. Len(l) : l[i] = r[i]
  <2>1. /\ s \o t \in Seq(Nat) /\ t \o u \in Seq(Nat)
        /\ Len(s \o t) = Len(s) + Len(t) /\ Len(t \o u) = Len(t) + Len(u)
        /\ Len(s) \in Nat /\ Len(t) \in Nat /\ Len(u) \in Nat
    BY ConcatProperties, LenProperties
  <2>2. Len(l) = Len(s) + Len(t) + Len(u) /\ Len(r) = Len(s) + Len(t) + Len(u)
    BY <2>1, ConcatProperties
  <2>3. \A i \in 1 .. Len(l) : l[i] = r[i]
    BY <2>1, <2>2, ConcatProperties
  <2> QED
    BY <2>2, <2>3
<1> HIDE DEF l, r
<1> QED
  <2>1. l = r
    BY <1>1, <1>2, SeqEqual
  <2> QED
    BY <2>1 DEF l, r

LEMMA HeadThenTail ==
    ASSUME NEW S, NEW s \in Seq(S), s # <<>>
    PROVE  <<Head(s)>> \o Tail(s) = s
BY HeadTailProperties, ConcatProperties, LenProperties

(* What one subscription's history satisfies.                               *)
InOrderFor(s) ==
    /\ Registered(s) => sent[s] = got[s] \o hand[s] \o backlog[s]
    /\ IsPrefix(got[s] \o hand[s], sent[s])

(* A message put at the end of the backlog and of what was sent.            *)
LEMMA QueueKeepsOrder ==
    ASSUME PubSubInv, NEW ss \in SUBSET Sub, \A s \in ss : Registered(s), Queue(ss)
    PROVE  PubSubInv'
<1> USE DEF PubSubInv, JobInv
<1>1. JobInv'
  BY QueueKeepsJobs
<1>2. msg' \in Nat
  BY DEF Queue, PubSubTypeOK
<1>3. ASSUME NEW s \in Sub PROVE InOrderFor(s)'
  <2>1. CASE s \in ss
    <3> DEFINE done == got[s] \o hand[s]
    <3>1. done \in Seq(Nat)
      BY ConcatProperties DEF PubSubTypeOK
    <3>2. sent[s] = done \o backlog[s]
      BY <2>1 DEF InOrder
    <3>3. sent'[s] = sent[s] \o <<msg'>> /\ backlog'[s] = backlog[s] \o <<msg'>>
      <4>1. sent'[s] = Append(sent[s], msg') /\ backlog'[s] = Append(backlog[s], msg')
        BY <2>1 DEF Queue
      <4>2. sent[s] \in Seq(Nat) /\ backlog[s] \in Seq(Nat)
        BY DEF PubSubTypeOK
      <4>3. Append(sent[s], msg') = sent[s] \o <<msg'>>
        BY <1>2, <4>2, AppendIsConcat
      <4>4. Append(backlog[s], msg') = backlog[s] \o <<msg'>>
        BY <1>2, <4>2, AppendIsConcat
      <4> QED
        BY <4>1, <4>3, <4>4
    <3>4. <<msg'>> \in Seq(Nat) /\ backlog'[s] \in Seq(Nat)
      BY <1>1, <1>2 DEF PubSubTypeOK
    <3>5. sent'[s] = done \o backlog'[s]
      <4> HIDE DEF done
      <4>1. backlog[s] \in Seq(Nat)
        BY DEF PubSubTypeOK
      <4>2. (done \o backlog[s]) \o <<msg'>> = done \o (backlog[s] \o <<msg'>>)
        BY <3>1, <3>4, <4>1, ConcatThree
      <4> QED
        BY <3>2, <3>3, <4>2
    <3>6. IsPrefix(done, sent'[s])
      BY <3>1, <3>4, <3>5, PrefixOfConcat
    <3>7. got'[s] = got[s] /\ hand'[s] = hand[s]
      BY DEF Queue
    <3> QED
      BY <3>5, <3>6, <3>7 DEF InOrderFor
  <2>2. CASE s \notin ss
    BY <2>2 DEF InOrderFor, InOrder, Queue, Registered, PubSubTypeOK
  <2> QED
    BY <2>1, <2>2
<1>4. InOrder'
  BY <1>3 DEF InOrder, InOrderFor
<1>5. HandHeld'
  <2> DEFINE wake == {s \in ss : state[s] = "active" /\ Wakes(s)}
  <2>1. Schedule(wake) /\ wake \in SUBSET Sub /\ \A s \in wake : ~running[s]
    BY DEF Queue, Wakes
  <2>2. \A u \in Sub, m \in Slot : job[u][m] = "taken" => job'[u][m] = "taken"
    BY <2>1, ScheduleEffect, RoomForJob
  <2> QED
    BY <2>2 DEF HandHeld, Queue
<1>6. Fresh'
  BY DEF Queue, Fresh, Registered, PubSubTypeOK
<1> QED
  BY <1>1, <1>4, <1>5, <1>6

(* A job takes a message, or finds none.                                    *)
LEMMA LookKeepsOrder ==
    ASSUME PubSubInv, NEW s \in Sub, NEW n \in Slot, Look(s, n)
    PROVE  InOrder' /\ HandHeld' /\ Fresh'
<1> USE DEF PubSubInv, JobInv
<1>1. job[s][n] = "looking"
  BY DEF Look, Move
<1>2. hand[s] = <<>>
  BY <1>1 DEF HandHeld, Alone, Holding
<1>3. \A u \in Sub, m \in Slot : u # s => job'[u][m] = job[u][m]
  <2>1. \E to \in {"taken", "clearing"} : Move(s, n, "looking", to)
    BY DEF Look
  <2>2. PICK to : job' = [job EXCEPT ![s][n] = to]
    BY <2>1 DEF Move
  <2> QED
    BY <2>2 DEF PubSubTypeOK
<1>4. CASE backlog[s] = <<>>
  <2>1. backlog' = backlog /\ hand' = hand /\ state' = state /\ sent' = sent /\ got' = got
    BY <1>4 DEF Look
  <2>2. InOrder' /\ Fresh'
    BY <2>1 DEF InOrder, Fresh, Registered
  <2>3. ASSUME NEW u \in Sub, hand'[u] # <<>> PROVE \E i \in Slot : job'[u][i] = "taken"
    <3>1. u # s
      BY <1>2, <2>1, <2>3
    <3> QED
      BY <1>3, <2>1, <2>3, <3>1 DEF HandHeld
  <2> QED
    BY <2>2, <2>3 DEF HandHeld
<1>5. CASE backlog[s] # <<>>
  <2> DEFINE h == <<Head(backlog[s])>>
  <2>1. /\ h \in Seq(Nat)
        /\ Tail(backlog[s]) \in Seq(Nat)
        /\ h \o Tail(backlog[s]) = backlog[s]
    BY <1>5, HeadTailProperties, HeadThenTail DEF PubSubTypeOK
  <2>2. Registered(s)
    BY <1>5 DEF PubSubTypeOK
  <2>3. sent[s] = got[s] \o backlog[s]
    BY <1>2, <2>2, ConcatEmptySeq DEF InOrder, PubSubTypeOK
  <2>4. sent[s] = (got[s] \o h) \o Tail(backlog[s])
    <3> HIDE DEF h
    <3>1. got[s] \in Seq(Nat)
      BY DEF PubSubTypeOK
    <3>2. (got[s] \o h) \o Tail(backlog[s]) = got[s] \o (h \o Tail(backlog[s]))
      BY <2>1, <3>1, ConcatThree
    <3> QED
      BY <2>1, <2>3, <3>2
  <2>5. IsPrefix(got[s] \o h, sent[s])
    <3> HIDE DEF h
    <3>1. got[s] \o h \in Seq(Nat)
      BY <2>1, ConcatProperties DEF PubSubTypeOK
    <3> QED
      BY <2>1, <2>4, <3>1, PrefixOfConcat
  <2>6. /\ hand' = [hand EXCEPT ![s] = h]
        /\ backlog' = [backlog EXCEPT ![s] = Tail(backlog[s])]
        /\ job' = [job EXCEPT ![s][n] = "taken"]
        /\ UNCHANGED <<state, running, poisoned, msg, sent, got>>
    BY <1>5 DEF Look, Move
  <2>7. InOrder'
    <3>1. hand'[s] = h /\ backlog'[s] = Tail(backlog[s])
      BY <2>6 DEF PubSubTypeOK
    <3>2. \A u \in Sub \ {s} : hand'[u] = hand[u] /\ backlog'[u] = backlog[u]
      BY <2>6 DEF PubSubTypeOK
    <3>3. InOrderFor(s)'
      BY <2>4, <2>5, <2>6, <3>1 DEF InOrderFor
    <3>4. \A u \in Sub \ {s} : InOrderFor(u)'
      BY <2>6, <3>2 DEF InOrderFor, InOrder, Registered
    <3> QED
      BY <3>3, <3>4 DEF InOrder, InOrderFor
  <2>8. HandHeld'
    <3>1. job'[s][n] = "taken"
      BY <2>6 DEF PubSubTypeOK
    <3>2. \A u \in Sub \ {s} : hand'[u] = hand[u]
      BY <2>6 DEF PubSubTypeOK
    <3> QED
      BY <1>3, <3>1, <3>2 DEF HandHeld
  <2>9. Fresh'
    BY <2>2, <2>6 DEF Fresh, Registered, PubSubTypeOK
  <2> QED
    BY <2>7, <2>8, <2>9
<1> QED
  BY <1>4, <1>5

(* The function is handed the message in hand.                              *)
LEMMA CallKeepsOrder ==
    ASSUME PubSubInv, NEW s \in Sub, NEW n \in Slot, Call(s, n)
    PROVE  InOrder' /\ HandHeld' /\ Fresh'
<1> USE DEF PubSubInv, JobInv
<1>1. job[s][n] = "taken" /\ \A u \in Sub \ {s}, m \in Slot : job'[u][m] = job[u][m]
  BY DEF Call, Move, PubSubTypeOK
<1>2. got'[s] = got[s] \o hand[s] /\ hand'[s] = <<>>
  BY DEF Call, PubSubTypeOK
<1>3. \A u \in Sub \ {s} : got'[u] = got[u] /\ hand'[u] = hand[u]
  BY DEF Call, PubSubTypeOK
<1>4. got'[s] \o hand'[s] = got[s] \o hand[s]
  BY <1>2, ConcatEmptySeq, ConcatProperties DEF PubSubTypeOK
<1>5. InOrder'
  <2>1. InOrderFor(s)'
    BY <1>4 DEF InOrderFor, InOrder, Call, Registered
  <2>2. \A u \in Sub \ {s} : InOrderFor(u)'
    BY <1>3 DEF InOrderFor, InOrder, Call, Registered
  <2> QED
    BY <2>1, <2>2 DEF InOrder, InOrderFor
<1>6. HandHeld'
  BY <1>1, <1>2, <1>3 DEF HandHeld
<1>7. Fresh'
  <2>1. state[s] # "none"
    BY <1>1 DEF Idle
  <2> QED
    BY <1>3, <2>1 DEF Fresh, Call
<1> QED
  BY <1>5, <1>6, <1>7

-----------------------------------------------------------------------------
LEMMA PubSubInvInit == Init => PubSubInv
<1> SUFFICES ASSUME Init PROVE PubSubInv
  OBVIOUS
<1>1. InOrder
  <2>1. <<>> \in Seq(Nat) /\ <<>> \o <<>> = <<>>
    BY EmptySeq, ConcatEmptySeq
  <2>2. IsPrefix(<<>>, <<>> \o <<>>)
    BY <2>1, PrefixOfConcat
  <2> QED
    BY <2>1, <2>2 DEF Init, InOrder, Registered
<1> QED
  BY <1>1, JobInvInit DEF Init, PubSubInv, HandHeld, Fresh

LEMMA PubSubInvStep == PubSubInv /\ [Next]_vars => PubSubInv'
<1> SUFFICES ASSUME PubSubInv, [Next]_vars PROVE PubSubInv'
  OBVIOUS
<1> USE DEF PubSubInv
<1>1. JobInv'
  BY JobInvStep
<1> USE DEF JobInv
<1>2. ASSUME NEW s \in Sub, NEW how \in {"lazy", "active"}, Subscribe(s, how) PROVE PubSubInv'
  <2>1. /\ state' = [state EXCEPT ![s] = how] /\ state[s] = "none"
        /\ UNCHANGED <<backlog, running, poisoned, job, hand, msg, sent, got>>
    BY <1>2 DEF Subscribe
  <2>2. InOrder'
    <3>1. sent[s] = got[s] \o hand[s] \o backlog[s]
      BY <2>1, EmptySeq, ConcatEmptySeq DEF Fresh, PubSubTypeOK, Registered
    <3>2. \A u \in Sub \ {s} : state'[u] = state[u]
      BY <2>1 DEF PubSubTypeOK
    <3>3. InOrderFor(s)' /\ \A u \in Sub \ {s} : InOrderFor(u)'
      BY <2>1, <3>1, <3>2 DEF InOrder, InOrderFor, Registered
    <3> QED
      BY <3>3 DEF InOrder, InOrderFor
  <2>3. HandHeld' /\ Fresh'
    BY <2>1 DEF HandHeld, Fresh, PubSubTypeOK
  <2> QED
    BY <1>1, <2>2, <2>3
<1>3. ASSUME NEW s \in Sub, Activate(s) PROVE PubSubInv'
  <2> DEFINE wake == {u \in {s} : Wakes(u)}
  <2>1. Schedule(wake) /\ wake \in SUBSET Sub /\ \A u \in wake : ~running[u]
    BY <1>3 DEF Activate, Wakes
  <2>2. \A u \in Sub, m \in Slot : job[u][m] = "taken" => job'[u][m] = "taken"
    BY <2>1, ScheduleEffect, RoomForJob
  <2>3. /\ state' = [state EXCEPT ![s] = "active"] /\ state[s] = "lazy"
        /\ UNCHANGED <<backlog, poisoned, hand, msg, sent, got>>
    BY <1>3 DEF Activate
  <2>4. \A u \in Sub : (Registered(u)' <=> Registered(u)) /\ (state'[u] = "none" <=> state[u] = "none")
    BY <2>3 DEF Registered, PubSubTypeOK
  <2>5. InOrder' /\ Fresh'
    BY <2>3, <2>4 DEF InOrder, Fresh
  <2>6. HandHeld'
    BY <2>2, <2>3 DEF HandHeld
  <2> QED
    BY <1>1, <2>5, <2>6
<1>4. ASSUME NEW s \in Sub, Cancel(s) PROVE PubSubInv'
  <2>1. /\ state' = [state EXCEPT ![s] = "gone"]
        /\ backlog' = [backlog EXCEPT ![s] = <<>>]
        /\ UNCHANGED <<running, poisoned, job, hand, msg, sent, got>>
    BY <1>4 DEF Cancel
  <2>2. /\ ~Registered(s)'
        /\ \A u \in Sub \ {s} : state'[u] = state[u] /\ backlog'[u] = backlog[u]
    BY <2>1 DEF PubSubTypeOK, Registered
  <2>3. InOrder'
    BY <2>1, <2>2 DEF InOrder, Registered
  <2>4. HandHeld' /\ Fresh'
    BY <2>1 DEF HandHeld, Fresh, PubSubTypeOK
  <2> QED
    BY <1>1, <2>3, <2>4
<1>5. ASSUME NEW c, Notify(c) PROVE PubSubInv'
  BY <1>5, QueueKeepsOrder DEF Notify, OfChannel
<1>6. ASSUME NEW s \in Sub, NotifyOthers(s) PROVE PubSubInv'
  BY <1>6, QueueKeepsOrder DEF NotifyOthers, OfChannel
<1>7. ASSUME NEW s \in Sub, NEW n \in Slot, JobStep(s, n) PROVE PubSubInv'
  <2>1. CASE Look(s, n)
    BY <1>1, <2>1, LookKeepsOrder
  <2>2. CASE Call(s, n)
    BY <1>1, <2>2, CallKeepsOrder
  <2>3. CASE Start(s, n) \/ Lock(s, n) \/ Return(s, n) \/ Panic(s, n) \/ Clear(s, n) \/ Leave(s, n)
    <3>1. UNCHANGED <<state, backlog, hand, sent, got>>
      BY <2>3 DEF Start, Lock, Return, Panic, Clear, Leave
    <3>2. \A u \in Sub, m \in Slot : job[u][m] = "taken" => job'[u][m] = "taken"
      <4>1. PICK from \in Place \ {"taken"}, to \in Place : Move(s, n, from, to)
        BY <2>3 DEF Start, Lock, Return, Panic, Clear, Leave, Move, Place, OnThread, Holding
      <4> QED
        BY <4>1, MoveEffect DEF Move
    <3>3. InOrder' /\ HandHeld' /\ Fresh'
      BY <3>1, <3>2 DEF InOrder, HandHeld, Fresh, Registered
    <3> QED
      BY <1>1, <3>3
  <2> QED
    BY <1>7, <2>1, <2>2, <2>3 DEF JobStep
<1>8. CASE UNCHANGED vars
  BY <1>1, <1>8 DEF vars, InOrder, HandHeld, Fresh, Registered
<1> QED
  BY <1>2, <1>3, <1>4, <1>5, <1>6, <1>7, <1>8 DEF Next

(* Every subscription is handed its messages in order, each once, none      *)
(* left out (notify, activate, schedule_worker).                            *)
THEOREM HandedInOrder == Spec => []InOrder
<1>1. PubSubInv => InOrder
  BY DEF PubSubInv
<1> QED
  BY <1>1, PubSubInvInit, PubSubInvStep, PTL DEF Spec

(* A cancelled subscription takes no message any more: its function is      *)
(* called for the message in hand at most (unregister).                     *)
THEOREM CancelledIsQuiet == Spec => QuietAfterCancel
<1> DEFINE Quiet == \A s \in Sub : state[s] = "gone" => got'[s] \o hand'[s] = got[s] \o hand[s]
<1>1. PubSubInv /\ [Next]_vars => Quiet
  <2> SUFFICES ASSUME PubSubInv, [Next]_vars, NEW s \in Sub, state[s] = "gone"
               PROVE  got'[s] \o hand'[s] = got[s] \o hand[s]
    OBVIOUS
  <2> USE DEF PubSubInv, JobInv
  <2>1. ASSUME NEW u \in Sub, NEW n \in Slot, Look(u, n)
        PROVE  got'[s] = got[s] /\ hand'[s] = hand[s]
    <3>1. backlog[s] = <<>>
      BY DEF PubSubTypeOK, Registered
    <3> QED
      BY <2>1, <3>1 DEF Look, PubSubTypeOK
  <2>2. ASSUME NEW u \in Sub, NEW n \in Slot, Call(u, n)
        PROVE  got'[s] \o hand'[s] = got[s] \o hand[s]
    <3>1. CASE u = s
      <4>1. got'[s] = got[s] \o hand[s] /\ hand'[s] = <<>>
        BY <2>2, <3>1 DEF Call, PubSubTypeOK
      <4> QED
        BY <4>1, ConcatEmptySeq, ConcatProperties DEF PubSubTypeOK
    <3>2. CASE u # s
      BY <2>2, <3>2 DEF Call, PubSubTypeOK
    <3> QED
      BY <3>1, <3>2
  <2>3. ASSUME NEW u \in Sub, NEW n \in Slot, JobStep(u, n), ~Look(u, n), ~Call(u, n)
        PROVE  UNCHANGED <<got, hand>>
    BY <2>3 DEF JobStep, Start, Lock, Return, Panic, Clear, Leave
  <2>4. CASE ~\E u \in Sub, n \in Slot : JobStep(u, n)
    BY <2>4 DEF Next, vars, Subscribe, Activate, Cancel, Notify, NotifyOthers, Queue
  <2> QED
    BY <2>1, <2>2, <2>3, <2>4
<1> QED
  BY <1>1, PubSubInvInit, PubSubInvStep, PTL DEF Spec, QuietAfterCancel

-----------------------------------------------------------------------------
(* Why jobs end.  The messages a function may still be called with bound    *)
(* the steps of its jobs: what is in the backlog, and what may yet be sent. *)
Bounded == msg \in 0..MaxMsg

Pending(s) == Len(backlog[s]) + (MaxMsg - msg)

(* The steps a job has left at most, from a place and with k messages.      *)
StepsFrom(place, k) ==
    IF place \in {"queued", "taken"} THEN 5 + 3 * k
    ELSE IF place \in {"locking", "calling"} THEN 4 + 3 * k
    ELSE IF place = "looking" THEN 3 + 3 * k
    ELSE IF place = "clearing" THEN 2
    ELSE IF place \in {"leaving", "unwinding"} THEN 1
    ELSE 0

JobSteps(s, n) == StepsFrom(job[s][n], Pending(s))

(* A step of a job; a message it takes is pending no more.                  *)
Advances(from, to, k, left) ==
    \/ from = "queued" /\ to = "locking"
    \/ from = "locking" /\ to \in {"looking", "unwinding"}
    \/ from = "looking" /\ to = "taken" /\ left < k
    \/ from = "looking" /\ to = "clearing"
    \/ from = "taken" /\ to = "calling"
    \/ from = "calling" /\ to \in {"looking", "unwinding"}
    \/ from = "clearing" /\ to = "leaving"
    \/ from \in {"leaving", "unwinding"} /\ to = "none"

LEMMA StepsNumber ==
    ASSUME NEW place, NEW k \in Nat
    PROVE  StepsFrom(place, k) \in Nat
  BY DEF StepsFrom

LEMMA AdvanceLess ==
    ASSUME NEW from, NEW to, NEW k \in Nat, NEW left \in Nat, left <= k,
           Advances(from, to, k, left)
    PROVE  StepsFrom(to, left) < StepsFrom(from, k)
<1>1. /\ StepsFrom("queued", k) = 5 + 3 * k /\ StepsFrom("taken", k) = 5 + 3 * k
      /\ StepsFrom("locking", k) = 4 + 3 * k /\ StepsFrom("calling", k) = 4 + 3 * k
      /\ StepsFrom("looking", k) = 3 + 3 * k
      /\ StepsFrom("clearing", k) = 2
      /\ StepsFrom("leaving", k) = 1 /\ StepsFrom("unwinding", k) = 1
  BY DEF StepsFrom
<1>2. /\ StepsFrom("taken", left) = 5 + 3 * left
      /\ StepsFrom("locking", left) = 4 + 3 * left /\ StepsFrom("calling", left) = 4 + 3 * left
      /\ StepsFrom("looking", left) = 3 + 3 * left
      /\ StepsFrom("clearing", left) = 2
      /\ StepsFrom("leaving", left) = 1 /\ StepsFrom("unwinding", left) = 1
      /\ StepsFrom("none", left) = 0
  BY DEF StepsFrom
<1>3. CASE from = "looking" /\ to = "taken" /\ left < k
  BY <1>1, <1>2, <1>3
<1>4. CASE from = "looking" /\ to = "clearing"
  BY <1>1, <1>2, <1>4
<1>5. CASE \/ from = "queued" /\ to = "locking"
           \/ from = "taken" /\ to = "calling"
  <2>1. StepsFrom(from, k) = 5 + 3 * k /\ StepsFrom(to, left) = 4 + 3 * left
    BY <1>1, <1>2, <1>5
  <2> QED BY <2>1
<1>6. CASE from \in {"locking", "calling"} /\ to \in {"looking", "unwinding"}
  <2>1. StepsFrom(from, k) = 4 + 3 * k /\ StepsFrom(to, left) \in {3 + 3 * left, 1}
    BY <1>1, <1>2, <1>6
  <2> QED BY <2>1
<1>7. CASE \/ from = "clearing" /\ to = "leaving"
           \/ from \in {"leaving", "unwinding"} /\ to = "none"
  <2>1. \/ StepsFrom(from, k) = 2 /\ StepsFrom(to, left) = 1
        \/ StepsFrom(from, k) = 1 /\ StepsFrom(to, left) = 0
    BY <1>1, <1>2, <1>7
  <2> QED BY <2>1
<1> QED BY <1>3, <1>4, <1>5, <1>6, <1>7 DEF Advances

LEMMA StayNoMore ==
    ASSUME NEW place, NEW k \in Nat, NEW left \in Nat, left <= k
    PROVE  StepsFrom(place, left) <= StepsFrom(place, k)
<1>1. 3 * left <= 3 * k /\ 3 * left \in Nat /\ 3 * k \in Nat
  OBVIOUS
<1> QED BY <1>1 DEF StepsFrom

(* The pending messages are a number that nothing increases.                *)
LEMMA PendingFalls ==
    ASSUME JobInv, Bounded, [Next]_vars
    PROVE  /\ Bounded'
           /\ \A s \in Sub : Pending(s) \in Nat /\ Pending(s)' \in Nat /\ Pending(s)' <= Pending(s)
<1>1. MaxMsg \in Nat /\ msg \in 0..MaxMsg /\ \A s \in Sub : backlog[s] \in Seq(Nat)
  BY PubSubAssumption DEF JobInv, PubSubTypeOK, Bounded
<1>2. /\ msg' \in 0..MaxMsg
      /\ \A s \in Sub :
            \/ Len(backlog'[s]) = Len(backlog[s]) /\ msg' = msg
            \/ Len(backlog'[s]) = 0 /\ msg' = msg
            \/ Len(backlog'[s]) = Len(backlog[s]) - 1 /\ backlog[s] # <<>> /\ msg' = msg
            \/ Len(backlog'[s]) \in {Len(backlog[s]), Len(backlog[s]) + 1} /\ msg' = msg + 1
  <2>1. ASSUME NEW ss, Queue(ss)
        PROVE  /\ msg' \in 0..MaxMsg /\ msg' = msg + 1
               /\ \A s \in Sub : Len(backlog'[s]) \in {Len(backlog[s]), Len(backlog[s]) + 1}
    <3>1. msg < MaxMsg /\ msg' = msg + 1
          /\ \A s \in Sub : backlog'[s] \in {backlog[s], Append(backlog[s], msg')}
      BY <2>1 DEF Queue
    <3>2. msg' \in Nat /\ msg' \in 0..MaxMsg
      BY <1>1, <3>1
    <3>3. \A s \in Sub : Len(Append(backlog[s], msg')) = Len(backlog[s]) + 1
      BY <1>1, <3>2, AppendProperties
    <3> QED BY <3>1, <3>2, <3>3
  <2>2. ASSUME NEW s \in Sub, Cancel(s)
        PROVE  msg' = msg /\ \A u \in Sub : backlog'[u] = backlog[u] \/ backlog'[u] = <<>>
    BY <2>2 DEF Cancel, JobInv, PubSubTypeOK
  <2>3. ASSUME NEW s \in Sub, NEW n \in Slot, Look(s, n)
        PROVE  /\ msg' = msg
               /\ \A u \in Sub : \/ backlog'[u] = backlog[u]
                                 \/ backlog[u] # <<>> /\ backlog'[u] = Tail(backlog[u])
    BY <2>3 DEF Look, JobInv, PubSubTypeOK
  <2>4. \A u \in Sub : backlog[u] # <<>> => Len(Tail(backlog[u])) = Len(backlog[u]) - 1
    BY <1>1, HeadTailProperties
  <2>5. CASE \E c \in {Channel[s] : s \in Sub} : Notify(c)
    <3>1. PICK ss : Queue(ss)
      BY <2>5 DEF Notify
    <3> QED BY <2>1, <3>1
  <2>6. CASE \E s \in Sub : NotifyOthers(s)
    <3>1. PICK ss : Queue(ss)
      BY <2>6 DEF NotifyOthers
    <3> QED BY <2>1, <3>1
  <2>7. CASE \E s \in Sub : Cancel(s)
    <3>1. msg' = msg /\ \A u \in Sub : backlog'[u] = backlog[u] \/ backlog'[u] = <<>>
      BY <2>2, <2>7
    <3> QED BY <1>1, <3>1, EmptySeq
  <2>8. CASE \E s \in Sub, n \in Slot : Look(s, n)
    <3>1. /\ msg' = msg
          /\ \A u \in Sub : \/ backlog'[u] = backlog[u]
                            \/ backlog[u] # <<>> /\ backlog'[u] = Tail(backlog[u])
      BY <2>3, <2>8
    <3> QED BY <1>1, <2>4, <3>1
  <2>9. CASE \/ \E s \in Sub, how \in {"lazy", "active"} : Subscribe(s, how)
             \/ \E s \in Sub : Activate(s)
             \/ \E s \in Sub, n \in Slot : JobStep(s, n) /\ ~Look(s, n)
             \/ UNCHANGED vars
    <3>1. UNCHANGED <<backlog, msg>>
      BY <2>9 DEF Subscribe, Activate, JobStep, Start, Lock, Call, Return, Panic, Clear, Leave,
                  vars
    <3> QED BY <1>1, <3>1
  <2> QED BY <2>5, <2>6, <2>7, <2>8, <2>9 DEF Next
<1>3. ASSUME NEW s \in Sub
      PROVE  Pending(s) \in Nat /\ Pending(s)' \in Nat /\ Pending(s)' <= Pending(s)
  <2> DEFINE k == Len(backlog[s])
             left == Len(backlog'[s])
  <2>1. k \in Nat /\ (backlog[s] # <<>> => k >= 1)
    BY <1>1, EmptySeq
  <2>2. \/ left = k /\ msg' = msg
        \/ left = 0 /\ msg' = msg
        \/ left = k - 1 /\ k >= 1 /\ msg' = msg
        \/ left \in {k, k + 1} /\ msg' = msg + 1
    BY <1>2, <2>1
  <2>3. Pending(s) = k + (MaxMsg - msg) /\ Pending(s)' = left + (MaxMsg - msg')
    BY DEF Pending
  <2> HIDE DEF k, left
  <2>4. /\ k + (MaxMsg - msg) \in Nat /\ left + (MaxMsg - msg') \in Nat
        /\ left + (MaxMsg - msg') <= k + (MaxMsg - msg)
    BY <1>1, <1>2, <2>1, <2>2
  <2> QED BY <2>3, <2>4
<1> QED BY <1>2, <1>3 DEF Bounded

(* A job stays where it is or advances, whoever takes the step.             *)
LEMMA JobsAdvance ==
    ASSUME JobInv, Bounded, [Next]_vars, NEW s \in Sub, NEW n \in Slot, job[s][n] # "none"
    PROVE  \/ job'[s][n] = job[s][n]
           \/ Advances(job[s][n], job'[s][n], Pending(s), Pending(s)')
<1>1. ASSUME NEW ss \in SUBSET Sub, Schedule(ss), \A u \in ss : ~running[u]
      PROVE  job'[s][n] = job[s][n]
  BY <1>1, ScheduleEffect, RoomForJob
<1>2. ASSUME NEW ss \in SUBSET Sub, Queue(ss) PROVE job'[s][n] = job[s][n]
  <2> DEFINE wake == {u \in ss : state[u] = "active" /\ Wakes(u)}
  <2>1. Schedule(wake) /\ wake \in SUBSET Sub /\ \A u \in wake : ~running[u]
    BY <1>2 DEF Queue, Wakes
  <2> HIDE DEF wake
  <2> QED BY <1>1, <2>1
<1>3. ASSUME NEW u \in Sub, Activate(u) PROVE job'[s][n] = job[s][n]
  <2> DEFINE wake == {v \in {u} : Wakes(v)}
  <2>1. Schedule(wake) /\ wake \in SUBSET Sub /\ \A v \in wake : ~running[v]
    BY <1>3 DEF Activate, Wakes
  <2> HIDE DEF wake
  <2> QED BY <1>1, <2>1
<1>4. ASSUME NEW u \in Sub, NEW m \in Slot, JobStep(u, m)
      PROVE  \/ job'[s][n] = job[s][n]
             \/ Advances(job[s][n], job'[s][n], Pending(s), Pending(s)')
  <2>1. PICK from, to \in Place : Move(u, m, from, to)
    BY <1>4 DEF JobStep, Start, Lock, Look, Call, Return, Panic, Clear, Leave, Place, OnThread,
                Holding
  <2>2. job'[s][n] = IF s = u /\ n = m THEN to ELSE job[s][n]
    BY <2>1, MoveEffect
  <2>3. CASE s = u /\ n = m
    <3>1. from = job[s][n] /\ to = job'[s][n]
      BY <2>1, <2>2, <2>3 DEF Move
    <3>2. job'[s] = [job[s] EXCEPT ![n] = job'[s][n]] /\ job[s] \in [Slot -> Place]
      BY <2>1, <2>3, <3>1 DEF Move, JobInv, PubSubTypeOK
    <3>3. CASE Look(s, n) /\ backlog[s] # <<>>
      <4>1. job[s][n] = "looking" /\ job'[s][n] = "taken"
        BY <3>3 DEF Look, Move, JobInv, PubSubTypeOK
      <4>2. msg' = msg /\ backlog'[s] = Tail(backlog[s]) /\ backlog[s] \in Seq(Nat)
        BY <3>3 DEF Look, JobInv, PubSubTypeOK
      <4>3. Len(backlog'[s]) = Len(backlog[s]) - 1 /\ Len(backlog[s]) \in Nat
        BY <3>3, <4>2, HeadTailProperties
      <4>4. msg \in Nat /\ MaxMsg \in Nat
        BY PubSubAssumption DEF JobInv, PubSubTypeOK
      <4>5. Pending(s)' < Pending(s)
        BY <4>2, <4>3, <4>4 DEF Pending
      <4> QED BY <4>1, <4>5 DEF Advances
    <3>4. CASE Look(s, n) /\ backlog[s] = <<>>
      <4>1. job[s][n] = "looking" /\ job'[s][n] = "clearing"
        BY <3>4 DEF Look, Move, JobInv, PubSubTypeOK
      <4> QED BY <4>1 DEF Advances
    <3>5. CASE Start(s, n) \/ Lock(s, n)
      <4>1. \/ job[s][n] = "queued" /\ job'[s][n] = "locking"
            \/ job[s][n] = "locking" /\ job'[s][n] \in {"looking", "unwinding"}
        BY <3>5 DEF Start, Lock, Move, JobInv, PubSubTypeOK
      <4> QED BY <4>1 DEF Advances
    <3>6. CASE Call(s, n) \/ Return(s, n) \/ Panic(s, n)
      <4>1. \/ job[s][n] = "taken" /\ job'[s][n] = "calling"
            \/ job[s][n] = "calling" /\ job'[s][n] \in {"looking", "unwinding"}
        BY <3>6 DEF Call, Return, Panic, Move, JobInv, PubSubTypeOK
      <4> QED BY <4>1 DEF Advances
    <3>7. CASE Clear(s, n) \/ Leave(s, n)
      <4>1. \/ job[s][n] = "clearing" /\ job'[s][n] = "leaving"
            \/ job[s][n] \in {"leaving", "unwinding"} /\ job'[s][n] = "none"
        BY <3>7 DEF Clear, Leave, Move, JobInv, PubSubTypeOK
      <4> QED BY <4>1 DEF Advances
    <3> QED BY <1>4, <2>3, <3>3, <3>4, <3>5, <3>6, <3>7 DEF JobStep
  <2>4. CASE ~(s = u /\ n = m)
    BY <2>2, <2>4
  <2> QED BY <2>3, <2>4
<1>5. CASE \/ \E u \in Sub, how \in {"lazy", "active"} : Subscribe(u, how)
           \/ \E u \in Sub : Cancel(u)
           \/ UNCHANGED vars
  BY <1>5 DEF Subscribe, Cancel, vars
<1>6. CASE \/ \E c \in {Channel[u] : u \in Sub} : Notify(c)
           \/ \E u \in Sub : NotifyOthers(u)
  <2>1. PICK ss \in SUBSET Sub : Queue(ss)
    BY <1>6 DEF Notify, NotifyOthers, OfChannel
  <2> QED BY <1>2, <2>1
<1> QED BY <1>3, <1>4, <1>5, <1>6 DEF Next

(* What a job waits for: a thread, or the function.                         *)
JobReady(s, n) ==
    /\ job[s][n] # "none"
    /\ job[s][n] = "queued" => Cardinality(Busy) < Threads
    /\ job[s][n] = "locking" => \A m \in Slot : job[s][m] \notin Holding

(* A job that has to wait waits for one that does not: the jobs that have   *)
(* the threads or the function.                                             *)
LEMMA SomeoneReady ==
    ASSUME JobInv, NEW s \in Sub, NEW n \in Slot, job[s][n] # "none"
    PROVE  \E u \in Sub, m \in Slot : JobReady(u, m)
<1>1. CASE \E u \in Sub, m \in Slot : job[u][m] \in OnThread \ {"locking"}
  BY <1>1 DEF JobReady, OnThread, Holding
<1>2. CASE ~\E u \in Sub, m \in Slot : job[u][m] \in OnThread \ {"locking"}
  <2>1. \A u \in Sub, m \in Slot : job[u][m] \in {"none", "queued", "locking"}
    BY <1>2 DEF JobInv, PubSubTypeOK, Place
  <2>2. \A u \in Sub, m \in Slot : job[u][m] \notin Holding
    BY <2>1 DEF Holding
  <2>3. CASE \E u \in Sub, m \in Slot : job[u][m] = "locking"
    BY <2>2, <2>3 DEF JobReady
  <2>4. CASE ~\E u \in Sub, m \in Slot : job[u][m] = "locking"
    <3>1. Busy = {}
      BY <2>1, <2>4 DEF Busy, OnThread, Holding
    <3>2. Cardinality(Busy) < Threads
      BY <3>1, FS_EmptySet, PubSubAssumption
    <3>3. job[s][n] = "queued"
      BY <2>1, <2>4
    <3> QED BY <3>2, <3>3 DEF JobReady
  <2> QED BY <2>3, <2>4
<1> QED BY <1>1, <1>2

(* Every job ends if threads run: as long as there is one, some job waits   *)
(* for nothing, and each step of a job brings its end nearer, which nobody  *)
(* else's step puts off, not even a notification: the steps it has left are *)
(* counted with the messages that may still be sent (schedule_worker).      *)
THEOREM JobsGoOn ==
    Spec => /\ [](\A s \in Sub, n \in Slot : job[s][n] # "none" =>
                    \E u \in Sub, m \in Slot : JobReady(u, m))
            /\ [][\A s \in Sub, n \in Slot : job[s][n] # "none" =>
                    /\ JobSteps(s, n)' \in Nat /\ JobSteps(s, n)' <= JobSteps(s, n)
                    /\ job'[s][n] # job[s][n] => JobSteps(s, n)' < JobSteps(s, n)]_vars
<1> DEFINE Free == \A s \in Sub, n \in Slot : job[s][n] # "none" =>
                      \E u \in Sub, m \in Slot : JobReady(u, m)
           Nearer == \A s \in Sub, n \in Slot : job[s][n] # "none" =>
                    /\ JobSteps(s, n)' \in Nat /\ JobSteps(s, n)' <= JobSteps(s, n)
                    /\ job'[s][n] # job[s][n] => JobSteps(s, n)' < JobSteps(s, n)
<1>1. JobInv => Free
  BY SomeoneReady
<1>2. Init => Bounded
  BY PubSubAssumption DEF Init, Bounded
<1>3. JobInv /\ Bounded /\ [Next]_vars => Bounded' /\ Nearer
  <2> SUFFICES ASSUME JobInv, Bounded, [Next]_vars PROVE Bounded' /\ Nearer
    OBVIOUS
  <2>1. ASSUME NEW s \in Sub, NEW n \in Slot, job[s][n] # "none"
        PROVE  /\ JobSteps(s, n)' \in Nat /\ JobSteps(s, n)' <= JobSteps(s, n)
               /\ job'[s][n] # job[s][n] => JobSteps(s, n)' < JobSteps(s, n)
    <3> DEFINE from == job[s][n]
               to   == job'[s][n]
               k    == Pending(s)
               left == Pending(s)'
    <3>1. k \in Nat /\ left \in Nat /\ left <= k
      BY PendingFalls
    <3>2. to = from \/ Advances(from, to, k, left)
      BY <2>1, JobsAdvance
    <3>3. JobSteps(s, n) = StepsFrom(from, k) /\ JobSteps(s, n)' = StepsFrom(to, left)
      BY DEF JobSteps, StepsFrom
    <3> HIDE DEF from, to, k, left
    <3>4. StepsFrom(from, k) \in Nat /\ StepsFrom(to, left) \in Nat
      BY <3>1, StepsNumber
    <3>5. Advances(from, to, k, left) => StepsFrom(to, left) < StepsFrom(from, k)
      BY <3>1, AdvanceLess
    <3>6. to = from => StepsFrom(to, left) <= StepsFrom(from, k)
      BY <3>1, StayNoMore
    <3>7. StepsFrom(to, left) <= StepsFrom(from, k)
      BY <3>2, <3>4, <3>5, <3>6
    <3>8. to # from => StepsFrom(to, left) < StepsFrom(from, k)
      BY <3>2, <3>5
    <3> QED BY <3>3, <3>4, <3>7, <3>8 DEF from, to
  <2> QED BY <2>1, PendingFalls
<1> HIDE DEF Free, Nearer
<1>4. JobInv /\ Bounded /\ [Next]_vars => [Nearer]_vars
  BY <1>3
<1>5. JobInv /\ Bounded /\ [Next]_vars => Bounded'
  BY <1>3
<1>6. Spec => []Free /\ [][Nearer]_vars
  BY <1>1, <1>2, <1>4, <1>5, JobInvInit, JobInvStep, PTL DEF Spec
<1> QED BY <1>6 DEF Free, Nearer
=============================================================================
