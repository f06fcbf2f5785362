-------------------------------- MODULE PubSub --------------------------------
(***************************************************************************)
(* Publish/subscribe (pubsub.rs).  A notification is queued in the backlog *)
(* of every subscription of its channel, and a job on the thread pool      *)
(* hands the backlog of one subscription to its function.  The flag        *)
(* "running" keeps a second job from being scheduled meanwhile.            *)
(*                                                                         *)
(* Everything done under the lock of InnerPubSub is one action.  The flag  *)
(* is cleared outside that lock, the function called outside it.           *)
(***************************************************************************)
EXTENDS Integers, Sequences, FiniteSets, SequencesExt

CONSTANTS
    Sub,        \* the subscriptions, each used once (next_id)
    Channel,    \* the channel of each
    Threads,    \* size of the thread pool
    Slot,       \* names for the jobs of one subscription that exist at a time
    MaxMsg,     \* bound: messages sent
    Panicky     \* the subscriptions whose function may panic

ASSUME PubSubAssumption ==
    /\ Threads \in Nat \ {0}
    /\ MaxMsg \in Nat
    /\ \A n \in Slot : Slot # {n}    \* room for two jobs
    /\ Slot # {}
    /\ Panicky \subseteq Sub

VARIABLES
    state,      \* of each subscription: "none", "lazy", "active" or "gone"
    backlog,    \* its messages (SubData.backlog)
    running,    \* its flag (SubData.running), shared with its jobs
    poisoned,   \* its function's mutex is poisoned
    job,        \* job[s][n]: where the job n of s is, "none" when there is none
    hand,       \* the message its job took from the backlog, if any
    msg,        \* the last message sent, messages being numbered
    sent, got   \* history: the messages queued for s, and handed to its function

vars == <<state, backlog, running, poisoned, job, hand, msg, sent, got>>

(***************************************************************************)
(* A job is queued; on a thread, about to lock the function; about to look *)
(* at the backlog; about to call the function; in it; about to clear the   *)
(* flag, the backlog having been empty; about to unlock the function; or   *)
(* unwinding, with the function unlocked and the flag still set.           *)
(***************************************************************************)
Holding == {"looking", "taken", "calling", "clearing", "leaving"}
OnThread == Holding \cup {"locking", "unwinding"}
Place == OnThread \cup {"none", "queued"}

Registered(s) == state[s] \in {"lazy", "active"}

Init ==
    /\ state = [s \in Sub |-> "none"]
    /\ backlog = [s \in Sub |-> <<>>]
    /\ running = [s \in Sub |-> FALSE]
    /\ poisoned = [s \in Sub |-> FALSE]
    /\ job = [s \in Sub |-> [n \in Slot |-> "none"]]
    /\ hand = [s \in Sub |-> <<>>]
    /\ msg = 0
    /\ sent = [s \in Sub |-> <<>>]
    /\ got = [s \in Sub |-> <<>>]

-----------------------------------------------------------------------------
NewJob(s) == CHOOSE n \in Slot : job[s][n] = "none"

\* mutant of Wakes: the flag is not looked at
WakesAlways(s) == TRUE

(* schedule_worker starts a job only when none runs. *)
Wakes(s) == ~running[s]

(* schedule_worker for each of the subscriptions ss. *)
Schedule(ss) ==
    /\ running' = [s \in Sub |-> running[s] \/ s \in ss]
    /\ job' = [s \in Sub |-> IF s \in ss THEN [job[s] EXCEPT ![NewJob(s)] = "queued"]
                             ELSE job[s]]

(* subscribe, or lazy_subscribe, which leaves the function for later. *)
Subscribe(s, how) ==
    /\ state[s] = "none"
    /\ state' = [state EXCEPT ![s] = how]
    /\ UNCHANGED <<backlog, running, poisoned, job, hand, msg, sent, got>>

(* SubActivator::activate: schedules a job whatever the backlog. *)
Activate(s) ==
    /\ state[s] = "lazy"
    /\ state' = [state EXCEPT ![s] = "active"]
    /\ Schedule({u \in {s} : Wakes(u)})
    /\ UNCHANGED <<backlog, poisoned, hand, msg, sent, got>>

\* mutant of Cancel: the backlog stays
CancelKeepsBacklog(s) ==
    /\ Registered(s)
    /\ state' = [state EXCEPT ![s] = "gone"]
    /\ UNCHANGED <<backlog, running, poisoned, job, hand, msg, sent, got>>

(* The subscription is dropped, and its backlog with it. *)
Cancel(s) ==
    /\ Registered(s)
    /\ state' = [state EXCEPT ![s] = "gone"]
    /\ backlog' = [backlog EXCEPT ![s] = <<>>]
    /\ UNCHANGED <<running, poisoned, job, hand, msg, sent, got>>

(* A message for all of ss; a subscription without a function gets no job. *)
Queue(ss) ==
    /\ msg < MaxMsg
    /\ msg' = msg + 1
    /\ backlog' = [s \in Sub |-> IF s \in ss THEN Append(backlog[s], msg') ELSE backlog[s]]
    /\ sent' = [s \in Sub |-> IF s \in ss THEN Append(sent[s], msg') ELSE sent[s]]
    /\ Schedule({s \in ss : state[s] = "active" /\ Wakes(s)})
    /\ UNCHANGED <<state, poisoned, hand, got>>

OfChannel(c) == {s \in Sub : Registered(s) /\ Channel[s] = c}

Notify(c) == Queue(OfChannel(c))

NotifyOthers(s) == Registered(s) /\ Queue(OfChannel(Channel[s]) \ {s})

-----------------------------------------------------------------------------
Move(s, n, from, to) == job[s][n] = from /\ job' = [job EXCEPT ![s][n] = to]

Busy == {p \in Sub \X Slot : job[p[1]][p[2]] \in OnThread}

(* A thread takes the job. *)
Start(s, n) ==
    /\ Cardinality(Busy) < Threads
    /\ Move(s, n, "queued", "locking")
    /\ UNCHANGED <<state, backlog, running, poisoned, hand, msg, sent, got>>

(* func.lock().unwrap(), which panics when the mutex is poisoned. *)
Lock(s, n) ==
    /\ \A m \in Slot : job[s][m] \notin Holding
    /\ Move(s, n, "locking", IF poisoned[s] THEN "unwinding" ELSE "looking")
    /\ UNCHANGED <<state, backlog, running, poisoned, hand, msg, sent, got>>

\* mutant of Look: the newest message first
LookBack(s, n) ==
    /\ IF backlog[s] # <<>>
       THEN /\ Move(s, n, "looking", "taken")
            /\ backlog' = [backlog EXCEPT ![s] = Front(@)]
            /\ hand' = [hand EXCEPT ![s] = <<Last(backlog[s])>>]
       ELSE /\ Move(s, n, "looking", "clearing")
            /\ UNCHANGED <<backlog, hand>>
    /\ UNCHANGED <<state, running, poisoned, msg, sent, got>>

\* mutant of Look: waits for a message on the thread
LookWaits(s, n) ==
    /\ backlog[s] # <<>>
    /\ Move(s, n, "looking", "taken")
    /\ backlog' = [backlog EXCEPT ![s] = Tail(@)]
    /\ hand' = [hand EXCEPT ![s] = <<Head(backlog[s])>>]
    /\ UNCHANGED <<state, running, poisoned, msg, sent, got>>

(* pop_front, under the lock of InnerPubSub. *)
Look(s, n) ==
    /\ IF backlog[s] # <<>>
       THEN /\ Move(s, n, "looking", "taken")
            /\ backlog' = [backlog EXCEPT ![s] = Tail(@)]
            /\ hand' = [hand EXCEPT ![s] = <<Head(backlog[s])>>]
       ELSE /\ Move(s, n, "looking", "clearing")
            /\ UNCHANGED <<backlog, hand>>
    /\ UNCHANGED <<state, running, poisoned, msg, sent, got>>

(* The function is called, after that lock was released. *)
Call(s, n) ==
    /\ Move(s, n, "taken", "calling")
    /\ got' = [got EXCEPT ![s] = @ \o hand[s]]
    /\ hand' = [hand EXCEPT ![s] = <<>>]
    /\ UNCHANGED <<state, backlog, running, poisoned, msg, sent>>

\* mutant of Return: one message for each job
ReturnOnce(s, n) ==
    /\ Move(s, n, "calling", "clearing")
    /\ UNCHANGED <<state, backlog, running, poisoned, hand, msg, sent, got>>

(* The function returns. *)
Return(s, n) ==
    /\ Move(s, n, "calling", "looking")
    /\ UNCHANGED <<state, backlog, running, poisoned, hand, msg, sent, got>>

(* The function panics: its mutex is unlocked poisoned. *)
Panic(s, n) ==
    /\ s \in Panicky
    /\ Move(s, n, "calling", "unwinding")
    /\ poisoned' = [poisoned EXCEPT ![s] = TRUE]
    /\ UNCHANGED <<state, backlog, running, hand, msg, sent, got>>

(* finish_guard is dropped: last of all when unwinding, else before the     *)
(* function is unlocked.                                                    *)
Clear(s, n) ==
    /\ \/ Move(s, n, "clearing", "leaving")
       \/ Move(s, n, "unwinding", "none")
    /\ running' = [running EXCEPT ![s] = FALSE]
    /\ UNCHANGED <<state, backlog, poisoned, hand, msg, sent, got>>

Leave(s, n) ==
    /\ Move(s, n, "leaving", "none")
    /\ UNCHANGED <<state, backlog, running, poisoned, hand, msg, sent, got>>

JobStep(s, n) ==
    \/ Start(s, n) \/ Lock(s, n) \/ Look(s, n) \/ Call(s, n)
    \/ Return(s, n) \/ Panic(s, n) \/ Clear(s, n) \/ Leave(s, n)

Next ==
    \/ \E s \in Sub, how \in {"lazy", "active"} : Subscribe(s, how)
    \/ \E s \in Sub : Activate(s)
    \/ \E s \in Sub : Cancel(s)
    \/ \E c \in {Channel[s] : s \in Sub} : Notify(c)
    \/ \E s \in Sub : NotifyOthers(s)
    \/ \E s \in Sub, n \in Slot : JobStep(s, n)

Spec == Init /\ [][Next]_vars

(* The pool's threads run, locks are granted and functions return or panic; *)
(* nobody has to subscribe, notify or cancel.                               *)
FairSpec == Spec /\ \A s \in Sub, n \in Slot : WF_vars(JobStep(s, n))

-----------------------------------------------------------------------------
(* A subscription that is not registered has no backlog.                    *)
PubSubTypeOK ==
    /\ state \in [Sub -> {"none", "lazy", "active", "gone"}]
    /\ backlog \in [Sub -> Seq(Nat)]
    /\ running \in [Sub -> BOOLEAN] /\ poisoned \in [Sub -> BOOLEAN]
    /\ job \in [Sub -> [Slot -> Place]]
    /\ hand \in [Sub -> Seq(Nat)]
    /\ msg \in Nat
    /\ sent \in [Sub -> Seq(Nat)] /\ got \in [Sub -> Seq(Nat)]
    /\ \A s \in Sub : ~Registered(s) => backlog[s] = <<>>

(* The jobs that have yet to clear the flag. *)
Owner(s, n) == job[s][n] \notin {"none", "leaving"}

(* The flag tells whether a job of the subscription has yet to clear it, and *)
(* there is one such job at most, so that calls of one function never        *)
(* overlap; besides it at most one job, on its way out (schedule_worker).    *)
OneJob ==
    \A s \in Sub :
        /\ running[s] <=> \E n \in Slot : Owner(s, n)
        /\ \A n, m \in Slot : Owner(s, n) /\ Owner(s, m) => n = m
        /\ \A n, m \in Slot : job[s][n] = "leaving" /\ job[s][m] = "leaving" => n = m

(* A subscription is handed the messages of its channel in the order they   *)
(* were sent, each once and none left out, whatever jobs hand them over;    *)
(* those sent before a lazy subscription was activated included (notify,    *)
(* activate, schedule_worker).                                              *)
InOrder ==
    \A s \in Sub :
        /\ Registered(s) => sent[s] = got[s] \o hand[s] \o backlog[s]
        /\ IsPrefix(got[s] \o hand[s], sent[s])

(* After its subscription was cancelled, a function is called at most once  *)
(* more, for a message that a job had already taken (unregister).           *)
QuietAfterCancel ==
    [][\A s \in Sub : state[s] = "gone" => got'[s] \o hand'[s] = got[s] \o hand[s]]_vars

(* Every job ends: none waits for ever for a thread or for the function,    *)
(* even when jobs of one subscription take up the threads (schedule_worker).*)
JobsEnd == \A s \in Sub, n \in Slot : job[s][n] # "none" ~> job[s][n] = "none"

(* A backlog found by a job that has yet to look at it is handed over.      *)
Woken ==
    \A s \in Sub \ Panicky :
        (/\ backlog[s] # <<>>
         /\ \E n \in Slot : job[s][n] \in {"queued", "locking", "looking", "taken", "calling"})
            ~> backlog[s] = <<>>

(* The test expects both messages of its first channel to be handed over    *)
(* (pubsub.rs:321, the count is 3 in the end): the backlog of an active     *)
(* subscription is handed over.                                             *)
AllDelivered ==
    \A s \in Sub \ Panicky : (state[s] = "active" /\ backlog[s] # <<>>) ~> backlog[s] = <<>>
=============================================================================
