-------------------------------- MODULE Chain --------------------------------
(***************************************************************************)
(* The chain threads share (Chain in index.rs): the block indexer behind a *)
(* lock, and a listener.  What a call does under the lock is one step of   *)
(* the indexer; the calls that take more than one step are the ones that   *)
(* take the lock twice (get_tx, attr then load), that tell the listener    *)
(* once they gave the lock back (link, pop, append, remove), or that run   *)
(* the caller's code under it (create_block).                              *)
(* A call that fails and leaves the indexer as it was is no step.          *)
(***************************************************************************)
EXTENDS BlkIndexer

CONSTANTS
    Thread, NoThread,
    Asked,          \* the transactions given to get_tx
    Minted,         \* the blocks new_link_block makes
    Panicking,      \* the blocks in which checking a signature panics
    MaxCalls        \* bound: calls to the chain

ASSUME ChainAssumption ==
    /\ NoThread \notin Thread /\ IsFiniteSet(Thread)
    /\ Asked \subseteq Tx /\ Minted \subseteq Block /\ Panicking \subseteq Block
    /\ MaxCalls \in Nat

VARIABLES
    th,         \* the call each thread is in
    holder,     \* the thread whose code runs under the lock, between steps
    poisoned,   \* a thread panicked under the write lock
    told,       \* links less pops the listener was told of, by block
    seen,       \* whether the chain held the transaction asked for, since get_tx began
    calls       \* calls made

allVars == <<vars, th, holder, poisoned, told, seen, calls>>

(* A call: where it is, the block and the transaction it is about, the      *)
(* attributes it read, its answer, and what it reports (1 link, -1 pop).    *)
Call ==
    [pc : {"idle", "tell", "get", "ret", "load", "create"},
     b : Block \cup {NoBlock}, t : Tx \cup {NoTx},
     attr : BlkAttr \cup {NoAttr}, at : TxAttr \cup {NoTxAttr},
     got : Tx \cup {NoTx}, by : {-1, 0, 1}]

Idle ==
    [pc |-> "idle", b |-> NoBlock, t |-> NoTx, attr |-> NoAttr, at |-> NoTxAttr,
     got |-> NoTx, by |-> 0]

ChainInit ==
    /\ Init
    /\ th = [p \in Thread |-> Idle]
    /\ holder = NoThread
    /\ poisoned = FALSE
    /\ told = [b \in Block |-> 0]
    /\ seen = [p \in Thread |-> {}]
    /\ calls = 0

-----------------------------------------------------------------------------
(* do_read and do_write get the indexer: the lock is free and not poisoned. *)
Usable == holder = NoThread /\ ~poisoned

Begin(p) == th[p].pc = "idle" /\ Usable /\ calls < MaxCalls /\ calls' = calls + 1
At(p, pc) == th[p].pc = pc /\ calls' = calls

(* Thread p goes on to c; whoever is in get_tx sees what the step made of   *)
(* the transaction it asked for.                                            *)
Goes(p, c) ==
    /\ th' = [th EXCEPT ![p] = c]
    /\ seen' = [q \in Thread |->
                  IF th'[q].pc \notin {"get", "ret"} THEN {}
                  ELSE seen[q] \cup {tattr'[th'[q].t] # NoTxAttr}]

Tells(p, b, by) == Goes(p, [Idle EXCEPT !.pc = "tell", !.b = b, !.by = by])

Answers(p, t, got) == Goes(p, [Idle EXCEPT !.pc = "ret", !.t = t, !.got = got])

-----------------------------------------------------------------------------
\* mutant of LinkCall: the listener is called under the lock
LinkCallLocked(p, b) ==
    /\ Begin(p) /\ Link(b) /\ Tells(p, b, 1)
    /\ holder' = p
    /\ UNCHANGED <<poisoned, told>>

LinkCall(p, b) ==
    /\ Begin(p) /\ Link(b) /\ Tells(p, b, 1)
    /\ UNCHANGED <<holder, poisoned, told>>

\* mutant of PopCall: a pop is not reported
PopCallSilent(p) ==
    /\ Begin(p) /\ Pop /\ Goes(p, Idle)
    /\ UNCHANGED <<holder, poisoned, told>>

PopCall(p) ==
    /\ Begin(p) /\ Pop /\ Tells(p, best.id, -1)
    /\ UNCHANGED <<holder, poisoned, told>>

AppendCall(p, t) ==
    /\ Begin(p) /\ AppendTx(t) /\ Tells(p, NoBlock, 0)
    /\ UNCHANGED <<holder, poisoned, told>>

RemoveCall(p, t) ==
    /\ Begin(p) /\ RemoveTx(t) /\ Tells(p, NoBlock, 0)
    /\ UNCHANGED <<holder, poisoned, told>>

(* The listener is given the chain, so it needs the lock; an error it       *)
(* returns is the call's answer, though the chain has changed.              *)
Tell(p) ==
    /\ At(p, "tell") /\ holder = NoThread
    /\ told' = [b \in Block |-> IF b = th[p].b THEN told[b] + th[p].by ELSE told[b]]
    /\ UNCHANGED <<vars, holder, poisoned>>
    /\ Goes(p, Idle)

(* new_link_block: a block made on the top and linked, with no report. *)
NewLinkBlock(p, b) ==
    /\ Begin(p) /\ Link(b) /\ Goes(p, Idle)
    /\ UNCHANGED <<holder, poisoned, told>>

-----------------------------------------------------------------------------
\* mutant of GetTxAttr: the entry of the transaction's block, kept under a like key
GetTxAttrOfBlock(p, t) ==
    /\ Begin(p)
    /\ UNCHANGED <<vars, holder, poisoned, told>>
    /\ IF tattr[t] = NoTxAttr THEN Answers(p, t, NoTx)
       ELSE Goes(p, [Idle EXCEPT !.pc = "get", !.t = t, !.at = battr[tattr[t].blk]])

(* get_tx, first lock: where the transaction is. *)
GetTxAttr(p, t) ==
    /\ Begin(p)
    /\ UNCHANGED <<vars, holder, poisoned, told>>
    /\ IF tattr[t] = NoTxAttr THEN Answers(p, t, NoTx)
       ELSE Goes(p, [Idle EXCEPT !.pc = "get", !.t = t, !.at = tattr[t]])

\* mutant of GetTxBlock: the block at the height the transaction was at
GetTxBlockAtHeight(p) ==
    /\ At(p, "get") /\ Usable
    /\ LET b == hidx[1]
       IN  IF b # NoBlock /\ CanGet(b) /\ th[p].at.idx \in DOMAIN Txs(GetBlock(b))
           THEN /\ cache' \in Cached({b})
                /\ UNCHANGED <<genesis, dbVars, blk, rev, byid, byfee>>
                /\ Answers(p, th[p].t, Txs(GetBlock(b))[th[p].at.idx])
           ELSE /\ UNCHANGED vars
                /\ Answers(p, th[p].t, NoTx)
    /\ UNCHANGED <<holder, poisoned, told>>

(* get_tx, second lock: its block, unless it was popped in between. *)
GetTxBlock(p) ==
    /\ At(p, "get") /\ Usable
    /\ LET b == th[p].at.blk
       IN  IF CanGet(b) /\ th[p].at.idx \in DOMAIN Txs(GetBlock(b))
           THEN /\ Get(b)
                /\ Answers(p, th[p].t, Txs(GetBlock(b))[th[p].at.idx])
           ELSE /\ UNCHANGED vars
                /\ Answers(p, th[p].t, NoTx)
    /\ UNCHANGED <<holder, poisoned, told>>

Return(p) ==
    /\ At(p, "ret")
    /\ UNCHANGED <<vars, holder, poisoned, told>>
    /\ Goes(p, Idle)

GetCall(p, b) ==
    /\ Begin(p) /\ Get(b) /\ Goes(p, Idle)
    /\ UNCHANGED <<holder, poisoned, told>>

-----------------------------------------------------------------------------
(* attr: the attributes of a block, kept by the caller. *)
LoadAttr(p, b) ==
    /\ Begin(p) /\ battr[b] # NoAttr
    /\ UNCHANGED <<vars, holder, poisoned, told>>
    /\ Goes(p, [Idle EXCEPT !.pc = "load", !.b = b, !.attr = battr[b]])

(* load: the block of attributes, put in the cache though it may be popped. *)
LoadBlock(p) ==
    /\ At(p, "load") /\ Usable
    /\ \/ Load(th[p].b, th[p].attr.blk)
       \/ th[p].b \notin cache /\ ~Readable(blk, th[p].attr.blk) /\ UNCHANGED vars
    /\ UNCHANGED <<holder, poisoned, told>>
    /\ Goes(p, Idle)

-----------------------------------------------------------------------------
(* create_block: the caller's closure runs under the write lock. *)
CreateLock(p) ==
    /\ Begin(p) /\ CanNext
    /\ holder' = p
    /\ UNCHANGED <<vars, poisoned, told>>
    /\ Goes(p, [Idle EXCEPT !.pc = "create"])

CreateEnd(p) ==
    /\ At(p, "create")
    /\ holder' = NoThread
    /\ UNCHANGED <<vars, poisoned, told>>
    /\ Goes(p, Idle)

CreatePanics(p) ==
    /\ At(p, "create")
    /\ holder' = NoThread /\ poisoned' = TRUE
    /\ UNCHANGED <<vars, told>>
    /\ Goes(p, Idle)

(* A signature check that panics (a key cut short in the script, more keys  *)
(* than an account has places) does so before link has written anything.    *)
LinkPanics(p, b) ==
    /\ Begin(p) /\ BlockCheckValue(b) /\ battr[b] = NoAttr
    /\ CanNext /\ BlockData[b].bits = NextBits
    /\ IF best = NoBest THEN b = genesis ELSE Prev(b) = best.id
    /\ poisoned' = TRUE
    /\ UNCHANGED <<vars, holder, told>>
    /\ Goes(p, Idle)

(* Once poisoned, the lock gives an error to the second half of a call. *)
Refused(p) ==
    /\ calls' = calls
    /\ poisoned /\ th[p].pc \in {"get", "load"}
    /\ UNCHANGED <<vars, holder, poisoned, told>>
    /\ Goes(p, Idle)

-----------------------------------------------------------------------------
(* What a thread does on its own once it is in a call. *)
GoesOn(p) ==
    \/ Tell(p)
    \/ GetTxBlock(p) \/ Return(p)
    \/ LoadBlock(p)
    \/ CreateEnd(p) \/ CreatePanics(p)
    \/ Refused(p)

ChainNext ==
    \E p \in Thread :
        \/ \E b \in Block \ Minted : LinkCall(p, b)
        \/ PopCall(p)
        \/ \E t \in Submitted : AppendCall(p, t)
        \/ \E t \in Submitted : RemoveCall(p, t)
        \/ \E b \in Minted : NewLinkBlock(p, b)
        \/ \E t \in Asked : GetTxAttr(p, t)
        \/ \E b \in Block : GetCall(p, b)
        \/ \E b \in Block : LoadAttr(p, b)
        \/ CreateLock(p)
        \/ \E b \in Panicking : LinkPanics(p, b)
        \/ GoesOn(p)

(* Threads run, and the lock is let to one that waits while it stays free. *)
ChainSpec == ChainInit /\ [][ChainNext]_allVars /\ \A p \in Thread : WF_allVars(GoesOn(p))

-----------------------------------------------------------------------------
(***************************************************************************)
(* Properties.                                                             *)
(***************************************************************************)
ChainTypeOK ==
    /\ th \in [Thread -> Call]
    /\ holder \in Thread \cup {NoThread}
    /\ poisoned \in BOOLEAN
    /\ told \in [Block -> Int]
    /\ seen \in [Thread -> SUBSET BOOLEAN]
    /\ calls \in 0..MaxCalls

(* get_tx takes the lock twice, and other threads pop and link in between;  *)
(* its answer is still one it could have given at a single moment of the    *)
(* call: the transaction asked for, which the chain held then, or none,     *)
(* which it did not hold then (get_tx, pop, link).                          *)
GetTxLinearizable ==
    \A p \in Thread : th[p].pc = "ret" =>
        /\ th[p].got \in {th[p].t, NoTx}
        /\ (th[p].got = th[p].t) \in seen[p]

Reporting(b, by) == {p \in Thread : th[p].pc = "tell" /\ th[p].b = b /\ th[p].by = by}

(* Reports are made after the lock is given back and may reach the listener *)
(* in another order than the blocks did; with those still under way they    *)
(* always add up to the chain, so none is lost or made twice.  It is said   *)
(* of the blocks given to link: new_link_block reports nothing (link, pop). *)
ReportsAddUp ==
    \A b \in Block \ Minted :
        told[b] + Cardinality(Reporting(b, 1)) - Cardinality(Reporting(b, -1))
            = IF OnChain(b) THEN 1 ELSE 0

(* Every call returns, with an error when the lock was poisoned: nobody     *)
(* waits for the lock while it holds it (do_write, link's listener).        *)
CallsReturn == \A p \in Thread : th[p].pc # "idle" ~> th[p].pc = "idle"
=============================================================================
