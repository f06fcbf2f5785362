-------------------------------- MODULE TxPool --------------------------------
(***************************************************************************)
(* The pool of transactions waiting for a block (TxPool in index.rs): the  *)
(* same transactions by id, and by fee in order of arrival.  BlkIndexer    *)
(* extends this module and drives the pool; the module's own specification *)
(* lets any caller push and remove.                                        *)
(***************************************************************************)
EXTENDS Blocks

CONSTANTS
    Submitted,  \* the transactions offered to the pool
    Fees,       \* the fees a caller may compute for them
    MaxBucket   \* bound: transactions of one fee in byfee

VARIABLES
    byid,       \* ids in the pool
    byfee       \* fee -> transactions, a BTreeMap (partial function)

poolVars == <<byid, byfee>>

PoolInit == byid = {} /\ byfee = <<>>

-----------------------------------------------------------------------------
(* The output k is spent by a transaction of the pool. *)
IsCostCoin(k) ==
    \E t \in byid : \E i \in DOMAIN Ins(t) : OutKey(Ins(t)[i]) = k

\* mutant of PoolCheckValue: an output spent in the pool may be spent again
PoolCheckValueConflict(t) ==
    /\ Ins(t) # <<>> /\ Outs(t) # <<>>
    /\ ~IsCoinbase(t)
    /\ t \notin byid
    /\ IsValidAmount(OutSum(t))

(* TxPool::check_value. *)
PoolCheckValue(t) ==
    /\ Ins(t) # <<>> /\ Outs(t) # <<>>
    /\ ~IsCoinbase(t)
    /\ t \notin byid
    /\ \A i \in DOMAIN Ins(t) : ~IsCostCoin(OutKey(Ins(t)[i]))
    /\ IsValidAmount(OutSum(t))

Bucket(fee) == IF fee \in DOMAIN byfee THEN byfee[fee] ELSE <<>>

(* TxPool::push. *)
PoolPush(t, fee) ==
    /\ PoolCheckValue(t)
    /\ byid' = byid \cup {t}
    /\ byfee' = [f \in DOMAIN byfee \cup {fee} |->
                    IF f = fee THEN Append(Bucket(f), t) ELSE byfee[f]]

\* mutant of PoolRemove: nothing is taken out
PoolRemoveNothing(ts) == UNCHANGED poolVars

(* TxPool::remove of each of ts.  Of every list, removing one transaction   *)
(* that is in the pool retains the entries EQUAL to it, so that removing    *)
(* several retains those equal to each of them.  A transaction that is not  *)
(* in the pool changes nothing.                                             *)
PoolRemove(ts) ==
    LET removed == ts \cap byid
    IN  /\ byid' = byid \ removed
        /\ byfee' = [f \in DOMAIN byfee |->
                        SelectSeq(byfee[f], LAMBDA x : \A t \in removed : x = t)]

-----------------------------------------------------------------------------
AddToPool(t, fee) ==
    /\ Len(Bucket(fee)) < MaxBucket
    /\ PoolPush(t, fee)

DropFromPool(t) == t \in byid /\ PoolRemove({t})

PoolNext ==
    \/ \E t \in Submitted, fee \in Fees : AddToPool(t, fee)
    \/ \E t \in Submitted : DropFromPool(t)

PoolSpec == PoolInit /\ [][PoolNext]_poolVars

-----------------------------------------------------------------------------
(* No two transactions of the pool refer to the same output, and none is a  *)
(* coinbase, so that the pool can go into one block (check_value, push).    *)
PoolNoDoubleSpend ==
    /\ \A t \in byid : ~IsCoinbase(t)
    /\ \A t, u \in byid : t # u => Spends(t) \cap Spends(u) = {}

(* "Delete from the queue sorted by amount" (index.rs:424): the lists by    *)
(* fee, which create_block reads, hold the pool's transactions, each once.  *)
ByFeeMatchesById ==
    /\ \A f \in DOMAIN byfee : \A i \in DOMAIN byfee[f] : byfee[f][i] \in byid
    /\ \A t \in byid :
          Cardinality(UNION {{<<f, i>> : i \in {j \in DOMAIN byfee[f] : byfee[f][j] = t}}
                             : f \in DOMAIN byfee}) = 1
=============================================================================
