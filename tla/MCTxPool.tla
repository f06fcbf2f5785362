------------------------------- MODULE MCTxPool -------------------------------
(* Three transactions, of which u and v spend the same output and w spends    *)
(* two, one of them from the same transaction as u; and a coinbase, which the *)
(* pool must refuse.                                                          *)
EXTENDS TxPool

CONSTANTS src, cb, u, v, w, alice

In(t, i) == [out |-> t, idx |-> i, addr |-> alice]
Out(v_)  == [addr |-> alice, value |-> v_]

MCTxData ==
    [t \in Tx |->
        CASE t = src -> [ins |-> <<In(NoTx, 1)>>, outs |-> <<Out(3), Out(3), Out(3)>>, ok |-> TRUE, sigs |-> TRUE]
          [] t = cb  -> [ins |-> <<In(NoTx, 1)>>, outs |-> <<Out(3)>>, ok |-> TRUE, sigs |-> TRUE]
          [] t = u   -> [ins |-> <<In(src, 1)>>, outs |-> <<Out(3)>>, ok |-> TRUE, sigs |-> TRUE]
          [] t = v   -> [ins |-> <<In(src, 1)>>, outs |-> <<Out(3)>>, ok |-> TRUE, sigs |-> TRUE]
          [] t = w   -> [ins |-> <<In(src, 2), In(src, 3)>>, outs |-> <<Out(4)>>, ok |-> TRUE, sigs |-> TRUE]]
=============================================================================
