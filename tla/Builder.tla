-------------------------------- MODULE Builder --------------------------------
(***************************************************************************)
(* The builders of index.rs: TxHelper makes a transaction from coins of    *)
(* the account pool, Chain::create_block a block from the transaction      *)
(* pool, with BlkHelper.  Sizes are in bytes.                              *)
(***************************************************************************)
EXTENDS Integers, Sequences

CONSTANTS
    Known,          \* addresses whose accounts are in the account pool
    NoAddr,         \* no change address set
    MaxAmount,      \* MAX_MONEY
    MaxBlockSize,   \* MAX_BLOCK_SIZE
    BareSize,       \* a block whose coinbase has no outputs
    OutSize         \* an output of the coinbase

ASSUME BuilderAssumption ==
    /\ NoAddr \notin Known
    /\ MaxAmount \in Nat /\ MaxBlockSize \in Nat /\ BareSize \in Nat /\ OutSize \in Nat

ValidAmount(v) == 0 <= v /\ v <= MaxAmount

SumOf(q) ==
    LET upto[n \in 0..Len(q)] == IF n = 0 THEN 0 ELSE upto[n - 1] + q[n]
    IN  upto[Len(q)]

Total(s) == SumOf([i \in DOMAIN s |-> s[i].value])

(* The outputs that pay something, in their order. *)
Paying(outs) ==
    LET upto[n \in 0..Len(outs)] ==
          IF n = 0 THEN <<>>
          ELSE IF outs[n].value = 0 THEN upto[n - 1]
          ELSE Append(upto[n - 1], outs[n])
    IN  upto[Len(outs)]

-----------------------------------------------------------------------------
(***************************************************************************)
(* TxHelper: coins [addr, value] to spend, outs [addr, value] to pay, the  *)
(* fee, and the address change goes to.                                    *)
(***************************************************************************)
Paid(h) == Total(Paying(h.outs))

\* mutant of Change: the fee is kept
ChangeWithFee(h) == Total(h.coins) - Paid(h)

(* What is left of the coins (kfee), and who gets it: the first account by default. *)
Change(h) == Total(h.coins) - Paid(h) - h.fee

ChangeAddr(h) == IF h.keep # NoAddr \/ h.coins = <<>> THEN h.keep ELSE h.coins[1].addr

CanBuildTx(h) ==
    /\ ValidAmount(h.fee)
    /\ \A i \in DOMAIN h.coins : h.coins[i].addr \in Known
    /\ ValidAmount(Paid(h)) /\ ValidAmount(Total(h.coins))
    /\ Paid(h) <= Total(h.coins)
    /\ ValidAmount(Change(h))
    /\ Change(h) > 0 => ChangeAddr(h) # NoAddr

BuiltTx(h) ==
    [ins |-> h.coins,
     outs |-> IF Change(h) > 0
              THEN Append(Paying(h.outs), [addr |-> ChangeAddr(h), value |-> Change(h)])
              ELSE Paying(h.outs)]

-----------------------------------------------------------------------------
(***************************************************************************)
(* create_block: the pool's transactions [fee, size], from the highest fee *)
(* down, and the outputs the caller's closure gives the coinbase.          *)
(***************************************************************************)
Sizes(txs) == SumOf([i \in DOMAIN txs |-> txs[i].size])
Fees(txs)  == SumOf([i \in DOMAIN txs |-> txs[i].fee])

(* The transactions that fit a block that has the given size without them:  *)
(* the first that does not ends the list.                                   *)
Fitting(txs, size) ==
    LET n == CHOOSE n \in 0..Len(txs) :
                /\ \A k \in 1..n : size + Sizes(SubSeq(txs, 1, k)) <= MaxBlockSize
                /\ n < Len(txs) => size + Sizes(SubSeq(txs, 1, n + 1)) > MaxBlockSize
    IN  SubSeq(txs, 1, n)

(* What the closure is told the coinbase may pay out: the reward and the    *)
(* fees of the transactions taken while the coinbase has no outputs yet.    *)
Claim(txs, reward) == reward + Fees(Fitting(txs, BareSize))

(* Block::try_from(&BlkHelper): the size is looked at again, with outputs. *)
BuiltTxs(txs, outs) ==
    Fitting(Fitting(txs, BareSize), BareSize + OutSize * Len(Paying(outs)))
=============================================================================
