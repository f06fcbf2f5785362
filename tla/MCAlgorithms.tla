----------------------------- MODULE MCAlgorithms -----------------------------
(***************************************************************************)
(* The pure algorithms on growing inputs: kind says which one `in` is for, *)
(* and every step makes `in` one element longer or changes one part of it. *)
(***************************************************************************)
EXTENDS Merkle, Compact, ScriptBytes, IBatch, Signing, Builder, SequencesExt

CONSTANTS
    k1, k2, k3, m, x,
    MaxLeaves, MaxDigits, MaxScript,    \* bounds: Merkle leaves, digits of a target, bytes of a script that grows
    MaxCoins, MaxOuts, MaxTxs,          \* bounds: of a transaction built, of a pool
    Reward0                             \* the reward of the block built

VARIABLES kind, in

mvars == <<kind, in>>

Kinds == {"merkle", "target", "script", "batch", "wire", "tx", "helper", "block"}

(* Accounts as Account::new makes them, with their keys. *)
Keyed(keys, less, arb) == [New(Len(keys), less, arb) EXCEPT !.pubs = keys, !.pris = keys]

AccA == Keyed(<<k1, k2>>, 2, NoArb)
AccB == Keyed(<<k3>>, 1, NoArb)

(* Three coins, by the transaction that made them: x and z are alike. *)
Spendable ==
    [p \in {"x", "y", "z"} \X {0} |->
        IF p[1] = "y" THEN [value |-> 3, addr |-> Identity(AccB)]
        ELSE [value |-> 5, addr |-> Identity(AccA)]]

Unsigned(o, acc) == [out |-> o, idx |-> 0, acc |-> InScript(acc), seq |-> 0]

Base ==
    [ver |-> 1, ins |-> <<Unsigned("x", AccA), Unsigned("y", AccB)>>,
     outs |-> <<[value |-> 4, addr |-> "b"], [value |-> 4, addr |-> "c"]>>]

(* The keys and messages are such, and NoSig is no signature of an input; a *)
(* coinbase of two outputs fits a block, and a target a hash.               *)
ASSUME MCAlgorithmsAssumption ==
    /\ {k1, k2, k3} \subseteq Key /\ {m, x} \subseteq Msg /\ MaxKeys >= 3
    /\ \A k \in Key : \A i \in DOMAIN Base.ins : \A p \in DOMAIN Spendable :
          NoSig # <<k, SignBytes(Base, i, Spendable[p])>>
    /\ BareSize + OutSize * 2 <= MaxBlockSize /\ MaxLeaves \in Nat
    /\ MaxDigits \in 0..HashSize

Starts(k) ==
    CASE k \in {"merkle", "target", "block"} -> {<<>>}
      [] k = "script" -> {<<OpTypeB, t>> : t \in 1..3}
      [] k = "batch"  -> {[db |-> d, w |-> EmptyBatch] : d \in [DbKey -> DbValue \cup {Absent}]}
      [] k = "wire"   -> {Keyed(<<k1, k2, k3>>, less, arb) : less \in 1..3, arb \in {NoArb, 2}}
      [] k = "tx"     -> {[tx |-> Base, signed |-> {}, changed |-> FALSE]}
      [] k = "helper" -> {[coins |-> <<>>, outs |-> <<>>, fee |-> f, keep |-> a] :
                             f \in {-1, 0, 1}, a \in {"a", NoAddr}}

MCInit == kind \in Kinds /\ in \in Starts(kind)

-----------------------------------------------------------------------------
(* A step keeps to its kind. *)
Of(k) == kind = k /\ kind' = k

GrowLeaves ==
    /\ Of("merkle") /\ Len(in) < MaxLeaves
    /\ \E leaf \in 1..MaxLeaves :
          (\A i \in DOMAIN in : in[i] # leaf) /\ in' = Append(in, leaf)

GrowTarget ==
    /\ Of("target") /\ Len(in) < MaxDigits
    /\ \E d \in 0..(Byte - 1) : in' = Append(in, d)

(* Operations, whole and cut short; some are the data of the one before. *)
Pieces ==
    {<<0>>, <<1>>, <<200>>, <<255>>, <<OpNumber1>>, <<OpNumber1 + 1, 7, 7>>, <<OpNumber8>> \o <<1, 1, 1, 1>>,
     <<OpData1>>, <<OpData1, 2, 7, 7>>, <<OpData1 + 1, 1, 0>>, <<OpData4, 1, 0, 0>>, <<0, 0, 0>>}

GrowScript ==
    /\ Of("script") /\ Len(in) < MaxScript
    /\ \E s \in Pieces : in' = in \o s

(* link writes a key at most once: it puts what is absent, and deletes and *)
(* replaces what it has read.                                              *)
Fresh(k) == \A i \in DOMAIN in.w.b : in.w.b[i].k # k

GrowBatch ==
    /\ Of("batch")
    /\ \E k \in DbKey :
          /\ Fresh(k)
          /\ \/ \E v \in DbValue : in.db[k] = Absent /\ in' = [in EXCEPT !.w = BatchPut(@, k, v)]
             \/ in' = [in EXCEPT !.w = BatchDel(@, k, in.db[k])]
             \/ \E v \in DbValue :
                   in.db[k] # Absent /\ in' = [in EXCEPT !.w = BatchSet(@, k, v, in.db[k])]

(* A key signs at its place; in an account read from bytes, signatures are *)
(* at any place.                                                           *)
GrowSigs ==
    /\ Of("wire")
    /\ \E i \in 1..3 :
          /\ in.sigs[i] = NoSig
          /\ \/ CanSign(in, i) /\ \E msg \in {m, x} : in' = Signed(in, i, msg)
             \/ \E k \in {k1, k2, k3} : in' = [in EXCEPT !.sigs[i] = <<k, m>>]

SignInput ==
    /\ Of("tx") /\ ~in.changed
    /\ \E i \in DOMAIN in.tx.ins \ in.signed :
          /\ CanSignIn(in.tx, i, {AccA, AccB})
          /\ in' = [in EXCEPT !.signed = @ \cup {i},
                              !.tx = SignedIn(@, i, {AccA, AccB}, Spendable[<<@.ins[i].out, 0>>])]

ChangeTx ==
    /\ Of("tx")
    /\ \/ in' = [in EXCEPT !.changed = TRUE, !.tx.ver = 3 - @]
       \/ \E i \in DOMAIN in.tx.ins :
             \/ in' = [in EXCEPT !.changed = TRUE, !.tx.ins[i].seq = 1 - @]
             \/ \E o \in {"x", "y", "z"} : in' = [in EXCEPT !.changed = TRUE, !.tx.ins[i].out = o]
       \/ in' = [in EXCEPT !.changed = TRUE, !.tx.ins = SubSeq(@, 1, 1)]
       \/ in' = [in EXCEPT !.changed = TRUE, !.tx.ins = Reverse(@)]
       \/ in' = [in EXCEPT !.changed = TRUE, !.tx.outs[1].value = 9 - @]
       \/ in' = [in EXCEPT !.changed = TRUE, !.tx.outs = Reverse(@)]

GrowCoins ==
    /\ Of("helper") /\ Len(in.coins) < MaxCoins
    /\ \E a \in {"a", "b", "none"}, v \in {1, 3} :
          in' = [in EXCEPT !.coins = Append(@, [addr |-> a, value |-> v])]

GrowOuts ==
    /\ Of("helper") /\ Len(in.outs) < MaxOuts
    /\ \E v \in {-1, 0, 1, 2} : in' = [in EXCEPT !.outs = Append(@, [addr |-> "b", value |-> v])]

(* The pool hands out its transactions from the highest fee down. *)
GrowPool ==
    /\ Of("block") /\ Len(in) < MaxTxs
    /\ \E f \in 0..2, s \in 1..3 :
          (in # <<>> => f <= Last(in).fee) /\ in' = Append(in, [fee |-> f, size |-> s])

MCNext ==
    \/ GrowLeaves \/ GrowTarget \/ GrowScript \/ GrowBatch \/ GrowSigs
    \/ SignInput \/ ChangeTx \/ GrowCoins \/ GrowOuts \/ GrowPool

MCSpec == MCInit /\ [][MCNext]_mvars

-----------------------------------------------------------------------------
(***************************************************************************)
(* Properties.                                                             *)
(***************************************************************************)
(* The root binds the transactions: lists of different transactions, of any *)
(* length, have different roots, and the root is that of pairing up level   *)
(* by level (tree_width, tree_height, calc_hasher).                         *)
MerkleBinds ==
    kind = "merkle" /\ in # <<>> =>
        /\ ComputeMerkle(in) = RootByLevels(in)
        /\ \A n \in 1..MaxLeaves : LET other == [i \in 1..n |-> i]
                                   IN  ComputeMerkle(in) = ComputeMerkle(other) => in = other

Target ==
    LET upto[n \in 0..Len(in)] == IF n = 0 THEN 0 ELSE upto[n - 1] * Byte + in[n]
    IN  upto[Len(in)]

(* A compact form is a target no easier than the number it was made of, and *)
(* not much harder; a target that has one keeps it (compact, try_from).     *)
CompactRounds ==
    kind = "target" =>
        LET c == ToCompact(Target)
            e == Expand(c)
        IN  /\ e <= Target /\ (Target - e) * BytePow[2] <= 2 * Target
            /\ ToCompact(e) = c

(* Differences of block times: in order, the same, the wrong way round, too  *)
(* large for a u32.                                                         *)
Times == {-70, -3, 0, 1, 2, 5, 8, 13, 32, 40, 63, 64, 69}

(* Whatever the last difficulty and however long its span took, the next    *)
(* one is within the limit verify_pow asks for, and no easier than computed *)
(* for the time counted, also when the times of the blocks are out of order *)
(* and the cast to u32 wraps; when they are in order and fit, it is no      *)
(* harder after a slower span (compute_bits, verify_pow).                   *)
BitsAccepted ==
    kind = "target" /\ Target <= PowLimit =>
        \A diff \in Times :
            LET old == ToCompact(Target)
                new == ComputeBits(diff, old)
            IN  /\ VerifyPow(0, new)
                /\ Expand(new) * Span <= Expand(old) * Clamped(Elapsed(diff))
                /\ \A later \in Times : 0 <= diff /\ diff <= later /\ later < TimeRange =>
                      Expand(ComputeBits(later, old)) >= Expand(new)

(* Lengths on both sides of what one byte holds. *)
Longs == {[i \in 1..n |-> 255] : n \in {0, 127, 128, 255, 256}}

(* A script that check accepts is cut by exec where ops cut it, up to an    *)
(* operation exec does not know; data put at its end comes back as one      *)
(* operation; and the script itself, as anything of its own length, comes   *)
(* back from where it was put, whatever is before and after it              *)
(* (Script::ops, read_binary, data; Writer::put, Reader::get).              *)
FramingAgrees ==
    kind = "script" /\ ScriptCheck(in) =>
        /\ \A p \in OpsStarts(in) :
              ExecNext(in, p) = OpsNext(in, p) \/ (ExecNext(in, p) = None /\ OpsNext(in, p) = p + 1)
        /\ LET s == in \o DataOp(in)
           IN  OpsNext(s, Len(in) + 1) = Len(s) + 1 /\ ExecNext(s, Len(in) + 1) = Len(s) + 1
        /\ \A v \in {in} \cup Longs :
              LET s == in \o PutBytes(v) \o in
              IN  /\ GotBytes(s, Len(in) + 1) = v
                  /\ GetNext(s, Len(in) + 1) = Len(in \o PutBytes(v)) + 1

(* Writing a batch and then its undo batch, in the order they were made,    *)
(* leaves the database as it was (IBatch::put, del, set, reverse).          *)
UndoRestores ==
    kind = "batch" => Written(Written(in.db, in.w.b), in.w.f) = in.db

(* An account that lost the gaps between its signatures on its way through  *)
(* bytes has the same address and gets the same verdict; one saved with its *)
(* keys and loaded can sign, and what it signs is accepted (into_bytes,     *)
(* from_bytes, encode_to_writer, decode_from_reader, verify_full).          *)
WireKeepsVerdict ==
    kind = "wire" =>
        /\ CanUnpack(Pack(in))
        /\ Identity(Unpack(Pack(in))) = Identity(in)
        /\ VerifyFull(Unpack(Pack(in)), m) <=> VerifyFull(in, m)
        /\ CanLoad(in) /\ Identity(Loaded(in)) = Identity(in)
        /\ CanSignFull(Loaded(in))
        /\ VerifyFull(Unpack(Pack(SignedFull(Loaded(in), m))), m)

(* Inputs can be signed one by one in any order: signing one changes        *)
(* neither the id nor what the others sign, and the transaction passes when *)
(* the last is signed, not before (sign_tx, encode_sign, check_tx_sign).    *)
SigningCommutes ==
    kind = "tx" /\ ~in.changed =>
        /\ TxId(in.tx) = TxId(Base)
        /\ CheckTxSign(in.tx, Spendable) <=> in.signed = DOMAIN in.tx.ins

(* Signatures are good for nothing but the transaction they were made for:  *)
(* what passes has its id, whatever was changed, dropped or put elsewhere   *)
(* after signing (get_sign_bytes, LinkExectorCache).                        *)
SignatureCommits ==
    kind = "tx" /\ CheckTxSign(in.tx, Spendable) => TxId(in.tx) = TxId(Base)

(* A transaction TxHelper builds pays its fee to the last unit, with no     *)
(* empty output; a block create_block builds fits, whatever outputs its     *)
(* coinbase gets on the way (TxHelper, BlkHelper).                          *)
BuiltWithinLimits ==
    /\ kind = "helper" /\ CanBuildTx(in) =>
          LET t == BuiltTx(in)
          IN  /\ Total(t.ins) - Total(t.outs) = in.fee
              /\ \A i \in DOMAIN t.outs : t.outs[i].value # 0
    /\ kind = "block" =>
          \A n \in 0..2 :
              LET outs == [i \in 1..n |-> [addr |-> "a", value |-> 1]]
              IN  BareSize + OutSize * n + Sizes(BuiltTxs(in, outs)) <= MaxBlockSize

(* The closure is told "the amount the coinbase may output" (index.rs:1735, *)
(* coinbase可输出交易额): a coinbase that pays that is within the reward     *)
(* and the fees of the block built, as check_block_amount asks.             *)
CoinbaseMayPay ==
    kind = "block" =>
        LET claim == Claim(in, Reward0)
        IN  claim <= Reward0 + Fees(BuiltTxs(in, <<[addr |-> "a", value |-> claim]>>))

=============================================================================
