-------------------------------- MODULE Signing --------------------------------
(***************************************************************************)
(* What the signatures of a transaction are over (LinkExectorCache,        *)
(* TxSigner and FullSigner in index.rs, encode_sign in block.rs), for      *)
(* transactions whose scripts are the standard ones: an input carries an   *)
(* account, an output the address it is locked for.  A hash is shown as    *)
(* what it is the hash of, an address as the Identity of its account.      *)
(*   input   [out, idx, acc, seq]     output   [value, addr]               *)
(***************************************************************************)
EXTENDS Account

(* TxIn::encode_sign; the script stands for its account, unsigned. *)
InSigned(inv) == <<inv.out, inv.idx, Identity(inv.acc), inv.seq>>

(* LinkExectorCache: the version, all that is paid and all that is spent. *)
CacheOf(tx) ==
    [ver |-> tx.ver, outs |-> tx.outs,
     refs |-> [i \in DOMAIN tx.ins |-> <<tx.ins[i].out, tx.ins[i].idx>>]]

\* mutant of SignBytes: the outputs are not signed
SignBytesNoOuts(tx, i, outv) ==
    <<CacheOf(tx).ver, CacheOf(tx).refs, InSigned(tx.ins[i]), outv>>

(* get_sign_bytes for input i, which spends outv. *)
SignBytes(tx, i, outv) ==
    <<CacheOf(tx).ver, CacheOf(tx).refs, InSigned(tx.ins[i]), outv, CacheOf(tx).outs>>

(* Tx::id. *)
TxId(tx) ==
    [ver |-> tx.ver, outs |-> tx.outs,
     ins |-> [i \in DOMAIN tx.ins |-> InSigned(tx.ins[i])]]

(* new_script_in, and the account read back: signatures, no private keys. *)
InScript(acc) == Unpack(Pack(acc))

(* FullSigner::get_sign_script for input i: the account comes from the      *)
(* account pool, by the address of the account the input carries.  The      *)
(* cache was made before any input was signed.                              *)
CanSignIn(tx, i, pool) ==
    \E acc \in pool :
        Identity(acc) = Identity(tx.ins[i].acc) /\ CheckPrisPubs(acc) /\ CanSignFull(acc)

SignedIn(tx, i, pool, outv) ==
    LET acc == CHOOSE acc \in pool : Identity(acc) = Identity(tx.ins[i].acc)
    IN  [tx EXCEPT !.ins[i].acc = InScript(SignedFull(acc, SignBytes(tx, i, outv)))]

(* check_tx_sign with standard scripts: each input's account is the one its *)
(* output is locked for, and verify_full accepts it.  coins holds the       *)
(* outputs that may be spent, by transaction and index.                     *)
CheckTxSign(tx, coins) ==
    \A i \in DOMAIN tx.ins :
        LET outv == coins[<<tx.ins[i].out, tx.ins[i].idx>>]
        IN  /\ Identity(tx.ins[i].acc) = outv.addr
            /\ VerifyFull(tx.ins[i].acc, SignBytes(tx, i, outv))
=============================================================================
