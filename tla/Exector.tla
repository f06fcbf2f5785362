-------------------------------- MODULE Exector --------------------------------
(***************************************************************************)
(* The script interpreter (Exector in script.rs) at the two places the     *)
(* program runs an input: alone, to find the account whose keys sign       *)
(* (Script::encode_sign, for ids and signing bytes), and followed by the   *)
(* lock of the output it spends (BlkIndexer::check_tx_sign).               *)
(*                                                                         *)
(* A script is a sequence of tokens, one operation each with its argument; *)
(* ScriptBytes shows that the bytes are always cut the same way.  The      *)
(* contents of a data element are a member of Data: AccountOf says which   *)
(* of them Account::from_bytes accepts, and at which it panics.            *)
(***************************************************************************)
EXTENDS Account

CONSTANTS
    Data,           \* contents of data elements
    NoAccount,
    Overlong,       \* an account that lists more keys or signatures than `num`
    AccountOf,      \* Account::from_bytes: the account in the data, or one of these two
    HashOf,         \* Account::hash of that account, as data
    MsgOf,          \* the signing bytes of the input when that account signs it
    NoMsg,          \* the signing bytes before they are known
    Owners,         \* accounts the spent output may have been locked for
    Inputs,         \* the input scripts
    MaxOps          \* MAX_SCRIPT_OPS

TypeIn  == 2        \* SCRIPT_TYPE_IN, SCRIPT_TYPE_OUT
TypeOut == 3

Bool(b) == [typ |-> "bool", v |-> b]
Num(n)  == [typ |-> "num", v |-> n]
Dat(d)  == [typ |-> "data", v |-> d]

Ele == [typ : {"bool"}, v : BOOLEAN] \cup [typ : {"num"}, v : Int]
           \cup [typ : {"data"}, v : Data]

OpType(t) == [op |-> "type", typ |-> t]
Push(e)   == [op |-> "push", ele |-> e]     \* OP_00..OP_16, numbers, booleans, data
Op(o)     == [op |-> o]                     \* the others; "bad" is unknown or cut short

Token == [op : {"type"}, typ : 0..255] \cup [op : {"push"}, ele : Ele]
           \cup [op : {"verify", "hasher", "equal", "equal_verify", "not", "checksig",
                       "checksig_verify", "verify_inout", "bad"}]

IsAccount(d) == AccountOf[d] \notin {NoAccount, Overlong}

ASSUME ExectorAssumption ==
    /\ MaxOps \in Nat /\ MaxOps >= 8    \* 256: a standard input and its lock fit
    /\ AccountOf \in [Data -> Accounts \cup {NoAccount, Overlong}]
    /\ HashOf \in [Data -> Data] /\ MsgOf \in [Data -> Msg]
    /\ \A d \in Data : IsAccount(d) => CheckWithPubs(AccountOf[d])
    \* no collisions; a hash is shorter than any account
    /\ \A d, e \in Data : IsAccount(d) /\ IsAccount(e) /\ HashOf[d] = HashOf[e]
                            => Identity(AccountOf[d]) = Identity(AccountOf[e])
    /\ \A d \in Data : ~IsAccount(HashOf[d])
    /\ Owners \subseteq Data /\ \A d \in Owners : IsAccount(d)
    /\ NoMsg \notin Msg
    /\ Inputs \subseteq Seq(Token)

VARIABLES
    owner,  \* the account the spent output is locked for
    input,  \* the input's script
    env,    \* "sign" while it runs alone (InEnv), "link" with the lock (LinkExectorEnv)
    pc,     \* next token; the tokens run so far are `step` in the code
    typs, eles,
    phase,  \* "run", "verify" in verify_full's loop, "ok", "err", "panic"
    loop,   \* state of that loop
    msg     \* the signing bytes, once known

vars == <<owner, input, env, pc, typs, eles, phase, loop, msg>>

(* Script::new_script_in, and new_script_out. *)
ScriptIn(d) == <<OpType(TypeIn), Push(Dat(d))>>

LockScript ==
    <<OpType(TypeOut), Op("verify_inout"), Op("hasher"), Push(Dat(HashOf[owner])),
      Op("equal_verify"), Op("checksig_verify")>>

Script == IF env = "sign" THEN input ELSE input \o LockScript

Idle == [i |-> 0, j |-> 0, less |-> 0]

Init ==
    /\ owner \in Owners /\ input \in Inputs
    /\ env = "sign" /\ pc = 1 /\ phase = "run"
    /\ typs = <<>> /\ eles = <<>>
    /\ loop = Idle
    /\ msg = NoMsg

-----------------------------------------------------------------------------
Running(o) == phase = "run" /\ pc \in DOMAIN Script /\ Script[pc].op = o

Top(n) == eles[Len(eles) - n + 1]
Popped(n) == SubSeq(eles, 1, Len(eles) - n)

Has(n) == Len(eles) >= n

TopIs(t) == Has(1) /\ Top(1).typ = t

(* The operation is done: the limit is looked at after it. *)
Continue ==
    /\ pc' = pc + 1
    /\ phase' = IF pc > MaxOps THEN "err" ELSE "run"
    /\ UNCHANGED <<owner, input, env, loop, msg>>

Fail ==
    /\ phase' = "err"
    /\ UNCHANGED <<owner, input, env, pc, typs, eles, loop, msg>>

Panics ==
    /\ phase' = "panic"
    /\ UNCHANGED <<owner, input, env, pc, typs, eles, loop, msg>>

(* What stops an operation that finds no account on top: from_bytes puts    *)
(* the keys and signatures listed in vectors of `num` places, and panics    *)
(* when there are more; all else is an error.                               *)
NotDecoded ==
    IF TopIs("data") /\ AccountOf[Top(1).v] = Overlong THEN Panics ELSE Fail

Type ==
    /\ Running("type")
    /\ typs' = Append(typs, Script[pc].typ)
    /\ Continue /\ UNCHANGED eles

PushEle ==
    /\ Running("push")
    /\ eles' = Append(eles, Script[pc].ele)
    /\ Continue /\ UNCHANGED typs

Verify ==
    /\ Running("verify")
    /\ IF TopIs("bool") /\ Top(1).v
       THEN eles' = Popped(1) /\ Continue /\ UNCHANGED typs
       ELSE Fail

(* The account stays on the stack under its hash. *)
Hasher ==
    /\ Running("hasher")
    /\ IF TopIs("data") /\ IsAccount(Top(1).v)
       THEN eles' = Append(eles, Dat(HashOf[Top(1).v])) /\ Continue /\ UNCHANGED typs
       ELSE NotDecoded

(* Elements are equal when type and value are. *)
SameEle(l, r) == l.typ = r.typ /\ l.v = r.v

Equal ==
    /\ Running("equal")
    /\ IF Has(2)
       THEN /\ eles' = Append(Popped(2), Bool(SameEle(Top(1), Top(2))))
            /\ Continue /\ UNCHANGED typs
       ELSE Fail

EqualVerify ==
    /\ Running("equal_verify")
    /\ IF Has(2) /\ SameEle(Top(1), Top(2))
       THEN eles' = Popped(2) /\ Continue /\ UNCHANGED typs
       ELSE Fail

Not ==
    /\ Running("not")
    /\ IF TopIs("bool")
       THEN eles' = Append(Popped(1), Bool(~Top(1).v)) /\ Continue /\ UNCHANGED typs
       ELSE Fail

VerifyInOut ==
    /\ Running("verify_inout")
    /\ IF typs = <<TypeIn, TypeOut>>
       THEN Continue /\ UNCHANGED <<typs, eles>>
       ELSE Fail

Bad == Running("bad") /\ Fail

-----------------------------------------------------------------------------
(* OP_CHECKSIG and OP_CHECKSIG_VERIFY.  InEnv panics; LinkExectorEnv calls  *)
(* verify_full, whose errors end the script where its "no" is a value.      *)
CheckingSig == Running("checksig") \/ Running("checksig_verify")

SigAccount == AccountOf[Top(1).v]

Answer(val) ==
    IF Script[pc].op = "checksig"
    THEN eles' = Append(Popped(1), Bool(val)) /\ Continue /\ UNCHANGED typs
    ELSE IF val THEN eles' = Popped(1) /\ Continue /\ UNCHANGED typs
    ELSE Fail

CheckSigAlone ==
    /\ CheckingSig /\ env = "sign"
    /\ IF Has(1) THEN Panics ELSE Fail

(* The account must decode, hold all its keys and enough signatures. *)
CanCheckSig == TopIs("data") /\ IsAccount(Top(1).v) /\ VerifyStarts(SigAccount)

CheckSigRefused ==
    /\ CheckingSig /\ env = "link"
    /\ ~CanCheckSig
    /\ NotDecoded

(* With an arbiter its key alone decides; its "no" is an error. *)
CheckSigArbiter ==
    /\ CheckingSig /\ env = "link"
    /\ CanCheckSig /\ UseArb(SigAccount)
    /\ IF VerifyWithPublic(SigAccount, SigAccount.arb + 1, msg) THEN Answer(TRUE) ELSE Fail

CheckSigStart ==
    /\ CheckingSig /\ env = "link"
    /\ CanCheckSig /\ ~UseArb(SigAccount)
    /\ phase' = "verify" /\ loop' = LoopStart(SigAccount)
    /\ UNCHANGED <<owner, input, env, pc, typs, eles, msg>>

CheckSigTurn ==
    /\ phase = "verify"
    /\ LoopOn(SigAccount, loop)
    /\ loop' = Turn(SigAccount, msg, loop)
    /\ UNCHANGED <<owner, input, env, pc, typs, eles, phase, msg>>

CheckSigEnd ==
    /\ phase = "verify"
    /\ ~LoopOn(SigAccount, loop)
    /\ Answer(loop.less = 0)

-----------------------------------------------------------------------------
AtEnd == phase = "run" /\ pc = Len(Script) + 1

(* encode_sign: the account on top signs, and the link environment runs the *)
(* script anew, with the lock.                                              *)
EncodeSign ==
    /\ env = "sign" /\ AtEnd
    /\ IF input # <<>> /\ TopIs("data") /\ IsAccount(Top(1).v)
       THEN /\ env' = "link" /\ pc' = 1
            /\ typs' = <<>> /\ eles' = <<>>
            /\ msg' = MsgOf[Top(1).v]
            /\ UNCHANGED <<owner, input, phase, loop>>
       ELSE NotDecoded

Accept ==
    /\ env = "link" /\ AtEnd
    /\ phase' = "ok"
    /\ UNCHANGED <<owner, input, env, pc, typs, eles, loop, msg>>

Next ==
    \/ Type \/ PushEle \/ Verify \/ Hasher \/ Equal \/ EqualVerify \/ Not
    \/ VerifyInOut \/ Bad
    \/ CheckSigAlone \/ CheckSigRefused \/ CheckSigArbiter
    \/ CheckSigStart \/ CheckSigTurn \/ CheckSigEnd
    \/ EncodeSign \/ Accept

(* exec runs in its caller's thread to the end. *)
Spec == Init /\ [][Next]_vars /\ WF_vars(Next)

-----------------------------------------------------------------------------
(***************************************************************************)
(* Properties.                                                             *)
(***************************************************************************)
TypeOK ==
    /\ owner \in Owners /\ input \in Seq(Token)
    /\ env \in {"sign", "link"}
    /\ pc \in 1..(Len(Script) + 1)
    /\ typs \in Seq(0..255) /\ eles \in Seq(Ele)
    /\ phase \in {"run", "verify", "ok", "err", "panic"}
    /\ loop \in [i : Nat, j : Nat, less : Nat]
    /\ msg \in Msg \cup {NoMsg}

(* An input that passes check_tx_sign was authorised by the owner of the    *)
(* output: it carries an account with the owner's keys, and signatures of   *)
(* the signing bytes by the arbiter or by keys at enough different places,  *)
(* whatever the input's script does before the lock runs, and whatever the  *)
(* order of its signatures (exec, verify_full).                             *)
SpendAuthorised ==
    phase = "ok" =>
        \E d \in Data :
            /\ \E n \in DOMAIN input : input[n] = Push(Dat(d))
            /\ IsAccount(d)
            /\ Identity(AccountOf[d]) = Identity(AccountOf[owner])
            /\ Authorised(AccountOf[d], msg)

(* Signed for this input, by the arbiter, or with signatures in the order   *)
(* of the keys: each is one of m under the key it stands for, later ones    *)
(* under later keys.                                                        *)
Honest(d) ==
    LET a == AccountOf[d]
        m == MsgOf[d]
        signed == {i \in DOMAIN a.sigs : a.sigs[i] # NoSig}
    IN  /\ HashOf[d] = HashOf[owner]
        /\ VerifyStarts(a)
        /\ IF UseArb(a) THEN SignedBy(a, a.num, m)
           ELSE \E place \in [signed -> DOMAIN a.pubs] : \A i \in signed :
                   /\ a.sigs[i] = <<a.pubs[place[i]], m>>
                   /\ \A k \in signed : i < k => place[i] < place[k]

(* The owner can always spend: a standard input whose account holds enough  *)
(* signatures, in the order of the keys, is accepted whichever of the keys  *)
(* signed (new_script_in, new_script_out, verify_full).                     *)
OwnerSpends ==
    (\E d \in Data : input = ScriptIn(d) /\ IsAccount(d) /\ Honest(d))
        => phase \notin {"err", "panic"}

(* exec returns: verify_full's loop ends (Exector::exec). *)
Ends == <>(phase \in {"ok", "err", "panic"})
=============================================================================
