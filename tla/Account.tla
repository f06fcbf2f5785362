-------------------------------- MODULE Account --------------------------------
(***************************************************************************)
(* Accounts (account.rs): `num` keys of which `less` must sign, or the     *)
(* arbiter alone.  A private key is shown as its public key; a signature   *)
(* is the pair of a key and the message it signed.  Positions count from   *)
(* 1, the code's indexes (and the field arb) from 0.                       *)
(***************************************************************************)
EXTENDS Integers, Sequences, FiniteSets

CONSTANTS
    Key, Msg,       \* key pairs, messages to sign
    NoKey, NoSig,   \* None in pubs and pris, None in sigs
    MaxKeys         \* MAX_ACCOUNT_KEY_SIZE

NoArb == 255        \* arb = 0xFF: no arbiter

Sig == Key \X Msg

Accounts ==
    {a \in [num : 0..255, less : 0..255, arb : 0..255, pris : Seq(Key \cup {NoKey}),
            pubs : Seq(Key \cup {NoKey}), sigs : Seq(Sig \cup {NoSig})] :
        Len(a.pris) = a.num /\ Len(a.pubs) = a.num /\ Len(a.sigs) = a.num}

ASSUME AccountAssumption ==
    /\ NoKey \notin Key /\ NoSig \notin Sig
    /\ MaxKeys \in 1..254

-----------------------------------------------------------------------------
(* What is present of a sequence of options, in order; and how much. *)
Present(s, none) ==
    LET upto[n \in 0..Len(s)] ==
          IF n = 0 THEN <<>>
          ELSE IF s[n] = none THEN upto[n - 1]
          ELSE Append(upto[n - 1], s[n])
    IN  upto[Len(s)]

Count(s, none)   == Cardinality({i \in DOMAIN s : s[i] # none})

Pad(s, none, n) == [i \in 1..n |-> IF i <= Len(s) THEN s[i] ELSE none]

UseArb(a) == a.arb # NoArb /\ a.arb = a.num - 1

Check(a) ==
    /\ a.num \in 1..MaxKeys
    /\ a.less \in 1..a.num
    /\ UseArb(a) => a.num >= 2

CheckWithPubs(a) == Check(a) /\ Count(a.pubs, NoKey) = a.num

(* Every public key has its private key. *)
CheckPrisPubs(a) == a.pris = a.pubs

(* Account::new without keys; ArbOf is how the readers below normalise arb. *)
ArbOf(num, arb) == IF arb # NoArb THEN num - 1 ELSE NoArb

New(num, less, arb) ==
    [num |-> num, less |-> less, arb |-> arb, pris |-> Pad(<<>>, NoKey, num),
     pubs |-> Pad(<<>>, NoKey, num), sigs |-> Pad(<<>>, NoSig, num)]

\* mutant of Identity: the signatures count
IdentityWithSigs(a) ==
    [num |-> a.num, less |-> a.less, arb |-> a.arb, pubs |-> a.pubs, sigs |-> a.sigs]

(* What the address is the hash of, and what a signature covers of it: *)
(* everything but private keys and signatures (hash, encode_sign).     *)
Identity(a) == [num |-> a.num, less |-> a.less, arb |-> a.arb, pubs |-> a.pubs]

-----------------------------------------------------------------------------
\* mutant of Pack: no more signatures than are asked for
PackFirst(a) ==
    LET sigs == Present(a.sigs, NoSig)
    IN  [num |-> a.num, less |-> a.less, arb |-> a.arb, pubs |-> Present(a.pubs, NoKey),
         sigs |-> SubSeq(sigs, 1, IF Len(sigs) < a.less THEN Len(sigs) ELSE a.less)]

(* into_bytes: no private keys, and the absent signatures are left out. *)
Pack(a) ==
    [num |-> a.num, less |-> a.less, arb |-> a.arb,
     pubs |-> Present(a.pubs, NoKey), sigs |-> Present(a.sigs, NoSig)]

(* from_bytes: when it succeeds, and what it returns. *)
Unpack(w) ==
    [New(w.num, w.less, ArbOf(w.num, w.arb)) EXCEPT
        !.pubs = Pad(w.pubs, NoKey, w.num), !.sigs = Pad(w.sigs, NoSig, w.num)]

CanUnpack(w) ==
    /\ w.num \in 1..MaxKeys
    /\ Len(w.pubs) <= w.num /\ Len(w.sigs) <= w.num
    /\ CheckWithPubs(Unpack(w))

(* encode_to_writer keeps both kinds of keys at their places, and no        *)
(* signature; decode_from_reader wants a private key for every public one.  *)
Loaded(a) ==
    [New(a.num, a.less, ArbOf(a.num, a.arb)) EXCEPT !.pubs = a.pubs, !.pris = a.pris]

CanLoad(a) == CheckWithPubs(Loaded(a)) /\ CheckPrisPubs(a)

-----------------------------------------------------------------------------
(* Private key i is there, and signs (sign_with_index). *)
CanSign(a, i) == i \in DOMAIN a.pris /\ a.pris[i] # NoKey
Signed(a, i, m) == [a EXCEPT !.sigs[i] = <<a.pris[i], m>>]

(* sign_full fails at the first private key that is missing. *)
CanSignFull(a) == \A i \in DOMAIN a.pris : CanSign(a, i)
SignedFull(a, m) == [a EXCEPT !.sigs = [i \in DOMAIN a.pris |-> <<a.pris[i], m>>]]

(* Signature s is one of m under key k. *)
Verifies(k, s, m) == k # NoKey /\ s # NoSig /\ s = <<k, m>>

(* verify_with_public: some signature is one of m under public key j. *)
VerifyWithPublic(a, j, m) ==
    /\ j \in DOMAIN a.pubs
    /\ \E i \in DOMAIN a.sigs : Verifies(a.pubs[j], a.sigs[i], m)

(* verify_full up to its loop: it answers at once (an error is a "no") ...  *)
VerifyStarts(a) ==
    /\ CheckWithPubs(a)
    /\ Count(a.sigs, NoSig) >= IF UseArb(a) THEN 1 ELSE a.less

(* ... or loops over signatures i and public keys j. *)
LoopStart(a) == [i |-> 1, j |-> 1, less |-> a.less]

\* mutant of LoopOn: the loop goes on when enough have signed
LoopOnPast(a, st) == st.i <= Len(a.sigs) /\ st.j <= Len(a.pubs)

LoopOn(a, st) == st.less # 0 /\ st.i <= Len(a.sigs) /\ st.j <= Len(a.pubs)

\* mutant of Turn: a match goes on with the next signature only
TurnSameKey(a, m, st) ==
    LET hit == Verifies(a.pubs[st.j], a.sigs[st.i], m)
    IN  IF a.sigs[st.i] = NoSig THEN [st EXCEPT !.i = @ + 1]
        ELSE IF hit THEN [i |-> st.i + 1, j |-> st.j, less |-> st.less - 1]
        ELSE [st EXCEPT !.j = @ + 1]

\* mutant of Turn: a mismatch uses up the signature as well
TurnSkips(a, m, st) ==
    LET hit == Verifies(a.pubs[st.j], a.sigs[st.i], m)
    IN  IF a.sigs[st.i] = NoSig THEN [st EXCEPT !.i = @ + 1]
        ELSE IF hit THEN [i |-> st.i + 1, j |-> st.j + 1, less |-> st.less - 1]
        ELSE [st EXCEPT !.i = @ + 1, !.j = @ + 1]

\* mutant of Turn: the key stays after a mismatch
TurnStuck(a, m, st) ==
    LET hit == Verifies(a.pubs[st.j], a.sigs[st.i], m)
    IN  IF a.sigs[st.i] = NoSig THEN [st EXCEPT !.i = @ + 1]
        ELSE IF hit THEN [i |-> st.i + 1, j |-> st.j + 1, less |-> st.less - 1]
        ELSE st

(* One turn: a match uses up both, a mismatch the key, None the signature. *)
Turn(a, m, st) ==
    LET hit == Verifies(a.pubs[st.j], a.sigs[st.i], m)
    IN  IF a.sigs[st.i] = NoSig THEN [st EXCEPT !.i = @ + 1]
        ELSE IF hit THEN [i |-> st.i + 1, j |-> st.j + 1, less |-> st.less - 1]
        ELSE [st EXCEPT !.j = @ + 1]

(* verify_full, its loop run to the end; it turns Len(sigs) + Len(pubs) times *)
(* at most.                                                                   *)
VerifyFull(a, m) ==
    /\ VerifyStarts(a)
    /\ IF UseArb(a) THEN VerifyWithPublic(a, a.arb + 1, m)
       ELSE LET run[n \in 0..(Len(a.sigs) + Len(a.pubs))] ==
                  IF n = 0 THEN LoopStart(a)
                  ELSE IF LoopOn(a, run[n - 1]) THEN Turn(a, m, run[n - 1])
                  ELSE run[n - 1]
            IN  run[Len(a.sigs) + Len(a.pubs)].less = 0

-----------------------------------------------------------------------------
(* What an accepted account means: the arbiter signed m, or keys at `less` *)
(* places did.                                                             *)
SignedBy(a, j, m) == \E i \in DOMAIN a.sigs : Verifies(a.pubs[j], a.sigs[i], m)

Authorised(a, m) ==
    IF UseArb(a) THEN SignedBy(a, a.num, m)
    ELSE \E K \in SUBSET (1..a.num) :
            /\ Cardinality(K) >= a.less
            /\ \A j \in K : SignedBy(a, j, m)
=============================================================================
