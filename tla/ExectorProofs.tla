----------------------------- MODULE ExectorProofs -----------------------------
(***************************************************************************)
(* Proofs about the interpreter, for all inputs, accounts and limits.      *)
(***************************************************************************)
EXTENDS Exector, FiniteSetTheorems, SequenceTheorems, TLAPS

(* The data d came from the input, or is a hash. *)
Given(d) == (\E n \in DOMAIN input : input[n] = Push(Dat(d))) \/ ~IsAccount(d)

Origin == \A n \in DOMAIN eles : eles[n].typ = "data" => Given(eles[n].v)

Len0 == Len(input)
Depth == Len(eles)

(* An account of the input lies on top under its hash, ... *)
HashedTop ==
    \E d \in Data : /\ IsAccount(d) /\ Given(d)
                    /\ Depth >= 2 /\ eles[Depth - 1] = Dat(d) /\ eles[Depth] = Dat(HashOf[d])

(* ... and under the lock's, ... *)
LockTop ==
    \E d \in Data : /\ IsAccount(d) /\ Given(d)
                    /\ Depth >= 3 /\ eles[Depth - 2] = Dat(d)
                    /\ eles[Depth - 1] = Dat(HashOf[d]) /\ eles[Depth] = Dat(HashOf[owner])

(* ... and the two were the same, ... *)
OwnTop ==
    \E d \in Data : /\ IsAccount(d) /\ Given(d)
                    /\ Depth >= 1 /\ eles[Depth] = Dat(d) /\ HashOf[d] = HashOf[owner]

(* ... and its signatures hold. *)
Proven ==
    \E d \in Data : /\ IsAccount(d) /\ Given(d) /\ HashOf[d] = HashOf[owner]
                    /\ Authorised(AccountOf[d], msg)

(* How far the lock has come, by the position in it. *)
Stage ==
    env = "link" /\ phase \in {"run", "verify", "ok"} =>
        /\ pc = Len0 + 4 => HashedTop
        /\ pc = Len0 + 5 => LockTop
        /\ pc = Len0 + 6 => OwnTop
        /\ pc = Len0 + 7 => Proven

(* The keys the loop has matched: one for each signature counted off, all   *)
(* of them before the key it looks at.                                      *)
Matching(a, m, st) ==
    \E K \in SUBSET (1..(st.j - 1)) :
        /\ IsFiniteSet(K)
        /\ Cardinality(K) + st.less = a.less
        /\ \A j \in K : j <= a.num /\ SignedBy(a, j, m)

Matched == Matching(SigAccount, msg, loop)

LoopInv ==
    phase = "verify" =>
        /\ env = "link" /\ pc \in DOMAIN Script
        /\ Script[pc].op \in {"checksig", "checksig_verify"}
        /\ CanCheckSig /\ ~UseArb(SigAccount)
        /\ loop.i >= 1 /\ loop.j >= 1
        /\ Matched

OkInv == phase = "ok" => env = "link" /\ pc = Len0 + 7

IInv == TypeOK /\ Origin /\ Stage /\ LoopInv /\ OkInv

-----------------------------------------------------------------------------
(* What the tokens and the elements hold. *)
LEMMA TokenFields ==
    ASSUME NEW t \in Token
    PROVE  /\ t.op = "type" => t.typ \in 0..255
           /\ t.op = "push" => t.ele \in Ele
  BY DEF Token

LEMMA EleFields ==
    ASSUME NEW e \in Ele
    PROVE  /\ e.typ = "data" => e.v \in Data /\ e = Dat(e.v)
           /\ e.typ = "bool" => e.v \in BOOLEAN
  BY DEF Ele, Dat

LEMMA MadeEles ==
    /\ \A b \in BOOLEAN : Bool(b) \in Ele /\ Bool(b).typ = "bool"
    /\ \A d \in Data : Dat(d) \in Ele /\ Dat(d).typ = "data" /\ Dat(d).v = d
  BY DEF Ele, Bool, Dat

LEMMA LockType ==
    ASSUME owner \in Owners
    PROVE  /\ LockScript \in Seq(Token) /\ Len(LockScript) = 6
           /\ LockScript[1] = OpType(TypeOut) /\ LockScript[2] = Op("verify_inout")
           /\ LockScript[3] = Op("hasher") /\ LockScript[4] = Push(Dat(HashOf[owner]))
           /\ LockScript[5] = Op("equal_verify") /\ LockScript[6] = Op("checksig_verify")
<1>1. HashOf[owner] \in Data
  BY ExectorAssumption
<1>2. Push(Dat(HashOf[owner])) \in Token
  BY <1>1, MadeEles DEF Push, Token
<1>3. OpType(TypeOut) \in Token
  BY DEF OpType, TypeOut, Token
<1>4. /\ Op("verify_inout") \in Token /\ Op("hasher") \in Token
      /\ Op("equal_verify") \in Token /\ Op("checksig_verify") \in Token
  BY DEF Op, Token
<1>5. DEFINE T == Token
<1>6. LockScript \in Seq(T)
  <2>1. /\ OpType(TypeOut) \in T /\ Op("verify_inout") \in T /\ Op("hasher") \in T
        /\ Push(Dat(HashOf[owner])) \in T /\ Op("equal_verify") \in T
        /\ Op("checksig_verify") \in T
    BY <1>2, <1>3, <1>4
  <2> HIDE DEF T
  <2> QED BY <2>1 DEF LockScript
<1> QED BY <1>6 DEF LockScript

LEMMA ScriptShape ==
    ASSUME TypeOK
    PROVE  /\ Script \in Seq(Token)
           /\ env = "sign" => Script = input
           /\ env = "link" => /\ Len(Script) = Len0 + 6
                              /\ \A n \in 1..Len0 : Script[n] = input[n]
                              /\ \A n \in 1..6 : Script[Len0 + n] = LockScript[n]
<1> DEFINE T == Token
<1>1. input \in Seq(T) /\ LockScript \in Seq(T) /\ Len(LockScript) = 6
  BY LockType DEF TypeOK
<1>2. env \in {"sign", "link"}
  BY DEF TypeOK
<1> HIDE DEF T
<1>3. Script \in Seq(T)
  BY <1>1, <1>2 DEF Script
<1>4. ASSUME env = "link"
      PROVE  /\ Len(Script) = Len0 + 6
             /\ \A n \in 1..Len0 : Script[n] = input[n]
             /\ \A n \in 1..6 : Script[Len0 + n] = LockScript[n]
  <2>1. Script = input \o LockScript
    BY <1>4 DEF Script
  <2>2. /\ Len(input \o LockScript) = Len(input) + Len(LockScript)
        /\ \A n \in 1..(Len(input) + Len(LockScript)) :
              (input \o LockScript)[n] = IF n <= Len(input) THEN input[n]
                                        ELSE LockScript[n - Len(input)]
    BY <1>1, ConcatProperties
  <2>3. Len(input) \in Nat
    BY <1>1
  <2>4. Len(Script) = Len0 + 6
    BY <1>1, <2>1, <2>2 DEF Len0
  <2>5. \A n \in 1..Len0 : Script[n] = input[n]
    BY <1>1, <2>1, <2>2, <2>3 DEF Len0
  <2>6. ASSUME NEW n \in 1..6 PROVE Script[Len0 + n] = LockScript[n]
    <3>1. /\ Len0 + n \in 1..(Len(input) + Len(LockScript)) /\ ~(Len0 + n <= Len(input))
          /\ (Len0 + n) - Len(input) = n
      BY <1>1, <2>3 DEF Len0
    <3> QED BY <3>1, <2>1, <2>2
  <2> QED BY <2>4, <2>5, <2>6
<1>6. env = "sign" => Script = input
  BY <1>2 DEF Script
<1> QED BY <1>3, <1>4, <1>6 DEF T
LEMMA LockOps ==
    ASSUME TypeOK, env = "link"
    PROVE  /\ pc = Len0 + 3 => Script[pc].op = "hasher"
           /\ pc = Len0 + 4 => Script[pc] = Push(Dat(HashOf[owner]))
           /\ pc = Len0 + 5 => Script[pc].op = "equal_verify"
           /\ pc = Len0 + 6 => Script[pc].op = "checksig_verify"
           /\ Len0 \in Nat
<1>1. \A n \in 1..6 : Script[Len0 + n] = LockScript[n]
  BY ScriptShape
<1>2. owner \in Owners /\ Len0 \in Nat
  BY DEF TypeOK, Len0
<1> QED BY <1>1, <1>2, LockType DEF Op, Push

LEMMA AppendShape ==
    ASSUME NEW S, NEW s \in Seq(S), NEW e \in S
    PROVE  /\ Append(s, e) \in Seq(S) /\ Len(Append(s, e)) = Len(s) + 1
           /\ Append(s, e)[Len(s) + 1] = e
           /\ \A n \in 1..Len(s) : Append(s, e)[n] = s[n]
           /\ DOMAIN Append(s, e) = 1..(Len(s) + 1) /\ DOMAIN s = 1..Len(s)
           /\ Len(s) \in Nat
  OBVIOUS

LEMMA PoppedShape ==
    ASSUME TypeOK, NEW n \in Nat, Has(n)
    PROVE  /\ Popped(n) \in Seq(Ele) /\ Len(Popped(n)) = Depth - n
           /\ \A k \in 1..(Depth - n) : Popped(n)[k] = eles[k]
           /\ DOMAIN Popped(n) = 1..(Depth - n) /\ DOMAIN eles = 1..Depth /\ Depth \in Nat
<1> DEFINE E == Ele
<1>1. eles \in Seq(E)
  BY DEF TypeOK
<1> HIDE DEF E
<1>2. Popped(n) \in Seq(E) /\ Len(Popped(n)) = Depth - n
  BY <1>1 DEF Popped, Has, Depth
<1>3. \A k \in 1..(Depth - n) : Popped(n)[k] = eles[k]
  BY <1>1 DEF Popped, Has, Depth
<1>4. DOMAIN eles = 1..Depth /\ Depth \in Nat /\ Depth >= n
  BY <1>1 DEF Depth, Has
<1> QED BY <1>2, <1>3, <1>4 DEF E

LEMMA TopShape ==
    ASSUME TypeOK, NEW n \in 1..Depth
    PROVE  Top(n) \in Ele /\ Top(n) = eles[Depth - n + 1] /\ Depth - n + 1 \in DOMAIN eles
<1> DEFINE E == Ele
<1>1. eles \in Seq(E)
  BY DEF TypeOK
<1> HIDE DEF E
<1>2. Depth - n + 1 \in DOMAIN eles
  BY <1>1 DEF Depth
<1>3. eles[Depth - n + 1] \in E
  BY <1>1, <1>2
<1> QED BY <1>2, <1>3 DEF E, Top, Depth

-----------------------------------------------------------------------------
(* Ending in an error, and going on to the next operation. *)
LEMMA FailKeeps == IInv /\ (Fail \/ Panics \/ NotDecoded) => IInv'
<1> SUFFICES ASSUME IInv, Fail \/ Panics \/ NotDecoded PROVE IInv'
  OBVIOUS
<1>1. /\ phase' \in {"err", "panic"}
      /\ UNCHANGED <<owner, input, env, pc, typs, eles, loop, msg>>
  BY DEF Fail, Panics, NotDecoded
<1>2. TypeOK'
  BY <1>1 DEF IInv, TypeOK, Script, LockScript
<1>3. Origin'
  BY <1>1 DEF IInv, Origin, Given
<1> QED BY <1>1, <1>2, <1>3 DEF IInv, Stage, LoopInv, OkInv

LEMMA ContinueTypes ==
    ASSUME TypeOK, Continue, pc \in DOMAIN Script, eles' \in Seq(Ele), typs' \in Seq(0..255)
    PROVE  TypeOK' /\ LoopInv' /\ OkInv'
<1>1. /\ pc' = pc + 1 /\ phase' \in {"run", "err"}
      /\ UNCHANGED <<owner, input, env, loop, msg>>
  BY DEF Continue
<1>2. Script' = Script
  BY <1>1 DEF Script, LockScript
<1>3. pc' \in 1..(Len(Script) + 1)
  BY <1>1, ScriptShape DEF TypeOK
<1>4. TypeOK'
  BY <1>1, <1>2, <1>3 DEF TypeOK
<1> QED BY <1>1, <1>4 DEF LoopInv, OkInv

(* The lock's stages one step on; each is up to one kind of operation. *)
LEMMA ContinueStage ==
    ASSUME TypeOK, Continue,
           env = "link" =>
              /\ pc = Len0 + 3 => HashedTop'
              /\ pc = Len0 + 4 => LockTop'
              /\ pc = Len0 + 5 => OwnTop'
              /\ pc = Len0 + 6 => Proven'
    PROVE  Stage'
<1>1. pc' = pc + 1 /\ UNCHANGED <<input, env>>
  BY DEF Continue
<1>2. Len0' = Len0 /\ Len0 \in Nat /\ pc \in Nat
  BY <1>1 DEF Len0, TypeOK
<1> QED BY <1>1, <1>2 DEF Stage

(* Elements that were there, or were given, were given. *)
LEMMA ContinueOrigin ==
    ASSUME Origin, Continue,
           \A n \in DOMAIN eles' : \/ n \in DOMAIN eles /\ eles'[n] = eles[n]
                                   \/ eles'[n].typ = "data" => Given(eles'[n].v)
    PROVE  Origin'
  BY DEF Origin, Continue, Given

(* The stack the operations leave: some elements fewer, at most one more. *)
LEMMA AfterPop ==
    ASSUME IInv, Continue, UNCHANGED typs, pc \in DOMAIN Script,
           NEW n \in Nat, Has(n), eles' = Popped(n)
    PROVE  TypeOK' /\ LoopInv' /\ OkInv' /\ Origin'
<1>1. eles' \in Seq(Ele)
  BY PoppedShape DEF IInv
<1>2. typs' \in Seq(0..255)
  BY DEF IInv, TypeOK
<1>3. Origin'
  <2>0. /\ DOMAIN Popped(n) = 1..(Depth - n) /\ DOMAIN eles = 1..Depth /\ Depth \in Nat
        /\ \A k \in 1..(Depth - n) : Popped(n)[k] = eles[k]
    BY PoppedShape DEF IInv
  <2>1. \A k \in DOMAIN eles' : k \in DOMAIN eles /\ eles'[k] = eles[k]
    BY <2>0
  <2> QED BY <2>1, ContinueOrigin DEF IInv
<1> QED BY <1>1, <1>2, <1>3, ContinueTypes DEF IInv

LEMMA AfterPush ==
    ASSUME IInv, Continue, UNCHANGED typs, pc \in DOMAIN Script,
           NEW n \in Nat, Has(n), NEW e \in Ele, e.typ = "data" => Given(e.v),
           eles' = Append(Popped(n), e)
    PROVE  TypeOK' /\ LoopInv' /\ OkInv' /\ Origin'
<1> DEFINE s == Popped(n)
<1>1. s \in Seq(Ele)
  BY PoppedShape DEF IInv
<1>2. /\ Append(s, e) \in Seq(Ele)
      /\ Append(s, e)[Len(s) + 1] = e
      /\ \A k \in 1..Len(s) : Append(s, e)[k] = s[k]
      /\ DOMAIN Append(s, e) = 1..(Len(s) + 1) /\ DOMAIN s = 1..Len(s)
      /\ Len(s) \in Nat
  BY <1>1, AppendShape
<1>3. typs' \in Seq(0..255)
  BY DEF IInv, TypeOK
<1>4. Origin'
  <2>1. \A k \in 1..Len(s) : k \in DOMAIN eles /\ s[k] = eles[k]
    BY <1>2, PoppedShape DEF IInv
  <2>2. ASSUME NEW k \in DOMAIN eles'
        PROVE  \/ k \in DOMAIN eles /\ eles'[k] = eles[k]
               \/ eles'[k].typ = "data" => Given(eles'[k].v)
    <3>1. k \in 1..Len(s) \/ k = Len(s) + 1
      BY <1>2
    <3> QED BY <3>1, <2>1, <1>2
  <2> QED BY <2>2, ContinueOrigin DEF IInv
<1> QED BY <1>2, <1>3, <1>4, ContinueTypes DEF IInv

(* Nothing popped is the stack itself. *)
LEMMA PopNone == ASSUME TypeOK PROVE Popped(0) = eles /\ Has(0)
<1> DEFINE E == Ele
<1>1. eles \in Seq(E)
  BY DEF TypeOK
<1> HIDE DEF E
<1> QED BY <1>1 DEF Popped, Has
-----------------------------------------------------------------------------
(* One lemma for each operation. *)
LEMMA InitInv == Init => IInv
<1> SUFFICES ASSUME Init PROVE IInv
  OBVIOUS
<1>1. TypeOK
  <2>1. input \in Seq(Token) /\ Len(input) \in Nat
    BY ExectorAssumption DEF Init
  <2>2. pc \in 1..(Len(Script) + 1)
    BY <2>1 DEF Init, Script
  <2> QED BY <2>1, <2>2 DEF Init, TypeOK, Idle
<1>2. Origin
  BY DEF Init, Origin
<1> QED BY <1>1, <1>2 DEF Init, IInv, Stage, LoopInv, OkInv

LEMMA TypeKeeps == IInv /\ Type => IInv'
<1> SUFFICES ASSUME IInv, Type PROVE IInv'
  OBVIOUS
<1>1. pc \in DOMAIN Script /\ Script[pc].op = "type" /\ UNCHANGED eles /\ Continue
  BY DEF Type, Running
<1>2. Script[pc] \in Token
  BY <1>1, ScriptShape DEF IInv
<1>3. Script[pc].typ \in 0..255
  BY <1>1, <1>2, TokenFields
<1>4. eles' \in Seq(Ele) /\ typs' \in Seq(0..255)
  BY <1>1, <1>3 DEF Type, IInv, TypeOK
<1>5. TypeOK' /\ LoopInv' /\ OkInv'
  BY <1>1, <1>4, ContinueTypes DEF IInv
<1>6. Origin'
  BY <1>1 DEF IInv, Origin, Continue, Given
<1>7. Stage'
  BY <1>1, LockOps, ContinueStage DEF IInv, Push
<1> QED BY <1>5, <1>6, <1>7 DEF IInv

LEMMA VerifyInOutKeeps == IInv /\ VerifyInOut => IInv'
<1> SUFFICES ASSUME IInv, VerifyInOut, Continue, UNCHANGED <<typs, eles>> PROVE IInv'
  BY FailKeeps DEF VerifyInOut
<1>1. pc \in DOMAIN Script /\ Script[pc].op = "verify_inout"
  BY DEF VerifyInOut, Running
<1>2. TypeOK' /\ LoopInv' /\ OkInv' /\ Origin'
  BY <1>1, PopNone, AfterPop DEF IInv
<1>3. Stage'
  BY <1>1, LockOps, ContinueStage DEF IInv, Push
<1> QED BY <1>2, <1>3 DEF IInv

LEMMA VerifyKeeps == IInv /\ Verify => IInv'
<1> SUFFICES ASSUME IInv, Verify, Continue, UNCHANGED typs, Has(1), eles' = Popped(1)
             PROVE  IInv'
  BY FailKeeps DEF Verify, TopIs
<1>1. pc \in DOMAIN Script /\ Script[pc].op = "verify"
  BY DEF Verify, Running
<1>2. TypeOK' /\ LoopInv' /\ OkInv' /\ Origin'
  BY <1>1, AfterPop
<1>3. Stage'
  BY <1>1, LockOps, ContinueStage DEF IInv, Push
<1> QED BY <1>2, <1>3 DEF IInv

LEMMA NotKeeps == IInv /\ Not => IInv'
<1> SUFFICES ASSUME IInv, Not, Continue, UNCHANGED typs, TopIs("bool"),
                    eles' = Append(Popped(1), Bool(~Top(1).v))
             PROVE  IInv'
  BY FailKeeps DEF Not
<1>1. pc \in DOMAIN Script /\ Script[pc].op = "not" /\ Has(1)
  BY DEF Not, Running, TopIs
<1>2. Bool(~Top(1).v) \in Ele /\ Bool(~Top(1).v).typ = "bool"
  <2>1. (~Top(1).v) \in BOOLEAN
    OBVIOUS
  <2> QED BY <2>1, MadeEles
<1>3. TypeOK' /\ LoopInv' /\ OkInv' /\ Origin'
  BY <1>1, <1>2, AfterPush
<1>4. Stage'
  BY <1>1, LockOps, ContinueStage DEF IInv, Push
<1> QED BY <1>3, <1>4 DEF IInv

LEMMA EqualKeeps == IInv /\ Equal => IInv'
<1> SUFFICES ASSUME IInv, Equal, Continue, UNCHANGED typs, Has(2),
                    eles' = Append(Popped(2), Bool(SameEle(Top(1), Top(2))))
             PROVE  IInv'
  BY FailKeeps DEF Equal
<1>1. pc \in DOMAIN Script /\ Script[pc].op = "equal"
  BY DEF Equal, Running
<1> DEFINE val == SameEle(Top(1), Top(2))
<1>2. Bool(val) \in Ele /\ Bool(val).typ = "bool"
  <2>1. val \in BOOLEAN
    BY DEF SameEle
  <2> HIDE DEF val
  <2> QED BY <2>1, MadeEles
<1>3. TypeOK' /\ LoopInv' /\ OkInv' /\ Origin'
  <2> HIDE DEF val
  <2>1. eles' = Append(Popped(2), Bool(val))
    BY DEF val
  <2> QED BY <1>1, <1>2, <2>1, AfterPush
<1>4. Stage'
  BY <1>1, LockOps, ContinueStage DEF IInv, Push
<1> QED BY <1>3, <1>4 DEF IInv
LEMMA PushToken ==
    ASSUME NEW t \in Token, t.op = "push"
    PROVE  t = Push(t.ele) /\ t.ele \in Ele
  BY DEF Token, Push

LEMMA PcRange ==
    ASSUME TypeOK, pc \in DOMAIN Script
    PROVE  /\ pc \in 1..Len(Script) /\ Len0 \in Nat /\ DOMAIN input = 1..Len0
           /\ env = "sign" => Len(Script) = Len0
<1> DEFINE T == Token
<1>1. Script \in Seq(T) /\ input \in Seq(T)
  BY ScriptShape DEF TypeOK
<1>2. env = "sign" => Len(Script) = Len0
  BY ScriptShape DEF Len0
<1> HIDE DEF T
<1> QED BY <1>1, <1>2 DEF Len0

LEMMA PushKeeps == IInv /\ PushEle => IInv'
<1> SUFFICES ASSUME IInv, PushEle PROVE IInv'
  OBVIOUS
<1> DEFINE e == Script[pc].ele
<1>1. /\ pc \in DOMAIN Script /\ Script[pc].op = "push" /\ Continue /\ UNCHANGED typs
      /\ eles' = Append(eles, e)
  BY DEF PushEle, Running
<1>2. Script[pc] \in Token /\ Script[pc] = Push(e) /\ e \in Ele
  BY <1>1, ScriptShape, PushToken DEF IInv
<1>3. e.typ = "data" => Given(e.v)
  <2>1. SUFFICES ASSUME e.typ = "data" PROVE Given(e.v)
    OBVIOUS
  <2>2. Script[pc] = Push(Dat(e.v))
    BY <1>2, <2>1, EleFields
  <2>3. CASE env = "sign" \/ pc <= Len0
    <3>1. pc \in 1..Len0
      BY <2>3, <1>1, PcRange DEF IInv
    <3>2. pc \in DOMAIN input /\ Script[pc] = input[pc]
      BY <3>1, <1>1, PcRange, ScriptShape DEF IInv, TypeOK
    <3> QED BY <3>2, <2>2 DEF Given
  <2>4. CASE env = "link" /\ pc > Len0
    <3>0. Len(Script) = Len0 + 6
      BY <2>4, ScriptShape DEF IInv
    <3>1. pc - Len0 \in 1..6 /\ pc = Len0 + (pc - Len0)
      <4>1. pc \in 1..Len(Script) /\ Len0 \in Nat
        BY <1>1, PcRange DEF IInv
      <4> QED BY <4>1, <3>0, <2>4
    <3>2. PICK n \in 1..6 : pc = Len0 + n
      BY <3>1
    <3>3. Script[pc] = LockScript[n]
      BY <2>4, <3>2, ScriptShape DEF IInv
    <3>4. n = 4
      BY <3>3, <1>1, LockType DEF IInv, TypeOK, Op, OpType
    <3>5. e = Dat(HashOf[owner])
      BY <3>3, <3>4, <1>2, LockType DEF IInv, TypeOK, Push
    <3>6. ~IsAccount(HashOf[owner]) /\ e.v = HashOf[owner]
      BY <3>5, ExectorAssumption DEF IInv, TypeOK, Dat
    <3> QED BY <3>6 DEF Given
  <2> QED BY <2>3, <2>4 DEF IInv, TypeOK, Len0
<1>4. TypeOK' /\ LoopInv' /\ OkInv' /\ Origin'
  <2> HIDE DEF e
  <2> QED BY <1>1, <1>2, <1>3, PopNone, AfterPush DEF IInv
<1>5. env = "link" /\ pc = Len0 + 4 => LockTop'
  <2> SUFFICES ASSUME env = "link", pc = Len0 + 4 PROVE LockTop'
    OBVIOUS
  <2>1. e = Dat(HashOf[owner])
    BY <1>2, LockOps DEF IInv, Push
  <2>2. phase = "run"
    BY DEF PushEle, Running
  <2>3. HashedTop
    BY <2>2 DEF IInv, Stage
  <2>4. PICK d \in Data : /\ IsAccount(d) /\ Given(d) /\ Depth >= 2
                          /\ eles[Depth - 1] = Dat(d) /\ eles[Depth] = Dat(HashOf[d])
    BY <2>3 DEF HashedTop
  <2>5. /\ Depth' = Depth + 1 /\ eles'[Depth + 1] = e /\ Depth \in Nat
        /\ \A n \in 1..Depth : eles'[n] = eles[n]
    <3> DEFINE E == Ele
    <3>1. eles \in Seq(E) /\ e \in E
      BY <1>2 DEF IInv, TypeOK
    <3> HIDE DEF E, e
    <3> QED BY <3>1, <1>1, AppendShape DEF Depth
  <2>6. eles'[Depth' - 2] = Dat(d) /\ eles'[Depth' - 1] = Dat(HashOf[d]) /\ Depth' >= 3
    BY <2>4, <2>5
  <2>7. eles'[Depth'] = Dat(HashOf[owner]) /\ owner' = owner /\ input' = input
    BY <2>1, <2>5, <1>1 DEF Continue
  <2> QED BY <2>4, <2>6, <2>7 DEF LockTop, Given
<1>6. Stage'
  <2>1. env = "link" => pc # Len0 + 3 /\ pc # Len0 + 5 /\ pc # Len0 + 6
    BY <1>1, LockOps DEF IInv
  <2> QED BY <2>1, <1>1, <1>5, ContinueStage DEF IInv
<1> QED BY <1>4, <1>6 DEF IInv

LEMMA HasherKeeps == IInv /\ Hasher => IInv'
<1> DEFINE v == Top(1).v
<1> SUFFICES ASSUME IInv, Hasher, Continue, UNCHANGED typs, TopIs("data"), IsAccount(v),
                    eles' = Append(eles, Dat(HashOf[v]))
             PROVE  IInv'
  BY FailKeeps DEF Hasher
<1>1. pc \in DOMAIN Script /\ Script[pc].op = "hasher" /\ phase = "run"
  BY DEF Hasher, Running
<1>2. Depth \in Nat /\ Depth >= 1
  BY DEF TopIs, Has, Depth, IInv, TypeOK
<1>3. Top(1) = eles[Depth] /\ Depth \in DOMAIN eles /\ v \in Data /\ Top(1) = Dat(v)
  BY <1>2, TopShape, EleFields DEF IInv, TopIs
<1>4. Given(v)
  BY <1>3 DEF IInv, Origin, TopIs
<1> DEFINE e == Dat(HashOf[v])
<1>5. e \in Ele /\ (e.typ = "data" => Given(e.v))
  <2>1. HashOf[v] \in Data /\ ~IsAccount(HashOf[v])
    BY <1>3, ExectorAssumption
  <2> QED BY <2>1, MadeEles DEF Given
<1>6. TypeOK' /\ LoopInv' /\ OkInv' /\ Origin'
  <2>1. eles' = Append(Popped(0), e) /\ Has(0)
    BY PopNone DEF IInv
  <2> HIDE DEF e
  <2> QED BY <1>1, <1>5, <2>1, AfterPush
<1>7. HashedTop'
  <2>1. /\ Depth' = Depth + 1 /\ eles'[Depth + 1] = e
        /\ \A n \in 1..Depth : eles'[n] = eles[n]
    <3> DEFINE E == Ele
    <3>1. eles \in Seq(E) /\ e \in E
      BY <1>5 DEF IInv, TypeOK
    <3> HIDE DEF E, e
    <3>2. eles' = Append(eles, e)
      BY DEF e
    <3> QED BY <3>1, <3>2, AppendShape DEF Depth
  <2>2. eles'[Depth' - 1] = Dat(v) /\ eles'[Depth'] = Dat(HashOf[v]) /\ Depth' >= 2
    BY <2>1, <1>2, <1>3
  <2>3. input' = input
    BY DEF Continue
  <2> HIDE DEF v
  <2> QED BY <2>2, <2>3, <1>3, <1>4 DEF HashedTop, Given
<1>8. Stage'
  <2>1. env = "link" => pc # Len0 + 4 /\ pc # Len0 + 5 /\ pc # Len0 + 6
    BY <1>1, LockOps DEF IInv, Push
  <2> QED BY <2>1, <1>7, ContinueStage DEF IInv
<1> QED BY <1>6, <1>8 DEF IInv

LEMMA EqualVerifyKeeps == IInv /\ EqualVerify => IInv'
<1> SUFFICES ASSUME IInv, EqualVerify, Continue, UNCHANGED typs, Has(2),
                    SameEle(Top(1), Top(2)), eles' = Popped(2)
             PROVE  IInv'
  BY FailKeeps DEF EqualVerify
<1>1. pc \in DOMAIN Script /\ Script[pc].op = "equal_verify" /\ phase = "run"
  BY DEF EqualVerify, Running
<1>2. TypeOK' /\ LoopInv' /\ OkInv' /\ Origin'
  BY <1>1, AfterPop
<1>3. env = "link" /\ pc = Len0 + 5 => OwnTop'
  <2> SUFFICES ASSUME env = "link", pc = Len0 + 5 PROVE OwnTop'
    OBVIOUS
  <2>1. LockTop
    BY <1>1 DEF IInv, Stage
  <2>2. PICK d \in Data : /\ IsAccount(d) /\ Given(d) /\ Depth >= 3
                          /\ eles[Depth - 2] = Dat(d) /\ eles[Depth - 1] = Dat(HashOf[d])
                          /\ eles[Depth] = Dat(HashOf[owner])
    BY <2>1 DEF LockTop
  <2>3. Depth \in Nat
    BY DEF Depth, IInv, TypeOK
  <2>4. Top(1) = eles[Depth] /\ Top(2) = eles[Depth - 1]
    BY <2>2, <2>3, TopShape DEF IInv
  <2>5. HashOf[d] = HashOf[owner]
    BY <2>2, <2>4 DEF SameEle, Dat
  <2>6. Depth' = Depth - 2 /\ \A k \in 1..(Depth - 2) : eles'[k] = eles[k]
    <3>1. Len(Popped(2)) = Depth - 2 /\ \A k \in 1..(Depth - 2) : Popped(2)[k] = eles[k]
      BY PoppedShape DEF IInv
    <3> QED BY <3>1 DEF Depth
  <2>7. eles'[Depth'] = Dat(d) /\ Depth' >= 1
    BY <2>2, <2>3, <2>6
  <2>8. owner' = owner /\ input' = input
    BY DEF Continue
  <2> QED BY <2>2, <2>5, <2>7, <2>8 DEF OwnTop, Given
<1>4. Stage'
  <2>1. env = "link" => pc # Len0 + 3 /\ pc # Len0 + 4 /\ pc # Len0 + 6
    BY <1>1, LockOps DEF IInv, Push
  <2> QED BY <2>1, <1>3, ContinueStage DEF IInv
<1> QED BY <1>2, <1>4 DEF IInv
-----------------------------------------------------------------------------
(* Signature checks. *)
LEMMA AnswerKeeps ==
    ASSUME IInv, NEW val \in BOOLEAN, Answer(val),
           pc \in DOMAIN Script, Script[pc].op \in {"checksig", "checksig_verify"},
           Has(1), phase \in {"run", "verify"},
           env = "link" /\ pc = Len0 + 6 /\ val => Proven
    PROVE  IInv'
<1>1. CASE Fail
  BY <1>1, FailKeeps
<1>2. CASE Script[pc].op = "checksig" /\ ~Fail
  <2>1. eles' = Append(Popped(1), Bool(val)) /\ Continue /\ UNCHANGED typs
    BY <1>2 DEF Answer
  <2>2. TypeOK' /\ LoopInv' /\ OkInv' /\ Origin'
    BY <2>1, MadeEles, AfterPush
  <2>3. Stage'
    BY <1>2, <2>1, LockOps, ContinueStage DEF IInv, Push
  <2> QED BY <2>2, <2>3 DEF IInv
<1>3. CASE Script[pc].op = "checksig_verify" /\ ~Fail
  <2>1. eles' = Popped(1) /\ Continue /\ UNCHANGED typs /\ val
    BY <1>3 DEF Answer
  <2>2. TypeOK' /\ LoopInv' /\ OkInv' /\ Origin'
    BY <2>1, AfterPop
  <2>3. env = "link" /\ pc = Len0 + 6 => Proven'
    <3>1. UNCHANGED <<owner, input, msg>>
      BY <2>1 DEF Continue
    <3> QED BY <3>1, <2>1 DEF Proven, Given
  <2>4. env = "link" => pc # Len0 + 3 /\ pc # Len0 + 4 /\ pc # Len0 + 5
    BY <1>3, LockOps DEF IInv, Push
  <2>5. Stage'
    BY <2>1, <2>3, <2>4, ContinueStage DEF IInv
  <2> QED BY <2>2, <2>5 DEF IInv
<1> QED BY <1>1, <1>2, <1>3

LEMMA CheckSigAloneKeeps == IInv /\ CheckSigAlone => IInv'
BY FailKeeps DEF CheckSigAlone

(* The account whose signatures are checked at the lock's end is the owner's. *)
LEMMA AtLockEnd ==
    ASSUME IInv, env = "link", pc = Len0 + 6, phase \in {"run", "verify"},
           Authorised(SigAccount, msg)
    PROVE  Proven
<1>1. PICK d \in Data : /\ IsAccount(d) /\ Given(d) /\ Depth >= 1
                        /\ eles[Depth] = Dat(d) /\ HashOf[d] = HashOf[owner]
  BY DEF IInv, Stage, OwnTop
<1>2. Depth \in Nat
  BY DEF Depth, IInv, TypeOK
<1>3. SigAccount = AccountOf[d]
  BY <1>1, <1>2, TopShape DEF IInv, SigAccount, Dat
<1> QED BY <1>1, <1>3 DEF Proven

(* The ranges of an account that passes. *)
LEMMA AccountShape ==
    ASSUME NEW a \in Accounts, CheckWithPubs(a)
    PROVE  /\ a.num \in 1..254 /\ a.less \in 1..a.num
           /\ Len(a.pubs) = a.num /\ DOMAIN a.pubs = 1..a.num
           /\ Len(a.sigs) = a.num /\ DOMAIN a.sigs = 1..a.num
<1>1. a.num \in 1..254 /\ a.less \in 1..a.num
  BY AccountAssumption DEF CheckWithPubs, Check
<1>2. Len(a.pubs) = a.num /\ DOMAIN a.pubs = 1..a.num
  BY DEF Accounts
<1>3. Len(a.sigs) = a.num /\ DOMAIN a.sigs = 1..a.num
  BY DEF Accounts
<1> QED BY <1>1, <1>2, <1>3

LEMMA SigAccountType ==
    ASSUME TypeOK, CanCheckSig
    PROVE  /\ SigAccount \in Accounts /\ CheckWithPubs(SigAccount) /\ Has(1)
           /\ SigAccount.num \in 1..254 /\ SigAccount.less \in 1..SigAccount.num
           /\ Len(SigAccount.pubs) = SigAccount.num /\ DOMAIN SigAccount.pubs = 1..SigAccount.num
           /\ Len(SigAccount.sigs) = SigAccount.num /\ DOMAIN SigAccount.sigs = 1..SigAccount.num
<1>1. Depth \in Nat /\ Depth >= 1
  BY DEF CanCheckSig, TopIs, Has, Depth, TypeOK
<1>2. Top(1).v \in Data
  BY <1>1, TopShape, EleFields DEF CanCheckSig, TopIs
<1>3. SigAccount \in Accounts /\ CheckWithPubs(SigAccount)
  BY <1>2, ExectorAssumption DEF CanCheckSig, SigAccount, IsAccount
<1> DEFINE a == SigAccount
<1> HIDE DEF a
<1>4. a \in Accounts /\ CheckWithPubs(a)
  BY <1>3 DEF a
<1>5. /\ a.num \in 1..254 /\ a.less \in 1..a.num
      /\ Len(a.pubs) = a.num /\ DOMAIN a.pubs = 1..a.num
      /\ Len(a.sigs) = a.num /\ DOMAIN a.sigs = 1..a.num
  BY <1>4, AccountShape
<1> QED BY <1>3, <1>5 DEF a, CanCheckSig, TopIs

LEMMA CheckSigArbiterKeeps == IInv /\ CheckSigArbiter => IInv'
<1> SUFFICES ASSUME IInv, CheckSigArbiter, Answer(TRUE),
                    VerifyWithPublic(SigAccount, SigAccount.arb + 1, msg)
             PROVE  IInv'
  BY FailKeeps DEF CheckSigArbiter
<1>1. /\ pc \in DOMAIN Script /\ Script[pc].op \in {"checksig", "checksig_verify"}
      /\ phase = "run" /\ env = "link" /\ CanCheckSig /\ UseArb(SigAccount)
  BY DEF CheckSigArbiter, CheckingSig, Running
<1>2. SigAccount.num \in 1..254 /\ Has(1)
  BY <1>1, SigAccountType DEF IInv
<1>3. SigAccount.arb + 1 = SigAccount.num
  BY <1>1, <1>2 DEF UseArb
<1>4. Authorised(SigAccount, msg)
  BY <1>1, <1>3 DEF VerifyWithPublic, Authorised, SignedBy
<1> QED BY <1>1, <1>2, <1>4, AtLockEnd, AnswerKeeps

(* verify_full's loop, its registers within their ranges: its start, one    *)
(* turn of it, and its end.                                                 *)
LEMMA MatchingStart ==
    ASSUME NEW a, a.less \in Nat, NEW m
    PROVE  Matching(a, m, LoopStart(a))
<1>1. LoopStart(a).j = 1 /\ LoopStart(a).less = a.less
  BY DEF LoopStart
<1>2. {} \in SUBSET (1..(1 - 1)) /\ IsFiniteSet({}) /\ Cardinality({}) = 0
  BY FS_EmptySet
<1>3. Cardinality({}) + a.less = a.less
  BY <1>2
<1> QED BY <1>1, <1>2, <1>3 DEF Matching

LEMMA MatchingTurn ==
    ASSUME NEW a \in Accounts, CheckWithPubs(a), NEW m,
           NEW i \in Nat, NEW j \in Nat, NEW l \in Nat, i >= 1, j >= 1,
           LoopOn(a, [i |-> i, j |-> j, less |-> l]),
           Matching(a, m, [i |-> i, j |-> j, less |-> l])
    PROVE  LET next == Turn(a, m, [i |-> i, j |-> j, less |-> l])
           IN  /\ next \in [i : Nat, j : Nat, less : Nat] /\ next.i >= 1 /\ next.j >= 1
               /\ Matching(a, m, next)
<1> DEFINE st == [i |-> i, j |-> j, less |-> l]
           next == Turn(a, m, st)
<1>1. /\ a.num \in 1..254 /\ a.less \in 1..a.num
      /\ Len(a.pubs) = a.num /\ Len(a.sigs) = a.num
      /\ DOMAIN a.pubs = 1..a.num /\ DOMAIN a.sigs = 1..a.num
  BY AccountShape
<1>2. i \in 1..a.num /\ j \in 1..a.num /\ l >= 1
  <2>1. l # 0 /\ i <= a.num /\ j <= a.num
    BY <1>1 DEF LoopOn
  <2> QED BY <2>1, <1>1
<1>3. PICK K \in SUBSET (1..(j - 1)) :
         /\ IsFiniteSet(K) /\ Cardinality(K) + l = a.less
         /\ \A k \in K : k <= a.num /\ SignedBy(a, k, m)
  BY DEF Matching
<1>4. \/ next = [i |-> i + 1, j |-> j, less |-> l]
      \/ next = [i |-> i, j |-> j + 1, less |-> l]
      \/ /\ next = [i |-> i + 1, j |-> j + 1, less |-> l - 1]
         /\ Verifies(a.pubs[j], a.sigs[i], m)
  BY DEF Turn
<1> HIDE DEF next
<1>5. next \in [i : Nat, j : Nat, less : Nat] /\ next.i >= 1 /\ next.j >= 1
  BY <1>2, <1>4, <1>1
<1>6. \E L \in SUBSET (1..(next.j - 1)) :
         /\ IsFiniteSet(L) /\ Cardinality(L) + next.less = a.less
         /\ \A k \in L : k <= a.num /\ SignedBy(a, k, m)
  <2>1. CASE next = [i |-> i + 1, j |-> j, less |-> l] \/ next = [i |-> i, j |-> j + 1, less |-> l]
    <3>1. K \in SUBSET (1..(next.j - 1)) /\ next.less = l
      BY <2>1, <1>2, <1>1
    <3> QED BY <3>1, <1>3
  <2>2. CASE next = [i |-> i + 1, j |-> j + 1, less |-> l - 1] /\ Verifies(a.pubs[j], a.sigs[i], m)
    <3>1. j \notin K /\ K \cup {j} \in SUBSET (1..(next.j - 1)) /\ next.less = l - 1
      BY <2>2, <1>2, <1>3, <1>1
    <3>2. IsFiniteSet(K \cup {j}) /\ Cardinality(K \cup {j}) = Cardinality(K) + 1
      BY <3>1, <1>3, FS_AddElement
    <3>3. Cardinality(K) \in Nat
      BY <1>3, FS_CardinalityType
    <3>4. Cardinality(K \cup {j}) + next.less = a.less
      BY <3>1, <3>2, <3>3, <1>3
    <3>5. j <= a.num /\ SignedBy(a, j, m)
      BY <2>2, <1>2, <1>1 DEF SignedBy
    <3> QED BY <3>1, <3>2, <3>4, <3>5, <1>3
  <2> QED BY <2>1, <2>2, <1>4
<1>7. Matching(a, m, next)
  BY <1>6 DEF Matching
<1> QED BY <1>5, <1>7 DEF next

LEMMA MatchingEnd ==
    ASSUME NEW a \in Accounts, CheckWithPubs(a), NEW m, NEW j \in Nat, NEW st,
           st.j = j, st.less = 0, Matching(a, m, st), ~UseArb(a)
    PROVE  Authorised(a, m)
<1>1. PICK K \in SUBSET (1..(j - 1)) :
         /\ IsFiniteSet(K) /\ Cardinality(K) + 0 = a.less
         /\ \A k \in K : k <= a.num /\ SignedBy(a, k, m)
  BY DEF Matching
<1>2. a.num \in 1..254 /\ a.less \in Nat
  BY AccountShape
<1>3. Cardinality(K) >= a.less
  <2>1. Cardinality(K) \in Nat
    BY <1>1, FS_CardinalityType
  <2> QED BY <2>1, <1>1, <1>2
<1>4. K \in SUBSET (1..a.num)
  BY <1>1, <1>2
<1> QED BY <1>1, <1>3, <1>4 DEF Authorised

LEMMA CheckSigStartKeeps == IInv /\ CheckSigStart => IInv'
<1> SUFFICES ASSUME IInv, CheckSigStart PROVE IInv'
  OBVIOUS
<1>1. /\ pc \in DOMAIN Script /\ Script[pc].op \in {"checksig", "checksig_verify"}
      /\ phase = "run" /\ env = "link" /\ CanCheckSig /\ ~UseArb(SigAccount)
      /\ phase' = "verify" /\ loop' = LoopStart(SigAccount)
      /\ UNCHANGED <<owner, input, env, pc, typs, eles, msg>>
  BY DEF CheckSigStart, CheckingSig, Running
<1>2. SigAccount.less \in Nat
  BY <1>1, SigAccountType DEF IInv
<1>3. loop'.i = 1 /\ loop'.j = 1 /\ loop'.less = SigAccount.less
      /\ loop' \in [i : Nat, j : Nat, less : Nat]
  BY <1>1, <1>2 DEF LoopStart
<1>4. Script' = Script /\ SigAccount' = SigAccount /\ CanCheckSig'
  BY <1>1 DEF Script, LockScript, SigAccount, Top, CanCheckSig, TopIs, Has
<1>5. TypeOK'
  BY <1>1, <1>3, <1>4 DEF IInv, TypeOK
<1>6. Matched'
  <2>1. Matching(SigAccount, msg, LoopStart(SigAccount))
    BY <1>2, MatchingStart
  <2> QED BY <2>1, <1>1, <1>4 DEF Matched
<1>7. LoopInv'
  BY <1>1, <1>3, <1>4, <1>6 DEF LoopInv
<1>8. Origin' /\ Stage' /\ OkInv'
  BY <1>1 DEF IInv, Origin, Given, Stage, HashedTop, LockTop, OwnTop, Proven, Depth, Len0,
              OkInv
<1> QED BY <1>5, <1>7, <1>8 DEF IInv

LEMMA CheckSigTurnKeeps == IInv /\ CheckSigTurn => IInv'
<1> SUFFICES ASSUME IInv, CheckSigTurn PROVE IInv'
  OBVIOUS
<1> DEFINE a == SigAccount
<1>1. /\ phase = "verify" /\ LoopOn(a, loop) /\ loop' = Turn(a, msg, loop)
      /\ UNCHANGED <<owner, input, env, pc, typs, eles, phase, msg>>
      /\ LoopInv /\ CanCheckSig
  BY DEF CheckSigTurn, IInv, LoopInv
<1>2. a \in Accounts /\ CheckWithPubs(a)
  BY <1>1, SigAccountType DEF IInv
<1>3. /\ Script' = Script /\ SigAccount' = SigAccount /\ (CanCheckSig' <=> CanCheckSig)
  BY <1>1 DEF Script, LockScript, SigAccount, Top, CanCheckSig, TopIs, Has
<1>4. PICK i \in Nat, j \in Nat, l \in Nat : loop = [i |-> i, j |-> j, less |-> l]
  BY DEF IInv, TypeOK
<1>5. i >= 1 /\ j >= 1 /\ LoopOn(a, [i |-> i, j |-> j, less |-> l])
      /\ Matching(a, msg, [i |-> i, j |-> j, less |-> l])
  BY <1>1, <1>4 DEF LoopInv, Matched
<1> HIDE DEF a
<1>6. /\ loop' \in [i : Nat, j : Nat, less : Nat] /\ loop'.i >= 1 /\ loop'.j >= 1
      /\ Matching(a, msg, loop')
  BY <1>1, <1>2, <1>4, <1>5, MatchingTurn
<1>7. TypeOK'
  BY <1>1, <1>3, <1>6 DEF IInv, TypeOK
<1>8. Matched'
  BY <1>1, <1>3, <1>6 DEF Matched, a
<1>9. LoopInv'
  BY <1>1, <1>3, <1>6, <1>8 DEF LoopInv
<1>10. Origin' /\ Stage' /\ OkInv'
  BY <1>1 DEF IInv, Origin, Given, Stage, HashedTop, LockTop, OwnTop, Proven, Depth, Len0,
              OkInv
<1> QED BY <1>7, <1>9, <1>10 DEF IInv

LEMMA CheckSigEndKeeps == IInv /\ CheckSigEnd => IInv'
<1> SUFFICES ASSUME IInv, CheckSigEnd PROVE IInv'
  OBVIOUS
<1> DEFINE val == loop.less = 0
<1>1. phase = "verify" /\ Answer(val)
  BY DEF CheckSigEnd
<1>2. /\ env = "link" /\ pc \in DOMAIN Script
      /\ Script[pc].op \in {"checksig", "checksig_verify"}
      /\ CanCheckSig /\ ~UseArb(SigAccount) /\ Matched
  BY <1>1 DEF IInv, LoopInv
<1>3. Has(1) /\ SigAccount.num \in 1..254 /\ SigAccount.less \in Nat
  BY <1>2, SigAccountType DEF IInv
<1>4. val => Authorised(SigAccount, msg)
  <2>1. SigAccount \in Accounts /\ CheckWithPubs(SigAccount) /\ loop.j \in Nat
    BY <1>2, SigAccountType DEF IInv, TypeOK
  <2> QED BY <2>1, <1>2, MatchingEnd DEF Matched
<1>5. val \in BOOLEAN
  OBVIOUS
<1>6. env = "link" /\ pc = Len0 + 6 /\ val => Proven
  BY <1>1, <1>2, <1>4, AtLockEnd
<1> HIDE DEF val
<1> QED BY <1>1, <1>2, <1>3, <1>5, <1>6, AnswerKeeps

-----------------------------------------------------------------------------
LEMMA EncodeSignKeeps == IInv /\ EncodeSign => IInv'
<1> SUFFICES ASSUME IInv, EncodeSign, TopIs("data"),
                    env' = "link", pc' = 1, typs' = <<>>, eles' = <<>>,
                    msg' = MsgOf[Top(1).v], UNCHANGED <<owner, input, phase, loop>>
             PROVE  IInv'
  BY FailKeeps DEF EncodeSign
<1>1. phase' = "run"
  BY DEF EncodeSign, AtEnd
<1>2. Top(1).v \in Data
  <2>1. Depth \in Nat /\ Depth >= 1
    BY DEF TopIs, Has, Depth, IInv, TypeOK
  <2> QED BY <2>1, TopShape, EleFields DEF IInv, TopIs
<1>3. msg' \in Msg
  BY <1>2, ExectorAssumption
<1>4. pc' \in 1..(Len(Script') + 1) /\ Len(input) \in Nat
  <2> DEFINE T == Token
  <2>1. input \in Seq(T) /\ LockScript' \in Seq(T)
    BY LockType DEF IInv, TypeOK, LockScript
  <2> HIDE DEF T
  <2>2. Script' = input \o LockScript'
    BY DEF Script
  <2>3. Len(Script') \in Nat /\ Len(input) \in Nat
    BY <2>1, <2>2
  <2> QED BY <2>3
<1>5. TypeOK'
  BY <1>1, <1>3, <1>4 DEF IInv, TypeOK
<1>6. Stage'
  BY <1>4 DEF Stage, Len0
<1> QED BY <1>1, <1>5, <1>6 DEF IInv, Origin, LoopInv, OkInv

LEMMA AcceptKeeps == IInv /\ Accept => IInv'
<1> SUFFICES ASSUME IInv, Accept PROVE IInv'
  OBVIOUS
<1>1. /\ env = "link" /\ phase = "run" /\ pc = Len(Script) + 1 /\ phase' = "ok"
      /\ UNCHANGED <<owner, input, env, pc, typs, eles, loop, msg>>
  BY DEF Accept, AtEnd
<1>2. pc = Len0 + 7
  <2>1. Len(Script) = Len0 + 6 /\ Len0 \in Nat
    BY <1>1, ScriptShape, LockOps DEF IInv
  <2> QED BY <2>1, <1>1
<1>3. TypeOK'
  BY <1>1 DEF IInv, TypeOK, Script, LockScript
<1>4. Origin' /\ Stage'
  BY <1>1 DEF IInv, Origin, Given, Stage, HashedTop, LockTop, OwnTop, Proven, Depth, Len0
<1>5. OkInv'
  BY <1>1, <1>2 DEF OkInv, Len0
<1> QED BY <1>1, <1>3, <1>4, <1>5 DEF IInv, LoopInv

-----------------------------------------------------------------------------
LEMMA Inductive == IInv /\ [Next]_vars => IInv'
<1> SUFFICES ASSUME IInv, [Next]_vars PROVE IInv'
  OBVIOUS
<1>1. CASE Type \/ PushEle \/ Verify \/ Hasher \/ Equal
  BY <1>1, TypeKeeps, PushKeeps, VerifyKeeps, HasherKeeps, EqualKeeps
<1>2. CASE EqualVerify \/ Not \/ VerifyInOut \/ Bad
  BY <1>2, EqualVerifyKeeps, NotKeeps, VerifyInOutKeeps, FailKeeps DEF Bad
<1>3. CASE CheckSigAlone \/ CheckSigRefused \/ CheckSigArbiter
  BY <1>3, CheckSigAloneKeeps, FailKeeps, CheckSigArbiterKeeps DEF CheckSigRefused
<1>4. CASE CheckSigStart \/ CheckSigTurn \/ CheckSigEnd
  BY <1>4, CheckSigStartKeeps, CheckSigTurnKeeps, CheckSigEndKeeps
<1>5. CASE EncodeSign \/ Accept
  BY <1>5, EncodeSignKeeps, AcceptKeeps
<1>6. CASE UNCHANGED vars
  <2>1. TypeOK'
    BY <1>6 DEF vars, IInv, TypeOK, Script, LockScript
  <2>2. Origin'
    BY <1>6 DEF vars, IInv, Origin, Given
  <2>3. Stage'
    BY <1>6 DEF vars, IInv, Stage, HashedTop, LockTop, OwnTop, Proven, Given, Depth, Len0
  <2>4. LoopInv'
    BY <1>6 DEF vars, IInv, LoopInv, Matched, Matching, CanCheckSig, TopIs, Has, Top, SigAccount,
                Script, LockScript
  <2>5. OkInv'
    BY <1>6 DEF vars, IInv, OkInv, Len0
  <2> QED BY <2>1, <2>2, <2>3, <2>4, <2>5 DEF IInv
<1> QED BY <1>1, <1>2, <1>3, <1>4, <1>5, <1>6 DEF Next

THEOREM Invariance == Spec => []IInv
<1> QED BY InitInv, Inductive, PTL DEF Spec

(* The registers of the interpreter keep their types; verify_full's count   *)
(* of missing signatures never goes below zero (a u8 in the code).          *)
THEOREM TypeCorrect == Spec => []TypeOK
<1>1. IInv => TypeOK
  BY DEF IInv
<1> QED BY <1>1, Invariance, PTL

(* Whatever the input's script is, an input that passes was authorised by   *)
(* the owner of the output it spends (exec with the lock of new_script_out, *)
(* verify_full).                                                            *)
THEOREM Authorisation == Spec => []SpendAuthorised
<1>1. IInv => SpendAuthorised
  <2> SUFFICES ASSUME IInv, phase = "ok" PROVE SpendAuthorised
    BY DEF SpendAuthorised
  <2>1. PICK d \in Data : /\ IsAccount(d) /\ Given(d) /\ HashOf[d] = HashOf[owner]
                          /\ Authorised(AccountOf[d], msg)
    BY DEF IInv, OkInv, Stage, Proven
  <2>2. Identity(AccountOf[d]) = Identity(AccountOf[owner])
    BY <2>1, ExectorAssumption DEF IInv, TypeOK
  <2>3. \E n \in DOMAIN input : input[n] = Push(Dat(d))
    BY <2>1 DEF Given
  <2> QED BY <2>1, <2>2, <2>3 DEF SpendAuthorised
<1> QED BY <1>1, Invariance, PTL
-----------------------------------------------------------------------------
(***************************************************************************)
(* The owner can always spend.  A standard input is followed token by      *)
(* token: what lies on the stacks before each, and, in verify_full's loop, *)
(* that the signatures ahead of it still stand for keys ahead of it.       *)
(***************************************************************************)
(* The signatures of an account that are there; and the keys they stand for. *)
SignedAt(a) == {i \in DOMAIN a.sigs : a.sigs[i] # NoSig}

Places(a, m) ==
    {place \in [SignedAt(a) -> DOMAIN a.pubs] :
        \A i \in SignedAt(a) : /\ a.sigs[i] = <<a.pubs[place[i]], m>>
                               /\ \A k \in SignedAt(a) : i < k => place[i] < place[k]}

(* Every signature behind the loop was counted off, and the keys of those   *)
(* ahead of it are ahead of it.                                             *)
Left(a, m, st) ==
    \E place \in Places(a, m) :
        /\ \A i \in SignedAt(a) : i >= st.i => place[i] >= st.j
        /\ Cardinality({i \in SignedAt(a) : i < st.i}) + st.less = a.less

(* Places are numbers up to the account's `num`. *)
LEMMA SignedFinite ==
    ASSUME NEW a \in Accounts
    PROVE  /\ SignedAt(a) \subseteq 1..a.num /\ DOMAIN a.sigs = 1..a.num
           /\ DOMAIN a.pubs = 1..a.num /\ Len(a.sigs) = a.num /\ Len(a.pubs) = a.num
           /\ a.num \in Nat
           /\ \A S \in SUBSET SignedAt(a) : IsFiniteSet(S) /\ Cardinality(S) \in Nat
<1>1. Len(a.sigs) = a.num /\ Len(a.pubs) = a.num /\ a.num \in 0..255
  BY DEF Accounts
<1>2. DOMAIN a.sigs = 1..a.num /\ DOMAIN a.pubs = 1..a.num
  <2>1. a.sigs \in Seq(Sig \cup {NoSig}) /\ a.pubs \in Seq(Key \cup {NoKey})
    BY DEF Accounts
  <2> QED BY <2>1, <1>1, LenProperties
<1>3. SignedAt(a) \subseteq 1..a.num
  BY <1>2 DEF SignedAt
<1>4. IsFiniteSet(1..a.num)
  BY <1>1, FS_Interval
<1>5. ASSUME NEW S \in SUBSET SignedAt(a) PROVE IsFiniteSet(S) /\ Cardinality(S) \in Nat
  <2>1. S \in SUBSET (1..a.num)
    BY <1>3
  <2> QED BY <2>1, <1>4, FS_Subset, FS_CardinalityType
<1> QED BY <1>1, <1>2, <1>3, <1>5

(* verify_full's loop: its start, one turn of it, and its end. *)
LEMMA LeftStart ==
    ASSUME NEW a \in Accounts, NEW m, Places(a, m) # {}, a.less \in Nat
    PROVE  Left(a, m, LoopStart(a))
<1>1. PICK place \in Places(a, m) : TRUE
  OBVIOUS
<1>2. \A i \in SignedAt(a) : i >= 1 /\ place[i] >= 1
  BY <1>1, SignedFinite DEF Places
<1>3. {i \in SignedAt(a) : i < 1} = {}
  BY SignedFinite
<1>4. Cardinality({i \in SignedAt(a) : i < 1}) + a.less = a.less
  BY <1>3, FS_EmptySet
<1>5. LoopStart(a).i = 1 /\ LoopStart(a).j = 1 /\ LoopStart(a).less = a.less
  BY DEF LoopStart
<1> QED BY <1>1, <1>2, <1>4, <1>5 DEF Left

(* No key is missing of an account that passes. *)
LEMMA KeysThere ==
    ASSUME NEW a \in Accounts, CheckWithPubs(a)
    PROVE  \A j \in DOMAIN a.pubs : a.pubs[j] # NoKey
<1>1. DOMAIN a.pubs = 1..a.num /\ a.num \in Nat
  BY SignedFinite
<1> DEFINE K == {j \in DOMAIN a.pubs : a.pubs[j] # NoKey}
<1>2. Cardinality(K) = a.num
  BY DEF CheckWithPubs, Count
<1>3. K \in SUBSET (1..a.num)
  BY <1>1
<1> HIDE DEF K
<1>4. IsFiniteSet(1..a.num) /\ Cardinality(1..a.num) = a.num
  BY <1>1, FS_Interval
<1>5. K = 1..a.num
  BY <1>2, <1>3, <1>4, FS_Subset
<1> QED BY <1>5, <1>1 DEF K

LEMMA LeftTurn ==
    ASSUME NEW a \in Accounts, CheckWithPubs(a), NEW m,
           NEW i \in Nat, NEW j \in Nat, NEW l \in Nat,
           i >= 1, j >= 1,
           LoopOn(a, [i |-> i, j |-> j, less |-> l]),
           Left(a, m, [i |-> i, j |-> j, less |-> l])
    PROVE  Left(a, m, Turn(a, m, [i |-> i, j |-> j, less |-> l]))
<1> DEFINE S == SignedAt(a)
           st == [i |-> i, j |-> j, less |-> l]
<1>1. PICK place \in Places(a, m) :
         /\ \A n \in S : n >= i => place[n] >= j
         /\ Cardinality({n \in S : n < i}) + l = a.less
  BY DEF Left
<1>2. /\ S \subseteq 1..a.num /\ DOMAIN a.sigs = 1..a.num /\ DOMAIN a.pubs = 1..a.num
      /\ a.num \in Nat
      /\ \A T \in SUBSET S : IsFiniteSet(T) /\ Cardinality(T) \in Nat
      /\ Len(a.sigs) = a.num /\ Len(a.pubs) = a.num
  BY SignedFinite
<1>3. i \in 1..a.num /\ j \in 1..a.num /\ l > 0
  BY <1>2 DEF LoopOn
<1>4. /\ \A n \in S : place[n] \in 1..a.num /\ a.sigs[n] = <<a.pubs[place[n]], m>>
      /\ \A n \in S : \A k \in S : n < k => place[n] < place[k]
  BY <1>2 DEF Places
<1>5. CASE a.sigs[i] = NoSig
  <2>1. Turn(a, m, st) = [i |-> i + 1, j |-> j, less |-> l]
    BY <1>5 DEF Turn
  <2>2. i \notin S
    BY <1>5 DEF SignedAt
  <2>3. {n \in S : n < i + 1} = {n \in S : n < i}
    BY <2>2, <1>2
  <2>4. \A n \in S : n >= i + 1 => place[n] >= j
    BY <1>1, <1>2
  <2> QED BY <2>1, <2>3, <2>4, <1>1 DEF Left
<1>6. CASE a.sigs[i] # NoSig
  <2>0. i \in S
    BY <1>6, <1>3, <1>2 DEF SignedAt
  <2>1. \A n \in S : n >= i => place[n] >= place[i]
    <3> TAKE n \in S
    <3>1. CASE n = i
      BY <3>1, <1>4, <2>0
    <3>2. CASE n # i
      BY <3>2, <1>4, <2>0, <1>2
    <3> QED BY <3>1, <3>2
  <2>2. place[i] >= j /\ place[i] \in Nat
    BY <2>0, <1>1, <1>4, <1>3
  <2>3. CASE Verifies(a.pubs[j], a.sigs[i], m)
    <3>1. Turn(a, m, st) = [i |-> i + 1, j |-> j + 1, less |-> l - 1]
      BY <2>3, <1>6 DEF Turn
    <3>2. {n \in S : n < i + 1} = {n \in S : n < i} \cup {i} /\ i \notin {n \in S : n < i}
      BY <2>0, <1>2
    <3> DEFINE B == {n \in S : n < i}
    <3>3. B \in SUBSET S
      OBVIOUS
    <3> HIDE DEF B
    <3>4. IsFiniteSet(B) /\ Cardinality(B) \in Nat
      BY <3>3, <1>2
    <3>5. Cardinality(B \cup {i}) = Cardinality(B) + 1
      BY <3>2, <3>4, FS_AddElement DEF B
    <3>6. Cardinality(B \cup {i}) + (l - 1) = a.less
      BY <3>4, <3>5, <1>1 DEF B
    <3>7. \A n \in S : n >= i + 1 => place[n] >= j + 1
      <4> SUFFICES ASSUME NEW n \in S, n >= i + 1 PROVE place[n] >= j + 1
        OBVIOUS
      <4>1. n \in Nat /\ place[n] \in Nat
        BY <1>2, <1>4
      <4>2. place[i] < place[n]
        BY <4>1, <1>4, <2>0
      <4> QED BY <4>1, <4>2, <2>2
    <3>8. Cardinality({n \in S : n < i + 1}) + (l - 1) = a.less
      BY <3>2, <3>6 DEF B
    <3>9. Left(a, m, [i |-> i + 1, j |-> j + 1, less |-> l - 1])
      BY <3>7, <3>8, <1>1 DEF Left
    <3> QED BY <3>1, <3>9
  <2>4. CASE ~Verifies(a.pubs[j], a.sigs[i], m)
    <3>1. Turn(a, m, st) = [i |-> i, j |-> j + 1, less |-> l]
      BY <2>4, <1>6 DEF Turn
    <3>2. a.pubs[place[i]] # NoKey
      BY KeysThere, <1>4, <2>0, <1>2
    <3>3. place[i] # j
      BY <3>2, <2>4, <1>4, <1>6, <2>0 DEF Verifies
    <3>4. \A n \in S : n >= i => place[n] >= j + 1
      <4> SUFFICES ASSUME NEW n \in S, n >= i PROVE place[n] >= j + 1
        OBVIOUS
      <4>1. place[n] >= place[i] /\ place[n] \in Nat
        BY <2>1, <1>4
      <4> QED BY <4>1, <2>2, <3>3
    <3>5. Left(a, m, [i |-> i, j |-> j + 1, less |-> l])
      BY <3>4, <1>1 DEF Left
    <3> QED BY <3>1, <3>5
  <2> QED BY <2>3, <2>4
<1> QED BY <1>5, <1>6

LEMMA LeftNone ==
    ASSUME NEW a \in Accounts, CheckWithPubs(a), NEW m,
           NEW i \in Nat, NEW j \in Nat, NEW l \in Nat,
           ~LoopOn(a, [i |-> i, j |-> j, less |-> l]),
           Left(a, m, [i |-> i, j |-> j, less |-> l]),
           Count(a.sigs, NoSig) >= a.less
    PROVE  l = 0
<1> SUFFICES ASSUME l # 0 PROVE l = 0
  OBVIOUS
<1> DEFINE S == SignedAt(a)
<1>1. PICK place \in Places(a, m) :
         /\ \A n \in S : n >= i => place[n] >= j
         /\ Cardinality({n \in S : n < i}) + l = a.less
  BY DEF Left
<1>2. /\ S \subseteq 1..a.num /\ DOMAIN a.pubs = 1..a.num /\ a.num \in Nat
      /\ \A T \in SUBSET S : IsFiniteSet(T) /\ Cardinality(T) \in Nat
      /\ Len(a.sigs) = a.num /\ Len(a.pubs) = a.num
  BY SignedFinite
<1>3. i > a.num \/ j > a.num
  BY <1>2 DEF LoopOn
<1>4. \A n \in S : n < i
  <2> SUFFICES ASSUME NEW n \in S, ~(n < i) PROVE FALSE
    OBVIOUS
  <2>1. place[n] \in 1..a.num /\ n \in 1..a.num
    BY <1>2 DEF Places
  <2>2. place[n] >= j
    BY <2>1, <1>1
  <2> QED BY <2>1, <2>2, <1>3, <1>2
<1>5. {n \in S : n < i} = S
  BY <1>4
<1>6. Cardinality(S) >= a.less
  BY DEF Count, SignedAt
<1>7. Cardinality(S) \in Nat
  BY <1>2
<1>8. Cardinality(S) + l = a.less
  BY <1>1, <1>5
<1> QED BY <1>6, <1>7, <1>8

(* Data d is the account of a standard input that is to be accepted. *)
Standard(d) == input = ScriptIn(d) /\ IsAccount(d) /\ Honest(d)

(* The stacks of a standard input and its lock, before token p runs. *)
At(d, p, ts, es) ==
    /\ p = 1 => Len(ts) = 0 /\ Len(es) = 0
    /\ p \in 2..3 => Len(ts) = 1
    /\ p >= 2 => ts[1] = TypeIn
    /\ p >= 4 => Len(ts) = 2 /\ ts[2] = TypeOut
    /\ p = 2 => Len(es) = 0
    /\ p \in 3..5 \cup {8} => Len(es) = 1
    /\ p \in 3..8 => es[1] = Dat(d)
    /\ p \in 6..7 => es[2] = Dat(HashOf[d])
    /\ p = 6 => Len(es) = 2
    /\ p = 7 => Len(es) = 3 /\ es[3] = Dat(HashOf[d])

(* Such an input meets no error, and is where its position says. *)
OnTrack ==
    \A d \in Data :
        Standard(d) =>
            /\ phase \in {"run", "verify", "ok"}
            /\ At(d, pc, typs, eles)
            /\ env = "link" => msg = MsgOf[d]
            /\ phase = "verify" => Left(AccountOf[d], MsgOf[d], loop)

(* The tokens of a standard input and of the lock after it. *)
LEMMA TheTokens ==
    ASSUME TypeOK, NEW d \in Data, input = ScriptIn(d)
    PROVE  /\ Len0 = 2 /\ Len(Script) = IF env = "sign" THEN 2 ELSE 8
           /\ DOMAIN Script = 1..Len(Script)
           /\ pc \in 1..9 /\ (env = "sign" => pc \in 1..3)
           /\ Script[1] = OpType(TypeIn) /\ Script[2] = Push(Dat(d))
           /\ env = "link" =>
                /\ Script[3] = OpType(TypeOut) /\ Script[4] = Op("verify_inout")
                /\ Script[5] = Op("hasher") /\ Script[6] = Push(Dat(HashOf[owner]))
                /\ Script[7] = Op("equal_verify") /\ Script[8] = Op("checksig_verify")
<1>1. Len0 = 2 /\ input[1] = OpType(TypeIn) /\ input[2] = Push(Dat(d))
  BY DEF Len0, ScriptIn
<1>2. env \in {"sign", "link"} /\ pc \in 1..(Len(Script) + 1) /\ owner \in Owners
  BY DEF TypeOK
<1>3. CASE env = "sign"
  <2>1. Script = input
    BY <1>3, ScriptShape
  <2>2. Len(Script) = 2 /\ DOMAIN Script = 1..2
    BY <2>1 DEF ScriptIn
  <2> QED BY <1>1, <1>2, <1>3, <2>1, <2>2
<1>4. CASE env = "link"
  <2>1. /\ Len(Script) = 8
        /\ \A n \in 1..2 : Script[n] = input[n]
        /\ \A n \in 1..6 : Script[2 + n] = LockScript[n]
    BY <1>1, <1>4, ScriptShape
  <2>2. DOMAIN Script = 1..Len(Script)
    <3> DEFINE T == Token
    <3>1. Script \in Seq(T)
      BY ScriptShape
    <3> HIDE DEF T
    <3> QED BY <3>1
  <2>3. Script[1] = OpType(TypeIn) /\ Script[2] = Push(Dat(d))
    BY <1>1, <2>1
  <2>4. /\ Script[3] = LockScript[1] /\ Script[4] = LockScript[2]
        /\ Script[5] = LockScript[3] /\ Script[6] = LockScript[4]
        /\ Script[7] = LockScript[5] /\ Script[8] = LockScript[6]
    <3>1. /\ Script[2 + 1] = LockScript[1] /\ Script[2 + 2] = LockScript[2]
          /\ Script[2 + 3] = LockScript[3] /\ Script[2 + 4] = LockScript[4]
          /\ Script[2 + 5] = LockScript[5] /\ Script[2 + 6] = LockScript[6]
      BY <2>1
    <3> QED BY <3>1
  <2>5. pc \in 1..9
    BY <1>2, <2>1
  <2> HIDE DEF At
  <2> QED BY <1>1, <1>2, <1>4, <2>1, <2>2, <2>3, <2>4, <2>5, LockType
<1> QED BY <1>2, <1>3, <1>4

(* Which operation runs says where the script is. *)
LEMMA TheOperation ==
    ASSUME TypeOK, NEW d \in Data, input = ScriptIn(d), pc \in DOMAIN Script
    PROVE  LET o == Script[pc].op
           IN  /\ o \in {"type", "push", "verify_inout", "hasher", "equal_verify",
                         "checksig_verify"}
               /\ o = "type" => \/ pc = 1 /\ Script[pc].typ = TypeIn
                                \/ env = "link" /\ pc = 3 /\ Script[pc].typ = TypeOut
               /\ o = "push" => \/ pc = 2 /\ Script[pc].ele = Dat(d)
                                \/ /\ env = "link" /\ pc = 6
                                   /\ Script[pc].ele = Dat(HashOf[owner])
               /\ o = "verify_inout" => env = "link" /\ pc = 4
               /\ o = "hasher" => env = "link" /\ pc = 5
               /\ o = "equal_verify" => env = "link" /\ pc = 7
               /\ o = "checksig_verify" => env = "link" /\ pc = 8
<1>0. env \in {"sign", "link"}
  BY DEF TypeOK
<1>1. \/ pc \in {1, 2}
      \/ env = "link" /\ pc \in {3, 4, 5, 6, 7, 8}
  BY <1>0, TheTokens
<1>2. CASE pc \in {1, 2}
  <2>1. Script[1] = OpType(TypeIn) /\ Script[2] = Push(Dat(d))
    BY TheTokens
  <2> QED BY <1>2, <2>1 DEF OpType, Push
<1>3. CASE env = "link" /\ pc \in {3, 4, 5}
  <2>1. Script[3] = OpType(TypeOut) /\ Script[4] = Op("verify_inout") /\ Script[5] = Op("hasher")
    BY <1>3, TheTokens
  <2> QED BY <1>3, <2>1 DEF OpType, Op
<1>4. CASE env = "link" /\ pc \in {6, 7, 8}
  <2>1. /\ Script[6] = Push(Dat(HashOf[owner])) /\ Script[7] = Op("equal_verify")
        /\ Script[8] = Op("checksig_verify")
    BY <1>4, TheTokens
  <2> QED BY <1>4, <2>1 DEF Push, Op
<1> QED BY <1>1, <1>2, <1>3, <1>4

(* The limit does not end a standard input. *)
LEMMA Within ==
    ASSUME TypeOK, NEW d \in Data, input = ScriptIn(d), pc \in DOMAIN Script, Continue
    PROVE  phase' = "run" /\ pc' = pc + 1 /\ pc \in 1..8
<1>1. pc \in 1..8
  BY TheTokens
<1>2. MaxOps \in Nat /\ MaxOps >= 8
  BY ExectorAssumption
<1> QED BY <1>1, <1>2 DEF Continue

LEMMA StackShape ==
    ASSUME TypeOK
    PROVE  /\ Depth = Len(eles) /\ Depth \in Nat /\ Len(typs) \in Nat
           /\ \A n \in 1..Depth : Top(n) = eles[Depth - n + 1]
           /\ \A n \in Nat : Has(n) <=> Depth >= n
<1>1. eles \in Seq(Ele) /\ typs \in Seq(0..255)
  BY DEF TypeOK
<1>2. Depth = Len(eles) /\ Depth \in Nat /\ Len(typs) \in Nat
  BY <1>1 DEF Depth
<1>3. \A n \in 1..Depth : Top(n) = eles[Depth - n + 1]
  BY TopShape
<1> QED BY <1>2, <1>3 DEF Has, Depth

(* One lemma for each operation a standard input and its lock are made of. *)
LEMMA TypeOnTrack ==
    ASSUME TypeOK, NEW d \in Data, Standard(d), At(d, pc, typs, eles), Type
    PROVE  Continue /\ At(d, pc + 1, typs', eles')
<1>1. /\ pc \in DOMAIN Script /\ Script[pc].op = "type" /\ Continue /\ eles' = eles
      /\ typs' = Append(typs, Script[pc].typ)
  BY DEF Type, Running
<1>2. \/ pc = 1 /\ Script[pc].typ = TypeIn
      \/ pc = 3 /\ Script[pc].typ = TypeOut
  BY <1>1, TheOperation DEF Standard
<1>3. typs \in Seq(0..255) /\ Script[pc].typ \in 0..255
  <2>1. TypeIn \in 0..255 /\ TypeOut \in 0..255
    BY DEF TypeIn, TypeOut
  <2>2. Script[pc].typ \in {TypeIn, TypeOut}
    BY <1>2
  <2>3. typs \in Seq(0..255)
    BY DEF TypeOK
  <2> QED BY <2>1, <2>2, <2>3
<1>4. /\ Len(typs') = Len(typs) + 1 /\ typs'[Len(typs) + 1] = Script[pc].typ
      /\ \A n \in 1..Len(typs) : typs'[n] = typs[n]
  <2> DEFINE e == Script[pc].typ
  <2>1. e \in 0..255 /\ typs' = Append(typs, e)
    BY <1>1, <1>3
  <2> HIDE DEF e
  <2>2. /\ Len(Append(typs, e)) = Len(typs) + 1 /\ Append(typs, e)[Len(typs) + 1] = e
        /\ \A n \in 1..Len(typs) : Append(typs, e)[n] = typs[n]
    BY <1>3, <2>1
  <2> QED BY <2>1, <2>2 DEF e
<1>5. CASE pc = 1
  <2>1. Len(typs') = 1 /\ typs'[1] = TypeIn /\ Len(eles') = 0
    BY <1>1, <1>2, <1>4, <1>5 DEF At
  <2> QED BY <1>1, <1>5, <2>1 DEF At
<1>6. CASE pc = 3
  <2>1. Len(typs) = 1 /\ typs[1] = TypeIn /\ Len(eles') = 1 /\ eles'[1] = Dat(d)
    BY <1>1, <1>6 DEF At
  <2>2. Len(typs') = 2 /\ typs'[1] = TypeIn /\ typs'[2] = TypeOut
    BY <2>1, <1>2, <1>4, <1>6
  <2> QED BY <1>1, <1>6, <2>1, <2>2 DEF At
<1> QED BY <1>2, <1>5, <1>6

LEMMA PushOnTrack ==
    ASSUME TypeOK, NEW d \in Data, Standard(d), At(d, pc, typs, eles), PushEle
    PROVE  Continue /\ At(d, pc + 1, typs', eles')
<1>1. /\ pc \in DOMAIN Script /\ Script[pc].op = "push" /\ Continue /\ typs' = typs
      /\ eles' = Append(eles, Script[pc].ele)
  BY DEF PushEle, Running
<1>2. HashOf[d] = HashOf[owner] /\ HashOf[d] \in Data
  BY ExectorAssumption DEF Standard, Honest
<1>3. \/ pc = 2 /\ Script[pc].ele = Dat(d)
      \/ pc = 6 /\ Script[pc].ele = Dat(HashOf[d])
  BY <1>1, <1>2, TheOperation DEF Standard
<1>4. Script[pc].ele \in Ele
  BY <1>2, <1>3, MadeEles
<1>5. /\ Len(eles') = Len(eles) + 1 /\ eles'[Len(eles) + 1] = Script[pc].ele
      /\ \A n \in 1..Len(eles) : eles'[n] = eles[n]
  <2> DEFINE E == Ele
             e == Script[pc].ele
  <2>1. eles \in Seq(E) /\ e \in E
    BY <1>4 DEF TypeOK
  <2>2. eles' = Append(eles, e)
    BY <1>1
  <2> HIDE DEF E, e
  <2>3. /\ Len(eles') = Len(eles) + 1 /\ eles'[Len(eles) + 1] = e
        /\ \A n \in 1..Len(eles) : eles'[n] = eles[n]
    BY <2>1, <2>2, AppendShape
  <2> QED BY <2>3 DEF e
<1>6. CASE pc = 2
  <2>1. Len(typs') = 1 /\ typs'[1] = TypeIn /\ Len(eles') = 1 /\ eles'[1] = Dat(d)
    BY <1>1, <1>3, <1>5, <1>6 DEF At
  <2> QED BY <1>1, <1>6, <2>1 DEF At
<1>7. CASE pc = 6
  <2>1. /\ typs' = typs /\ Len(typs) = 2 /\ typs[1] = TypeIn /\ typs[2] = TypeOut
        /\ Len(eles) = 2 /\ eles[1] = Dat(d) /\ eles[2] = Dat(HashOf[d])
    BY <1>1, <1>7 DEF At
  <2>2. Len(eles') = 3 /\ eles'[1] = Dat(d) /\ eles'[2] = Dat(HashOf[d])
        /\ eles'[3] = Dat(HashOf[d])
    BY <1>3, <1>5, <1>7, <2>1
  <2> QED BY <1>1, <1>7, <2>1, <2>2 DEF At
<1> QED BY <1>3, <1>6, <1>7

LEMMA VerifyInOutOnTrack ==
    ASSUME TypeOK, NEW d \in Data, Standard(d), At(d, pc, typs, eles), VerifyInOut
    PROVE  Continue /\ At(d, pc + 1, typs', eles')
<1>1. pc = 4
  BY TheOperation DEF VerifyInOut, Running, Standard
<1>2. /\ Len(typs) = 2 /\ typs[1] = TypeIn /\ typs[2] = TypeOut
      /\ Len(eles) = 1 /\ eles[1] = Dat(d)
  BY <1>1 DEF At
<1>3. typs = <<TypeIn, TypeOut>>
  <2> DEFINE T == 0..255
             t == <<TypeIn, TypeOut>>
  <2>1. typs \in Seq(T) /\ t \in Seq(T) /\ Len(t) = 2 /\ t[1] = TypeIn /\ t[2] = TypeOut
    BY DEF TypeOK, TypeIn, TypeOut
  <2> HIDE DEF T, t
  <2>2. typs = t
    BY <1>2, <2>1, SeqEqual
  <2> QED BY <2>2 DEF t
<1>4. Continue /\ typs' = typs /\ eles' = eles
  BY <1>3 DEF VerifyInOut
<1> QED BY <1>1, <1>2, <1>4 DEF At

LEMMA HasherOnTrack ==
    ASSUME TypeOK, NEW d \in Data, Standard(d), At(d, pc, typs, eles), Hasher
    PROVE  Continue /\ At(d, pc + 1, typs', eles')
<1>1. pc = 5
  BY TheOperation DEF Hasher, Running, Standard
<1>2. /\ Len(typs) = 2 /\ typs[1] = TypeIn /\ typs[2] = TypeOut
      /\ Len(eles) = 1 /\ eles[1] = Dat(d)
  BY <1>1 DEF At
<1>3. Has(1) /\ Top(1) = Dat(d)
  BY <1>2, StackShape
<1>4. TopIs("data") /\ Top(1).v = d /\ IsAccount(d)
  BY <1>3 DEF TopIs, Dat, Standard
<1>5. Continue /\ typs' = typs /\ eles' = Append(eles, Dat(HashOf[d]))
  BY <1>4 DEF Hasher
<1>6. eles'[1] = Dat(d) /\ eles'[2] = Dat(HashOf[d]) /\ Len(eles') = 2
  <2> DEFINE E == Ele
             e == Dat(HashOf[d])
  <2>1. eles \in Seq(E) /\ e \in E
    BY ExectorAssumption, MadeEles DEF TypeOK
  <2>2. eles' = Append(eles, e)
    BY <1>5
  <2> HIDE DEF E, e
  <2>3. /\ Len(eles') = Len(eles) + 1 /\ eles'[Len(eles) + 1] = e
        /\ \A n \in 1..Len(eles) : eles'[n] = eles[n]
    BY <2>1, <2>2, AppendShape
  <2>4. eles'[1] = Dat(d) /\ eles'[2] = e /\ Len(eles') = 2
    BY <1>2, <2>3
  <2> QED BY <2>4 DEF e
<1> QED BY <1>1, <1>2, <1>5, <1>6 DEF At

LEMMA EqualVerifyOnTrack ==
    ASSUME TypeOK, NEW d \in Data, Standard(d), At(d, pc, typs, eles), EqualVerify
    PROVE  Continue /\ At(d, pc + 1, typs', eles')
<1>1. pc = 7
  BY TheOperation DEF EqualVerify, Running, Standard
<1>2. /\ Len(typs) = 2 /\ typs[1] = TypeIn /\ typs[2] = TypeOut
      /\ Len(eles) = 3 /\ eles[1] = Dat(d) /\ eles[2] = Dat(HashOf[d])
      /\ eles[3] = Dat(HashOf[d])
  BY <1>1 DEF At
<1>3. Has(2) /\ Top(1) = Dat(HashOf[d]) /\ Top(2) = Dat(HashOf[d]) /\ Depth = 3
  BY <1>2, StackShape
<1>4. Continue /\ typs' = typs /\ eles' = Popped(2)
  BY <1>3 DEF EqualVerify, SameEle
<1>5. Len(eles') = 1 /\ eles'[1] = Dat(d)
  <2>1. /\ Len(Popped(2)) = Depth - 2
        /\ \A k \in 1..(Depth - 2) : Popped(2)[k] = eles[k]
    BY <1>3, PoppedShape
  <2> QED BY <1>2, <1>3, <1>4, <2>1
<1> QED BY <1>1, <1>2, <1>4, <1>5 DEF At

(* Before the signatures are checked the account is alone on the stack. *)
LEMMA AccountOnTop ==
    ASSUME TypeOK, NEW d \in Data, Standard(d), At(d, pc, typs, eles), pc = 8
    PROVE  /\ Has(1) /\ Top(1) = Dat(d) /\ SigAccount = AccountOf[d] /\ CanCheckSig
           /\ AccountOf[d] \in Accounts /\ CheckWithPubs(AccountOf[d])
<1>1. Len(eles) = 1 /\ eles[1] = Dat(d)
  BY DEF At
<1>2. Has(1) /\ Top(1) = Dat(d)
  BY <1>1, StackShape
<1>3. SigAccount = AccountOf[d]
  BY <1>2 DEF SigAccount, Dat
<1>4. AccountOf[d] \in Accounts /\ CheckWithPubs(AccountOf[d])
  BY ExectorAssumption DEF Standard, IsAccount
<1>5. CanCheckSig
  BY <1>2, <1>3 DEF CanCheckSig, TopIs, Dat, Standard, Honest
<1> QED BY <1>2, <1>3, <1>4, <1>5

(* A yes to the signatures ends the lock. *)
LEMMA YesOnTrack ==
    ASSUME TypeOK, NEW d \in Data, Standard(d), At(d, pc, typs, eles), pc = 8, env = "link",
           Answer(TRUE)
    PROVE  Continue /\ At(d, pc + 1, typs', eles')
<1>1. Script[pc].op = "checksig_verify"
  BY TheTokens DEF Standard, Op
<1>2. Continue /\ typs' = typs /\ eles' = Popped(1)
  BY <1>1 DEF Answer
<1>3. Len(typs) = 2 /\ typs[1] = TypeIn /\ typs[2] = TypeOut
  BY DEF At
<1> QED BY <1>2, <1>3 DEF At

LEMMA TrackBegins == Init => OnTrack
<1> SUFFICES ASSUME Init PROVE OnTrack
  OBVIOUS
<1>1. pc = 1 /\ phase = "run" /\ env = "sign" /\ Len(typs) = 0 /\ Len(eles) = 0
  BY DEF Init
<1> QED BY <1>1 DEF OnTrack, At

(* What every step keeps. *)
LEMMA NextFrame == Next => UNCHANGED <<owner, input>>
<1> SUFFICES ASSUME Next PROVE UNCHANGED <<owner, input>>
  OBVIOUS
<1>1. Continue \/ Fail \/ Panics \/ NotDecoded => UNCHANGED <<owner, input>>
  BY DEF Continue, Fail, Panics, NotDecoded
<1>2. CASE Type \/ PushEle \/ Verify \/ Hasher \/ Equal \/ EqualVerify \/ Not \/ VerifyInOut \/ Bad
  BY <1>1, <1>2 DEF Type, PushEle, Verify, Hasher, Equal, EqualVerify, Not, VerifyInOut, Bad
<1>3. CASE CheckSigAlone \/ CheckSigRefused \/ CheckSigArbiter \/ CheckSigEnd
  BY <1>1, <1>3 DEF CheckSigAlone, CheckSigRefused, CheckSigArbiter, CheckSigEnd, Answer
<1>4. CASE CheckSigStart \/ CheckSigTurn \/ EncodeSign \/ Accept
  BY <1>1, <1>4 DEF CheckSigStart, CheckSigTurn, EncodeSign, Accept
<1> QED BY <1>2, <1>3, <1>4 DEF Next

LEMMA RunOnTrack ==
    ASSUME TypeOK, NEW d \in Data, Standard(d), At(d, pc, typs, eles),
           Type \/ PushEle \/ Verify \/ Hasher \/ Equal \/ EqualVerify \/ Not \/ VerifyInOut
             \/ Bad
    PROVE  Continue /\ At(d, pc + 1, typs', eles')
<1>1. ~Verify /\ ~Equal /\ ~Not /\ ~Bad
  BY TheOperation DEF Verify, Equal, Not, Bad, Running, Standard
<1> QED BY <1>1, TypeOnTrack, PushOnTrack, HasherOnTrack, EqualVerifyOnTrack, VerifyInOutOnTrack

LEMMA CheckSigOnTrack ==
    ASSUME IInv, NEW d \in Data, Standard(d), At(d, pc, typs, eles),
           env = "link" => msg = MsgOf[d],
           phase = "verify" => Left(AccountOf[d], MsgOf[d], loop),
           CheckSigAlone \/ CheckSigRefused \/ CheckSigArbiter \/ CheckSigStart
             \/ CheckSigTurn \/ CheckSigEnd
    PROVE  /\ phase' \in {"run", "verify"} /\ At(d, pc', typs', eles')
           /\ UNCHANGED <<env, msg>>
           /\ phase' = "verify" => Left(AccountOf[d], MsgOf[d], loop')
<1> DEFINE a == AccountOf[d]
           m == MsgOf[d]
<1>1. TypeOK /\ LoopInv
  BY DEF IInv
<1>2. pc \in DOMAIN Script /\ Script[pc].op \in {"checksig", "checksig_verify"}
  BY <1>1 DEF CheckSigAlone, CheckSigRefused, CheckSigArbiter, CheckSigStart, CheckSigTurn,
              CheckSigEnd, CheckingSig, Running, LoopInv
<1>3. pc = 8 /\ env = "link"
  BY <1>1, <1>2, TheOperation DEF Standard
<1>4. /\ Has(1) /\ Top(1) = Dat(d) /\ SigAccount = a /\ CanCheckSig
      /\ a \in Accounts /\ CheckWithPubs(a)
  BY <1>1, <1>3, AccountOnTop
<1>5. VerifyStarts(a) /\ msg = m
  BY <1>3 DEF Standard, Honest
<1>6. a.num \in 1..254 /\ a.less \in 1..a.num /\ DOMAIN a.pubs = 1..a.num
  BY <1>1, <1>4, SigAccountType
<1>7. ASSUME Answer(TRUE)
      PROVE  /\ phase' = "run" /\ At(d, pc', typs', eles') /\ UNCHANGED <<env, msg>>
  <2>1. Continue /\ At(d, pc + 1, typs', eles')
    BY <1>1, <1>3, <1>7, YesOnTrack
  <2>2. phase' = "run" /\ pc' = pc + 1
    BY <1>1, <1>2, <2>1, Within DEF Standard
  <2> QED BY <2>1, <2>2 DEF Continue
<1>8. ~CheckSigAlone /\ ~CheckSigRefused
  BY <1>3, <1>4 DEF CheckSigAlone, CheckSigRefused
<1>9. CASE CheckSigArbiter
  <2>1. UseArb(a) /\ (VerifyWithPublic(a, a.arb + 1, m) => Answer(TRUE))
    BY <1>4, <1>5, <1>9 DEF CheckSigArbiter
  <2>2. SignedBy(a, a.num, m)
    BY <2>1 DEF Standard, Honest
  <2>3. a.arb = a.num - 1
    BY <2>1 DEF UseArb
  <2>4. a.num \in Int /\ a.num \in DOMAIN a.pubs
    <3>1. a.num \in 1..254 /\ DOMAIN a.pubs = 1..a.num
      BY <1>6
    <3> DEFINE n == a.num
    <3>2. n \in 1..254 /\ DOMAIN a.pubs = 1..n
      BY <3>1
    <3> HIDE DEF n
    <3>3. n \in Int /\ n \in 1..n
      BY <3>2
    <3> QED BY <3>2, <3>3 DEF n
  <2> HIDE DEF a, m
  <2>5. a.arb + 1 = a.num
    BY <2>3, <2>4
  <2>6. VerifyWithPublic(a, a.num, m)
    BY <2>2, <2>4 DEF VerifyWithPublic, SignedBy
  <2> QED BY <2>1, <2>5, <2>6, <1>7
<1>10. CASE CheckSigStart
  <2>1. /\ phase' = "verify" /\ loop' = LoopStart(a) /\ ~UseArb(a)
        /\ UNCHANGED <<env, pc, typs, eles, msg>>
    BY <1>4, <1>10 DEF CheckSigStart
  <2>2. Places(a, m) # {}
    BY <2>1 DEF Standard, Honest, Places, SignedAt
  <2>3. Left(a, m, LoopStart(a))
    BY <2>2, <1>4, <1>6, LeftStart
  <2> QED BY <2>1, <2>3
<1>11. CASE CheckSigTurn
  <2>1. /\ phase = "verify" /\ LoopOn(a, loop) /\ loop' = Turn(a, m, loop)
        /\ UNCHANGED <<env, pc, typs, eles, phase, msg>>
    BY <1>4, <1>5, <1>11 DEF CheckSigTurn
  <2>2. PICK i \in Nat, j \in Nat, l \in Nat : loop = [i |-> i, j |-> j, less |-> l]
    BY <1>1 DEF TypeOK
  <2>3. i >= 1 /\ j >= 1
    BY <1>1, <2>1, <2>2 DEF LoopInv
  <2>4. Left(a, m, [i |-> i, j |-> j, less |-> l]) /\ LoopOn(a, [i |-> i, j |-> j, less |-> l])
    BY <2>1, <2>2
  <2> HIDE DEF a, m
  <2>5. Left(a, m, Turn(a, m, [i |-> i, j |-> j, less |-> l]))
    BY <2>3, <2>4, <1>4, LeftTurn
  <2>6. Left(a, m, loop')
    BY <2>1, <2>2, <2>5
  <2> QED BY <2>1, <2>6 DEF a, m
<1>12. CASE CheckSigEnd
  <2>1. phase = "verify" /\ ~LoopOn(a, loop) /\ Answer(loop.less = 0)
    BY <1>4, <1>12 DEF CheckSigEnd
  <2>2. PICK i \in Nat, j \in Nat, l \in Nat : loop = [i |-> i, j |-> j, less |-> l]
    BY <1>1 DEF TypeOK
  <2>3. Left(a, m, [i |-> i, j |-> j, less |-> l]) /\ ~LoopOn(a, [i |-> i, j |-> j, less |-> l])
    BY <2>1, <2>2
  <2>4. Count(a.sigs, NoSig) >= a.less
    <3>1. ~UseArb(a)
      BY <1>1, <1>4, <2>1 DEF LoopInv
    <3> QED BY <3>1, <1>5 DEF VerifyStarts
  <2> HIDE DEF a, m
  <2>5. l = 0
    BY <2>3, <2>4, <1>4, LeftNone
  <2>6. (loop.less = 0) = TRUE
    BY <2>2, <2>5
  <2>7. Answer(TRUE)
    BY <2>1, <2>6
  <2> QED BY <2>7, <1>7
<1> QED BY <1>8, <1>9, <1>10, <1>11, <1>12

LEMMA EndsOnTrack ==
    ASSUME TypeOK, NEW d \in Data, Standard(d), At(d, pc, typs, eles),
           env = "link" => msg = MsgOf[d],
           EncodeSign \/ Accept
    PROVE  /\ phase' \in {"run", "ok"} /\ At(d, pc', typs', eles')
           /\ env' = "link" => msg' = MsgOf[d]
<1>1. CASE Accept
  BY <1>1 DEF Accept
<1>2. CASE EncodeSign
  <2>1. env = "sign" /\ pc = 3 /\ phase = "run"
    BY <1>2, TheTokens DEF EncodeSign, AtEnd, Standard
  <2>2. Len(eles) = 1 /\ eles[1] = Dat(d)
    BY <2>1 DEF At
  <2>3. Has(1) /\ Top(1) = Dat(d)
    BY <2>2, StackShape
  <2>4. TopIs("data") /\ IsAccount(Top(1).v) /\ Top(1).v = d /\ input # <<>>
    <3>1. input # <<>>
      BY DEF Standard, ScriptIn
    <3> QED BY <3>1, <2>3 DEF TopIs, Dat, Standard
  <2>5. /\ env' = "link" /\ pc' = 1 /\ typs' = <<>> /\ eles' = <<>> /\ msg' = MsgOf[d]
        /\ phase' = "run"
    BY <1>2, <2>1, <2>4 DEF EncodeSign
  <2> QED BY <2>5 DEF At
<1> QED BY <1>1, <1>2

LEMMA TrackStep == IInv /\ OnTrack /\ [Next]_vars => OnTrack'
<1> SUFFICES ASSUME IInv, OnTrack, [Next]_vars PROVE OnTrack'
  OBVIOUS
<1>1. CASE Next
  <2>1. UNCHANGED <<owner, input>> /\ TypeOK
    BY <1>1, NextFrame DEF IInv
  <2>2. SUFFICES ASSUME NEW d \in Data, Standard(d)
                 PROVE  /\ phase' \in {"run", "verify", "ok"}
                        /\ At(d, pc', typs', eles')
                        /\ env' = "link" => msg' = MsgOf[d]
                        /\ phase' = "verify" => Left(AccountOf[d], MsgOf[d], loop')
    BY <2>1 DEF OnTrack, Standard, Honest
  <2>3. /\ phase \in {"run", "verify", "ok"}
        /\ At(d, pc, typs, eles)
        /\ env = "link" => msg = MsgOf[d]
        /\ phase = "verify" => Left(AccountOf[d], MsgOf[d], loop)
    BY <2>2 DEF OnTrack
  <2>4. CASE Type \/ PushEle \/ Verify \/ Hasher \/ Equal \/ EqualVerify \/ Not \/ VerifyInOut
               \/ Bad
    <3>1. Continue /\ At(d, pc + 1, typs', eles')
      BY <2>1, <2>2, <2>3, <2>4, RunOnTrack
    <3>2. pc \in DOMAIN Script
      BY <2>4 DEF Type, PushEle, Verify, Hasher, Equal, EqualVerify, Not, VerifyInOut, Bad,
                  Running
    <3>3. phase' = "run" /\ pc' = pc + 1
      BY <2>1, <2>2, <3>1, <3>2, Within DEF Standard
    <3> QED BY <2>3, <3>1, <3>3 DEF Continue
  <2>5. CASE CheckSigAlone \/ CheckSigRefused \/ CheckSigArbiter \/ CheckSigStart
               \/ CheckSigTurn \/ CheckSigEnd
    <3>1. /\ phase' \in {"run", "verify"} /\ At(d, pc', typs', eles')
          /\ UNCHANGED <<env, msg>>
          /\ phase' = "verify" => Left(AccountOf[d], MsgOf[d], loop')
      BY <2>2, <2>3, <2>5, CheckSigOnTrack
    <3> QED BY <2>3, <3>1
  <2>6. CASE EncodeSign \/ Accept
    <3>1. /\ phase' \in {"run", "ok"} /\ At(d, pc', typs', eles')
          /\ env' = "link" => msg' = MsgOf[d]
      BY <2>1, <2>2, <2>3, <2>6, EndsOnTrack
    <3> QED BY <3>1
  <2> QED BY <1>1, <2>4, <2>5, <2>6 DEF Next
<1>2. CASE UNCHANGED vars
  BY <1>2 DEF vars, OnTrack, Standard, Honest
<1> QED BY <1>1, <1>2

(* A standard input whose account holds enough signatures, in the order of  *)
(* the keys, meets no error: neither on the stacks nor in verify_full's     *)
(* loop, whichever of the keys signed (new_script_in, new_script_out).      *)
THEOREM OwnerAlwaysSpends == Spec => []OwnerSpends
<1>1. Spec => []OnTrack
  BY TrackBegins, TrackStep, Invariance, PTL DEF Spec
<1>2. OnTrack => OwnerSpends
  BY DEF OnTrack, OwnerSpends, Standard
<1> QED BY <1>1, <1>2, PTL

-----------------------------------------------------------------------------
(* How far a run is from its end, in steps. *)

(* Operations it may still come to: the limit ends each of the two runs. *)
OpsLeft == (MaxOps + 2 - pc) + (IF env = "sign" THEN MaxOps + 2 ELSE 0)

ToGo(n, k) == IF k <= n THEN n + 1 - k ELSE 0

(* TurnsOn of verify_full's loop: each uses up a key, a signature or both. *)
TurnsLeft == ToGo(SigAccount.num, loop.i) + ToGo(SigAccount.num, loop.j)

(* A loop has 255 keys and 255 signatures at most. *)
OpSteps == 1024
StepsLeft ==
    IF phase = "run" THEN OpSteps * OpsLeft + 1023
    ELSE IF phase = "verify" THEN OpSteps * OpsLeft + TurnsLeft + 1
    ELSE 0

MaxSteps == OpSteps * (2 * MaxOps + 3) + 1023

Limited == phase \in {"run", "verify"} => pc \in 1..(MaxOps + 1)

LEMMA ToGoLess ==
    ASSUME NEW n \in 0..255, NEW k \in Nat
    PROVE  /\ ToGo(n, k) \in Nat /\ ToGo(n, k) <= 256
           /\ ToGo(n, k + 1) <= ToGo(n, k)
           /\ k <= n => ToGo(n, k + 1) < ToGo(n, k)
  BY DEF ToGo

(* The account verify_full looks at. *)
LEMMA SigShape ==
    ASSUME TypeOK, CanCheckSig
    PROVE  /\ SigAccount.num \in 0..255
           /\ Len(SigAccount.sigs) = SigAccount.num /\ Len(SigAccount.pubs) = SigAccount.num
<1>1. Has(1) /\ Top(1).typ = "data" /\ IsAccount(Top(1).v)
  BY DEF CanCheckSig, TopIs
<1>2. Top(1) \in Ele
  <2>1. eles \in Seq(Ele) /\ Len(eles) \in 1..Len(eles)
    BY <1>1 DEF TypeOK, Has
  <2>2. eles[Len(eles)] \in Ele
    BY <2>1
  <2> QED BY <2>1, <2>2 DEF Top
<1>3. Top(1).v \in Data
  BY <1>1, <1>2, EleFields
<1>4. SigAccount \in Accounts
  BY <1>1, <1>3, ExectorAssumption DEF SigAccount, IsAccount
<1> QED BY <1>4 DEF Accounts

(* What a step can be, for the count. *)
Onward  == phase \in {"run", "verify"} /\ Continue
Enters  == /\ phase = "run" /\ phase' = "verify" /\ UNCHANGED <<env, pc>>
           /\ TurnsLeft' \in Nat /\ TurnsLeft' <= 512
TurnsOn   == /\ phase = "verify" /\ UNCHANGED <<phase, env, pc>>
           /\ TurnsLeft' < TurnsLeft /\ TurnsLeft \in Nat /\ TurnsLeft' \in Nat
           /\ TurnsLeft <= 512
Again   == phase = "run" /\ phase' = "run" /\ env = "sign" /\ env' = "link" /\ pc' = 1
Stops   == phase \in {"run", "verify"} /\ phase' \in {"ok", "err", "panic"}

LEMMA StepKinds ==
    ASSUME IInv, Next
    PROVE  \/ Onward \/ Enters \/ TurnsOn \/ Again \/ Stops
<1>1. CASE Type \/ PushEle \/ Verify \/ Hasher \/ Equal \/ EqualVerify \/ Not \/ VerifyInOut
             \/ Bad
  <2>1. phase = "run" /\ (Continue \/ Fail \/ NotDecoded)
    BY <1>1 DEF Type, PushEle, Verify, Hasher, Equal, EqualVerify, Not, VerifyInOut, Bad, Running
  <2> QED BY <2>1 DEF Fail, Panics, NotDecoded, Onward, Stops
<1>2. CASE CheckSigAlone \/ CheckSigRefused \/ CheckSigArbiter
  <2>1. phase = "run" /\ (Continue \/ Fail \/ Panics \/ NotDecoded)
    BY <1>2 DEF CheckSigAlone, CheckSigRefused, CheckSigArbiter, CheckingSig, Running, Answer
  <2> QED BY <2>1 DEF Fail, Panics, NotDecoded, Onward, Stops
<1>3. CASE CheckSigStart
  <2>1. /\ phase = "run" /\ phase' = "verify" /\ CanCheckSig /\ UNCHANGED <<env, pc, eles>>
        /\ loop' = LoopStart(SigAccount)
    BY <1>3 DEF CheckSigStart, CheckingSig, Running
  <2> DEFINE n == SigAccount.num
  <2>2. n \in 0..255
    BY <2>1, SigShape DEF IInv
  <2>3. SigAccount' = SigAccount /\ loop'.i = 1 /\ loop'.j = 1
    BY <2>1 DEF SigAccount, Top, LoopStart
  <2>4. TurnsLeft' = ToGo(n, 1) + ToGo(n, 1)
    BY <2>3 DEF TurnsLeft, ToGo
  <2> HIDE DEF n
  <2>5. ToGo(n, 1) \in Nat /\ ToGo(n, 1) <= 256
    BY <2>2, ToGoLess
  <2> QED BY <2>1, <2>4, <2>5 DEF Enters
<1>4. CASE CheckSigTurn
  <2>1. /\ phase = "verify" /\ LoopOn(SigAccount, loop) /\ loop' = Turn(SigAccount, msg, loop)
        /\ UNCHANGED <<phase, env, pc, eles>>
    BY <1>4 DEF CheckSigTurn
  <2>2. CanCheckSig /\ loop \in [i : Nat, j : Nat, less : Nat]
    BY <2>1 DEF IInv, LoopInv, TypeOK
  <2> DEFINE n == SigAccount.num
             i == loop.i
             j == loop.j
  <2>3. n \in 0..255 /\ i \in Nat /\ j \in Nat /\ i <= n /\ j <= n
    BY <2>1, <2>2, SigShape DEF IInv, LoopOn
  <2>4. \/ loop'.i = i + 1 /\ loop'.j = j
        \/ loop'.i = i + 1 /\ loop'.j = j + 1
        \/ loop'.i = i /\ loop'.j = j + 1
    BY <2>1, <2>2 DEF Turn
  <2>5. SigAccount' = SigAccount
    BY <2>1 DEF SigAccount, Top
  <2>6. TurnsLeft' = ToGo(n, loop'.i) + ToGo(n, loop'.j) /\ TurnsLeft = ToGo(n, i) + ToGo(n, j)
    BY <2>5 DEF TurnsLeft, ToGo
  <2> HIDE DEF n, i, j
  <2>7. /\ ToGo(n, i) \in Nat /\ ToGo(n, i + 1) \in Nat /\ ToGo(n, i + 1) < ToGo(n, i)
        /\ ToGo(n, j) \in Nat /\ ToGo(n, j + 1) \in Nat /\ ToGo(n, j + 1) < ToGo(n, j)
        /\ ToGo(n, i) <= 256 /\ ToGo(n, j) <= 256
    <3>1. n \in 0..255 /\ i \in Nat /\ i + 1 \in Nat /\ i <= n
      BY <2>3
    <3>2. n \in 0..255 /\ j \in Nat /\ j + 1 \in Nat /\ j <= n
      BY <2>3
    <3>3. /\ ToGo(n, i) \in Nat /\ ToGo(n, i) <= 256 /\ ToGo(n, i + 1) < ToGo(n, i)
          /\ ToGo(n, i + 1) \in Nat
      BY <3>1, ToGoLess, Zenon
    <3>4. /\ ToGo(n, j) \in Nat /\ ToGo(n, j) <= 256 /\ ToGo(n, j + 1) < ToGo(n, j)
          /\ ToGo(n, j + 1) \in Nat
      BY <3>2, ToGoLess, Zenon
    <3> QED BY <3>3, <3>4
  <2> DEFINE r == ToGo(n, i)
             u == ToGo(n, i + 1)
             c == ToGo(n, j)
             v == ToGo(n, j + 1)
  <2>8. TurnsLeft' = u + c \/ TurnsLeft' = u + v \/ TurnsLeft' = r + v
    <3>1. TurnsLeft' = ToGo(n, loop'.i) + ToGo(n, loop'.j)
      BY <2>6
    <3> QED BY <2>4, <3>1, Zenon
  <2>9. TurnsLeft' < TurnsLeft /\ TurnsLeft \in Nat /\ TurnsLeft' \in Nat /\ TurnsLeft <= 512
    <3>1. TurnsLeft = r + c
      BY <2>6
    <3>2. /\ r \in Nat /\ c \in Nat /\ r <= 256 /\ c <= 256
          /\ u \in Nat /\ v \in Nat /\ u < r /\ v < c
      BY <2>7
    <3> HIDE DEF r, c, u, v
    <3> QED BY <2>8, <3>1, <3>2
  <2> QED BY <2>1, <2>9 DEF TurnsOn
<1>5. CASE CheckSigEnd
  <2>1. phase = "verify" /\ (Continue \/ Fail)
    BY <1>5 DEF CheckSigEnd, Answer
  <2> QED BY <2>1 DEF Fail, Onward, Stops
<1>6. CASE EncodeSign \/ Accept
  <2>1. phase = "run"
    BY <1>6 DEF EncodeSign, Accept, AtEnd
  <2>2. CASE Accept
    BY <2>1, <2>2 DEF Accept, Stops
  <2>3. CASE EncodeSign
    BY <2>1, <2>3 DEF EncodeSign, Fail, Panics, NotDecoded, Again, Stops
  <2> QED BY <1>6, <2>2, <2>3
<1> QED BY <1>1, <1>2, <1>3, <1>4, <1>5, <1>6 DEF Next

(* While the script runs the count is as large as the operations ahead. *)
LEMMA CountTyped ==
    ASSUME IInv, Limited, phase \in {"run", "verify"}
    PROVE  /\ OpsLeft \in Nat \ {0}
           /\ StepsLeft \in Nat /\ StepsLeft > OpSteps * OpsLeft
<1>1. MaxOps \in Nat /\ pc \in 1..(MaxOps + 1) /\ env \in {"sign", "link"}
  BY ExectorAssumption DEF IInv, TypeOK, Limited
<1>2. OpsLeft \in Nat \ {0}
  BY <1>1 DEF OpsLeft
<1>3. phase = "verify" => TurnsLeft \in Nat
  <2>1. SUFFICES ASSUME phase = "verify" PROVE TurnsLeft \in Nat
    OBVIOUS
  <2>2. SigAccount.num \in 0..255 /\ loop.i \in Nat /\ loop.j \in Nat
    BY <2>1, SigShape DEF IInv, LoopInv, TypeOK
  <2> DEFINE n == SigAccount.num
             i == loop.i
             j == loop.j
  <2>3. TurnsLeft = ToGo(n, i) + ToGo(n, j)
    BY DEF TurnsLeft
  <2>4. n \in 0..255 /\ i \in Nat /\ j \in Nat
    BY <2>2
  <2> HIDE DEF n, i, j
  <2>5. ToGo(n, i) \in Nat /\ ToGo(n, j) \in Nat
    BY <2>4, ToGoLess
  <2> QED BY <2>3, <2>5
<1> DEFINE o == OpsLeft
           t == TurnsLeft
<1>4. \/ phase = "run" /\ StepsLeft = OpSteps * o + 1023
      \/ phase = "verify" /\ StepsLeft = OpSteps * o + t + 1
  BY DEF StepsLeft
<1>5. phase = "verify" => t \in Nat
  BY <1>3
<1>6. o \in Nat \ {0}
  BY <1>2
<1> HIDE DEF o, t
<1>7. StepsLeft \in Nat /\ StepsLeft > OpSteps * o
  BY <1>4, <1>5, <1>6 DEF OpSteps
<1> QED BY <1>2, <1>7 DEF o

LEMMA StepLessens ==
    ASSUME IInv, Limited, Next
    PROVE  Limited' /\ StepsLeft' \in Nat /\ StepsLeft' < StepsLeft
<1>1. MaxOps \in Nat /\ pc \in Nat \ {0} /\ env \in {"sign", "link"}
  BY ExectorAssumption DEF IInv, TypeOK
<1> DEFINE o == OpsLeft
           t == TurnsLeft
<1>2. CASE Onward
  <2>1. /\ pc' = pc + 1 /\ env' = env /\ phase \in {"run", "verify"}
        /\ phase' = IF pc > MaxOps THEN "err" ELSE "run"
    BY <1>2 DEF Onward, Continue
  <2>2. o \in Nat \ {0} /\ StepsLeft \in Nat /\ StepsLeft > OpSteps * o
    BY <2>1, CountTyped
  <2>3. OpsLeft' = o - 1
    BY <1>1, <2>1 DEF OpsLeft
  <2>4. StepsLeft' = 0 \/ StepsLeft' = OpSteps * (o - 1) + 1023
    BY <2>1, <2>3 DEF StepsLeft
  <2>5. Limited'
    BY <1>1, <2>1 DEF Limited
  <2> HIDE DEF o
  <2> QED BY <2>2, <2>4, <2>5 DEF OpSteps
<1>3. CASE Enters
  <2>1. /\ phase = "run" /\ phase' = "verify" /\ UNCHANGED <<env, pc>>
        /\ TurnsLeft' \in 0..512
    BY <1>3 DEF Enters
  <2>2. o \in Nat \ {0}
    BY <2>1, CountTyped
  <2>3. OpsLeft' = o
    BY <2>1 DEF OpsLeft
  <2>4. StepsLeft = OpSteps * o + 1023 /\ StepsLeft' = OpSteps * o + TurnsLeft' + 1
    BY <2>1, <2>3 DEF StepsLeft
  <2>5. Limited'
    BY <2>1 DEF Limited
  <2>6. PICK k \in Nat : k = o
    BY <2>2
  <2>7. PICK x \in 0..512 : x = TurnsLeft'
    BY <2>1
  <2>8. StepsLeft = OpSteps * k + 1023 /\ StepsLeft' = OpSteps * k + x + 1
    BY <2>4, <2>6, <2>7
  <2>9. OpSteps * k + x + 1 \in Nat /\ OpSteps * k + x + 1 < OpSteps * k + 1023
    BY DEF OpSteps
  <2> QED BY <2>5, <2>8, <2>9
<1>4. CASE TurnsOn
  <2>1. /\ phase = "verify" /\ UNCHANGED <<phase, env, pc>>
        /\ t \in 0..512 /\ TurnsLeft' \in Nat /\ TurnsLeft' < t
    BY <1>4 DEF TurnsOn
  <2>2. o \in Nat \ {0}
    BY <2>1, CountTyped
  <2>3. OpsLeft' = o
    BY <2>1 DEF OpsLeft
  <2>4. StepsLeft = OpSteps * o + t + 1 /\ StepsLeft' = OpSteps * o + TurnsLeft' + 1
    BY <2>1, <2>3 DEF StepsLeft
  <2>5. Limited'
    BY <2>1 DEF Limited
  <2>6. PICK k \in Nat : k = o
    BY <2>2
  <2>7. PICK x \in Nat : x = TurnsLeft'
    BY <2>1
  <2>8. PICK y \in 0..512 : y = t
    BY <2>1
  <2>9. StepsLeft = OpSteps * k + y + 1 /\ StepsLeft' = OpSteps * k + x + 1
    BY <2>4, <2>6, <2>7, <2>8
  <2>10. x < y
    BY <2>1, <2>7, <2>8
  <2>11. OpSteps * k + x + 1 \in Nat /\ OpSteps * k + x + 1 < OpSteps * k + y + 1
    BY <2>10 DEF OpSteps
  <2> QED BY <2>5, <2>9, <2>11
<1>5. CASE Again
  <2>1. phase = "run" /\ phase' = "run" /\ env = "sign" /\ env' = "link" /\ pc' = 1
    BY <1>5 DEF Again
  <2>2. pc \in 1..(MaxOps + 1)
    BY <2>1 DEF Limited
  <2>3. PICK k \in 1..(MaxOps + 1) : k = pc
    BY <2>2
  <2>4. o = (MaxOps + 2 - k) + (MaxOps + 2) /\ OpsLeft' = (MaxOps + 2 - 1) + 0
    BY <2>1, <2>3 DEF OpsLeft
  <2>5. /\ StepsLeft = OpSteps * ((MaxOps + 2 - k) + (MaxOps + 2)) + 1023
        /\ StepsLeft' = OpSteps * ((MaxOps + 2 - 1) + 0) + 1023
    BY <2>1, <2>4 DEF StepsLeft
  <2>6. Limited'
    BY <1>1, <2>1 DEF Limited
  <2>7. /\ OpSteps * ((MaxOps + 2 - 1) + 0) + 1023 \in Nat
        /\ OpSteps * ((MaxOps + 2 - 1) + 0) + 1023
              < OpSteps * ((MaxOps + 2 - k) + (MaxOps + 2)) + 1023
    BY <1>1 DEF OpSteps
  <2> QED BY <2>5, <2>6, <2>7
<1>6. CASE Stops
  <2>1. phase \in {"run", "verify"} /\ phase' \in {"ok", "err", "panic"}
    BY <1>6 DEF Stops
  <2>2. StepsLeft' = 0 /\ Limited'
    BY <2>1 DEF StepsLeft, Limited
  <2>3. o \in Nat \ {0} /\ StepsLeft \in Nat /\ StepsLeft > OpSteps * o
    BY <2>1, CountTyped
  <2> HIDE DEF o
  <2> QED BY <2>2, <2>3 DEF OpSteps
<1> QED BY <1>2, <1>3, <1>4, <1>5, <1>6, StepKinds

LEMMA CountBegins == Init => Limited /\ StepsLeft = MaxSteps
<1> SUFFICES ASSUME Init PROVE Limited /\ StepsLeft = MaxSteps
  OBVIOUS
<1>1. MaxOps \in Nat /\ env = "sign" /\ pc = 1 /\ phase = "run"
  BY ExectorAssumption DEF Init
<1>2. OpsLeft = 2 * MaxOps + 3
  BY <1>1 DEF OpsLeft
<1>3. StepsLeft = MaxSteps
  BY <1>1, <1>2 DEF StepsLeft, MaxSteps
<1> QED BY <1>1, <1>3 DEF Limited

(* exec returns, whatever the input, the account and its signatures: every  *)
(* step of the two runs and of verify_full's loop brings the end nearer,    *)
(* and MAX_SCRIPT_OPS alone bounds how far it can be.                       *)
THEOREM ScriptRunsOut ==
    Spec => [](StepsLeft \in 0..MaxSteps) /\ [][StepsLeft' < StepsLeft]_vars
<1> DEFINE Nearer == Limited /\ StepsLeft \in 0..MaxSteps
<1>1. MaxSteps \in Nat
  BY ExectorAssumption DEF MaxSteps, OpSteps
<1>2. Init => Nearer
  BY <1>1, CountBegins
<1>3. IInv /\ Nearer /\ [Next]_vars => Nearer' /\ (StepsLeft' < StepsLeft \/ UNCHANGED vars)
  <2> SUFFICES ASSUME IInv, Nearer, [Next]_vars
               PROVE  Nearer' /\ (StepsLeft' < StepsLeft \/ UNCHANGED vars)
    OBVIOUS
  <2>1. CASE Next
    <3>1. Limited' /\ StepsLeft' \in Nat /\ StepsLeft' < StepsLeft
      BY <2>1, StepLessens
    <3>2. MaxSteps' = MaxSteps
      BY DEF MaxSteps, OpSteps
    <3> QED BY <1>1, <3>1, <3>2
  <2>2. CASE UNCHANGED vars
    BY <2>2 DEF vars, Limited, StepsLeft, OpsLeft, TurnsLeft, ToGo, SigAccount, Top, MaxSteps,
                OpSteps
  <2> QED BY <2>1, <2>2
<1>4. Nearer => StepsLeft \in 0..MaxSteps
  OBVIOUS
<1>5. IInv /\ Nearer /\ [Next]_vars => [StepsLeft' < StepsLeft]_vars
  BY <1>3 DEF vars
<1>6. IInv /\ Nearer /\ [Next]_vars => Nearer'
  BY <1>3
<1> HIDE DEF Nearer
<1>7. Spec => []Nearer
  BY <1>2, <1>6, Invariance, PTL DEF Spec
<1> QED BY <1>4, <1>5, <1>7, Invariance, PTL DEF Spec
=============================================================================
