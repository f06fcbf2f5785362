------------------------ MODULE AlgorithmProofs ------------------------
(***************************************************************************)
(* Theorems about the pure algorithms.                                     *)
(*                                                                         *)
(* UndoAlwaysRestores and FramingAlwaysAgrees: what Written and Pieces     *)
(* compute is a function that each step computes from the one before.      *)
(* Recursion says that there is one, NatInd that what holds at the start   *)
(* and survives a step holds at the end; both speak of sets, because the   *)
(* provers take no operator as an argument.                                *)
(*                                                                         *)
(* PutComesBack: what is put with its own length is got back, from any     *)
(* place; FramingAlwaysAgrees uses it for scripts.                         *)
(*                                                                         *)
(* VerifyFullExactly: what verify_full's loop accepts.  From it            *)
(* BytesKeepVerdict and WireAlwaysKeepsVerdict, accounts that go through   *)
(* bytes; SignaturesBind, what a signature is good for; and                *)
(* SignaturesCommit and SigningAlwaysCommutes, a transaction signed input  *)
(* by input.                                                               *)
(*                                                                         *)
(* BuiltAlwaysWithinLimits: the sums the builders make, as the functions   *)
(* that add them up one number at a time.                                  *)
(*                                                                         *)
(* RootsBind and MerkleAlwaysBinds: a row of the tree is half the one      *)
(* below, rounded up; equal roots have equal rows, from the top down.      *)
(*                                                                         *)
(* CompactAlwaysRounds and BitsAlwaysAccepted: a compact form keeps the    *)
(* digits from the k-th on, k the least with which they are below the sign *)
(* (Kept), so that more is lost of a larger number and order is kept.      *)
(***************************************************************************)
EXTENDS MCAlgorithms, ExectorProofs, WellFoundedInduction

(* Induction, in the form of sets: the provers take no operator as argument. *)
LEMMA LeastNumber ==
    ASSUME NEW T \in SUBSET Nat, T # {}
    PROVE  \E least \in T : \A k \in T : least <= k
<1> DEFINE R == {ss \in Nat \X Nat : ss[1] < ss[2]}
<1>1. IsWellFoundedOn(R, Nat)
  BY NatLessThanWellFounded DEF OpToRel
<1>2. PICK least \in T : \A k \in T : ~(<<k, least>> \in R)
  BY <1>1, WFMin
<1>3. ASSUME NEW k \in T PROVE least <= k
  <2>1. k \in Nat /\ least \in Nat /\ <<k, least>> \in Nat \X Nat
    OBVIOUS
  <2>2. ~(k < least)
    BY <1>2, <2>1
  <2>3. QED BY <2>1, <2>2
<1>4. QED BY <1>3

LEMMA NatInd ==
    ASSUME NEW C, 0 \in C, \A n \in Nat : n \in C => n + 1 \in C
    PROVE  \A n \in Nat : n \in C
<1> DEFINE Out == {n \in Nat : n \notin C}
<1>1. SUFFICES ASSUME Out # {} PROVE FALSE
  OBVIOUS
<1>2. PICK least \in Out : \A k \in Out : least <= k
  BY <1>1, LeastNumber
<1>3. least \in Nat /\ least # 0
  OBVIOUS
<1>4. least - 1 \in Nat /\ least - 1 \notin Out
  BY <1>2, <1>3
<1>5. QED BY <1>3, <1>4

(* A function that each step computes from the one before: there is one. *)
Recurs(f, t, L, G) == f[0] = t /\ \A n \in 1..L : f[n] = G[n][f[n - 1]]

LEMMA Recursion ==
    ASSUME NEW T, NEW t \in T, NEW L \in Nat, NEW G \in [1..L -> [T -> T]]
    PROVE  \E f \in [0..L -> T] : Recurs(f, t, L, G)
<1> DEFINE Upto(j, g) == g[0] = t /\ \A n \in 1..L : n <= j => g[n] = G[n][g[n - 1]]
           C == {j \in Nat : \E g \in [0..L -> T] : Upto(j, g)}
<1>1. 0 \in C
  <2> DEFINE g == [n \in 0..L |-> t]
  <2>1. g \in [0..L -> T] /\ g[0] = t
    OBVIOUS
  <2>2. Upto(0, g)
    BY <2>1
  <2> HIDE DEF g, Upto
  <2> QED BY <2>1, <2>2
<1>2. ASSUME NEW j \in Nat, j \in C PROVE j + 1 \in C
  <2>1. PICK g \in [0..L -> T] : Upto(j, g)
    BY <1>2
  <2> DEFINE h == [n \in 0..L |-> IF n = j + 1 THEN G[n][g[n - 1]] ELSE g[n]]
  <2>2. h \in [0..L -> T]
    <3>1. ASSUME NEW n \in 0..L, n = j + 1 PROVE G[n][g[n - 1]] \in T
      <4>1. n \in 1..L /\ n - 1 \in 0..L
        BY <3>1
      <4>2. g[n - 1] \in T /\ G[n] \in [T -> T]
        BY <4>1
      <4> QED BY <4>2
    <3>2. \A n \in 0..L : h[n] \in T
      BY <3>1
    <3> QED BY <3>2
  <2>3. h[0] = t
    BY <2>1
  <2>4. ASSUME NEW n \in 1..L, n <= j + 1 PROVE h[n] = G[n][h[n - 1]]
    <3>1. n \in 0..L /\ n - 1 \in 0..L /\ n - 1 # j + 1
      BY <2>4
    <3>2. h[n - 1] = g[n - 1]
      BY <3>1
    <3>3. CASE n = j + 1
      BY <3>1, <3>2, <3>3
    <3>4. CASE n # j + 1
      <4>1. n <= j
        BY <2>4, <3>4
      <4>2. h[n] = g[n] /\ g[n] = G[n][g[n - 1]]
        BY <4>1, <3>1, <3>4, <2>1
      <4> QED BY <4>2, <3>2
    <3> QED BY <3>3, <3>4
  <2>5. Upto(j + 1, h)
    BY <2>3, <2>4
  <2>6. j + 1 \in Nat
    OBVIOUS
  <2> HIDE DEF Upto, h
  <2> QED BY <2>2, <2>5, <2>6
<1>3. L \in C
  <2> HIDE DEF C
  <2> QED BY <1>1, <1>2, NatInd
<1>4. PICK f \in [0..L -> T] : Upto(L, f)
  BY <1>3
<1> QED BY <1>4 DEF Recurs

Database == [DbKey -> DbValue \cup {Absent}]
Write == [k : DbKey, v : DbValue \cup {Absent}]

(* The database after each write. *)
IsRun(f, db, ops) ==
    /\ f[0] = db
    /\ \A n \in 1..Len(ops) : f[n] = [f[n - 1] EXCEPT ![ops[n].k] = ops[n].v]

LEMMA WriteType ==
    ASSUME NEW db \in Database, NEW o \in Write
    PROVE  [db EXCEPT ![o.k] = o.v] \in Database
  BY DEF Database, Write

LEMMA RunExists ==
    ASSUME NEW db \in Database, NEW ops \in Seq(Write)
    PROVE  \E f \in [0..Len(ops) -> Database] : IsRun(f, db, ops)
<1> DEFINE L == Len(ops)
<1>1. L \in Nat /\ \A n \in 1..L : ops[n] \in Write
  <2> DEFINE W == Write
  <2>1. ops \in Seq(W)
    OBVIOUS
  <2> HIDE DEF W
  <2>2. L \in Nat /\ \A n \in 1..L : ops[n] \in W
    BY <2>1
  <2> QED BY <2>2 DEF W
<1> HIDE DEF L
<1> DEFINE G == [n \in 1..L |-> [d \in Database |-> [d EXCEPT ![ops[n].k] = ops[n].v]]]
<1>2. \A n \in 1..L : \A d \in Database : [d EXCEPT ![ops[n].k] = ops[n].v] \in Database
  BY <1>1, WriteType
<1>3. G \in [1..L -> [Database -> Database]]
  BY <1>2
<1>4. PICK f \in [0..L -> Database] : Recurs(f, db, L, G)
  <2> HIDE DEF G
  <2> QED BY <1>1, <1>3, Recursion
<1>6. ASSUME NEW n \in 1..L PROVE f[n] = [f[n - 1] EXCEPT ![ops[n].k] = ops[n].v]
  <2>1. n - 1 \in 0..L
    BY <1>1
  <2>2. f[n - 1] \in Database
    BY <2>1, <1>4
  <2>3. G[n][f[n - 1]] = [f[n - 1] EXCEPT ![ops[n].k] = ops[n].v]
    BY <2>2
  <2> QED BY <2>3, <1>4 DEF Recurs
<1> QED BY <1>4, <1>6 DEF IsRun, L, Recurs

LEMMA WrittenRuns ==
    ASSUME NEW db \in Database, NEW ops \in Seq(Write), NEW f, IsRun(f, db, ops)
    PROVE  Written(db, ops) = f[Len(ops)]
<1> DEFINE L == Len(ops)
           Step(g, n) == IF n = 0 THEN db ELSE [g[n - 1] EXCEPT ![ops[n].k] = ops[n].v]
           F(g) == g = [n \in 0..L |-> Step(g, n)]
           after == CHOOSE g : F(g)
<1>1. L \in Nat
  OBVIOUS
<1>2. Written(db, ops) = after[L]
  BY DEF Written
<1>3. PICK g \in [0..L -> Database] : IsRun(g, db, ops)
  BY RunExists
<1>4. F(g)
  <2>1. \A n \in 0..L : g[n] = Step(g, n)
    <3> TAKE n \in 0..L
    <3>1. CASE n = 0
      BY <3>1, <1>3 DEF IsRun
    <3>2. CASE n # 0
      <4>1. n \in 1..L
        BY <3>2, <1>1
      <4> QED BY <4>1, <3>2, <1>3 DEF IsRun
    <3> QED BY <3>1, <3>2
  <2> HIDE DEF Step
  <2> QED BY <2>1, <1>3
<1>5. F(after)
  <2> HIDE DEF F
  <2> QED BY <1>4
<1>6. \A n \in 0..L : after[n] = Step(after, n)
  <2> HIDE DEF Step, after
  <2> QED BY <1>5
<1> HIDE DEF after, F
<1>7. IsRun(after, db, ops)
  <2>1. after[0] = db
    BY <1>1, <1>6
  <2>2. ASSUME NEW n \in 1..L
        PROVE  after[n] = [after[n - 1] EXCEPT ![ops[n].k] = ops[n].v]
    <3>1. n \in 0..L /\ n # 0
      BY <1>1
    <3> QED BY <1>6, <3>1
  <2> QED BY <2>1, <2>2 DEF IsRun
<1>8. \A n \in 0..L : after[n] = f[n]
  <2> DEFINE C == {n \in Nat : n <= L => after[n] = f[n]}
  <2>1. 0 \in C
    BY <1>7 DEF IsRun
  <2>2. ASSUME NEW n \in Nat, n \in C PROVE n + 1 \in C
    <3> SUFFICES ASSUME n + 1 <= L PROVE after[n + 1] = f[n + 1]
      OBVIOUS
    <3>1. after[n] = f[n] /\ n + 1 \in 1..L /\ (n + 1) - 1 = n
      BY <2>2, <1>1
    <3>2. /\ after[n + 1] = [after[n] EXCEPT ![ops[n + 1].k] = ops[n + 1].v]
          /\ f[n + 1] = [f[n] EXCEPT ![ops[n + 1].k] = ops[n + 1].v]
      BY <3>1, <1>7 DEF IsRun
    <3> QED BY <3>1, <3>2
  <2>3. \A n \in Nat : n \in C
    <3> HIDE DEF C
    <3> QED BY <2>1, <2>2, NatInd
  <2> QED BY <2>3, <1>1
<1> QED BY <1>1, <1>2, <1>8

(* Nothing written, one write more, a key no write touches, and a key       *)
(* written before the others.                                               *)
LEMMA WrittenNone ==
    ASSUME NEW db \in Database
    PROVE  Written(db, <<>>) = db
<1>1. <<>> \in Seq(Write) /\ Len(<<>>) = 0
  OBVIOUS
<1>2. IsRun([n \in {0} |-> db], db, <<>>)
  BY <1>1 DEF IsRun
<1>3. Written(db, <<>>) = [n \in {0} |-> db][0]
  BY <1>1, <1>2, WrittenRuns
<1> QED BY <1>3

LEMMA WrittenType ==
    ASSUME NEW db \in Database, NEW ops \in Seq(Write)
    PROVE  Written(db, ops) \in Database
<1>1. PICK f \in [0..Len(ops) -> Database] : IsRun(f, db, ops)
  BY RunExists
<1>2. Len(ops) \in 0..Len(ops)
  OBVIOUS
<1> QED BY <1>1, <1>2, WrittenRuns

LEMMA WrittenMore ==
    ASSUME NEW db \in Database, NEW ops \in Seq(Write), NEW o \in Write
    PROVE  Written(db, Append(ops, o)) = [Written(db, ops) EXCEPT ![o.k] = o.v]
<1> DEFINE W == Write
           L == Len(ops)
           s == Append(ops, o)
<1>1. PICK f \in [0..Len(ops) -> Database] : IsRun(f, db, ops)
  BY RunExists
<1>2. /\ s \in Seq(W) /\ Len(s) = L + 1 /\ s[L + 1] = o /\ L \in Nat
      /\ \A n \in 1..L : s[n] = ops[n]
  <2>1. ops \in Seq(W) /\ o \in W
    OBVIOUS
  <2> HIDE DEF W
  <2> QED BY <2>1, AppendShape
<1> HIDE DEF s
<1> DEFINE h == [n \in 0..(L + 1) |-> IF n = L + 1 THEN [f[L] EXCEPT ![o.k] = o.v] ELSE f[n]]
<1>3. IsRun(h, db, s)
  <2>1. h[0] = db
    BY <1>1, <1>2 DEF IsRun
  <2>2. ASSUME NEW n \in 1..(L + 1) PROVE h[n] = [h[n - 1] EXCEPT ![s[n].k] = s[n].v]
    <3>1. n \in 0..(L + 1) /\ n - 1 \in 0..(L + 1) /\ n - 1 # L + 1
      BY <1>2
    <3>2. h[n - 1] = f[n - 1]
      BY <3>1
    <3>3. CASE n = L + 1
      <4>1. n - 1 = L /\ s[n] = o
        BY <3>3, <1>2
      <4>2. h[n] = [f[L] EXCEPT ![o.k] = o.v]
        BY <3>1, <3>3
      <4> HIDE DEF h, L
      <4> QED BY <4>1, <4>2, <3>2
    <3>4. CASE n # L + 1
      <4>1. n \in 1..L
        BY <3>4, <1>2
      <4>2. h[n] = f[n]
        BY <3>1, <3>4
      <4>3. f[n] = [f[n - 1] EXCEPT ![ops[n].k] = ops[n].v]
        BY <4>1, <1>1 DEF IsRun
      <4> QED BY <4>1, <4>2, <4>3, <3>2, <1>2
    <3> QED BY <3>3, <3>4
  <2> HIDE DEF h
  <2> QED BY <2>1, <2>2, <1>2 DEF IsRun
<1>4. h[L + 1] = [f[L] EXCEPT ![o.k] = o.v]
  BY <1>2
<1> HIDE DEF h
<1>5. Written(db, s) = h[L + 1]
  BY <1>2, <1>3, WrittenRuns
<1>6. Written(db, ops) = f[L]
  BY <1>1, WrittenRuns
<1> QED BY <1>4, <1>5, <1>6 DEF s

LEMMA WrittenNot ==
    ASSUME NEW db \in Database, NEW ops \in Seq(Write), NEW k \in DbKey,
           \A n \in 1..Len(ops) : ops[n].k # k
    PROVE  Written(db, ops)[k] = db[k]
<1> DEFINE L == Len(ops)
<1>1. PICK f \in [0..L -> Database] : IsRun(f, db, ops)
  BY RunExists
<1>2. L \in Nat
  OBVIOUS
<1> DEFINE C == {n \in Nat : n <= L => f[n][k] = db[k]}
<1>3. 0 \in C
  BY <1>1 DEF IsRun
<1>4. ASSUME NEW n \in Nat, n \in C PROVE n + 1 \in C
  <2> SUFFICES ASSUME n + 1 <= L PROVE f[n + 1][k] = db[k]
    OBVIOUS
  <2>1. f[n][k] = db[k] /\ n + 1 \in 1..L /\ (n + 1) - 1 = n /\ n \in 0..L
    BY <1>4, <1>2
  <2>2. f[n + 1] = [f[n] EXCEPT ![ops[n + 1].k] = ops[n + 1].v]
    BY <2>1, <1>1 DEF IsRun
  <2>3. f[n] \in Database /\ ops[n + 1].k # k
    BY <2>1, <1>1
  <2> QED BY <2>1, <2>2, <2>3 DEF Database
<1>5. \A n \in Nat : n \in C
  <2> HIDE DEF C
  <2> QED BY <1>3, <1>4, NatInd
<1>6. f[L][k] = db[k]
  BY <1>5, <1>2
<1> QED BY <1>1, <1>6, WrittenRuns

LEMMA WrittenBefore ==
    ASSUME NEW db \in Database, NEW ops \in Seq(Write), NEW o \in Write,
           \A n \in 1..Len(ops) : ops[n].k # o.k
    PROVE  Written([db EXCEPT ![o.k] = o.v], ops) = [Written(db, ops) EXCEPT ![o.k] = o.v]
<1> DEFINE L == Len(ops)
           k == o.k
           v == o.v
           W == Write
<1>0. k \in DbKey /\ v \in DbValue \cup {Absent}
  BY DEF Write
<1>1. PICK f \in [0..L -> Database] : IsRun(f, db, ops)
  BY RunExists
<1>2. L \in Nat /\ \A n \in 1..L : ops[n] \in W
  <2>1. ops \in Seq(W)
    OBVIOUS
  <2> HIDE DEF W
  <2> QED BY <2>1
<1> DEFINE h == [n \in 0..L |-> [f[n] EXCEPT ![k] = v]]
<1>3. IsRun(h, [db EXCEPT ![k] = v], ops)
  <2>1. h[0] = [db EXCEPT ![k] = v]
    BY <1>1, <1>2 DEF IsRun
  <2>2. ASSUME NEW n \in 1..L PROVE h[n] = [h[n - 1] EXCEPT ![ops[n].k] = ops[n].v]
    <3>1. n \in 0..L /\ n - 1 \in 0..L
      BY <1>2
    <3>2. h[n] = [f[n] EXCEPT ![k] = v] /\ h[n - 1] = [f[n - 1] EXCEPT ![k] = v]
      BY <3>1
    <3>3. f[n - 1] \in Database
      BY <3>1, <1>1
    <3>4. f[n] = [f[n - 1] EXCEPT ![ops[n].k] = ops[n].v]
      BY <1>1 DEF IsRun
    <3> DEFINE g == f[n - 1]
               l == ops[n].k
               u == ops[n].v
    <3>5. g \in Database /\ l # k /\ l \in DbKey
      BY <3>3, <1>2 DEF Write
    <3>6. [[g EXCEPT ![l] = u] EXCEPT ![k] = v] = [[g EXCEPT ![k] = v] EXCEPT ![l] = u]
      <4> HIDE DEF g, l, u, k, v
      <4> QED BY <3>5, <1>0 DEF Database
    <3> QED BY <3>2, <3>4, <3>6
  <2> HIDE DEF h, k, v
  <2> QED BY <2>1, <2>2 DEF IsRun
<1>4. h[L] = [f[L] EXCEPT ![k] = v]
  BY <1>2
<1>5. [db EXCEPT ![k] = v] \in Database
  BY WriteType
<1> HIDE DEF h
<1>6. Written([db EXCEPT ![k] = v], ops) = h[L]
  BY <1>3, <1>5, WrittenRuns
<1>7. Written(db, ops) = f[L]
  BY <1>1, WrittenRuns
<1> QED BY <1>4, <1>6, <1>7

(* The undo batch writes only keys the batch writes, and takes it back. *)
Undoes(db, w) ==
    /\ w \in [b : Seq(Write), f : Seq(Write)]
    /\ \A i \in 1..Len(w.f) : \E j \in 1..Len(w.b) : w.f[i].k = w.b[j].k
    /\ Written(Written(db, w.b), w.f) = db

Batches == kind = "batch" => /\ in.db \in Database /\ in = [db |-> in.db, w |-> in.w]
                             /\ Undoes(in.db, in.w)

LEMMA Appended ==
    ASSUME NEW s \in Seq(Write), NEW o \in Write
    PROVE  /\ Append(s, o) \in Seq(Write) /\ Len(Append(s, o)) = Len(s) + 1 /\ Len(s) \in Nat
           /\ Append(s, o)[Len(s) + 1] = o
           /\ \A n \in 1..Len(s) : Append(s, o)[n] = s[n]
  BY AppendShape

(* One write of a new key, with what takes it back. *)
LEMMA UndoesMore ==
    ASSUME NEW db \in Database, NEW b \in Seq(Write), NEW f \in Seq(Write),
           Undoes(db, [b |-> b, f |-> f]), NEW k \in DbKey, NEW v \in DbValue \cup {Absent},
           \A i \in 1..Len(b) : b[i].k # k
    PROVE  Undoes(db, [b |-> Append(b, [k |-> k, v |-> v]),
                       f |-> Append(f, [k |-> k, v |-> db[k]])])
<1> DEFINE o == [k |-> k, v |-> v]
           u == [k |-> k, v |-> db[k]]
<1>1. o \in Write /\ u \in Write /\ o.k = k /\ o.v = v /\ u.k = k /\ u.v = db[k]
  BY DEF Write, Database
<1>2. /\ \A i \in 1..Len(f) : \E j \in 1..Len(b) : f[i].k = b[j].k
      /\ Written(Written(db, b), f) = db
  BY DEF Undoes
<1>3. \A i \in 1..Len(f) : f[i].k # k
  BY <1>2
<1> HIDE DEF o, u
<1> DEFINE b2 == Append(b, o)
           f2 == Append(f, u)
<1>4. /\ b2 \in Seq(Write) /\ Len(b2) = Len(b) + 1 /\ Len(b) \in Nat /\ b2[Len(b) + 1] = o
      /\ \A n \in 1..Len(b) : b2[n] = b[n]
  BY <1>1, Appended
<1>5. /\ f2 \in Seq(Write) /\ Len(f2) = Len(f) + 1 /\ Len(f) \in Nat /\ f2[Len(f) + 1] = u
      /\ \A n \in 1..Len(f) : f2[n] = f[n]
  BY <1>1, Appended
<1>6. Written(Written(db, b2), f2) = db
  <2> DEFINE d1 == Written(db, b)
             d2 == Written(db, b2)
  <2>1. d1 \in Database
    BY WrittenType
  <2>2. d2 = [d1 EXCEPT ![k] = v]
    BY <1>1, WrittenMore
  <2>3. d2 \in Database
    BY <1>4, WrittenType
  <2> HIDE DEF d1, d2, b2
  <2>4. Written(d2, f2) = [Written(d2, f) EXCEPT ![k] = db[k]]
    <3>1. Written(d2, Append(f, u)) = [Written(d2, f) EXCEPT ![u.k] = u.v]
      BY <2>3, <1>1, WrittenMore
    <3> QED BY <3>1, <1>1
  <2>5. Written([d1 EXCEPT ![o.k] = o.v], f) = [Written(d1, f) EXCEPT ![o.k] = o.v]
    <3>1. \A i \in 1..Len(f) : f[i].k # o.k
      BY <1>1, <1>3
    <3> HIDE DEF f2
    <3> QED BY <2>1, <1>1, <3>1, WrittenBefore
  <2>6. Written(d2, f) = [db EXCEPT ![k] = v]
    BY <2>2, <2>5, <1>1, <1>2 DEF d1
  <2>7. [[db EXCEPT ![k] = v] EXCEPT ![k] = db[k]] = db
    BY DEF Database
  <2> QED BY <2>4, <2>6, <2>7 DEF d2
<1> HIDE DEF b2, f2
<1>7. ASSUME NEW i \in 1..Len(f2) PROVE \E j \in 1..Len(b2) : f2[i].k = b2[j].k
  <2>1. CASE i = Len(f) + 1
    <3>1. Len(b) + 1 \in 1..Len(b2)
      BY <1>4
    <3> QED BY <3>1, <2>1, <1>1, <1>4, <1>5
  <2>2. CASE i # Len(f) + 1
    <3>1. i \in 1..Len(f)
      BY <2>2, <1>5
    <3>2. PICK j \in 1..Len(b) : f[i].k = b[j].k
      BY <3>1, <1>2
    <3>3. f2[i] = f[i]
      BY <3>1, <1>5
    <3>4. j \in 1..Len(b2) /\ b2[j] = b[j]
      BY <1>4
    <3> QED BY <3>2, <3>3, <3>4
  <2> QED BY <2>1, <2>2
<1>8. Undoes(db, [b |-> b2, f |-> f2])
  BY <1>4, <1>5, <1>6, <1>7 DEF Undoes
<1> QED BY <1>8 DEF b2, f2, o, u

(* Deleting what is absent takes nothing back. *)
LEMMA UndoesDelete ==
    ASSUME NEW db \in Database, NEW b \in Seq(Write), NEW f \in Seq(Write),
           Undoes(db, [b |-> b, f |-> f]), NEW k \in DbKey, db[k] = Absent,
           \A i \in 1..Len(b) : b[i].k # k
    PROVE  Undoes(db, [b |-> Append(b, [k |-> k, v |-> Absent]), f |-> f])
<1> DEFINE o == [k |-> k, v |-> Absent]
           b2 == Append(b, o)
<1>1. o \in Write /\ o.k = k /\ o.v = Absent
  BY DEF Write
<1>2. /\ \A i \in 1..Len(f) : \E j \in 1..Len(b) : f[i].k = b[j].k
      /\ Written(Written(db, b), f) = db
  BY DEF Undoes
<1> HIDE DEF o
<1>3. /\ b2 \in Seq(Write) /\ Len(b2) = Len(b) + 1 /\ Len(b) \in Nat
      /\ \A n \in 1..Len(b) : b2[n] = b[n]
  BY <1>1, Appended
<1>4. Written(db, b2) = Written(db, b)
  <2>1. Written(db, b2) = [Written(db, b) EXCEPT ![k] = Absent]
    BY <1>1, WrittenMore
  <2>2. Written(db, b)[k] = Absent
    BY WrittenNot
  <2>3. Written(db, b) \in Database
    BY WrittenType
  <2> QED BY <2>1, <2>2, <2>3 DEF Database
<1> HIDE DEF b2
<1>5. ASSUME NEW i \in 1..Len(f) PROVE \E j \in 1..Len(b2) : f[i].k = b2[j].k
  <2>1. PICK j \in 1..Len(b) : f[i].k = b[j].k
    BY <1>2
  <2>2. j \in 1..Len(b2) /\ b2[j] = b[j]
    BY <1>3
  <2> QED BY <2>1, <2>2
<1>6. Undoes(db, [b |-> b2, f |-> f])
  BY <1>2, <1>3, <1>4, <1>5 DEF Undoes
<1> QED BY <1>6 DEF b2, o

LEMMA BatchesBegin == MCInit => Batches
<1> SUFFICES ASSUME MCInit, kind = "batch"
             PROVE  /\ in.db \in Database /\ in = [db |-> in.db, w |-> in.w]
                    /\ Undoes(in.db, in.w)
  BY DEF Batches
<1>1. in \in {[db |-> d, w |-> EmptyBatch] : d \in Database}
  BY DEF MCInit, Starts, Database
<1>2. PICK d \in Database : in = [db |-> d, w |-> EmptyBatch]
  BY <1>1
<1>3. in.db = d /\ in.w = EmptyBatch
  BY <1>2
<1>4. Undoes(d, EmptyBatch)
  <2>1. EmptyBatch \in [b : Seq(Write), f : Seq(Write)]
    BY DEF EmptyBatch
  <2>2. Written(Written(d, <<>>), <<>>) = d
    BY WrittenNone
  <2> QED BY <2>1, <2>2 DEF Undoes, EmptyBatch
<1> QED BY <1>2, <1>3, <1>4

LEMMA BatchesGrow == Batches /\ GrowBatch => Batches'
<1> SUFFICES ASSUME Batches, GrowBatch
             PROVE  /\ in'.db \in Database /\ in' = [db |-> in'.db, w |-> in'.w]
                    /\ Undoes(in'.db, in'.w)
  BY DEF Batches
<1>1. kind = "batch"
  BY DEF GrowBatch, Of
<1> DEFINE db == in.db
           b == in.w.b
           f == in.w.f
<1>2. /\ db \in Database /\ in = [db |-> in.db, w |-> in.w] /\ Undoes(db, in.w)
  BY <1>1 DEF Batches
<1>3. b \in Seq(Write) /\ f \in Seq(Write) /\ in.w = [b |-> b, f |-> f]
  BY <1>2 DEF Undoes
<1>4. PICK k \in DbKey :
         /\ Fresh(k)
         /\ \/ \E v \in DbValue : in.db[k] = Absent /\ in' = [in EXCEPT !.w = BatchPut(@, k, v)]
            \/ in' = [in EXCEPT !.w = BatchDel(@, k, in.db[k])]
            \/ \E v \in DbValue :
                  in.db[k] # Absent /\ in' = [in EXCEPT !.w = BatchSet(@, k, v, in.db[k])]
  BY DEF GrowBatch
<1>5. \A i \in 1..Len(b) : b[i].k # k
  <2>1. DOMAIN b = 1..Len(b)
    BY <1>3
  <2> QED BY <2>1, <1>4 DEF Fresh
<1>6. ASSUME NEW w, in' = [in EXCEPT !.w = w]
      PROVE  in'.db = db /\ in'.w = w /\ in' = [db |-> in'.db, w |-> in'.w]
  BY <1>6, <1>2
<1>7. \/ \E v \in DbValue \cup {Absent} :
            in' = [in EXCEPT !.w = [b |-> Append(b, [k |-> k, v |-> v]),
                                    f |-> Append(f, [k |-> k, v |-> db[k]])]]
      \/ /\ db[k] = Absent
         /\ in' = [in EXCEPT !.w = [b |-> Append(b, [k |-> k, v |-> Absent]), f |-> f]]
  <2>1. CASE \E v \in DbValue : in.db[k] = Absent /\ in' = [in EXCEPT !.w = BatchPut(@, k, v)]
    BY <2>1, <1>2 DEF BatchPut, DbPut, DbDel
  <2>2. CASE in' = [in EXCEPT !.w = BatchDel(@, k, in.db[k])]
    BY <2>2, <1>2 DEF BatchDel, DbPut, DbDel
  <2>3. CASE \E v \in DbValue :
                in.db[k] # Absent /\ in' = [in EXCEPT !.w = BatchSet(@, k, v, in.db[k])]
    BY <2>3, <1>2 DEF BatchSet, DbPut
  <2> QED BY <1>4, <2>1, <2>2, <2>3
<1>8. Undoes(db, [b |-> b, f |-> f])
  BY <1>2, <1>3
<1> HIDE DEF b, f, db
<1>9. CASE \E v \in DbValue \cup {Absent} :
              in' = [in EXCEPT !.w = [b |-> Append(b, [k |-> k, v |-> v]),
                                      f |-> Append(f, [k |-> k, v |-> db[k]])]]
  <2>1. PICK v \in DbValue \cup {Absent} :
           in' = [in EXCEPT !.w = [b |-> Append(b, [k |-> k, v |-> v]),
                                   f |-> Append(f, [k |-> k, v |-> db[k]])]]
    BY <1>9
  <2>2. Undoes(db, [b |-> Append(b, [k |-> k, v |-> v]), f |-> Append(f, [k |-> k, v |-> db[k]])])
    BY <1>2, <1>3, <1>5, <1>8, UndoesMore
  <2> QED BY <2>1, <2>2, <1>2, <1>6
<1>10. CASE /\ db[k] = Absent
            /\ in' = [in EXCEPT !.w = [b |-> Append(b, [k |-> k, v |-> Absent]), f |-> f]]
  <2>1. Undoes(db, [b |-> Append(b, [k |-> k, v |-> Absent]), f |-> f])
    BY <1>2, <1>3, <1>5, <1>8, <1>10, UndoesDelete
  <2> QED BY <2>1, <1>2, <1>6, <1>10
<1> QED BY <1>7, <1>9, <1>10

LEMMA BatchesKeep == Batches /\ [MCNext]_mvars => Batches'
<1> SUFFICES ASSUME Batches, [MCNext]_mvars PROVE Batches'
  OBVIOUS
<1>1. CASE GrowBatch
  BY <1>1, BatchesGrow
<1>2. CASE \/ GrowLeaves \/ GrowTarget \/ GrowScript \/ GrowSigs
           \/ SignInput \/ ChangeTx \/ GrowCoins \/ GrowOuts \/ GrowPool
  <2>1. kind' # "batch"
    BY <1>2 DEF GrowLeaves, GrowTarget, GrowScript, GrowSigs, SignInput, ChangeTx, GrowCoins,
                GrowOuts, GrowPool, Of
  <2> QED BY <2>1 DEF Batches
<1>3. CASE UNCHANGED mvars
  BY <1>3 DEF mvars, Batches
<1> QED BY <1>1, <1>2, <1>3 DEF MCNext

(* Whatever a batch writes, each key once as link does, its undo batch      *)
(* leaves the database as it was (IBatch::put, del, set, reverse).          *)
THEOREM UndoAlwaysRestores == MCSpec => []UndoRestores
<1>1. MCSpec => []Batches
  BY BatchesBegin, BatchesKeep, PTL DEF MCSpec
<1>2. Batches => UndoRestores
  BY DEF Batches, UndoRestores, Undoes
<1> QED BY <1>1, <1>2, PTL

Bytes == 0..255

LEMMA SameCut ==
    ASSUME NEW s \in Seq(Bytes), NEW p \in 1..Len(s)
    PROVE  \/ ExecNext(s, p) = OpsNext(s, p)
           \/ ExecNext(s, p) = None /\ OpsNext(s, p) = p + 1
<1> DEFINE c == s[p]
           B == Bytes
<1>1. c \in B
  <2>1. s \in Seq(B)
    OBVIOUS
  <2> HIDE DEF B
  <2> QED BY <2>1
<1>2. CASE c = OpTypeB
  BY <1>2 DEF ExecNext, OpsNext
<1>3. CASE c # OpTypeB /\ c \in OpNumber1..OpNumber8
  <2>1. 2 ^ 0 = 1 /\ 2 ^ 1 = 2 /\ 2 ^ 2 = 4 /\ 2 ^ 3 = 8
    OBVIOUS
  <2> DEFINE n == c - OpNumber1
  <2>2. n \in 0..3
    BY <1>3 DEF OpNumber1, OpNumber8
  <2>3. /\ OpsNext(s, p) = Skip(s, p + 1, 2 ^ n)
        /\ ExecNext(s, p) = Skip(s, p + 1, <<1, 2, 4, 8>>[n + 1])
    BY <1>3 DEF OpsNext, ExecNext
  <2> HIDE DEF n
  <2>4. 2 ^ n = <<1, 2, 4, 8>>[n + 1]
    <3>1. \/ n = 0 /\ n + 1 = 1
          \/ n = 1 /\ n + 1 = 2
          \/ n = 2 /\ n + 1 = 3
          \/ n = 3 /\ n + 1 = 4
      BY <2>2
    <3> DEFINE t == <<1, 2, 4, 8>>
    <3>2. t[1] = 1 /\ t[2] = 2 /\ t[3] = 4 /\ t[4] = 8
      OBVIOUS
    <3> HIDE DEF t
    <3>3. 2 ^ n = t[n + 1]
      BY <3>1, <3>2, <2>1
    <3> QED BY <3>3 DEF t
  <2> QED BY <2>3, <2>4
<1>4. CASE c \notin {OpTypeB} \cup OpNumber1..OpNumber8 /\ c \in OpData1..OpData4
  <2> DEFINE n == c - OpData1 + 1
  <2>1. n \in 1..3
    BY <1>4 DEF OpData1, OpData4
  <2>2. /\ OpsNext(s, p) = SkipData(s, p + 1, IF n = 3 THEN 4 ELSE n)
        /\ ExecNext(s, p) = SkipData(s, p + 1, <<1, 2, 4>>[n])
    BY <1>4 DEF OpsNext, ExecNext
  <2> HIDE DEF n
  <2>3. (IF n = 3 THEN 4 ELSE n) = <<1, 2, 4>>[n]
    <3>1. n = 1 \/ n = 2 \/ n = 3
      BY <2>1
    <3> QED BY <3>1
  <2> QED BY <2>2, <2>3
<1>5. CASE c \notin {OpTypeB} \cup OpNumber1..OpNumber8 \cup OpData1..OpData4
  <2>1. OpsNext(s, p) = p + 1
    BY <1>5 DEF OpsNext
  <2>2. ExecNext(s, p) = p + 1 \/ ExecNext(s, p) = None
    BY <1>5 DEF ExecNext
  <2> QED BY <2>1, <2>2
<1> QED BY <1>2, <1>3, <1>4, <1>5

LEMMA Joined ==
    ASSUME NEW S, NEW s \in Seq(S), NEW t \in Seq(S)
    PROVE  /\ s \o t \in Seq(S) /\ Len(s \o t) = Len(s) + Len(t)
           /\ Len(s) \in Nat /\ Len(t) \in Nat
           /\ \A i \in 1..Len(s) : (s \o t)[i] = s[i]
           /\ \A i \in 1..Len(t) : (s \o t)[Len(s) + i] = t[i]
  OBVIOUS

(* Data put at the end of a script is one operation to both. *)
LEMMA DataIsOne ==
    ASSUME NEW v \in Seq(Bytes), v # <<>>, Len(v) <= 65535
    PROVE  LET s == v \o DataOp(v)
           IN  /\ s \in Seq(Bytes) /\ Len(v) + 1 \in 1..Len(s)
               /\ OpsNext(s, Len(v) + 1) = Len(s) + 1
               /\ ExecNext(s, Len(v) + 1) = Len(s) + 1
<1> DEFINE L == Len(v)
           B == Bytes
<1>1. v \in Seq(B) /\ L \in Nat /\ L >= 1
  <2> HIDE DEF B
  <2> QED BY DEF B
<1>2. CASE L <= 255
  <2> DEFINE h == <<OpData1, L>>
             s == v \o (h \o v)
  <2>0. OpData1 \in B /\ L \in B
    <3>1. L \in Nat /\ L <= 255
      BY <1>1, <1>2
    <3> HIDE DEF L
    <3>2. L \in 0..255
      BY <3>1
    <3> QED BY <3>2 DEF OpData1, Bytes
  <2>1. h \in Seq(B) /\ Len(h) = 2 /\ h[1] = OpData1 /\ h[2] = L
    <3> HIDE DEF B, L
    <3> QED BY <2>0
  <2>2. DataOp(v) = h \o v
    BY <1>2 DEF DataOp
  <2> HIDE DEF h, B
  <2>3. /\ h \o v \in Seq(B) /\ Len(h \o v) = 2 + L
        /\ (h \o v)[1] = OpData1 /\ (h \o v)[2] = L
    <3>1. h \in Seq(B)
      BY <2>1
    <3>2. v \in Seq(B)
      BY <1>1
    <3>3. /\ h \o v \in Seq(B) /\ Len(h \o v) = Len(h) + Len(v)
          /\ \A i \in 1..Len(h) : (h \o v)[i] = h[i]
      BY <3>1, <3>2
    <3>4. L = Len(v)
      OBVIOUS
    <3> HIDE DEF L
    <3> QED BY <3>3, <3>4, <2>1
  <2>4. /\ s \in Seq(B) /\ Len(s) = L + L + 2 /\ s[L + 1] = OpData1 /\ s[L + 2] = L
    BY <1>1, <2>3
  <2> HIDE DEF s, L
  <2>5. SkipData(s, L + 2, 1) = Len(s) + 1
    <3>1. Skip(s, L + 2, 1) # None /\ ~\E i \in 3..1 : s[(L + 2) + i - 1] # 0
      BY <1>1, <2>4 DEF Skip, None
    <3>2. SkipData(s, L + 2, 1) = Skip(s, (L + 2) + 1, L + 0)
      BY <3>1, <2>4 DEF SkipData
    <3>3. Skip(s, (L + 2) + 1, L + 0) = Len(s) + 1
      <4>1. L + 0 = L /\ ((L + 2) + 1) + L - 1 <= Len(s) /\ ((L + 2) + 1) + L = Len(s) + 1
        BY <1>1, <2>4
      <4> QED BY <4>1 DEF Skip
    <3> QED BY <3>2, <3>3
  <2>6. (L + 1) + 1 = L + 2 /\ (OpData1 - OpData1) + 1 = 1
    BY <1>1 DEF OpData1
  <2>7. OpsNext(s, L + 1) = Len(s) + 1 /\ ExecNext(s, L + 1) = Len(s) + 1
    BY <2>4, <2>5, <2>6 DEF OpsNext, ExecNext, OpTypeB, OpNumber1, OpNumber8, OpData1, OpData4
  <2>8. L + 1 \in 1..Len(s)
    BY <1>1, <2>4
  <2> QED BY <2>2, <2>4, <2>7, <2>8 DEF s, L, B
<1>3. CASE L > 255
  <2> DEFINE lo == L % 256
             hi == L \div 256
             h == <<OpData1 + 1, lo, hi>>
             s == v \o (h \o v)
  <2>0. lo \in 0..255 /\ hi \in 0..255 /\ lo + 256 * hi = L
    <3>1. L \in Nat /\ L <= 65535
      BY <1>1
    <3> HIDE DEF L
    <3> QED BY <3>1
  <2> HIDE DEF lo, hi
  <2>1. h \in Seq(B) /\ Len(h) = 3 /\ h[1] = OpData1 + 1 /\ h[2] = lo /\ h[3] = hi
    BY <2>0 DEF OpData1, Bytes
  <2>2. DataOp(v) = h \o v
    BY <1>1, <1>3 DEF DataOp, lo, hi
  <2> HIDE DEF h, B
  <2>3. /\ h \o v \in Seq(B) /\ Len(h \o v) = 3 + L
        /\ (h \o v)[1] = OpData1 + 1 /\ (h \o v)[2] = lo /\ (h \o v)[3] = hi
    <3>1. h \in Seq(B)
      BY <2>1
    <3>2. v \in Seq(B)
      BY <1>1
    <3>3. /\ h \o v \in Seq(B) /\ Len(h \o v) = Len(h) + Len(v)
          /\ \A i \in 1..Len(h) : (h \o v)[i] = h[i]
      BY <3>1, <3>2
    <3>4. L = Len(v)
      OBVIOUS
    <3> HIDE DEF L
    <3> QED BY <3>3, <3>4, <2>1
  <2>4. /\ s \in Seq(B) /\ Len(s) = L + L + 3 /\ s[L + 1] = OpData1 + 1 /\ s[L + 2] = lo
        /\ s[L + 3] = hi
    BY <1>1, <2>3
  <2> HIDE DEF s, L
  <2>5. SkipData(s, L + 2, 2) = Len(s) + 1
    <3>1. Skip(s, L + 2, 2) # None /\ ~\E i \in 3..2 : s[(L + 2) + i - 1] # 0
      BY <1>1, <2>4 DEF Skip, None
    <3>2. SkipData(s, L + 2, 2) = Skip(s, (L + 2) + 2, lo + 256 * s[(L + 2) + 1])
      BY <3>1, <2>4 DEF SkipData
    <3>3. (L + 2) + 1 = L + 3
      BY <1>1
    <3>4. SkipData(s, L + 2, 2) = Skip(s, (L + 2) + 2, L)
      <4>1. s[(L + 2) + 1] = hi
        BY <3>3, <2>4
      <4>2. lo + 256 * hi = L
        BY <2>0
      <4>3. lo + 256 * s[(L + 2) + 1] = L
        BY <4>1, <4>2
      <4> QED BY <3>2, <4>3
    <3>5. Skip(s, (L + 2) + 2, L) = Len(s) + 1
      <4>1. ((L + 2) + 2) + L - 1 <= Len(s) /\ ((L + 2) + 2) + L = Len(s) + 1
        BY <1>1, <2>4
      <4> QED BY <4>1 DEF Skip
    <3> QED BY <3>4, <3>5
  <2>6. (L + 1) + 1 = L + 2 /\ ((OpData1 + 1) - OpData1) + 1 = 2
    BY <1>1 DEF OpData1
  <2>7. OpsNext(s, L + 1) = Len(s) + 1 /\ ExecNext(s, L + 1) = Len(s) + 1
    BY <2>4, <2>5, <2>6 DEF OpsNext, ExecNext, OpTypeB, OpNumber1, OpNumber8, OpData1, OpData4
  <2>8. L + 1 \in 1..Len(s)
    BY <1>1, <2>4
  <2> QED BY <2>2, <2>4, <2>7, <2>8 DEF s, L, B
<1> QED BY <1>1, <1>2, <1>3

LEMMA JoinedAround ==
    ASSUME NEW S, NEW a \in Seq(S), NEW b \in Seq(S), NEW c \in Seq(S), NEW d \in Seq(S)
    PROVE  LET s == (a \o (b \o c)) \o d
           IN  /\ s \in Seq(S) /\ Len(a \o (b \o c)) = Len(a) + Len(b) + Len(c)
               /\ Len(s) = Len(a) + Len(b) + Len(c) + Len(d)
               /\ \A i \in 1..Len(b) : s[Len(a) + i] = b[i]
               /\ \A i \in 1..Len(c) : s[Len(a) + Len(b) + i] = c[i]
<1> DEFINE g == b \o c
           f == a \o g
           s == f \o d
<1>1. /\ g \in Seq(S) /\ Len(g) = Len(b) + Len(c)
      /\ \A i \in 1..Len(b) : g[i] = b[i]
      /\ \A i \in 1..Len(c) : g[Len(b) + i] = c[i]
  BY Joined
<1> HIDE DEF g
<1>2. /\ f \in Seq(S) /\ Len(f) = Len(a) + Len(g)
      /\ \A i \in 1..Len(g) : f[Len(a) + i] = g[i]
  <2>1. g \in Seq(S)
    BY <1>1
  <2> QED BY <2>1
<1> HIDE DEF f
<1>3. /\ s \in Seq(S) /\ Len(s) = Len(f) + Len(d)
      /\ \A i \in 1..Len(f) : s[i] = f[i]
  <2>1. f \in Seq(S)
    BY <1>2
  <2> QED BY <2>1
<1> HIDE DEF s
<1>4. PICK la \in Nat, lb \in Nat, lc \in Nat, ld \in Nat :
         la = Len(a) /\ lb = Len(b) /\ lc = Len(c) /\ ld = Len(d)
  OBVIOUS
<1>5. Len(g) = lb + lc /\ Len(f) = la + (lb + lc) /\ Len(s) = (la + (lb + lc)) + ld
  BY <1>1, <1>2, <1>3, <1>4, Zenon
<1>6. ASSUME NEW i \in 1..lb PROVE s[la + i] = b[i]
  <2>1. i \in 1..(lb + lc) /\ la + i \in 1..(la + (lb + lc))
    BY <1>4
  <2> QED BY <2>1, <1>1, <1>2, <1>3, <1>4, <1>5, Zenon
<1>7. ASSUME NEW i \in 1..lc PROVE s[la + lb + i] = c[i]
  <2>1. /\ lb + i \in 1..(lb + lc) /\ la + (lb + i) \in 1..(la + (lb + lc))
        /\ la + lb + i = la + (lb + i)
    BY <1>4
  <2> QED BY <2>1, <1>1, <1>2, <1>3, <1>4, <1>5, Zenon
<1>8. la + (lb + lc) = la + lb + lc /\ (la + (lb + lc)) + ld = la + lb + lc + ld
  BY <1>4
<1> QED BY <1>3, <1>4, <1>5, <1>6, <1>7, <1>8, Zenon DEF s, f, g

TwoBytes(a, b, n) == a \in Nat /\ a >= 128 /\ 256 * (a - 128) + b = n

(* A length comes in one byte or two, as its first byte says. *)
LEMMA LengthsComeBack ==
    ASSUME NEW n \in Nat, n <= MaxUsize
    PROVE  /\ Usize(n) \in Seq(Bytes)
           /\ \/ n <= 127 /\ Len(Usize(n)) = 1 /\ Usize(n)[1] = n
              \/ n > 127 /\ Len(Usize(n)) = 2 /\ TwoBytes(Usize(n)[1], Usize(n)[2], n)
<1> DEFINE B == Bytes
<1>1. CASE n <= 127
  <2>1. n \in B /\ Usize(n) = <<n>>
    BY <1>1 DEF Usize, Bytes
  <2> HIDE DEF B
  <2>2. <<n>> \in Seq(B) /\ Len(<<n>>) = 1 /\ <<n>>[1] = n
    BY <2>1
  <2> QED BY <1>1, <2>1, <2>2 DEF B
<1>2. CASE n > 127
  <2> DEFINE hi == n \div 256
             lo == n % 256
  <2>1. n <= 32767
    BY DEF MaxUsize
  <2>2. lo \in 0..255 /\ hi \in Nat /\ 256 * hi + lo = n
    OBVIOUS
  <2>3. Usize(n) = <<128 + hi, lo>>
    BY <1>2 DEF Usize
  <2> HIDE DEF hi, lo
  <2>4. hi \in 0..127
    BY <2>1, <2>2
  <2>5. 128 + hi \in B /\ lo \in B /\ TwoBytes(128 + hi, lo, n)
    BY <2>2, <2>4 DEF Bytes, TwoBytes
  <2> HIDE DEF B
  <2>6. <<128 + hi, lo>> \in Seq(B) /\ Len(<<128 + hi, lo>>) = 2
    BY <2>5
  <2>7. Usize(n)[1] = 128 + hi /\ Usize(n)[2] = lo
    BY <2>3
  <2>8. TwoBytes(Usize(n)[1], Usize(n)[2], n)
    BY <2>5, <2>7, Zenon
  <2> QED BY <1>2, <2>3, <2>6, <2>8, Zenon DEF B
<1> QED BY <1>1, <1>2

(* The length n at p, in k bytes, and as many bytes behind it. *)
LengthAt(s, p, k, n) ==
    /\ p \in Nat \ {0} /\ k \in {1, 2} /\ n \in Nat /\ Len(s) \in Nat
    /\ p + k + n - 1 <= Len(s)
    /\ \/ n <= 127 /\ k = 1 /\ s[p] = n
       \/ n > 127 /\ k = 2 /\ TwoBytes(s[p], s[p + 1], n)

LEMMA UsizeReads ==
    ASSUME NEW s, NEW p, NEW k, NEW n, LengthAt(s, p, k, n)
    PROVE  UsizeNext(s, p) = p + k /\ GetNext(s, p) = p + k + n
<1>0. /\ p \in Nat \ {0} /\ k \in {1, 2} /\ n \in Nat /\ Len(s) \in Nat
      /\ p + k + n - 1 <= Len(s)
      /\ \/ n <= 127 /\ k = 1 /\ s[p] = n
         \/ n > 127 /\ k = 2 /\ s[p] \in Nat /\ s[p] >= 128 /\ 256 * (s[p] - 128) + s[p + 1] = n
  BY Zenon DEF LengthAt, TwoBytes
<1>1. Skip(s, p, 1) = p + 1 /\ p + 1 # None
  BY <1>0 DEF Skip, None
<1>2. UsizeNext(s, p) = p + k /\ UsizeAt(s, p) = n
  <2>1. CASE n <= 127 /\ k = 1 /\ s[p] = n
    <3>1. s[p] < 128
      BY <1>0, <2>1
    <3> QED BY <1>0, <1>1, <2>1, <3>1 DEF UsizeNext, UsizeAt
  <2>2. CASE /\ n > 127 /\ k = 2 /\ s[p] \in Nat /\ s[p] >= 128
             /\ 256 * (s[p] - 128) + s[p + 1] = n
    <3>1. ~(s[p] < 128)
      BY <2>2
    <3>2. Skip(s, p, 2) = p + 2
      <4>1. p + 2 - 1 <= Len(s)
        BY <1>0, <2>2
      <4> QED BY <4>1 DEF Skip
    <3> QED BY <1>1, <2>2, <3>1, <3>2 DEF UsizeNext, UsizeAt
  <2> QED BY <1>0, <2>1, <2>2
<1>3. k \in Nat /\ p + k # None /\ Skip(s, p + k, n) = p + k + n
  BY <1>0 DEF Skip, None
<1>4. GetNext(s, p) = p + k + n
  BY <1>2, <1>3, Zenon DEF GetNext
<1> QED BY <1>2, <1>4

(* Whatever is put with a length that Writer::usize takes is got back, and  *)
(* the reader is then right behind it, whatever bytes come before and after *)
(* (Writer::put, usize; Reader::get, usize).                                *)
THEOREM PutComesBack ==
    ASSUME NEW u \in Seq(Bytes), NEW v \in Seq(Bytes), NEW w \in Seq(Bytes),
           Len(v) <= MaxUsize
    PROVE  LET s == u \o PutBytes(v) \o w
           IN  /\ GotBytes(s, Len(u) + 1) = v
               /\ GetNext(s, Len(u) + 1) = Len(u \o PutBytes(v)) + 1
<1> DEFINE h == Usize(Len(v))
           s == (u \o (h \o v)) \o w
<1>1. PICK n \in Nat, o \in Nat, q \in Nat : n = Len(v) /\ o = Len(u) /\ q = Len(w)
  OBVIOUS
<1>2. /\ h \in Seq(Bytes)
      /\ \/ n <= 127 /\ Len(h) = 1 /\ h[1] = n
         \/ n > 127 /\ Len(h) = 2 /\ TwoBytes(h[1], h[2], n)
  <2>1. n \in Nat /\ n <= MaxUsize /\ h = Usize(n)
    BY <1>1, Zenon
  <2> HIDE DEF h
  <2> QED BY <2>1, LengthsComeBack, Zenon
<1> HIDE DEF h
<1>3. PICK k \in {1, 2} : k = Len(h)
  BY <1>2, Zenon
<1>4. /\ s \in Seq(Bytes) /\ Len(u \o (h \o v)) = o + k + n /\ Len(s) = o + k + n + q
      /\ \A i \in 1..k : s[o + i] = h[i]
      /\ \A i \in 1..n : s[o + k + i] = v[i]
  <2>1. /\ s \in Seq(Bytes) /\ Len(u \o (h \o v)) = Len(u) + Len(h) + Len(v)
        /\ Len(s) = Len(u) + Len(h) + Len(v) + Len(w)
        /\ \A i \in 1..Len(h) : s[Len(u) + i] = h[i]
        /\ \A i \in 1..Len(v) : s[Len(u) + Len(h) + i] = v[i]
    <3>1. h \in Seq(Bytes)
      BY <1>2
    <3> HIDE DEF h
    <3> QED BY <3>1, JoinedAround
  <2> HIDE DEF s
  <2> QED BY <2>1, <1>1, <1>3, Zenon
<1>5. u \o PutBytes(v) \o w = s /\ u \o PutBytes(v) = u \o (h \o v)
  BY Zenon DEF PutBytes, h
<1> HIDE DEF s
<1> DEFINE p == o + 1
<1>6. p \in Nat \ {0} /\ p + k + n - 1 <= o + k + n + q /\ o + k + n + q \in Nat
  BY <1>1, <1>3
<1>7. \/ n <= 127 /\ k = 1 /\ s[p] = n
      \/ n > 127 /\ k = 2 /\ TwoBytes(s[p], s[p + 1], n)
  <2>1. 1 \in 1..k /\ (k = 2 => 2 \in 1..k) /\ p + 1 = o + 2
    BY <1>3
  <2>2. s[p] = h[1] /\ (k = 2 => s[p + 1] = h[2])
    BY <2>1, <1>4, Zenon
  <2> HIDE DEF p
  <2>3. CASE n <= 127 /\ Len(h) = 1 /\ h[1] = n
    <3>1. k = 1 /\ s[p] = n
      BY <1>3, <2>2, <2>3, Zenon
    <3> QED BY <2>3, <3>1, Zenon
  <2>4. CASE n > 127 /\ Len(h) = 2 /\ TwoBytes(h[1], h[2], n)
    <3>1. k = 2
      BY <1>3, <2>4, Zenon
    <3>2. s[p] = h[1] /\ s[p + 1] = h[2]
      BY <2>2, <3>1, Zenon
    <3>3. TwoBytes(s[p], s[p + 1], n)
      BY <2>4, <3>2, Zenon
    <3> QED BY <2>4, <3>1, <3>3, Zenon
  <2> QED BY <1>2, <2>3, <2>4, Zenon
<1> HIDE DEF p
<1>8. PICK i \in Nat, j \in Nat : i = p + k /\ j = p + k + n
  BY <1>3, <1>6
<1>9. UsizeNext(s, p) = i /\ GetNext(s, p) = j
  <2>1. Len(s) \in Nat /\ p + k + n - 1 <= Len(s) /\ p \in Nat \ {0}
    BY <1>4, <1>6, Zenon
  <2>2. n \in Nat /\ k \in {1, 2}
    BY <1>1, <1>3
  <2>3. LengthAt(s, p, k, n)
    BY <2>1, <2>2, <1>7, Zenon DEF LengthAt
  <2> QED BY <2>3, <1>8, UsizeReads
<1>10. GotBytes(s, p) = v
  <2> DEFINE r == SubSeq(s, i, j - 1)
  <2>1. /\ i \in Int /\ j - 1 \in Int /\ (j - 1) - i + 1 = n /\ (~(i <= j - 1) => n = 0)
        /\ \A l \in i..(j - 1) : l \in 1..(o + k + n + q)
        /\ \A l \in 1..n : i + l - 1 = o + k + l
    BY <1>1, <1>3, <1>8 DEF p
  <2>2. \A l \in i..(j - 1) : s[l] \in Bytes
    <3>1. \A l \in 1..Len(s) : s[l] \in Bytes
      BY <1>4
    <3> QED BY <3>1, <2>1, <1>4, Zenon
  <2>3. /\ r \in Seq(Bytes) /\ Len(r) = IF i <= j - 1 THEN (j - 1) - i + 1 ELSE 0
        /\ \A l \in 1..((j - 1) - i + 1) : r[l] = s[i + l - 1]
    <3> DEFINE hi == j - 1
    <3>1. i \in Int /\ hi \in Int /\ \A l \in i..hi : s[l] \in Bytes
      BY <2>1, <2>2, Zenon
    <3> HIDE DEF hi
    <3>2. /\ SubSeq(s, i, hi) \in Seq(Bytes)
          /\ Len(SubSeq(s, i, hi)) = IF i <= hi THEN hi - i + 1 ELSE 0
          /\ \A l \in 1..(hi - i + 1) : SubSeq(s, i, hi)[l] = s[i + l - 1]
      BY <3>1, SubSeqProperties
    <3> QED BY <3>2, Zenon DEF hi
  <2> HIDE DEF r
  <2>4. Len(r) = n /\ \A l \in 1..n : r[l] = v[l]
    BY <2>1, <2>3, <1>4, Zenon
  <2>5. r = v
    BY <2>3, <2>4, <1>1, SeqEqual
  <2>6. GotBytes(s, p) = r
    BY <1>9, Zenon DEF GotBytes, r
  <2> QED BY <2>5, <2>6
<1>11. j = (o + k + n) + 1
  BY <1>1, <1>3, <1>8 DEF p
<1> QED BY <1>1, <1>4, <1>5, <1>9, <1>10, <1>11, Zenon DEF p

Scripts == kind = "script" => in \in Seq(Bytes)

LEMMA ScriptsBegin == MCInit => Scripts
<1> SUFFICES ASSUME MCInit, kind = "script" PROVE in \in Seq(Bytes)
  BY DEF Scripts
<1>1. PICK t \in 1..3 : in = <<OpTypeB, t>>
  BY DEF MCInit, Starts
<1> QED BY <1>1 DEF OpTypeB, Bytes

LEMMA PiecesAreBytes == \A s \in Pieces : s \in Seq(Bytes)
<1> DEFINE B == Bytes
<1>1. /\ 0 \in B /\ 1 \in B /\ 2 \in B /\ 7 \in B /\ 200 \in B /\ 255 \in B
      /\ OpNumber1 \in B /\ OpNumber1 + 1 \in B /\ OpNumber8 \in B
      /\ OpData1 \in B /\ OpData1 + 1 \in B /\ OpData4 \in B
  BY DEF Bytes, OpNumber1, OpNumber8, OpData1, OpData4
<1> HIDE DEF B
<1>2. <<OpNumber8>> \o <<1, 1, 1, 1>> \in Seq(B)
  <2>1. <<OpNumber8>> \in Seq(B) /\ <<1, 1, 1, 1>> \in Seq(B)
    BY <1>1
  <2> QED BY <2>1, Joined
<1>3. /\ <<0>> \in Seq(B) /\ <<1>> \in Seq(B) /\ <<200>> \in Seq(B) /\ <<255>> \in Seq(B)
      /\ <<OpNumber1>> \in Seq(B) /\ <<OpNumber1 + 1, 7, 7>> \in Seq(B) /\ <<OpData1>> \in Seq(B)
      /\ <<OpData1, 2, 7, 7>> \in Seq(B) /\ <<OpData1 + 1, 1, 0>> \in Seq(B)
      /\ <<OpData4, 1, 0, 0>> \in Seq(B) /\ <<0, 0, 0>> \in Seq(B)
  BY <1>1
<1>4. Pieces \subseteq Seq(B)
  BY <1>2, <1>3, SMTT(60) DEF Pieces
<1> QED BY <1>4 DEF B

LEMMA ScriptsKeep == Scripts /\ [MCNext]_mvars => Scripts'
<1> SUFFICES ASSUME Scripts, [MCNext]_mvars PROVE Scripts'
  OBVIOUS
<1>1. CASE GrowScript
  <2>1. PICK s \in Pieces : in' = in \o s
    BY <1>1 DEF GrowScript
  <2>2. in \in Seq(Bytes) /\ s \in Seq(Bytes)
    BY <1>1, PiecesAreBytes DEF Scripts, GrowScript, Of
  <2> QED BY <2>1, <2>2 DEF Scripts
<1>2. CASE \/ GrowLeaves \/ GrowTarget \/ GrowBatch \/ GrowSigs
           \/ SignInput \/ ChangeTx \/ GrowCoins \/ GrowOuts \/ GrowPool
  <2>1. kind' # "script"
    BY <1>2 DEF GrowLeaves, GrowTarget, GrowBatch, GrowSigs, SignInput, ChangeTx, GrowCoins,
                GrowOuts, GrowPool, Of
  <2> QED BY <2>1 DEF Scripts
<1>3. CASE UNCHANGED mvars
  BY <1>3 DEF mvars, Scripts
<1> QED BY <1>1, <1>2, <1>3 DEF MCNext

LEMMA LongsArePut == \A v \in Longs : v \in Seq(Bytes) /\ Len(v) <= MaxUsize
<1> SUFFICES ASSUME NEW v \in Longs PROVE v \in Seq(Bytes) /\ Len(v) <= MaxUsize
  OBVIOUS
<1>0. PICK n \in {0, 127, 128, 255, 256} : v = [i \in 1..n |-> 255]
  BY Zenon DEF Longs
<1> DEFINE B == Bytes
<1>1. n \in Nat /\ n <= 32767 /\ 255 \in B
  BY DEF Bytes
<1> HIDE DEF B
<1>2. [i \in 1..n |-> 255] \in Seq(B) /\ Len([i \in 1..n |-> 255]) = n
  BY <1>1
<1>3. v \in Seq(B) /\ Len(v) = n
  BY <1>0, <1>2
<1> QED BY <1>1, <1>3 DEF B, MaxUsize

(* Every script, whatever its bytes, is cut by exec where ops cuts it, up   *)
(* to an operation exec does not know, takes itself as data at its end, and *)
(* comes back from where it was put with its length (Script::ops,           *)
(* Exector::exec, read_binary, data; Writer::put, Reader::get).             *)
THEOREM FramingAlwaysAgrees == MCSpec => []FramingAgrees
<1>1. MCSpec => []Scripts
  BY ScriptsBegin, ScriptsKeep, PTL DEF MCSpec
<1>2. Scripts => FramingAgrees
  <2> SUFFICES ASSUME Scripts, kind = "script", ScriptCheck(in) PROVE FramingAgrees
    BY DEF FramingAgrees
  <2>1. in \in Seq(Bytes) /\ in # <<>> /\ DOMAIN in = 1..Len(in)
    BY DEF Scripts, ScriptCheck
  <2>2. Len(in) <= MaxUsize /\ Len(in) <= 65535
    <3>1. MaxSize(in) \in Nat /\ MaxSize(in) <= 32767
      <4> DEFINE t == TypeOf(in)
                 l == <<MaxCbSize, MaxInSize, MaxOutSize>>
      <4>0. l[1] = MaxCbSize /\ l[2] = MaxInSize /\ l[3] = MaxOutSize
        OBVIOUS
      <4>1. \A i \in 1..3 : l[i] \in Nat /\ l[i] <= 32767
        BY <4>0, ScriptBytesAssumption DEF MaxUsize
      <4>2. MaxSize(in) = IF t \in 1..3 THEN l[t] ELSE 0
        BY DEF MaxSize
      <4> HIDE DEF t, l
      <4>3. t \in 1..3 => t = 1 \/ t = 2 \/ t = 3
        OBVIOUS
      <4> QED BY <4>1, <4>2, <4>3
    <3>2. Len(in) \in Nat /\ Len(in) <= MaxSize(in)
      BY <2>1 DEF ScriptCheck
    <3> QED BY <3>1, <3>2 DEF MaxUsize
  <2>3. \A p \in OpsStarts(in) :
           \/ ExecNext(in, p) = OpsNext(in, p)
           \/ ExecNext(in, p) = None /\ OpsNext(in, p) = p + 1
    BY <2>1, SameCut DEF OpsStarts
  <2>4. LET s == in \o DataOp(in)
        IN  OpsNext(s, Len(in) + 1) = Len(s) + 1 /\ ExecNext(s, Len(in) + 1) = Len(s) + 1
    BY <2>1, <2>2, DataIsOne
  <2>5. \A v \in {in} \cup Longs :
           LET s == in \o PutBytes(v) \o in
           IN  GotBytes(s, Len(in) + 1) = v /\ GetNext(s, Len(in) + 1) = Len(in \o PutBytes(v)) + 1
    <3>1. in \in Seq(Bytes) /\ Len(in) <= MaxUsize
      BY <2>1, <2>2
    <3>2. \A v \in Longs : v \in Seq(Bytes) /\ Len(v) <= MaxUsize
      BY LongsArePut
    <3>3. \A v \in {in} \cup Longs : v \in Seq(Bytes) /\ Len(v) <= MaxUsize
      BY <3>1, <3>2, Zenon
    <3> QED BY <3>1, <3>3, PutComesBack
  <2> QED BY <2>3, <2>4, <2>5 DEF FramingAgrees
<1> QED BY <1>1, <1>2, PTL

-----------------------------------------------------------------------------
(* What Present keeps of a sequence of options, and in what order. *)

(* What Present collects, element by element. *)
Collects(u, s, none) ==
    /\ u[0] = <<>>
    /\ \A n \in 1..Len(s) : u[n] = IF s[n] = none THEN u[n - 1] ELSE Append(u[n - 1], s[n])

Gathers(S, s, none) ==
    \E u \in [0..Len(s) -> Seq(S)] : Collects(u, s, none) /\ Present(s, none) = u[Len(s)]

LEMMA PresentCollects ==
    ASSUME NEW S, NEW none, NEW s \in Seq(S \cup {none})
    PROVE  Gathers(S, s, none)
<1> DEFINE L == Len(s)
           Step(g, n) == IF n = 0 THEN <<>> ELSE IF s[n] = none THEN g[n - 1]
                         ELSE Append(g[n - 1], s[n])
           F(g) == g = [n \in 0..L |-> Step(g, n)]
           upto == CHOOSE g : F(g)
           T == Seq(S)
           Turns == [n \in 1..L |-> [t \in T |-> IF s[n] = none THEN t ELSE Append(t, s[n])]]
<1>1. L \in Nat /\ \A n \in 1..L : s[n] = none \/ s[n] \in S
  OBVIOUS
<1>2. Present(s, none) = upto[L]
  BY DEF Present
<1> HIDE DEF L
<1>3. Turns \in [1..L -> [T -> T]]
  <2>1. \A n \in 1..L : \A t \in T : (IF s[n] = none THEN t ELSE Append(t, s[n])) \in T
    BY <1>1
  <2> HIDE DEF T
  <2> QED BY <2>1
<1>4. <<>> \in T
  OBVIOUS
<1>5. PICK g \in [0..L -> T] : Recurs(g, <<>>, L, Turns)
  <2> HIDE DEF Turns, T
  <2> QED BY <1>1, <1>3, <1>4, Recursion
<1>6. ASSUME NEW n \in 1..L
      PROVE  g[n] = IF s[n] = none THEN g[n - 1] ELSE Append(g[n - 1], s[n])
  <2>1. g[n - 1] \in T
    BY <1>1
  <2>2. Turns[n][g[n - 1]] = IF s[n] = none THEN g[n - 1] ELSE Append(g[n - 1], s[n])
    <3> HIDE DEF T
    <3> QED BY <2>1
  <2> HIDE DEF Turns
  <2> QED BY <2>2, <1>5 DEF Recurs
<1>7. F(g)
  <2>1. \A n \in 0..L : g[n] = Step(g, n)
    <3> TAKE n \in 0..L
    <3>1. CASE n = 0
      BY <3>1, <1>5 DEF Recurs
    <3>2. CASE n # 0
      <4>1. n \in 1..L
        BY <3>2, <1>1
      <4> QED BY <4>1, <3>2, <1>6
    <3> QED BY <3>1, <3>2
  <2> HIDE DEF Step, T
  <2> QED BY <2>1, <1>5
<1>8. F(upto)
  <2> HIDE DEF F
  <2> QED BY <1>7
<1>9. \A n \in 0..L : upto[n] = Step(upto, n)
  <2> HIDE DEF Step, upto
  <2> QED BY <1>8
<1> HIDE DEF upto, F
<1>10. upto[0] = <<>>
  <2>1. 0 \in 0..L
    BY <1>1
  <2> QED BY <2>1, <1>9
<1>11. ASSUME NEW n \in 1..L
       PROVE  upto[n] = IF s[n] = none THEN upto[n - 1] ELSE Append(upto[n - 1], s[n])
  <2>1. n \in 0..L /\ n # 0
    BY <1>1
  <2> QED BY <2>1, <1>9
<1> DEFINE C == {n \in Nat : n <= L => upto[n] = g[n]}
<1>12. 0 \in C
  BY <1>10, <1>5 DEF Recurs
<1>13. ASSUME NEW n \in Nat, n \in C PROVE n + 1 \in C
  <2> SUFFICES ASSUME n + 1 <= L PROVE upto[n + 1] = g[n + 1]
    OBVIOUS
  <2>1. upto[n] = g[n] /\ n + 1 \in 1..L /\ (n + 1) - 1 = n
    BY <1>13, <1>1
  <2> QED BY <2>1, <1>6, <1>11
<1>14. \A n \in Nat : n \in C
  <2> HIDE DEF C
  <2> QED BY <1>12, <1>13, NatInd
<1>15. upto[L] = g[L]
  BY <1>14, <1>1
<1>16. g[0] = <<>>
  BY <1>5 DEF Recurs
<1>17. Collects(g, s, none)
  BY <1>6, <1>16 DEF Collects, L
<1> QED BY <1>2, <1>5, <1>15, <1>17 DEF L, Gathers

(* One element more; the list so far stays in front. *)
Collected(u, s, none, n) ==
    /\ s[n + 1] = none => u[n + 1] = u[n]
    /\ s[n + 1] # none => /\ Len(u[n + 1]) = Len(u[n]) + 1
                          /\ u[n + 1][Len(u[n]) + 1] = s[n + 1]
                          /\ \A r \in 1..Len(u[n]) : u[n + 1][r] = u[n][r]
    /\ Len(u[n]) \in Nat

LEMMA CollectsMore ==
    ASSUME NEW S, NEW none, NEW s \in Seq(S \cup {none}), NEW u \in [0..Len(s) -> Seq(S)],
           Collects(u, s, none), NEW n \in Nat, n + 1 <= Len(s)
    PROVE  Collected(u, s, none, n)
<1>1. n \in 0..Len(s) /\ n + 1 \in 1..Len(s) /\ (n + 1) - 1 = n
  OBVIOUS
<1>2. u[n] \in Seq(S) /\ (s[n + 1] = none \/ s[n + 1] \in S)
  BY <1>1
<1>3. u[n + 1] = IF s[n + 1] = none THEN u[n] ELSE Append(u[n], s[n + 1])
  BY <1>1 DEF Collects
<1> DEFINE t == u[n]
           e == s[n + 1]
           v == u[n + 1]
<1>4. t \in Seq(S) /\ (e = none \/ e \in S) /\ v = IF e = none THEN t ELSE Append(t, e)
  BY <1>2, <1>3
<1> HIDE DEF t, e, v
<1>5. CASE e = none
  BY <1>4, <1>5 DEF t, e, v, Collected
<1>6. CASE e # none
  <2>1. e \in S /\ v = Append(t, e)
    BY <1>4, <1>6
  <2>2. /\ Len(Append(t, e)) = Len(t) + 1 /\ Append(t, e)[Len(t) + 1] = e
        /\ \A r \in 1..Len(t) : Append(t, e)[r] = t[r]
        /\ Len(t) \in Nat
    BY <1>4, <2>1, AppendShape
  <2> QED BY <1>4, <1>6, <2>1, <2>2 DEF t, e, v, Collected
<1> QED BY <1>5, <1>6

Prefixed(u, k, l) ==
    /\ Len(u[k]) <= Len(u[l])
    /\ \A r \in 1..Len(u[k]) : u[l][r] = u[k][r]

LEMMA CollectsPrefix ==
    ASSUME NEW S, NEW none, NEW s \in Seq(S \cup {none}), NEW u \in [0..Len(s) -> Seq(S)],
           Collects(u, s, none), NEW k \in 0..Len(s)
    PROVE  Prefixed(u, k, Len(s))
<1> DEFINE L == Len(s)
           C == {n \in Nat : k <= n /\ n <= L =>
                                /\ Len(u[k]) <= Len(u[n])
                                /\ \A r \in 1..Len(u[k]) : u[n][r] = u[k][r]}
<1>1. L \in Nat /\ k \in Nat /\ k <= L /\ u[k] \in Seq(S) /\ Len(u[k]) \in Nat
  OBVIOUS
<1>2. 0 \in C
  BY <1>1
<1>3. ASSUME NEW n \in Nat, n \in C PROVE n + 1 \in C
  <2> SUFFICES ASSUME k <= n + 1, n + 1 <= L
               PROVE  /\ Len(u[k]) <= Len(u[n + 1])
                      /\ \A r \in 1..Len(u[k]) : u[n + 1][r] = u[k][r]
    OBVIOUS
  <2>1. CASE k = n + 1
    BY <2>1, <1>1
  <2>2. CASE k # n + 1
    <3>1. /\ k <= n /\ Len(u[k]) <= Len(u[n])
          /\ \A r \in 1..Len(u[k]) : u[n][r] = u[k][r]
      BY <2>2, <1>1, <1>3
    <3>2. /\ s[n + 1] = none => u[n + 1] = u[n]
          /\ s[n + 1] # none => /\ Len(u[n + 1]) = Len(u[n]) + 1
                                /\ \A r \in 1..Len(u[n]) : u[n + 1][r] = u[n][r]
          /\ Len(u[n]) \in Nat
      <4>1. Collected(u, s, none, n)
        BY CollectsMore
      <4> QED BY <4>1 DEF Collected
    <3>3. CASE s[n + 1] = none
      BY <3>1, <3>2, <3>3
    <3>4. CASE s[n + 1] # none
      <4>1. Len(u[k]) <= Len(u[n + 1])
        BY <3>1, <3>2, <3>4, <1>1
      <4>2. ASSUME NEW r \in 1..Len(u[k]) PROVE u[n + 1][r] = u[k][r]
        <5>1. r \in 1..Len(u[n])
          BY <3>1, <3>2, <1>1
        <5> QED BY <5>1, <3>1, <3>2, <3>4
      <4> QED BY <4>1, <4>2
    <3> QED BY <3>3, <3>4
  <2> QED BY <2>1, <2>2
<1>4. \A n \in Nat : n \in C
  <2> HIDE DEF C
  <2> QED BY <1>2, <1>3, NatInd
<1>5. L \in C
  <2> HIDE DEF C
  <2> QED BY <1>4, <1>1
<1> QED BY <1>5, <1>1 DEF Prefixed

(* Present counts what Count counts, and holds what s holds. *)
LEMMA PresentCounts ==
    ASSUME NEW S, NEW none, NEW s \in Seq(S \cup {none})
    PROVE  /\ Present(s, none) \in Seq(S)
           /\ Len(Present(s, none)) = Count(s, none)
<1>1. PICK u \in [0..Len(s) -> Seq(S)] : Collects(u, s, none) /\ Present(s, none) = u[Len(s)]
  <2>1. Gathers(S, s, none)
    BY PresentCollects
  <2> QED BY <2>1 DEF Gathers
<1> DEFINE L == Len(s)
           B(n) == {i \in 1..n : s[i] # none}
           C == {n \in Nat : n <= L => IsFiniteSet(B(n)) /\ Cardinality(B(n)) = Len(u[n])}
<1>2. L \in Nat /\ DOMAIN s = 1..L
  OBVIOUS
<1>3. 0 \in C
  <2>1. B(0) = {} /\ Len(u[0]) = 0
    BY <1>1 DEF Collects
  <2> QED BY <2>1, FS_EmptySet
<1>4. ASSUME NEW n \in Nat, n \in C PROVE n + 1 \in C
  <2> SUFFICES ASSUME n + 1 <= L
               PROVE  IsFiniteSet(B(n + 1)) /\ Cardinality(B(n + 1)) = Len(u[n + 1])
    OBVIOUS
  <2>1. IsFiniteSet(B(n)) /\ Cardinality(B(n)) = Len(u[n])
    BY <1>4, <1>2
  <2>2. /\ s[n + 1] = none => u[n + 1] = u[n]
        /\ s[n + 1] # none => Len(u[n + 1]) = Len(u[n]) + 1
    <3>1. Collects(u, s, none) /\ n + 1 <= Len(s)
      BY <1>1
    <3>2. Collected(u, s, none, n)
      BY <3>1, CollectsMore
    <3> QED BY <3>2 DEF Collected
  <2>3. CASE s[n + 1] = none
    <3>1. B(n + 1) = B(n)
      BY <2>3
    <3> QED BY <3>1, <2>1, <2>2, <2>3
  <2>4. CASE s[n + 1] # none
    <3>1. B(n + 1) = B(n) \cup {n + 1} /\ n + 1 \notin B(n)
      BY <2>4
    <3> DEFINE X == B(n)
    <3>2. IsFiniteSet(X) /\ n + 1 \notin X /\ Cardinality(X) = Len(u[n])
      BY <2>1, <3>1
    <3> HIDE DEF X
    <3>3. IsFiniteSet(X \cup {n + 1}) /\ Cardinality(X \cup {n + 1}) = Cardinality(X) + 1
      BY <3>2, FS_AddElement
    <3> QED BY <3>1, <3>2, <3>3, <2>2, <2>4 DEF X
  <2> QED BY <2>3, <2>4
<1>5. \A n \in Nat : n \in C
  <2> HIDE DEF C
  <2> QED BY <1>3, <1>4, NatInd
<1>6. Cardinality(B(L)) = Len(u[L])
  <2>1. L \in C
    <3> HIDE DEF C
    <3> QED BY <1>5, <1>2
  <2> QED BY <2>1
<1>7. u[L] \in Seq(S)
  BY <1>2
<1> QED BY <1>1, <1>2, <1>6, <1>7 DEF Count

(* A list with nothing missing, padded, is that list. *)
Padded(p, none, n, S) ==
    /\ Pad(p, none, n) \in Seq(S \cup {none}) /\ Len(Pad(p, none, n)) = n
    /\ Present(Pad(p, none, n), none) = p

LEMMA PresentPadded ==
    ASSUME NEW S, NEW none, none \notin S, NEW p \in Seq(S), NEW n \in Nat, Len(p) <= n
    PROVE  Padded(p, none, n, S)
<1> DEFINE s == Pad(p, none, n)
<1>1. s = [i \in 1..n |-> IF i <= Len(p) THEN p[i] ELSE none]
  BY DEF Pad
<1> HIDE DEF s
<1>2. /\ s \in Seq(S \cup {none}) /\ Len(s) = n /\ Len(p) \in Nat
      /\ \A i \in 1..n : s[i] = IF i <= Len(p) THEN p[i] ELSE none
  <2>1. \A i \in 1..n : (IF i <= Len(p) THEN p[i] ELSE none) \in S \cup {none}
    OBVIOUS
  <2> DEFINE R == S \cup {none}
  <2>2. s \in [1..n -> R]
    BY <1>1, <2>1
  <2> HIDE DEF R
  <2>3. s \in Seq(R) /\ Len(s) = n
    BY <2>2
  <2> QED BY <2>3, <1>1 DEF R
<1>3. PICK u \in [0..Len(s) -> Seq(S)] : Collects(u, s, none) /\ Present(s, none) = u[Len(s)]
  <2>1. s \in Seq(S \cup {none})
    BY <1>2
  <2>2. Gathers(S, s, none)
    BY <2>1, PresentCollects
  <2> QED BY <2>2 DEF Gathers
<1> DEFINE C == {k \in Nat : k <= n =>
                    /\ Len(u[k]) = IF k <= Len(p) THEN k ELSE Len(p)
                    /\ \A r \in 1..Len(u[k]) : u[k][r] = p[r]}
<1>4. 0 \in C
  <2>1. u[0] = <<>>
    BY <1>3 DEF Collects
  <2> QED BY <2>1, <1>2
<1>5. ASSUME NEW k \in Nat, k \in C PROVE k + 1 \in C
  <2> SUFFICES ASSUME k + 1 <= n
               PROVE  /\ Len(u[k + 1]) = IF k + 1 <= Len(p) THEN k + 1 ELSE Len(p)
                      /\ \A r \in 1..Len(u[k + 1]) : u[k + 1][r] = p[r]
    OBVIOUS
  <2>1. /\ Len(u[k]) = IF k <= Len(p) THEN k ELSE Len(p)
        /\ \A r \in 1..Len(u[k]) : u[k][r] = p[r]
    BY <1>5
  <2>2. /\ s[k + 1] = none => u[k + 1] = u[k]
        /\ s[k + 1] # none => /\ Len(u[k + 1]) = Len(u[k]) + 1
                              /\ u[k + 1][Len(u[k]) + 1] = s[k + 1]
                              /\ \A r \in 1..Len(u[k]) : u[k + 1][r] = u[k][r]
        /\ Len(u[k]) \in Nat
    <3>1. s \in Seq(S \cup {none}) /\ Collects(u, s, none) /\ k + 1 <= Len(s)
      BY <1>2, <1>3
    <3>2. Collected(u, s, none, k)
      BY <3>1, CollectsMore
    <3> QED BY <3>2 DEF Collected
  <2>3. s[k + 1] = IF k + 1 <= Len(p) THEN p[k + 1] ELSE none
    BY <1>2
  <2>4. CASE k + 1 <= Len(p)
    <3>1. p[k + 1] \in S /\ k <= Len(p)
      BY <2>4, <1>2
    <3>2. s[k + 1] # none /\ s[k + 1] = p[k + 1] /\ Len(u[k]) = k
      BY <2>1, <2>3, <2>4, <3>1
    <3>3. Len(u[k + 1]) = k + 1
      BY <2>2, <3>2
    <3>4. ASSUME NEW r \in 1..(k + 1) PROVE u[k + 1][r] = p[r]
      <4>1. CASE r = k + 1
        BY <4>1, <2>2, <3>2
      <4>2. CASE r # k + 1
        <5>1. r \in 1..Len(u[k])
          BY <4>2, <3>2
        <5> QED BY <5>1, <2>1, <2>2, <3>2
      <4> QED BY <4>1, <4>2
    <3> QED BY <2>4, <3>3, <3>4
  <2>5. CASE ~(k + 1 <= Len(p))
    <3>1. u[k + 1] = u[k]
      BY <2>2, <2>3, <2>5
    <3>2. Len(u[k]) = Len(p)
      BY <2>1, <2>5, <1>2
    <3> QED BY <2>1, <2>5, <3>1, <3>2
  <2> QED BY <2>4, <2>5
<1>6. \A k \in Nat : k \in C
  <2> HIDE DEF C
  <2> QED BY <1>4, <1>5, NatInd
<1>7. Len(u[n]) = Len(p) /\ \A r \in 1..Len(u[n]) : u[n][r] = p[r]
  <2>1. n \in C
    <3> HIDE DEF C
    <3> QED BY <1>6, <1>2
  <2>2. /\ Len(u[n]) = IF n <= Len(p) THEN n ELSE Len(p)
        /\ \A r \in 1..Len(u[n]) : u[n][r] = p[r]
    BY <2>1, <1>2
  <2>3. Len(p) \in Nat /\ Len(p) <= n
    BY <1>2
  <2> QED BY <2>2, <2>3
<1>8. u[n] \in Seq(S)
  BY <1>2, <1>3
<1>9. u[n] = p
  BY <1>7, <1>8, SeqEqual
<1> QED BY <1>2, <1>3, <1>9 DEF s, Padded

-----------------------------------------------------------------------------
(* verify_full's loop over signatures and keys. *)

(* Accounts whose signatures are of messages in M. *)
AccountsOver(M) ==
    {a \in [num : 0..255, less : 0..255, arb : 0..255, pris : Seq(Key \cup {NoKey}),
            pubs : Seq(Key \cup {NoKey}), sigs : Seq((Key \X M) \cup {NoSig})] :
        Len(a.pris) = a.num /\ Len(a.pubs) = a.num /\ Len(a.sigs) = a.num}

Shaped(a, M) ==
    /\ a.num \in 1..254 /\ a.less \in 1..a.num
    /\ Len(a.pubs) = a.num /\ DOMAIN a.pubs = 1..a.num
    /\ Len(a.sigs) = a.num /\ DOMAIN a.sigs = 1..a.num
    /\ a.sigs \in Seq((Key \X M) \cup {NoSig})
    /\ a.pubs \in [1..a.num -> Key]

LEMMA Interval ==
    ASSUME NEW n \in Nat
    PROVE  IsFiniteSet(1..n) /\ Cardinality(1..n) = n
<1>1. 1 \in Int /\ n \in Int
  OBVIOUS
<1>2. IsFiniteSet(1..n) /\ Cardinality(1..n) = IF 1 > n THEN 0 ELSE n - 1 + 1
  BY <1>1, FS_Interval
<1> QED BY <1>2

LEMMA Shape ==
    ASSUME NEW M, NEW a \in AccountsOver(M), CheckWithPubs(a)
    PROVE  Shaped(a, M)
<1>1. a.num \in 1..254 /\ a.less \in 1..a.num
  BY AccountAssumption DEF CheckWithPubs, Check
<1>2. Len(a.pubs) = a.num /\ DOMAIN a.pubs = 1..a.num /\ a.pubs \in Seq(Key \cup {NoKey})
  BY DEF AccountsOver
<1>3. Len(a.sigs) = a.num /\ DOMAIN a.sigs = 1..a.num /\ a.sigs \in Seq((Key \X M) \cup {NoSig})
  <2> DEFINE R == (Key \X M) \cup {NoSig}
  <2>1. a.sigs \in Seq(R) /\ Len(a.sigs) = a.num
    BY DEF AccountsOver
  <2> HIDE DEF R
  <2>2. DOMAIN a.sigs = 1..a.num
    BY <2>1, LenProperties
  <2> QED BY <2>1, <2>2 DEF R
<1> DEFINE K == {j \in DOMAIN a.pubs : a.pubs[j] # NoKey}
<1>4. Cardinality(K) = a.num
  BY DEF CheckWithPubs, Count
<1>5. K \in SUBSET (1..a.num)
  BY <1>2
<1> HIDE DEF K
<1>6. IsFiniteSet(1..a.num) /\ Cardinality(1..a.num) = a.num
  <2>1. a.num \in Nat
    BY <1>1
  <2> QED BY <2>1, Interval
<1>7. K = 1..a.num
  BY <1>4, <1>5, <1>6, FS_Subset
<1>8. a.pubs \in [1..a.num -> Key]
  BY <1>2, <1>7 DEF K
<1> QED BY <1>1, <1>2, <1>3, <1>8 DEF Shaped

(* verify_full's loop, turn by turn, until it stops. *)
Loops(f, a, msg1) ==
    /\ f[0] = LoopStart(a)
    /\ \A n \in 1..(a.num + a.num) :
          f[n] = IF LoopOn(a, f[n - 1]) THEN Turn(a, msg1, f[n - 1]) ELSE f[n - 1]

States(a) == [i : 1..(a.num + 1), j : 1..(a.num + 1), less : 0..a.less]

LEMMA TurnCases ==
    ASSUME NEW M, NEW a \in AccountsOver(M), CheckWithPubs(a), NEW msg1,
           NEW st \in States(a), LoopOn(a, st)
    PROVE  /\ Turn(a, msg1, st) \in States(a)
           /\ st.i \in 1..a.num /\ st.j \in 1..a.num /\ st.less \in 1..a.less
           /\ \/ /\ a.sigs[st.i] = NoSig
                 /\ Turn(a, msg1, st) = [i |-> st.i + 1, j |-> st.j, less |-> st.less]
              \/ /\ a.sigs[st.i] # NoSig /\ a.sigs[st.i] = <<a.pubs[st.j], msg1>>
                 /\ Turn(a, msg1, st) = [i |-> st.i + 1, j |-> st.j + 1, less |-> st.less - 1]
              \/ /\ a.sigs[st.i] # NoSig /\ a.sigs[st.i] # <<a.pubs[st.j], msg1>>
                 /\ Turn(a, msg1, st) = [i |-> st.i, j |-> st.j + 1, less |-> st.less]
<1>1. /\ a.num \in 1..254 /\ a.less \in 1..a.num /\ Len(a.pubs) = a.num
      /\ Len(a.sigs) = a.num /\ a.pubs \in [1..a.num -> Key]
  <2>1. Shaped(a, M)
    BY Shape
  <2> QED BY <2>1 DEF Shaped
<1>2. PICK i \in 1..(a.num + 1), j \in 1..(a.num + 1), l \in 0..a.less :
         st = [i |-> i, j |-> j, less |-> l]
  BY DEF States
<1>3. i \in 1..a.num /\ j \in 1..a.num /\ l \in 1..a.less
  <2>1. l # 0 /\ i <= a.num /\ j <= a.num
    BY <1>1, <1>2 DEF LoopOn
  <2> QED BY <2>1, <1>1
<1>4. a.pubs[j] # NoKey
  BY <1>1, <1>3, AccountAssumption
<1>5. Verifies(a.pubs[j], a.sigs[i], msg1) <=>
         a.sigs[i] # NoSig /\ a.sigs[i] = <<a.pubs[j], msg1>>
  BY <1>4 DEF Verifies
<1>6. \/ /\ a.sigs[i] = NoSig
         /\ Turn(a, msg1, st) = [i |-> i + 1, j |-> j, less |-> l]
      \/ /\ a.sigs[i] # NoSig /\ a.sigs[i] = <<a.pubs[j], msg1>>
         /\ Turn(a, msg1, st) = [i |-> i + 1, j |-> j + 1, less |-> l - 1]
      \/ /\ a.sigs[i] # NoSig /\ a.sigs[i] # <<a.pubs[j], msg1>>
         /\ Turn(a, msg1, st) = [i |-> i, j |-> j + 1, less |-> l]
  BY <1>2, <1>5 DEF Turn
<1>7. Turn(a, msg1, st) \in States(a)
  <2>1. /\ i \in 1..(a.num + 1) /\ i + 1 \in 1..(a.num + 1)
        /\ j \in 1..(a.num + 1) /\ j + 1 \in 1..(a.num + 1)
        /\ l \in 0..a.less /\ l - 1 \in 0..a.less
    BY <1>1, <1>3
  <2>2. /\ [i |-> i + 1, j |-> j, less |-> l] \in States(a)
        /\ [i |-> i + 1, j |-> j + 1, less |-> l - 1] \in States(a)
        /\ [i |-> i, j |-> j + 1, less |-> l] \in States(a)
    BY <2>1 DEF States
  <2> QED BY <1>6, <2>2
<1>8. st.i = i /\ st.j = j /\ st.less = l
  BY <1>2
<1> QED BY <1>3, <1>6, <1>7, <1>8

LEMMA StartState ==
    ASSUME NEW M, NEW a \in AccountsOver(M), CheckWithPubs(a)
    PROVE  LoopStart(a) \in States(a)
<1>1. a.num \in 1..254 /\ a.less \in 1..a.num
  <2>1. Shaped(a, M)
    BY Shape
  <2> QED BY <2>1 DEF Shaped
<1> QED BY <1>1 DEF LoopStart, States

LEMMA VerifyLoops ==
    ASSUME NEW M, NEW a \in AccountsOver(M), CheckWithPubs(a), NEW msg1
    PROVE  \E f \in [0..(a.num + a.num) -> States(a)] :
              /\ Loops(f, a, msg1)
              /\ ~UseArb(a) => (VerifyFull(a, msg1) <=>
                                   VerifyStarts(a) /\ f[a.num + a.num].less = 0)
<1> DEFINE L == a.num + a.num
           One(st) == IF LoopOn(a, st) THEN Turn(a, msg1, st) ELSE st
           Step(g, n) == IF n = 0 THEN LoopStart(a)
                         ELSE IF LoopOn(a, g[n - 1]) THEN Turn(a, msg1, g[n - 1])
                         ELSE g[n - 1]
           F(g) == g = [n \in 0..L |-> Step(g, n)]
           run == CHOOSE g : F(g)
           T == States(a)
           Turns == [n \in 1..L |-> [t \in T |-> One(t)]]
<1>0. a.num \in 1..254 /\ Len(a.pubs) = a.num /\ Len(a.sigs) = a.num
  <2>1. Shaped(a, M)
    BY Shape
  <2> QED BY <2>1 DEF Shaped
<1>1. L \in Nat
  BY <1>0
<1>2. ~UseArb(a) => (VerifyFull(a, msg1) <=> VerifyStarts(a) /\ run[L].less = 0)
  BY <1>0 DEF VerifyFull
<1> HIDE DEF L
<1>3. Turns \in [1..L -> [T -> T]]
  <2>1. \A t \in T : One(t) \in T
    BY TurnCases
  <2> HIDE DEF T, One
  <2> QED BY <2>1
<1>4. LoopStart(a) \in T
  BY StartState
<1>5. PICK g \in [0..L -> T] : Recurs(g, LoopStart(a), L, Turns)
  <2> HIDE DEF Turns, T
  <2> QED BY <1>1, <1>3, <1>4, Recursion
<1>6. ASSUME NEW n \in 1..L
      PROVE  g[n] = IF LoopOn(a, g[n - 1]) THEN Turn(a, msg1, g[n - 1]) ELSE g[n - 1]
  <2>1. g[n - 1] \in T
    BY <1>1
  <2>2. Turns[n][g[n - 1]] = One(g[n - 1])
    <3> HIDE DEF T, One
    <3> QED BY <2>1
  <2>3. g[n] = Turns[n][g[n - 1]]
    <3> HIDE DEF Turns
    <3> QED BY <1>5 DEF Recurs
  <2> HIDE DEF Turns
  <2> QED BY <2>2, <2>3
<1>7. F(g)
  <2>1. \A n \in 0..L : g[n] = Step(g, n)
    <3> TAKE n \in 0..L
    <3>1. CASE n = 0
      BY <3>1, <1>5 DEF Recurs
    <3>2. CASE n # 0
      <4>1. n \in 1..L
        BY <3>2, <1>1
      <4> QED BY <4>1, <3>2, <1>6
    <3> QED BY <3>1, <3>2
  <2> HIDE DEF Step, T
  <2> QED BY <2>1, <1>5
<1>8. F(run)
  <2> HIDE DEF F
  <2> QED BY <1>7
<1>9. \A n \in 0..L : run[n] = Step(run, n)
  <2> HIDE DEF Step, run
  <2> QED BY <1>8
<1> HIDE DEF run, F
<1>10. run[0] = LoopStart(a)
  <2>1. 0 \in 0..L
    BY <1>1
  <2> QED BY <2>1, <1>9
<1>11. ASSUME NEW n \in 1..L
       PROVE  run[n] = IF LoopOn(a, run[n - 1]) THEN Turn(a, msg1, run[n - 1]) ELSE run[n - 1]
  <2>1. n \in 0..L /\ n # 0
    BY <1>1
  <2> QED BY <2>1, <1>9
<1> DEFINE C == {n \in Nat : n <= L => run[n] = g[n]}
<1>12. 0 \in C
  BY <1>10, <1>5 DEF Recurs
<1>13. ASSUME NEW n \in Nat, n \in C PROVE n + 1 \in C
  <2> SUFFICES ASSUME n + 1 <= L PROVE run[n + 1] = g[n + 1]
    OBVIOUS
  <2>1. run[n] = g[n] /\ n + 1 \in 1..L /\ (n + 1) - 1 = n
    BY <1>13, <1>1
  <2> QED BY <2>1, <1>6, <1>11
<1>14. \A n \in Nat : n \in C
  <2> HIDE DEF C
  <2> QED BY <1>12, <1>13, NatInd
<1>15. run[L] = g[L]
  BY <1>14, <1>1
<1>16. g[0] = LoopStart(a)
  BY <1>5 DEF Recurs
<1>17. Loops(g, a, msg1)
  BY <1>6, <1>16 DEF Loops, L
<1> QED BY <1>2, <1>5, <1>15, <1>17 DEF L

LEMMA StateFields ==
    ASSUME NEW a, NEW st \in States(a)
    PROVE  st.i \in Nat /\ st.j \in Nat
<1>1. st.i \in 1..(a.num + 1) /\ st.j \in 1..(a.num + 1)
  BY DEF States
<1> QED BY <1>1

(* After so many turns the loop has stopped. *)
LEMMA LoopStops ==
    ASSUME NEW M, NEW a \in AccountsOver(M), CheckWithPubs(a), NEW msg1,
           NEW f \in [0..(a.num + a.num) -> States(a)], Loops(f, a, msg1)
    PROVE  ~LoopOn(a, f[a.num + a.num])
<1> DEFINE L == a.num + a.num
           C == {n \in Nat : n <= L => ~LoopOn(a, f[n]) \/ f[n].i + f[n].j >= n + 2}
<1>0. /\ a.num \in 1..254 /\ Len(a.pubs) = a.num /\ Len(a.sigs) = a.num /\ L \in Nat
  <2>1. a.num \in 1..254 /\ Len(a.pubs) = a.num /\ Len(a.sigs) = a.num
    <3>1. Shaped(a, M)
      BY Shape
    <3> QED BY <3>1 DEF Shaped
  <2> QED BY <2>1
<1>1. 0 \in C
  <2>1. f[0].i = 1 /\ f[0].j = 1
    BY DEF Loops, LoopStart
  <2> QED BY <2>1
<1>2. ASSUME NEW n \in Nat, n \in C PROVE n + 1 \in C
  <2> SUFFICES ASSUME n + 1 <= L, LoopOn(a, f[n + 1]) PROVE f[n + 1].i + f[n + 1].j >= n + 3
    OBVIOUS
  <2>1. n \in 0..L /\ n + 1 \in 1..L /\ (n + 1) - 1 = n
    BY <1>0
  <2>2. f[n] \in States(a)
    BY <2>1
  <2>3. f[n + 1] = IF LoopOn(a, f[n]) THEN Turn(a, msg1, f[n]) ELSE f[n]
    BY <2>1 DEF Loops
  <2>4. LoopOn(a, f[n])
    BY <2>3
  <2>5. f[n].i + f[n].j >= n + 2
    BY <2>1, <2>4, <1>2
  <2>6. f[n].i \in Nat /\ f[n].j \in Nat
    BY <2>2, StateFields
  <2>7. f[n + 1] = Turn(a, msg1, f[n])
    BY <2>3, <2>4
  <2> DEFINE st == f[n]
  <2>8. \/ Turn(a, msg1, st) = [i |-> st.i + 1, j |-> st.j, less |-> st.less]
        \/ Turn(a, msg1, st) = [i |-> st.i + 1, j |-> st.j + 1, less |-> st.less - 1]
        \/ Turn(a, msg1, st) = [i |-> st.i, j |-> st.j + 1, less |-> st.less]
    <3> HIDE DEF st
    <3> QED BY <2>2, <2>4, TurnCases DEF st
  <2> DEFINE i == st.i
             j == st.j
  <2>9. i \in Nat /\ j \in Nat /\ i + j >= n + 2
    BY <2>5, <2>6
  <2>10. f[n + 1].i + f[n + 1].j >= i + j + 1
    <3>1. \/ f[n + 1].i = i + 1 /\ f[n + 1].j = j
          \/ f[n + 1].i = i + 1 /\ f[n + 1].j = j + 1
          \/ f[n + 1].i = i /\ f[n + 1].j = j + 1
      <4> HIDE DEF st
      <4> QED BY <2>7, <2>8 DEF st
    <3> HIDE DEF st, i, j
    <3> QED BY <3>1, <2>9
  <2>11. f[n + 1].i + f[n + 1].j >= i + j + 1 /\ i + j + 1 >= n + 3
    BY <2>9, <2>10
  <2>12. f[n + 1].i \in Nat /\ f[n + 1].j \in Nat
    <3>1. n + 1 \in 0..L
      BY <2>1, <1>0
    <3>2. f[n + 1] \in States(a)
      BY <3>1
    <3> QED BY <3>2, StateFields
  <2> HIDE DEF i, j
  <2> QED BY <2>9, <2>11, <2>12
<1>3. \A n \in Nat : n \in C
  <2> HIDE DEF C
  <2> QED BY <1>1, <1>2, NatInd
<1>4. ~LoopOn(a, f[L]) \/ f[L].i + f[L].j >= L + 2
  <2>1. L \in C
    <3> HIDE DEF C
    <3> QED BY <1>3, <1>0
  <2> QED BY <2>1
<1>5. f[L].i \in Nat /\ f[L].j \in Nat
  <2>1. L \in 0..L
    BY <1>0
  <2>2. f[L] \in States(a)
    BY <2>1
  <2> QED BY <2>2, StateFields
<1>6. f[L].i + f[L].j >= L + 2 => ~(f[L].i <= a.num /\ f[L].j <= a.num)
  <2> DEFINE i == f[L].i
             j == f[L].j
             n == a.num
  <2>1. i \in Nat /\ j \in Nat /\ n \in Nat /\ L = n + n
    BY <1>5, <1>0
  <2> HIDE DEF i, j, n, L
  <2>2. i + j >= L + 2 => ~(i <= n /\ j <= n)
    BY <2>1
  <2> QED BY <2>2 DEF i, j, n
<1> QED BY <1>0, <1>4, <1>6 DEF LoopOn

(* The first n signatures of p are of keys of a, in the order of the keys. *)
InOrder(g, n, p, a, msg1) ==
    \A r \in 1..n : /\ p[r] = <<a.pubs[g[r]], msg1>>
                    /\ \A q \in 1..n : r < q => g[r] < g[q]

Ordered(p, a, msg1) == \E g \in [1..a.less -> 1..a.num] : InOrder(g, a.less, p, a, msg1)

(* The loop in the midst of the signatures; u is what Present collects. *)
Counts(u, a, st) == Len(u[st.i - 1]) + st.less = a.less

(* Behind it, every signature was matched; ... *)
Behind(u, p, a, msg1, st) ==
    /\ Counts(u, a, st)
    /\ \E g \in [1..Len(u[st.i - 1]) -> 1..a.num] :
          /\ InOrder(g, Len(u[st.i - 1]), p, a, msg1)
          /\ \A r \in 1..Len(u[st.i - 1]) : g[r] < st.j

(* ... ahead of it, the keys of a given order are still to come. *)
Ahead(g, u, a, st) ==
    /\ Counts(u, a, st)
    /\ \A r \in 1..a.less : r > Len(u[st.i - 1]) => g[r] >= st.j

(* What is collected of the signatures, and so is their list. *)
Lists(u, p, a, M) ==
    /\ u \in [0..a.num -> Seq(Key \X M)]
    /\ Collects(u, a.sigs, NoSig)
    /\ p = u[a.num]

LEMMA ListExists ==
    ASSUME NEW M, NEW a \in AccountsOver(M), CheckWithPubs(a)
    PROVE  \E u : Lists(u, Present(a.sigs, NoSig), a, M)
<1> DEFINE S == Key \X M
<1>1. a.sigs \in Seq(S \cup {NoSig}) /\ Len(a.sigs) = a.num
  <2>1. Shaped(a, M)
    BY Shape
  <2> QED BY <2>1 DEF Shaped
<1> HIDE DEF S
<1>2. PICK u \in [0..Len(a.sigs) -> Seq(S)] :
         Collects(u, a.sigs, NoSig) /\ Present(a.sigs, NoSig) = u[Len(a.sigs)]
  <2>1. Gathers(S, a.sigs, NoSig)
    BY <1>1, PresentCollects
  <2> QED BY <2>1 DEF Gathers
<1> QED BY <1>1, <1>2 DEF Lists, S

(* At signature i: what is collected there, and where it stands in the list. *)
Stands(u, p, a, i) ==
    /\ Len(u[i - 1]) \in Nat
    /\ a.sigs[i] = NoSig => Len(u[i]) = Len(u[i - 1])
    /\ a.sigs[i] # NoSig => Len(u[i]) = Len(u[i - 1]) + 1 /\ p[Len(u[i - 1]) + 1] = a.sigs[i]

LEMMA ListAt ==
    ASSUME NEW M, NEW a \in AccountsOver(M), CheckWithPubs(a), NEW u, NEW p, Lists(u, p, a, M),
           NEW i \in 1..a.num
    PROVE  Stands(u, p, a, i)
<1> DEFINE S == Key \X M
           s == a.sigs
           n == i - 1
<1>1. s \in Seq(S \cup {NoSig}) /\ Len(s) = a.num /\ a.num \in 1..254
  <2>1. Shaped(a, M)
    BY Shape
  <2> QED BY <2>1 DEF Shaped
<1>2. u \in [0..Len(s) -> Seq(S)] /\ Collects(u, s, NoSig) /\ p = u[Len(s)]
  BY <1>1 DEF Lists
<1>3. n \in Nat /\ n + 1 = i /\ n + 1 <= Len(s) /\ i \in 0..Len(s)
  BY <1>1
<1> HIDE DEF S, s, n
<1>4. Collected(u, s, NoSig, n)
  BY <1>1, <1>2, <1>3, CollectsMore
<1>5. /\ s[i] = NoSig => u[i] = u[n]
      /\ s[i] # NoSig => Len(u[i]) = Len(u[n]) + 1 /\ u[i][Len(u[n]) + 1] = s[i]
      /\ Len(u[n]) \in Nat
  BY <1>3, <1>4 DEF Collected
<1>6. \A r \in 1..Len(u[i]) : p[r] = u[i][r]
  <2>1. Prefixed(u, i, Len(s))
    BY <1>1, <1>2, <1>3, CollectsPrefix
  <2> QED BY <2>1, <1>2 DEF Prefixed
<1>7. s[i] # NoSig => p[Len(u[n]) + 1] = s[i]
  <2> SUFFICES ASSUME s[i] # NoSig PROVE p[Len(u[n]) + 1] = s[i]
    OBVIOUS
  <2>1. Len(u[n]) + 1 \in 1..Len(u[i])
    BY <1>5
  <2> QED BY <2>1, <1>5, <1>6
<1> QED BY <1>5, <1>7 DEF s, n, Stands

LEMMA BehindStart ==
    ASSUME NEW M, NEW a \in AccountsOver(M), CheckWithPubs(a), NEW msg1,
           NEW u, NEW p, Lists(u, p, a, M)
    PROVE  /\ Behind(u, p, a, msg1, LoopStart(a))
           /\ \A g \in [1..a.less -> 1..a.num] : Ahead(g, u, a, LoopStart(a))
<1>1. a.less \in Nat /\ a.num \in Nat
  <2>1. a.num \in 1..254 /\ a.less \in 1..a.num
    <3>1. Shaped(a, M)
      BY Shape
    <3> QED BY <3>1 DEF Shaped
  <2> QED BY <2>1
<1>2. u[0] = <<>> /\ Len(<<>>) = 0
  BY DEF Lists, Collects
<1>3. LoopStart(a).i - 1 = 0 /\ LoopStart(a).j = 1 /\ LoopStart(a).less = a.less
  BY DEF LoopStart
<1>4. Counts(u, a, LoopStart(a))
  BY <1>1, <1>2, <1>3 DEF Counts
<1>5. Len(u[LoopStart(a).i - 1]) = 0
  BY <1>2, <1>3
<1>6. \E g \in [1..0 -> 1..a.num] : InOrder(g, 0, p, a, msg1) /\ \A r \in 1..0 : g[r] < 1
  <2> DEFINE g == [r \in 1..0 |-> 1]
  <2>1. 1..0 = {}
    OBVIOUS
  <2>2. g \in [1..0 -> 1..a.num]
    BY <2>1
  <2> HIDE DEF g
  <2>3. InOrder(g, 0, p, a, msg1) /\ \A r \in 1..0 : g[r] < 1
    BY <2>1 DEF InOrder
  <2> QED BY <2>2, <2>3
<1>7. Behind(u, p, a, msg1, LoopStart(a))
  BY <1>3, <1>4, <1>5, <1>6 DEF Behind
<1>8. \A g \in [1..a.less -> 1..a.num] : \A r \in 1..a.less : g[r] >= 1
  OBVIOUS
<1> QED BY <1>3, <1>4, <1>7, <1>8 DEF Ahead

LEMMA BehindTurn ==
    ASSUME NEW M, NEW a \in AccountsOver(M), CheckWithPubs(a), NEW msg1,
           NEW u, NEW p, Lists(u, p, a, M), NEW st \in States(a), LoopOn(a, st),
           Behind(u, p, a, msg1, st)
    PROVE  Behind(u, p, a, msg1, Turn(a, msg1, st))
<1> DEFINE i == st.i
           j == st.j
           l == st.less
           n == Len(u[i - 1])
           next == Turn(a, msg1, st)
<1>0. a.num \in 1..254 /\ a.less \in 1..a.num
  <2>1. Shaped(a, M)
    BY Shape
  <2> QED BY <2>1 DEF Shaped
<1>1. /\ i \in 1..a.num /\ j \in 1..a.num /\ l \in 1..a.less
      /\ \/ a.sigs[i] = NoSig /\ next = [i |-> i + 1, j |-> j, less |-> l]
         \/ /\ a.sigs[i] # NoSig /\ a.sigs[i] = <<a.pubs[j], msg1>>
            /\ next = [i |-> i + 1, j |-> j + 1, less |-> l - 1]
         \/ /\ a.sigs[i] # NoSig /\ next = [i |-> i, j |-> j + 1, less |-> l]
  BY TurnCases
<1>2. /\ n \in Nat
      /\ a.sigs[i] = NoSig => Len(u[i]) = n
      /\ a.sigs[i] # NoSig => Len(u[i]) = n + 1 /\ p[n + 1] = a.sigs[i]
  <2>1. i \in 1..a.num
    BY <1>1
  <2> HIDE DEF i
  <2>2. Stands(u, p, a, i)
    BY <2>1, ListAt
  <2> QED BY <2>2 DEF Stands
<1>3. n + l = a.less
  BY DEF Behind, Counts
<1>4. PICK g \in [1..n -> 1..a.num] :
         InOrder(g, n, p, a, msg1) /\ \A r \in 1..n : g[r] < j
  BY DEF Behind
<1> HIDE DEF i, j, l, n, next
<1>5. CASE a.sigs[i] = NoSig /\ next = [i |-> i + 1, j |-> j, less |-> l]
  <2>1. next.i - 1 = i /\ next.j = j /\ next.less = l
    BY <1>1, <1>5
  <2> QED BY <2>1, <1>2, <1>3, <1>4, <1>5 DEF Behind, Counts, next
<1>6. CASE a.sigs[i] # NoSig /\ next = [i |-> i, j |-> j + 1, less |-> l]
  <2>1. next.i - 1 = i - 1 /\ next.j = j + 1 /\ next.less = l
    BY <1>1, <1>6
  <2>2. \A r \in 1..n : g[r] < j + 1
    BY <1>1, <1>0, <1>4
  <2> QED BY <2>1, <2>2, <1>3, <1>4 DEF Behind, Counts, next, n
<1>7. CASE /\ a.sigs[i] # NoSig /\ a.sigs[i] = <<a.pubs[j], msg1>>
           /\ next = [i |-> i + 1, j |-> j + 1, less |-> l - 1]
  <2>1. next.i - 1 = i /\ next.j = j + 1 /\ next.less = l - 1
    BY <1>1, <1>7
  <2>2. Len(u[i]) = n + 1 /\ p[n + 1] = <<a.pubs[j], msg1>>
    BY <1>2, <1>7
  <2> DEFINE h == [r \in 1..(n + 1) |-> IF r = n + 1 THEN j ELSE g[r]]
  <2>3. h \in [1..(n + 1) -> 1..a.num]
    <3>1. \A r \in 1..(n + 1) : (IF r = n + 1 THEN j ELSE g[r]) \in 1..a.num
      <4> TAKE r \in 1..(n + 1)
      <4>1. r # n + 1 => r \in 1..n
        BY <1>2
      <4> QED BY <4>1, <1>1, <1>4
    <3> QED BY <3>1
  <2>4. /\ h[n + 1] = j
        /\ \A r \in 1..n : h[r] = g[r] /\ g[r] < j /\ g[r] \in Nat
    <3>1. n + 1 \in 1..(n + 1) /\ \A r \in 1..n : r \in 1..(n + 1) /\ r # n + 1
      BY <1>2
    <3>2. h[n + 1] = j /\ \A r \in 1..n : h[r] = g[r]
      BY <3>1
    <3> HIDE DEF h
    <3> QED BY <3>2, <1>4
  <2> HIDE DEF h
  <2>5. \A r \in 1..(n + 1) : r = n + 1 \/ r \in 1..n
    BY <1>2
  <2>6. \A r \in 1..(n + 1) : h[r] < j + 1
    BY <2>4, <2>5, <1>1
  <2>7. InOrder(h, n + 1, p, a, msg1)
    <3>1. ASSUME NEW r \in 1..(n + 1) PROVE p[r] = <<a.pubs[h[r]], msg1>>
      BY <2>2, <2>4, <2>5, <1>4 DEF InOrder
    <3>2. ASSUME NEW r \in 1..(n + 1), NEW q \in 1..(n + 1), r < q PROVE h[r] < h[q]
      <4>1. r \in 1..n
        BY <3>2, <1>2
      <4>2. CASE q = n + 1
        BY <4>1, <4>2, <2>4
      <4>3. CASE q \in 1..n
        BY <4>1, <4>3, <3>2, <2>4, <1>4 DEF InOrder
      <4> QED BY <4>2, <4>3, <2>5
    <3> QED BY <3>1, <3>2 DEF InOrder
  <2>8. (n + 1) + (l - 1) = a.less
    BY <1>0, <1>1, <1>2, <1>3
  <2> QED BY <2>1, <2>2, <2>3, <2>6, <2>7, <2>8 DEF Behind, Counts, next
<1> QED BY <1>1, <1>5, <1>6, <1>7

LEMMA AheadTurn ==
    ASSUME NEW M, NEW a \in AccountsOver(M), CheckWithPubs(a), NEW msg1,
           NEW u, NEW p, Lists(u, p, a, M), NEW st \in States(a), LoopOn(a, st),
           NEW g \in [1..a.less -> 1..a.num], InOrder(g, a.less, p, a, msg1),
           Ahead(g, u, a, st)
    PROVE  Ahead(g, u, a, Turn(a, msg1, st))
<1> DEFINE i == st.i
           j == st.j
           l == st.less
           n == Len(u[i - 1])
           next == Turn(a, msg1, st)
<1>0. a.num \in 1..254 /\ a.less \in 1..a.num
  <2>1. Shaped(a, M)
    BY Shape
  <2> QED BY <2>1 DEF Shaped
<1>1. /\ i \in 1..a.num /\ j \in 1..a.num /\ l \in 1..a.less
      /\ \/ a.sigs[i] = NoSig /\ next = [i |-> i + 1, j |-> j, less |-> l]
         \/ /\ a.sigs[i] # NoSig /\ a.sigs[i] = <<a.pubs[j], msg1>>
            /\ next = [i |-> i + 1, j |-> j + 1, less |-> l - 1]
         \/ /\ a.sigs[i] # NoSig /\ a.sigs[i] # <<a.pubs[j], msg1>>
            /\ next = [i |-> i, j |-> j + 1, less |-> l]
  BY TurnCases
<1>2. /\ n \in Nat
      /\ a.sigs[i] = NoSig => Len(u[i]) = n
      /\ a.sigs[i] # NoSig => Len(u[i]) = n + 1 /\ p[n + 1] = a.sigs[i]
  <2>1. i \in 1..a.num
    BY <1>1
  <2> HIDE DEF i
  <2>2. Stands(u, p, a, i)
    BY <2>1, ListAt
  <2> QED BY <2>2 DEF Stands
<1>3. n + l = a.less /\ \A r \in 1..a.less : r > n => g[r] >= j
  BY DEF Ahead, Counts
<1> HIDE DEF i, j, l, n, next
<1>4. /\ n + 1 \in 1..a.less /\ g[n + 1] >= j /\ p[n + 1] = <<a.pubs[g[n + 1]], msg1>>
      /\ \A r \in 1..a.less : g[r] \in Nat
  <2>1. n + 1 \in 1..a.less /\ n + 1 > n
    BY <1>0, <1>1, <1>2, <1>3
  <2> QED BY <2>1, <1>3 DEF InOrder
<1>5. \A r \in 1..a.less : r > n + 1 => g[r] > g[n + 1]
  BY <1>4 DEF InOrder
<1>6. CASE a.sigs[i] = NoSig /\ next = [i |-> i + 1, j |-> j, less |-> l]
  <2>1. next.i - 1 = i /\ next.j = j /\ next.less = l
    BY <1>1, <1>6
  <2> QED BY <2>1, <1>2, <1>3, <1>6 DEF Ahead, Counts, next
<1>7. CASE /\ a.sigs[i] # NoSig /\ a.sigs[i] = <<a.pubs[j], msg1>>
           /\ next = [i |-> i + 1, j |-> j + 1, less |-> l - 1]
  <2>1. next.i - 1 = i /\ next.j = j + 1 /\ next.less = l - 1
    BY <1>1, <1>7
  <2>2. Len(u[i]) = n + 1
    BY <1>2, <1>7
  <2>3. (n + 1) + (l - 1) = a.less
    BY <1>0, <1>1, <1>2, <1>3
  <2>4. \A r \in 1..a.less : r > n + 1 => g[r] >= j + 1
    <3> TAKE r \in 1..a.less
    <3> HAVE r > n + 1
    <3>1. g[r] > g[n + 1]
      BY <1>5
    <3>2. g[r] \in Nat /\ g[n + 1] \in Nat /\ j \in Nat
      BY <1>4, <1>1
    <3> QED BY <3>1, <3>2, <1>4
  <2> QED BY <2>1, <2>2, <2>3, <2>4 DEF Ahead, Counts, next
<1>8. CASE /\ a.sigs[i] # NoSig /\ a.sigs[i] # <<a.pubs[j], msg1>>
           /\ next = [i |-> i, j |-> j + 1, less |-> l]
  <2>1. next.i - 1 = i - 1 /\ next.j = j + 1 /\ next.less = l
    BY <1>1, <1>8
  <2>2. g[n + 1] # j
    BY <1>2, <1>4, <1>8
  <2>3. g[n + 1] >= j + 1
    BY <2>2, <1>1, <1>4
  <2>4. \A r \in 1..a.less : r > n => g[r] >= j + 1
    <3> TAKE r \in 1..a.less
    <3> HAVE r > n
    <3>1. r = n + 1 \/ r > n + 1
      BY <1>2
    <3>2. g[r] >= g[n + 1]
      BY <3>1, <1>4, <1>5
    <3>3. g[r] \in Nat /\ g[n + 1] \in Nat /\ j \in Nat
      BY <1>4, <1>1
    <3> QED BY <3>2, <3>3, <2>3
  <2> QED BY <2>1, <2>4, <1>3 DEF Ahead, Counts, next, n
<1> QED BY <1>1, <1>6, <1>7, <1>8

(* verify_full, without an arbiter: the first `less` signatures there are    *)
(* have to be of keys of the account, in the order of the keys; nothing else *)
(* matters, not where they lie, nor what comes after them (verify_full).     *)
THEOREM VerifyFullExactly ==
    ASSUME NEW M, NEW a \in AccountsOver(M), ~UseArb(a), NEW msg1
    PROVE  VerifyFull(a, msg1) <=> VerifyStarts(a) /\ Ordered(Present(a.sigs, NoSig), a, msg1)
<1> DEFINE p == Present(a.sigs, NoSig)
           L == a.num + a.num
<1>1. SUFFICES ASSUME VerifyStarts(a), CheckWithPubs(a)
               PROVE  VerifyFull(a, msg1) <=> Ordered(p, a, msg1)
  BY DEF VerifyFull, VerifyStarts
<1>2. a.num \in 1..254 /\ a.less \in 1..a.num /\ Len(a.sigs) = a.num /\ Len(a.pubs) = a.num
  <2>1. Shaped(a, M)
    BY <1>1, Shape
  <2> QED BY <2>1 DEF Shaped
<1>3. L \in Nat
  BY <1>2
<1>4. PICK f \in [0..L -> States(a)] :
         Loops(f, a, msg1) /\ (VerifyFull(a, msg1) <=> f[L].less = 0)
  <2>1. PICK f \in [0..(a.num + a.num) -> States(a)] :
          /\ Loops(f, a, msg1)
          /\ ~UseArb(a) => (VerifyFull(a, msg1) <=>
                               VerifyStarts(a) /\ f[a.num + a.num].less = 0)
    BY <1>1, VerifyLoops
  <2> QED BY <2>1, <1>1
<1>5. PICK u : Lists(u, p, a, M)
  BY <1>1, ListExists
<1>6. f[L] \in States(a) /\ f[0] = LoopStart(a) /\ ~LoopOn(a, f[L])
  <2>1. L \in 0..L
    BY <1>3
  <2> QED BY <2>1, <1>1, <1>4, LoopStops DEF Loops
<1>7. ASSUME NEW n \in Nat, n + 1 <= L
      PROVE  /\ f[n] \in States(a)
             /\ f[n + 1] = IF LoopOn(a, f[n]) THEN Turn(a, msg1, f[n]) ELSE f[n]
  <2>1. n \in 0..L /\ n + 1 \in 1..L /\ (n + 1) - 1 = n
    BY <1>3, <1>7
  <2> QED BY <2>1, <1>4 DEF Loops
<1> HIDE DEF L, p
<1>8. ASSUME VerifyFull(a, msg1) PROVE Ordered(p, a, msg1)
  <2> DEFINE C == {n \in Nat : n <= L => Behind(u, p, a, msg1, f[n])}
  <2>1. 0 \in C
    <3>1. Behind(u, p, a, msg1, LoopStart(a))
      BY <1>1, <1>5, BehindStart
    <3> QED BY <3>1, <1>6
  <2>2. ASSUME NEW n \in Nat, n \in C PROVE n + 1 \in C
    <3> SUFFICES ASSUME n + 1 <= L PROVE Behind(u, p, a, msg1, f[n + 1])
      OBVIOUS
    <3>1. Behind(u, p, a, msg1, f[n])
      BY <2>2, <1>3
    <3>2. LoopOn(a, f[n]) => Behind(u, p, a, msg1, Turn(a, msg1, f[n]))
      BY <3>1, <1>1, <1>5, <1>7, BehindTurn
    <3> QED BY <3>1, <3>2, <1>7
  <2>3. \A n \in Nat : n \in C
    <3> HIDE DEF C
    <3> QED BY <2>1, <2>2, NatInd
  <2>4. Behind(u, p, a, msg1, f[L])
    BY <2>3, <1>3
  <2>5. f[L].less = 0
    BY <1>4, <1>8
  <2> DEFINE n == Len(u[f[L].i - 1])
  <2>6. n + 0 = a.less
    BY <2>4, <2>5 DEF Behind, Counts
  <2>7. n \in Nat
    <3>1. f[L].i - 1 \in 0..a.num
      BY <1>6, <1>2 DEF States
    <3>2. u[f[L].i - 1] \in Seq(Key \X M)
      BY <3>1, <1>5 DEF Lists
    <3> QED BY <3>2
  <2>8. n = a.less
    BY <2>6, <2>7
  <2>9. \E g \in [1..n -> 1..a.num] : InOrder(g, n, p, a, msg1)
    BY <2>4 DEF Behind
  <2> QED BY <2>8, <2>9 DEF Ordered
<1>9. ASSUME Ordered(p, a, msg1) PROVE VerifyFull(a, msg1)
  <2>1. PICK g \in [1..a.less -> 1..a.num] : InOrder(g, a.less, p, a, msg1)
    BY <1>9 DEF Ordered
  <2> DEFINE C == {n \in Nat : n <= L => Ahead(g, u, a, f[n])}
  <2>2. 0 \in C
    <3>1. Ahead(g, u, a, LoopStart(a))
      BY <1>1, <1>5, <2>1, BehindStart
    <3> QED BY <3>1, <1>6
  <2>3. ASSUME NEW n \in Nat, n \in C PROVE n + 1 \in C
    <3> SUFFICES ASSUME n + 1 <= L PROVE Ahead(g, u, a, f[n + 1])
      OBVIOUS
    <3>1. Ahead(g, u, a, f[n])
      BY <2>3, <1>3
    <3>2. LoopOn(a, f[n]) => Ahead(g, u, a, Turn(a, msg1, f[n]))
      BY <3>1, <2>1, <1>1, <1>5, <1>7, AheadTurn
    <3> QED BY <3>1, <3>2, <1>7
  <2>4. \A n \in Nat : n \in C
    <3> HIDE DEF C
    <3> QED BY <2>2, <2>3, NatInd
  <2>5. Ahead(g, u, a, f[L])
    BY <2>4, <1>3
  <2> DEFINE i == f[L].i
             j == f[L].j
             l == f[L].less
             n == Len(u[i - 1])
  <2>6. n + l = a.less /\ \A r \in 1..a.less : r > n => g[r] >= j
    BY <2>5 DEF Ahead, Counts
  <2>7. i \in 1..(a.num + 1) /\ j \in 1..(a.num + 1) /\ l \in 0..a.less
    BY <1>6 DEF States
  <2>8. l = 0 \/ i = a.num + 1 \/ j = a.num + 1
    <3>1. l = 0 \/ ~(i <= a.num) \/ ~(j <= a.num)
      BY <1>6, <1>2 DEF LoopOn
    <3> HIDE DEF i, j, l
    <3> QED BY <3>1, <2>7, <1>2
  <2>9. n \in Nat
    <3>1. i - 1 \in 0..a.num
      BY <2>7, <1>2
    <3> HIDE DEF i
    <3>2. u[i - 1] \in Seq(Key \X M)
      BY <3>1, <1>5 DEF Lists
    <3> QED BY <3>2
  <2>10. Len(p) >= a.less
    <3> DEFINE S == Key \X M
    <3>1. a.sigs \in Seq(S \cup {NoSig})
      <4>1. Shaped(a, M)
        BY <1>1, Shape
      <4> QED BY <4>1 DEF Shaped
    <3> HIDE DEF S
    <3>2. Len(p) = Count(a.sigs, NoSig)
      BY <3>1, PresentCounts DEF p
    <3> QED BY <3>2, <1>1 DEF VerifyStarts
  <2> HIDE DEF i, j, l, n
  <2>11. CASE i = a.num + 1
    <3>1. i - 1 = a.num
      BY <2>11, <1>2
    <3>2. n = Len(p)
      BY <3>1, <1>5 DEF Lists, n
    <3>3. l = 0
      BY <3>2, <2>6, <2>7, <2>9, <2>10, <1>2
    <3> QED BY <3>3, <1>4 DEF l
  <2>12. CASE j = a.num + 1
    <3>1. SUFFICES ASSUME l # 0 PROVE FALSE
      BY <1>4 DEF l
    <3>2. n + 1 \in 1..a.less /\ n + 1 > n
      BY <3>1, <2>6, <2>7, <2>9, <1>2
    <3>3. g[n + 1] >= a.num + 1 /\ g[n + 1] \in 1..a.num
      BY <3>2, <2>1, <2>6, <2>12
    <3> QED BY <3>3, <1>2
  <2> QED BY <2>8, <2>11, <2>12, <1>4 DEF l
<1> QED BY <1>8, <1>9 DEF p

-----------------------------------------------------------------------------
(* What signatures are good for; accounts on their way through bytes. *)

(* What verify_full accepts as signed was signed. *)
LEMMA VerifiedMessage ==
    ASSUME NEW M, NEW a \in AccountsOver(M), NEW msg1, VerifyFull(a, msg1)
    PROVE  msg1 \in M
<1> DEFINE S == Key \X M
<1>1. CheckWithPubs(a) /\ VerifyStarts(a)
  BY DEF VerifyFull, VerifyStarts
<1>2. /\ a.num \in 1..254 /\ a.less \in 1..a.num /\ DOMAIN a.sigs = 1..a.num
      /\ a.sigs \in Seq(S \cup {NoSig}) /\ Len(a.sigs) = a.num
  <2>1. Shaped(a, M)
    BY <1>1, Shape
  <2> QED BY <2>1 DEF Shaped
<1> HIDE DEF S
<1>3. CASE UseArb(a)
  <2>1. VerifyWithPublic(a, a.arb + 1, msg1)
    BY <1>3 DEF VerifyFull
  <2>2. PICK i \in DOMAIN a.sigs : a.sigs[i] # NoSig /\ \E k : a.sigs[i] = <<k, msg1>>
    BY <2>1 DEF VerifyWithPublic, Verifies
  <2>3. a.sigs[i] \in S
    BY <1>2, <2>2
  <2> QED BY <2>2, <2>3 DEF S
<1>4. CASE ~UseArb(a)
  <2> DEFINE p == Present(a.sigs, NoSig)
  <2>1. p \in Seq(S) /\ Len(p) = Count(a.sigs, NoSig)
    BY <1>2, PresentCounts
  <2>2. Ordered(p, a, msg1)
    BY <1>4, VerifyFullExactly
  <2>3. Len(p) >= a.less
    BY <2>1, <1>1, <1>4 DEF VerifyStarts
  <2> HIDE DEF p
  <2>4. PICK g \in [1..a.less -> 1..a.num] : InOrder(g, a.less, p, a, msg1)
    BY <2>2 DEF Ordered
  <2>5. 1 \in 1..a.less /\ 1 \in 1..Len(p)
    BY <1>2, <2>1, <2>3
  <2>6. p[1] = <<a.pubs[g[1]], msg1>>
    BY <2>4, <2>5 DEF InOrder
  <2>7. p[1] \in S
    BY <2>1, <2>5
  <2> QED BY <2>6, <2>7 DEF S
<1> QED BY <1>3, <1>4

(* What is signed of the inputs of tx0, whatever they may spend. *)
SignedOf(tx0, Outs) == {SignBytes(tx0, j, o) : j \in DOMAIN tx0.ins, o \in Outs}

(* Signatures are good for the transaction they were made for and for no    *)
(* other: if all that the accounts of tx carry were made for inputs of tx0, *)
(* and tx passes, then tx has the id of tx0: the same version, the same     *)
(* inputs in the same order, the same outputs (get_sign_bytes,              *)
(* LinkExectorCache, check_tx_sign).                                        *)
THEOREM SignaturesBind ==
    ASSUME NEW Outs, NEW tx0, NEW tx, NEW coins,
           \A i \in DOMAIN tx0.ins : \A j \in DOMAIN tx0.ins :
              tx0.ins[i].out = tx0.ins[j].out /\ tx0.ins[i].idx = tx0.ins[j].idx => i = j,
           DOMAIN tx.ins # {},
           \A i \in DOMAIN tx.ins : tx.ins[i].acc \in AccountsOver(SignedOf(tx0, Outs)),
           CheckTxSign(tx, coins)
    PROVE  TxId(tx) = TxId(tx0)
<1>1. ASSUME NEW i \in DOMAIN tx.ins
      PROVE  /\ DOMAIN tx.ins = DOMAIN tx0.ins
             /\ tx.ver = tx0.ver /\ tx.outs = tx0.outs
             /\ InSigned(tx.ins[i]) = InSigned(tx0.ins[i])
  <2> DEFINE outv == coins[<<tx.ins[i].out, tx.ins[i].idx>>]
  <2>1. VerifyFull(tx.ins[i].acc, SignBytes(tx, i, outv))
    BY DEF CheckTxSign
  <2>2. SignBytes(tx, i, outv) \in SignedOf(tx0, Outs)
    BY <2>1, VerifiedMessage
  <2> HIDE DEF outv
  <2>3. PICK j \in DOMAIN tx0.ins, o \in Outs : SignBytes(tx, i, outv) = SignBytes(tx0, j, o)
    BY <2>2 DEF SignedOf
  <2>4. /\ CacheOf(tx).ver = CacheOf(tx0).ver /\ CacheOf(tx).refs = CacheOf(tx0).refs
        /\ InSigned(tx.ins[i]) = InSigned(tx0.ins[j]) /\ CacheOf(tx).outs = CacheOf(tx0).outs
    BY <2>3 DEF SignBytes
  <2>5. tx.ver = tx0.ver /\ tx.outs = tx0.outs
    BY <2>4 DEF CacheOf
  <2>6. [k \in DOMAIN tx.ins |-> <<tx.ins[k].out, tx.ins[k].idx>>]
           = [k \in DOMAIN tx0.ins |-> <<tx0.ins[k].out, tx0.ins[k].idx>>]
    BY <2>4 DEF CacheOf
  <2>7. DOMAIN tx.ins = DOMAIN tx0.ins
    BY <2>6
  <2>8. <<tx.ins[i].out, tx.ins[i].idx>> = <<tx0.ins[i].out, tx0.ins[i].idx>>
    BY <2>6, <2>7
  <2>9. tx.ins[i].out = tx0.ins[j].out /\ tx.ins[i].idx = tx0.ins[j].idx
    BY <2>4 DEF InSigned
  <2>10. i = j
    BY <2>7, <2>8, <2>9
  <2> QED BY <2>4, <2>5, <2>7, <2>10
<1>2. /\ DOMAIN tx.ins = DOMAIN tx0.ins /\ tx.ver = tx0.ver /\ tx.outs = tx0.outs
      /\ \A i \in DOMAIN tx.ins : InSigned(tx.ins[i]) = InSigned(tx0.ins[i])
  BY <1>1
<1>3. [i \in DOMAIN tx.ins |-> InSigned(tx.ins[i])] = [i \in DOMAIN tx0.ins |-> InSigned(tx0.ins[i])]
  BY <1>2
<1> QED BY <1>2, <1>3 DEF TxId

-----------------------------------------------------------------------------
(* Accounts on their way through bytes. *)
LEMMA PadType ==
    ASSUME NEW S, NEW none, NEW p \in Seq(S), NEW n \in Nat
    PROVE  Pad(p, none, n) \in Seq(S \cup {none}) /\ Len(Pad(p, none, n)) = n
<1> DEFINE R == S \cup {none}
           s == Pad(p, none, n)
<1>1. \A i \in 1..n : (IF i <= Len(p) THEN p[i] ELSE none) \in R
  OBVIOUS
<1>2. s \in [1..n -> R]
  BY <1>1 DEF Pad
<1> HIDE DEF R, s
<1>3. s \in Seq(R) /\ Len(s) = n
  BY <1>2
<1> QED BY <1>3 DEF R, s

LEMMA PadNone ==
    ASSUME NEW S, NEW none, NEW n \in Nat
    PROVE  Pad(<<>>, none, n) \in Seq(S \cup {none}) /\ Len(Pad(<<>>, none, n)) = n
<1> DEFINE p == <<>>
<1>1. p \in Seq(S)
  OBVIOUS
<1> HIDE DEF p
<1>2. Pad(p, none, n) \in Seq(S \cup {none}) /\ Len(Pad(p, none, n)) = n
  BY <1>1, PadType
<1> QED BY <1>2, Zenon DEF p

(* Nothing missing: what is present is all, and padding adds nothing. *)
LEMMA PadAll ==
    ASSUME NEW S, NEW none, none \notin S, NEW p \in Seq(S)
    PROVE  Pad(p, none, Len(p)) = p /\ Present(p, none) = p
<1> DEFINE s == Pad(p, none, Len(p))
<1>1. Len(p) \in Nat
  OBVIOUS
<1>2. s \in Seq(S \cup {none}) /\ Len(s) = Len(p) /\ Present(s, none) = p
  <2>1. Padded(p, none, Len(p), S)
    BY <1>1, PresentPadded
  <2> QED BY <2>1 DEF Padded
<1>3. \A i \in 1..Len(p) : s[i] = p[i]
  BY DEF Pad
<1>4. p \in Seq(S \cup {none})
  OBVIOUS
<1> HIDE DEF s
<1>5. s = p
  <2> DEFINE R == S \cup {none}
  <2>1. s \in Seq(R) /\ p \in Seq(R)
    BY <1>2, <1>4
  <2> HIDE DEF R
  <2> QED BY <2>1, <1>2, <1>3, SeqEqual
<1> QED BY <1>2, <1>5 DEF s

LEMMA KeysAll ==
    ASSUME NEW M, NEW a \in AccountsOver(M), CheckWithPubs(a)
    PROVE  /\ a.pubs \in Seq(Key) /\ Present(a.pubs, NoKey) = a.pubs
           /\ Pad(a.pubs, NoKey, a.num) = a.pubs
<1>1. a.num \in 1..254 /\ a.pubs \in [1..a.num -> Key] /\ Len(a.pubs) = a.num
  <2>1. Shaped(a, M)
    BY Shape
  <2> QED BY <2>1 DEF Shaped
<1>2. a.pubs \in Seq(Key)
  BY <1>1
<1>3. NoKey \notin Key
  BY AccountAssumption
<1> QED BY <1>1, <1>2, <1>3, PadAll

(* Normalising keeps the arbiter from_bytes and Account::new give. *)
ArbKept(a) == a.arb \in {NoArb, a.num - 1}

Wire(a) == Unpack(Pack(a))

LEMMA WireFields ==
    ASSUME NEW M, NEW a \in AccountsOver(M), CheckWithPubs(a), ArbKept(a)
    PROVE  /\ Wire(a) = [num |-> a.num, less |-> a.less, arb |-> a.arb,
                         pris |-> Pad(<<>>, NoKey, a.num), pubs |-> a.pubs,
                         sigs |-> Pad(Present(a.sigs, NoSig), NoSig, a.num)]
           /\ Wire(a) \in AccountsOver(M)
           /\ CheckWithPubs(Wire(a)) /\ Identity(Wire(a)) = Identity(a)
           /\ UseArb(Wire(a)) <=> UseArb(a)
<1>1. /\ a.num \in 1..254 /\ a.less \in 1..a.num
      /\ a.sigs \in Seq((Key \X M) \cup {NoSig})
  <2>1. Shaped(a, M)
    BY Shape
  <2> QED BY <2>1 DEF Shaped
<1>2. Present(a.pubs, NoKey) = a.pubs /\ Pad(a.pubs, NoKey, a.num) = a.pubs /\ a.pubs \in Seq(Key)
  BY KeysAll
<1>3. ArbOf(a.num, a.arb) = a.arb
  BY DEF ArbOf, ArbKept
<1> DEFINE w == Pack(a)
           sigs == Pad(Present(a.sigs, NoSig), NoSig, a.num)
           pris == Pad(<<>>, NoKey, a.num)
           b == [num |-> a.num, less |-> a.less, arb |-> a.arb,
                 pris |-> pris, pubs |-> a.pubs, sigs |-> sigs]
<1>4. /\ w.num = a.num /\ w.less = a.less /\ w.arb = a.arb
      /\ w.pubs = a.pubs /\ w.sigs = Present(a.sigs, NoSig)
  BY <1>2 DEF Pack
<1> HIDE DEF w
<1>5. Unpack(w) = b
  <2>1. New(a.num, a.less, a.arb) =
           [num |-> a.num, less |-> a.less, arb |-> a.arb, pris |-> pris,
            pubs |-> Pad(<<>>, NoKey, a.num), sigs |-> Pad(<<>>, NoSig, a.num)]
    BY <1>3 DEF New
  <2>2. Unpack(w) = [New(a.num, a.less, a.arb) EXCEPT !.pubs = a.pubs, !.sigs = sigs]
    BY <1>2, <1>3, <1>4 DEF Unpack
  <2> DEFINE n == New(a.num, a.less, a.arb)
             pubs0 == Pad(<<>>, NoKey, a.num)
             sigs0 == Pad(<<>>, NoSig, a.num)
             pubs1 == a.pubs
  <2>3. /\ n = [num |-> a.num, less |-> a.less, arb |-> a.arb, pris |-> pris,
                pubs |-> pubs0, sigs |-> sigs0]
        /\ Unpack(w) = [n EXCEPT !.pubs = pubs1, !.sigs = sigs]
    BY <2>1, <2>2
  <2> HIDE DEF pris, sigs, n, pubs0, sigs0, pubs1
  <2>4. Unpack(w) = [num |-> a.num, less |-> a.less, arb |-> a.arb, pris |-> pris,
                     pubs |-> pubs1, sigs |-> sigs]
    BY <2>3
  <2> QED BY <2>4 DEF pubs1
<1>6. Wire(a) = b
  BY <1>5 DEF Wire, w
<1>7. b \in AccountsOver(M)
  <2> DEFINE S == Key \X M
  <2>1. a.sigs \in Seq(S \cup {NoSig})
    BY <1>1
  <2>2. a.num \in Nat /\ a.num \in 0..255 /\ a.less \in 0..255 /\ a.arb \in 0..255
    BY <1>1 DEF AccountsOver
  <2> HIDE DEF S
  <2>3. sigs \in Seq(S \cup {NoSig}) /\ Len(sigs) = a.num
    <3>1. Present(a.sigs, NoSig) \in Seq(S)
      BY <2>1, PresentCounts
    <3> QED BY <2>2, <3>1, PadType
  <2>4. pris \in Seq(Key \cup {NoKey}) /\ Len(pris) = a.num
    <3> DEFINE n == a.num
    <3>1. n \in Nat
      BY <2>2
    <3> HIDE DEF n
    <3>2. Pad(<<>>, NoKey, n) \in Seq(Key \cup {NoKey}) /\ Len(Pad(<<>>, NoKey, n)) = n
      BY <3>1, PadNone
    <3> QED BY <3>2 DEF n
  <2>5. a.pubs \in Seq(Key \cup {NoKey}) /\ Len(a.pubs) = a.num
    BY DEF AccountsOver
  <2> HIDE DEF sigs, pris
  <2> QED BY <2>2, <2>3, <2>4, <2>5 DEF AccountsOver, S
<1>8. /\ b.num = a.num /\ b.less = a.less /\ b.arb = a.arb /\ b.pubs = a.pubs
  OBVIOUS
<1> HIDE DEF b
<1>9. CheckWithPubs(b) /\ Identity(b) = Identity(a) /\ (UseArb(b) <=> UseArb(a))
  BY <1>8 DEF CheckWithPubs, Check, UseArb, Identity
<1> QED BY <1>6, <1>7, <1>9 DEF b

(* Present keeps what is there, and adds nothing. *)
Keeps(s, none, v) ==
    (\E i \in DOMAIN s : s[i] = v)
       <=> (\E r \in 1..Len(Present(s, none)) : Present(s, none)[r] = v)

LEMMA PresentHolds ==
    ASSUME NEW S, NEW none, NEW s \in Seq(S \cup {none}), NEW v, v # none
    PROVE  Keeps(s, none, v)
<1>1. PICK u \in [0..Len(s) -> Seq(S)] : Collects(u, s, none) /\ Present(s, none) = u[Len(s)]
  <2>1. Gathers(S, s, none)
    BY PresentCollects
  <2> QED BY <2>1 DEF Gathers
<1> DEFINE L == Len(s)
           p == Present(s, none)
<1>2. L \in Nat /\ DOMAIN s = 1..L
  OBVIOUS
<1>3. ASSUME NEW i \in 1..L, s[i] = v PROVE \E r \in 1..Len(p) : p[r] = v
  <2> DEFINE n == i - 1
  <2>1. n \in Nat /\ n + 1 = i /\ n + 1 <= Len(s) /\ i \in 0..Len(s)
    BY <1>2
  <2> HIDE DEF n
  <2>2. Collected(u, s, none, n)
    BY <1>1, <2>1, CollectsMore
  <2>3. /\ Len(u[i]) = Len(u[n]) + 1 /\ u[i][Len(u[n]) + 1] = v /\ Len(u[n]) \in Nat
    BY <2>1, <2>2, <1>3 DEF Collected
  <2>4. Len(u[i]) <= Len(u[L]) /\ \A r \in 1..Len(u[i]) : u[L][r] = u[i][r]
    <3>1. Collects(u, s, none) /\ i \in 0..Len(s)
      BY <1>1, <2>1
    <3>2. Prefixed(u, i, Len(s))
      BY <3>1, CollectsPrefix
    <3> QED BY <3>2 DEF Prefixed
  <2>5. u[L] \in Seq(S) /\ Len(u[L]) \in Nat
    BY <1>2
  <2>6. Len(u[n]) + 1 \in 1..Len(u[L])
    BY <2>3, <2>4, <2>5
  <2>7. u[L][Len(u[n]) + 1] = v
    BY <2>3, <2>4
  <2> QED BY <2>6, <2>7, <1>1
<1>4. ASSUME NEW r0 \in 1..Len(p), p[r0] = v PROVE \E i \in 1..L : s[i] = v
  <2> DEFINE C == {n \in Nat : n <= L => \A r \in 1..Len(u[n]) : \E i \in 1..L : s[i] = u[n][r]}
  <2>1. 0 \in C
    <3>1. u[0] = <<>>
      BY <1>1 DEF Collects
    <3> QED BY <3>1
  <2>2. ASSUME NEW n \in Nat, n \in C PROVE n + 1 \in C
    <3> SUFFICES ASSUME n + 1 <= L, NEW r \in 1..Len(u[n + 1])
                 PROVE  \E i \in 1..L : s[i] = u[n + 1][r]
      OBVIOUS
    <3>1. \A q \in 1..Len(u[n]) : \E i \in 1..L : s[i] = u[n][q]
      BY <2>2, <1>2
    <3>2. Collected(u, s, none, n)
      BY <1>1, CollectsMore
    <3>3. CASE s[n + 1] = none
      BY <3>1, <3>2, <3>3 DEF Collected
    <3>4. CASE s[n + 1] # none
      <4>1. /\ Len(u[n + 1]) = Len(u[n]) + 1 /\ Len(u[n]) \in Nat
            /\ u[n + 1][Len(u[n]) + 1] = s[n + 1]
            /\ \A q \in 1..Len(u[n]) : u[n + 1][q] = u[n][q]
        BY <3>2, <3>4 DEF Collected
      <4>2. CASE r = Len(u[n]) + 1
        <5>1. n + 1 \in 1..L
          BY <1>2
        <5> QED BY <5>1, <4>1, <4>2
      <4>3. CASE r # Len(u[n]) + 1
        <5>1. r \in 1..Len(u[n])
          BY <4>1, <4>3
        <5> QED BY <5>1, <4>1, <3>1
      <4> QED BY <4>2, <4>3
    <3> QED BY <3>3, <3>4
  <2>3. \A n \in Nat : n \in C
    <3> HIDE DEF C
    <3> QED BY <2>1, <2>2, NatInd
  <2>4. L \in C
    <3> HIDE DEF C
    <3> QED BY <2>3, <1>2
  <2>5. \A r \in 1..Len(u[L]) : \E i \in 1..L : s[i] = u[L][r]
    BY <2>4, <1>2
  <2> QED BY <2>5, <1>1, <1>4
<1> QED BY <1>2, <1>3, <1>4 DEF Keeps

LEMMA PresentFits ==
    ASSUME NEW M, NEW a \in AccountsOver(M), CheckWithPubs(a)
    PROVE  /\ Present(a.sigs, NoSig) \in Seq(Key \X M)
           /\ Len(Present(a.sigs, NoSig)) = Count(a.sigs, NoSig)
           /\ Len(Present(a.sigs, NoSig)) <= a.num
<1> DEFINE S == Key \X M
           B == {i \in DOMAIN a.sigs : a.sigs[i] # NoSig}
           n == a.num
<1>1. a.sigs \in Seq(S \cup {NoSig}) /\ DOMAIN a.sigs = 1..n /\ n \in Nat
  <2>1. a.sigs \in Seq(S \cup {NoSig}) /\ DOMAIN a.sigs = 1..a.num /\ a.num \in 1..254
    <3>1. Shaped(a, M)
      BY Shape
    <3> QED BY <3>1 DEF Shaped
  <2>2. a.num \in 1..254
    <3>1. Shaped(a, M)
      BY Shape
    <3> QED BY <3>1 DEF Shaped
  <2>3. a.num \in Nat
    BY <2>2
  <2> HIDE DEF S
  <2> QED BY <2>1, <2>3
<1> HIDE DEF S, n
<1>2. /\ Present(a.sigs, NoSig) \in Seq(S)
      /\ Len(Present(a.sigs, NoSig)) = Count(a.sigs, NoSig)
  BY <1>1, PresentCounts
<1>3. IsFiniteSet(1..n) /\ Cardinality(1..n) = n
  BY <1>1, Interval
<1>4. B \in SUBSET (1..n)
  BY <1>1
<1>5. Cardinality(B) <= n
  <2> HIDE DEF B
  <2> QED BY <1>3, <1>4, FS_Subset
<1> QED BY <1>2, <1>5 DEF Count, S, n

(* The verdict depends on the signatures there are, not on their places. *)
LEMMA SameVerdict ==
    ASSUME NEW M, NEW a \in AccountsOver(M), NEW b \in AccountsOver(M), CheckWithPubs(a),
           CheckWithPubs(b), b.num = a.num, b.less = a.less, b.arb = a.arb, b.pubs = a.pubs,
           Present(b.sigs, NoSig) = Present(a.sigs, NoSig), NEW msg1
    PROVE  VerifyFull(b, msg1) <=> VerifyFull(a, msg1)
<1> DEFINE p == Present(a.sigs, NoSig)
           S == Key \X M
<1>1. UseArb(b) <=> UseArb(a)
  BY DEF UseArb
<1>2. Count(b.sigs, NoSig) = Count(a.sigs, NoSig)
  <2>1. Len(p) = Count(a.sigs, NoSig)
    BY PresentFits
  <2>2. Len(Present(b.sigs, NoSig)) = Count(b.sigs, NoSig)
    BY PresentFits
  <2> QED BY <2>1, <2>2
<1>3. VerifyStarts(b) <=> VerifyStarts(a)
  BY <1>1, <1>2 DEF VerifyStarts
<1>4. CASE UseArb(a)
  <2> DEFINE k == a.pubs[a.arb + 1]
             v == <<k, msg1>>
  <2>1. a.sigs \in Seq(S \cup {NoSig}) /\ b.sigs \in Seq(S \cup {NoSig})
    <3>1. Shaped(a, M) /\ Shaped(b, M)
      BY Shape
    <3> QED BY <3>1 DEF Shaped
  <2> HIDE DEF p, S
  <2>2. ASSUME NEW c, c \in {a, b}
        PROVE  (\E i \in DOMAIN c.sigs : Verifies(k, c.sigs[i], msg1))
                  <=> (k # NoKey /\ v # NoSig /\ \E r \in 1..Len(p) : p[r] = v)
    <3>1. c.sigs \in Seq(S \cup {NoSig}) /\ Present(c.sigs, NoSig) = p
      BY <2>1, <2>2 DEF p
    <3> DEFINE s == c.sigs
    <3> HIDE DEF s, v, k
    <3>2. v # NoSig => ((\E i \in DOMAIN s : s[i] = v)
             <=> (\E r \in 1..Len(Present(s, NoSig)) : Present(s, NoSig)[r] = v))
      <4> SUFFICES ASSUME v # NoSig
                   PROVE  (\E i \in DOMAIN s : s[i] = v)
                             <=> (\E r \in 1..Len(Present(s, NoSig)) : Present(s, NoSig)[r] = v)
        OBVIOUS
      <4>1. s \in Seq(S \cup {NoSig})
        BY <3>1 DEF s
      <4>2. Keeps(s, NoSig, v)
        BY <4>1, PresentHolds
      <4> QED BY <4>2 DEF Keeps
    <3>3. (\E i \in DOMAIN s : Verifies(k, s[i], msg1))
             <=> (k # NoKey /\ v # NoSig /\ \E i \in DOMAIN s : s[i] = v)
      BY DEF Verifies, v
    <3> QED BY <3>1, <3>2, <3>3 DEF s
  <2>3. VerifyWithPublic(b, b.arb + 1, msg1) <=> VerifyWithPublic(a, a.arb + 1, msg1)
    BY <2>2 DEF VerifyWithPublic
  <2> QED BY <1>1, <1>3, <1>4, <2>3 DEF VerifyFull
<1>5. CASE ~UseArb(a)
  <2>1. VerifyFull(a, msg1) <=> VerifyStarts(a) /\ Ordered(p, a, msg1)
    BY <1>5, VerifyFullExactly
  <2>2. VerifyFull(b, msg1) <=> VerifyStarts(b) /\ Ordered(p, b, msg1)
    BY <1>1, <1>5, VerifyFullExactly
  <2>3. Ordered(p, b, msg1) <=> Ordered(p, a, msg1)
    BY DEF Ordered, InOrder
  <2> QED BY <1>3, <2>1, <2>2, <2>3
<1> QED BY <1>4, <1>5

(* An account that lost the gaps between its signatures on its way through  *)
(* bytes is the same account, and gets the same verdict (into_bytes,        *)
(* from_bytes, verify_full).                                                *)
THEOREM BytesKeepVerdict ==
    ASSUME NEW M, NoSig \notin Key \X M, NEW a \in AccountsOver(M), CheckWithPubs(a), ArbKept(a),
           NEW msg1
    PROVE  /\ CanUnpack(Pack(a)) /\ Identity(Unpack(Pack(a))) = Identity(a)
           /\ VerifyFull(Unpack(Pack(a)), msg1) <=> VerifyFull(a, msg1)
<1> DEFINE b == Wire(a)
           p == Present(a.sigs, NoSig)
           S == Key \X M
<1>1. /\ b \in AccountsOver(M) /\ CheckWithPubs(b) /\ Identity(b) = Identity(a)
      /\ b.num = a.num /\ b.less = a.less /\ b.arb = a.arb /\ b.pubs = a.pubs
      /\ b.sigs = Pad(p, NoSig, a.num)
  BY WireFields
<1>2. p \in Seq(S) /\ Len(p) <= a.num
  BY PresentFits
<1>3. a.num \in Nat /\ Len(a.pubs) = a.num /\ a.num \in 1..MaxKeys
  <2>1. a.num \in 1..254 /\ Len(a.pubs) = a.num
    <3>1. Shaped(a, M)
      BY Shape
    <3> QED BY <3>1 DEF Shaped
  <2> QED BY <2>1 DEF CheckWithPubs, Check
<1> HIDE DEF b, p, S
<1>4. Present(b.sigs, NoSig) = p
  <2>1. NoSig \notin S
    BY DEF S
  <2>2. Present(Pad(p, NoSig, a.num), NoSig) = p
    <3> DEFINE k == a.num
    <3>1. k \in Nat
      BY <1>3
    <3>2. p \in Seq(S)
      BY <1>2
    <3>3. Len(p) <= k
      BY <1>2
    <3> HIDE DEF k
    <3>4. Padded(p, NoSig, k, S)
      BY <2>1, <3>1, <3>2, <3>3, PresentPadded
    <3> QED BY <3>4 DEF k, Padded
  <2> QED BY <2>2, <1>1
<1>5. VerifyFull(b, msg1) <=> VerifyFull(a, msg1)
  BY <1>1, <1>4, SameVerdict DEF p
<1>6. CanUnpack(Pack(a))
  <2>1. Present(a.pubs, NoKey) = a.pubs
    BY KeysAll
  <2>2. Pack(a).num = a.num /\ Pack(a).pubs = a.pubs /\ Pack(a).sigs = p
    BY <2>1 DEF Pack, p
  <2>3. CheckWithPubs(Unpack(Pack(a)))
    BY <1>1 DEF b, Wire
  <2>4. a.num <= a.num
    BY <1>3
  <2> QED BY <1>2, <1>3, <2>2, <2>3, <2>4 DEF CanUnpack
<1> QED BY <1>1, <1>5, <1>6 DEF b, Wire

(* An account signed with all its keys. *)
LEMMA FullySigned ==
    ASSUME NEW M, NEW a \in AccountsOver(M), CheckWithPubs(a), CheckPrisPubs(a), NEW msg1
    PROVE  /\ CanSignFull(a)
           /\ SignedFull(a, msg1) =
                 [num |-> a.num, less |-> a.less, arb |-> a.arb, pris |-> a.pubs, pubs |-> a.pubs,
                  sigs |-> [i \in 1..a.num |-> <<a.pubs[i], msg1>>]]
           /\ SignedFull(a, msg1) \in AccountsOver({msg1})
           /\ CheckWithPubs(SignedFull(a, msg1))
<1> DEFINE n == a.num
           keys == a.pubs
           sigs == [i \in 1..n |-> <<keys[i], msg1>>]
           b == [num |-> n, less |-> a.less, arb |-> a.arb, pris |-> keys, pubs |-> keys,
                 sigs |-> sigs]
<1>1. /\ n \in 1..254 /\ DOMAIN keys = 1..n /\ Len(keys) = n /\ keys \in [1..n -> Key]
      /\ a.pris = keys /\ keys \in Seq(Key \cup {NoKey})
  <2>1. keys \in Seq(Key \cup {NoKey})
    BY DEF AccountsOver
  <2>2. Shaped(a, M)
    BY Shape
  <2> QED BY <2>1, <2>2 DEF Shaped, CheckPrisPubs
<1>2. CanSignFull(a)
  BY <1>1, AccountAssumption DEF CanSignFull, CanSign
<1>3. SignedFull(a, msg1) = b
  <2>1. a = [num |-> a.num, less |-> a.less, arb |-> a.arb, pris |-> a.pris,
             pubs |-> a.pubs, sigs |-> a.sigs]
    BY DEF AccountsOver
  <2>2. SignedFull(a, msg1) = [a EXCEPT !.sigs = sigs]
    BY <1>1 DEF SignedFull
  <2> HIDE DEF sigs
  <2> QED BY <2>1, <2>2, <1>1
<1>4. sigs \in Seq((Key \X {msg1}) \cup {NoSig}) /\ Len(sigs) = n
  <2> DEFINE R == (Key \X {msg1}) \cup {NoSig}
  <2>1. \A i \in 1..n : <<keys[i], msg1>> \in R
    BY <1>1
  <2>2. sigs \in [1..n -> R]
    BY <2>1
  <2> HIDE DEF R, sigs
  <2>3. n \in Nat
    BY <1>1
  <2> QED BY <2>2, <2>3 DEF R
<1>5. n \in 0..255 /\ a.less \in 0..255 /\ a.arb \in 0..255
  BY DEF AccountsOver
<1> HIDE DEF sigs
<1>6. b \in AccountsOver({msg1})
  <2> HIDE DEF n, keys
  <2> QED BY <1>1, <1>4, <1>5 DEF AccountsOver
<1>7. b.num = a.num /\ b.less = a.less /\ b.arb = a.arb /\ b.pubs = a.pubs
  OBVIOUS
<1> HIDE DEF b
<1>8. CheckWithPubs(b)
  BY <1>7 DEF CheckWithPubs, Check, UseArb
<1> QED BY <1>2, <1>3, <1>6, <1>8 DEF b, sigs

(* Who signs with all keys is accepted, as long as a signature is no None *)
(* (sign_full, verify_full).                                              *)
LEMMA FullPasses ==
    ASSUME NEW M, NEW a \in AccountsOver(M), CheckWithPubs(a), CheckPrisPubs(a), NEW msg1,
           NoSig \notin Key \X {msg1}
    PROVE  VerifyFull(SignedFull(a, msg1), msg1)
<1> DEFINE b == SignedFull(a, msg1)
           S == Key \X {msg1}
           n == a.num
<1>1. b \in AccountsOver({msg1}) /\ CheckWithPubs(b)
  BY FullySigned
<1>2. /\ b.num = n /\ b.less = a.less /\ b.arb = a.arb /\ b.pubs = a.pubs
      /\ b.sigs = [i \in 1..n |-> <<a.pubs[i], msg1>>]
  <2> DEFINE sigs == [i \in 1..a.num |-> <<a.pubs[i], msg1>>]
  <2>1. b = [num |-> a.num, less |-> a.less, arb |-> a.arb, pris |-> a.pubs, pubs |-> a.pubs,
             sigs |-> sigs]
    BY FullySigned
  <2> HIDE DEF b, sigs
  <2>2. /\ b.num = a.num /\ b.less = a.less /\ b.arb = a.arb /\ b.pubs = a.pubs
        /\ b.sigs = sigs
    BY <2>1
  <2> QED BY <2>2 DEF sigs
<1>3. n \in 1..254 /\ a.less \in 1..n /\ a.pubs \in [1..n -> Key] /\ DOMAIN a.pubs = 1..n
  <2>1. Shaped(a, M)
    BY Shape
  <2> QED BY <2>1 DEF Shaped
<1> HIDE DEF b, n
<1>4. b.sigs \in Seq(S) /\ Len(b.sigs) = n
  <2> DEFINE s == b.sigs
  <2>1. s \in [1..n -> S]
    BY <1>2, <1>3
  <2> HIDE DEF s, S
  <2>2. n \in Nat
    BY <1>3
  <2>3. s \in Seq(S) /\ Len(s) = n
    BY <2>1, <2>2
  <2> QED BY <2>3 DEF s
<1>5. Present(b.sigs, NoSig) = b.sigs
  <2>1. NoSig \notin S
    OBVIOUS
  <2> HIDE DEF S
  <2> QED BY <2>1, <1>4, PadAll
<1>6. Count(b.sigs, NoSig) = n
  BY <1>1, <1>4, <1>5, PresentFits
<1>7. VerifyStarts(b)
  BY <1>1, <1>2, <1>3, <1>6 DEF VerifyStarts
<1>8. CASE UseArb(b)
  <2>1. b.arb + 1 = n
    BY <1>2, <1>3, <1>8 DEF UseArb
  <2>2. n \in 1..n
    <3>1. n \in 1..254
      BY <1>3
    <3> QED BY <3>1
  <2>3. b.sigs[n] = <<a.pubs[n], msg1>> /\ a.pubs[n] \in Key /\ DOMAIN b.sigs = 1..n
    BY <1>2, <1>3, <2>2
  <2>4. a.pubs[n] # NoKey /\ b.sigs[n] # NoSig
    BY <2>3, AccountAssumption
  <2>5. VerifyWithPublic(b, n, msg1)
    BY <1>2, <1>3, <2>2, <2>3, <2>4 DEF VerifyWithPublic, Verifies
  <2>6. VerifyFull(b, msg1)
    BY <1>7, <1>8, <2>1, <2>5 DEF VerifyFull
  <2> QED BY <2>6 DEF b
<1>9. CASE ~UseArb(b)
  <2> DEFINE g == [r \in 1..a.less |-> r]
  <2>1. g \in [1..a.less -> 1..n] /\ \A r \in 1..a.less : g[r] = r /\ r \in 1..n
    BY <1>3
  <2> HIDE DEF g
  <2>2. InOrder(g, a.less, b.sigs, b, msg1)
    BY <2>1, <1>2 DEF InOrder
  <2>3. Ordered(b.sigs, b, msg1)
    BY <2>1, <2>2, <1>2 DEF Ordered
  <2>4. Ordered(Present(b.sigs, NoSig), b, msg1)
    BY <1>5, <2>3
  <2>5. VerifyFull(b, msg1)
    BY <1>1, <1>7, <1>9, <2>4, VerifyFullExactly
  <2> QED BY <2>5 DEF b
<1> QED BY <1>8, <1>9 DEF b

-----------------------------------------------------------------------------
(* Saved and loaded accounts, and those the model starts from. *)

LEMMA OverMore ==
    ASSUME NEW M, NEW N, M \subseteq N, NEW a \in AccountsOver(M)
    PROVE  a \in AccountsOver(N)
<1> DEFINE S == (Key \X M) \cup {NoSig}
           T == (Key \X N) \cup {NoSig}
           s == a.sigs
<1>1. S \subseteq T
  OBVIOUS
<1>2. s \in Seq(S)
  BY DEF AccountsOver
<1> HIDE DEF S, T, s
<1>3. s \in Seq(T)
  BY <1>1, <1>2
<1> QED BY <1>3 DEF AccountsOver, T, s

(* An account saved with its keys and loaded: the same, without signatures. *)
LEMMA LoadedFields ==
    ASSUME NEW M, NEW a \in AccountsOver(M), CheckWithPubs(a), CheckPrisPubs(a), ArbKept(a), NEW N
    PROVE  /\ CanLoad(a) /\ Identity(Loaded(a)) = Identity(a)
           /\ Loaded(a) \in AccountsOver(N)
           /\ CheckWithPubs(Loaded(a)) /\ CheckPrisPubs(Loaded(a)) /\ ArbKept(Loaded(a))
<1> DEFINE n == a.num
           sigs == Pad(<<>>, NoSig, n)
           b == [num |-> n, less |-> a.less, arb |-> a.arb, pris |-> a.pris, pubs |-> a.pubs,
                 sigs |-> sigs]
<1>1. Loaded(a) = b
  <2> DEFINE pris0 == Pad(<<>>, NoKey, n)
             pubs0 == Pad(<<>>, NoKey, n)
             pris1 == a.pris
             pubs1 == a.pubs
             n0 == New(n, a.less, a.arb)
  <2>1. ArbOf(n, a.arb) = a.arb
    BY DEF ArbOf, ArbKept
  <2>2. New(n, a.less, a.arb) =
           [num |-> n, less |-> a.less, arb |-> a.arb, pris |-> pris0, pubs |-> pubs0,
            sigs |-> sigs]
    BY <2>1 DEF New
  <2>3. Loaded(a) = [New(n, a.less, a.arb) EXCEPT !.pubs = pubs1, !.pris = pris1]
    BY <2>1 DEF Loaded
  <2>5. /\ n0 = [num |-> n, less |-> a.less, arb |-> a.arb, pris |-> pris0, pubs |-> pubs0,
                 sigs |-> sigs]
        /\ Loaded(a) = [n0 EXCEPT !.pubs = pubs1, !.pris = pris1]
    BY <2>2, <2>3
  <2> HIDE DEF pris0, pubs0, sigs, pris1, pubs1, n0, n
  <2>4. Loaded(a) = [num |-> n, less |-> a.less, arb |-> a.arb, pris |-> pris1, pubs |-> pubs1,
                     sigs |-> sigs]
    BY <2>5
  <2> QED BY <2>4 DEF pris1, pubs1
<1>2. sigs \in Seq((Key \X N) \cup {NoSig}) /\ Len(sigs) = n
  <2> DEFINE S == Key \X N
  <2>1. Shaped(a, M)
    BY Shape
  <2>2. n \in Nat
    <3>1. n \in 1..254
      BY <2>1 DEF Shaped
    <3> QED BY <3>1
  <2> HIDE DEF S, n
  <2>3. Pad(<<>>, NoSig, n) \in Seq(S \cup {NoSig}) /\ Len(Pad(<<>>, NoSig, n)) = n
    BY <2>2, PadNone
  <2> QED BY <2>3 DEF S
<1> HIDE DEF sigs
<1>3. b \in AccountsOver(N)
  BY <1>2 DEF AccountsOver
<1>4. b.num = a.num /\ b.less = a.less /\ b.arb = a.arb /\ b.pubs = a.pubs /\ b.pris = a.pris
  OBVIOUS
<1> HIDE DEF b
<1>5. CheckWithPubs(b) /\ Identity(b) = Identity(a) /\ CheckPrisPubs(b) /\ ArbKept(b)
  BY <1>4 DEF CheckWithPubs, Check, UseArb, Identity, CheckPrisPubs, ArbKept
<1> QED BY <1>1, <1>3, <1>5 DEF CanLoad

(* Signed with all keys and sent through bytes, it passes. *)
LEMMA SignedPasses ==
    ASSUME NEW M, NEW a \in AccountsOver(M), CheckWithPubs(a), CheckPrisPubs(a), ArbKept(a),
           NEW msg1, NoSig \notin Key \X {msg1}
    PROVE  /\ CanSignFull(a)
           /\ VerifyFull(Wire(SignedFull(a, msg1)), msg1)
           /\ Wire(SignedFull(a, msg1)) \in AccountsOver({msg1})
           /\ Identity(Wire(SignedFull(a, msg1))) = Identity(a)
<1> DEFINE b == SignedFull(a, msg1)
<1>1. b \in AccountsOver({msg1}) /\ CheckWithPubs(b) /\ CanSignFull(a)
  BY FullySigned
<1>2. /\ b.num = a.num /\ b.less = a.less /\ b.arb = a.arb /\ b.pubs = a.pubs
  <2> DEFINE sigs == [i \in 1..a.num |-> <<a.pubs[i], msg1>>]
  <2>1. b = [num |-> a.num, less |-> a.less, arb |-> a.arb, pris |-> a.pubs, pubs |-> a.pubs,
             sigs |-> sigs]
    BY FullySigned
  <2> HIDE DEF b, sigs
  <2> QED BY <2>1
<1>3. VerifyFull(b, msg1)
  BY FullPasses
<1> HIDE DEF b
<1>4. ArbKept(b) /\ Identity(b) = Identity(a)
  BY <1>2 DEF ArbKept, Identity
<1>5. VerifyFull(Unpack(Pack(b)), msg1) <=> VerifyFull(b, msg1)
  BY <1>1, <1>4, BytesKeepVerdict
<1>6. Wire(b) \in AccountsOver({msg1}) /\ Identity(Wire(b)) = Identity(b)
  BY <1>1, <1>4, WireFields
<1> QED BY <1>1, <1>3, <1>4, <1>5, <1>6 DEF b, Wire

-----------------------------------------------------------------------------
(* The accounts the model starts from. *)
LEMMA KeyedFields ==
    ASSUME NEW M, NEW keys \in Seq(Key), Len(keys) \in 1..MaxKeys, NEW less \in 1..Len(keys),
           NEW arb \in {NoArb, Len(keys) - 1}, arb # NoArb => Len(keys) >= 2
    PROVE  /\ Keyed(keys, less, arb) =
                 [num |-> Len(keys), less |-> less, arb |-> arb, pris |-> keys, pubs |-> keys,
                  sigs |-> Pad(<<>>, NoSig, Len(keys))]
           /\ Keyed(keys, less, arb) \in AccountsOver(M)
           /\ CheckWithPubs(Keyed(keys, less, arb)) /\ CheckPrisPubs(Keyed(keys, less, arb))
           /\ ArbKept(Keyed(keys, less, arb))
<1> DEFINE n == Len(keys)
           sigs == Pad(<<>>, NoSig, n)
           b == [num |-> n, less |-> less, arb |-> arb, pris |-> keys, pubs |-> keys,
                 sigs |-> sigs]
<1>0. n \in Nat /\ n \in 1..254 /\ less \in 0..255 /\ n \in 0..255 /\ arb \in 0..255
  <2>1. n \in 1..MaxKeys
    OBVIOUS
  <2>2. less \in 1..n
    OBVIOUS
  <2>3. arb \in {NoArb, n - 1}
    OBVIOUS
  <2> HIDE DEF n
  <2>4. MaxKeys \in 1..254
    BY AccountAssumption
  <2>5. n \in 1..254
    BY ONLY <2>1, <2>4
  <2>6. n \in Nat /\ n \in 0..255 /\ n - 1 \in 0..255
    BY ONLY <2>5
  <2>7. less \in 0..255
    BY ONLY <2>2, <2>5
  <2>8. NoArb \in 0..255
    BY DEF NoArb
  <2>9. arb = NoArb \/ arb = n - 1
    BY <2>3
  <2> QED BY <2>5, <2>6, <2>7, <2>8, <2>9, Zenon
<1>1. Keyed(keys, less, arb) = b
  <2> DEFINE pris0 == Pad(<<>>, NoKey, n)
             pubs0 == Pad(<<>>, NoKey, n)
             n0 == New(n, less, arb)
  <2>1. n0 =
           [num |-> n, less |-> less, arb |-> arb, pris |-> pris0, pubs |-> pubs0, sigs |-> sigs]
    BY DEF New
  <2>2. Keyed(keys, less, arb) = [n0 EXCEPT !.pubs = keys, !.pris = keys]
    BY DEF Keyed
  <2> HIDE DEF pris0, pubs0, sigs, n0, n
  <2> QED BY <2>1, <2>2
<1>2. sigs \in Seq((Key \X M) \cup {NoSig}) /\ Len(sigs) = n
  <2> DEFINE S == Key \X M
  <2> HIDE DEF S, n
  <2>1. Pad(<<>>, NoSig, n) \in Seq(S \cup {NoSig}) /\ Len(Pad(<<>>, NoSig, n)) = n
    BY <1>0, PadNone
  <2> QED BY <2>1 DEF S
<1>3. keys \in Seq(Key \cup {NoKey})
  OBVIOUS
<1>4. \A j \in 1..n : keys[j] # NoKey
  BY AccountAssumption
<1> HIDE DEF sigs
<1>5. b \in AccountsOver(M)
  <2> HIDE DEF n
  <2> QED BY <1>0, <1>2, <1>3 DEF AccountsOver, n
<1>6. b.num = n /\ b.less = less /\ b.arb = arb /\ b.pubs = keys /\ b.pris = keys
  OBVIOUS
<1> HIDE DEF b
<1>7. Count(b.pubs, NoKey) = n
  <2>1. {i \in DOMAIN keys : keys[i] # NoKey} = 1..n
    BY <1>4
  <2> HIDE DEF n
  <2>2. Cardinality(1..n) = n
    BY <1>0, Interval
  <2> QED BY <2>1, <2>2, <1>6 DEF Count
<1>8. Check(b)
  BY <1>0, <1>6 DEF Check, UseArb
<1> QED BY <1>1, <1>5, <1>6, <1>7, <1>8 DEF CheckWithPubs, CheckPrisPubs, ArbKept, b, sigs

(* The accounts of kind "wire". *)
Wired ==
    kind = "wire" =>
        /\ in \in AccountsOver({m, x})
        /\ CheckWithPubs(in) /\ CheckPrisPubs(in) /\ ArbKept(in)
        /\ in.num = 3

LEMMA WiredBegins == MCInit => Wired
<1> SUFFICES ASSUME MCInit, kind = "wire"
             PROVE  /\ in \in AccountsOver({m, x})
                    /\ CheckWithPubs(in) /\ CheckPrisPubs(in) /\ ArbKept(in)
                    /\ in.num = 3
  BY DEF Wired
<1> DEFINE keys == <<k1, k2, k3>>
<1>1. PICK less \in 1..3, arb \in {NoArb, 2} : in = Keyed(keys, less, arb)
  BY DEF MCInit, Starts
<1>2. keys \in Seq(Key) /\ Len(keys) = 3
  BY MCAlgorithmsAssumption
<1> HIDE DEF keys
<1>3. /\ Len(keys) \in 1..MaxKeys /\ less \in 1..Len(keys) /\ arb \in {NoArb, Len(keys) - 1}
      /\ arb # NoArb => Len(keys) >= 2
  BY <1>2, AccountAssumption, MCAlgorithmsAssumption
<1>4. /\ in \in AccountsOver({m, x})
      /\ CheckWithPubs(in) /\ CheckPrisPubs(in) /\ ArbKept(in)
  BY <1>1, <1>2, <1>3, KeyedFields
<1>5. in.num = 3
  <2> DEFINE sigs == Pad(<<>>, NoSig, Len(keys))
  <2>1. in = [num |-> Len(keys), less |-> less, arb |-> arb, pris |-> keys, pubs |-> keys,
              sigs |-> sigs]
    BY <1>1, <1>2, <1>3, KeyedFields
  <2> HIDE DEF sigs
  <2> QED BY <2>1, <1>2
<1> QED BY <1>4, <1>5

LEMMA MakesAccount ==
    ASSUME NEW M, NEW num \in 0..255, NEW less \in 0..255, NEW arb \in 0..255,
           NEW pris \in Seq(Key \cup {NoKey}), NEW pubs \in Seq(Key \cup {NoKey}), NEW R,
           R = (Key \X M) \cup {NoSig}, NEW sigs \in Seq(R),
           Len(pris) = num, Len(pubs) = num, Len(sigs) = num
    PROVE  [num |-> num, less |-> less, arb |-> arb, pris |-> pris, pubs |-> pubs, sigs |-> sigs]
              \in AccountsOver(M)
BY DEF AccountsOver

LEMMA OneSignature ==
    ASSUME NEW M, NEW a \in AccountsOver(M), CheckWithPubs(a), CheckPrisPubs(a), ArbKept(a),
           NEW i \in 1..a.num, NEW k \in Key, NEW msg1 \in M, NEW b,
           b = [a EXCEPT !.sigs[i] = <<k, msg1>>]
    PROVE  /\ b \in AccountsOver(M) /\ b.num = a.num
           /\ CheckWithPubs(b) /\ CheckPrisPubs(b) /\ ArbKept(b)
<1> DEFINE R == (Key \X M) \cup {NoSig}
           sigs == [a.sigs EXCEPT ![i] = <<k, msg1>>]
<1>1. a = [num |-> a.num, less |-> a.less, arb |-> a.arb, pris |-> a.pris,
           pubs |-> a.pubs, sigs |-> a.sigs]
  BY DEF AccountsOver
<1>2. /\ a.sigs \in Seq(R) /\ Len(a.sigs) = a.num /\ <<k, msg1>> \in R
  BY DEF AccountsOver
<1>3. sigs \in Seq(R) /\ Len(sigs) = a.num
  <2> DEFINE s == a.sigs
             e == <<k, msg1>>
  <2>1. s \in Seq(R) /\ Len(s) = a.num /\ e \in R /\ i \in 1..a.num
    BY <1>2
  <2> HIDE DEF R, e, s
  <2>2. [s EXCEPT ![i] = e] \in Seq(R) /\ Len([s EXCEPT ![i] = e]) = Len(s)
    BY <2>1
  <2> QED BY <2>1, <2>2 DEF s, e
<1>4. b = [a EXCEPT !.sigs = sigs]
  OBVIOUS
<1> HIDE DEF sigs
<1>5. b = [num |-> a.num, less |-> a.less, arb |-> a.arb, pris |-> a.pris,
           pubs |-> a.pubs, sigs |-> sigs]
  BY <1>1, <1>4
<1>8. /\ a.num \in 0..255 /\ a.less \in 0..255 /\ a.arb \in 0..255
      /\ a.pris \in Seq(Key \cup {NoKey}) /\ a.pubs \in Seq(Key \cup {NoKey})
      /\ Len(a.pris) = a.num /\ Len(a.pubs) = a.num
  BY DEF AccountsOver
<1> HIDE DEF R
<1>6. b \in AccountsOver(M)
  <2>1. R = (Key \X M) \cup {NoSig}
    BY DEF R
  <2>2. [num |-> a.num, less |-> a.less, arb |-> a.arb, pris |-> a.pris, pubs |-> a.pubs,
         sigs |-> sigs] \in AccountsOver(M)
    BY <1>3, <1>8, <2>1, MakesAccount
  <2> QED BY <1>5, <2>2
<1>7. /\ b.num = a.num /\ b.less = a.less /\ b.arb = a.arb /\ b.pubs = a.pubs /\ b.pris = a.pris
  BY <1>5
<1> QED BY <1>6, <1>7 DEF CheckWithPubs, Check, UseArb, CheckPrisPubs, ArbKept

LEMMA WiredKeeps == Wired /\ [MCNext]_mvars => Wired'
<1> SUFFICES ASSUME Wired, [MCNext]_mvars PROVE Wired'
  OBVIOUS
<1>1. CASE GrowSigs
  <2>1. /\ in \in AccountsOver({m, x}) /\ CheckWithPubs(in) /\ CheckPrisPubs(in) /\ ArbKept(in)
        /\ in.num = 3
    BY <1>1 DEF GrowSigs, Of, Wired
  <2>2. PICK i \in 1..3 :
           \/ CanSign(in, i) /\ \E msg1 \in {m, x} : in' = Signed(in, i, msg1)
           \/ \E k \in {k1, k2, k3} : in' = [in EXCEPT !.sigs[i] = <<k, m>>]
    BY <1>1 DEF GrowSigs
  <2>3. \E k \in Key, msg1 \in {m, x} : in' = [in EXCEPT !.sigs[i] = <<k, msg1>>]
    <3>1. CASE CanSign(in, i) /\ \E msg1 \in {m, x} : in' = Signed(in, i, msg1)
      <4>1. PICK msg1 \in {m, x} : in' = [in EXCEPT !.sigs[i] = <<in.pris[i], msg1>>]
        BY <3>1 DEF Signed
      <4>2. in.pris[i] \in Key
        <5>1. in.pubs \in [1..in.num -> Key]
          BY <2>1, Shape DEF Shaped
        <5> QED BY <5>1, <2>1 DEF CheckPrisPubs
      <4> QED BY <4>1, <4>2
    <3>2. CASE \E k \in {k1, k2, k3} : in' = [in EXCEPT !.sigs[i] = <<k, m>>]
      BY <3>2, MCAlgorithmsAssumption
    <3> QED BY <2>2, <3>1, <3>2
  <2>4. PICK k \in Key, msg1 \in {m, x} : in' = [in EXCEPT !.sigs[i] = <<k, msg1>>]
    BY <2>3
  <2>5. i \in 1..in.num
    BY <2>1
  <2>6. /\ in' \in AccountsOver({m, x}) /\ in'.num = in.num
        /\ CheckWithPubs(in') /\ CheckPrisPubs(in') /\ ArbKept(in')
    BY <2>1, <2>4, <2>5, OneSignature
  <2> QED BY <2>1, <2>6 DEF Wired
<1>2. CASE \/ GrowLeaves \/ GrowTarget \/ GrowBatch \/ GrowScript
           \/ SignInput \/ ChangeTx \/ GrowCoins \/ GrowOuts \/ GrowPool
  <2>1. kind' # "wire"
    BY <1>2 DEF GrowLeaves, GrowTarget, GrowBatch, GrowScript, SignInput, ChangeTx, GrowCoins,
                GrowOuts, GrowPool, Of
  <2> QED BY <2>1 DEF Wired
<1>3. CASE UNCHANGED mvars
  BY <1>3 DEF mvars, Wired
<1> QED BY <1>1, <1>2, <1>3 DEF MCNext

(* Wherever its signatures lie, an account keeps its address and its verdict *)
(* through bytes; saved with its keys and loaded, it can sign, and what it   *)
(* signs is accepted (into_bytes, from_bytes, encode_to_writer,              *)
(* decode_from_reader, verify_full).                                         *)
THEOREM WireAlwaysKeepsVerdict == MCSpec => []WireKeepsVerdict
<1>1. MCSpec => []Wired
  BY WiredBegins, WiredKeeps, PTL DEF MCSpec
<1>2. Wired => WireKeepsVerdict
  <2> SUFFICES ASSUME Wired, kind = "wire" PROVE WireKeepsVerdict
    BY DEF WireKeepsVerdict
  <2> DEFINE M == {m, x}
  <2>1. /\ in \in AccountsOver(M) /\ CheckWithPubs(in) /\ CheckPrisPubs(in) /\ ArbKept(in)
    BY DEF Wired
  <2>2. NoSig \notin Key \X M /\ NoSig \notin Key \X {m}
    BY AccountAssumption, MCAlgorithmsAssumption DEF Sig
  <2> HIDE DEF M
  <2>3. /\ CanUnpack(Pack(in)) /\ Identity(Unpack(Pack(in))) = Identity(in)
        /\ VerifyFull(Unpack(Pack(in)), m) <=> VerifyFull(in, m)
    BY <2>1, <2>2, BytesKeepVerdict
  <2> DEFINE b == Loaded(in)
  <2>4. /\ CanLoad(in) /\ Identity(b) = Identity(in) /\ b \in AccountsOver(M)
        /\ CheckWithPubs(b) /\ CheckPrisPubs(b) /\ ArbKept(b)
    BY <2>1, LoadedFields
  <2> HIDE DEF b
  <2>5. CanSignFull(b) /\ VerifyFull(Wire(SignedFull(b, m)), m)
    BY <2>2, <2>4, SignedPasses
  <2> QED BY <2>3, <2>4, <2>5 DEF WireKeepsVerdict, Wire, b
<1> QED BY <1>1, <1>2, PTL

-----------------------------------------------------------------------------
(* Signing a transaction input by input, and changing it afterwards. *)

(* Of the transaction the model signs: its coins, what its inputs sign, and *)
(* what the accounts of any transaction made of it may carry.               *)
CoinsOf  == {Spendable[p] : p \in DOMAIN Spendable}
Acc(i)   == IF i = 1 THEN AccA ELSE AccB
CoinOf(i) == Spendable[<<Base.ins[i].out, 0>>]
MsgOfIn(i) == SignBytes(Base, i, CoinOf(i))

TxInput ==
    [out : {"x", "y", "z"}, idx : {0}, acc : AccountsOver(SignedOf(Base, CoinsOf)), seq : {0, 1}]

LEMMA AccFields ==
    ASSUME NEW M, NEW i \in {1, 2}
    PROVE  /\ Acc(i) \in AccountsOver(M)
           /\ CheckWithPubs(Acc(i)) /\ CheckPrisPubs(Acc(i)) /\ ArbKept(Acc(i))
           /\ Acc(i).num = 3 - i
<1>1. CASE i = 1
  <2> DEFINE keys == <<k1, k2>>
  <2>1. keys \in Seq(Key) /\ Len(keys) = 2
    BY MCAlgorithmsAssumption
  <2>2. Acc(i) = Keyed(keys, 2, NoArb)
    BY <1>1 DEF Acc, AccA
  <2> HIDE DEF keys
  <2>3. /\ Len(keys) \in 1..MaxKeys /\ 2 \in 1..Len(keys) /\ NoArb \in {NoArb, Len(keys) - 1}
        /\ NoArb # NoArb => Len(keys) >= 2
    BY <2>1, AccountAssumption, MCAlgorithmsAssumption
  <2> DEFINE sigs == Pad(<<>>, NoSig, Len(keys))
  <2>4. Keyed(keys, 2, NoArb) =
           [num |-> Len(keys), less |-> 2, arb |-> NoArb, pris |-> keys, pubs |-> keys,
            sigs |-> sigs]
    BY <2>1, <2>3, KeyedFields
  <2>5. /\ Keyed(keys, 2, NoArb) \in AccountsOver(M)
        /\ CheckWithPubs(Keyed(keys, 2, NoArb)) /\ CheckPrisPubs(Keyed(keys, 2, NoArb))
        /\ ArbKept(Keyed(keys, 2, NoArb))
    BY <2>1, <2>3, KeyedFields
  <2> HIDE DEF sigs
  <2>6. Keyed(keys, 2, NoArb).num = 2
    BY <2>1, <2>4
  <2> QED BY <1>1, <2>2, <2>5, <2>6
<1>2. CASE i = 2
  <2> DEFINE keys == <<k3>>
  <2>1. keys \in Seq(Key) /\ Len(keys) = 1
    BY MCAlgorithmsAssumption
  <2>2. Acc(i) = Keyed(keys, 1, NoArb)
    BY <1>2 DEF Acc, AccB
  <2> HIDE DEF keys
  <2>3. /\ Len(keys) \in 1..MaxKeys /\ 1 \in 1..Len(keys) /\ NoArb \in {NoArb, Len(keys) - 1}
        /\ NoArb # NoArb => Len(keys) >= 2
    BY <2>1, AccountAssumption, MCAlgorithmsAssumption
  <2> DEFINE sigs == Pad(<<>>, NoSig, Len(keys))
  <2>4. Keyed(keys, 1, NoArb) =
           [num |-> Len(keys), less |-> 1, arb |-> NoArb, pris |-> keys, pubs |-> keys,
            sigs |-> sigs]
    BY <2>1, <2>3, KeyedFields
  <2>5. /\ Keyed(keys, 1, NoArb) \in AccountsOver(M)
        /\ CheckWithPubs(Keyed(keys, 1, NoArb)) /\ CheckPrisPubs(Keyed(keys, 1, NoArb))
        /\ ArbKept(Keyed(keys, 1, NoArb))
    BY <2>1, <2>3, KeyedFields
  <2> HIDE DEF sigs
  <2>6. Keyed(keys, 1, NoArb).num = 1
    BY <2>1, <2>4
  <2> QED BY <1>2, <2>2, <2>5, <2>6
<1> QED BY <1>1, <1>2

LEMMA BaseFields ==
    /\ DOMAIN Base.ins = {1, 2} /\ Base.ins \in Seq(TxInput) /\ Base.ins # <<>>
    /\ Base = [ver |-> Base.ver, ins |-> Base.ins, outs |-> Base.outs]
    /\ \A i \in {1, 2} :
          /\ Base.ins[i] = [out |-> Base.ins[i].out, idx |-> 0, acc |-> Wire(Acc(i)), seq |-> 0]
          /\ Wire(Acc(i)) \in AccountsOver({})
          /\ Identity(Wire(Acc(i))) = Identity(Acc(i))
          /\ CoinOf(i) \in CoinsOf /\ CoinOf(i).addr = Identity(Acc(i))
          /\ \A k \in Key : NoSig # <<k, MsgOfIn(i)>>
    /\ Base.ins[1].out = "x" /\ Base.ins[2].out = "y"
    /\ Identity(Acc(1)) # Identity(Acc(2))
<1> DEFINE a == Wire(AccA)
           b == Wire(AccB)
           ins == <<[out |-> "x", idx |-> 0, acc |-> a, seq |-> 0],
                    [out |-> "y", idx |-> 0, acc |-> b, seq |-> 0]>>
           outs == <<[value |-> 4, addr |-> "b"], [value |-> 4, addr |-> "c"]>>
           N == SignedOf(Base, CoinsOf)
<1>1. Base = [ver |-> 1, ins |-> ins, outs |-> outs]
  BY DEF Base, Unsigned, InScript, Wire
<1> HIDE DEF outs
<1>2. \A i \in {1, 2} :
         Wire(Acc(i)) \in AccountsOver({}) /\ Identity(Wire(Acc(i))) = Identity(Acc(i))
  <2> TAKE i \in {1, 2}
  <2>1. Acc(i) \in AccountsOver({}) /\ CheckWithPubs(Acc(i)) /\ ArbKept(Acc(i))
    BY AccFields
  <2> QED BY <2>1, WireFields
<1>3. \A i \in {1, 2} : Wire(Acc(i)) \in AccountsOver(N)
  <2> HIDE DEF N
  <2> QED BY <1>2, OverMore
<1>4. a = Wire(Acc(1)) /\ b = Wire(Acc(2))
  BY DEF Acc
<1> HIDE DEF a, b
<1>5. Base.ins = ins /\ Base.ver = 1 /\ Base.outs = outs
  BY <1>1
<1>6. DOMAIN ins = {1, 2} /\ ins # <<>> /\ Len(ins) = 2
  OBVIOUS
<1>7. ins \in Seq(TxInput)
  <2> DEFINE S == AccountsOver(N)
  <2>1. a \in S /\ b \in S
    BY <1>3, <1>4
  <2> HIDE DEF S
  <2>2. ins \in Seq([out : {"x", "y", "z"}, idx : {0}, acc : S, seq : {0, 1}])
    BY <2>1
  <2> QED BY <2>2 DEF TxInput, S
<1>8. ins[1].out = "x" /\ ins[2].out = "y"
  OBVIOUS
<1>9. \A i \in {1, 2} : /\ ins[i] = [out |-> ins[i].out, idx |-> 0, acc |-> Wire(Acc(i)), seq |-> 0]
  BY <1>4
<1> HIDE DEF ins
<1>10. \A i \in {1, 2} : <<Base.ins[i].out, 0>> \in DOMAIN Spendable
  BY <1>5, <1>8 DEF Spendable
<1>11. \A i \in {1, 2} : CoinOf(i) \in CoinsOf /\ \A k \in Key : NoSig # <<k, MsgOfIn(i)>>
  <2> TAKE i \in {1, 2}
  <2> DEFINE p == <<Base.ins[i].out, 0>>
  <2>1. p \in DOMAIN Spendable
    BY <1>10
  <2>2. i \in DOMAIN Base.ins
    BY <1>5, <1>6
  <2>3. \A k \in Key : NoSig # <<k, SignBytes(Base, i, Spendable[p])>>
    BY <2>1, <2>2, MCAlgorithmsAssumption
  <2> QED BY <2>1, <2>3 DEF CoinOf, CoinsOf, MsgOfIn
<1>12. \A i \in {1, 2} : CoinOf(i).addr = Identity(Acc(i))
  <2> DEFINE A == Identity(AccA)
             B == Identity(AccB)
  <2>1. Spendable = [p \in {"x", "y", "z"} \X {0} |->
                        IF p[1] = "y" THEN [value |-> 3, addr |-> B]
                        ELSE [value |-> 5, addr |-> A]]
    BY DEF Spendable
  <2> HIDE DEF A, B
  <2>2. Spendable[<<"x", 0>>].addr = A /\ Spendable[<<"y", 0>>].addr = B
    BY <2>1
  <2> QED BY <2>2, <1>5, <1>8 DEF CoinOf, Acc, A, B
<1>13. Identity(Acc(1)) # Identity(Acc(2))
  <2>1. Acc(1).num = 2 /\ Acc(2).num = 1
    BY AccFields
  <2> QED BY <2>1 DEF Identity
<1>14. Base = [ver |-> Base.ver, ins |-> Base.ins, outs |-> Base.outs]
  BY <1>1, <1>5
<1> QED BY <1>2, <1>5, <1>6, <1>7, <1>8, <1>9, <1>11, <1>12, <1>13, <1>14

(* Transactions made of the one the model signs. *)
TxShape(t) ==
    /\ t = [ver |-> t.ver, ins |-> t.ins, outs |-> t.outs]
    /\ t.ins \in Seq(TxInput) /\ t.ins # <<>>

(* Those it signed some inputs of, and changed nothing else. *)
SignedTx(t, signed) ==
    /\ signed \subseteq {1, 2}
    /\ t.ver = Base.ver /\ t.outs = Base.outs /\ DOMAIN t.ins = {1, 2}
    /\ \A i \in {1, 2} :
          /\ InSigned(t.ins[i]) = InSigned(Base.ins[i])
          /\ i \in signed => VerifyFull(t.ins[i].acc, MsgOfIn(i))
          /\ i \notin signed => t.ins[i].acc \in AccountsOver({})

Transacted ==
    kind = "tx" =>
        /\ in = [tx |-> in.tx, signed |-> in.signed, changed |-> in.changed]
        /\ TxShape(in.tx)
        /\ ~in.changed => SignedTx(in.tx, in.signed)

LEMMA TransactedBegins == MCInit => Transacted
<1> SUFFICES ASSUME MCInit, kind = "tx"
             PROVE  /\ in = [tx |-> in.tx, signed |-> in.signed, changed |-> in.changed]
                    /\ TxShape(in.tx)
                    /\ ~in.changed => SignedTx(in.tx, in.signed)
  BY DEF Transacted
<1> DEFINE b == Base
<1>1. in \in Starts("tx")
  BY DEF MCInit
<1>2. Starts("tx") = {[tx |-> b, signed |-> {}, changed |-> FALSE]}
  BY DEF Starts
<1> HIDE DEF b
<1>3. in = [tx |-> b, signed |-> {}, changed |-> FALSE]
  BY <1>1, <1>2
<1>4. TxShape(b)
  BY BaseFields DEF TxShape, b
<1>5. SignedTx(b, {})
  <2>1. \A i \in {1, 2} : b.ins[i].acc \in AccountsOver({})
    <3> TAKE i \in {1, 2}
    <3> DEFINE w == Wire(Acc(i))
    <3>1. b.ins[i] = [out |-> b.ins[i].out, idx |-> 0, acc |-> w, seq |-> 0] /\ w \in AccountsOver({})
      BY BaseFields DEF b
    <3> HIDE DEF w
    <3>2. b.ins[i].acc = w
      BY <3>1
    <3> QED BY <3>1, <3>2
  <2>2. DOMAIN b.ins = {1, 2}
    BY BaseFields DEF b
  <2> QED BY <2>1, <2>2 DEF SignedTx, b
<1> QED BY <1>3, <1>4, <1>5

(* What an input signs is what it signed first, whatever else is signed. *)
LEMMA SameBytes ==
    ASSUME NEW t, NEW signed, SignedTx(t, signed), NEW i \in {1, 2}
    PROVE  /\ t.ins[i].out = Base.ins[i].out /\ t.ins[i].idx = 0
           /\ Identity(t.ins[i].acc) = Identity(Acc(i)) /\ t.ins[i].seq = 0
           /\ SignBytes(t, i, CoinOf(i)) = MsgOfIn(i)
           /\ TxId(t) = TxId(Base)
<1>1. \A j \in {1, 2} : InSigned(t.ins[j]) = InSigned(Base.ins[j])
  BY DEF SignedTx
<1>2. DOMAIN t.ins = {1, 2} /\ DOMAIN Base.ins = {1, 2} /\ t.ver = Base.ver /\ t.outs = Base.outs
  BY BaseFields DEF SignedTx
<1>3. \A j \in {1, 2} : t.ins[j].out = Base.ins[j].out /\ t.ins[j].idx = Base.ins[j].idx
  BY <1>1 DEF InSigned
<1>4. CacheOf(t) = CacheOf(Base)
  BY <1>2, <1>3 DEF CacheOf
<1>5. SignBytes(t, i, CoinOf(i)) = MsgOfIn(i)
  BY <1>1, <1>4 DEF SignBytes, MsgOfIn
<1>6. TxId(t) = TxId(Base)
  <2>1. [j \in DOMAIN t.ins |-> InSigned(t.ins[j])] = [j \in DOMAIN Base.ins |-> InSigned(Base.ins[j])]
    BY <1>1, <1>2
  <2> QED BY <2>1, <1>2 DEF TxId
<1>7. /\ Base.ins[i].idx = 0 /\ Base.ins[i].seq = 0 /\ Base.ins[i].acc = Wire(Acc(i))
  <2> DEFINE w == Wire(Acc(i))
  <2>1. Base.ins[i] = [out |-> Base.ins[i].out, idx |-> 0, acc |-> w, seq |-> 0]
    BY BaseFields
  <2> HIDE DEF w
  <2>2. /\ Base.ins[i].idx = 0 /\ Base.ins[i].seq = 0 /\ Base.ins[i].acc = w
    BY <2>1
  <2> QED BY <2>2 DEF w
<1>8. Identity(Base.ins[i].acc) = Identity(Acc(i))
  BY <1>7, BaseFields
<1>9. /\ t.ins[i].out = Base.ins[i].out /\ t.ins[i].idx = Base.ins[i].idx
      /\ Identity(t.ins[i].acc) = Identity(Base.ins[i].acc) /\ t.ins[i].seq = Base.ins[i].seq
  BY <1>1 DEF InSigned
<1> QED BY <1>5, <1>6, <1>7, <1>8, <1>9

(* The signer finds the account of the input. *)
LEMMA Found ==
    ASSUME NEW i \in {1, 2}
    PROVE  (CHOOSE acc \in {AccA, AccB} : Identity(acc) = Identity(Acc(i))) = Acc(i)
<1> DEFINE c == CHOOSE acc \in {AccA, AccB} : Identity(acc) = Identity(Acc(i))
<1>1. Acc(1) = AccA /\ Acc(2) = AccB
  BY DEF Acc
<1>2. Acc(i) \in {AccA, AccB}
  BY <1>1
<1>3. c \in {AccA, AccB} /\ Identity(c) = Identity(Acc(i))
  BY <1>2
<1> HIDE DEF c
<1>4. Identity(AccA) # Identity(AccB)
  BY <1>1, BaseFields
<1>5. c = Acc(i)
  BY <1>1, <1>3, <1>4
<1> QED BY <1>5 DEF c

LEMMA SignsInput ==
    ASSUME Transacted, SignInput, kind = "tx"
    PROVE  Transacted'
<1>1. PICK i \in DOMAIN in.tx.ins \ in.signed :
         in' = [in EXCEPT !.signed = @ \cup {i},
                          !.tx = SignedIn(@, i, {AccA, AccB}, Spendable[<<@.ins[i].out, 0>>])]
  BY DEF SignInput
<1> DEFINE t  == in.tx
           S  == in.signed
           a  == Acc(i)
           w  == Wire(SignedFull(a, MsgOfIn(i)))
           t1 == [t EXCEPT !.ins[i].acc = w]
<1>2. /\ in = [tx |-> t, signed |-> S, changed |-> FALSE]
      /\ TxShape(t) /\ SignedTx(t, S)
  <2>1. ~in.changed
    BY DEF SignInput
  <2>2. in = [tx |-> t, signed |-> S, changed |-> in.changed] /\ TxShape(t) /\ SignedTx(t, S)
    BY <2>1 DEF Transacted
  <2>3. kind = "tx"
    OBVIOUS
  <2> QED BY <2>1, <2>2
<1>3. i \in {1, 2}
  BY <1>1, <1>2 DEF SignedTx
<1>4. /\ t.ins[i].out = Base.ins[i].out /\ t.ins[i].idx = 0
      /\ Identity(t.ins[i].acc) = Identity(a) /\ t.ins[i].seq = 0
      /\ SignBytes(t, i, CoinOf(i)) = MsgOfIn(i)
  BY <1>2, <1>3, SameBytes
<1>5. SignedIn(t, i, {AccA, AccB}, Spendable[<<t.ins[i].out, 0>>]) = t1
  <2>1. Spendable[<<t.ins[i].out, 0>>] = CoinOf(i)
    BY <1>4 DEF CoinOf
  <2>2. (CHOOSE acc \in {AccA, AccB} : Identity(acc) = Identity(t.ins[i].acc)) = a
    BY <1>3, <1>4, Found
  <2> QED BY <1>4, <2>1, <2>2 DEF SignedIn, InScript, Wire
<1>6. in' = [in EXCEPT !.signed = S \cup {i}, !.tx = t1]
  BY <1>1, <1>5
<1>7. /\ a \in AccountsOver({}) /\ CheckWithPubs(a) /\ CheckPrisPubs(a) /\ ArbKept(a)
  BY <1>3, AccFields
<1>8. /\ VerifyFull(w, MsgOfIn(i)) /\ w \in AccountsOver({MsgOfIn(i)}) /\ Identity(w) = Identity(a)
  <2> DEFINE msg1 == MsgOfIn(i)
  <2>1. NoSig \notin Key \X {msg1}
    BY <1>3, BaseFields
  <2> HIDE DEF msg1
  <2>2. /\ VerifyFull(Wire(SignedFull(a, msg1)), msg1)
        /\ Wire(SignedFull(a, msg1)) \in AccountsOver({msg1})
        /\ Identity(Wire(SignedFull(a, msg1))) = Identity(a)
    BY <1>7, <2>1, SignedPasses
  <2> QED BY <2>2 DEF msg1
<1>9. w \in AccountsOver(SignedOf(Base, CoinsOf))
  <2>1. MsgOfIn(i) \in SignedOf(Base, CoinsOf)
    BY <1>3, BaseFields DEF MsgOfIn, SignedOf
  <2>2. {MsgOfIn(i)} \subseteq SignedOf(Base, CoinsOf)
    BY <2>1
  <2> QED BY <1>8, <2>2, OverMore
<1> HIDE DEF w
<1> DEFINE ins1 == [t.ins EXCEPT ![i].acc = w]
           A == AccountsOver(SignedOf(Base, CoinsOf))
<1>10. /\ t.ins \in Seq(TxInput) /\ t.ins # <<>> /\ i \in DOMAIN t.ins
       /\ t = [ver |-> t.ver, ins |-> t.ins, outs |-> t.outs]
  BY <1>1, <1>2 DEF TxShape
<1>11. t1 = [ver |-> t.ver, ins |-> ins1, outs |-> t.outs]
  <2>1. t1 = [t EXCEPT !.ins = ins1]
    OBVIOUS
  <2> HIDE DEF ins1, t, t1
  <2> QED BY <2>1, <1>10
<1>12. TxInput = [out : {"x", "y", "z"}, idx : {0}, acc : A, seq : {0, 1}]
  BY DEF TxInput
<1> HIDE DEF A
<1>13. /\ ins1 \in Seq(TxInput) /\ ins1 # <<>> /\ DOMAIN ins1 = DOMAIN t.ins
       /\ \A j \in DOMAIN t.ins : j # i => ins1[j] = t.ins[j]
       /\ ins1[i].acc = w /\ ins1[i].out = t.ins[i].out /\ ins1[i].idx = t.ins[i].idx
       /\ ins1[i].seq = t.ins[i].seq
  <2> DEFINE s == t.ins
  <2>1. s \in Seq(TxInput) /\ s # <<>> /\ i \in DOMAIN s
    BY <1>10
  <2> HIDE DEF s
  <2> DEFINE e == [s[i] EXCEPT !.acc = w]
  <2>2. s[i] \in [out : {"x", "y", "z"}, idx : {0}, acc : A, seq : {0, 1}]
    <3>1. s[i] \in TxInput
      BY <2>1
    <3> QED BY <3>1, <1>12
  <2>3. /\ e \in [out : {"x", "y", "z"}, idx : {0}, acc : A, seq : {0, 1}]
        /\ e.acc = w /\ e.out = s[i].out /\ e.idx = s[i].idx /\ e.seq = s[i].seq
    BY <2>2, <1>9 DEF A
  <2>4. ins1 = [s EXCEPT ![i] = e]
    BY DEF s
  <2> HIDE DEF e, ins1
  <2>5. e \in TxInput
    BY <2>3, <1>12
  <2>6. [s EXCEPT ![i] = e] \in Seq(TxInput) /\ [s EXCEPT ![i] = e] # <<>>
    BY <2>1, <2>5
  <2>7. /\ DOMAIN [s EXCEPT ![i] = e] = DOMAIN s
        /\ \A j \in DOMAIN s : j # i => [s EXCEPT ![i] = e][j] = s[j]
        /\ [s EXCEPT ![i] = e][i] = e
    BY <2>1
  <2> QED BY <2>3, <2>4, <2>6, <2>7 DEF s
<1> HIDE DEF ins1
<1>14. TxShape(t1)
  BY <1>11, <1>13 DEF TxShape
<1>15. SignedTx(t1, S \cup {i})
  <2>1. t1.ins = ins1 /\ t1.ver = t.ver /\ t1.outs = t.outs
    BY <1>11
  <2>2. /\ S \subseteq {1, 2} /\ t.ver = Base.ver /\ t.outs = Base.outs /\ DOMAIN t.ins = {1, 2}
        /\ \A j \in {1, 2} :
              /\ InSigned(t.ins[j]) = InSigned(Base.ins[j])
              /\ j \in S => VerifyFull(t.ins[j].acc, MsgOfIn(j))
              /\ j \notin S => t.ins[j].acc \in AccountsOver({})
    BY <1>2 DEF SignedTx
  <2>3. InSigned(ins1[i]) = InSigned(t.ins[i])
    BY <1>4, <1>8, <1>13 DEF InSigned
  <2> HIDE DEF t, t1, S
  <2>4. ASSUME NEW j \in {1, 2}
        PROVE  /\ InSigned(ins1[j]) = InSigned(Base.ins[j])
               /\ j \in S \cup {i} => VerifyFull(ins1[j].acc, MsgOfIn(j))
               /\ j \notin S \cup {i} => ins1[j].acc \in AccountsOver({})
    <3>1. CASE j = i
      <4>1. InSigned(ins1[j]) = InSigned(Base.ins[j])
        BY <2>2, <2>3, <3>1
      <4>2. VerifyFull(ins1[j].acc, MsgOfIn(j))
        BY <3>1, <1>13, <1>8
      <4> QED BY <4>1, <4>2, <3>1
    <3>2. CASE j # i
      <4>1. ins1[j] = t.ins[j]
        BY <3>2, <1>13, <2>2
      <4> QED BY <2>2, <4>1, <3>2
    <3> QED BY <3>1, <3>2
  <2>5. S \cup {i} \subseteq {1, 2}
    BY <2>2, <1>3
  <2> QED BY <2>1, <2>2, <2>4, <2>5, <1>13 DEF SignedTx
<1>16. /\ in' = [tx |-> t1, signed |-> S \cup {i}, changed |-> FALSE]
  <2> HIDE DEF t, t1, S
  <2> QED BY <1>2, <1>6
<1> HIDE DEF t1, S
<1>17. in'.tx = t1 /\ in'.signed = S \cup {i} /\ in'.changed = FALSE
  BY <1>16
<1> QED BY <1>14, <1>15, <1>16, <1>17 DEF Transacted

LEMMA ChangesInput ==
    ASSUME NEW s \in Seq(TxInput), s # <<>>, NEW i \in DOMAIN s, NEW e \in TxInput
    PROVE  [s EXCEPT ![i] = e] \in Seq(TxInput) /\ [s EXCEPT ![i] = e] # <<>>
<1>1. [s EXCEPT ![i] = e] \in Seq(TxInput) /\ Len([s EXCEPT ![i] = e]) = Len(s) /\ Len(s) # 0
  OBVIOUS
<1> QED BY <1>1

LEMMA Reversed ==
    ASSUME NEW S, NEW s \in Seq(S), s # <<>>
    PROVE  Reverse(s) \in Seq(S) /\ Reverse(s) # <<>>
<1> DEFINE r == [i \in 1..Len(s) |-> s[(Len(s) - i) + 1]]
<1>1. \A i \in 1..Len(s) : s[(Len(s) - i) + 1] \in S
  OBVIOUS
<1>2. r \in [1..Len(s) -> S] /\ Len(s) \in Nat /\ Len(s) # 0
  BY <1>1
<1> HIDE DEF r
<1>3. r \in Seq(S) /\ Len(r) # 0
  BY <1>2
<1>4. Reverse(s) = r
  BY DEF Reverse, r
<1> QED BY <1>3, <1>4

LEMMA ChangesTx ==
    ASSUME Transacted, ChangeTx
    PROVE  Transacted'
<1> DEFINE t  == in.tx
           s  == t.ins
           t1 == in'.tx
<1>1. /\ in = [tx |-> t, signed |-> in.signed, changed |-> in.changed]
      /\ TxShape(t)
  BY DEF ChangeTx, Of, Transacted
<1>2. t = [ver |-> t.ver, ins |-> s, outs |-> t.outs] /\ s \in Seq(TxInput) /\ s # <<>>
  BY <1>1 DEF TxShape
<1> DEFINE ver1   == 3 - t.ver
           first  == SubSeq(s, 1, 1)
           back   == Reverse(s)
           outs1  == [t.outs EXCEPT ![1].value = 9 - @]
           outs2  == Reverse(t.outs)
           Seqd(i)   == [s EXCEPT ![i].seq = 1 - @]
           Put(i, o) == [s EXCEPT ![i].out = o]
<1>3. \/ in' = [in EXCEPT !.changed = TRUE, !.tx = [t EXCEPT !.ver = ver1]]
      \/ \E i \in DOMAIN s : in' = [in EXCEPT !.changed = TRUE, !.tx = [t EXCEPT !.ins = Seqd(i)]]
      \/ \E i \in DOMAIN s, o \in {"x", "y", "z"} :
            in' = [in EXCEPT !.changed = TRUE, !.tx = [t EXCEPT !.ins = Put(i, o)]]
      \/ in' = [in EXCEPT !.changed = TRUE, !.tx = [t EXCEPT !.ins = first]]
      \/ in' = [in EXCEPT !.changed = TRUE, !.tx = [t EXCEPT !.ins = back]]
      \/ in' = [in EXCEPT !.changed = TRUE, !.tx = [t EXCEPT !.outs = outs1]]
      \/ in' = [in EXCEPT !.changed = TRUE, !.tx = [t EXCEPT !.outs = outs2]]
  <2>1. \/ in' = [in EXCEPT !.changed = TRUE, !.tx.ver = 3 - @]
        \/ \E i \in DOMAIN s :
              \/ in' = [in EXCEPT !.changed = TRUE, !.tx.ins[i].seq = 1 - @]
              \/ \E o \in {"x", "y", "z"} : in' = [in EXCEPT !.changed = TRUE, !.tx.ins[i].out = o]
        \/ in' = [in EXCEPT !.changed = TRUE, !.tx.ins = SubSeq(@, 1, 1)]
        \/ in' = [in EXCEPT !.changed = TRUE, !.tx.ins = Reverse(@)]
        \/ in' = [in EXCEPT !.changed = TRUE, !.tx.outs[1].value = 9 - @]
        \/ in' = [in EXCEPT !.changed = TRUE, !.tx.outs = Reverse(@)]
    BY DEF ChangeTx
  <2>2. [in EXCEPT !.changed = TRUE, !.tx.ver = 3 - @]
           = [in EXCEPT !.changed = TRUE, !.tx = [t EXCEPT !.ver = ver1]]
    BY <1>1
  <2>3. \A i \in DOMAIN s :
           [in EXCEPT !.changed = TRUE, !.tx.ins[i].seq = 1 - @]
              = [in EXCEPT !.changed = TRUE, !.tx = [t EXCEPT !.ins = Seqd(i)]]
    BY <1>1
  <2>4. \A i \in DOMAIN s, o \in {"x", "y", "z"} :
           [in EXCEPT !.changed = TRUE, !.tx.ins[i].out = o]
              = [in EXCEPT !.changed = TRUE, !.tx = [t EXCEPT !.ins = Put(i, o)]]
    BY <1>1
  <2>5. [in EXCEPT !.changed = TRUE, !.tx.ins = SubSeq(@, 1, 1)]
           = [in EXCEPT !.changed = TRUE, !.tx = [t EXCEPT !.ins = first]]
    BY <1>1
  <2>6. [in EXCEPT !.changed = TRUE, !.tx.ins = Reverse(@)]
           = [in EXCEPT !.changed = TRUE, !.tx = [t EXCEPT !.ins = back]]
    BY <1>1
  <2>7. [in EXCEPT !.changed = TRUE, !.tx.outs[1].value = 9 - @]
           = [in EXCEPT !.changed = TRUE, !.tx = [t EXCEPT !.outs = outs1]]
    BY <1>1
  <2>8. [in EXCEPT !.changed = TRUE, !.tx.outs = Reverse(@)]
           = [in EXCEPT !.changed = TRUE, !.tx = [t EXCEPT !.outs = outs2]]
    BY <1>1
  <2>9. CASE in' = [in EXCEPT !.changed = TRUE, !.tx.ver = 3 - @]
    BY <2>9, <2>2
  <2>10. CASE \E i \in DOMAIN s :
                 \/ in' = [in EXCEPT !.changed = TRUE, !.tx.ins[i].seq = 1 - @]
                 \/ \E o \in {"x", "y", "z"} :
                       in' = [in EXCEPT !.changed = TRUE, !.tx.ins[i].out = o]
    <3>1. PICK i \in DOMAIN s :
             \/ in' = [in EXCEPT !.changed = TRUE, !.tx.ins[i].seq = 1 - @]
             \/ \E o \in {"x", "y", "z"} : in' = [in EXCEPT !.changed = TRUE, !.tx.ins[i].out = o]
      BY <2>10
    <3>2. CASE in' = [in EXCEPT !.changed = TRUE, !.tx.ins[i].seq = 1 - @]
      <4>1. in' = [in EXCEPT !.changed = TRUE, !.tx = [t EXCEPT !.ins = Seqd(i)]]
        BY <3>2, <2>3
      <4> QED BY <4>1
    <3>3. CASE \E o \in {"x", "y", "z"} : in' = [in EXCEPT !.changed = TRUE, !.tx.ins[i].out = o]
      <4>1. PICK o \in {"x", "y", "z"} : in' = [in EXCEPT !.changed = TRUE, !.tx.ins[i].out = o]
        BY <3>3
      <4>2. in' = [in EXCEPT !.changed = TRUE, !.tx = [t EXCEPT !.ins = Put(i, o)]]
        BY <4>1, <2>4
      <4> QED BY <4>2
    <3> QED BY <3>1, <3>2, <3>3
  <2>11. CASE \/ in' = [in EXCEPT !.changed = TRUE, !.tx.ins = SubSeq(@, 1, 1)]
              \/ in' = [in EXCEPT !.changed = TRUE, !.tx.ins = Reverse(@)]
    BY <2>11, <2>5, <2>6
  <2>12. CASE \/ in' = [in EXCEPT !.changed = TRUE, !.tx.outs[1].value = 9 - @]
              \/ in' = [in EXCEPT !.changed = TRUE, !.tx.outs = Reverse(@)]
    BY <2>12, <2>7, <2>8
  <2> QED BY <2>1, <2>9, <2>10, <2>11, <2>12
<1>4. \A i \in DOMAIN s : Seqd(i) \in Seq(TxInput) /\ Seqd(i) # <<>>
  <2> TAKE i \in DOMAIN s
  <2> DEFINE A == AccountsOver(SignedOf(Base, CoinsOf))
             e == [s[i] EXCEPT !.seq = 1 - @]
  <2>1. TxInput = [out : {"x", "y", "z"}, idx : {0}, acc : A, seq : {0, 1}]
    BY DEF TxInput
  <2> HIDE DEF A
  <2>2. s[i] \in TxInput
    BY <1>2
  <2> HIDE DEF s
  <2>3. e \in TxInput
    BY <2>1, <2>2
  <2>4. Seqd(i) = [s EXCEPT ![i] = e]
    OBVIOUS
  <2> HIDE DEF e, Seqd
  <2> QED BY <1>2, <2>3, <2>4, ChangesInput
<1>5. \A i \in DOMAIN s, o \in {"x", "y", "z"} : Put(i, o) \in Seq(TxInput) /\ Put(i, o) # <<>>
  <2> TAKE i \in DOMAIN s, o \in {"x", "y", "z"}
  <2> DEFINE A == AccountsOver(SignedOf(Base, CoinsOf))
             e == [s[i] EXCEPT !.out = o]
  <2>1. TxInput = [out : {"x", "y", "z"}, idx : {0}, acc : A, seq : {0, 1}]
    BY DEF TxInput
  <2> HIDE DEF A
  <2>2. s[i] \in TxInput
    BY <1>2
  <2> HIDE DEF s
  <2>3. e \in TxInput
    BY <2>1, <2>2
  <2>4. Put(i, o) = [s EXCEPT ![i] = e]
    OBVIOUS
  <2> HIDE DEF e, Put
  <2> QED BY <1>2, <2>3, <2>4, ChangesInput
<1>6. first \in Seq(TxInput) /\ first # <<>>
  <2> HIDE DEF s
  <2>1. Len(s) >= 1 /\ first \in Seq(TxInput) /\ Len(first) = 1
    BY <1>2
  <2> HIDE DEF first
  <2> QED BY <2>1
<1>7. back \in Seq(TxInput) /\ back # <<>>
  BY <1>2, Reversed
<1> HIDE DEF ver1, first, back, outs1, outs2, Seqd, Put, s
<1>8. \E ver2, ins2, outs2b :
         /\ in' = [in EXCEPT !.changed = TRUE, !.tx = [ver |-> ver2, ins |-> ins2, outs |-> outs2b]]
         /\ ins2 \in Seq(TxInput) /\ ins2 # <<>>
  <2> HIDE DEF t
  <2>1. CASE in' = [in EXCEPT !.changed = TRUE, !.tx = [t EXCEPT !.ver = ver1]]
    <3>1. [t EXCEPT !.ver = ver1] = [ver |-> ver1, ins |-> s, outs |-> t.outs]
      BY <1>2
    <3> QED BY <2>1, <3>1, <1>2
  <2>2. ASSUME NEW ins2, ins2 \in Seq(TxInput), ins2 # <<>>,
               in' = [in EXCEPT !.changed = TRUE, !.tx = [t EXCEPT !.ins = ins2]]
        PROVE  \E ver2, ins3, outs2b :
                  /\ in' = [in EXCEPT !.changed = TRUE,
                                      !.tx = [ver |-> ver2, ins |-> ins3, outs |-> outs2b]]
                  /\ ins3 \in Seq(TxInput) /\ ins3 # <<>>
    <3>1. [t EXCEPT !.ins = ins2] = [ver |-> t.ver, ins |-> ins2, outs |-> t.outs]
      BY <1>2
    <3> QED BY <2>2, <3>1
  <2>3. ASSUME NEW outs3, in' = [in EXCEPT !.changed = TRUE, !.tx = [t EXCEPT !.outs = outs3]]
        PROVE  \E ver2, ins3, outs2b :
                  /\ in' = [in EXCEPT !.changed = TRUE,
                                      !.tx = [ver |-> ver2, ins |-> ins3, outs |-> outs2b]]
                  /\ ins3 \in Seq(TxInput) /\ ins3 # <<>>
    <3>1. [t EXCEPT !.outs = outs3] = [ver |-> t.ver, ins |-> s, outs |-> outs3]
      BY <1>2
    <3> QED BY <2>3, <3>1, <1>2
  <2> QED BY <1>3, <1>4, <1>5, <1>6, <1>7, <2>1, <2>2, <2>3
<1>9. PICK ver2, ins2, outs2b :
         /\ in' = [in EXCEPT !.changed = TRUE, !.tx = [ver |-> ver2, ins |-> ins2, outs |-> outs2b]]
         /\ ins2 \in Seq(TxInput) /\ ins2 # <<>>
  BY <1>8
<1> DEFINE t2 == [ver |-> ver2, ins |-> ins2, outs |-> outs2b]
<1>10. TxShape(t2)
  BY <1>9 DEF TxShape
<1> HIDE DEF t2, t
<1>11. in' = [tx |-> t2, signed |-> in.signed, changed |-> TRUE]
  BY <1>1, <1>9 DEF t2
<1>12. in'.tx = t2 /\ in'.changed = TRUE /\ in' = [tx |-> t2, signed |-> in'.signed, changed |-> TRUE]
  BY <1>11
<1> QED BY <1>10, <1>12 DEF Transacted

LEMMA TransactedKeeps == Transacted /\ [MCNext]_mvars => Transacted'
<1> SUFFICES ASSUME Transacted, [MCNext]_mvars PROVE Transacted'
  OBVIOUS
<1>1. CASE SignInput
  <2>1. kind = "tx"
    BY <1>1 DEF SignInput, Of
  <2> QED BY <1>1, <2>1, SignsInput
<1>2. CASE ChangeTx
  BY <1>2, ChangesTx
<1>3. CASE \/ GrowLeaves \/ GrowTarget \/ GrowBatch \/ GrowScript
           \/ GrowSigs \/ GrowCoins \/ GrowOuts \/ GrowPool
  <2>1. kind' # "tx"
    BY <1>3 DEF GrowLeaves, GrowTarget, GrowBatch, GrowScript, GrowSigs, GrowCoins,
                GrowOuts, GrowPool, Of
  <2> QED BY <2>1 DEF Transacted
<1>4. CASE UNCHANGED mvars
  BY <1>4 DEF mvars, Transacted
<1> QED BY <1>1, <1>2, <1>3, <1>4 DEF MCNext

(* The signatures made for one transaction let no other pass: not with      *)
(* another version, sequence or spent output, fewer inputs, other inputs or *)
(* outputs or the same ones in another order (get_sign_bytes,               *)
(* LinkExectorCache, check_tx_sign).                                        *)
THEOREM SignaturesCommit == MCSpec => []SignatureCommits
<1>1. MCSpec => []Transacted
  BY TransactedBegins, TransactedKeeps, PTL DEF MCSpec
<1>2. Transacted => SignatureCommits
  <2> SUFFICES ASSUME Transacted, kind = "tx", CheckTxSign(in.tx, Spendable)
               PROVE  TxId(in.tx) = TxId(Base)
    BY DEF SignatureCommits
  <2> DEFINE t  == in.tx
             c  == Spendable
             Outs == CoinsOf
             t0 == Base
  <2>1. t.ins \in Seq(TxInput) /\ t.ins # <<>>
    BY DEF Transacted, TxShape
  <2>2. DOMAIN t.ins # {}
    <3> DEFINE s == t.ins
    <3>1. s \in Seq(TxInput) /\ s # <<>>
      BY <2>1
    <3> HIDE DEF s
    <3>2. 1 \in DOMAIN s
      BY <3>1
    <3> QED BY <3>2 DEF s
  <2>3. \A i \in DOMAIN t.ins : t.ins[i].acc \in AccountsOver(SignedOf(t0, Outs))
    <3> TAKE i \in DOMAIN t.ins
    <3>1. t.ins[i] \in TxInput
      BY <2>1
    <3> QED BY <3>1 DEF TxInput
  <2>4. \A i \in DOMAIN t0.ins : \A j \in DOMAIN t0.ins :
           t0.ins[i].out = t0.ins[j].out /\ t0.ins[i].idx = t0.ins[j].idx => i = j
    BY BaseFields
  <2>5. CheckTxSign(t, c)
    OBVIOUS
  <2> HIDE DEF t, c, Outs, t0
  <2>6. TxId(t) = TxId(t0)
    BY <2>2, <2>3, <2>4, <2>5, SignaturesBind
  <2> QED BY <2>6 DEF t, t0
<1> QED BY <1>1, <1>2, PTL

(* In whatever order its inputs are signed, a transaction keeps its id, and *)
(* it passes exactly when the last of them is signed (sign_tx,              *)
(* FullSigner::get_sign_script, check_tx_sign).                             *)
THEOREM SigningAlwaysCommutes == MCSpec => []SigningCommutes
<1>1. MCSpec => []Transacted
  BY TransactedBegins, TransactedKeeps, PTL DEF MCSpec
<1>2. Transacted => SigningCommutes
  <2> SUFFICES ASSUME Transacted, kind = "tx", ~in.changed
               PROVE  /\ TxId(in.tx) = TxId(Base)
                      /\ CheckTxSign(in.tx, Spendable) <=> in.signed = DOMAIN in.tx.ins
    BY DEF SigningCommutes
  <2> DEFINE t == in.tx
             S == in.signed
  <2>1. SignedTx(t, S)
    BY DEF Transacted
  <2> HIDE DEF t, S
  <2>2. DOMAIN t.ins = {1, 2} /\ S \subseteq {1, 2}
    BY <2>1 DEF SignedTx
  <2>3. TxId(t) = TxId(Base)
    <3>1. 1 \in {1, 2}
      OBVIOUS
    <3> QED BY <3>1, <2>1, SameBytes
  <2>4. ASSUME NEW i \in {1, 2}
        PROVE  /\ Spendable[<<t.ins[i].out, t.ins[i].idx>>] = CoinOf(i)
               /\ Identity(t.ins[i].acc) = CoinOf(i).addr
               /\ VerifyFull(t.ins[i].acc, SignBytes(t, i, CoinOf(i))) <=> i \in S
    <3>1. /\ t.ins[i].out = Base.ins[i].out /\ t.ins[i].idx = 0
          /\ Identity(t.ins[i].acc) = Identity(Acc(i))
          /\ SignBytes(t, i, CoinOf(i)) = MsgOfIn(i)
      BY <2>1, SameBytes
    <3>2. /\ i \in S => VerifyFull(t.ins[i].acc, MsgOfIn(i))
          /\ i \notin S => t.ins[i].acc \in AccountsOver({})
      BY <2>1 DEF SignedTx
    <3>3. ASSUME t.ins[i].acc \in AccountsOver({}), VerifyFull(t.ins[i].acc, MsgOfIn(i))
          PROVE  FALSE
      <4>1. MsgOfIn(i) \in {}
        BY <3>3, VerifiedMessage
      <4> QED BY <4>1
    <3>4. CoinOf(i).addr = Identity(Acc(i))
      BY BaseFields
    <3>5. Spendable[<<t.ins[i].out, t.ins[i].idx>>] = CoinOf(i)
      BY <3>1 DEF CoinOf
    <3> QED BY <3>1, <3>2, <3>3, <3>4, <3>5
  <2>5. CheckTxSign(t, Spendable) <=> \A i \in {1, 2} : i \in S
    BY <2>2, <2>4 DEF CheckTxSign
  <2>6. CheckTxSign(t, Spendable) <=> S = DOMAIN t.ins
    BY <2>2, <2>5
  <2> QED BY <2>3, <2>6 DEF t, S
<1> QED BY <1>1, <1>2, PTL

------------------------------------------------------------------------
(* What the builders build: sums, then outputs, then a block and its room. *)

(* What SumOf adds up, number by number. *)
Sums(u, q) == u[0] = 0 /\ \A n \in 1..Len(q) : u[n] = u[n - 1] + q[n]

LEMMA SumRuns ==
    ASSUME NEW q \in Seq(Int)
    PROVE  \E u \in [0..Len(q) -> Int] : Sums(u, q) /\ SumOf(q) = u[Len(q)]
<1> DEFINE L == Len(q)
           Step(g, n) == IF n = 0 THEN 0 ELSE g[n - 1] + q[n]
           F(g) == g = [n \in 0..L |-> Step(g, n)]
           upto == CHOOSE g : F(g)
           Turns == [n \in 1..L |-> [t \in Int |-> t + q[n]]]
<1>1. L \in Nat /\ \A n \in 1..L : q[n] \in Int
  OBVIOUS
<1>2. SumOf(q) = upto[L]
  BY DEF SumOf
<1> HIDE DEF L
<1>3. Turns \in [1..L -> [Int -> Int]]
  BY <1>1
<1>4. PICK g \in [0..L -> Int] : Recurs(g, 0, L, Turns)
  <2> DEFINE T == Int
  <2>1. L \in Nat /\ 0 \in T /\ Turns \in [1..L -> [T -> T]]
    BY <1>1, <1>3
  <2> HIDE DEF Turns, T
  <2>2. \E g \in [0..L -> T] : Recurs(g, 0, L, Turns)
    BY <2>1, Recursion
  <2> QED BY <2>2 DEF T
<1>5. ASSUME NEW n \in 1..L PROVE g[n] = g[n - 1] + q[n]
  <2>1. g[n - 1] \in Int
    BY <1>1
  <2>2. Turns[n][g[n - 1]] = g[n - 1] + q[n]
    BY <2>1
  <2> HIDE DEF Turns
  <2> QED BY <2>2, <1>4 DEF Recurs
<1>6. F(g)
  <2>1. \A n \in 0..L : g[n] = Step(g, n)
    <3> TAKE n \in 0..L
    <3>1. CASE n = 0
      BY <3>1, <1>4 DEF Recurs
    <3>2. CASE n # 0
      <4>1. n \in 1..L
        BY <3>2, <1>1
      <4> QED BY <4>1, <3>2, <1>5
    <3> QED BY <3>1, <3>2
  <2> HIDE DEF Step
  <2> QED BY <2>1, <1>4
<1>7. F(upto)
  <2> HIDE DEF F
  <2> QED BY <1>6
<1>8. \A n \in 0..L : upto[n] = Step(upto, n)
  <2> HIDE DEF Step, upto
  <2> QED BY <1>7
<1> HIDE DEF upto, F
<1>9. upto[0] = 0
  <2>1. 0 \in 0..L
    BY <1>1
  <2> QED BY <2>1, <1>8
<1>10. ASSUME NEW n \in 1..L PROVE upto[n] = upto[n - 1] + q[n]
  <2>1. n \in 0..L /\ n # 0
    BY <1>1
  <2> QED BY <2>1, <1>8
<1> DEFINE C == {n \in Nat : n <= L => upto[n] = g[n]}
<1>11. 0 \in C
  BY <1>9, <1>4 DEF Recurs
<1>12. ASSUME NEW n \in Nat, n \in C PROVE n + 1 \in C
  <2> SUFFICES ASSUME n + 1 <= L PROVE upto[n + 1] = g[n + 1]
    OBVIOUS
  <2>1. upto[n] = g[n] /\ n + 1 \in 1..L /\ (n + 1) - 1 = n
    BY <1>12, <1>1
  <2> QED BY <2>1, <1>5, <1>10
<1>13. \A n \in Nat : n \in C
  <2> HIDE DEF C
  <2> QED BY <1>11, <1>12, NatInd
<1>14. upto[L] = g[L]
  BY <1>13, <1>1
<1>15. g[0] = 0
  BY <1>4 DEF Recurs
<1>16. Sums(g, q)
  BY <1>5, <1>15 DEF Sums, L
<1> QED BY <1>2, <1>4, <1>14, <1>16 DEF L

LEMMA SumType ==
    ASSUME NEW q \in Seq(Int)
    PROVE  SumOf(q) \in Int
<1>1. PICK u \in [0..Len(q) -> Int] : SumOf(q) = u[Len(q)]
  BY SumRuns
<1>2. Len(q) \in 0..Len(q)
  OBVIOUS
<1> QED BY <1>1, <1>2

(* The sum of a prefix goes by its elements. *)
SameAt(u, v, k) == u[k] = v[k]

LEMMA SumsAgree ==
    ASSUME NEW q \in Seq(Int), NEW r \in Seq(Int), NEW k \in Nat, k <= Len(q), k <= Len(r),
           \A n \in 1..k : q[n] = r[n], NEW u, NEW v, Sums(u, q), Sums(v, r)
    PROVE  SameAt(u, v, k)
<1> DEFINE C == {n \in Nat : n <= k => u[n] = v[n]}
<1>1. 0 \in C
  BY DEF Sums
<1>2. ASSUME NEW n \in Nat, n \in C PROVE n + 1 \in C
  <2> SUFFICES ASSUME n + 1 <= k PROVE u[n + 1] = v[n + 1]
    OBVIOUS
  <2>1. /\ u[n] = v[n] /\ n + 1 \in 1..Len(q) /\ n + 1 \in 1..Len(r) /\ n + 1 \in 1..k
        /\ (n + 1) - 1 = n
    BY <1>2
  <2>2. q[n + 1] = r[n + 1]
    BY <2>1
  <2>3. u[n + 1] = u[n] + q[n + 1]
    BY <2>1 DEF Sums
  <2>4. v[n + 1] = v[n] + r[n + 1]
    BY <2>1 DEF Sums
  <2> QED BY <2>1, <2>2, <2>3, <2>4
<1>3. \A n \in Nat : n \in C
  <2> HIDE DEF C
  <2> QED BY <1>1, <1>2, NatInd
<1> QED BY <1>3 DEF SameAt

LEMMA SumAppend ==
    ASSUME NEW q \in Seq(Int), NEW e \in Int
    PROVE  SumOf(Append(q, e)) = SumOf(q) + e
<1> DEFINE r == Append(q, e)
           k == Len(q)
<1>1. /\ r \in Seq(Int) /\ Len(r) = k + 1 /\ r[k + 1] = e /\ k \in Nat
      /\ \A n \in 1..k : r[n] = q[n]
  OBVIOUS
<1> HIDE DEF r
<1>2. PICK u \in [0..Len(q) -> Int] : Sums(u, q) /\ SumOf(q) = u[Len(q)]
  BY SumRuns
<1>3. PICK v \in [0..Len(r) -> Int] : Sums(v, r) /\ SumOf(r) = v[Len(r)]
  BY <1>1, SumRuns
<1>4. u[k] = v[k]
  <2>1. k <= Len(q) /\ k <= Len(r)
    BY <1>1
  <2> HIDE DEF k
  <2>2. \A n \in 1..k : q[n] = r[n]
    BY <1>1
  <2>6. k <= Len(q)
    BY <2>1
  <2>7. k <= Len(r)
    BY <2>1
  <2>3. k \in Nat
    BY <1>1
  <2>8. r \in Seq(Int)
    BY <1>1
  <2>9. q \in Seq(Int)
    OBVIOUS
  <2>4. Sums(u, q)
    BY <1>2
  <2>5. Sums(v, r)
    BY <1>3
  <2>10. SameAt(u, v, k)
    BY <2>2, <2>3, <2>4, <2>5, <2>6, <2>7, <2>8, <2>9, SumsAgree
  <2> QED BY <2>10 DEF SameAt
<1>5. v[k + 1] = v[k] + e
  <2>1. k + 1 \in 1..Len(r) /\ (k + 1) - 1 = k
    BY <1>1
  <2>2. v[k + 1] = v[(k + 1) - 1] + r[k + 1]
    BY <2>1, <1>3 DEF Sums
  <2> QED BY <2>1, <2>2, <1>1
<1>6. SumOf(r) = SumOf(q) + e
  BY <1>1, <1>2, <1>3, <1>4, <1>5
<1> QED BY <1>6 DEF r

LEMMA SumNone == SumOf(<<>>) = 0
<1> DEFINE q == <<>>
<1>1. q \in Seq(Int) /\ Len(q) = 0
  OBVIOUS
<1> HIDE DEF q
<1>2. PICK u \in [0..Len(q) -> Int] : Sums(u, q) /\ SumOf(q) = u[Len(q)]
  BY <1>1, SumRuns
<1>3. SumOf(q) = 0
  BY <1>1, <1>2 DEF Sums
<1> QED BY <1>3 DEF q

-----------------------------------------------------------------------------
(* Coins and outputs. *)
Money == [addr : {"a", "b", "none", NoAddr}, value : Int]

LEMMA Values ==
    ASSUME NEW s \in Seq(Money)
    PROVE  /\ [i \in DOMAIN s |-> s[i].value] \in Seq(Int) /\ Total(s) \in Int
           /\ Len([i \in DOMAIN s |-> s[i].value]) = Len(s)
           /\ \A i \in 1..Len(s) : [j \in DOMAIN s |-> s[j].value][i] = s[i].value
<1> DEFINE q == [i \in DOMAIN s |-> s[i].value]
<1>1. DOMAIN s = 1..Len(s) /\ Len(s) \in Nat
  OBVIOUS
<1>2. \A i \in 1..Len(s) : s[i] \in Money
  OBVIOUS
<1>3. \A i \in 1..Len(s) : s[i].value \in Int
  BY <1>2 DEF Money
<1>4. q \in [1..Len(s) -> Int] /\ \A i \in 1..Len(s) : q[i] = s[i].value
  BY <1>1, <1>3
<1> HIDE DEF q
<1>5. q \in Seq(Int) /\ Len(q) = Len(s)
  BY <1>1, <1>4
<1>6. Total(s) = SumOf(q)
  BY DEF Total, q
<1>7. Total(s) \in Int
  BY <1>5, <1>6, SumType
<1> QED BY <1>4, <1>5, <1>7 DEF q

LEMMA TotalAppend ==
    ASSUME NEW s \in Seq(Money), NEW e \in Money
    PROVE  Total(Append(s, e)) = Total(s) + e.value
<1> DEFINE t == Append(s, e)
           v == e.value
           q == [i \in DOMAIN s |-> s[i].value]
           r == [i \in DOMAIN t |-> t[i].value]
<1>1. /\ t \in Seq(Money) /\ Len(t) = Len(s) + 1 /\ t[Len(s) + 1] = e
      /\ \A i \in 1..Len(s) : t[i] = s[i]
  BY AppendShape
<1>2. v \in Int
  BY DEF Money
<1>3. q \in Seq(Int) /\ Len(q) = Len(s) /\ \A i \in 1..Len(s) : q[i] = s[i].value
  BY Values
<1>4. r \in Seq(Int) /\ Len(r) = Len(t) /\ \A i \in 1..Len(t) : r[i] = t[i].value
  <2> HIDE DEF t
  <2> QED BY <1>1, Values
<1> HIDE DEF t, q, r
<1>5. r = Append(q, v)
  <2>1. /\ Append(q, v) \in Seq(Int) /\ Len(Append(q, v)) = Len(s) + 1
        /\ Append(q, v)[Len(s) + 1] = v /\ \A i \in 1..Len(s) : Append(q, v)[i] = q[i]
    BY <1>2, <1>3
  <2>2. Len(r) = Len(s) + 1 /\ r[Len(s) + 1] = v /\ \A i \in 1..Len(s) : r[i] = q[i]
    <3>1. Len(s) \in Nat
      OBVIOUS
    <3>2. Len(r) = Len(s) + 1 /\ Len(s) + 1 \in 1..Len(t) /\ \A i \in 1..Len(s) : i \in 1..Len(t)
      BY <1>1, <1>4, <3>1
    <3> QED BY <1>1, <1>3, <1>4, <3>2
  <2> DEFINE w == Append(q, v)
  <2>3. /\ w \in Seq(Int) /\ Len(w) = Len(s) + 1
        /\ w[Len(s) + 1] = v /\ \A i \in 1..Len(s) : w[i] = q[i]
    BY <2>1
  <2> HIDE DEF w
  <2>4. \A i \in 1..Len(r) : r[i] = w[i]
    BY <2>2, <2>3
  <2>5. r = w
    BY <1>4, <2>2, <2>3, <2>4, SeqEqual
  <2> QED BY <2>5 DEF w
<1>6. SumOf(r) = SumOf(q) + v
  BY <1>2, <1>3, <1>5, SumAppend
<1> QED BY <1>6 DEF Total, t, q, r

(* What Paying collects, output by output. *)
Pays(u, outs) ==
    /\ u[0] = <<>>
    /\ \A n \in 1..Len(outs) :
          u[n] = IF outs[n].value = 0 THEN u[n - 1] ELSE Append(u[n - 1], outs[n])

LEMMA PayingRuns ==
    ASSUME NEW outs \in Seq(Money)
    PROVE  \E u \in [0..Len(outs) -> Seq(Money)] :
              Pays(u, outs) /\ Paying(outs) = u[Len(outs)]
<1> DEFINE L == Len(outs)
           Step(g, n) == IF n = 0 THEN <<>> ELSE IF outs[n].value = 0 THEN g[n - 1]
                         ELSE Append(g[n - 1], outs[n])
           F(g) == g = [n \in 0..L |-> Step(g, n)]
           upto == CHOOSE g : F(g)
           T == Seq(Money)
           Turns == [n \in 1..L |-> [t \in T |-> IF outs[n].value = 0 THEN t ELSE Append(t, outs[n])]]
<1>1. L \in Nat /\ \A n \in 1..L : outs[n] \in Money
  OBVIOUS
<1>2. Paying(outs) = upto[L]
  BY DEF Paying
<1> HIDE DEF L
<1>3. Turns \in [1..L -> [T -> T]]
  <2>1. \A n \in 1..L : \A t \in T : (IF outs[n].value = 0 THEN t ELSE Append(t, outs[n])) \in T
    BY <1>1
  <2> HIDE DEF T
  <2> QED BY <2>1
<1>4. <<>> \in T
  OBVIOUS
<1>5. PICK g \in [0..L -> T] : Recurs(g, <<>>, L, Turns)
  <2> HIDE DEF Turns, T
  <2> QED BY <1>1, <1>3, <1>4, Recursion
<1>6. ASSUME NEW n \in 1..L
      PROVE  g[n] = IF outs[n].value = 0 THEN g[n - 1] ELSE Append(g[n - 1], outs[n])
  <2>1. g[n - 1] \in T
    BY <1>1
  <2>2. Turns[n][g[n - 1]] = IF outs[n].value = 0 THEN g[n - 1] ELSE Append(g[n - 1], outs[n])
    <3> HIDE DEF T
    <3> QED BY <2>1
  <2> HIDE DEF Turns
  <2> QED BY <2>2, <1>5 DEF Recurs
<1>7. F(g)
  <2>1. \A n \in 0..L : g[n] = Step(g, n)
    <3> TAKE n \in 0..L
    <3>1. CASE n = 0
      BY <3>1, <1>5 DEF Recurs
    <3>2. CASE n # 0
      <4>1. n \in 1..L
        BY <3>2, <1>1
      <4> QED BY <4>1, <3>2, <1>6
    <3> QED BY <3>1, <3>2
  <2> HIDE DEF Step, T
  <2> QED BY <2>1, <1>5
<1>8. F(upto)
  <2> HIDE DEF F
  <2> QED BY <1>7
<1>9. \A n \in 0..L : upto[n] = Step(upto, n)
  <2> HIDE DEF Step, upto
  <2> QED BY <1>8
<1> HIDE DEF upto, F
<1>10. upto[0] = <<>>
  <2>1. 0 \in 0..L
    BY <1>1
  <2> QED BY <2>1, <1>9
<1>11. ASSUME NEW n \in 1..L
       PROVE  upto[n] = IF outs[n].value = 0 THEN upto[n - 1] ELSE Append(upto[n - 1], outs[n])
  <2>1. n \in 0..L /\ n # 0
    BY <1>1
  <2> QED BY <2>1, <1>9
<1> DEFINE C == {n \in Nat : n <= L => upto[n] = g[n]}
<1>12. 0 \in C
  BY <1>10, <1>5 DEF Recurs
<1>13. ASSUME NEW n \in Nat, n \in C PROVE n + 1 \in C
  <2> SUFFICES ASSUME n + 1 <= L PROVE upto[n + 1] = g[n + 1]
    OBVIOUS
  <2>1. upto[n] = g[n] /\ n + 1 \in 1..L /\ (n + 1) - 1 = n
    BY <1>13, <1>1
  <2> QED BY <2>1, <1>6, <1>11
<1>14. \A n \in Nat : n \in C
  <2> HIDE DEF C
  <2> QED BY <1>12, <1>13, NatInd
<1>15. upto[L] = g[L]
  BY <1>14, <1>1
<1>16. g[0] = <<>>
  BY <1>5 DEF Recurs
<1>17. Pays(g, outs)
  BY <1>6, <1>16 DEF Pays, L
<1> QED BY <1>2, <1>5, <1>15, <1>17 DEF L

(* Of n outputs: those that pay, and all of them if all do. *)
PaysAll(s, outs, n) ==
    /\ \A i \in 1..Len(s) : s[i].value # 0
    /\ (\A i \in 1..n : outs[i].value # 0) => Len(s) = n

LEMMA PayingShape ==
    ASSUME NEW outs \in Seq(Money)
    PROVE  Paying(outs) \in Seq(Money) /\ PaysAll(Paying(outs), outs, Len(outs))
<1> DEFINE L == Len(outs)
<1>1. PICK u \in [0..L -> Seq(Money)] : Pays(u, outs) /\ Paying(outs) = u[L]
  BY PayingRuns
<1>2. L \in Nat /\ \A n \in 1..L : outs[n] \in Money
  OBVIOUS
<1> DEFINE C == {n \in Nat : n <= L => PaysAll(u[n], outs, n)}
<1>3. 0 \in C
  <2>1. u[0] = <<>>
    BY <1>1 DEF Pays
  <2> QED BY <2>1 DEF PaysAll
<1>4. ASSUME NEW n \in Nat, n \in C PROVE n + 1 \in C
  <2> SUFFICES ASSUME n + 1 <= L PROVE PaysAll(u[n + 1], outs, n + 1)
    OBVIOUS
  <2>1. /\ n \in 0..L /\ n + 1 \in 1..L /\ (n + 1) - 1 = n /\ PaysAll(u[n], outs, n)
    BY <1>2, <1>4
  <2> DEFINE s == u[n]
             t == u[n + 1]
             e == outs[n + 1]
  <2>2. t = IF e.value = 0 THEN s ELSE Append(s, e)
    <3>1. u[n + 1] = IF outs[n + 1].value = 0 THEN u[(n + 1) - 1]
                     ELSE Append(u[(n + 1) - 1], outs[n + 1])
      BY <1>1, <2>1 DEF Pays
    <3> QED BY <3>1, <2>1
  <2>3. s \in Seq(Money) /\ e \in Money
    BY <1>1, <1>2, <2>1
  <2>4. /\ \A i \in 1..Len(s) : s[i].value # 0
        /\ (\A i \in 1..n : outs[i].value # 0) => Len(s) = n
    BY <2>1 DEF PaysAll
  <2>5. n + 1 \in 1..(n + 1) /\ \A i \in 1..n : i \in 1..(n + 1)
    OBVIOUS
  <2> HIDE DEF s, t
  <2>6. CASE e.value = 0
    <3>1. ~\A i \in 1..(n + 1) : outs[i].value # 0
      BY <2>5, <2>6
    <3>2. t = s
      BY <2>2, <2>6
    <3>3. PaysAll(t, outs, n + 1)
      BY <3>1, <3>2, <2>4 DEF PaysAll
    <3> QED BY <3>3 DEF t
  <2>7. CASE e.value # 0
    <3> HIDE DEF e
    <3>1. t = Append(s, e)
      BY <2>2, <2>7
    <3>2. /\ Len(t) = Len(s) + 1 /\ t[Len(s) + 1] = e /\ Len(s) \in Nat
          /\ \A r \in 1..Len(s) : t[r] = s[r]
      BY <2>3, <3>1, AppendShape
    <3>3. \A i \in 1..Len(t) : t[i].value # 0
      <4> TAKE i \in 1..Len(t)
      <4>1. CASE i = Len(s) + 1
        BY <4>1, <3>2, <2>7
      <4>2. CASE i # Len(s) + 1
        <5>1. i \in 1..Len(s)
          BY <4>2, <3>2
        <5> QED BY <5>1, <3>2, <2>4
      <4> QED BY <4>1, <4>2
    <3>4. (\A i \in 1..(n + 1) : outs[i].value # 0) => Len(t) = n + 1
      BY <2>4, <2>5, <3>2
    <3>5. PaysAll(t, outs, n + 1)
      BY <3>3, <3>4 DEF PaysAll
    <3> QED BY <3>5 DEF t
  <2> QED BY <2>6, <2>7
<1>5. \A n \in Nat : n \in C
  <2> HIDE DEF C
  <2> QED BY <1>3, <1>4, NatInd
<1>6. PaysAll(u[L], outs, L)
  BY <1>2, <1>5
<1>7. u[L] \in Seq(Money)
  BY <1>1, <1>2
<1> QED BY <1>1, <1>6, <1>7

-----------------------------------------------------------------------------
(* The transactions of a pool. *)
Pooled == [fee : Nat, size : Nat]

LEMMA SizesType ==
    ASSUME NEW txs \in Seq(Pooled)
    PROVE  Sizes(txs) \in Int
<1> DEFINE q == [i \in DOMAIN txs |-> txs[i].size]
<1>1. DOMAIN txs = 1..Len(txs) /\ Len(txs) \in Nat /\ \A i \in 1..Len(txs) : txs[i] \in Pooled
  OBVIOUS
<1>2. \A i \in 1..Len(txs) : txs[i].size \in Int
  BY <1>1 DEF Pooled
<1>3. q \in [1..Len(txs) -> Int]
  BY <1>1, <1>2
<1> HIDE DEF q
<1>4. q \in Seq(Int)
  BY <1>1, <1>3
<1>5. SumOf(q) \in Int
  BY <1>4, SumType
<1> QED BY <1>5 DEF Sizes, q

LEMMA SizesNone == Sizes(<<>>) = 0
<1> DEFINE p == <<>>
<1>1. [i \in DOMAIN p |-> p[i].size] = <<>>
  OBVIOUS
<1>2. Sizes(p) = SumOf(<<>>)
  BY <1>1 DEF Sizes
<1> QED BY <1>2, SumNone

(* The list ends where the next one would not fit; there is such a place. *)
Fits(txs, size, n) ==
    /\ \A k \in 1..n : size + Sizes(SubSeq(txs, 1, k)) <= MaxBlockSize
    /\ n < Len(txs) => size + Sizes(SubSeq(txs, 1, n + 1)) > MaxBlockSize

LEMMA FittingPlace ==
    ASSUME NEW txs \in Seq(Pooled), NEW size \in Int
    PROVE  \E n \in 0..Len(txs) : Fits(txs, size, n)
<1> DEFINE S(k) == size + Sizes(SubSeq(txs, 1, k))
           Over == {n \in Nat : n < Len(txs) /\ S(n + 1) > MaxBlockSize}
<1>1. Len(txs) \in Nat /\ MaxBlockSize \in Nat
  BY BuilderAssumption
<1>2. \A k \in 1..Len(txs) : S(k) \in Int
  <2> TAKE k \in 1..Len(txs)
  <2>1. SubSeq(txs, 1, k) \in Seq(Pooled)
    OBVIOUS
  <2> DEFINE s == SubSeq(txs, 1, k)
  <2> HIDE DEF s
  <2>2. Sizes(s) \in Int
    BY <2>1, SizesType DEF s
  <2> QED BY <2>2 DEF s
<1>3. \A n \in 0..Len(txs) :
         Fits(txs, size, n) <=> /\ \A k \in 1..n : S(k) <= MaxBlockSize
                                /\ n < Len(txs) => S(n + 1) > MaxBlockSize
  BY DEF Fits
<1> HIDE DEF S
<1>4. CASE Over = {}
  <2>1. \A k \in 1..Len(txs) : S(k) <= MaxBlockSize
    <3> TAKE k \in 1..Len(txs)
    <3>1. k - 1 \in Nat /\ k - 1 < Len(txs) /\ (k - 1) + 1 = k /\ S(k) \in Int
      BY <1>1, <1>2
    <3>2. ~(S(k) > MaxBlockSize)
      BY <3>1, <1>4
    <3> QED BY <3>1, <3>2, <1>1
  <2>2. Len(txs) \in 0..Len(txs) /\ ~(Len(txs) < Len(txs))
    BY <1>1
  <2> QED BY <2>1, <2>2, <1>3
<1>5. CASE Over # {}
  <2>1. PICK n \in Over : \A k \in Over : n <= k
    <3>1. Over \in SUBSET Nat
      OBVIOUS
    <3> HIDE DEF Over
    <3> QED BY <3>1, <1>5, LeastNumber
  <2>2. n \in 0..Len(txs) /\ n < Len(txs) /\ S(n + 1) > MaxBlockSize /\ n \in Nat
    BY <1>1, <2>1
  <2>3. \A k \in 1..n : S(k) <= MaxBlockSize
    <3> TAKE k \in 1..n
    <3>1. k - 1 \in Nat /\ k - 1 < n /\ k - 1 < Len(txs) /\ (k - 1) + 1 = k /\ k \in 1..Len(txs)
      BY <1>1, <2>2
    <3>2. k - 1 \notin Over
      BY <2>1, <2>2, <3>1
    <3>3. ~(S(k) > MaxBlockSize)
      BY <3>1, <3>2
    <3> QED BY <3>1, <3>3, <1>1, <1>2
  <2> QED BY <2>2, <2>3, <1>3
<1> QED BY <1>4, <1>5

LEMMA FittingFits ==
    ASSUME NEW txs \in Seq(Pooled), NEW size \in Int, size <= MaxBlockSize
    PROVE  /\ Fitting(txs, size) \in Seq(Pooled)
           /\ size + Sizes(Fitting(txs, size)) <= MaxBlockSize
<1> DEFINE n == CHOOSE n \in 0..Len(txs) : Fits(txs, size, n)
<1>1. n \in 0..Len(txs) /\ Fits(txs, size, n)
  BY FittingPlace
<1>2. Fitting(txs, size) = SubSeq(txs, 1, n)
  BY DEF Fitting, Fits
<1> HIDE DEF n
<1>3. SubSeq(txs, 1, n) \in Seq(Pooled)
  BY <1>1
<1>4. CASE n = 0
  <2>1. SubSeq(txs, 1, n) = <<>>
    BY <1>4
  <2>2. Sizes(SubSeq(txs, 1, n)) = 0
    BY <2>1, SizesNone
  <2> QED BY <1>2, <1>3, <2>2
<1>5. CASE n # 0
  <2>1. n \in 1..n
    BY <1>1, <1>5
  <2>2. size + Sizes(SubSeq(txs, 1, n)) <= MaxBlockSize
    BY <2>1, <1>1 DEF Fits
  <2> QED BY <1>2, <1>3, <2>2
<1> QED BY <1>4, <1>5

(* A coin or an output more. *)
LEMMA MoreMoney ==
    ASSUME NEW s \in Seq(Money), NEW a \in {"a", "b", "none", NoAddr}, NEW v \in Int
    PROVE  Append(s, [addr |-> a, value |-> v]) \in Seq(Money)
<1>1. [addr |-> a, value |-> v] \in Money
  BY DEF Money
<1> QED BY <1>1

(* The coins and outputs given to TxHelper, the pool given to create_block. *)
Supplied ==
    /\ kind = "helper" =>
          /\ in = [coins |-> in.coins, outs |-> in.outs, fee |-> in.fee, keep |-> in.keep]
          /\ in.coins \in Seq(Money) /\ in.outs \in Seq(Money)
          /\ in.fee \in Int /\ in.keep \in {"a", NoAddr}
    /\ kind = "block" => in \in Seq(Pooled)

LEMMA SuppliedBegins == MCInit => Supplied
<1> SUFFICES ASSUME MCInit PROVE Supplied
  OBVIOUS
<1>1. CASE kind = "helper"
  <2>1. PICK f \in {-1, 0, 1}, a \in {"a", NoAddr} :
           in = [coins |-> <<>>, outs |-> <<>>, fee |-> f, keep |-> a]
    BY <1>1 DEF MCInit, Starts
  <2>2. <<>> \in Seq(Money)
    OBVIOUS
  <2>3. f \in Int
    OBVIOUS
  <2>4. in.coins = <<>> /\ in.outs = <<>> /\ in.fee = f /\ in.keep = a
    BY <2>1
  <2> QED BY <1>1, <2>1, <2>2, <2>3, <2>4 DEF Supplied
<1>2. CASE kind = "block"
  <2>1. in = <<>>
    BY <1>2 DEF MCInit, Starts
  <2>2. <<>> \in Seq(Pooled)
    OBVIOUS
  <2> QED BY <1>2, <2>1, <2>2 DEF Supplied
<1> QED BY <1>1, <1>2 DEF Supplied

LEMMA SuppliedKeeps == Supplied /\ [MCNext]_mvars => Supplied'
<1> SUFFICES ASSUME Supplied, [MCNext]_mvars PROVE Supplied'
  OBVIOUS
<1>1. CASE GrowCoins
  <2>1. /\ kind' = "helper"
        /\ in = [coins |-> in.coins, outs |-> in.outs, fee |-> in.fee, keep |-> in.keep]
        /\ in.coins \in Seq(Money) /\ in.outs \in Seq(Money)
        /\ in.fee \in Int /\ in.keep \in {"a", NoAddr}
    BY <1>1 DEF GrowCoins, Of, Supplied
  <2>2. PICK a \in {"a", "b", "none"}, v \in {1, 3} :
           in' = [in EXCEPT !.coins = Append(@, [addr |-> a, value |-> v])]
    BY <1>1 DEF GrowCoins
  <2> DEFINE s == Append(in.coins, [addr |-> a, value |-> v])
  <2>3. s \in Seq(Money)
    <3>1. a \in {"a", "b", "none", NoAddr} /\ v \in Int
      OBVIOUS
    <3> QED BY <3>1, <2>1, MoreMoney
  <2>4. in' = [in EXCEPT !.coins = s]
    BY <2>2
  <2> HIDE DEF s
  <2>5. in' = [coins |-> s, outs |-> in.outs, fee |-> in.fee, keep |-> in.keep]
    BY <2>1, <2>4
  <2>6. in'.coins = s /\ in'.outs = in.outs /\ in'.fee = in.fee /\ in'.keep = in.keep
    BY <2>5
  <2> QED BY <2>1, <2>3, <2>5, <2>6 DEF Supplied
<1>2. CASE GrowOuts
  <2>1. /\ kind' = "helper"
        /\ in = [coins |-> in.coins, outs |-> in.outs, fee |-> in.fee, keep |-> in.keep]
        /\ in.coins \in Seq(Money) /\ in.outs \in Seq(Money)
        /\ in.fee \in Int /\ in.keep \in {"a", NoAddr}
    BY <1>2 DEF GrowOuts, Of, Supplied
  <2>2. PICK v \in {-1, 0, 1, 2} :
           in' = [in EXCEPT !.outs = Append(@, [addr |-> "b", value |-> v])]
    BY <1>2 DEF GrowOuts
  <2> DEFINE s == Append(in.outs, [addr |-> "b", value |-> v])
  <2>3. s \in Seq(Money)
    <3>1. "b" \in {"a", "b", "none", NoAddr} /\ v \in Int
      OBVIOUS
    <3> QED BY <3>1, <2>1, MoreMoney
  <2>4. in' = [in EXCEPT !.outs = s]
    BY <2>2
  <2> HIDE DEF s
  <2>5. in' = [coins |-> in.coins, outs |-> s, fee |-> in.fee, keep |-> in.keep]
    BY <2>1, <2>4
  <2>6. in'.coins = in.coins /\ in'.outs = s /\ in'.fee = in.fee /\ in'.keep = in.keep
    BY <2>5
  <2> QED BY <2>1, <2>3, <2>5, <2>6 DEF Supplied
<1>3. CASE GrowPool
  <2>1. kind' = "block" /\ in \in Seq(Pooled)
    BY <1>3 DEF GrowPool, Of, Supplied
  <2>2. PICK f \in 0..2, s \in 1..3 : in' = Append(in, [fee |-> f, size |-> s])
    BY <1>3 DEF GrowPool
  <2>3. [fee |-> f, size |-> s] \in Pooled
    BY DEF Pooled
  <2>4. in' \in Seq(Pooled)
    BY <2>1, <2>2, <2>3
  <2> QED BY <2>1, <2>4 DEF Supplied
<1>4. CASE \/ GrowLeaves \/ GrowTarget \/ GrowBatch \/ GrowScript
           \/ GrowSigs \/ SignInput \/ ChangeTx
  <2>1. kind' \notin {"helper", "block"}
    BY <1>4 DEF GrowLeaves, GrowTarget, GrowBatch, GrowScript, GrowSigs, SignInput, ChangeTx, Of
  <2> QED BY <2>1 DEF Supplied
<1>5. CASE UNCHANGED mvars
  BY <1>5 DEF mvars, Supplied
<1> QED BY <1>1, <1>2, <1>3, <1>4, <1>5 DEF MCNext

(* What TxHelper builds pays the fee, and nobody nothing. *)
LEMMA BuiltPays ==
    ASSUME NEW h, h.coins \in Seq(Money), h.outs \in Seq(Money), h.fee \in Int,
           h.keep \in {"a", NoAddr}, CanBuildTx(h)
    PROVE  /\ Total(BuiltTx(h).ins) - Total(BuiltTx(h).outs) = h.fee
           /\ \A i \in DOMAIN BuiltTx(h).outs : BuiltTx(h).outs[i].value # 0
<1> DEFINE p == Paying(h.outs)
           e == [addr |-> ChangeAddr(h), value |-> Change(h)]
           t == BuiltTx(h)
<1>1. p \in Seq(Money) /\ \A i \in 1..Len(p) : p[i].value # 0
  BY PayingShape DEF PaysAll
<1>2. Total(h.coins) \in Int /\ Total(p) \in Int
  <2>1. Total(h.coins) \in Int
    BY Values
  <2> HIDE DEF p
  <2>2. Total(p) \in Int
    BY <1>1, Values
  <2> QED BY <2>1, <2>2
<1>3. Change(h) = Total(h.coins) - Total(p) - h.fee /\ Change(h) \in Int
  BY <1>2 DEF Change, Paid
<1>4. t.ins = h.coins /\ t.outs = IF Change(h) > 0 THEN Append(p, e) ELSE p
  BY DEF BuiltTx
<1> HIDE DEF p, t
<1>5. CASE Change(h) > 0
  <2>1. ChangeAddr(h) \in {"a", "b", "none", NoAddr}
    <3>1. CASE h.keep # NoAddr \/ h.coins = <<>>
      BY <3>1 DEF ChangeAddr
    <3>2. CASE ~(h.keep # NoAddr \/ h.coins = <<>>)
      <4> DEFINE s == h.coins
      <4>1. s \in Seq(Money) /\ s # <<>>
        BY <3>2
      <4>2. ChangeAddr(h) = s[1].addr
        BY <3>2 DEF ChangeAddr
      <4> HIDE DEF s
      <4>3. s[1] \in Money
        BY <4>1
      <4>4. s[1].addr \in {"a", "b", "none", NoAddr}
        BY <4>3 DEF Money
      <4> QED BY <4>2, <4>4
    <3> QED BY <3>1, <3>2
  <2>2. e \in Money /\ e.value = Change(h)
    BY <2>1, <1>3 DEF Money
  <2> HIDE DEF e
  <2>3. t.outs = Append(p, e)
    BY <1>4, <1>5
  <2>4. Total(Append(p, e)) = Total(p) + e.value
    BY <1>1, <2>2, TotalAppend
  <2>5. Total(t.ins) - Total(t.outs) = h.fee
    BY <1>2, <1>3, <1>4, <2>2, <2>3, <2>4
  <2> DEFINE q == Append(p, e)
  <2>6. /\ Len(q) = Len(p) + 1 /\ q[Len(p) + 1] = e /\ Len(p) \in Nat
        /\ \A r \in 1..Len(p) : q[r] = p[r]
        /\ DOMAIN q = 1..Len(q)
    BY <1>1, <2>2, AppendShape
  <2> HIDE DEF q
  <2>7. \A i \in DOMAIN q : q[i].value # 0
    <3> TAKE i \in DOMAIN q
    <3>1. CASE i = Len(p) + 1
      BY <3>1, <2>2, <2>6, <1>3, <1>5
    <3>2. CASE i # Len(p) + 1
      <4>1. i \in 1..Len(p)
        BY <3>2, <2>6
      <4> QED BY <4>1, <2>6, <1>1
    <3> QED BY <3>1, <3>2
  <2> QED BY <2>3, <2>5, <2>7 DEF t, q
<1>6. CASE ~(Change(h) > 0)
  <2>1. t.outs = p
    BY <1>4, <1>6
  <2>2. Change(h) = 0
    BY <1>3, <1>6 DEF CanBuildTx, ValidAmount
  <2>3. Total(t.ins) - Total(t.outs) = h.fee
    BY <1>2, <1>3, <1>4, <2>1, <2>2
  <2>4. DOMAIN p = 1..Len(p)
    BY <1>1
  <2> QED BY <1>1, <2>1, <2>3, <2>4 DEF t
<1> QED BY <1>5, <1>6

(* The outputs of the run's coinbases. *)
LEMMA CoinbaseOuts ==
    ASSUME NEW n \in 0..2
    PROVE  Len(Paying([i \in 1..n |-> [addr |-> "a", value |-> 1]])) = n
<1> DEFINE e == [addr |-> "a", value |-> 1]
           outs == [i \in 1..n |-> e]
<1>1. e \in Money /\ e.value # 0
  BY DEF Money
<1> HIDE DEF e
<1>2. n \in Nat
  OBVIOUS
<1>3. outs \in Seq(Money) /\ Len(outs) = n /\ \A i \in 1..n : outs[i].value # 0
  BY <1>1, <1>2
<1> HIDE DEF outs
<1>4. PaysAll(Paying(outs), outs, Len(outs))
  BY <1>3, PayingShape
<1>5. Len(Paying(outs)) = n
  BY <1>3, <1>4 DEF PaysAll
<1> QED BY <1>5 DEF outs, e

(* Whatever coins and outputs TxHelper is given, what it builds pays its    *)
(* fee exactly; whatever the pool holds, the block create_block builds      *)
(* fits, once its coinbase does (Tx::try_from, Block::try_from).            *)
THEOREM BuiltAlwaysWithinLimits == MCSpec => []BuiltWithinLimits
<1>1. MCSpec => []Supplied
  BY SuppliedBegins, SuppliedKeeps, PTL DEF MCSpec
<1>2. Supplied => BuiltWithinLimits
  <2> SUFFICES ASSUME Supplied PROVE BuiltWithinLimits
    OBVIOUS
  <2>1. ASSUME kind = "helper", CanBuildTx(in)
        PROVE  /\ Total(BuiltTx(in).ins) - Total(BuiltTx(in).outs) = in.fee
               /\ \A i \in DOMAIN BuiltTx(in).outs : BuiltTx(in).outs[i].value # 0
    <3>1. /\ in.coins \in Seq(Money) /\ in.outs \in Seq(Money) /\ in.fee \in Int
          /\ in.keep \in {"a", NoAddr}
      BY <2>1 DEF Supplied
    <3> DEFINE h == in
    <3> HIDE DEF h
    <3>2. /\ h.coins \in Seq(Money) /\ h.outs \in Seq(Money) /\ h.fee \in Int
          /\ h.keep \in {"a", NoAddr} /\ CanBuildTx(h)
      BY <3>1, <2>1 DEF h
    <3>3. /\ Total(BuiltTx(h).ins) - Total(BuiltTx(h).outs) = h.fee
          /\ \A i \in DOMAIN BuiltTx(h).outs : BuiltTx(h).outs[i].value # 0
      BY <3>2, BuiltPays
    <3> QED BY <3>3 DEF h
  <2>2. ASSUME kind = "block", NEW n \in 0..2
        PROVE  LET outs == [i \in 1..n |-> [addr |-> "a", value |-> 1]]
               IN  BareSize + OutSize * n + Sizes(BuiltTxs(in, outs)) <= MaxBlockSize
    <3> DEFINE outs == [i \in 1..n |-> [addr |-> "a", value |-> 1]]
               more == OutSize * n
               size == BareSize + more
               t    == Fitting(in, BareSize)
    <3>1. in \in Seq(Pooled)
      BY <2>2 DEF Supplied
    <3>2. BuiltTxs(in, outs) = Fitting(t, size)
      BY CoinbaseOuts DEF BuiltTxs
    <3>3. /\ BareSize \in Nat /\ OutSize \in Nat /\ MaxBlockSize \in Nat
          /\ BareSize + OutSize * 2 <= MaxBlockSize
      BY BuilderAssumption, MCAlgorithmsAssumption
    <3>4. more \in Nat /\ more <= OutSize * 2
      <4>1. n = 0 \/ n = 1 \/ n = 2
        OBVIOUS
      <4>2. OutSize * 0 = 0 /\ OutSize * 1 = OutSize /\ OutSize * 2 = OutSize + OutSize
        BY <3>3
      <4> QED BY <4>1, <4>2, <3>3
    <3> HIDE DEF more
    <3>5. size \in Int /\ size <= MaxBlockSize /\ BareSize \in Int /\ BareSize <= MaxBlockSize
      BY <3>3, <3>4
    <3>6. t \in Seq(Pooled)
      BY <3>1, <3>5, FittingFits
    <3> HIDE DEF t, size
    <3>7. size + Sizes(Fitting(t, size)) <= MaxBlockSize
      BY <3>5, <3>6, FittingFits
    <3>8. BareSize + OutSize * n + Sizes(BuiltTxs(in, outs)) <= MaxBlockSize
      BY <3>2, <3>7 DEF size, more
    <3> QED BY <3>8
  <2> QED BY <2>1, <2>2 DEF BuiltWithinLimits
<1> QED BY <1>1, <1>2, PTL

------------------------------------------------------------------------
(* The Merkle tree: widths and heights, then rows, then what the root says. *)

(* Shifts are doubling and halving. *)
Doubles(u, num, L) == u[0] = num /\ \A k \in 1..L : u[k] = u[k - 1] * 2

LEMMA ShlRuns ==
    ASSUME NEW num \in Nat, NEW L \in Nat
    PROVE  \E u : Doubles(u, num, L) /\ Shl(num, L) = u[L]
<1> DEFINE Step(g, k) == IF k = 0 THEN num ELSE g[k - 1] * 2
           F(j, g) == g = [k \in 0..j |-> Step(g, k)]
           C == {j \in Nat : \E g : F(j, g)}
           bits == CHOOSE g : F(L, g)
<1>1. 0 \in C
  <2> DEFINE g == [k \in 0..0 |-> num]
  <2>1. g = [k \in 0..0 |-> Step(g, k)]
    OBVIOUS
  <2> HIDE DEF g, Step
  <2> QED BY <2>1
<1>2. ASSUME NEW j \in Nat, j \in C PROVE j + 1 \in C
  <2>1. PICK g : F(j, g)
    BY <1>2
  <2> DEFINE e == [k \in 0..(j + 1) |-> Step(g, k)]
  <2>2. \A k \in 0..j : e[k] = g[k]
    <3>1. \A k \in 0..j : g[k] = Step(g, k) /\ k \in 0..(j + 1)
      BY <2>1
    <3> HIDE DEF Step
    <3> QED BY <3>1
  <2>3. \A k \in 0..(j + 1) : Step(e, k) = Step(g, k)
    <3> TAKE k \in 0..(j + 1)
    <3>1. k # 0 => e[k - 1] = g[k - 1]
      <4> HIDE DEF e
      <4> SUFFICES ASSUME k # 0 PROVE e[k - 1] = g[k - 1]
        OBVIOUS
      <4>1. k - 1 \in 0..j
        OBVIOUS
      <4> QED BY <4>1, <2>2
    <3> HIDE DEF e
    <3> QED BY <3>1
  <2>4. F(j + 1, e)
    <3> HIDE DEF Step
    <3> QED BY <2>3
  <2> HIDE DEF e, F
  <2> QED BY <2>4
<1>3. \A j \in Nat : j \in C
  <2> HIDE DEF C
  <2> QED BY <1>1, <1>2, NatInd
<1>4. F(L, bits)
  <2>1. PICK g : F(L, g)
    BY <1>3
  <2> HIDE DEF F
  <2> QED BY <2>1
<1>5. Shl(num, L) = bits[L]
  BY DEF Shl
<1> HIDE DEF bits
<1>6. \A k \in 0..L : bits[k] = Step(bits, k)
  <2> HIDE DEF Step
  <2> QED BY <1>4
<1>7. Doubles(bits, num, L)
  BY <1>6 DEF Doubles
<1> QED BY <1>5, <1>7

LEMMA ShlStep ==
    ASSUME NEW num \in Nat, NEW h \in Nat
    PROVE  Shl(num, 0) = num /\ Shl(num, h) \in Nat /\ Shl(num, h + 1) = Shl(num, h) * 2
<1>1. PICK z : Doubles(z, num, 0) /\ Shl(num, 0) = z[0]
  BY ShlRuns
<1>2. PICK u : Doubles(u, num, h) /\ Shl(num, h) = u[h]
  BY ShlRuns
<1>3. PICK v : Doubles(v, num, h + 1) /\ Shl(num, h + 1) = v[h + 1]
  BY ShlRuns
<1> DEFINE C == {k \in Nat : k <= h => u[k] \in Nat /\ u[k] = v[k]}
<1>4. 0 \in C
  BY <1>2, <1>3 DEF Doubles
<1>5. ASSUME NEW k \in Nat, k \in C PROVE k + 1 \in C
  <2> SUFFICES ASSUME k + 1 <= h PROVE u[k + 1] \in Nat /\ u[k + 1] = v[k + 1]
    OBVIOUS
  <2>1. u[k] \in Nat /\ u[k] = v[k] /\ k + 1 \in 1..h /\ k + 1 \in 1..(h + 1) /\ (k + 1) - 1 = k
    BY <1>5
  <2>2. u[k + 1] = u[k] * 2 /\ v[k + 1] = v[k] * 2
    BY <1>2, <1>3, <2>1 DEF Doubles
  <2> QED BY <2>1, <2>2
<1>6. \A k \in Nat : k \in C
  <2> HIDE DEF C
  <2> QED BY <1>4, <1>5, NatInd
<1>7. u[h] \in Nat /\ u[h] = v[h]
  BY <1>6
<1>8. h + 1 \in 1..(h + 1) /\ (h + 1) - 1 = h
  OBVIOUS
<1>9. v[h + 1] = v[h] * 2
  BY <1>3, <1>8 DEF Doubles
<1> QED BY <1>1, <1>2, <1>3, <1>7, <1>9 DEF Doubles

(* And to the right. *)
Halves(u, num, L) == u[0] = num /\ \A k \in 1..L : u[k] = u[k - 1] \div 2

LEMMA ShrRuns ==
    ASSUME NEW num \in Nat, NEW L \in Nat
    PROVE  \E u : Halves(u, num, L) /\ Shr(num, L) = u[L]
<1> DEFINE Step(g, k) == IF k = 0 THEN num ELSE g[k - 1] \div 2
           F(j, g) == g = [k \in 0..j |-> Step(g, k)]
           C == {j \in Nat : \E g : F(j, g)}
           bits == CHOOSE g : F(L, g)
<1>1. 0 \in C
  <2> DEFINE g == [k \in 0..0 |-> num]
  <2>1. g = [k \in 0..0 |-> Step(g, k)]
    OBVIOUS
  <2> HIDE DEF g, Step
  <2> QED BY <2>1
<1>2. ASSUME NEW j \in Nat, j \in C PROVE j + 1 \in C
  <2>1. PICK g : F(j, g)
    BY <1>2
  <2> DEFINE e == [k \in 0..(j + 1) |-> Step(g, k)]
  <2>2. \A k \in 0..j : e[k] = g[k]
    <3>1. \A k \in 0..j : g[k] = Step(g, k) /\ k \in 0..(j + 1)
      BY <2>1
    <3> HIDE DEF Step
    <3> QED BY <3>1
  <2>3. \A k \in 0..(j + 1) : Step(e, k) = Step(g, k)
    <3> TAKE k \in 0..(j + 1)
    <3>1. k # 0 => e[k - 1] = g[k - 1]
      <4> HIDE DEF e
      <4> SUFFICES ASSUME k # 0 PROVE e[k - 1] = g[k - 1]
        OBVIOUS
      <4>1. k - 1 \in 0..j
        OBVIOUS
      <4> QED BY <4>1, <2>2
    <3> HIDE DEF e
    <3> QED BY <3>1
  <2>4. F(j + 1, e)
    <3> HIDE DEF Step
    <3> QED BY <2>3
  <2> HIDE DEF e, F
  <2> QED BY <2>4
<1>3. \A j \in Nat : j \in C
  <2> HIDE DEF C
  <2> QED BY <1>1, <1>2, NatInd
<1>4. F(L, bits)
  <2>1. PICK g : F(L, g)
    BY <1>3
  <2> HIDE DEF F
  <2> QED BY <2>1
<1>5. Shr(num, L) = bits[L]
  BY DEF Shr
<1> HIDE DEF bits
<1>6. \A k \in 0..L : bits[k] = Step(bits, k)
  <2> HIDE DEF Step
  <2> QED BY <1>4
<1>7. Halves(bits, num, L)
  BY <1>6 DEF Halves
<1> QED BY <1>5, <1>7

LEMMA ShrStep ==
    ASSUME NEW num \in Nat, NEW h \in Nat
    PROVE  Shr(num, 0) = num /\ Shr(num, h) \in Nat /\ Shr(num, h + 1) = Shr(num, h) \div 2
<1>1. PICK z : Halves(z, num, 0) /\ Shr(num, 0) = z[0]
  BY ShrRuns
<1>2. PICK u : Halves(u, num, h) /\ Shr(num, h) = u[h]
  BY ShrRuns
<1>3. PICK v : Halves(v, num, h + 1) /\ Shr(num, h + 1) = v[h + 1]
  BY ShrRuns
<1> DEFINE C == {k \in Nat : k <= h => u[k] \in Nat /\ u[k] = v[k]}
<1>4. 0 \in C
  BY <1>2, <1>3 DEF Halves
<1>5. ASSUME NEW k \in Nat, k \in C PROVE k + 1 \in C
  <2> SUFFICES ASSUME k + 1 <= h PROVE u[k + 1] \in Nat /\ u[k + 1] = v[k + 1]
    OBVIOUS
  <2>1. u[k] \in Nat /\ u[k] = v[k] /\ k + 1 \in 1..h /\ k + 1 \in 1..(h + 1) /\ (k + 1) - 1 = k
    BY <1>5
  <2>2. u[k + 1] = u[k] \div 2 /\ v[k + 1] = v[k] \div 2
    BY <1>2, <1>3, <2>1 DEF Halves
  <2> QED BY <2>1, <2>2
<1>6. \A k \in Nat : k \in C
  <2> HIDE DEF C
  <2> QED BY <1>4, <1>5, NatInd
<1>7. u[h] \in Nat /\ u[h] = v[h]
  BY <1>6
<1>8. h + 1 \in 1..(h + 1) /\ (h + 1) - 1 = h
  OBVIOUS
<1>9. v[h + 1] = v[h] \div 2
  BY <1>3, <1>8 DEF Halves
<1> QED BY <1>1, <1>2, <1>3, <1>7, <1>9 DEF Halves

(* Halving first or last is the same. *)
LEMMA ShrFirst ==
    ASSUME NEW num \in Nat
    PROVE  \A h \in Nat : Shr(num, h + 1) = Shr(num \div 2, h)
<1> DEFINE C == {h \in Nat : Shr(num, h + 1) = Shr(num \div 2, h)}
<1>1. num \div 2 \in Nat
  OBVIOUS
<1>2. 0 \in C
  <2>1. Shr(num, 0 + 1) = Shr(num, 0) \div 2 /\ Shr(num, 0) = num
    BY ShrStep
  <2>2. Shr(num \div 2, 0) = num \div 2
    BY <1>1, ShrStep
  <2> QED BY <2>1, <2>2
<1>3. ASSUME NEW h \in Nat, h \in C PROVE h + 1 \in C
  <2>1. Shr(num, h + 1 + 1) = Shr(num, h + 1) \div 2
    BY ShrStep
  <2>2. Shr(num \div 2, h + 1) = Shr(num \div 2, h) \div 2
    BY <1>1, ShrStep
  <2> QED BY <1>3, <2>1, <2>2
<1>4. \A h \in Nat : h \in C
  <2> HIDE DEF C
  <2> QED BY <1>2, <1>3, NatInd
<1> QED BY <1>4

(* A width is half the one below, rounded up. *)
LEMMA WidthFirst ==
    ASSUME NEW n \in Nat \ {0}, NEW h \in Nat
    PROVE  TreeWidth(n, 0) = n /\ TreeWidth(n, h + 1) = TreeWidth((n + 1) \div 2, h)
<1> DEFINE D == Shl(1, h)
<1>1. Shl(1, 0) = 1 /\ D \in Nat /\ Shl(1, h + 1) = D * 2
  BY ShlStep
<1>2. TreeWidth(n, 0) = n
  <2>1. n + 1 - 1 = n
    OBVIOUS
  <2>2. Shr(n, 0) = n
    BY ShrStep
  <2> QED BY <1>1, <2>1, <2>2 DEF TreeWidth
<1>3. TreeWidth(n, h + 1) = Shr(n + D * 2 - 1, h + 1)
  BY <1>1 DEF TreeWidth
<1>4. TreeWidth((n + 1) \div 2, h) = Shr((n + 1) \div 2 + D - 1, h)
  BY DEF TreeWidth
<1> HIDE DEF D
<1>5. n + D * 2 - 1 \in Nat /\ (n + D * 2 - 1) \div 2 = (n + 1) \div 2 + D - 1
  BY <1>1
<1>6. Shr(n + D * 2 - 1, h + 1) = Shr((n + D * 2 - 1) \div 2, h)
  BY <1>5, ShrFirst
<1> QED BY <1>2, <1>3, <1>4, <1>5, <1>6

LEMMA WidthHalves ==
    ASSUME NEW n \in Nat \ {0}, NEW h \in Nat
    PROVE  /\ TreeWidth(n, 0) = n /\ TreeWidth(n, h) \in Nat \ {0}
           /\ TreeWidth(n, h + 1) = (TreeWidth(n, h) + 1) \div 2
<1> DEFINE C == {j \in Nat : \A k \in Nat \ {0} :
                    TreeWidth(k, j) \in Nat \ {0} /\ TreeWidth(k, j + 1) = (TreeWidth(k, j) + 1) \div 2}
<1>1. 0 \in C
  <2> SUFFICES ASSUME NEW k \in Nat \ {0}
               PROVE  TreeWidth(k, 0) \in Nat \ {0} /\ TreeWidth(k, 0 + 1) = (TreeWidth(k, 0) + 1) \div 2
    OBVIOUS
  <2>1. TreeWidth(k, 0) = k /\ TreeWidth(k, 0 + 1) = TreeWidth((k + 1) \div 2, 0)
    BY WidthFirst
  <2>2. (k + 1) \div 2 \in Nat \ {0}
    OBVIOUS
  <2>3. TreeWidth((k + 1) \div 2, 0) = (k + 1) \div 2
    BY <2>2, WidthFirst
  <2> QED BY <2>1, <2>3
<1>2. ASSUME NEW j \in Nat, j \in C PROVE j + 1 \in C
  <2> SUFFICES ASSUME NEW k \in Nat \ {0}
               PROVE  /\ TreeWidth(k, j + 1) \in Nat \ {0}
                      /\ TreeWidth(k, j + 1 + 1) = (TreeWidth(k, j + 1) + 1) \div 2
    OBVIOUS
  <2> DEFINE c == (k + 1) \div 2
  <2>1. c \in Nat \ {0}
    OBVIOUS
  <2>2. TreeWidth(k, j + 1) = TreeWidth(c, j)
    BY WidthFirst
  <2>3. TreeWidth(k, j + 1 + 1) = TreeWidth(c, j + 1)
    BY WidthFirst
  <2> HIDE DEF c
  <2>4. TreeWidth(c, j) \in Nat \ {0} /\ TreeWidth(c, j + 1) = (TreeWidth(c, j) + 1) \div 2
    BY <1>2, <2>1
  <2> QED BY <2>2, <2>3, <2>4
<1>3. \A j \in Nat : j \in C
  <2> HIDE DEF C
  <2> QED BY <1>1, <1>2, NatInd
<1> QED BY <1>3, WidthFirst

(* The root is where one node is left. *)
LEMMA RootHeight ==
    ASSUME NEW n \in Nat \ {0}
    PROVE  /\ TreeHeight(n) \in 0..n /\ TreeWidth(n, TreeHeight(n)) = 1
           /\ \A k \in 0..(TreeHeight(n) - 1) : TreeWidth(n, k) > 1
<1> DEFINE W(h) == TreeWidth(n, h)
           C == {h \in Nat : W(h) <= 1 \/ W(h) <= n - h}
           Single == {h \in Nat : h <= n /\ W(h) <= 1}
<1>1. W(0) = n /\ \A h \in Nat : W(h) \in Nat \ {0} /\ W(h + 1) = (W(h) + 1) \div 2
  BY WidthHalves
<1> HIDE DEF W
<1>2. 0 \in C
  BY <1>1
<1>3. ASSUME NEW h \in Nat, h \in C PROVE h + 1 \in C
  <2>1. W(h) \in Nat \ {0} /\ W(h + 1) = (W(h) + 1) \div 2
    BY <1>1
  <2> QED BY <1>3, <2>1
<1>4. n \in Single
  <2>1. n \in C
    <3> HIDE DEF C
    <3> QED BY <1>2, <1>3, NatInd
  <2>2. n - n = 0 /\ W(n) \in Nat \ {0}
    BY <1>1
  <2> QED BY <2>1, <2>2
<1>5. PICK least \in Single : \A k \in Single : least <= k
  <2>1. Single \in SUBSET Nat /\ Single # {}
    BY <1>4
  <2> HIDE DEF Single
  <2> QED BY <2>1, LeastNumber
<1>6. least \in 0..n /\ W(least) <= 1
  OBVIOUS
<1>7. ASSUME NEW k \in 0..(least - 1) PROVE W(k) > 1
  <2>1. k \in Nat /\ k < least /\ k <= n /\ W(k) \in Nat
    BY <1>1, <1>6
  <2>2. k \notin Single
    BY <1>5, <1>6, <2>1
  <2> QED BY <2>1, <2>2
<1> DEFINE Root(h) == W(h) <= 1 /\ \A k \in 0..(h - 1) : W(k) > 1
<1>8. least \in 0..n /\ Root(least)
  BY <1>6, <1>7
<1>9. TreeHeight(n) = CHOOSE h \in 0..n : Root(h)
  BY DEF TreeHeight, W
<1>10. TreeHeight(n) \in 0..n /\ Root(TreeHeight(n))
  <2> HIDE DEF Root
  <2> QED BY <1>8, <1>9
<1>11. W(TreeHeight(n)) = 1
  <2>1. TreeHeight(n) \in Nat
    BY <1>10
  <2>2. W(TreeHeight(n)) \in Nat \ {0}
    BY <2>1, <1>1
  <2> QED BY <1>10, <2>2
<1> QED BY <1>10, <1>11 DEF W

(* The nodes of a height, from those below; the tree, height by height. *)
Row(ids, below, h) ==
    [pos \in 0..(TreeWidth(Len(ids), h) - 1) |->
        IF h = 0 THEN <<ids[pos + 1]>>
        ELSE IF pos * 2 + 1 < TreeWidth(Len(ids), h - 1)
             THEN MerkleHash(below[pos * 2], below[pos * 2 + 1])
             ELSE MerkleHash(below[pos * 2], below[pos * 2])]

Nodes(node, ids) ==
    \A h \in 0..TreeHeight(Len(ids)) : node[h] = Row(ids, node[h - 1], h)

LEMMA NodesRun ==
    ASSUME NEW ids, Len(ids) \in Nat \ {0}
    PROVE  \E node : Nodes(node, ids) /\ ComputeMerkle(ids) = node[TreeHeight(Len(ids))][0]
<1> DEFINE L == TreeHeight(Len(ids))
           F(j, g) == g = [h \in 0..j |-> Row(ids, g[h - 1], h)]
           C == {j \in Nat : \E g : F(j, g)}
           tree == CHOOSE g : F(L, g)
<1>1. L \in Nat
  BY RootHeight
<1>2. ComputeMerkle(ids) = tree[L][0]
  BY DEF ComputeMerkle, Row
<1> HIDE DEF L
<1>3. 0 \in C
  <2> DEFINE g == [h \in 0..0 |-> Row(ids, 0, h)]
  <2>1. \A h \in 0..0 : Row(ids, 0, h) = Row(ids, g[h - 1], h)
    <3> HIDE DEF g
    <3> QED BY DEF Row
  <2>2. F(0, g)
    <3> DEFINE R(e, h) == Row(ids, e, h)
    <3>1. \A h \in 0..0 : R(0, h) = R(g[h - 1], h)
      BY <2>1
    <3> HIDE DEF R
    <3>2. [h \in 0..0 |-> R(0, h)] = [h \in 0..0 |-> R(g[h - 1], h)]
      BY <3>1
    <3> QED BY <3>2 DEF R
  <2> HIDE DEF g, F
  <2> QED BY <2>2
<1>4. ASSUME NEW j \in Nat, j \in C PROVE j + 1 \in C
  <2>1. PICK g : F(j, g)
    BY <1>4
  <2> DEFINE e == [h \in 0..(j + 1) |-> Row(ids, g[h - 1], h)]
  <2>2. \A h \in 0..j : e[h] = g[h]
    <3>1. \A h \in 0..j : g[h] = Row(ids, g[h - 1], h) /\ h \in 0..(j + 1)
      BY <2>1
    <3> QED BY <3>1
  <2> HIDE DEF e
  <2>3. ASSUME NEW h \in 0..(j + 1) PROVE Row(ids, e[h - 1], h) = Row(ids, g[h - 1], h)
    <3>1. CASE h = 0
      BY <3>1 DEF Row
    <3>2. CASE h # 0
      <4>1. h - 1 \in 0..j
        BY <3>2
      <4> QED BY <4>1, <2>2
    <3> QED BY <3>1, <3>2
  <2>4. F(j + 1, e)
    BY <2>3 DEF e
  <2> HIDE DEF F
  <2> QED BY <2>4
<1>5. \A j \in Nat : j \in C
  <2> HIDE DEF C
  <2> QED BY <1>3, <1>4, NatInd
<1>6. F(L, tree)
  <2>1. PICK g : F(L, g)
    BY <1>1, <1>5
  <2> HIDE DEF F
  <2> QED BY <2>1
<1> HIDE DEF tree
<1>7. \A h \in 0..L : tree[h] = Row(ids, tree[h - 1], h)
  BY <1>6
<1>8. Nodes(tree, ids)
  BY <1>7 DEF Nodes, L
<1> QED BY <1>2, <1>8 DEF L

(* A node above the leaves is of its two sons; the last may have but one. *)
LEMMA Sons ==
    ASSUME NEW ids, Len(ids) \in Nat \ {0}, NEW node, Nodes(node, ids),
           NEW h \in 1..TreeHeight(Len(ids)), NEW pos \in 0..(TreeWidth(Len(ids), h) - 1)
    PROVE  /\ pos * 2 \in 0..(TreeWidth(Len(ids), h - 1) - 1)
           /\ node[h][pos] = <<node[h - 1][pos * 2],
                               IF pos * 2 + 1 < TreeWidth(Len(ids), h - 1)
                               THEN node[h - 1][pos * 2 + 1] ELSE node[h - 1][pos * 2]>>
<1> DEFINE W(k) == TreeWidth(Len(ids), k)
<1>1. TreeHeight(Len(ids)) \in Nat
  BY RootHeight
<1>2. h \in 0..TreeHeight(Len(ids)) /\ h # 0 /\ h - 1 \in Nat /\ (h - 1) + 1 = h
  BY <1>1
<1>3. W(h - 1) \in Nat \ {0} /\ W(h) = (W(h - 1) + 1) \div 2
  BY <1>2, WidthHalves
<1>4. node[h] = Row(ids, node[h - 1], h)
  BY <1>2 DEF Nodes
<1>5. pos * 2 \in 0..(W(h - 1) - 1)
  <2> HIDE DEF W
  <2> QED BY <1>3 DEF W
<1>6. node[h][pos] = IF pos * 2 + 1 < W(h - 1)
                     THEN MerkleHash(node[h - 1][pos * 2], node[h - 1][pos * 2 + 1])
                     ELSE MerkleHash(node[h - 1][pos * 2], node[h - 1][pos * 2])
  BY <1>2, <1>4 DEF Row
<1> QED BY <1>5, <1>6 DEF MerkleHash

LEMMA Leaves ==
    ASSUME NEW ids, Len(ids) \in Nat \ {0}, NEW node, Nodes(node, ids)
    PROVE  \A pos \in 0..(Len(ids) - 1) : node[0][pos] = <<ids[pos + 1]>>
<1>1. 0 \in 0..TreeHeight(Len(ids))
  BY RootHeight
<1>2. node[0] = Row(ids, node[0 - 1], 0)
  BY <1>1 DEF Nodes
<1>3. TreeWidth(Len(ids), 0) = Len(ids)
  BY WidthHalves
<1> QED BY <1>2, <1>3 DEF Row

-----------------------------------------------------------------------------
(* The levels of the reference, as a run. *)
NextLevel(l) == IF Len(l) = 1 THEN l ELSE PairedUp(l)

Levels(level, ids) ==
    /\ level[0] = [i \in DOMAIN ids |-> <<ids[i]>>]
    /\ \A d \in 1..Len(ids) : level[d] = NextLevel(level[d - 1])

LEMMA LevelsRun ==
    ASSUME NEW ids, Len(ids) \in Nat
    PROVE  \E level : Levels(level, ids) /\ RootByLevels(ids) = level[Len(ids)][1]
<1> DEFINE L == Len(ids)
           First == [i \in DOMAIN ids |-> <<ids[i]>>]
           Step(g, d) == IF d = 0 THEN First ELSE NextLevel(g[d - 1])
           F(j, g) == g = [d \in 0..j |-> Step(g, d)]
           C == {j \in Nat : \E g : F(j, g)}
           tower == CHOOSE g : F(L, g)
<1>1. RootByLevels(ids) = tower[L][1]
  BY DEF RootByLevels, NextLevel
<1> HIDE DEF L, First
<1>2. L \in Nat
  BY DEF L
<1>3. 0 \in C
  <2> DEFINE g == [d \in 0..0 |-> First]
  <2>1. F(0, g)
    OBVIOUS
  <2> HIDE DEF g, F
  <2> QED BY <2>1
<1>4. ASSUME NEW j \in Nat, j \in C PROVE j + 1 \in C
  <2>1. PICK g : F(j, g)
    BY <1>4
  <2> DEFINE e == [d \in 0..(j + 1) |-> Step(g, d)]
  <2>2. \A d \in 0..j : e[d] = g[d]
    <3>1. \A d \in 0..j : g[d] = Step(g, d) /\ d \in 0..(j + 1)
      BY <2>1
    <3> HIDE DEF Step
    <3> QED BY <3>1
  <2>3. ASSUME NEW d \in 0..(j + 1) PROVE Step(e, d) = Step(g, d)
    <3> HIDE DEF e
    <3>1. d # 0 => e[d - 1] = g[d - 1]
      <4> SUFFICES ASSUME d # 0 PROVE e[d - 1] = g[d - 1]
        OBVIOUS
      <4>1. d - 1 \in 0..j
        OBVIOUS
      <4> QED BY <4>1, <2>2
    <3> QED BY <3>1
  <2>4. F(j + 1, e)
    <3> HIDE DEF Step
    <3> QED BY <2>3
  <2> HIDE DEF e, F
  <2> QED BY <2>4
<1>5. \A j \in Nat : j \in C
  <2> HIDE DEF C
  <2> QED BY <1>3, <1>4, NatInd
<1>6. F(L, tower)
  <2>1. PICK g : F(L, g)
    BY <1>2, <1>5
  <2> HIDE DEF F
  <2> QED BY <2>1
<1> HIDE DEF tower
<1>7. \A d \in 0..L : tower[d] = Step(tower, d)
  <2> HIDE DEF Step
  <2> QED BY <1>6
<1>8. Levels(tower, ids)
  <2>1. tower[0] = First
    BY <1>7, <1>2
  <2>2. ASSUME NEW d \in 1..L PROVE tower[d] = NextLevel(tower[d - 1])
    <3>1. d \in 0..L /\ d # 0
      BY <1>2
    <3> QED BY <3>1, <1>7
  <2> QED BY <2>1, <2>2 DEF Levels, L, First
<1> QED BY <1>1, <1>8 DEF L

(* A row of the tree and a level hold the same. *)
Same(l, row, w) ==
    Len(l) = w /\ (\E S : l \in Seq(S)) /\ \A i \in 1..w : l[i] = row[i - 1]

LEMMA Paired ==
    ASSUME NEW l, \E S : l \in Seq(S), Len(l) \in Nat \ {0}
    PROVE  Len(PairedUp(l)) = (Len(l) + 1) \div 2 /\ \E S : PairedUp(l) \in Seq(S)
<1> DEFINE c == (Len(l) + 1) \div 2
           P(i) == MerkleHash(l[2 * i - 1], l[IF 2 * i <= Len(l) THEN 2 * i ELSE 2 * i - 1])
           S == {P(i) : i \in 1..c}
<1>1. c \in Nat
  OBVIOUS
<1>2. PairedUp(l) = [i \in 1..c |-> P(i)]
  BY DEF PairedUp
<1> HIDE DEF c, P
<1>3. [i \in 1..c |-> P(i)] \in [1..c -> S]
  OBVIOUS
<1> HIDE DEF S
<1>4. [i \in 1..c |-> P(i)] \in Seq(S) /\ Len([i \in 1..c |-> P(i)]) = c
  BY <1>1, <1>3
<1> QED BY <1>2, <1>4 DEF c

LEMMA RowsAreLevels ==
    ASSUME NEW S, NEW ids \in Seq(S), ids # <<>>, NEW node, Nodes(node, ids),
           NEW level, Levels(level, ids)
    PROVE  \A d \in 0..TreeHeight(Len(ids)) : Same(level[d], node[d], TreeWidth(Len(ids), d))
<1> DEFINE n == Len(ids)
           H == TreeHeight(n)
           W(d) == TreeWidth(n, d)
           C == {d \in Nat : d <= H => Same(level[d], node[d], W(d))}
<1>1. n \in Nat \ {0} /\ ids \in [1..n -> S] /\ DOMAIN ids = 1..n
  OBVIOUS
<1>2. H \in 0..n /\ \A k \in 0..(H - 1) : W(k) > 1
  BY <1>1, RootHeight
<1>3. 0 \in C
  <2>1. W(0) = n
    BY <1>1, WidthHalves
  <2>2. level[0] = [i \in 1..n |-> <<ids[i]>>]
    BY <1>1 DEF Levels
  <2> DEFINE T == {<<v>> : v \in S}
  <2>3. [i \in 1..n |-> <<ids[i]>>] \in [1..n -> T]
    BY <1>1
  <2> HIDE DEF n, T
  <2>4. level[0] \in Seq(T) /\ Len(level[0]) = n
    BY <1>1, <2>2, <2>3
  <2>5. \A i \in 1..n : level[0][i] = node[0][i - 1]
    <3> TAKE i \in 1..n
    <3>1. i - 1 \in 0..(n - 1) /\ (i - 1) + 1 = i
      BY <1>1
    <3>2. node[0][i - 1] = <<ids[i]>>
      BY <1>1, <3>1, Leaves DEF n
    <3> QED BY <2>2, <3>2
  <2> QED BY <2>1, <2>4, <2>5 DEF Same
<1>4. ASSUME NEW d \in Nat, d \in C PROVE d + 1 \in C
  <2> SUFFICES ASSUME d + 1 <= H PROVE Same(level[d + 1], node[d + 1], W(d + 1))
    OBVIOUS
  <2> HIDE DEF n, H, W
  <2>1. d \in 0..(H - 1) /\ d + 1 \in 1..n /\ d + 1 \in 1..H /\ (d + 1) - 1 = d
    BY <1>1, <1>2
  <2>2. Same(level[d], node[d], W(d)) /\ W(d) > 1 /\ W(d) \in Nat \ {0} /\ W(d + 1) = (W(d) + 1) \div 2
    <3>1. W(d) \in Nat \ {0} /\ W(d + 1) = (W(d) + 1) \div 2
      BY <1>1, WidthHalves DEF W
    <3> QED BY <1>2, <1>4, <2>1, <3>1
  <2>3. Len(level[d]) = W(d) /\ (\E SS : level[d] \in Seq(SS)) /\ \A i \in 1..W(d) : level[d][i] = node[d][i - 1]
    BY <2>2 DEF Same
  <2>4. level[d + 1] = PairedUp(level[d])
    <3>1. level[d + 1] = NextLevel(level[d])
      BY <2>1 DEF Levels, n
    <3>2. Len(level[d]) # 1
      BY <2>2, <2>3
    <3> QED BY <3>1, <3>2 DEF NextLevel
  <2>5. Len(level[d + 1]) = W(d + 1) /\ \E SS : level[d + 1] \in Seq(SS)
    BY <2>2, <2>3, <2>4, Paired
  <2>6. ASSUME NEW i \in 1..W(d + 1) PROVE level[d + 1][i] = node[d + 1][i - 1]
    <3>1. /\ i \in 1..((Len(level[d]) + 1) \div 2) /\ i - 1 \in 0..(W(d + 1) - 1)
          /\ 2 * i - 1 \in 1..W(d) /\ (2 * i - 1) - 1 = (i - 1) * 2
          /\ 2 * i <= W(d) => 2 * i \in 1..W(d)
          /\ 2 * i - 1 = (i - 1) * 2 + 1
          /\ (2 * i <= W(d)) = ((i - 1) * 2 + 1 < W(d))
      BY <2>2, <2>3
    <3>2. level[d + 1][i] = <<level[d][2 * i - 1], level[d][IF 2 * i <= W(d) THEN 2 * i ELSE 2 * i - 1]>>
      BY <2>3, <2>4, <3>1 DEF PairedUp, MerkleHash
    <3>3. node[d + 1][i - 1] = <<node[d][(i - 1) * 2],
                                 IF (i - 1) * 2 + 1 < W(d) THEN node[d][(i - 1) * 2 + 1] ELSE node[d][(i - 1) * 2]>>
      BY <1>1, <2>1, <3>1, Sons DEF n, H, W
    <3>4. level[d][2 * i - 1] = node[d][(i - 1) * 2]
      BY <2>3, <3>1
    <3>5. 2 * i <= W(d) => level[d][2 * i] = node[d][(i - 1) * 2 + 1]
      BY <2>3, <3>1
    <3>6. CASE 2 * i <= W(d)
      BY <3>1, <3>2, <3>3, <3>4, <3>5, <3>6
    <3>7. CASE ~(2 * i <= W(d))
      BY <3>1, <3>2, <3>3, <3>4, <3>7
    <3> QED BY <3>6, <3>7
  <2> QED BY <2>5, <2>6 DEF Same
<1>5. \A d \in Nat : d \in C
  <2> HIDE DEF C
  <2> QED BY <1>3, <1>4, NatInd
<1> QED BY <1>2, <1>5

(* Both ways give the root. *)
LEMMA RootsAgree ==
    ASSUME NEW S, NEW ids \in Seq(S), ids # <<>>
    PROVE  ComputeMerkle(ids) = RootByLevels(ids)
<1> DEFINE n == Len(ids)
           H == TreeHeight(n)
<1>1. n \in Nat \ {0}
  OBVIOUS
<1>2. H \in 0..n /\ TreeWidth(n, H) = 1
  BY <1>1, RootHeight
<1>3. PICK node : Nodes(node, ids) /\ ComputeMerkle(ids) = node[H][0]
  BY <1>1, NodesRun
<1>4. PICK level : Levels(level, ids) /\ RootByLevels(ids) = level[n][1]
  BY <1>1, LevelsRun
<1>5. Same(level[H], node[H], 1)
  <2>1. Same(level[H], node[H], TreeWidth(n, H))
    BY <1>2, <1>3, <1>4, RowsAreLevels
  <2> QED BY <1>2, <2>1
<1> HIDE DEF n, H
<1> DEFINE C == {j \in Nat : H + j <= n => level[H + j] = level[H]}
<1>6. 0 \in C
  BY <1>2
<1>7. ASSUME NEW j \in Nat, j \in C PROVE j + 1 \in C
  <2> SUFFICES ASSUME H + (j + 1) <= n PROVE level[H + (j + 1)] = level[H]
    OBVIOUS
  <2>1. H + (j + 1) \in 1..n /\ (H + (j + 1)) - 1 = H + j /\ level[H + j] = level[H]
    BY <1>1, <1>2, <1>7
  <2>2. level[H + (j + 1)] = NextLevel(level[H])
    BY <1>4, <2>1 DEF Levels, n
  <2> QED BY <2>2, <1>5 DEF NextLevel, Same
<1>8. \A j \in Nat : j \in C
  <2> HIDE DEF C
  <2> QED BY <1>6, <1>7, NatInd
<1>9. level[n] = level[H]
  <2>1. n \in Nat /\ H \in 0..n
    BY <1>1, <1>2 DEF n, H
  <2>2. PICK j \in Nat : H + j = n
    <3>1. n - H \in Nat /\ H + (n - H) = n
      BY <2>1
    <3> QED BY <3>1
  <2>3. H + j <= n
    BY <2>1, <2>2
  <2>4. j \in C
    BY <1>8
  <2>5. level[H + j] = level[H]
    BY <2>3, <2>4
  <2> QED BY <2>2, <2>5
<1>10. level[H][1] = node[H][0]
  BY <1>5 DEF Same
<1> QED BY <1>3, <1>4, <1>9, <1>10

(* Trees are equal where their parts are; a leaf is no pair. *)
LEMMA PairEq ==
    ASSUME NEW a, NEW b, NEW r, NEW s, <<a, r>> = <<b, s>>
    PROVE  a = b /\ r = s
OBVIOUS

LEMMA LeafEq ==
    ASSUME NEW a, NEW b, <<a>> = <<b>>
    PROVE  a = b
OBVIOUS

LEMMA LeafNoPair ==
    ASSUME NEW a, NEW r, NEW s
    PROVE  <<a>> # <<r, s>>
OBVIOUS

(* A block's transactions: some, none of them twice. *)
Listed(ids) ==
    (\E S : ids \in Seq(S)) /\ ids # <<>> /\ \A i, j \in DOMAIN ids : ids[i] = ids[j] => i = j

LEMMA ListedLen ==
    ASSUME NEW ids, Listed(ids)
    PROVE  Len(ids) \in Nat \ {0} /\ DOMAIN ids = 1..Len(ids)
BY DEF Listed

(* No node comes twice in a row of the tree. *)
LEMMA RowsDiffer ==
    ASSUME NEW ids, Listed(ids), NEW node, Nodes(node, ids)
    PROVE  \A h \in 0..TreeHeight(Len(ids)) : \A p, q \in 0..(TreeWidth(Len(ids), h) - 1) :
              node[h][p] = node[h][q] => p = q
<1> DEFINE n == Len(ids)
           H == TreeHeight(n)
           W(h) == TreeWidth(n, h)
           C == {h \in Nat : h <= H => \A p, q \in 0..(W(h) - 1) : node[h][p] = node[h][q] => p = q}
<1>1. n \in Nat \ {0} /\ DOMAIN ids = 1..n /\ H \in Nat
  BY ListedLen, RootHeight
<1>2. 0 \in C
  <2>1. W(0) = n
    BY <1>1, WidthHalves
  <2> SUFFICES ASSUME NEW p \in 0..(n - 1), NEW q \in 0..(n - 1), node[0][p] = node[0][q]
               PROVE  p = q
    BY <2>1
  <2>2. node[0][p] = <<ids[p + 1]>> /\ node[0][q] = <<ids[q + 1]>>
    BY <1>1, Leaves
  <2>3. ids[p + 1] = ids[q + 1] /\ p + 1 \in 1..n /\ q + 1 \in 1..n
    <3>1. <<ids[p + 1]>> = <<ids[q + 1]>>
      BY <2>2
    <3>2. ids[p + 1] = ids[q + 1]
      BY <3>1, LeafEq
    <3> QED BY <1>1, <3>2
  <2>4. p + 1 = q + 1
    BY <1>1, <2>3 DEF Listed
  <2> QED BY <2>4
<1>3. ASSUME NEW h \in Nat, h \in C PROVE h + 1 \in C
  <2> SUFFICES ASSUME h + 1 <= H, NEW p \in 0..(W(h + 1) - 1), NEW q \in 0..(W(h + 1) - 1),
                      node[h + 1][p] = node[h + 1][q]
               PROVE  p = q
    OBVIOUS
  <2>1. h + 1 \in 1..H /\ (h + 1) - 1 = h /\ h <= H
    BY <1>1
  <2>2. p * 2 \in 0..(W(h) - 1) /\ \E r : node[h + 1][p] = <<node[h][p * 2], r>>
    BY <1>1, <2>1, Sons
  <2>3. q * 2 \in 0..(W(h) - 1) /\ \E r : node[h + 1][q] = <<node[h][q * 2], r>>
    BY <1>1, <2>1, Sons
  <2>4. node[h][p * 2] = node[h][q * 2]
    <3>1. PICK r : node[h + 1][p] = <<node[h][p * 2], r>>
      BY <2>2
    <3>2. PICK s : node[h + 1][q] = <<node[h][q * 2], s>>
      BY <2>3
    <3>3. <<node[h][p * 2], r>> = <<node[h][q * 2], s>>
      BY <3>1, <3>2
    <3> QED BY <3>3, PairEq
  <2>5. p * 2 = q * 2
    BY <1>3, <2>1, <2>2, <2>3, <2>4
  <2>6. p \in Int /\ q \in Int
    <3>1. W(h + 1) \in Nat
      BY <1>1, WidthHalves
    <3> QED BY <3>1
  <2> QED BY <2>5, <2>6
<1>4. \A h \in Nat : h \in C
  <2> HIDE DEF C
  <2> QED BY <1>2, <1>3, NatInd
<1> QED BY <1>1, <1>4

(* The leftmost way down: as long as the root is high. *)
LEMMA RootsAtHeight ==
    ASSUME NEW ids, NEW other, Listed(ids), Listed(other),
           TreeHeight(Len(ids)) < TreeHeight(Len(other))
    PROVE  ComputeMerkle(ids) # ComputeMerkle(other)
<1> DEFINE H == TreeHeight(Len(ids))
           K == TreeHeight(Len(other))
<1>1. Len(ids) \in Nat \ {0} /\ Len(other) \in Nat \ {0} /\ H \in Nat /\ K \in Nat /\ H < K
  BY ListedLen, RootHeight
<1>2. PICK node : Nodes(node, ids) /\ ComputeMerkle(ids) = node[H][0]
  BY <1>1, NodesRun
<1>3. PICK nade : Nodes(nade, other) /\ ComputeMerkle(other) = nade[K][0]
  BY <1>1, NodesRun
<1>4. SUFFICES ASSUME node[H][0] = nade[K][0] PROVE FALSE
  BY <1>2, <1>3
<1>5. ASSUME NEW h \in 1..H PROVE \E r : node[h][0] = <<node[h - 1][0], r>>
  <2>1. 0 \in 0..(TreeWidth(Len(ids), h) - 1) /\ 0 * 2 = 0
    <3>1. h \in Nat
      BY <1>1
    <3>2. TreeWidth(Len(ids), h) \in Nat \ {0}
      BY <1>1, <3>1, WidthHalves
    <3> QED BY <3>2
  <2> QED BY <1>1, <1>2, <2>1, Sons
<1>6. ASSUME NEW h \in 1..K PROVE \E r : nade[h][0] = <<nade[h - 1][0], r>>
  <2>1. 0 \in 0..(TreeWidth(Len(other), h) - 1) /\ 0 * 2 = 0
    <3>1. h \in Nat
      BY <1>1
    <3>2. TreeWidth(Len(other), h) \in Nat \ {0}
      BY <1>1, <3>1, WidthHalves
    <3> QED BY <3>2
  <2> QED BY <1>1, <1>3, <2>1, Sons
<1>7. node[0][0] = <<ids[1]>>
  <2>1. 0 \in 0..(Len(ids) - 1) /\ 0 + 1 = 1
    BY <1>1
  <2>2. node[0][0] = <<ids[0 + 1]>>
    BY <1>1, <1>2, <2>1, Leaves
  <2> QED BY <2>1, <2>2
<1> HIDE DEF H, K
<1> DEFINE C == {j \in Nat : j <= H => node[H - j][0] = nade[K - j][0]}
<1>8. 0 \in C
  <2>1. H - 0 = H /\ K - 0 = K
    BY <1>1
  <2> QED BY <1>4, <2>1
<1>9. ASSUME NEW j \in Nat, j \in C PROVE j + 1 \in C
  <2> SUFFICES ASSUME j + 1 <= H PROVE node[H - (j + 1)][0] = nade[K - (j + 1)][0]
    OBVIOUS
  <2>1. /\ H - j \in 1..H /\ K - j \in 1..K /\ j <= H
        /\ (H - j) - 1 = H - (j + 1) /\ (K - j) - 1 = K - (j + 1)
    BY <1>1
  <2>2. node[H - j][0] = nade[K - j][0]
    BY <1>9, <2>1
  <2>3. PICK r : node[H - j][0] = <<node[H - (j + 1)][0], r>>
    BY <1>5, <2>1
  <2>4. PICK s : nade[K - j][0] = <<nade[K - (j + 1)][0], s>>
    BY <1>6, <2>1
  <2>5. <<node[H - (j + 1)][0], r>> = <<nade[K - (j + 1)][0], s>>
    BY <2>2, <2>3, <2>4
  <2> QED BY <2>5, PairEq
<1>10. \A j \in Nat : j \in C
  <2> HIDE DEF C
  <2> QED BY <1>8, <1>9, NatInd
<1>11. node[0][0] = nade[K - H][0]
  <2>1. H - H = 0 /\ H <= H
    BY <1>1
  <2> QED BY <1>1, <1>10, <2>1
<1>12. PICK r, s : nade[K - H][0] = <<r, s>>
  <2>1. K - H \in 1..K
    BY <1>1
  <2> QED BY <1>6, <2>1
<1>13. <<ids[1]>> = <<r, s>>
  BY <1>7, <1>11, <1>12
<1> QED BY <1>13, LeafNoPair

(* Rows as wide, and the same in them. *)
AsWide(node, nade, ids, other, h) ==
    /\ TreeWidth(Len(ids), h) = TreeWidth(Len(other), h)
    /\ \A pos \in 0..(TreeWidth(Len(ids), h) - 1) : node[h][pos] = nade[h][pos]

(* A node with one son is its double, and no row has doubles. *)
LEMMA NoWider ==
    ASSUME NEW ids, NEW other, Listed(ids), Listed(other), NEW node, NEW nade,
           Nodes(node, ids), Nodes(nade, other), NEW h \in Nat,
           h + 1 <= TreeHeight(Len(ids)), h + 1 <= TreeHeight(Len(other)),
           AsWide(node, nade, ids, other, h + 1)
    PROVE  TreeWidth(Len(ids), h) <= TreeWidth(Len(other), h)
<1> DEFINE V(k) == TreeWidth(Len(ids), k)
           W(k) == TreeWidth(Len(other), k)
           pos == W(h + 1) - 1
<1>1. Len(ids) \in Nat \ {0} /\ Len(other) \in Nat \ {0}
  BY ListedLen
<1>2. h + 1 \in 1..TreeHeight(Len(ids)) /\ h + 1 \in 1..TreeHeight(Len(other)) /\ (h + 1) - 1 = h
  BY <1>1, RootHeight
<1>3. V(h) \in Nat \ {0} /\ V(h + 1) = (V(h) + 1) \div 2
  BY <1>1, WidthHalves
<1>4. W(h) \in Nat \ {0} /\ W(h + 1) = (W(h) + 1) \div 2
  BY <1>1, WidthHalves
<1>5. V(h + 1) = W(h + 1)
  BY DEF AsWide
<1>6. SUFFICES ASSUME V(h) > W(h) PROVE FALSE
  BY <1>3, <1>4
<1> HIDE DEF V, W
<1>7. /\ pos \in 0..(V(h + 1) - 1) /\ pos \in 0..(W(h + 1) - 1)
      /\ pos * 2 + 1 < V(h) /\ ~(pos * 2 + 1 < W(h))
  <2> DEFINE vh == V(h)
             wh == W(h)
             wn == W(h + 1)
  <2>1. vh \in Nat \ {0} /\ wh \in Nat \ {0} /\ vh > wh
        /\ wn = (vh + 1) \div 2 /\ wn = (wh + 1) \div 2
    BY <1>3, <1>4, <1>5, <1>6
  <2> HIDE DEF vh, wh, wn
  <2>2. wn \in Nat \ {0} /\ (wn - 1) * 2 + 1 < vh /\ ~((wn - 1) * 2 + 1 < wh)
    BY <2>1
  <2>3. wn - 1 \in 0..(wn - 1)
    BY <2>2
  <2> QED BY <2>2, <2>3, <1>5 DEF vh, wh, wn
<1> HIDE DEF pos
<1>8. pos * 2 \in 0..(V(h) - 1) /\ node[h + 1][pos] = <<node[h][pos * 2], node[h][pos * 2 + 1]>>
  BY <1>1, <1>2, <1>7, Sons DEF V
<1>9. nade[h + 1][pos] = <<nade[h][pos * 2], nade[h][pos * 2]>>
  BY <1>1, <1>2, <1>7, Sons DEF W
<1>10. node[h + 1][pos] = nade[h + 1][pos]
  BY <1>7 DEF AsWide, V
<1>11. node[h][pos * 2] = node[h][pos * 2 + 1]
  BY <1>8, <1>9, <1>10
<1>12. pos \in Int /\ pos * 2 + 1 \in 0..(V(h) - 1) /\ h \in 0..TreeHeight(Len(ids))
  <2>1. pos \in Int
    BY <1>4, <1>7
  <2>2. h \in 0..TreeHeight(Len(ids))
    BY <1>1, RootHeight
  <2> QED BY <1>3, <1>7, <2>1, <2>2
<1>13. pos * 2 = pos * 2 + 1
  BY <1>8, <1>11, <1>12, RowsDiffer DEF V
<1> QED BY <1>12, <1>13

LEMMA AsWideBelow ==
    ASSUME NEW ids, NEW other, Listed(ids), Listed(other), NEW node, NEW nade,
           Nodes(node, ids), Nodes(nade, other), NEW h \in Nat,
           h + 1 <= TreeHeight(Len(ids)), h + 1 <= TreeHeight(Len(other)),
           AsWide(node, nade, ids, other, h + 1)
    PROVE  AsWide(node, nade, ids, other, h)
<1> DEFINE V(k) == TreeWidth(Len(ids), k)
           W(k) == TreeWidth(Len(other), k)
<1>1. Len(ids) \in Nat \ {0} /\ Len(other) \in Nat \ {0}
  BY ListedLen
<1>2. h + 1 \in 1..TreeHeight(Len(ids)) /\ h + 1 \in 1..TreeHeight(Len(other)) /\ (h + 1) - 1 = h
  BY <1>1, RootHeight
<1>3. V(h) \in Nat \ {0} /\ V(h + 1) = (V(h) + 1) \div 2
  BY <1>1, WidthHalves
<1>4. W(h) \in Nat \ {0} /\ W(h + 1) = (W(h) + 1) \div 2
  BY <1>1, WidthHalves
<1>5. V(h) = W(h)
  <2>1. V(h) <= W(h)
    BY NoWider
  <2>2. AsWide(nade, node, other, ids, h + 1)
    BY DEF AsWide
  <2>3. W(h) <= V(h)
    BY <2>2, NoWider
  <2> QED BY <1>3, <1>4, <2>1, <2>3
<1> HIDE DEF V, W
<1>6. ASSUME NEW q \in 0..(V(h) - 1) PROVE node[h][q] = nade[h][q]
  <2> DEFINE p == q \div 2
  <2>1. /\ p \in 0..(V(h + 1) - 1) /\ p \in 0..(W(h + 1) - 1)
        /\ (q = p * 2 \/ (q = p * 2 + 1 /\ p * 2 + 1 < V(h) /\ p * 2 + 1 < W(h)))
    <3>1. q \in Int /\ V(h) \in Nat \ {0} /\ q \in 0..(V(h) - 1) /\ V(h + 1) \in Int
      BY <1>3
    <3>2. p \in 0..(V(h + 1) - 1) /\ (q = p * 2 \/ q = p * 2 + 1)
      BY <1>3, <3>1
    <3> HIDE DEF p
    <3>3. V(h + 1) = W(h + 1)
      BY <1>3, <1>4, <1>5
    <3> QED BY <1>5, <3>1, <3>2, <3>3
  <2> HIDE DEF p
  <2>2. node[h + 1][p] = <<node[h][p * 2], IF p * 2 + 1 < V(h) THEN node[h][p * 2 + 1] ELSE node[h][p * 2]>>
    BY <1>1, <1>2, <2>1, Sons DEF V
  <2>3. nade[h + 1][p] = <<nade[h][p * 2], IF p * 2 + 1 < W(h) THEN nade[h][p * 2 + 1] ELSE nade[h][p * 2]>>
    BY <1>1, <1>2, <2>1, Sons DEF W
  <2>4. node[h + 1][p] = nade[h + 1][p]
    BY <2>1 DEF AsWide, V
  <2>5. node[h][p * 2] = nade[h][p * 2]
    BY <2>2, <2>3, <2>4
  <2>6. p * 2 + 1 < V(h) /\ p * 2 + 1 < W(h) => node[h][p * 2 + 1] = nade[h][p * 2 + 1]
    BY <2>2, <2>3, <2>4
  <2> QED BY <2>1, <2>5, <2>6
<1> QED BY <1>5, <1>6 DEF AsWide, V, W

(* Lists of different transactions, of whatever length, have different      *)
(* roots: the root in a header commits the block to its transactions        *)
(* (MerkleTree::compute, Block::check_value).                               *)
THEOREM RootsBind ==
    ASSUME NEW ids, NEW other, Listed(ids), Listed(other), ComputeMerkle(ids) = ComputeMerkle(other)
    PROVE  ids = other
<1> DEFINE H == TreeHeight(Len(ids))
<1>1. Len(ids) \in Nat \ {0} /\ Len(other) \in Nat \ {0} /\ H \in Nat /\ TreeHeight(Len(other)) \in Nat
  BY ListedLen, RootHeight
<1>2. TreeHeight(Len(other)) = H
  BY <1>1, RootsAtHeight
<1>3. PICK node : Nodes(node, ids) /\ ComputeMerkle(ids) = node[H][0]
  BY <1>1, NodesRun
<1>4. PICK nade : Nodes(nade, other) /\ ComputeMerkle(other) = nade[H][0]
  BY <1>1, <1>2, NodesRun
<1> DEFINE C == {j \in Nat : j <= H => AsWide(node, nade, ids, other, H - j)}
<1>5. 0 \in C
  <2>1. TreeWidth(Len(ids), H) = 1 /\ TreeWidth(Len(other), H) = 1
    BY <1>1, <1>2, RootHeight
  <2>2. AsWide(node, nade, ids, other, H)
    <3>1. \A pos \in 0..(1 - 1) : pos = 0
      OBVIOUS
    <3> QED BY <1>3, <1>4, <2>1, <3>1 DEF AsWide
  <2>3. H - 0 = H
    BY <1>1
  <2> QED BY <2>2, <2>3
<1>6. ASSUME NEW j \in Nat, j \in C PROVE j + 1 \in C
  <2> SUFFICES ASSUME j + 1 <= H PROVE AsWide(node, nade, ids, other, H - (j + 1))
    OBVIOUS
  <2> HIDE DEF H
  <2>1. H - (j + 1) \in Nat /\ (H - (j + 1)) + 1 = H - j /\ H - j <= H /\ j <= H
    BY <1>1
  <2>2. AsWide(node, nade, ids, other, (H - (j + 1)) + 1)
    BY <1>6, <2>1
  <2>3. (H - (j + 1)) + 1 <= TreeHeight(Len(ids)) /\ (H - (j + 1)) + 1 <= TreeHeight(Len(other))
    BY <1>2, <2>1 DEF H
  <2> QED BY <1>3, <1>4, <2>1, <2>2, <2>3, AsWideBelow
<1>7. \A j \in Nat : j \in C
  <2> HIDE DEF C
  <2> QED BY <1>5, <1>6, NatInd
<1>8. AsWide(node, nade, ids, other, 0)
  <2>1. H - H = 0 /\ H <= H
    BY <1>1
  <2> QED BY <1>1, <1>7, <2>1
<1>9. Len(ids) = Len(other)
  BY <1>1, <1>8, WidthHalves DEF AsWide
<1>10. ASSUME NEW i \in 1..Len(ids) PROVE ids[i] = other[i]
  <2>1. i - 1 \in 0..(Len(ids) - 1) /\ (i - 1) + 1 = i /\ TreeWidth(Len(ids), 0) = Len(ids)
    BY <1>1, WidthHalves
  <2>2. node[0][i - 1] = <<ids[(i - 1) + 1]>>
    BY <1>1, <1>3, <2>1, Leaves
  <2>3. nade[0][i - 1] = <<other[(i - 1) + 1]>>
    BY <1>1, <1>4, <1>9, <2>1, Leaves
  <2>4. node[0][i - 1] = nade[0][i - 1]
    BY <1>8, <2>1 DEF AsWide
  <2> QED BY <2>1, <2>2, <2>3, <2>4
<1> QED
  <2>1. PICK S : ids \in Seq(S)
    BY DEF Listed
  <2>2. PICK T : other \in Seq(T)
    BY DEF Listed
  <2> QED BY <1>9, <1>10, <2>1, <2>2

(* The lists that are hashed: each of different leaves. *)
Leafy == kind = "merkle" => in \in Seq(1..MaxLeaves) /\ \A i, j \in DOMAIN in : in[i] = in[j] => i = j

LEMMA LeafyBegins == MCInit => Leafy
<1> SUFFICES ASSUME MCInit, kind = "merkle"
             PROVE  in \in Seq(1..MaxLeaves) /\ \A i, j \in DOMAIN in : in[i] = in[j] => i = j
  BY DEF Leafy
<1>1. in = <<>>
  BY DEF MCInit, Starts
<1> QED BY <1>1

LEMMA LeafyKeeps == Leafy /\ [MCNext]_mvars => Leafy'
<1> SUFFICES ASSUME Leafy, [MCNext]_mvars PROVE Leafy'
  OBVIOUS
<1>1. CASE GrowLeaves
  <2>1. /\ kind' = "merkle" /\ in \in Seq(1..MaxLeaves)
        /\ \A i, j \in DOMAIN in : in[i] = in[j] => i = j
    BY <1>1 DEF GrowLeaves, Of, Leafy
  <2>2. PICK leaf \in 1..MaxLeaves : (\A i \in DOMAIN in : in[i] # leaf) /\ in' = Append(in, leaf)
    BY <1>1 DEF GrowLeaves
  <2>3. /\ in' \in Seq(1..MaxLeaves) /\ Len(in) \in Nat /\ DOMAIN in = 1..Len(in)
        /\ DOMAIN in' = 1..(Len(in) + 1) /\ in'[Len(in) + 1] = leaf
        /\ \A i \in 1..Len(in) : in'[i] = in[i]
    BY <2>1, <2>2
  <2>4. ASSUME NEW i \in DOMAIN in', NEW j \in DOMAIN in', in'[i] = in'[j] PROVE i = j
    <3>1. CASE i \in 1..Len(in) /\ j \in 1..Len(in)
      <4>1. in[i] = in[j]
        BY <2>3, <2>4, <3>1
      <4> QED BY <2>1, <2>3, <3>1, <4>1
    <3>2. CASE i = Len(in) + 1 /\ j = Len(in) + 1
      BY <3>2
    <3>3. CASE i = Len(in) + 1 /\ j \in 1..Len(in)
      <4>1. in[j] = leaf
        BY <2>3, <2>4, <3>3
      <4> QED BY <2>2, <2>3, <3>3, <4>1
    <3>4. CASE i \in 1..Len(in) /\ j = Len(in) + 1
      <4>1. in[i] = leaf
        BY <2>3, <2>4, <3>4
      <4> QED BY <2>2, <2>3, <3>4, <4>1
    <3> QED BY <2>3, <3>1, <3>2, <3>3, <3>4
  <2> QED BY <2>1, <2>3, <2>4 DEF Leafy
<1>2. CASE \/ GrowTarget \/ GrowScript \/ GrowBatch \/ GrowSigs \/ SignInput
           \/ ChangeTx \/ GrowCoins \/ GrowOuts \/ GrowPool
  <2>1. kind' # "merkle"
    BY <1>2 DEF GrowTarget, GrowBatch, GrowScript, GrowSigs, SignInput, ChangeTx, GrowCoins,
       GrowOuts, GrowPool, Of
  <2> QED BY <2>1 DEF Leafy
<1>3. CASE UNCHANGED mvars
  BY <1>3 DEF mvars, Leafy
<1> QED BY <1>1, <1>2, <1>3 DEF MCNext

(* However many transactions: the root of the tree is that of pairing up    *)
(* level by level, and no list of another length has it.                    *)
THEOREM MerkleAlwaysBinds == MCSpec => []MerkleBinds
<1>1. MCSpec => []Leafy
  BY LeafyBegins, LeafyKeeps, PTL DEF MCSpec
<1>2. Leafy => MerkleBinds
  <2> SUFFICES ASSUME Leafy, kind = "merkle", in # <<>>
               PROVE  /\ ComputeMerkle(in) = RootByLevels(in)
                      /\ \A n \in 1..MaxLeaves : LET other == [i \in 1..n |-> i]
                                                 IN  ComputeMerkle(in) = ComputeMerkle(other) => in = other
    BY DEF MerkleBinds
  <2>1. in \in Seq(1..MaxLeaves) /\ \A i, j \in DOMAIN in : in[i] = in[j] => i = j
    BY DEF Leafy
  <2> DEFINE ids == in
             Bounded == 1..MaxLeaves
  <2>2. ids \in Seq(Bounded) /\ ids # <<>> /\ Listed(ids)
    BY <2>1 DEF Listed
  <2> HIDE DEF ids, Bounded
  <2>3. ComputeMerkle(ids) = RootByLevels(ids)
    BY <2>2, RootsAgree
  <2>4. ASSUME NEW n \in 1..MaxLeaves, ComputeMerkle(ids) = ComputeMerkle([i \in 1..n |-> i])
        PROVE  ids = [i \in 1..n |-> i]
    <3> DEFINE other == [i \in 1..n |-> i]
    <3>1. n \in Nat \ {0}
      BY MCAlgorithmsAssumption
    <3>2. other \in [1..n -> Nat]
      OBVIOUS
    <3>3. other \in Seq(Nat) /\ Len(other) = n /\ DOMAIN other = 1..n
      BY <3>1, <3>2
    <3>4. \A i, j \in 1..n : other[i] = other[j] => i = j
      OBVIOUS
    <3> HIDE DEF other
    <3>5. Listed(other)
      BY <3>1, <3>3, <3>4 DEF Listed
    <3> QED BY <2>2, <2>4, <3>5, RootsBind DEF other
  <2> QED BY <2>3, <2>4 DEF ids
<1> QED BY <1>1, <1>2, PTL

------------------------------------------------------------------------
(* Targets and their compact forms. *)

(* Multiplication and division, for the provers. *)
LEMMA DivBounds ==
    ASSUME NEW a \in Nat, NEW d \in Nat \ {0}
    PROVE  a \div d \in Nat /\ (a \div d) * d <= a /\ a < (a \div d) * d + d /\ a - (a \div d) * d < d
OBVIOUS

LEMMA MulDiv ==
    ASSUME NEW a \in Nat, NEW d \in Nat \ {0}
    PROVE  (a * d) \div d = a
OBVIOUS

LEMMA DivDiv ==
    ASSUME NEW a \in Nat, NEW d \in Nat \ {0}, NEW c \in Nat \ {0}
    PROVE  (a \div d) \div c = a \div (d * c)
BY SMTT(60)

LEMMA DivLess ==
    ASSUME NEW a \in Nat, NEW b \in Nat, NEW d \in Nat \ {0}
    PROVE  (a \div d < b) <=> (a < b * d)
<1> DEFINE q == a \div d
<1>1. q \in Nat /\ q * d <= a /\ a < q * d + d
  BY DivBounds
<1> HIDE DEF q
<1>2. CASE q < b
  <2>1. q + 1 <= b /\ (q + 1) * d = q * d + d
    BY <1>1, <1>2
  <2>2. (q + 1) * d <= b * d
    BY <1>1, <2>1
  <2> QED BY <1>1, <1>2, <2>1, <2>2 DEF q
<1>3. CASE ~(q < b)
  <2>1. b <= q /\ b * d <= q * d
    BY <1>1, <1>3
  <2> QED BY <1>1, <1>3, <2>1 DEF q
<1> QED BY <1>2, <1>3

LEMMA MulMore ==
    ASSUME NEW a \in Nat, NEW b \in Nat, NEW d \in Nat, a <= b
    PROVE  a * d <= b * d
OBVIOUS

LEMMA DivMore ==
    ASSUME NEW a \in Nat, NEW b \in Nat, NEW d \in Nat \ {0}, a <= b
    PROVE  a \div d <= b \div d
<1> DEFINE q == b \div d
<1>1. q \in Nat /\ b < q * d + d
  BY DivBounds
<1> HIDE DEF q
<1>2. (q + 1) * d = q * d + d
  BY <1>1
<1>3. a < (q + 1) * d
  BY <1>1, <1>2
<1>4. a \div d < q + 1
  BY <1>1, <1>3, DivLess
<1>5. a \div d \in Nat
  BY DivBounds
<1> QED BY <1>1, <1>4, <1>5 DEF q

-----------------------------------------------------------------------------
(* The powers of the base. *)
LEMMA BytePows ==
    /\ BytePow[0] = 1
    /\ \A n \in 0..HashSize : BytePow[n] \in Nat \ {0}
    /\ \A n \in 0..(HashSize - 1) : BytePow[n + 1] = BytePow[n] * Byte
<1> DEFINE Step(g, k) == IF k = 0 THEN 1 ELSE g[k - 1] * Byte
           F(j, g) == g = [k \in 0..j |-> Step(g, k)]
           C == {j \in Nat : \E g : F(j, g)}
<1>1. Byte \in Nat /\ Byte >= 2 /\ HashSize \in Nat
  BY CompactAssumption
<1>2. 0 \in C
  <2> DEFINE g == [k \in 0..0 |-> 1]
  <2>1. g = [k \in 0..0 |-> Step(g, k)]
    OBVIOUS
  <2> HIDE DEF g, Step
  <2> QED BY <2>1
<1>3. ASSUME NEW j \in Nat, j \in C PROVE j + 1 \in C
  <2>1. PICK g : F(j, g)
    BY <1>3
  <2> DEFINE e == [k \in 0..(j + 1) |-> Step(g, k)]
  <2>2. \A k \in 0..j : e[k] = g[k]
    <3>1. \A k \in 0..j : g[k] = Step(g, k) /\ k \in 0..(j + 1)
      BY <2>1
    <3> HIDE DEF Step
    <3> QED BY <3>1
  <2>3. \A k \in 0..(j + 1) : Step(e, k) = Step(g, k)
    <3> TAKE k \in 0..(j + 1)
    <3>1. k # 0 => e[k - 1] = g[k - 1]
      <4> HIDE DEF e
      <4> SUFFICES ASSUME k # 0 PROVE e[k - 1] = g[k - 1]
        OBVIOUS
      <4>1. k - 1 \in 0..j
        OBVIOUS
      <4> QED BY <4>1, <2>2
    <3> HIDE DEF e
    <3> QED BY <3>1
  <2>4. F(j + 1, e)
    <3> HIDE DEF Step
    <3> QED BY <2>3
  <2> HIDE DEF e, F
  <2> QED BY <2>4
<1>4. \A j \in Nat : j \in C
  <2> HIDE DEF C
  <2> QED BY <1>2, <1>3, NatInd
<1>5. F(HashSize, BytePow)
  <2>1. PICK g : F(HashSize, g)
    BY <1>1, <1>4
  <2>2. BytePow = CHOOSE u : F(HashSize, u)
    BY DEF BytePow
  <2> HIDE DEF F
  <2> QED BY <2>1, <2>2
<1>6. \A k \in 0..HashSize : BytePow[k] = Step(BytePow, k)
  <2> HIDE DEF Step
  <2> QED BY <1>5
<1>7. BytePow[0] = 1
  BY <1>1, <1>6
<1>8. ASSUME NEW n \in 0..(HashSize - 1) PROVE BytePow[n + 1] = BytePow[n] * Byte
  <2>1. n + 1 \in 0..HashSize /\ n + 1 # 0 /\ (n + 1) - 1 = n
    BY <1>1
  <2> QED BY <1>6, <2>1
<1> DEFINE E == {k \in Nat : k <= HashSize => BytePow[k] \in Nat \ {0}}
<1>9. 0 \in E
  BY <1>7
<1>10. ASSUME NEW k \in Nat, k \in E PROVE k + 1 \in E
  <2> SUFFICES ASSUME k + 1 <= HashSize PROVE BytePow[k + 1] \in Nat \ {0}
    OBVIOUS
  <2>1. BytePow[k] \in Nat \ {0} /\ k \in 0..(HashSize - 1)
    BY <1>1, <1>10
  <2> DEFINE b == BytePow[k]
  <2>2. BytePow[k + 1] = b * Byte
    BY <1>8, <2>1
  <2>3. b \in Nat \ {0}
    BY <2>1
  <2> HIDE DEF b
  <2> QED BY <1>1, <2>2, <2>3
<1>11. \A k \in Nat : k \in E
  <2> HIDE DEF E
  <2> QED BY <1>9, <1>10, NatInd
<1> QED BY <1>1, <1>7, <1>8, <1>11

LEMMA PowMore ==
    ASSUME NEW j \in 0..HashSize
    PROVE  \A k \in 0..HashSize : j <= k => BytePow[j] <= BytePow[k]
<1> DEFINE C == {k \in Nat : j + k <= HashSize => BytePow[j] <= BytePow[j + k]}
<1>1. HashSize \in Nat /\ Byte \in Nat /\ Byte >= 2 /\ BytePow[j] \in Nat \ {0}
  BY CompactAssumption, BytePows
<1>2. 0 \in C
  <2>1. j + 0 = j
    OBVIOUS
  <2> QED BY <1>1, <2>1
<1>3. ASSUME NEW k \in Nat, k \in C PROVE k + 1 \in C
  <2> SUFFICES ASSUME j + (k + 1) <= HashSize PROVE BytePow[j] <= BytePow[j + (k + 1)]
    OBVIOUS
  <2> DEFINE b == BytePow[j + k]
  <2>1. j + k \in 0..(HashSize - 1) /\ (j + k) + 1 = j + (k + 1)
    BY <1>1
  <2>2. b \in Nat \ {0} /\ BytePow[j] <= b /\ BytePow[j + (k + 1)] = b * Byte
    BY <1>1, <1>3, <2>1, BytePows
  <2> HIDE DEF b
  <2>3. b <= b * Byte
    BY <1>1, <2>2
  <2>4. b * Byte \in Nat
    BY <1>1, <2>2
  <2> QED BY <1>1, <2>2, <2>3, <2>4
<1>4. \A k \in Nat : k \in C
  <2> HIDE DEF C
  <2> QED BY <1>2, <1>3, NatInd
<1>5. ASSUME NEW k \in 0..HashSize, j <= k PROVE BytePow[j] <= BytePow[k]
  <2>1. PICK i \in Nat : k = j + i
    <3>1. k - j \in Nat /\ k = j + (k - j)
      BY <1>1, <1>5
    <3> QED BY <3>1
  <2>2. i \in C /\ j + i <= HashSize
    BY <1>4, <2>1
  <2> QED BY <2>1, <2>2
<1> QED BY <1>5

(* The bytes of a number, found and recognised. *)
LEMMA NumBytesIs ==
    ASSUME NEW v \in Nat, NEW s \in 0..HashSize, v < BytePow[s], s = 0 \/ v >= BytePow[s - 1]
    PROVE  NumBytes(v) = s
<1> DEFINE P(n) == v < BytePow[n] /\ \A k \in 0..(n - 1) : v >= BytePow[k]
<1>1. HashSize \in Nat
  BY CompactAssumption
<1>2. ASSUME NEW k \in 0..(s - 1) PROVE v >= BytePow[k]
  <2>1. s # 0 /\ s - 1 \in 0..HashSize /\ k \in 0..HashSize /\ k <= s - 1
    BY <1>1
  <2>2. BytePow[k] <= BytePow[s - 1] /\ BytePow[k] \in Nat /\ BytePow[s - 1] \in Nat
    BY <2>1, PowMore, BytePows
  <2> QED BY <2>1, <2>2
<1>3. P(s)
  BY <1>2
<1>4. ASSUME NEW n \in 0..HashSize, P(n) PROVE n = s
  <2>1. ~(n < s)
    <3> SUFFICES ASSUME n < s PROVE FALSE
      OBVIOUS
    <3>1. n \in 0..(s - 1) /\ BytePow[n] \in Nat
      BY <1>1, BytePows
    <3>2. v >= BytePow[n] /\ v < BytePow[n]
      BY <1>2, <1>4, <3>1
    <3> QED BY <3>1, <3>2
  <2>2. ~(s < n)
    <3> SUFFICES ASSUME s < n PROVE FALSE
      OBVIOUS
    <3>1. s \in 0..(n - 1) /\ BytePow[s] \in Nat
      BY <1>1, BytePows
    <3>2. v >= BytePow[s]
      BY <1>4, <3>1
    <3> QED BY <3>1, <3>2
  <2> QED BY <1>1, <2>1, <2>2
<1>5. NumBytes(v) = CHOOSE n \in 0..HashSize : P(n)
  BY DEF NumBytes
<1> HIDE DEF P
<1> QED BY <1>3, <1>4, <1>5

LEMMA NumBytesOf ==
    ASSUME NEW v \in Nat, v < BytePow[HashSize]
    PROVE  \E s \in 0..HashSize : /\ NumBytes(v) = s /\ v < BytePow[s]
                                  /\ s = 0 \/ v >= BytePow[s - 1]
<1> DEFINE T == {n \in Nat : n <= HashSize /\ v < BytePow[n]}
<1>1. HashSize \in Nat
  BY CompactAssumption
<1>2. PICK least \in T : \A k \in T : least <= k
  <2>1. T \in SUBSET Nat /\ HashSize \in T
    BY <1>1
  <2> HIDE DEF T
  <2> QED BY <2>1, LeastNumber
<1>3. least \in 0..HashSize /\ v < BytePow[least]
  BY <1>1
<1>4. least = 0 \/ v >= BytePow[least - 1]
  <2> SUFFICES ASSUME least # 0 PROVE v >= BytePow[least - 1]
    OBVIOUS
  <2>1. least - 1 \in Nat /\ least - 1 <= HashSize /\ ~(least <= least - 1) /\ BytePow[least - 1] \in Nat
    BY <1>1, <1>3, BytePows
  <2>2. least - 1 \notin T
    BY <1>2, <2>1
  <2> QED BY <2>1, <2>2
<1> QED BY <1>3, <1>4, NumBytesIs

(* The sign bit is half of the third power, and whole digits of it. *)
Half == BytePow[2] \div 2

LEMMA Signs ==
    /\ Half \in Nat \ {0} /\ SignBit = Half * Byte /\ 2 * Half = BytePow[2] /\ SignBit \in Nat \ {0}
    /\ BytePow[1] = Byte /\ BytePow[2] = Byte * Byte /\ BytePow[3] = BytePow[2] * Byte
    /\ BytePow[2] <= SignBit /\ BytePow[3] = 2 * SignBit
<1>1. Byte \in Nat /\ Byte >= 2 /\ Byte % 2 = 0 /\ HashSize \in Nat /\ HashSize > 3
  BY CompactAssumption
<1>2. 0 \in 0..(HashSize - 1) /\ 1 \in 0..(HashSize - 1) /\ 2 \in 0..(HashSize - 1)
  BY <1>1
<1>3. BytePow[0 + 1] = BytePow[0] * Byte /\ BytePow[1 + 1] = BytePow[1] * Byte /\ BytePow[2 + 1] = BytePow[2] * Byte
  BY <1>2, BytePows
<1>4. BytePow[1] = Byte /\ BytePow[2] = Byte * Byte /\ BytePow[3] = BytePow[2] * Byte
  BY <1>1, <1>3, BytePows
<1>5. PICK h \in Nat \ {0} : Byte = 2 * h
  <2>1. Byte \div 2 \in Nat \ {0} /\ Byte = 2 * (Byte \div 2)
    BY <1>1
  <2> QED BY <2>1
<1>6. BytePow[2] = 2 * (h * Byte) /\ h * Byte \in Nat \ {0}
  BY <1>1, <1>4, <1>5
<1>7. Half = h * Byte
  <2> DEFINE b == h * Byte
  <2>1. b \in Nat /\ BytePow[2] = 2 * b
    BY <1>6
  <2> HIDE DEF b
  <2>2. (2 * b) \div 2 = b
    BY <2>1
  <2> QED BY <2>1, <2>2 DEF Half, b
<1>8. Half \in Nat \ {0} /\ 2 * Half = BytePow[2]
  BY <1>6, <1>7
<1>9. BytePow[3] = 2 * (Half * Byte) /\ Half * Byte \in Nat \ {0}
  BY <1>1, <1>4, <1>8
<1>10. SignBit = Half * Byte
  <2> DEFINE b == Half * Byte
  <2>1. b \in Nat /\ BytePow[3] = 2 * b
    BY <1>9
  <2> HIDE DEF b
  <2>2. (2 * b) \div 2 = b
    BY <2>1
  <2> QED BY <2>1, <2>2 DEF SignBit, b
<1>11. 2 * Half <= Half * Byte
  BY <1>1, <1>8
<1> QED BY <1>4, <1>8, <1>9, <1>10, <1>11

(* The compact form, by the bytes of the number; and what is read of it. *)
LEMMA CompactBy ==
    ASSUME NEW v, NEW s, NumBytes(v) = s, NEW man,
           man = IF s <= 3 THEN v * BytePow[3 - s] ELSE v \div BytePow[s - 3]
    PROVE  ToCompact(v) = IF man >= SignBit THEN [size |-> s + 1, man |-> man \div Byte]
                          ELSE [size |-> s, man |-> man]
BY DEF ToCompact

LEMMA ExpandBy ==
    ASSUME NEW z, NEW w \in Nat, w < SignBit
    PROVE  Expand([size |-> z, man |-> w]) = IF z <= 3 THEN w \div BytePow[3 - z] ELSE w * BytePow[z - 3]
<1>1. w % SignBit = w
  BY Signs
<1> QED BY <1>1 DEF Expand

(* What is kept: the digits from the k-th on, as few as are below the sign. *)
Kept(v, k) ==
    /\ k \in 0..HashSize /\ v \div BytePow[k] < SignBit
    /\ k = 0 \/ v >= SignBit * BytePow[k - 1]
    /\ Expand(ToCompact(v)) = (v \div BytePow[k]) * BytePow[k]

Fixed(v) == ToCompact(Expand(ToCompact(v))) = ToCompact(v)

LEMMA KeptAll ==
    ASSUME NEW v \in Nat, v < SignBit, Expand(ToCompact(v)) = v
    PROVE  (\E k : Kept(v, k)) /\ Fixed(v)
<1>1. v \div 1 = v /\ v * 1 = v /\ BytePow[0] = 1 /\ 0 \in 0..HashSize
  BY BytePows, CompactAssumption
<1>2. Kept(v, 0)
  BY <1>1 DEF Kept
<1> QED BY <1>2 DEF Fixed

(* Numbers of at most three bytes. *)
LEMMA SmallCompact ==
    ASSUME NEW v \in Nat, v < BytePow[3]
    PROVE  (\E k : Kept(v, k)) /\ Fixed(v)
<1> DEFINE B == Byte
           B2 == BytePow[2]
           B3 == BytePow[3]
<1>1. /\ B \in Nat \ {0} /\ B >= 2 /\ B2 \in Nat \ {0} /\ B3 \in Nat \ {0} /\ SignBit \in Nat \ {0}
      /\ Half \in Nat \ {0} /\ SignBit = Half * B /\ B2 = B * B /\ B3 = B2 * B /\ B2 <= SignBit
      /\ BytePow[0] = 1 /\ BytePow[1] = B /\ HashSize \in Nat /\ HashSize > 3
  <2>1. 2 \in 0..HashSize /\ 3 \in 0..HashSize
    BY CompactAssumption
  <2> QED BY <2>1, Signs, BytePows, CompactAssumption
<1>2. v < BytePow[HashSize]
  <2>1. 3 \in 0..HashSize /\ HashSize \in 0..HashSize /\ 3 <= HashSize
    BY <1>1
  <2>2. BytePow[3] <= BytePow[HashSize] /\ BytePow[HashSize] \in Nat
    BY <2>1, PowMore, BytePows
  <2> QED BY <1>1, <2>2
<1>3. PICK s \in 0..HashSize : NumBytes(v) = s /\ v < BytePow[s] /\ (s = 0 \/ v >= BytePow[s - 1])
  BY <1>2, NumBytesOf
<1>4. s \in 0..3
  <2> SUFFICES ASSUME s > 3 PROVE FALSE
    BY <1>1
  <2>1. 3 \in 0..HashSize /\ s - 1 \in 0..HashSize /\ 3 <= s - 1 /\ s # 0
    BY <1>1
  <2>2. BytePow[3] <= BytePow[s - 1] /\ BytePow[s - 1] \in Nat
    BY <2>1, PowMore, BytePows
  <2> QED BY <1>1, <1>3, <2>1, <2>2
<1> HIDE DEF B, B2, B3
<1>5. CASE s = 0
  <2>1. v = 0
    BY <1>1, <1>3, <1>5
  <2> DEFINE man == v * BytePow[3]
  <2>2. man = 0 /\ man = v * BytePow[3 - 0]
    BY <1>1, <2>1 DEF B3
  <2> HIDE DEF man
  <2>3. ToCompact(v) = [size |-> 0, man |-> 0]
    BY <1>1, <1>3, <1>5, <2>2, CompactBy
  <2>4. Expand([size |-> 0, man |-> 0]) = 0 \div BytePow[3 - 0]
    BY <1>1, ExpandBy
  <2>5. 0 \div BytePow[3 - 0] = 0
    BY <1>1 DEF B3
  <2> QED BY <1>1, <2>1, <2>3, <2>4, <2>5, KeptAll
<1>6. CASE s = 1
  <2> DEFINE man == v * B2
  <2>1. man \in Nat /\ man = v * BytePow[3 - 1] /\ man < B * B2 /\ B * B2 = B3
    BY <1>1, <1>3, <1>6 DEF B2
  <2>2. v < SignBit
    <3>1. B <= B2
      BY <1>1
    <3> QED BY <1>1, <1>3, <1>6, <3>1
  <2>3. man \div B2 = v
    BY <1>1, MulDiv
  <2>4. man \div B = v * B /\ (v * B) \div B = v /\ v * B < SignBit
    <3>1. man = (v * B) * B /\ v * B \in Nat
      BY <1>1
    <3>2. v * B < B * B
      BY <1>1, <1>3, <1>6
    <3> QED BY <1>1, <3>1, <3>2, MulDiv
  <2> HIDE DEF man
  <2>5. CASE man < SignBit
    <3>1. ToCompact(v) = [size |-> 1, man |-> man]
      BY <1>1, <1>3, <1>6, <2>1, <2>5, CompactBy
    <3>2. Expand([size |-> 1, man |-> man]) = man \div BytePow[3 - 1]
      BY <2>1, <2>5, ExpandBy
    <3> QED BY <2>2, <2>3, <3>1, <3>2, KeptAll DEF B2
  <2>6. CASE man >= SignBit
    <3>1. ToCompact(v) = [size |-> 1 + 1, man |-> man \div Byte]
      BY <1>1, <1>3, <1>6, <2>1, <2>6, CompactBy
    <3>2. ToCompact(v) = [size |-> 2, man |-> v * B]
      BY <2>4, <3>1 DEF B
    <3>3. Expand([size |-> 2, man |-> v * B]) = (v * B) \div BytePow[3 - 2]
      <4>1. v * B \in Nat
        BY <1>1
      <4> QED BY <2>4, <4>1, ExpandBy
    <3> QED BY <1>1, <2>2, <2>4, <3>2, <3>3, KeptAll
  <2> QED BY <1>1, <2>1, <2>5, <2>6
<1>7. CASE s = 2
  <2> DEFINE man == v * B
  <2>1. man \in Nat /\ man = v * BytePow[3 - 2] /\ man \div B = v /\ v < SignBit
    <3>1. v < B2
      BY <1>3, <1>7 DEF B2
    <3> QED BY <1>1, <3>1, MulDiv
  <2> HIDE DEF man
  <2>2. CASE man < SignBit
    <3>1. ToCompact(v) = [size |-> 2, man |-> man]
      BY <1>1, <1>3, <1>7, <2>1, <2>2, CompactBy
    <3>2. Expand([size |-> 2, man |-> man]) = man \div BytePow[3 - 2]
      BY <2>1, <2>2, ExpandBy
    <3> QED BY <1>1, <2>1, <3>1, <3>2, KeptAll
  <2>3. CASE man >= SignBit
    <3>1. ToCompact(v) = [size |-> 2 + 1, man |-> man \div Byte]
      BY <1>1, <1>3, <1>7, <2>1, <2>3, CompactBy
    <3>2. ToCompact(v) = [size |-> 3, man |-> v]
      BY <2>1, <3>1 DEF B
    <3>3. Expand([size |-> 3, man |-> v]) = v \div BytePow[3 - 3]
      BY <2>1, ExpandBy
    <3>4. v \div 1 = v
      OBVIOUS
    <3> QED BY <1>1, <2>1, <3>2, <3>3, <3>4, KeptAll
  <2> QED BY <1>1, <2>1, <2>2, <2>3
<1>8. CASE s = 3
  <2>1. v = v * BytePow[3 - 3] /\ v \div 1 = v
    BY <1>1
  <2>2. ToCompact(v) = IF v >= SignBit THEN [size |-> 3 + 1, man |-> v \div Byte] ELSE [size |-> 3, man |-> v]
    BY <1>1, <1>3, <1>8, <2>1, CompactBy
  <2>3. CASE v < SignBit
    <3>1. Expand([size |-> 3, man |-> v]) = v \div BytePow[3 - 3]
      BY <2>3, ExpandBy
    <3> QED BY <1>1, <2>1, <2>2, <2>3, <3>1, KeptAll
  <2>4. CASE v >= SignBit
    <3> DEFINE q == v \div B
               e == q * B
    <3>1. ToCompact(v) = [size |-> 4, man |-> q]
      BY <2>2, <2>4 DEF B
    <3>2. q \in Nat /\ q < SignBit
      <4>1. v < B2 * B
        BY <1>1, <1>3, <1>8 DEF B3
      <4>2. q < B2
        BY <1>1, <4>1, DivLess
      <4>3. q \in Nat
        BY <1>1, DivBounds
      <4> QED BY <1>1, <4>2, <4>3
    <3>3. Half <= q
      <4>1. ~(v < Half * B)
        BY <1>1, <2>4
      <4>2. ~(q < Half)
        BY <1>1, <4>1, DivLess
      <4> QED BY <1>1, <3>2, <4>2
    <3>4. e <= v
      BY <1>1, DivBounds
    <3>5. Expand([size |-> 4, man |-> q]) = e
      <4>1. Expand([size |-> 4, man |-> q]) = q * BytePow[4 - 3]
        BY <3>2, ExpandBy
      <4> QED BY <1>1, <4>1
    <3> HIDE DEF q
    <3>6. e \in Nat /\ e >= SignBit /\ e \div B = q
      BY <1>1, <3>2, <3>3, MulDiv
    <3> HIDE DEF e
    <3>7. NumBytes(e) = 3
      <4>1. e < BytePow[3] /\ e >= BytePow[3 - 1]
        BY <1>1, <1>3, <1>8, <3>4, <3>6 DEF B2, B3
      <4> QED BY <1>1, <3>6, <4>1, NumBytesIs
    <3>8. ToCompact(e) = [size |-> 4, man |-> q]
      <4>1. e = e * BytePow[3 - 3]
        BY <1>1, <3>6
      <4>2. ToCompact(e) = [size |-> 3 + 1, man |-> e \div Byte]
        BY <3>6, <3>7, <4>1, CompactBy
      <4> QED BY <3>6, <4>2 DEF B
    <3>9. Kept(v, 1)
      <4>1. 1 \in 0..HashSize /\ v >= SignBit * BytePow[1 - 1] /\ v \div BytePow[1] = q
        BY <1>1, <2>4 DEF q
      <4> QED BY <1>1, <3>1, <3>2, <3>5, <4>1 DEF Kept, e
    <3> QED BY <3>1, <3>5, <3>8, <3>9 DEF Fixed
  <2> QED BY <1>1, <2>3, <2>4
<1> QED BY <1>4, <1>5, <1>6, <1>7, <1>8

(* Numbers of more than three bytes: three digits are kept, or two. *)
LEMMA LargeCompact ==
    ASSUME NEW v \in Nat, v >= BytePow[3], v < BytePow[HashSize]
    PROVE  (\E k : Kept(v, k)) /\ Fixed(v)
<1> DEFINE B == Byte
           B2 == BytePow[2]
           B3 == BytePow[3]
<1>1. /\ B \in Nat \ {0} /\ B >= 2 /\ B2 \in Nat \ {0} /\ B3 \in Nat \ {0} /\ SignBit \in Nat \ {0}
      /\ Half \in Nat \ {0} /\ SignBit = Half * B /\ B2 = B * B /\ B3 = B2 * B /\ B2 <= SignBit
      /\ HashSize \in Nat /\ HashSize > 3
  <2>1. 2 \in 0..HashSize /\ 3 \in 0..HashSize
    BY CompactAssumption
  <2> QED BY <2>1, Signs, BytePows, CompactAssumption
<1>2. PICK s \in 0..HashSize : NumBytes(v) = s /\ v < BytePow[s] /\ (s = 0 \/ v >= BytePow[s - 1])
  BY NumBytesOf
<1>3. s \in 4..HashSize
  <2> SUFFICES ASSUME s <= 3 PROVE FALSE
    BY <1>1
  <2>1. 3 \in 0..HashSize /\ s \in 0..HashSize
    BY <1>1
  <2>2. BytePow[s] <= BytePow[3] /\ BytePow[s] \in Nat
    BY <2>1, PowMore, BytePows
  <2> QED BY <1>1, <1>2, <2>2
<1> DEFINE D == BytePow[s - 3]
           man == v \div D
<1>4. /\ D \in Nat \ {0} /\ BytePow[s - 2] = D * B /\ BytePow[s - 1] = B2 * D /\ BytePow[s] = B3 * D
      /\ s - 3 \in 1..HashSize /\ s - 2 \in 1..HashSize
  <2>1. /\ s - 3 \in 0..(HashSize - 1) /\ s - 2 \in 0..(HashSize - 1) /\ s - 1 \in 0..(HashSize - 1)
        /\ (s - 3) + 1 = s - 2 /\ (s - 2) + 1 = s - 1 /\ (s - 1) + 1 = s
        /\ s - 3 \in 0..HashSize /\ s - 3 \in 1..HashSize /\ s - 2 \in 1..HashSize
    BY <1>1, <1>3
  <2>2. BytePow[(s - 3) + 1] = D * B
    BY <2>1, BytePows
  <2>3. BytePow[(s - 2) + 1] = BytePow[s - 2] * B
    BY <2>1, BytePows
  <2>4. BytePow[(s - 1) + 1] = BytePow[s - 1] * B
    BY <2>1, BytePows
  <2>5. D \in Nat \ {0}
    BY <2>1, BytePows
  <2> HIDE DEF B, B2, B3, D
  <2>6. BytePow[s - 2] = D * B /\ BytePow[s - 1] = (D * B) * B /\ BytePow[s] = ((D * B) * B) * B
    BY <2>1, <2>2, <2>3, <2>4
  <2>7. (D * B) * B = B2 * D /\ ((D * B) * B) * B = B3 * D
    BY <1>1, <2>5
  <2> QED BY <2>1, <2>5, <2>6, <2>7
<1> HIDE DEF B, B2, B3, D
<1>5. s # 0 /\ s \in Nat /\ ~(s <= 3)
  BY <1>3
<1>6. v >= B2 * D /\ v < B3 * D
  BY <1>2, <1>4, <1>5
<1>7. man \in Nat /\ man >= B2 /\ man < B3 /\ man * D <= v
  <2>1. man \in Nat /\ man * D <= v
    BY <1>4, DivBounds
  <2>2. man < B3
    BY <1>1, <1>4, <1>6, DivLess
  <2>3. ~(v < B2 * D)
    BY <1>1, <1>4, <1>6
  <2>4. ~(man < B2)
    BY <1>1, <1>4, <2>3, DivLess
  <2> QED BY <1>1, <2>1, <2>2, <2>4
<1>8. ToCompact(v) = IF man >= SignBit THEN [size |-> s + 1, man |-> man \div Byte]
                     ELSE [size |-> s, man |-> man]
  <2>1. man = IF s <= 3 THEN v * BytePow[3 - s] ELSE v \div BytePow[s - 3]
    BY <1>5 DEF D
  <2> HIDE DEF man
  <2> QED BY <1>2, <2>1, CompactBy
<1>9. CASE man < SignBit
  <2> DEFINE e == man * D
             w == man
  <2>1. ToCompact(v) = [size |-> s, man |-> w]
    BY <1>1, <1>7, <1>8, <1>9
  <2>2. Expand([size |-> s, man |-> w]) = e
    <3>1. Expand([size |-> s, man |-> w]) = w * BytePow[s - 3]
      <4> HIDE DEF man
      <4> QED BY <1>5, <1>7, <1>9, ExpandBy
    <3> QED BY <3>1 DEF D
  <2>3. e \in Nat /\ e >= B2 * D /\ e <= v
    BY <1>1, <1>4, <1>7, MulMore
  <2>4. e \div D = w
    BY <1>4, <1>7, MulDiv
  <2>5. Kept(v, s - 3)
    <3>1. v >= SignBit * BytePow[(s - 3) - 1]
      <4>1. (s - 3) - 1 \in 0..(HashSize - 1) /\ ((s - 3) - 1) + 1 = s - 3 /\ (s - 3) - 1 \in 0..HashSize
        BY <1>1, <1>3
      <4> DEFINE d == BytePow[(s - 3) - 1]
      <4>2. d \in Nat \ {0} /\ D = d * B
        <5>1. BytePow[((s - 3) - 1) + 1] = BytePow[(s - 3) - 1] * Byte
          BY <4>1, BytePows
        <5> QED BY <4>1, <5>1, BytePows DEF D, B
      <4> HIDE DEF d
      <4>3. SignBit <= B3
        <5>1. B3 = 2 * SignBit
          BY Signs DEF B3
        <5> QED BY <1>1, <5>1
      <4>4. B2 * D = B3 * d
        BY <1>1, <4>2
      <4>5. SignBit * d <= B3 * d
        BY <1>1, <4>2, <4>3, MulMore
      <4>6. SignBit * d \in Nat /\ B3 * d \in Nat
        BY <1>1, <4>2
      <4> QED BY <1>6, <4>4, <4>5, <4>6 DEF d
    <3>2. v \div BytePow[s - 3] = man /\ s - 3 \in 0..HashSize
      BY <1>4 DEF D
    <3> QED BY <1>9, <2>1, <2>2, <3>1, <3>2 DEF Kept, D
  <2> HIDE DEF e
  <2>6. NumBytes(e) = s
    <3>1. e < BytePow[s] /\ e >= BytePow[s - 1]
      <4>1. BytePow[s] \in Nat
        BY BytePows
      <4> QED BY <1>2, <1>4, <2>3, <4>1
    <3> QED BY <2>3, <3>1, NumBytesIs
  <2>7. ToCompact(e) = [size |-> s, man |-> w]
    <3>1. w = IF s <= 3 THEN e * BytePow[3 - s] ELSE e \div BytePow[s - 3]
      BY <1>5, <2>4 DEF D
    <3>2. ~(w >= SignBit)
      BY <1>1, <1>7, <1>9
    <3> HIDE DEF man
    <3> QED BY <2>6, <3>1, <3>2, CompactBy
  <2> QED BY <2>1, <2>2, <2>5, <2>7 DEF Fixed
<1>10. CASE man >= SignBit
  <2> DEFINE q == man \div B
             e == q * (D * B)
             w == q * B
  <2>1. ToCompact(v) = [size |-> s + 1, man |-> q]
    BY <1>8, <1>10 DEF B
  <2>2. q \in Nat /\ q < SignBit /\ Half <= q
    <3> HIDE DEF man
    <3>1. q \in Nat
      BY <1>1, <1>7, DivBounds
    <3>2. q < B2
      <4>1. man < B2 * B
        BY <1>1, <1>7
      <4> QED BY <1>1, <1>7, <4>1, DivLess
    <3>3. ~(man < Half * B)
      BY <1>1, <1>7, <1>10
    <3>4. ~(q < Half)
      BY <1>1, <1>7, <3>3, DivLess
    <3> QED BY <1>1, <3>1, <3>2, <3>4
  <2>3. q = v \div (D * B)
    <3>1. B \in Nat \ {0} /\ D \in Nat \ {0}
      BY <1>1, <1>4
    <3>2. (v \div D) \div B = v \div (D * B)
      <4> HIDE DEF man, q, e, w
      <4> QED BY ONLY <3>1, DivDiv, v \in Nat
    <3> DEFINE d == v \div (D * B)
    <3>3. (v \div D) \div B = d
      BY ONLY <3>2
    <3> HIDE DEF d
    <3>4. q = d
      BY ONLY <3>3 DEF q, man
    <3> QED BY ONLY <3>4 DEF d
  <2>4. D * B \in Nat \ {0} /\ e <= v
    <3> DEFINE d == D * B
    <3>1. d \in Nat \ {0}
      BY <1>1, <1>4
    <3> HIDE DEF d
    <3>2. (v \div d) * d <= v
      BY <3>1, DivBounds
    <3> QED BY <2>3, <3>1, <3>2 DEF d
  <2>5. Expand([size |-> s + 1, man |-> q]) = e
    <3> HIDE DEF q
    <3>1. Expand([size |-> s + 1, man |-> q]) = q * BytePow[(s + 1) - 3]
      <4>1. ~(s + 1 <= 3)
        BY <1>3
      <4> QED BY <2>2, <4>1, ExpandBy
    <3>2. (s + 1) - 3 = s - 2
      BY <1>5
    <3> QED BY <1>4, <3>1, <3>2
  <2>6. Kept(v, s - 2)
    <3>1. v >= SignBit * BytePow[(s - 2) - 1]
      <4>1. (s - 2) - 1 = s - 3
        BY <1>5
      <4>2. ~(v < SignBit * D)
        <5>1. ~(man < SignBit)
          BY <1>1, <1>7, <1>10
        <5> QED BY <1>1, <1>4, <5>1, DivLess
      <4>3. SignBit * D \in Nat
        BY <1>1, <1>4
      <4> QED BY <4>1, <4>2, <4>3 DEF D
    <3>2. v \div BytePow[s - 2] = q /\ s - 2 \in 0..HashSize /\ BytePow[s - 2] = D * B
      BY <1>4, <2>3
    <3> HIDE DEF q
    <3> QED BY <2>1, <2>2, <2>5, <3>1, <3>2 DEF Kept
  <2> HIDE DEF q
  <2>7. e \in Nat /\ e = w * D /\ w \in Nat /\ SignBit <= w /\ w \div B = q
    <3>1. e \in Nat /\ e = w * D /\ w \in Nat
      BY <1>1, <1>4, <2>2
    <3>2. Half * B <= q * B
      BY <1>1, <2>2, MulMore
    <3>3. w \div B = q
      BY <1>1, <2>2, MulDiv
    <3> QED BY <1>1, <3>1, <3>2, <3>3
  <2> HIDE DEF e, w
  <2>8. e \div D = w
    BY <1>4, <2>7, MulDiv
  <2>9. e >= B2 * D
    <3>1. B2 <= w
      BY <1>1, <2>7
    <3>2. B2 * D <= w * D
      BY <1>1, <1>4, <2>7, <3>1, MulMore
    <3> QED BY <1>1, <1>4, <2>7, <3>2
  <2>10. NumBytes(e) = s
    <3>1. e < BytePow[s] /\ e >= BytePow[s - 1]
      <4>1. BytePow[s] \in Nat
        BY BytePows
      <4> QED BY <1>2, <1>4, <2>4, <2>7, <2>9, <4>1
    <3> QED BY <2>7, <3>1, NumBytesIs
  <2>11. ToCompact(e) = [size |-> s + 1, man |-> q]
    <3>1. w = IF s <= 3 THEN e * BytePow[3 - s] ELSE e \div BytePow[s - 3]
      BY <1>5, <2>8 DEF D
    <3>2. w >= SignBit
      BY <1>1, <2>7
    <3>3. ToCompact(e) = [size |-> s + 1, man |-> w \div Byte]
      BY <2>10, <3>1, <3>2, CompactBy
    <3> QED BY <2>7, <3>3 DEF B
  <2> QED BY <2>1, <2>5, <2>6, <2>11 DEF Fixed
<1> QED BY <1>1, <1>7, <1>9, <1>10

LEMMA CompactKeeps ==
    ASSUME NEW v \in Nat, v < BytePow[HashSize]
    PROVE  (\E k : Kept(v, k)) /\ Fixed(v)
<1>1. BytePow[3] \in Nat
  BY Signs
<1> QED BY <1>1, SmallCompact, LargeCompact

(* What is lost: less than the last digit kept. *)
LEMMA ExpandLoses ==
    ASSUME NEW v \in Nat, v < BytePow[HashSize], NEW e, e = Expand(ToCompact(v))
    PROVE  e \in Nat /\ e <= v /\ (v - e) * BytePow[2] <= 2 * v
<1>1. PICK k : Kept(v, k)
  BY CompactKeeps
<1> DEFINE P == BytePow[k]
           q == v \div P
<1>2. P \in Nat \ {0} /\ k \in 0..HashSize /\ HashSize \in Nat
  BY <1>1, BytePows, CompactAssumption DEF Kept
<1>3. e = q * P
  BY <1>1 DEF Kept
<1>4. q \in Nat /\ q * P <= v /\ v - q * P < P
  BY <1>2, DivBounds
<1>5. k = 0 \/ v >= Half * P
  <2> SUFFICES ASSUME k # 0 PROVE v >= Half * P
    OBVIOUS
  <2> DEFINE d == BytePow[k - 1]
  <2>1. k - 1 \in 0..(HashSize - 1) /\ k - 1 \in 0..HashSize /\ (k - 1) + 1 = k
    BY <1>2
  <2>2. BytePow[(k - 1) + 1] = d * Byte /\ d \in Nat \ {0}
    BY <2>1, BytePows
  <2>3. v >= SignBit * d
    BY <1>1, <1>2 DEF Kept
  <2>4. P = d * Byte
    BY <2>1, <2>2
  <2> HIDE DEF d, P
  <2>5. SignBit * d = Half * P
    <3>1. (Half * Byte) * d = Half * (d * Byte)
      BY <2>2, Signs, CompactAssumption
    <3> QED BY <2>4, <3>1, Signs
  <2> QED BY <2>3, <2>5
<1> HIDE DEF q
<1>6. e \in Nat /\ e <= v
  BY <1>2, <1>3, <1>4
<1>7. CASE k = 0
  <2>1. P = 1 /\ v - e = 0
    <3>1. P = 1
      BY <1>7, BytePows
    <3> QED BY <1>2, <1>3, <1>4, <3>1
  <2>2. 0 * BytePow[2] = 0
    BY Signs
  <2> QED BY <1>6, <2>1, <2>2
<1>8. CASE v >= Half * P
  <2> HIDE DEF P
  <2> DEFINE r == v - e
  <2>1. r \in Nat /\ r <= P /\ BytePow[2] = 2 * Half /\ Half \in Nat
    BY <1>2, <1>3, <1>4, <1>6, Signs
  <2> HIDE DEF r
  <2>2. r * Half <= P * Half
    BY <1>2, <2>1, MulMore
  <2>3. r * (2 * Half) = 2 * (r * Half) /\ P * Half = Half * P /\ r * Half \in Nat
    BY <1>2, <2>1
  <2>4. r * BytePow[2] <= 2 * v
    BY <1>2, <1>8, <2>1, <2>2, <2>3
  <2> QED BY <1>6, <2>4 DEF r
<1> QED BY <1>5, <1>7, <1>8

(* Rounding keeps the order. *)
LEMMA ExpandMonotone ==
    ASSUME NEW v \in Nat, NEW w \in Nat, v <= w, w < BytePow[HashSize]
    PROVE  Expand(ToCompact(v)) <= Expand(ToCompact(w))
<1>1. HashSize \in Nat /\ BytePow[HashSize] \in Nat /\ SignBit \in Nat /\ Half \in Nat /\ Byte \in Nat
  <2>1. HashSize \in Nat /\ HashSize \in 0..HashSize
    BY CompactAssumption
  <2> QED BY <2>1, BytePows, Signs, CompactAssumption
<1>2. v < BytePow[HashSize]
  BY <1>1
<1>3. PICK k : Kept(v, k)
  BY <1>2, CompactKeeps
<1>4. PICK l : Kept(w, l)
  BY CompactKeeps
<1>5. k \in 0..HashSize /\ l \in 0..HashSize
  BY <1>3, <1>4 DEF Kept
<1>6. CASE k = l
  <2> DEFINE P == BytePow[k]
  <2>1. P \in Nat \ {0}
    BY <1>5, BytePows
  <2>2. Expand(ToCompact(v)) = (v \div P) * P /\ Expand(ToCompact(w)) = (w \div P) * P
    BY <1>3, <1>4, <1>6 DEF Kept
  <2> HIDE DEF P
  <2>3. v \div P <= w \div P /\ v \div P \in Nat /\ w \div P \in Nat
    BY <2>1, DivMore, DivBounds
  <2> QED BY <2>1, <2>2, <2>3, MulMore
<1>7. CASE k < l
  <2> DEFINE P == BytePow[l]
             d == BytePow[l - 1]
             c == BytePow[k]
             q == w \div P
  <2>1. l # 0 /\ l - 1 \in 0..(HashSize - 1) /\ l - 1 \in 0..HashSize /\ (l - 1) + 1 = l /\ k <= l - 1
    BY <1>1, <1>5, <1>7
  <2>2. P \in Nat \ {0} /\ d \in Nat \ {0} /\ c \in Nat \ {0} /\ BytePow[(l - 1) + 1] = d * Byte /\ c <= d
    BY <1>5, <2>1, BytePows, PowMore
  <2>3. w >= SignBit * d /\ Expand(ToCompact(w)) = q * P
    BY <1>4, <2>1 DEF Kept
  <2>4. v \div c < SignBit
    BY <1>3 DEF Kept
  <2>5. P = d * Byte
    BY <2>1, <2>2
  <2>6. Expand(ToCompact(v)) <= v /\ Expand(ToCompact(v)) \in Nat
    BY <1>2, ExpandLoses
  <2> HIDE DEF P, d, c
  <2>7. v < SignBit * c /\ SignBit * c <= SignBit * d
    <3>1. v < SignBit * c
      BY <1>1, <2>2, <2>4, DivLess
    <3>2. c * SignBit <= d * SignBit
      BY <1>1, <2>2, MulMore
    <3>3. c * SignBit = SignBit * c /\ d * SignBit = SignBit * d
      BY <1>1, <2>2
    <3> QED BY <3>1, <3>2, <3>3
  <2>8. SignBit * d = Half * P
    <3>1. (Half * Byte) * d = Half * (d * Byte)
      BY <1>1, <2>2
    <3> QED BY <2>5, <3>1, Signs
  <2>9. Half * P <= q * P
    <3>1. ~(w < Half * P)
      BY <1>1, <2>2, <2>3, <2>8
    <3>2. ~(q < Half) /\ q \in Nat
      BY <1>1, <2>2, <3>1, DivLess, DivBounds
    <3> HIDE DEF q
    <3> QED BY <1>1, <2>2, <3>2, MulMore
  <2>10. q \in Nat
    BY <2>2, DivBounds
  <2> HIDE DEF q
  <2>11. q * P \in Nat /\ SignBit * c \in Nat /\ SignBit * d \in Nat
    BY <1>1, <2>2, <2>10
  <2> QED BY <2>3, <2>6, <2>7, <2>8, <2>9, <2>11
<1>8. CASE l < k
  <2> DEFINE d == BytePow[k - 1]
             c == BytePow[l]
  <2>1. k # 0 /\ k - 1 \in 0..HashSize /\ l <= k - 1
    BY <1>1, <1>5, <1>8
  <2>2. d \in Nat \ {0} /\ c \in Nat \ {0} /\ c <= d
    BY <1>5, <2>1, BytePows, PowMore
  <2>3. v >= SignBit * d
    BY <1>3, <2>1 DEF Kept
  <2>4. w \div c < SignBit
    BY <1>4 DEF Kept
  <2> HIDE DEF d, c
  <2>5. w < SignBit * c
    BY <1>1, <2>2, <2>4, DivLess
  <2>6. c * SignBit <= d * SignBit
    BY <1>1, <2>2, MulMore
  <2>7. c * SignBit = SignBit * c /\ d * SignBit = SignBit * d /\ SignBit * c \in Nat /\ SignBit * d \in Nat
    BY <1>1, <2>2
  <2> QED BY <2>3, <2>5, <2>6, <2>7
<1> QED BY <1>1, <1>5, <1>6, <1>7, <1>8

-----------------------------------------------------------------------------
(* The targets: digits, and no more than a hash has. *)
Digits == kind = "target" => in \in Seq(0..(Byte - 1)) /\ Len(in) <= MaxDigits

LEMMA DigitsBegin == MCInit => Digits
<1> SUFFICES ASSUME MCInit, kind = "target" PROVE in \in Seq(0..(Byte - 1)) /\ Len(in) <= MaxDigits
  BY DEF Digits
<1>1. in = <<>>
  BY DEF MCInit, Starts
<1> QED BY <1>1, MCAlgorithmsAssumption

LEMMA DigitsKeep == Digits /\ [MCNext]_mvars => Digits'
<1> SUFFICES ASSUME Digits, [MCNext]_mvars PROVE Digits'
  OBVIOUS
<1>1. CASE GrowTarget
  <2>1. kind' = "target" /\ in \in Seq(0..(Byte - 1)) /\ Len(in) < MaxDigits /\ MaxDigits \in Int
    BY <1>1, MCAlgorithmsAssumption DEF GrowTarget, Of, Digits
  <2>2. PICK d \in 0..(Byte - 1) : in' = Append(in, d)
    BY <1>1 DEF GrowTarget
  <2>3. in' \in Seq(0..(Byte - 1)) /\ Len(in') = Len(in) + 1
    BY <2>1, <2>2
  <2> QED BY <2>1, <2>3 DEF Digits
<1>2. CASE \/ GrowLeaves \/ GrowScript \/ GrowBatch \/ GrowSigs \/ SignInput
           \/ ChangeTx \/ GrowCoins \/ GrowOuts \/ GrowPool
  <2>1. kind' # "target"
    BY <1>2 DEF GrowLeaves, GrowBatch, GrowScript, GrowSigs, SignInput, ChangeTx, GrowCoins,
       GrowOuts, GrowPool, Of
  <2> QED BY <2>1 DEF Digits
<1>3. CASE UNCHANGED mvars
  BY <1>3 DEF mvars, Digits
<1> QED BY <1>1, <1>2, <1>3 DEF MCNext

LEMMA TargetFits ==
    ASSUME Digits, kind = "target"
    PROVE  Target \in Nat /\ Target < BytePow[HashSize]
<1> DEFINE L == Len(in)
           Step(g, k) == IF k = 0 THEN 0 ELSE g[k - 1] * Byte + in[k]
           F(j, g) == g = [k \in 0..j |-> Step(g, k)]
           C == {j \in Nat : \E g : F(j, g)}
           upto == CHOOSE g : F(L, g)
<1>1. /\ Byte \in Nat /\ HashSize \in Nat /\ L \in Nat /\ L <= HashSize
      /\ \A k \in 1..L : in[k] \in Nat /\ in[k] <= Byte - 1
  <2>1. in \in Seq(0..(Byte - 1)) /\ Len(in) <= MaxDigits /\ MaxDigits \in 0..HashSize
        /\ Byte \in Nat /\ HashSize \in Nat
    BY CompactAssumption, MCAlgorithmsAssumption DEF Digits
  <2>2. L \in Nat /\ \A k \in 1..L : in[k] \in 0..(Byte - 1)
    BY <2>1
  <2> QED BY <2>1, <2>2
<1>2. Target = upto[L]
  BY DEF Target
<1> HIDE DEF L
<1>3. 0 \in C
  <2> DEFINE g == [k \in 0..0 |-> 0]
  <2>1. g = [k \in 0..0 |-> Step(g, k)]
    OBVIOUS
  <2> HIDE DEF g, Step
  <2> QED BY <2>1
<1>4. ASSUME NEW j \in Nat, j \in C PROVE j + 1 \in C
  <2>1. PICK g : F(j, g)
    BY <1>4
  <2> DEFINE e == [k \in 0..(j + 1) |-> Step(g, k)]
  <2>2. \A k \in 0..j : e[k] = g[k]
    <3>1. \A k \in 0..j : g[k] = Step(g, k) /\ k \in 0..(j + 1)
      BY <2>1
    <3> HIDE DEF Step
    <3> QED BY <3>1
  <2>3. \A k \in 0..(j + 1) : Step(e, k) = Step(g, k)
    <3> TAKE k \in 0..(j + 1)
    <3>1. k # 0 => e[k - 1] = g[k - 1]
      <4> HIDE DEF e
      <4> SUFFICES ASSUME k # 0 PROVE e[k - 1] = g[k - 1]
        OBVIOUS
      <4>1. k - 1 \in 0..j
        OBVIOUS
      <4> QED BY <4>1, <2>2
    <3> HIDE DEF e
    <3> QED BY <3>1
  <2>4. F(j + 1, e)
    <3> HIDE DEF Step
    <3> QED BY <2>3
  <2> HIDE DEF e, F
  <2> QED BY <2>4
<1>5. \A j \in Nat : j \in C
  <2> HIDE DEF C
  <2> QED BY <1>3, <1>4, NatInd
<1>6. F(L, upto)
  <2>1. PICK g : F(L, g)
    BY <1>1, <1>5
  <2> HIDE DEF F
  <2> QED BY <2>1
<1> HIDE DEF upto
<1>7. \A k \in 0..L : upto[k] = Step(upto, k)
  <2> HIDE DEF Step
  <2> QED BY <1>6
<1> DEFINE E == {k \in Nat : k <= L => upto[k] \in Nat /\ upto[k] < BytePow[k]}
<1>8. 0 \in E
  BY <1>1, <1>7, BytePows
<1>9. ASSUME NEW k \in Nat, k \in E PROVE k + 1 \in E
  <2> SUFFICES ASSUME k + 1 <= L PROVE upto[k + 1] \in Nat /\ upto[k + 1] < BytePow[k + 1]
    OBVIOUS
  <2> DEFINE a == upto[k]
             b == BytePow[k]
             d == in[k + 1]
  <2>1. k + 1 \in 0..L /\ k + 1 # 0 /\ (k + 1) - 1 = k /\ k + 1 \in 1..L /\ k \in 0..(HashSize - 1)
        /\ k \in 0..HashSize
    BY <1>1
  <2>2. upto[k + 1] = a * Byte + d
    BY <1>7, <2>1
  <2>3. BytePow[k + 1] = b * Byte /\ b \in Nat
    BY <2>1, BytePows
  <2>4. a \in Nat /\ a < b /\ d \in Nat /\ d <= Byte - 1
    BY <1>1, <1>9, <2>1
  <2> HIDE DEF a, b, d
  <2>5. (a + 1) * Byte <= b * Byte
    BY <1>1, <2>3, <2>4, MulMore
  <2>6. (a + 1) * Byte = a * Byte + Byte /\ a * Byte \in Nat /\ b * Byte \in Nat
    BY <1>1, <2>3, <2>4
  <2> QED BY <1>1, <2>2, <2>3, <2>4, <2>5, <2>6
<1>10. \A k \in Nat : k \in E
  <2> HIDE DEF E
  <2> QED BY <1>8, <1>9, NatInd
<1>11. upto[L] \in Nat /\ upto[L] < BytePow[L]
  BY <1>1, <1>10
<1>12. BytePow[L] <= BytePow[HashSize] /\ BytePow[L] \in Nat /\ BytePow[HashSize] \in Nat
  <2>1. L \in 0..HashSize /\ HashSize \in 0..HashSize
    BY <1>1
  <2> QED BY <1>1, <2>1, PowMore, BytePows
<1> QED BY <1>2, <1>11, <1>12

(* A compact form is a target no easier than the number it was made of, and *)
(* not much harder; a target that has one keeps it (Hasher::compact,        *)
(* Hasher::try_from).                                                       *)
THEOREM CompactAlwaysRounds == MCSpec => []CompactRounds
<1>1. MCSpec => []Digits
  BY DigitsBegin, DigitsKeep, PTL DEF MCSpec
<1>2. Digits => CompactRounds
  <2> SUFFICES ASSUME Digits, kind = "target"
               PROVE  LET c == ToCompact(Target)
                          e == Expand(c)
                      IN  /\ e <= Target /\ (Target - e) * BytePow[2] <= 2 * Target
                          /\ ToCompact(e) = c
    BY DEF CompactRounds
  <2> DEFINE v == Target
             e == Expand(ToCompact(v))
  <2>1. v \in Nat /\ v < BytePow[HashSize]
    BY TargetFits
  <2> HIDE DEF v
  <2>2. e <= v /\ (v - e) * BytePow[2] <= 2 * v
    BY <2>1, ExpandLoses
  <2>3. ToCompact(e) = ToCompact(v)
    BY <2>1, CompactKeeps DEF Fixed
  <2> QED BY <2>2, <2>3 DEF v
<1> QED BY <1>1, <1>2, PTL

(* The time counted for a span. *)
LEMMA ClampedMore ==
    ASSUME NEW sub \in Nat, NEW later \in Nat, sub <= later
    PROVE  Clamped(sub) \in Nat /\ Clamped(later) \in Nat /\ Clamped(sub) <= Clamped(later)
<1>1. Span \in Nat \ {0}
  BY CompactAssumption
<1>2. Span \div 4 \in Nat /\ Span * 4 \in Nat /\ Span \div 4 <= Span * 4
  BY <1>1
<1> QED BY <1>2 DEF Clamped

LEMMA ElapsedFits ==
    ASSUME NEW diff \in Int
    PROVE  Elapsed(diff) \in Nat /\ (0 <= diff /\ diff < TimeRange => Elapsed(diff) = diff)
<1>1. TimeRange \in Nat \ {0}
  BY CompactAssumption
<1> QED BY <1>1 DEF Elapsed

(* The next difficulty, from the last target and the time. *)
LEMMA NextBits ==
    ASSUME NEW diff \in Int, NEW bits, NEW o \in Nat, o = Expand(bits)
    PROVE  \E v \in Nat : /\ ComputeBits(diff, bits) = ToCompact(v) /\ v <= PowLimit /\ v < BytePow[HashSize]
                          /\ v <= (o * Clamped(Elapsed(diff))) \div Span
                          /\ v = PowLimit \/ v = (o * Clamped(Elapsed(diff))) \div Span
<1> DEFINE pow == (o * Clamped(Elapsed(diff))) \div Span
<1>1. Span \in Nat \ {0} /\ PowLimit \in Nat /\ PowLimit * Span * 4 < BytePow[HashSize]
      /\ BytePow[HashSize] \in Nat /\ Clamped(Elapsed(diff)) \in Nat
  <2>1. HashSize \in 0..HashSize
    BY CompactAssumption
  <2>2. Clamped(Elapsed(diff)) \in Nat
    BY ElapsedFits, ClampedMore
  <2> QED BY <2>1, <2>2, CompactAssumption, BytePows
<1>2. PowLimit < BytePow[HashSize]
  <2>1. PowLimit <= PowLimit * Span /\ PowLimit * Span \in Nat
    BY <1>1
  <2> QED BY <1>1, <2>1
<1>3. pow \in Nat
  <2> DEFINE n == o * Clamped(Elapsed(diff))
  <2>1. n \in Nat
    BY <1>1
  <2> HIDE DEF n
  <2> QED BY <1>1, <2>1, DivBounds DEF n
<1>4. ComputeBits(diff, bits) = IF pow <= PowLimit THEN ToCompact(pow) ELSE ToCompact(PowLimit)
  BY DEF ComputeBits
<1> HIDE DEF pow
<1>5. CASE pow <= PowLimit
  <2>1. pow < BytePow[HashSize] /\ pow <= pow
    BY <1>1, <1>2, <1>3, <1>5
  <2> QED BY <1>3, <1>4, <1>5, <2>1 DEF pow
<1>6. CASE ~(pow <= PowLimit)
  <2>1. PowLimit <= pow /\ PowLimit <= PowLimit
    BY <1>1, <1>3, <1>6
  <2> QED BY <1>1, <1>2, <1>4, <1>6, <2>1 DEF pow
<1> QED BY <1>5, <1>6

(* Whatever the last difficulty and however long its span took, the next    *)
(* one is within the limit verify_pow asks for and no easier than computed, *)
(* and no harder after a slower span, where the cast of the time does not   *)
(* wrap (compute_bits, verify_pow).                                         *)
THEOREM BitsAlwaysAccepted == MCSpec => []BitsAccepted
<1>1. MCSpec => []Digits
  BY DigitsBegin, DigitsKeep, PTL DEF MCSpec
<1>2. Digits => BitsAccepted
  <2> DEFINE old == ToCompact(Target)
             o == Expand(old)
             Bits(d) == ComputeBits(d, old)
  <2> SUFFICES ASSUME Digits, kind = "target", Target <= PowLimit, NEW diff \in Times
               PROVE  /\ VerifyPow(0, Bits(diff))
                      /\ Expand(Bits(diff)) * Span <= o * Clamped(Elapsed(diff))
                      /\ \A later \in Times : 0 <= diff /\ diff <= later /\ later < TimeRange =>
                            Expand(Bits(later)) >= Expand(Bits(diff))
    BY DEF BitsAccepted
  <2>1. o \in Nat
    BY TargetFits, ExpandLoses
  <2> HIDE DEF old
  <2>2. \A t \in Times : t \in Int /\ Elapsed(t) \in Nat
    BY ElapsedFits DEF Times
  <2>3. PICK v \in Nat : /\ Bits(diff) = ToCompact(v) /\ v <= PowLimit /\ v < BytePow[HashSize]
                         /\ v <= (o * Clamped(Elapsed(diff))) \div Span
                         /\ v = PowLimit \/ v = (o * Clamped(Elapsed(diff))) \div Span
    BY <2>1, <2>2, NextBits
  <2>4. Span \in Nat \ {0} /\ PowLimit \in Nat /\ BytePow[HashSize] \in Nat /\ Clamped(Elapsed(diff)) \in Nat
    <3>1. HashSize \in 0..HashSize
      BY CompactAssumption
    <3> QED BY <2>2, <3>1, CompactAssumption, BytePows, ClampedMore
  <2> DEFINE e == Expand(Bits(diff))
             n == o * Clamped(Elapsed(diff))
  <2>5. e \in Nat /\ e <= v
    BY <2>3, ExpandLoses
  <2>6. VerifyPow(0, Bits(diff))
    <3>1. Expand(Bits(diff)) < BytePow[HashSize] /\ PowLimit >= Expand(Bits(diff)) /\ 0 <= Expand(Bits(diff))
      <4> HIDE DEF Bits
      <4> QED BY <2>3, <2>4, <2>5
    <3> QED BY <3>1 DEF VerifyPow, CanExpand
  <2>7. n \in Nat /\ v <= n \div Span
    BY <2>1, <2>3, <2>4
  <2>8. e * Span <= n
    <3> HIDE DEF e, n
    <3>1. n \div Span \in Nat /\ (n \div Span) * Span <= n
      BY <2>4, <2>7, DivBounds
    <3>2. e <= n \div Span
      BY <2>5, <2>7, <3>1
    <3>3. e * Span <= (n \div Span) * Span
      BY <2>4, <2>5, <3>1, <3>2, MulMore
    <3>4. e * Span \in Nat /\ (n \div Span) * Span \in Nat
      BY <2>4, <2>5, <3>1
    <3> QED BY <2>7, <3>1, <3>3, <3>4
  <2>9. ASSUME NEW later \in Times, 0 <= diff, diff <= later, later < TimeRange
      PROVE  Expand(Bits(later)) >= Expand(Bits(diff))
    <3>1. PICK w \in Nat : /\ Bits(later) = ToCompact(w) /\ w <= PowLimit /\ w < BytePow[HashSize]
                           /\ w <= (o * Clamped(Elapsed(later))) \div Span
                           /\ w = PowLimit \/ w = (o * Clamped(Elapsed(later))) \div Span
      BY <2>1, <2>2, NextBits
    <3> DEFINE a == (o * Clamped(Elapsed(diff))) \div Span
               b == (o * Clamped(Elapsed(later))) \div Span
    <3>2. a \in Nat /\ b \in Nat /\ a <= b
      <4> DEFINE c == Clamped(Elapsed(diff))
                 d == Clamped(Elapsed(later))
      <4>1. c \in Nat /\ d \in Nat /\ c <= d
        <5>1. Elapsed(diff) = diff /\ Elapsed(later) = later
          <6>1. diff \in Int /\ later \in Int
            BY <2>2
          <6>2. diff < TimeRange
            BY <2>9, <6>1, CompactAssumption
          <6> QED BY <2>9, <6>1, <6>2, ElapsedFits
        <5>2. diff \in Nat /\ later \in Nat
          BY <2>2, <5>1
        <5> QED BY <2>9, <5>1, <5>2, ClampedMore
      <4> HIDE DEF c, d
      <4>2. o * c \in Nat /\ o * d \in Nat
        BY <2>1, <4>1
      <4>3. o * c <= o * d
        <5>1. c * o <= d * o /\ c * o = o * c /\ d * o = o * d
          BY <2>1, <4>1, MulMore
        <5> QED BY <5>1
      <4> DEFINE p == o * c
                 q == o * d
      <4>4. p \in Nat /\ q \in Nat /\ p <= q
        BY <4>2, <4>3
      <4> HIDE DEF p, q
      <4>5. p \div Span <= q \div Span /\ p \div Span \in Nat /\ q \div Span \in Nat
        BY <2>4, <4>4, DivMore, DivBounds
      <4> QED BY <4>5 DEF p, q, c, d
    <3>3. v <= a /\ w <= b /\ (v = PowLimit \/ v = a) /\ (w = PowLimit \/ w = b)
      BY <2>3, <3>1
    <3> HIDE DEF a, b
    <3>4. v <= w
      BY <2>3, <2>4, <3>1, <3>2, <3>3
    <3>5. Expand(ToCompact(v)) <= Expand(ToCompact(w))
      BY <3>1, <3>4, ExpandMonotone
    <3>6. Expand(ToCompact(v)) \in Nat /\ Expand(ToCompact(w)) \in Nat
      BY <2>3, <3>1, ExpandLoses
    <3> HIDE DEF Bits
    <3> QED BY <2>3, <3>1, <3>5, <3>6
  <2> HIDE DEF Bits
  <2> QED BY <2>6, <2>8, <2>9
<1> QED BY <1>1, <1>2, PTL
========================================================================
