----------------------------- MODULE StoreProofs -----------------------------
(***************************************************************************)
(* Facts about the data files that hold for every file size and every      *)
(* body: what an append leaves in place and what it puts where.            *)
(***************************************************************************)
EXTENDS Store, SequenceTheorems, WellFoundedInduction, TLAPS

(* The fields of a store, the file written to grown by some bytes. *)
LEMMA AppendFields ==
    ASSUME NEW B, NEW s, IsStore(s, B), NEW g
    PROVE  AppendBytes(s, g) =
             [idx |-> s.idx, open |-> s.open,
              files |-> [s.files EXCEPT ![s.idx] = s.files[s.idx] \o g]]
<1>1. s = [idx |-> s.idx, files |-> s.files, open |-> s.open]
  BY DEF IsStore
<1>2. PICK i, F, o : s = [idx |-> i, files |-> F, open |-> o]
  BY <1>1
<1>3. [s EXCEPT !.files[i] = @ \o g]
         = [idx |-> i, open |-> o, files |-> [F EXCEPT ![i] = F[i] \o g]]
  BY <1>2
<1>4. QED BY <1>2, <1>3 DEF AppendBytes

(* Appending bytes to the last file: the file grows by them at its end and  *)
(* what a position referred to before stays there (StoreFile::append).      *)
LEMMA AppendFacts ==
    ASSUME NEW B, NEW s, IsStore(s, B),
           NEW body \in B, NEW l \in Nat
    PROVE  LET n == AppendBytes(s, Bytes(body, l))
               a == [idx |-> s.idx, off |-> Len(s.files[s.idx]), len |-> l]
           IN  /\ IsStore(n, B) /\ n.idx = s.idx /\ n.open = s.open
               /\ a \in Attr
               /\ OnDisk(n, a, body)
               /\ \A x \in Attr : \A y : OnDisk(s, x, y) => OnDisk(n, x, y)
<1> DEFINE f == s.files[s.idx]
           g == Bytes(body, l)
           S == Byte(B)
           n == AppendBytes(s, g)
           a == [idx |-> s.idx, off |-> Len(f), len |-> l]
<1>1. f \in Seq(S) /\ s.idx \in 0..s.idx /\ s.idx \in Nat
  BY DEF IsStore
<1>2. g \in Seq(S) /\ Len(g) = l /\ \A k \in 1..l : g[k] = [of |-> body, at |-> k]
  <2>1. \A k \in 1..l : [of |-> body, at |-> k] \in S
    BY DEF Byte
  <2>2. QED BY <2>1 DEF Bytes
<1>3. n = [idx |-> s.idx, open |-> s.open, files |-> [s.files EXCEPT ![s.idx] = f \o g]]
  BY AppendFields
<1>4. s.files \in [0..s.idx -> Seq(S)] /\ s.open \in Seq(0..s.idx)
  BY DEF IsStore
<1>5. a \in Attr
  BY <1>1 DEF Attr
<1> HIDE DEF g, S, n
<1>6. f \o g \in Seq(S) /\ Len(f \o g) = Len(f) + l
      /\ (\A k \in 1..Len(f) : (f \o g)[k] = f[k])
      /\ (\A k \in 1..l : (f \o g)[Len(f) + k] = g[k])
  <2>1. f \in Seq(S) /\ g \in Seq(S) /\ Len(g) = l
    BY <1>1, <1>2
  <2> HIDE DEF f
  <2>2. QED BY <2>1
<1>7. /\ n.idx = s.idx /\ n.open = s.open
      /\ n.files \in [0..s.idx -> Seq(S)]
      /\ n.files[s.idx] = f \o g
      /\ \A i \in 0..s.idx : i # s.idx => n.files[i] = s.files[i]
  BY <1>1, <1>3, <1>4, <1>6
<1>8. n = [idx |-> n.idx, files |-> n.files, open |-> n.open]
  BY <1>3
<1>9. IsStore(n, B)
  BY <1>1, <1>4, <1>7, <1>8 DEF IsStore, S
<1>10. OnDisk(n, a, body)
  <2>1. Span(n.files[s.idx], a) = Bytes(body, l)
    BY <1>2, <1>6, <1>7 DEF Span, Bytes
  <2>2. InFile(n.files[s.idx], a)
    BY <1>6, <1>7, <1>1 DEF InFile
  <2>3. QED BY <2>1, <2>2, <1>1, <1>7 DEF OnDisk
<1>11. ASSUME NEW x \in Attr, NEW y, OnDisk(s, x, y)
       PROVE  OnDisk(n, x, y)
  <2>1. x.idx \in 0..s.idx /\ InFile(s.files[x.idx], x)
        /\ Span(s.files[x.idx], x) = Bytes(y, x.len)
    BY <1>11 DEF OnDisk
  <2>2. x.off \in Nat /\ x.len \in Nat
    BY DEF Attr
  <2>3. CASE x.idx # s.idx
    BY <2>1, <2>3, <1>7 DEF OnDisk
  <2>4. CASE x.idx = s.idx
    <3>1. \A k \in 1..x.len : x.off + k \in 1..Len(f)
      BY <2>1, <2>2, <2>4, <1>1 DEF InFile
    <3>2. \A k \in 1..x.len : n.files[s.idx][x.off + k] = f[x.off + k]
      BY <3>1, <1>6, <1>7
    <3>3. Span(n.files[x.idx], x) = Span(s.files[x.idx], x)
      BY <3>2, <2>4 DEF Span
    <3>4. InFile(n.files[x.idx], x)
      <4>1. x.off + x.len <= Len(f)
        BY <2>1, <2>4 DEF InFile
      <4>2. n.files[x.idx] = f \o g
        BY <2>4, <1>7
      <4>3. Len(f) \in Nat
        BY <1>1
      <4>4. x.off + x.len <= Len(f \o g)
        BY <2>2, <4>1, <4>3, <1>1, <1>6
      <4>5. QED BY <4>2, <4>4 DEF InFile
    <3>5. QED BY <3>3, <3>4, <2>1, <1>7 DEF OnDisk
  <2>5. QED BY <2>3, <2>4
<1>12. QED BY <1>5, <1>7, <1>9, <1>10, <1>11 DEF n, g

(* Rolling to a new file leaves the others as they are (check_next). *)
LEMMA NextFileFacts ==
    ASSUME NEW B, NEW s, IsStore(s, B)
    PROVE  /\ IsStore(NextFile(s), B)
           /\ \A x \in Attr : \A y : OnDisk(s, x, y) => OnDisk(NextFile(s), x, y)
<1> DEFINE n == NextFile(s)
           S == Byte(B)
<1>1. s.idx \in Nat /\ s.files \in [0..s.idx -> Seq(S)] /\ s.open \in Seq(0..s.idx)
  BY DEF IsStore
<1> HIDE DEF S
<1>2. n.idx = s.idx + 1 /\ n.open = Append(s.open, s.idx + 1)
      /\ n.files = [i \in 0..(s.idx + 1) |-> IF i <= s.idx THEN s.files[i] ELSE <<>>]
      /\ n = [idx |-> n.idx, files |-> n.files, open |-> n.open]
  BY DEF NextFile
<1>3. <<>> \in Seq(S)
  OBVIOUS
<1>4. \A i \in 0..(s.idx + 1) : n.files[i] \in Seq(S)
  BY <1>1, <1>2, <1>3
<1>5. n.files \in [0..n.idx -> Seq(S)]
  BY <1>2, <1>4
<1>6. n.open \in Seq(0..n.idx)
  <2>1. \A i \in 1..Len(s.open) : s.open[i] \in 0..s.idx
    BY <1>1
  <2>2. s.open \in Seq(0..(s.idx + 1))
    BY <2>1, <1>1
  <2>3. QED BY <2>2, <1>1, <1>2
<1>7. IsStore(n, B)
  BY <1>1, <1>2, <1>5, <1>6 DEF IsStore, S
<1>8. \A i \in 0..s.idx : n.files[i] = s.files[i]
  BY <1>1, <1>2
<1>9. \A x \in Attr : \A y : OnDisk(s, x, y) => OnDisk(n, x, y)
  BY <1>1, <1>2, <1>8 DEF OnDisk
<1>10. QED BY <1>7, <1>9

LEMMA CheckNextFacts ==
    ASSUME NEW B, NEW s, IsStore(s, B), NEW l
    PROVE  /\ IsStore(CheckNext(s, l), B)
           /\ \A x \in Attr : \A y : OnDisk(s, x, y) => OnDisk(CheckNext(s, l), x, y)
BY NextFileFacts DEF CheckNext

(* A push puts its body where the position it returns refers to, and what   *)
(* other positions refer to stays (Store::push).                            *)
THEOREM PushFacts ==
    ASSUME NEW B, NEW s, IsStore(s, B),
           NEW body \in B, NEW l \in Nat
    PROVE  /\ IsStore(Pushed(s, body, l), B)
           /\ PushAttr(s, l) \in Attr /\ PushAttr(s, l).len = l
           /\ OnDisk(Pushed(s, body, l), PushAttr(s, l), body)
           /\ \A x \in Attr : \A y :
                 OnDisk(s, x, y) => OnDisk(Pushed(s, body, l), x, y)
<1> DEFINE c == CheckNext(s, l)
<1>1. IsStore(c, B) /\ \A x \in Attr : \A y : OnDisk(s, x, y) => OnDisk(c, x, y)
  BY CheckNextFacts
<1>2. Pushed(s, body, l) = AppendBytes(c, Bytes(body, l))
      /\ PushAttr(s, l) = [idx |-> c.idx, off |-> Len(c.files[c.idx]), len |-> l]
  BY DEF Pushed, PushAttr
<1> HIDE DEF c
<1>3. QED BY <1>1, <1>2, AppendFacts

(* A push that fails midway, or a crash in it, moves nothing either.        *)
THEOREM TornFacts ==
    ASSUME NEW B, NEW s, IsStore(s, B),
           NEW body \in B, NEW l \in Nat, NEW k \in Nat
    PROVE  /\ IsStore(Torn(s, body, l, k), B)
           /\ \A x \in Attr : \A y :
                 OnDisk(s, x, y) => OnDisk(Torn(s, body, l, k), x, y)
<1> DEFINE c == CheckNext(s, l)
<1>1. IsStore(c, B) /\ \A x \in Attr : \A y : OnDisk(s, x, y) => OnDisk(c, x, y)
  BY CheckNextFacts
<1>2. Torn(s, body, l, k) = AppendBytes(c, Bytes(body, k))
  BY DEF Torn
<1> HIDE DEF c
<1>3. /\ IsStore(AppendBytes(c, Bytes(body, k)), B)
      /\ \A x \in Attr : \A y :
            OnDisk(c, x, y) => OnDisk(AppendBytes(c, Bytes(body, k)), x, y)
  BY <1>1, AppendFacts
<1>4. QED BY <1>1, <1>2, <1>3

(* A new process finds every position where it was (Store::new).            *)
THEOREM ReopenFacts ==
    ASSUME NEW B, NEW s, IsStore(s, B)
    PROVE  /\ IsStore(Reopened(s), B)
           /\ \A x \in Attr : \A y : OnDisk(s, x, y) => OnDisk(Reopened(s), x, y)
<1> DEFINE n == IF Len(s.files[s.idx]) > MaxFileSize THEN NextFile(s) ELSE s
           r == [n EXCEPT !.open = <<n.idx>>]
<1>1. IsStore(n, B) /\ \A x \in Attr : \A y : OnDisk(s, x, y) => OnDisk(n, x, y)
  BY NextFileFacts
<1>2. Reopened(s) = r
  BY DEF Reopened
<1> HIDE DEF n
<1>3. r = [idx |-> n.idx, files |-> n.files, open |-> <<n.idx>>]
  <2>1. n = [idx |-> n.idx, files |-> n.files, open |-> n.open]
    BY <1>1 DEF IsStore
  <2>2. PICK i, F, o : n = [idx |-> i, files |-> F, open |-> o]
    BY <2>1
  <2>3. QED BY <2>2
<1>4. r.idx = n.idx /\ r.files = n.files /\ r.open = <<n.idx>>
  BY <1>3
<1>5. <<n.idx>> \in Seq(0..n.idx)
  BY <1>1 DEF IsStore
<1>6. IsStore(r, B)
  BY <1>1, <1>3, <1>4, <1>5 DEF IsStore
<1>7. \A x : \A y : OnDisk(n, x, y) => OnDisk(r, x, y)
  BY <1>4 DEF OnDisk
<1> HIDE DEF r
<1>8. QED BY <1>1, <1>2, <1>6, <1>7

(* Removing the element at one place leaves those at the others.            *)
LEMMA RemoveAtFacts ==
    ASSUME NEW S, NEW q \in Seq(S), NEW p \in 1..Len(q)
    PROVE  /\ RemoveAt(q, p) \in Seq(S)
           /\ \A i \in 1..Len(q) : i # p => q[i] \in ToSet(RemoveAt(q, p))
<1> DEFINE u == SubSeq(q, 1, p - 1)
           v == SubSeq(q, p + 1, Len(q))
<1>1. Len(q) \in Nat /\ \A i \in 1..Len(q) : q[i] \in S
  OBVIOUS
<1>2. /\ u \in Seq(S) /\ Len(u) = p - 1
      /\ \A i \in 1..(p - 1) : u[i] = q[i]
  BY <1>1, SubSeqProperties
<1>3. /\ v \in Seq(S) /\ Len(v) = Len(q) - p
      /\ \A i \in 1..(Len(q) - p) : v[i] = q[p + i]
  BY <1>1, SubSeqProperties
<1> HIDE DEF u, v
<1>4. /\ u \o v \in Seq(S) /\ Len(u \o v) = Len(q) - 1
      /\ \A i \in 1..(Len(q) - 1) : (u \o v)[i] = IF i <= p - 1 THEN u[i] ELSE v[i - (p - 1)]
  <2>1. /\ u \o v \in Seq(S)
        /\ Len(u \o v) = Len(u) + Len(v)
        /\ \A i \in 1..(Len(u) + Len(v)) :
              (u \o v)[i] = IF i <= Len(u) THEN u[i] ELSE v[i - Len(u)]
    BY <1>2, <1>3, ConcatProperties
  <2>2. Len(u) + Len(v) = Len(q) - 1
    BY <1>1, <1>2, <1>3
  <2> QED
    BY <1>2, <2>1, <2>2
<1>5. ASSUME NEW i \in 1..Len(q), i # p
      PROVE  \E k \in 1..(Len(q) - 1) : (u \o v)[k] = q[i]
  <2>1. CASE i < p
    BY <1>1, <1>2, <1>4, <2>1
  <2>2. CASE i > p
    <3>1. i - 1 \in 1..(Len(q) - 1) /\ ~(i - 1 <= p - 1) /\ (i - 1) - (p - 1) = i - p
      BY <1>1, <2>2
    <3>2. i - p \in 1..(Len(q) - p) /\ p + (i - p) = i
      BY <1>1, <2>2
    <3>3. (u \o v)[i - 1] = v[i - p] /\ v[i - p] = q[i]
      BY <1>3, <1>4, <3>1, <3>2
    <3> QED
      BY <3>1, <3>3
  <2>3. i < p \/ i > p
    BY <1>1, <1>5
  <2> QED
    BY <2>1, <2>2, <2>3
<1>6. DOMAIN (u \o v) = 1..(Len(q) - 1)
  BY <1>4
<1> QED
  BY <1>4, <1>5, <1>6 DEF RemoveAt, ToSet, u, v

(* A non-empty set of naturals has a smallest.                              *)
LEMMA Smallest ==
    ASSUME NEW T \in SUBSET Nat, T # {}
    PROVE  \E x \in T : \A y \in T : x <= y
<1>1. \E x \in T : \A y \in T : <<y, x>> \notin OpToRel(<, Nat)
  BY WFMin, NatLessThanWellFounded
<1>2. PICK x \in T : \A y \in T : <<y, x>> \notin OpToRel(<, Nat)
  BY <1>1
<1>3. ASSUME NEW y \in T PROVE x <= y
  <2>1. <<y, x>> \in Nat \X Nat /\ <<y, x>>[1] = y /\ <<y, x>>[2] = x
    OBVIOUS
  <2>2. ~(y < x)
    BY <1>2, <2>1 DEF OpToRel
  <2> QED
    BY <2>2
<1> QED
  BY <1>3

(* Looking up a handle, with whatever it opens and closes, changes no file  *)
(* and leaves the one written to open (open_file, remove_file).             *)
THEOREM LookedFacts ==
    ASSUME NEW B, NEW s, IsStore(s, B), NEW i \in Nat
    PROVE  /\ IsStore(Looked(s, i), B)
           /\ Looked(s, i).idx = s.idx /\ Looked(s, i).files = s.files
           /\ s.idx \in ToSet(s.open) => s.idx \in ToSet(Looked(s, i).open)
<1>1. CASE ~(Missing(s, i) /\ Openable(s, i))
  BY <1>1 DEF Looked
<1>2. CASE Missing(s, i) /\ Openable(s, i)
  <2> DEFINE D == 0..s.idx
             o == Append(s.open, i)
             n == [s EXCEPT !.open = o]
             others == {p \in DOMAIN o : o[p] # s.idx}
             lowest == CHOOSE p \in others : \A q \in others : o[p] <= o[q]
             r == RemoveAt(o, lowest)
  <2>1. s = [idx |-> s.idx, files |-> s.files, open |-> s.open] /\ s.open \in Seq(D)
    BY DEF IsStore
  <2>2. i \in D
    BY <1>2 DEF Openable, IsStore
  <2>3. /\ o \in Seq(D) /\ DOMAIN o = 1..Len(o) /\ Len(o) = Len(s.open) + 1
        /\ \A p \in 1..Len(s.open) : o[p] = s.open[p]
    BY <2>1, <2>2, AppendProperties
  <2>4. n = [idx |-> s.idx, files |-> s.files, open |-> o]
    <3> DEFINE a == s.idx
               F == s.files
               c == s.open
    <3>1. s = [idx |-> a, files |-> F, open |-> c]
      BY <2>1
    <3> HIDE DEF a, F, c, o
    <3>2. n = [idx |-> a, files |-> F, open |-> o]
      BY <3>1
    <3> QED
      BY <3>2 DEF a, F, c
  <2>5. n.idx = s.idx /\ n.files = s.files /\ n.open = o
    BY <2>4
  <2>6. s.idx \in ToSet(s.open) => \E p \in 1..Len(o) : o[p] = s.idx
    BY <2>1, <2>3 DEF ToSet
  <2>7. others # {} => lowest \in others
    <3> HIDE DEF o
    <3>1. ASSUME others # {}
          PROVE  \E p \in others : \A q \in others : o[p] <= o[q]
      <4>1. {o[p] : p \in others} \in SUBSET Nat /\ {o[p] : p \in others} # {}
        <5>1. D \subseteq Nat
          BY DEF IsStore
        <5>2. \A p \in others : o[p] \in D
          <6> HIDE DEF D
          <6>1. \A p \in 1..Len(o) : o[p] \in D
            BY <2>3
          <6>2. others \subseteq 1..Len(o)
            BY <2>3
          <6> QED
            BY <6>1, <6>2
        <5> QED
          BY <3>1, <5>1, <5>2
      <4>2. PICK x \in {o[p] : p \in others} : \A y \in {o[p] : p \in others} : x <= y
        BY <4>1, Smallest
      <4> QED
        BY <4>2
    <3> QED
      BY <3>1
  <2>8. \/ Looked(s, i) = n
        \/ others # {} /\ Looked(s, i) = [n EXCEPT !.open = r]
    BY <1>2, <2>5 DEF Looked, OpenFile, RemoveFile
  <2>9. [n EXCEPT !.open = r] = [idx |-> s.idx, files |-> s.files, open |-> r]
    <3> HIDE DEF r, o, n
    <3>1. PICK a, F, c : n = [idx |-> a, files |-> F, open |-> c]
      BY <2>4
    <3>2. a = s.idx /\ F = s.files
      BY <2>4, <3>1
    <3> QED
      BY <3>1, <3>2
  <2>10. others # {} =>
            r \in Seq(D) /\ (s.idx \in ToSet(s.open) => s.idx \in ToSet(r))
    <3> HIDE DEF o
    <3>1. ASSUME others # {}
          PROVE  r \in Seq(D) /\ (s.idx \in ToSet(s.open) => s.idx \in ToSet(r))
      <4>1. lowest \in 1..Len(o) /\ o[lowest] # s.idx
        BY <2>3, <2>7, <3>1
      <4> HIDE DEF lowest
      <4> QED
        BY <2>3, <2>6, <4>1, RemoveAtFacts
    <3> QED
      BY <3>1
  <2>11. s.idx \in ToSet(s.open) => s.idx \in ToSet(o)
    BY <2>3, <2>6 DEF ToSet
  <2> HIDE DEF n, r, o
  <2>12. CASE Looked(s, i) = n
    BY <2>3, <2>4, <2>11, <2>12 DEF IsStore
  <2>13. CASE others # {} /\ Looked(s, i) = [n EXCEPT !.open = r]
    BY <2>9, <2>10, <2>13 DEF IsStore
  <2> QED
    BY <2>8, <2>12, <2>13
<1> QED
  BY <1>1, <1>2

(* Where open_file opens none, a pull that succeeds reads the file it was   *)
(* asked for, and returns the body the position refers to.                  *)
THEOREM PullFacts ==
    ASSUME NEW B, NEW s, IsStore(s, B), NEW a \in Attr, CanPull(s, a), a.len > 0, Dir # Ext
    PROVE  /\ Pull(s, a)[1].of \in B
           /\ \A y : OnDisk(s, a, y) => /\ Pull(s, a)[1].of = y
                                        /\ Pull(s, a) = Bytes(y, a.len)
<1>1. ~Missing(s, a.idx) /\ Handle(s, a.idx) = a.idx
  BY DEF CanPull, Openable, OpenExt, Handle
<1>2. Pull(s, a) = Span(s.files[a.idx], a) /\ InFile(s.files[a.idx], a)
  BY <1>1 DEF Pull, CanPull
<1>3. a.idx \in 0..s.idx
  BY <1>1 DEF Missing, ToSet, IsStore
<1>4. a.off \in Nat /\ a.len \in Nat /\ 1 \in 1..a.len
  BY DEF Attr
<1>5. s.files[a.idx] \in Seq(Byte(B))
  BY <1>3 DEF IsStore
<1>6. s.files[a.idx][a.off + 1] \in Byte(B)
  <2>1. a.off + 1 \in 1..Len(s.files[a.idx])
    BY <1>2, <1>4, <1>5 DEF InFile
  <2>2. QED BY <2>1, <1>5
<1>7. Pull(s, a)[1] = s.files[a.idx][a.off + 1]
  BY <1>2, <1>4 DEF Span
<1>8. Pull(s, a)[1].of \in B
  BY <1>6, <1>7 DEF Byte
<1>9. ASSUME NEW y, OnDisk(s, a, y)
      PROVE  Pull(s, a)[1].of = y /\ Pull(s, a) = Bytes(y, a.len)
  <2>1. Pull(s, a) = Bytes(y, a.len)
    BY <1>2, <1>9 DEF OnDisk
  <2>2. Bytes(y, a.len)[1] = [of |-> y, at |-> 1]
    BY <1>4 DEF Bytes
  <2>3. QED BY <2>1, <2>2
<1>10. QED BY <1>8, <1>9
=============================================================================
