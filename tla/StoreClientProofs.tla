-------------------------- MODULE StoreClientProofs --------------------------
(***************************************************************************)
(* What holds of one store and its caller for every set of bodies, every   *)
(* length, every file size and every number of files.                      *)
(***************************************************************************)
EXTENDS StoreClient, StoreProofs

-----------------------------------------------------------------------------
(* Lengths of files, and the handle of the one written to. *)
Limited(s) == \A i \in 0..s.idx : Len(s.files[i]) <= MaxFileSize
Writable(s) == s.idx \in ToSet(s.open)

LEMMA AppendLengths ==
    ASSUME NEW B, NEW s, IsStore(s, B), NEW body \in B, NEW k \in Nat
    PROVE  LET n == AppendBytes(s, Bytes(body, k))
           IN  /\ n.idx = s.idx /\ n.open = s.open
               /\ Len(n.files[s.idx]) = Len(s.files[s.idx]) + k
               /\ \A i \in 0..s.idx : i # s.idx => n.files[i] = s.files[i]
<1> DEFINE f == s.files[s.idx]
           g == Bytes(body, k)
           S == Byte(B)
           n == AppendBytes(s, g)
<1>1. f \in Seq(S) /\ s.idx \in 0..s.idx /\ s.files \in [0..s.idx -> Seq(S)]
  BY DEF IsStore
<1>2. g \in Seq(S) /\ Len(g) = k
  <2>1. \A j \in 1..k : [of |-> body, at |-> j] \in S
    BY DEF Byte
  <2>2. QED BY <2>1 DEF Bytes
<1>3. n = [idx |-> s.idx, open |-> s.open, files |-> [s.files EXCEPT ![s.idx] = f \o g]]
  BY AppendFields
<1> HIDE DEF S, g, n
<1>4. Len(f \o g) = Len(f) + k
  <2>1. f \in Seq(S) /\ g \in Seq(S) /\ Len(g) = k
    BY <1>1, <1>2
  <2> HIDE DEF f
  <2>2. QED BY <2>1
<1>5. QED BY <1>1, <1>3, <1>4 DEF n, g

LEMMA NextFileLimit ==
    ASSUME NEW B, NEW s, IsStore(s, B), Limited(s)
    PROVE  LET n == NextFile(s)
           IN  Limited(n) /\ Writable(n) /\ n.files[n.idx] = <<>> /\ n.idx = s.idx + 1
<1> DEFINE n == NextFile(s)
<1>1. s.idx \in Nat /\ s.open \in Seq(0..s.idx)
  BY DEF IsStore
<1>2. n.idx = s.idx + 1 /\ n.open = Append(s.open, s.idx + 1)
      /\ n.files = [i \in 0..(s.idx + 1) |-> IF i <= s.idx THEN s.files[i] ELSE <<>>]
  BY DEF NextFile
<1>3. n.files[n.idx] = <<>>
  BY <1>1, <1>2
<1>4. \A i \in 0..n.idx : n.files[i] = <<>> \/ (i \in 0..s.idx /\ n.files[i] = s.files[i])
  BY <1>1, <1>2
<1>5. Limited(n)
  BY <1>4, StoreAssumption DEF Limited
<1>6. Writable(n)
  <2>1. Len(n.open) = Len(s.open) + 1 /\ n.open[Len(s.open) + 1] = n.idx
        /\ DOMAIN n.open = 1..(Len(s.open) + 1) /\ Len(s.open) \in Nat
    BY <1>1, <1>2
  <2>2. n.open[Len(s.open) + 1] \in ToSet(n.open)
    BY <2>1 DEF ToSet
  <2>3. QED BY <2>1, <2>2 DEF Writable
<1>7. QED BY <1>2, <1>3, <1>5, <1>6

LEMMA CheckNextLimit ==
    ASSUME NEW B, NEW s, IsStore(s, B), Limited(s), Writable(s),
           NEW l \in Nat, l <= MaxFileSize
    PROVE  LET c == CheckNext(s, l)
           IN  /\ Limited(c) /\ Writable(c)
               /\ Len(c.files[c.idx]) + l <= MaxFileSize
<1>1. CASE Len(s.files[s.idx]) + l <= MaxFileSize
  BY <1>1 DEF CheckNext
<1>2. CASE ~(Len(s.files[s.idx]) + l <= MaxFileSize)
  <2>1. CheckNext(s, l) = NextFile(s)
    BY <1>2 DEF CheckNext
  <2> DEFINE n == NextFile(s)
  <2>2. Limited(n) /\ Writable(n) /\ n.files[n.idx] = <<>>
    BY NextFileLimit
  <2>3. Len(n.files[n.idx]) + l <= MaxFileSize
    BY <2>2, StoreAssumption
  <2>4. QED BY <2>1, <2>2, <2>3
<1>3. QED BY <1>1, <1>2

(* Neither a push nor a part of one fills a file beyond the limit. *)
LEMMA TornLimit ==
    ASSUME NEW B, NEW s, IsStore(s, B), Limited(s), Writable(s),
           NEW l \in Nat, l <= MaxFileSize, NEW body \in B, NEW k \in Nat, k <= l
    PROVE  LET n == Torn(s, body, l, k)
           IN  Limited(n) /\ Writable(n) /\ n.idx = CheckNext(s, l).idx
<1> DEFINE c == CheckNext(s, l)
           n == AppendBytes(c, Bytes(body, k))
<1>1. IsStore(c, B)
  BY CheckNextFacts
<1>2. Limited(c) /\ Writable(c) /\ Len(c.files[c.idx]) + l <= MaxFileSize
  BY CheckNextLimit
<1> HIDE DEF c
<1>3. /\ n.idx = c.idx /\ n.open = c.open
      /\ Len(n.files[c.idx]) = Len(c.files[c.idx]) + k
      /\ \A i \in 0..c.idx : i # c.idx => n.files[i] = c.files[i]
  BY <1>1, AppendLengths
<1>4. Len(c.files[c.idx]) \in Nat
  BY <1>1 DEF IsStore
<1>5. Len(n.files[c.idx]) <= MaxFileSize
  BY <1>2, <1>3, <1>4, StoreAssumption
<1>6. Limited(n) /\ Writable(n)
  BY <1>2, <1>3, <1>5 DEF Limited, Writable
<1>7. QED BY <1>3, <1>6 DEF Torn, c

LEMMA ReopenLimit ==
    ASSUME NEW B, NEW s, IsStore(s, B), Limited(s)
    PROVE  Limited(Reopened(s)) /\ Writable(Reopened(s)) /\ Reopened(s).idx = s.idx
<1>1. s = [idx |-> s.idx, files |-> s.files, open |-> s.open] /\ s.idx \in Nat
  BY DEF IsStore
<1>2. Len(s.files[s.idx]) \in Nat /\ Len(s.files[s.idx]) <= MaxFileSize
  BY <1>1 DEF Limited, IsStore
<1>3. Reopened(s) = [s EXCEPT !.open = <<s.idx>>]
  BY <1>2, StoreAssumption DEF Reopened
<1>4. Reopened(s) = [idx |-> s.idx, files |-> s.files, open |-> <<s.idx>>]
  <2>1. PICK i, F, o : s = [idx |-> i, files |-> F, open |-> o]
    BY <1>1
  <2>2. QED BY <2>1, <1>3
<1>5. s.idx \in ToSet(<<s.idx>>)
  <2>1. 1 \in DOMAIN <<s.idx>> /\ <<s.idx>>[1] = s.idx
    OBVIOUS
  <2>2. QED BY <2>1 DEF ToSet
<1>6. QED BY <1>4, <1>5 DEF Limited, Writable

-----------------------------------------------------------------------------
(* The invariant: the properties of StoreClient together.  Positions stay   *)
(* because files only grow, and the limit keeps a new process from rolling  *)
(* on its own.                                                              *)
StoreInv == StoreTypeOK /\ ReadBack /\ FileLimit /\ WriterOpen

LEMMA LimitForms ==
    ASSUME StoreTypeOK
    PROVE  FileLimit <=> Limited(store)
<1>1. DOMAIN store.files = 0..store.idx
  BY DEF StoreTypeOK, IsStore
<1>2. QED BY <1>1 DEF FileLimit, Limited

LEMMA LimitFormsNext ==
    ASSUME StoreTypeOK'
    PROVE  FileLimit' <=> Limited(store')
<1>1. DOMAIN store'.files = 0..store'.idx
  BY DEF StoreTypeOK, IsStore
<1>2. QED BY <1>1 DEF FileLimit, Limited

LEMMA StoreInitInv == StoreInit => StoreInv
<1> SUFFICES ASSUME StoreInit PROVE StoreInv
  OBVIOUS
<1>1. IsStore(store, Body)
  <2> DEFINE S == Byte(Body)
  <2> HIDE DEF S
  <2>1. <<>> \in Seq(S)
    OBVIOUS
  <2>2. [i \in {0} |-> <<>>] \in [0..0 -> Seq(S)]
    BY <2>1
  <2>3. <<0>> \in Seq(0..0)
    OBVIOUS
  <2>4. QED BY <2>2, <2>3 DEF StoreInit, EmptyStore, IsStore, S
<1>2. StoreTypeOK
  BY <1>1, ClientAssumption DEF StoreInit, EmptyStore, StoreTypeOK
<1>3. FileLimit
  BY StoreAssumption DEF StoreInit, EmptyStore, FileLimit
<1>4. WriterOpen
  <2>1. 1 \in DOMAIN <<0>> /\ <<0>>[1] = 0
    OBVIOUS
  <2>2. QED BY <2>1 DEF StoreInit, EmptyStore, WriterOpen, ToSet
<1>5. ReadBack
  BY DEF StoreInit, ReadBack
<1>6. QED BY <1>2, <1>3, <1>4, <1>5 DEF StoreInv

LEMMA PushInv ==
    ASSUME StoreInv, NEW b \in Body, DoPush(b)
    PROVE  StoreInv'
<1> DEFINE l == BodyLen[b]
           r == [attr |-> PushAttr(store, l), body |-> b]
<1>1. l \in Nat /\ l <= MaxFileSize /\ CheckNext(store, l).idx <= MaxFiles
  BY ClientAssumption DEF DoPush, CanPush
<1>2. IsStore(store, Body) /\ Limited(store) /\ Writable(store)
  BY LimitForms DEF StoreInv, StoreTypeOK, WriterOpen, Writable
<1>3. store' = Pushed(store, b, l) /\ stored' = stored \cup {r} /\ got' = got
  BY DEF DoPush
<1>4. store' = Torn(store, b, l, l)
  BY <1>3 DEF Pushed, Torn
<1> HIDE DEF l
<1>5. /\ IsStore(store', Body) /\ PushAttr(store, l) \in Attr
      /\ OnDisk(store', PushAttr(store, l), b)
      /\ \A x \in Attr : \A y : OnDisk(store, x, y) => OnDisk(store', x, y)
  BY <1>1, <1>2, <1>3, PushFacts
<1>6. Limited(store') /\ Writable(store') /\ store'.idx = CheckNext(store, l).idx
  BY <1>1, <1>2, <1>4, TornLimit
<1>7. StoreTypeOK'
  BY <1>1, <1>3, <1>5, <1>6 DEF StoreInv, StoreTypeOK
<1>8. ReadBack'
  BY <1>3, <1>5 DEF StoreInv, StoreTypeOK, ReadBack
<1>9. FileLimit' /\ WriterOpen'
  BY <1>6, <1>7, LimitFormsNext DEF WriterOpen, Writable
<1>10. QED BY <1>7, <1>8, <1>9 DEF StoreInv

LEMMA FailInv ==
    ASSUME StoreInv, NEW b \in Body, NEW k \in 0..(BodyLen[b] - 1), PushFails(b, k)
    PROVE  StoreInv'
<1> DEFINE l == BodyLen[b]
<1>1. l \in Nat /\ l <= MaxFileSize /\ CheckNext(store, l).idx <= MaxFiles
      /\ k \in Nat /\ k <= l
  BY ClientAssumption DEF PushFails, CanPush
<1>2. IsStore(store, Body) /\ Limited(store) /\ Writable(store)
  BY LimitForms DEF StoreInv, StoreTypeOK, WriterOpen, Writable
<1>3. store' = Torn(store, b, l, k) /\ stored' = stored /\ got' = got
  BY DEF PushFails
<1> HIDE DEF l
<1>4. /\ IsStore(store', Body)
      /\ \A x \in Attr : \A y : OnDisk(store, x, y) => OnDisk(store', x, y)
  BY <1>1, <1>2, <1>3, TornFacts
<1>5. Limited(store') /\ Writable(store') /\ store'.idx = CheckNext(store, l).idx
  BY <1>1, <1>2, <1>3, TornLimit
<1>6. StoreTypeOK'
  BY <1>1, <1>3, <1>4, <1>5 DEF StoreInv, StoreTypeOK
<1>7. ReadBack'
  BY <1>3, <1>4 DEF StoreInv, StoreTypeOK, ReadBack
<1>8. FileLimit' /\ WriterOpen'
  BY <1>5, <1>6, LimitFormsNext DEF WriterOpen, Writable
<1>9. QED BY <1>6, <1>7, <1>8 DEF StoreInv

LEMMA PullInv ==
    ASSUME StoreInv, NEW r \in stored, DoPull(r)
    PROVE  StoreInv'
<1>1. store' = Looked(store, r.attr.idx) /\ stored' = stored
  BY DEF DoPull
<1>2. IsStore(store, Body) /\ r.attr.idx \in Nat /\ store.idx \in ToSet(store.open)
  BY DEF StoreInv, StoreTypeOK, WriterOpen, Attr
<1>3. /\ IsStore(store', Body) /\ store'.idx = store.idx /\ store'.files = store.files
      /\ store'.idx \in ToSet(store'.open)
  BY <1>1, <1>2, LookedFacts
<1>4. QED
  BY <1>1, <1>3 DEF StoreInv, StoreTypeOK, ReadBack, OnDisk, FileLimit, WriterOpen

LEMMA ReopenInv == StoreInv /\ Reopen => StoreInv'
<1> SUFFICES ASSUME StoreInv, Reopen PROVE StoreInv'
  OBVIOUS
<1>1. IsStore(store, Body) /\ Limited(store)
  BY LimitForms DEF StoreInv, StoreTypeOK
<1>2. store' = Reopened(store) /\ stored' = stored /\ got' = {}
  BY DEF Reopen
<1>3. /\ IsStore(store', Body)
      /\ \A x \in Attr : \A y : OnDisk(store, x, y) => OnDisk(store', x, y)
  BY <1>1, <1>2, ReopenFacts
<1>4. Limited(store') /\ Writable(store') /\ store'.idx = store.idx
  BY <1>1, <1>2, ReopenLimit
<1>5. StoreTypeOK'
  BY <1>2, <1>3, <1>4 DEF StoreInv, StoreTypeOK
<1>6. ReadBack'
  BY <1>2, <1>3 DEF StoreInv, StoreTypeOK, ReadBack
<1>7. FileLimit' /\ WriterOpen'
  BY <1>4, <1>5, LimitFormsNext DEF WriterOpen, Writable
<1>8. QED BY <1>5, <1>6, <1>7 DEF StoreInv

LEMMA StoreStepInv == StoreInv /\ [StoreNext]_storeVars => StoreInv'
<1>1. StoreInv /\ UNCHANGED storeVars => StoreInv'
  BY DEF storeVars, StoreInv, StoreTypeOK, ReadBack, FileLimit, WriterOpen
<1>2. QED BY <1>1, PushInv, FailInv, PullInv, ReopenInv DEF StoreNext

LEMMA StoreInvariant == StoreSpec => []StoreInv
<1>1. StoreInit => StoreInv
  BY StoreInitInv
<1>2. StoreInv /\ [StoreNext]_storeVars => StoreInv'
  BY StoreStepInv
<1>3. QED BY <1>1, <1>2, PTL DEF StoreSpec

-----------------------------------------------------------------------------
(* A store and what its caller keeps have their types. *)
THEOREM StoreTypeCorrect == StoreSpec => []StoreTypeOK
<1>1. StoreInv => StoreTypeOK
  BY DEF StoreInv
<1>2. QED BY <1>1, StoreInvariant, PTL

(* Whatever was torn and reopened, a position push returned refers to the   *)
(* bytes pushed (Store::push).                                              *)
THEOREM PositionsStay == StoreSpec => []ReadBack
<1>1. StoreInv => ReadBack
  BY DEF StoreInv
<1>2. QED BY <1>1, StoreInvariant, PTL

(* No file ever exceeds the limit, whatever was torn in it (check_next).    *)
THEOREM FilesLimited == StoreSpec => []FileLimit
<1>1. StoreInv => FileLimit
  BY DEF StoreInv
<1>2. QED BY <1>1, StoreInvariant, PTL

(* However few handles are kept, the file written to is never closed        *)
(* (remove_file, init_file).                                                *)
THEOREM WriterStaysOpen == StoreSpec => []WriterOpen
<1>1. StoreInv => WriterOpen
  BY DEF StoreInv
<1>2. QED BY <1>1, StoreInvariant, PTL

(* Where open_file finds no file, its directory being no extension, a pull  *)
(* returns what was pushed at that position or fails (Store::pull).         *)
THEOREM PullsExact ==
    ASSUME Dir # Ext
    PROVE  StoreSpec => []PullExact
<1>1. StoreInit => PullExact
  BY DEF StoreInit, PullExact
<1>2. ASSUME StoreInv, PullExact, [StoreNext]_storeVars PROVE PullExact'
  <2>1. ASSUME NEW r \in stored, DoPull(r), CanPull(store, r.attr) PROVE PullExact'
    <3>1. /\ got' = {[ok |-> TRUE, attr |-> r.attr, bytes |-> Pull(store, r.attr)]}
          /\ stored' = stored
      BY <2>1 DEF DoPull
    <3>2. OnDisk(store, r.attr, r.body)
      BY <1>2 DEF StoreInv, ReadBack
    <3>3. ~Missing(store, r.attr.idx)
      BY <2>1 DEF CanPull, Openable, OpenExt
    <3>4. Pull(store, r.attr) = Bytes(r.body, r.attr.len)
      BY <3>2, <3>3 DEF Pull, Handle, OnDisk
    <3>5. QED BY <3>1, <3>4 DEF PullExact
  <2>2. ASSUME NEW r \in stored, DoPull(r), ~CanPull(store, r.attr) PROVE PullExact'
    <3>1. got' = {[ok |-> FALSE, attr |-> r.attr, bytes |-> <<>>]}
      BY <2>2 DEF DoPull
    <3>2. QED BY <3>1 DEF PullExact
  <2>3. CASE ~\E r \in stored : DoPull(r)
    BY <1>2, <2>3 DEF StoreNext, storeVars, DoPush, PushFails, Reopen, PullExact
  <2>4. QED BY <2>1, <2>2, <2>3
<1>3. QED BY <1>1, <1>2, StoreInvariant, PTL DEF StoreSpec
=============================================================================
