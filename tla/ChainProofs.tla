----------------------------- MODULE ChainProofs -----------------------------
(***************************************************************************)
(* What holds of the chain for any number of threads and calls.            *)
(***************************************************************************)
EXTENDS Chain, LedgerProofs

(* A call in its second half has what it asks the indexer for: attributes  *)
(* it once read, and of a transaction its place in a block.                *)
Half(c) ==
    /\ c.pc = "get" => /\ c.t \in Tx /\ c.at \in TxAttr
                       /\ c.at.idx \in DOMAIN Txs(c.at.blk) /\ Txs(c.at.blk)[c.at.idx] = c.t
    /\ c.pc = "load" => c.b \in Block /\ c.attr \in BlkAttr

CallsOK == \A p \in Thread : Half(th[p])

Quiet(c) == c.pc = "tell" => c.by = 0

-----------------------------------------------------------------------------
(* The call of one thread changes, the others' stay. *)
LEMMA GoesFacts ==
    ASSUME ChainTypeOK, CallsOK, NEW p \in Thread, NEW c \in Call, Half(c), Goes(p, c)
    PROVE  /\ th' \in [Thread -> Call] /\ seen' \in [Thread -> SUBSET BOOLEAN] /\ CallsOK'
           /\ \A q \in Thread : th'[q] = IF q = p THEN c ELSE th[q]
<1>1. th \in [Thread -> Call] /\ seen \in [Thread -> SUBSET BOOLEAN]
  BY DEF ChainTypeOK
<1>2. th' = [th EXCEPT ![p] = c]
  BY DEF Goes
<1>3. \A q \in Thread : th'[q] = IF q = p THEN c ELSE th[q]
  BY <1>1, <1>2
<1>4. th' \in [Thread -> Call]
  BY <1>1, <1>2
<1>5. CallsOK'
  BY <1>3 DEF CallsOK, Half
<1>6. seen' \in [Thread -> SUBSET BOOLEAN]
  BY <1>1 DEF Goes
<1>7. QED BY <1>3, <1>4, <1>5, <1>6

(* The calls the actions make. *)
Telling(b, by)   == [Idle EXCEPT !.pc = "tell", !.b = b, !.by = by]
Answered(t, got) == [Idle EXCEPT !.pc = "ret", !.t = t, !.got = got]
Getting(t, at)   == [Idle EXCEPT !.pc = "get", !.t = t, !.at = at]
Loading(b, a)    == [Idle EXCEPT !.pc = "load", !.b = b, !.attr = a]
Creating         == [Idle EXCEPT !.pc = "create"]

LEMMA CallTypes ==
    /\ Idle \in Call /\ Idle.pc = "idle"
    /\ \A b \in Block \cup {NoBlock}, by \in {-1, 0, 1} :
          /\ Telling(b, by) \in Call /\ Telling(b, by).pc = "tell"
          /\ Telling(b, by).b = b /\ Telling(b, by).by = by
    /\ \A t \in Tx, got \in Tx \cup {NoTx} :
          /\ Answered(t, got) \in Call /\ Answered(t, got).pc = "ret"
          /\ Answered(t, got).t = t /\ Answered(t, got).got = got
    /\ \A t \in Tx, at \in TxAttr :
          /\ Getting(t, at) \in Call /\ Getting(t, at).pc = "get"
          /\ Getting(t, at).t = t /\ Getting(t, at).at = at
    /\ \A b \in Block, a \in BlkAttr :
          /\ Loading(b, a) \in Call /\ Loading(b, a).pc = "load"
          /\ Loading(b, a).b = b /\ Loading(b, a).attr = a
    /\ Creating \in Call /\ Creating.pc = "create"
<1> DEFINE A == BlkAttr \cup {NoAttr}
           T == TxAttr \cup {NoTxAttr}
           B == Block \cup {NoBlock}
           X == Tx \cup {NoTx}
<1>1. Call = [pc : {"idle", "tell", "get", "ret", "load", "create"}, b : B, t : X,
              attr : A, at : T, got : X, by : {-1, 0, 1}]
  BY DEF Call
<1>2. Idle = [pc |-> "idle", b |-> NoBlock, t |-> NoTx, attr |-> NoAttr, at |-> NoTxAttr,
              got |-> NoTx, by |-> 0]
  BY DEF Idle
<1>3. NoBlock \in B /\ NoTx \in X /\ NoAttr \in A /\ NoTxAttr \in T
      /\ Block \subseteq B /\ Tx \subseteq X /\ BlkAttr \subseteq A /\ TxAttr \subseteq T
  OBVIOUS
<1> HIDE DEF A, T, B, X
<1>4. Idle \in Call /\ Idle.pc = "idle"
  BY <1>1, <1>2, <1>3
<1>5. \A b \in Block \cup {NoBlock}, by \in {-1, 0, 1} :
          /\ Telling(b, by) \in Call /\ Telling(b, by).pc = "tell"
          /\ Telling(b, by).b = b /\ Telling(b, by).by = by
  BY <1>1, <1>2, <1>3 DEF Telling, B
<1>6. \A t \in Tx, got \in Tx \cup {NoTx} :
          /\ Answered(t, got) \in Call /\ Answered(t, got).pc = "ret"
          /\ Answered(t, got).t = t /\ Answered(t, got).got = got
  BY <1>1, <1>2, <1>3 DEF Answered, X
<1>7. \A t \in Tx, at \in TxAttr :
          /\ Getting(t, at) \in Call /\ Getting(t, at).pc = "get"
          /\ Getting(t, at).t = t /\ Getting(t, at).at = at
  BY <1>1, <1>2, <1>3 DEF Getting
<1>8. \A b \in Block, a \in BlkAttr :
          /\ Loading(b, a) \in Call /\ Loading(b, a).pc = "load"
          /\ Loading(b, a).b = b /\ Loading(b, a).attr = a
  BY <1>1, <1>2, <1>3 DEF Loading
<1>9. Creating \in Call /\ Creating.pc = "create"
  BY <1>1, <1>2, <1>3 DEF Creating
<1>10. QED BY <1>4, <1>5, <1>6, <1>7, <1>8, <1>9

-----------------------------------------------------------------------------
(* What get_tx has seen of the transaction: it found it once, and answers   *)
(* with it or with none.                                                    *)
Witnessed(c, s) ==
    /\ c.pc = "get" => TRUE \in s
    /\ c.pc = "ret" => c.got \in {c.t, NoTx} /\ (c.got # NoTx => TRUE \in s)

Witness == \A p \in Thread : Witnessed(th[p], seen[p])

(* The indexer's own invariant says nothing of the cache, which LoadBlock     *)
(* fills with blocks off the chain.                                         *)
ChainInv == IndexInv /\ ChainTypeOK /\ CallsOK /\ Witness /\ ReportsAddUp

(* A step that keeps the counters in range keeps the types. *)
LEMMA StepTypes ==
    ASSUME ChainTypeOK, CallsOK, NEW p \in Thread, NEW c \in Call, Half(c), Goes(p, c),
           told' \in [Block -> Int], holder' \in Thread \cup {NoThread},
           poisoned' \in BOOLEAN, calls' \in 0..MaxCalls
    PROVE  ChainTypeOK' /\ CallsOK'
BY GoesFacts DEF ChainTypeOK

LEMMA StepWitness ==
    ASSUME ChainTypeOK, CallsOK, Witness, NEW p \in Thread, NEW c \in Call, Half(c), Goes(p, c),
           Witnessed(c, seen'[p])
    PROVE  Witness'
<1>1. \A q \in Thread : th'[q] = IF q = p THEN c ELSE th[q]
  BY GoesFacts
<1>2. ASSUME NEW q \in Thread, q # p PROVE Witnessed(th'[q], seen'[q])
  <2>1. th'[q] = th[q] /\ Witnessed(th[q], seen[q])
    BY <1>1, <1>2 DEF Witness
  <2>2. th'[q].pc \in {"get", "ret"} => seen[q] \subseteq seen'[q]
    BY DEF Goes
  <2>3. QED BY <2>1, <2>2 DEF Witnessed
<1>3. \A q \in Thread : Witnessed(th'[q], seen'[q])
  BY <1>1, <1>2
<1>4. QED BY <1>3 DEF Witness

(* The reports under way, when the call of p becomes c. *)
LEMMA Reports ==
    ASSUME ChainTypeOK, NEW p \in Thread, NEW c,
           \A q \in Thread : th'[q] = IF q = p THEN c ELSE th[q],
           NEW b \in Block, NEW by \in {-1, 1}
    PROVE  /\ IsFiniteSet(Reporting(b, by)) /\ Cardinality(Reporting(b, by)) \in Nat
           /\ Reporting(b, by)' = (Reporting(b, by) \ {p})
                \cup IF c.pc = "tell" /\ c.b = b /\ c.by = by THEN {p} ELSE {}
<1>1. Reporting(b, by) \subseteq Thread /\ IsFiniteSet(Thread)
  BY ChainAssumption DEF Reporting
<1>2. IsFiniteSet(Reporting(b, by)) /\ Cardinality(Reporting(b, by)) \in Nat
  BY <1>1, FS_Subset, FS_CardinalityType
<1>3. Reporting(b, by)' = (Reporting(b, by) \ {p})
        \cup IF c.pc = "tell" /\ c.b = b /\ c.by = by THEN {p} ELSE {}
  BY DEF Reporting
<1>4. QED BY <1>2, <1>3

(* A step that begins, ends and changes no report. *)
LEMMA QuietStep ==
    ASSUME ChainInv, NEW p \in Thread, NEW c \in Call, Half(c), Goes(p, c),
           Quiet(th[p]), Quiet(c), Witnessed(c, seen'[p]), IndexInv', told' = told,
           holder' \in Thread \cup {NoThread}, poisoned' \in BOOLEAN, calls' \in 0..MaxCalls,
           \A b \in Block \ Minted : OnChain(b)' = OnChain(b)
    PROVE  ChainInv'
<1>1. ChainTypeOK /\ CallsOK /\ Witness /\ ReportsAddUp
  BY DEF ChainInv
<1>2. told' \in [Block -> Int]
  BY <1>1 DEF ChainTypeOK
<1>3. ChainTypeOK' /\ CallsOK' /\ Witness'
  BY <1>1, <1>2, StepTypes, StepWitness
<1>4. \A q \in Thread : th'[q] = IF q = p THEN c ELSE th[q]
  BY <1>1, GoesFacts
<1>5. ASSUME NEW b \in Block, NEW by \in {-1, 1} PROVE Reporting(b, by)' = Reporting(b, by)
  <2>1. p \notin Reporting(b, by)
    BY DEF Reporting, Quiet
  <2>2. ~(c.pc = "tell" /\ c.b = b /\ c.by = by)
    BY DEF Quiet
  <2>3. QED BY <1>1, <1>4, <2>1, <2>2, Reports
<1>6. ReportsAddUp'
  <2>1. SUFFICES ASSUME NEW b \in Block \ Minted
                 PROVE  told'[b] + Cardinality(Reporting(b, 1)') - Cardinality(Reporting(b, -1)')
                          = IF OnChain(b)' THEN 1 ELSE 0
    BY DEF ReportsAddUp
  <2>2. Reporting(b, 1)' = Reporting(b, 1) /\ Reporting(b, -1)' = Reporting(b, -1)
    BY <1>5
  <2>3. told[b] + Cardinality(Reporting(b, 1)) - Cardinality(Reporting(b, -1))
          = IF OnChain(b) THEN 1 ELSE 0
    BY <1>1 DEF ReportsAddUp
  <2>4. QED BY <2>2, <2>3
<1>7. QED BY <1>1, <1>3, <1>6 DEF ChainInv
(* A step that changes the chain by one block and will report it. *)
LEMMA ReportBegins ==
    ASSUME ChainInv, NEW p \in Thread, NEW x \in Block, NEW by \in {-1, 1},
           th[p].pc = "idle", Tells(p, x, by), IndexInv', told' = told,
           holder' = holder, poisoned' = poisoned, calls' \in 0..MaxCalls,
           \A b \in Block : b # x => OnChain(b)' = OnChain(b),
           OnChain(x) <=> by = -1, OnChain(x)' <=> by = 1
    PROVE  ChainInv'
<1> DEFINE c == Telling(x, by)
<1>1. ChainTypeOK /\ CallsOK /\ Witness /\ ReportsAddUp
  BY DEF ChainInv
<1>2. c \in Call /\ Half(c) /\ c.pc = "tell" /\ c.b = x /\ c.by = by
  BY CallTypes DEF Half
<1>3. Goes(p, c)
  BY DEF Tells, Telling
<1> HIDE DEF c
<1>4. Witnessed(c, seen'[p])
  BY <1>2 DEF Witnessed
<1>5. told' \in [Block -> Int] /\ holder' \in Thread \cup {NoThread} /\ poisoned' \in BOOLEAN
  BY <1>1 DEF ChainTypeOK
<1>6. ChainTypeOK' /\ CallsOK' /\ Witness'
  BY <1>1, <1>2, <1>3, <1>4, <1>5, StepTypes, StepWitness
<1>7. \A q \in Thread : th'[q] = IF q = p THEN c ELSE th[q]
  BY <1>1, <1>2, <1>3, GoesFacts
<1>8. ASSUME NEW b \in Block, NEW r \in {-1, 1}
      PROVE  /\ Cardinality(Reporting(b, r)) \in Nat
             /\ Cardinality(Reporting(b, r)')
                  = Cardinality(Reporting(b, r)) + IF b = x /\ r = by THEN 1 ELSE 0
  <2>1. p \notin Reporting(b, r)
    BY DEF Reporting
  <2>2. /\ IsFiniteSet(Reporting(b, r)) /\ Cardinality(Reporting(b, r)) \in Nat
        /\ Reporting(b, r)' = Reporting(b, r) \cup IF b = x /\ r = by THEN {p} ELSE {}
    BY <1>1, <1>2, <1>7, <2>1, Reports
  <2>3. CASE b = x /\ r = by
    BY <2>1, <2>2, <2>3, FS_AddElement
  <2>4. CASE ~(b = x /\ r = by)
    BY <2>2, <2>4
  <2>5. QED BY <2>3, <2>4
<1>9. ReportsAddUp'
  <2>1. SUFFICES ASSUME NEW b \in Block \ Minted
                 PROVE  told'[b] + Cardinality(Reporting(b, 1)') - Cardinality(Reporting(b, -1)')
                          = IF OnChain(b)' THEN 1 ELSE 0
    BY DEF ReportsAddUp
  <2>2. /\ Cardinality(Reporting(b, 1)') = Cardinality(Reporting(b, 1)) + IF b = x /\ 1 = by THEN 1 ELSE 0
        /\ Cardinality(Reporting(b, -1)') = Cardinality(Reporting(b, -1)) + IF b = x /\ -1 = by THEN 1 ELSE 0
        /\ Cardinality(Reporting(b, 1)) \in Nat /\ Cardinality(Reporting(b, -1)) \in Nat
    BY <1>8
  <2>3. told[b] + Cardinality(Reporting(b, 1)) - Cardinality(Reporting(b, -1))
          = IF OnChain(b) THEN 1 ELSE 0
    BY <1>1 DEF ReportsAddUp
  <2>4. told[b] \in Int
    BY <1>1 DEF ChainTypeOK
  <2>5. CASE b # x
    <3>1. OnChain(b)' = OnChain(b)
      BY <2>5
    <3>2. QED BY <2>2, <2>3, <2>5, <3>1
  <2>6. CASE b = x /\ by = 1
    BY <2>2, <2>3, <2>4, <2>6
  <2>7. CASE b = x /\ by = -1
    BY <2>2, <2>3, <2>4, <2>7
  <2>8. QED BY <2>5, <2>6, <2>7
<1>10. QED BY <1>1, <1>6, <1>9 DEF ChainInv

(* The listener is told. *)
LEMMA TellKeeps == ASSUME ChainInv, NEW p \in Thread, Tell(p) PROVE ChainInv'
<1> DEFINE x == th[p].b
           by == th[p].by
<1>1. IndexInv /\ ChainTypeOK /\ CallsOK /\ Witness /\ ReportsAddUp
  BY DEF ChainInv
<1>2. Idle \in Call /\ Half(Idle) /\ Idle.pc = "idle"
  BY CallTypes DEF Half
<1>3. th[p].pc = "tell" /\ Goes(p, Idle) /\ UNCHANGED <<vars, holder, poisoned>> /\ calls' = calls
      /\ told' = [b \in Block |-> IF b = x THEN told[b] + by ELSE told[b]]
  BY DEF Tell, At
<1>4. th[p] \in Call /\ by \in {-1, 0, 1}
  BY <1>1 DEF ChainTypeOK, Call
<1>5. told \in [Block -> Int] /\ holder' \in Thread \cup {NoThread} /\ poisoned' \in BOOLEAN
      /\ calls' \in 0..MaxCalls
  BY <1>1, <1>3 DEF ChainTypeOK
<1> HIDE DEF x, by
<1>6. told' \in [Block -> Int]
  BY <1>3, <1>4, <1>5
<1>7. ChainTypeOK' /\ CallsOK' /\ Witness'
  BY <1>1, <1>2, <1>3, <1>5, <1>6, StepTypes, StepWitness DEF Witnessed
<1>8. \A q \in Thread : th'[q] = IF q = p THEN Idle ELSE th[q]
  BY <1>1, <1>2, <1>3, GoesFacts
<1>9. ASSUME NEW b \in Block, NEW r \in {-1, 1}
      PROVE  /\ Cardinality(Reporting(b, r)) \in Nat
             /\ Cardinality(Reporting(b, r)')
                  = Cardinality(Reporting(b, r)) - IF b = x /\ r = by THEN 1 ELSE 0
  <2>1. p \in Reporting(b, r) <=> b = x /\ r = by
    BY <1>3 DEF Reporting, x, by
  <2>2. /\ IsFiniteSet(Reporting(b, r)) /\ Cardinality(Reporting(b, r)) \in Nat
        /\ Reporting(b, r)' = Reporting(b, r) \ {p}
    BY <1>1, <1>2, <1>8, Reports
  <2>3. CASE p \in Reporting(b, r)
    BY <2>1, <2>2, <2>3, FS_RemoveElement
  <2>4. CASE p \notin Reporting(b, r)
    <3>1. Reporting(b, r)' = Reporting(b, r)
      BY <2>2, <2>4
    <3>2. ~(b = x /\ r = by)
      BY <2>1, <2>4
    <3>3. Cardinality(Reporting(b, r)') = Cardinality(Reporting(b, r))
      BY <3>1
    <3>4. QED BY <2>2, <3>2, <3>3
  <2>5. QED BY <2>3, <2>4
<1>10. ReportsAddUp'
  <2>1. SUFFICES ASSUME NEW b \in Block \ Minted
                 PROVE  told'[b] + Cardinality(Reporting(b, 1)') - Cardinality(Reporting(b, -1)')
                          = IF OnChain(b)' THEN 1 ELSE 0
    BY DEF ReportsAddUp
  <2>2. /\ Cardinality(Reporting(b, 1)') = Cardinality(Reporting(b, 1)) - IF b = x /\ 1 = by THEN 1 ELSE 0
        /\ Cardinality(Reporting(b, -1)') = Cardinality(Reporting(b, -1)) - IF b = x /\ -1 = by THEN 1 ELSE 0
        /\ Cardinality(Reporting(b, 1)) \in Nat /\ Cardinality(Reporting(b, -1)) \in Nat
    BY <1>9
  <2>3. told[b] + Cardinality(Reporting(b, 1)) - Cardinality(Reporting(b, -1))
          = IF OnChain(b) THEN 1 ELSE 0
    BY <1>1 DEF ReportsAddUp
  <2>4. told[b] \in Int /\ told'[b] = IF b = x THEN told[b] + by ELSE told[b]
    BY <1>3, <1>5
  <2>5. OnChain(b)' = OnChain(b)
    BY <1>3 DEF OnChain, vars
  <2>6. CASE b # x
    BY <2>2, <2>3, <2>4, <2>5, <2>6
  <2>7. CASE b = x /\ by = 1
    BY <2>2, <2>3, <2>4, <2>5, <2>7
  <2>8. CASE b = x /\ by = -1
    BY <2>2, <2>3, <2>4, <2>5, <2>8
  <2>9. CASE b = x /\ by = 0
    BY <2>2, <2>3, <2>4, <2>5, <2>9
  <2>10. QED BY <1>4, <2>6, <2>7, <2>8, <2>9
<1>11. IndexInv'
  BY <1>1, <1>3, OtherInvs
<1>12. QED BY <1>7, <1>10, <1>11 DEF ChainInv
-----------------------------------------------------------------------------
(* The calls, one by one. *)
LEMMA CallFacts ==
    ASSUME ChainInv, NEW p \in Thread
    PROVE  /\ Begin(p) => /\ th[p].pc = "idle" /\ Quiet(th[p]) /\ calls' \in 0..MaxCalls
           /\ \A at : At(p, at) => th[p].pc = at /\ calls' \in 0..MaxCalls
           /\ holder \in Thread \cup {NoThread} /\ poisoned \in BOOLEAN /\ calls \in 0..MaxCalls
<1>1. holder \in Thread \cup {NoThread} /\ poisoned \in BOOLEAN /\ calls \in 0..MaxCalls
      /\ MaxCalls \in Nat
  BY ChainAssumption DEF ChainInv, ChainTypeOK
<1>2. Begin(p) => th[p].pc = "idle" /\ Quiet(th[p])
  BY DEF Begin, Quiet
<1>3. Begin(p) => calls' \in 0..MaxCalls
  BY <1>1 DEF Begin
<1>4. QED BY <1>1, <1>2, <1>3 DEF At

(* A step that leaves the indexer alone. *)
LEMMA IndexerStays ==
    ASSUME ChainInv, UNCHANGED vars
    PROVE  IndexInv' /\ tattr' = tattr /\ \A b \in Block : OnChain(b)' = OnChain(b)
<1>1. IndexInv'
  BY OtherInvs DEF ChainInv
<1>2. QED BY <1>1 DEF vars, OnChain

LEMMA LinkCallKeeps == ASSUME ChainInv, NEW p \in Thread, NEW b \in Block, LinkCall(p, b) PROVE ChainInv'
<1>1. IndexInv /\ Begin(p) /\ Link(b) /\ Tells(p, b, 1) /\ UNCHANGED <<holder, poisoned, told>>
  BY DEF LinkCall, ChainInv
<1>2. IndexInv' /\ ~OnChain(b) /\ OnChain(b)' /\ \A c \in Block : c # b => OnChain(c)' = OnChain(c)
  BY <1>1, LinkInv, LinkEffect DEF OnChain
<1>3. QED BY <1>1, <1>2, CallFacts, ReportBegins

LEMMA PopCallKeeps == ASSUME ChainInv, NEW p \in Thread, PopCall(p) PROVE ChainInv'
<1>1. IndexInv /\ Begin(p) /\ Pop /\ Tells(p, best.id, -1) /\ UNCHANGED <<holder, poisoned, told>>
  BY DEF PopCall, ChainInv
<1>2. IndexInv' /\ best.id \in Block /\ OnChain(best.id)
      /\ battr' = [battr EXCEPT ![best.id] = NoAttr]
      /\ battr \in [Block -> BlkAttr \cup {NoAttr}]
  BY <1>1, PopInv, PopEffect DEF IndexInv, TypeOK
<1>3. PICK x \in Block : x = best.id
  BY <1>2
<1>4. OnChain(x) /\ ~OnChain(x)' /\ \A c \in Block : c # x => OnChain(c)' = OnChain(c)
  BY <1>2, <1>3 DEF OnChain
<1>5. QED BY <1>1, <1>2, <1>3, <1>4, CallFacts, ReportBegins

LEMMA PoolCallKeeps ==
    ASSUME ChainInv, NEW p \in Thread, NEW t \in Submitted, AppendCall(p, t) \/ RemoveCall(p, t)
    PROVE  ChainInv'
<1> DEFINE c == Telling(NoBlock, 0)
<1>1. IndexInv /\ Begin(p) /\ Goes(p, c) /\ UNCHANGED <<holder, poisoned, told>>
      /\ (AppendTx(t) \/ RemoveTx(t))
  BY DEF AppendCall, RemoveCall, ChainInv, Tells, Telling
<1>2. c \in Call /\ c.pc = "tell" /\ c.by = 0
  BY CallTypes
<1> HIDE DEF c
<1>3. Half(c) /\ Quiet(c) /\ Witnessed(c, seen'[p])
  BY <1>2 DEF Half, Quiet, Witnessed
<1>4. IndexInv' /\ \A b \in Block : OnChain(b)' = OnChain(b)
  <2>1. IndexInv' /\ UNCHANGED battr
    BY <1>1, OtherInvs DEF AppendTx, RemoveTx, dbVars
  <2>2. QED BY <2>1 DEF OnChain
<1>5. QED BY <1>1, <1>2, <1>3, <1>4, CallFacts, QuietStep

(* Steps that end a call, or begin one that is about nothing. *)
LEMMA PlainStep ==
    ASSUME ChainInv, NEW p \in Thread, NEW c \in {Idle, Creating}, Goes(p, c),
           Quiet(th[p]), IndexInv', \A b \in Block \ Minted : OnChain(b)' = OnChain(b),
           told' = told, holder' \in Thread \cup {NoThread}, poisoned' \in BOOLEAN,
           calls' \in 0..MaxCalls
    PROVE  ChainInv'
<1>1. c \in Call /\ c.pc \in {"idle", "create"}
  BY CallTypes
<1>2. Half(c) /\ Quiet(c) /\ Witnessed(c, seen'[p])
  BY <1>1 DEF Half, Quiet, Witnessed
<1>3. QED BY <1>1, <1>2, QuietStep

LEMMA NewLinkBlockKeeps ==
    ASSUME ChainInv, NEW p \in Thread, NEW b \in Minted, NewLinkBlock(p, b)
    PROVE  ChainInv'
<1>1. IndexInv /\ Begin(p) /\ Link(b) /\ Goes(p, Idle) /\ UNCHANGED <<holder, poisoned, told>>
      /\ b \in Block
  BY ChainAssumption DEF NewLinkBlock, ChainInv
<1>2. IndexInv' /\ \A c \in Block \ Minted : OnChain(c)' = OnChain(c)
  BY <1>1, LinkInv, LinkEffect DEF OnChain
<1>3. QED BY <1>1, <1>2, CallFacts, PlainStep

LEMMA GetCallKeeps == ASSUME ChainInv, NEW p \in Thread, NEW b \in Block, GetCall(p, b) PROVE ChainInv'
<1>1. IndexInv /\ Begin(p) /\ Get(b) /\ Goes(p, Idle) /\ UNCHANGED <<holder, poisoned, told>>
  BY DEF GetCall, ChainInv
<1>2. IndexInv' /\ \A c \in Block : OnChain(c)' = OnChain(c)
  BY <1>1, OtherInvs DEF Get, dbVars, OnChain
<1>3. QED BY <1>1, <1>2, CallFacts, PlainStep

LEMMA LockKeeps ==
    ASSUME ChainInv, NEW p \in Thread,
           \/ CreateLock(p) \/ CreateEnd(p) \/ CreatePanics(p)
           \/ \E b \in Panicking : LinkPanics(p, b)
           \/ Return(p) \/ Refused(p)
    PROVE  ChainInv'
<1>1. IndexInv' /\ \A b \in Block : OnChain(b)' = OnChain(b)
  BY IndexerStays DEF CreateLock, CreateEnd, CreatePanics, LinkPanics, Return, Refused
<1>2. told' = told
  BY DEF CreateLock, CreateEnd, CreatePanics, LinkPanics, Return, Refused
<1>3. holder' \in Thread \cup {NoThread} /\ poisoned' \in BOOLEAN
  BY CallFacts DEF CreateLock, CreateEnd, CreatePanics, LinkPanics, Return, Refused
<1>4. calls' \in 0..MaxCalls
  BY CallFacts DEF CreateLock, CreateEnd, CreatePanics, LinkPanics, Return, Refused
<1>5. Quiet(th[p])
  BY CallFacts DEF CreateLock, CreateEnd, CreatePanics, LinkPanics, Return, Refused, Quiet, At
<1>6. Goes(p, Idle) \/ Goes(p, Creating)
  BY DEF CreateLock, CreateEnd, CreatePanics, LinkPanics, Return, Refused, Creating
<1>7. QED BY <1>1, <1>2, <1>3, <1>4, <1>5, <1>6, PlainStep
(* get_tx, its first half. *)
LEMMA GetTxAttrKeeps == ASSUME ChainInv, NEW p \in Thread, NEW t \in Tx, GetTxAttr(p, t) PROVE ChainInv'
<1>1. IndexInv /\ TypeOK /\ TxIndexExact /\ Begin(p) /\ UNCHANGED <<vars, holder, poisoned, told>>
  BY DEF GetTxAttr, ChainInv, IndexInv
<1>2. IndexInv' /\ tattr' = tattr /\ \A b \in Block : OnChain(b)' = OnChain(b)
  BY <1>1, IndexerStays
<1>3. CASE tattr[t] = NoTxAttr
  <2>1. Goes(p, Answered(t, NoTx))
    BY <1>3 DEF GetTxAttr, Answers, Answered
  <2>2. Answered(t, NoTx) \in Call /\ Answered(t, NoTx).pc = "ret" /\ Answered(t, NoTx).got = NoTx
    BY CallTypes
  <2>3. Half(Answered(t, NoTx)) /\ Quiet(Answered(t, NoTx)) /\ Witnessed(Answered(t, NoTx), seen'[p])
    BY <2>2 DEF Half, Quiet, Witnessed
  <2>4. QED BY <1>1, <1>2, <2>1, <2>2, <2>3, CallFacts, QuietStep
<1>4. CASE tattr[t] # NoTxAttr
  <2> DEFINE c == Getting(t, tattr[t])
  <2>1. tattr[t] \in TxAttr /\ tattr[t].blk \in Block /\ t \in Linked
    BY <1>1, <1>4 DEF TypeOK, TxAttr, Linked
  <2>2. Goes(p, c)
    BY <1>4 DEF GetTxAttr, Getting
  <2>3. c \in Call /\ c.pc = "get" /\ c.t = t /\ c.at = tattr[t]
    BY <2>1, CallTypes
  <2>4. PICK i \in DOMAIN Txs(tattr[t].blk) : Txs(tattr[t].blk)[i] = t
    BY <1>1, <2>1 DEF TxIndexExact, BlockTxs
  <2>5. tattr[t].idx = i
    <3>1. tattr[t] = [blk |-> tattr[t].blk, idx |-> i]
      BY <1>1, <2>1, <2>4 DEF TxIndexExact
    <3>2. QED BY <3>1
  <2> HIDE DEF c
  <2>6. Half(c) /\ Quiet(c)
    BY <2>1, <2>3, <2>4, <2>5 DEF Half, Quiet
  <2>7. TRUE \in seen'[p]
    <3>1. th'[p] = c
      BY <2>2, <2>3, <2>6, GoesFacts DEF ChainInv
    <3>2. seen'[p] = seen[p] \cup {tattr'[c.t] # NoTxAttr}
      BY <2>2, <2>3, <3>1 DEF Goes
    <3>3. QED BY <1>2, <1>4, <2>3, <3>2
  <2>8. QED BY <1>1, <1>2, <2>2, <2>3, <2>6, <2>7, CallFacts, QuietStep DEF Witnessed
<1>5. QED BY <1>3, <1>4

(* get_tx, its second half: whatever was popped in between, a block that    *)
(* can be read, also a stale one of the cache, is the block asked for.      *)
LEMMA GetTxBlockKeeps == ASSUME ChainInv, NEW p \in Thread, GetTxBlock(p) PROVE ChainInv'
<1> DEFINE t == th[p].t
           at == th[p].at
           b == at.blk
<1>1. /\ IndexInv /\ TypeOK /\ ChainShape /\ UndoOnDisk
      /\ At(p, "get") /\ UNCHANGED <<holder, poisoned, told>>
  BY DEF GetTxBlock, ChainInv, IndexInv
<1>2. th[p].pc = "get" /\ Half(th[p]) /\ Witnessed(th[p], seen[p])
  BY <1>1, CallFacts DEF ChainInv, CallsOK, Witness
<1>3. t \in Tx /\ at \in TxAttr /\ b \in Block /\ at.idx \in DOMAIN Txs(b) /\ Txs(b)[at.idx] = t
      /\ TRUE \in seen[p]
  BY <1>2 DEF Half, Witnessed, TxAttr
<1> HIDE DEF t, at, b
<1>4. ASSUME NEW got \in {t, NoTx}, Goes(p, Answered(t, got)), IndexInv', UNCHANGED battr
      PROVE  ChainInv'
  <2>1. Answered(t, got) \in Call /\ Answered(t, got).pc = "ret"
        /\ Answered(t, got).t = t /\ Answered(t, got).got = got
    BY <1>3, CallTypes
  <2>2. Half(Answered(t, got)) /\ Quiet(Answered(t, got)) /\ Quiet(th[p])
    BY <1>2, <2>1 DEF Half, Quiet
  <2>3. seen[p] \subseteq seen'[p]
    <3>1. th'[p] = Answered(t, got)
      BY <1>4, <2>1, <2>2, GoesFacts DEF ChainInv
    <3>2. QED BY <1>4, <2>1, <3>1 DEF Goes
  <2>4. Witnessed(Answered(t, got), seen'[p])
    BY <1>3, <2>1, <2>3 DEF Witnessed
  <2>5. \A c \in Block : OnChain(c)' = OnChain(c)
    BY <1>4 DEF OnChain
  <2>6. QED BY <1>1, <1>4, <2>1, <2>2, <2>4, <2>5, CallFacts, QuietStep
<1>5. CASE CanGet(b) /\ at.idx \in DOMAIN Txs(GetBlock(b))
  <2>1. Get(b) /\ Goes(p, Answered(t, Txs(GetBlock(b))[at.idx]))
    BY <1>5 DEF GetTxBlock, Answers, Answered, t, at, b
  <2>2. GetBlock(b) = b
    <3>1. CASE b \in cache
      BY <3>1 DEF GetBlock
    <3>2. CASE b \notin cache
      BY <1>1, <1>3, <1>5, <3>2, GetsBlock DEF CanGet, OnChain
    <3>3. QED BY <3>1, <3>2
  <2>3. Goes(p, Answered(t, t))
    BY <1>3, <2>1, <2>2
  <2>4. IndexInv' /\ UNCHANGED battr
    BY <1>1, <1>3, <2>1, OtherInvs DEF Get, dbVars
  <2>5. QED BY <1>4, <2>3, <2>4
<1>6. CASE ~(CanGet(b) /\ at.idx \in DOMAIN Txs(GetBlock(b)))
  <2>1. UNCHANGED vars /\ Goes(p, Answered(t, NoTx))
    BY <1>6 DEF GetTxBlock, Answers, Answered, t, at, b
  <2>2. IndexInv' /\ UNCHANGED battr
    BY <2>1, IndexerStays DEF vars
  <2>3. QED BY <1>4, <2>1, <2>2
<1>7. QED BY <1>5, <1>6

(* attr, and load with what it returned: the cache may hold a popped block. *)
LEMMA LoadAttrKeeps == ASSUME ChainInv, NEW p \in Thread, NEW b \in Block, LoadAttr(p, b) PROVE ChainInv'
<1> DEFINE c == Loading(b, battr[b])
<1>1. Begin(p) /\ UNCHANGED <<vars, holder, poisoned, told>> /\ Goes(p, c)
  BY DEF LoadAttr, Loading
<1>2. battr[b] \in BlkAttr
  BY DEF LoadAttr, ChainInv, IndexInv, TypeOK
<1>3. c \in Call /\ c.pc = "load" /\ c.b = b /\ c.attr = battr[b]
  BY <1>2, CallTypes
<1> HIDE DEF c
<1>4. Half(c) /\ Quiet(c) /\ Witnessed(c, seen'[p])
  BY <1>2, <1>3 DEF Half, Quiet, Witnessed
<1>5. QED BY <1>1, <1>3, <1>4, CallFacts, IndexerStays, QuietStep

LEMMA LoadBlockKeeps == ASSUME ChainInv, NEW p \in Thread, LoadBlock(p) PROVE ChainInv'
<1>1. /\ IndexInv /\ TypeOK /\ At(p, "load") /\ Goes(p, Idle)
      /\ UNCHANGED <<genesis, dbVars, blk, rev, byid, byfee, holder, poisoned, told>>
  BY DEF LoadBlock, Load, vars, dbVars, ChainInv, IndexInv
<1>2. th[p].pc = "load" /\ th[p].b \in Block
  BY <1>1, CallFacts DEF ChainInv, CallsOK, Half
<1>3. cache' \subseteq Block
  BY <1>1, <1>2, CachedType DEF LoadBlock, Load, vars, TypeOK
<1>4. TypeOK'
  BY <1>1, <1>3 DEF TypeOK, dbVars
<1>5. byid' \cap Linked = {}
  BY <1>1 DEF IndexInv, PoolNotLinked
<1>6. IndexInv' /\ \A b \in Block : OnChain(b)' = OnChain(b)
  <2>1. IndexInv'
    BY <1>1, <1>4, <1>5, DatabaseStays
  <2>2. QED BY <1>1, <2>1 DEF dbVars, OnChain
<1>7. Quiet(th[p])
  BY <1>2 DEF Quiet
<1>8. QED BY <1>1, <1>6, <1>7, CallFacts, PlainStep

-----------------------------------------------------------------------------
LEMMA ChainBegins == ChainInit => ChainInv
<1> SUFFICES ASSUME ChainInit PROVE ChainInv
  OBVIOUS
<1>1. IndexInv /\ (\A b \in Block : ~OnChain(b))
  BY InitInv DEF ChainInit, Init, OnChain
<1>2. \A p \in Thread : th[p] = Idle /\ th[p].pc = "idle"
  BY CallTypes DEF ChainInit
<1>3. ChainTypeOK
  <2>1. th \in [Thread -> Call]
    BY CallTypes DEF ChainInit
  <2>2. told \in [Block -> Int] /\ seen \in [Thread -> SUBSET BOOLEAN]
    BY DEF ChainInit
  <2>3. holder \in Thread \cup {NoThread} /\ poisoned \in BOOLEAN
    BY DEF ChainInit
  <2>4. calls = 0 /\ MaxCalls \in Nat
    BY ChainAssumption DEF ChainInit
  <2>5. QED BY <2>1, <2>2, <2>3, <2>4 DEF ChainTypeOK
<1>4. CallsOK /\ Witness
  BY <1>2 DEF CallsOK, Half, Witness, Witnessed
<1>5. ReportsAddUp
  <2>1. \A b, by : Reporting(b, by) = {}
    BY <1>2 DEF Reporting
  <2>2. Cardinality({}) = 0
    BY FS_EmptySet
  <2>3. \A b \in Block : told[b] = 0
    BY DEF ChainInit
  <2>4. \A b, by : Cardinality(Reporting(b, by)) = 0
    BY <2>1, <2>2
  <2>5. ASSUME NEW b \in Block
        PROVE  told[b] + Cardinality(Reporting(b, 1)) - Cardinality(Reporting(b, -1)) = 0
    <3>1. told[b] = 0 /\ Cardinality(Reporting(b, 1)) = 0 /\ Cardinality(Reporting(b, -1)) = 0
      BY <2>3, <2>4
    <3> QED BY <3>1
  <2>6. QED BY <1>1, <2>5 DEF ReportsAddUp
<1>6. QED BY <1>1, <1>3, <1>4, <1>5 DEF ChainInv

LEMMA NothingHappens == ASSUME ChainInv, UNCHANGED allVars PROVE ChainInv'
<1>1. UNCHANGED vars /\ UNCHANGED <<th, holder, poisoned, told, seen, calls>>
  BY DEF allVars
<1>2. IndexInv' /\ \A b \in Block : OnChain(b)' = OnChain(b)
  BY <1>1, IndexerStays
<1>3. ChainTypeOK' /\ CallsOK' /\ Witness'
  BY <1>1 DEF ChainInv, ChainTypeOK, CallsOK, Witness
<1>4. ReportsAddUp'
  <2>1. \A b, by : Reporting(b, by)' = Reporting(b, by)
    BY <1>1 DEF Reporting
  <2>2. QED BY <1>1, <1>2, <2>1 DEF ChainInv, ReportsAddUp
<1>5. QED BY <1>2, <1>3, <1>4 DEF ChainInv

LEMMA ChainStep == ChainInv /\ [ChainNext]_allVars => ChainInv'
<1> SUFFICES ASSUME ChainInv, [ChainNext]_allVars PROVE ChainInv'
  OBVIOUS
<1>1. CASE UNCHANGED allVars
  BY <1>1, NothingHappens
<1>2. ASSUME NEW p \in Thread, GoesOn(p) PROVE ChainInv'
  BY <1>2, TellKeeps, GetTxBlockKeeps, LoadBlockKeeps, LockKeeps DEF GoesOn
<1>3. ASSUME NEW p \in Thread,
             \/ \E b \in Block \ Minted : LinkCall(p, b)
             \/ PopCall(p)
             \/ \E t \in Submitted : AppendCall(p, t) \/ RemoveCall(p, t)
             \/ \E b \in Minted : NewLinkBlock(p, b)
      PROVE  ChainInv'
  BY <1>3, LinkCallKeeps, PopCallKeeps, PoolCallKeeps, NewLinkBlockKeeps
<1>4. ASSUME NEW p \in Thread,
             \/ \E t \in Asked : GetTxAttr(p, t)
             \/ \E b \in Block : GetCall(p, b) \/ LoadAttr(p, b)
             \/ CreateLock(p)
             \/ \E b \in Panicking : LinkPanics(p, b)
      PROVE  ChainInv'
  BY <1>4, ChainAssumption, GetTxAttrKeeps, GetCallKeeps, LoadAttrKeeps, LockKeeps
<1>5. QED BY <1>1, <1>2, <1>3, <1>4 DEF ChainNext

(* The invariant holds whatever the threads call, in whatever order. *)
THEOREM ChainInvariant == ChainSpec => []ChainInv
<1>1. ChainInit => ChainInv
  BY ChainBegins
<1>2. ChainInv /\ [ChainNext]_allVars => ChainInv'
  BY ChainStep
<1>3. QED BY <1>1, <1>2, PTL DEF ChainSpec

-----------------------------------------------------------------------------
(* The calls, the lock and the counts of reports keep their types. *)
THEOREM ChainTypeCorrect == ChainSpec => []ChainTypeOK
<1>1. ChainInv => ChainTypeOK
  BY DEF ChainInv
<1>2. QED BY <1>1, ChainInvariant, PTL

(* In whatever order the listener hears of them, the links and pops it was  *)
(* told of and those under way add up to the chain, for any number of       *)
(* threads (link, pop).                                                     *)
THEOREM ReportsComplete == ChainSpec => []ReportsAddUp
<1>1. ChainInv => ReportsAddUp
  BY DEF ChainInv
<1>2. QED BY <1>1, ChainInvariant, PTL

(* Threads that load blocks popped meanwhile, panic under the lock and run  *)
(* code of the caller's under it never hurt the index (load, create_block). *)
THEOREM IndexSurvives == ChainSpec => []IndexInv
<1>1. ChainInv => IndexInv
  BY DEF ChainInv
<1>2. QED BY <1>1, ChainInvariant, PTL

(* However many blocks are popped and linked between its two locks, get_tx  *)
(* answers with the transaction asked for, which the chain held during the  *)
(* call, or with none: never with another (get_tx, pop, load).              *)
THEOREM GetTxSound == ChainSpec => []Witness
<1>1. ChainInv => Witness
  BY DEF ChainInv
<1>2. QED BY <1>1, ChainInvariant, PTL

-----------------------------------------------------------------------------
(***************************************************************************)
(* What the threads do to the index, and what of it they go by.            *)
(***************************************************************************)
LEMMA IndexerMoves ==
    ASSUME [ChainNext]_allVars
    PROVE  (\E b \in Block : Link(b)) \/ Pop \/ UNCHANGED <<best, hidx, battr, tattr, coin, blk>>
<1>1. ASSUME NEW p \in Thread, GoesOn(p)
      PROVE  UNCHANGED <<best, hidx, battr, tattr, coin, blk>>
  BY <1>1
  DEF GoesOn, Tell, GetTxBlock, Get, Return, LoadBlock, Load, CreateEnd, CreatePanics, Refused,
      vars, dbVars
<1>2. ASSUME NEW p \in Thread,
             \/ \E t \in Submitted : AppendCall(p, t) \/ RemoveCall(p, t)
             \/ \E t \in Asked : GetTxAttr(p, t)
             \/ \E b \in Block : GetCall(p, b) \/ LoadAttr(p, b)
             \/ CreateLock(p)
             \/ \E b \in Panicking : LinkPanics(p, b)
      PROVE  UNCHANGED <<best, hidx, battr, tattr, coin, blk>>
  BY <1>2
  DEF AppendCall, AppendTx, RemoveCall, RemoveTx, GetTxAttr, GetCall, Get, LoadAttr, CreateLock,
      LinkPanics, vars, dbVars
<1>3. ASSUME NEW p \in Thread,
             \/ \E b \in Block \ Minted : LinkCall(p, b)
             \/ \E b \in Minted : NewLinkBlock(p, b)
      PROVE  \E b \in Block : Link(b)
  BY <1>3, ChainAssumption DEF LinkCall, NewLinkBlock
<1>4. UNCHANGED allVars => UNCHANGED <<best, hidx, battr, tattr, coin, blk>>
  BY DEF allVars, vars
<1>5. QED BY <1>1, <1>2, <1>3, <1>4 DEF ChainNext, PopCall

(* A transaction of the chain stays where it is or leaves it: to be put     *)
(* elsewhere takes a pop and a link.                                        *)
LEMMA TxStaysOrGoes ==
    ASSUME ChainInv, [ChainNext]_allVars, NEW t \in Tx, tattr[t] # NoTxAttr
    PROVE  tattr'[t] \in {tattr[t], NoTxAttr}
<1>1. IndexInv /\ t \in Linked /\ tattr \in [Tx -> TxAttr \cup {NoTxAttr}]
  BY DEF ChainInv, IndexInv, TypeOK, Linked
<1>2. ASSUME NEW b \in Block, Link(b) PROVE tattr'[t] = tattr[t]
  <2>1. t \notin BlockTxs(b)
    BY <1>1, <1>2, LinkEffect
  <2>2. QED BY <1>1, <1>2, <2>1, LinkEffect
<1>3. ASSUME Pop PROVE tattr'[t] \in {tattr[t], NoTxAttr}
  <2>1. tattr' = [u \in Tx |-> IF u \in BlockTxs(best.id) THEN NoTxAttr ELSE tattr[u]]
    BY <1>1, <1>3, PopEffect
  <2>2. QED BY <2>1
<1>4. QED BY <1>2, <1>3, IndexerMoves

-----------------------------------------------------------------------------
(* The process that wrote the blocks keeps the handles of all its files:    *)
(* what it indexed it can read.                                             *)
ReadableChain ==
    /\ \A i \in 0..blk.idx : ~Missing(blk, i)
    /\ \A b \in Block : OnChain(b) => battr[b].blk.len > 0

LEMMA ChainIsRead ==
    ASSUME IndexInv, ReadableChain, NEW b \in Block, OnChain(b)
    PROVE  CanGet(b) /\ GetBlock(b) = b
<1> DEFINE a == battr[b].blk
<1>1. TypeOK /\ ChainShape /\ UndoOnDisk /\ a \in Attr /\ a.len > 0 /\ IsStore(blk, Block)
  BY BlockHeight DEF IndexInv, ReadableChain, TypeOK
<1>2. OnDisk(blk, a, b)
  BY <1>1 DEF UndoOnDisk
<1> HIDE DEF a
<1>3. ~Missing(blk, a.idx) /\ InFile(blk.files[a.idx], a)
  BY <1>2 DEF OnDisk, ReadableChain
<1>4. CanPull(blk, a)
  BY <1>3 DEF CanPull, Handle
<1>5. Pull(blk, a)[1].of = b /\ Pull(blk, a) = Bytes(b, a.len)
  BY <1>1, <1>2, <1>4, IndexerAssumption, PullFacts
<1>6. Readable(blk, a)
  BY <1>1, <1>4, <1>5 DEF Readable, Unpacked
<1>7. CanGet(b)
  BY <1>6 DEF CanGet, OnChain, a
<1>8. QED BY <1>1, <1>7, GetsBlock

LEMMA ReadableStays ==
    ASSUME ChainInv, ReadableChain, [ChainNext]_allVars
    PROVE  ReadableChain'
<1>1. IndexInv /\ TypeOK
  BY DEF ChainInv, IndexInv
<1>2. ASSUME NEW b \in Block, Link(b) PROVE ReadableChain'
  <2> DEFINE l == BlockData[b].len
             n == CheckNext(blk, l)
  <2>1. blk' = Pushed(blk, b, l) /\ l > 0 /\ l \in Nat
    BY <1>2, BlockFacts DEF Link, CanPush
  <2>2. IsStore(blk, Block)
    BY <1>1 DEF TypeOK
  <2>3. blk.idx \in Nat /\ blk.open \in Seq(0..blk.idx) /\ IsStore(n, Block)
    BY <2>2, CheckNextFacts DEF IsStore
  <2>4. blk'.idx = n.idx /\ blk'.open = n.open
    <3> HIDE DEF n
    <3>1. blk' = AppendBytes(n, Bytes(b, l))
      BY <2>1 DEF Pushed, n
    <3>2. AppendBytes(n, Bytes(b, l)) =
             [idx |-> n.idx, open |-> n.open,
              files |-> [n.files EXCEPT ![n.idx] = n.files[n.idx] \o Bytes(b, l)]]
      BY <2>3, AppendFields
    <3>3. QED BY <3>1, <3>2
  <2>5. ASSUME NEW i \in 0..n.idx PROVE i \in ToSet(n.open)
    <3>1. CASE n = blk
      BY <2>5, <3>1 DEF ReadableChain, Missing
    <3>2. CASE n = NextFile(blk)
      <4>1. n.idx = blk.idx + 1 /\ n.open = Append(blk.open, blk.idx + 1)
        BY <3>2 DEF NextFile
      <4>2. CASE i = blk.idx + 1
        <5>1. Len(blk.open) + 1 \in DOMAIN n.open /\ n.open[Len(blk.open) + 1] = i
          BY <2>3, <4>1, <4>2
        <5>2. QED BY <5>1 DEF ToSet
      <4>3. CASE i # blk.idx + 1
        <5>1. i \in 0..blk.idx
          BY <2>3, <2>5, <4>1, <4>3
        <5>2. PICK k \in DOMAIN blk.open : blk.open[k] = i
          BY <5>1 DEF ReadableChain, Missing, ToSet
        <5>3. k \in DOMAIN n.open /\ n.open[k] = i
          BY <2>3, <4>1, <5>2
        <5>4. QED BY <5>3 DEF ToSet
      <4>4. QED BY <4>2, <4>3
    <3>3. QED BY <3>1, <3>2 DEF CheckNext
  <2>6. \A i \in 0..blk'.idx : ~Missing(blk, i)'
    <3> HIDE DEF n
    <3>1. \A i \in 0..blk'.idx : i \in ToSet(blk'.open)
      BY <2>4, <2>5
    <3>2. QED BY <3>1 DEF Missing
  <2>7. ASSUME NEW c \in Block, OnChain(c)' PROVE battr'[c].blk.len > 0
    <3>1. CASE c = b
      <4>1. battr'[b] = [height |-> NextHeight, blk |-> PushAttr(blk, l),
                         rev |-> PushAttr(rev, BlockData[b].revlen)]
        BY <1>1, <1>2, LinkEffect
      <4>2. battr'[b].blk = PushAttr(blk, l)
        BY <4>1
      <4>3. PushAttr(blk, l).len = l
        BY DEF PushAttr
      <4>4. QED BY <2>1, <3>1, <4>2, <4>3
    <3>2. CASE c # b
      <4>1. battr'[c] = battr[c]
        BY <1>1, <1>2, <3>2, LinkEffect
      <4>2. QED BY <2>7, <4>1 DEF OnChain, ReadableChain
    <3>3. QED BY <3>1, <3>2
  <2>8. \A c \in Block : OnChain(c)' => battr'[c].blk.len > 0
    BY <2>7
  <2>9. QED BY <2>6, <2>8 DEF ReadableChain
<1>3. ASSUME Pop PROVE ReadableChain'
  <2>1. battr' = [battr EXCEPT ![best.id] = NoAttr] /\ blk' = blk
        /\ battr \in [Block -> BlkAttr \cup {NoAttr}]
    BY <1>1, <1>3 DEF Pop, TypeOK
  <2>2. \A c \in Block : battr'[c] # NoAttr => battr'[c] = battr[c]
    BY <2>1
  <2>3. QED BY <2>1, <2>2 DEF ReadableChain, OnChain, Missing
<1>4. UNCHANGED <<best, hidx, battr, tattr, coin, blk>> => ReadableChain'
  BY DEF ReadableChain, OnChain, Missing
<1>5. QED BY <1>2, <1>3, <1>4, IndexerMoves

-----------------------------------------------------------------------------
(* While get_tx has seen the transaction in the chain throughout, it is     *)
(* where it was found; and an answer agrees with something seen.            *)
Follows(c, s) ==
    /\ c.pc = "get" => FALSE \in s \/ tattr[c.t] = c.at
    /\ c.pc = "ret" => (c.got = c.t) \in s

Following == \A p \in Thread : Follows(th[p], seen[p])

LEMMA OthersFollow ==
    ASSUME ChainInv, Following, [ChainNext]_allVars, NEW p \in Thread, NEW c \in Call, Half(c),
           Goes(p, c), NEW q \in Thread, q # p
    PROVE  Follows(th[q], seen[q])'
<1> DEFINE t == th[q].t
<1>1. ChainTypeOK /\ CallsOK /\ Half(th[q]) /\ Follows(th[q], seen[q]) /\ Witnessed(th[q], seen[q])
  BY DEF ChainInv, CallsOK, Following, Witness
<1>2. th'[q] = th[q]
  BY <1>1, GoesFacts
<1>3. th[q].pc \in {"get", "ret"} => seen'[q] = seen[q] \cup {tattr'[t] # NoTxAttr}
  BY <1>2 DEF Goes
<1>4. CASE th[q].pc = "get"
  <2>1. t \in Tx /\ th[q].at \in TxAttr /\ th[q].at # NoTxAttr
    BY <1>1, <1>4, IndexerAssumption DEF Half
  <2>2. CASE FALSE \in seen[q]
    BY <1>2, <1>3, <1>4, <2>2 DEF Follows
  <2>3. CASE FALSE \notin seen[q]
    <3>1. tattr[t] = th[q].at
      BY <1>1, <1>4, <2>3 DEF Follows
    <3>2. tattr'[t] \in {tattr[t], NoTxAttr}
      BY <2>1, <3>1, TxStaysOrGoes
    <3>3. CASE tattr'[t] = NoTxAttr
      <4>1. FALSE \in seen'[q]
        BY <1>3, <1>4, <3>3
      <4>2. QED BY <1>2, <1>4, <4>1 DEF Follows
    <3>4. CASE tattr'[t] = tattr[t]
      BY <1>2, <1>4, <3>1, <3>4 DEF Follows
    <3>5. QED BY <3>2, <3>3, <3>4
  <2>4. QED BY <2>2, <2>3
<1>5. CASE th[q].pc = "ret"
  BY <1>1, <1>2, <1>3, <1>5 DEF Follows
<1>6. CASE th[q].pc \notin {"get", "ret"}
  BY <1>2, <1>6 DEF Follows
<1>7. QED BY <1>4, <1>5, <1>6

LEMMA ActorFollows ==
    ASSUME ChainInv, Following, [ChainNext]_allVars, NEW p \in Thread, NEW c \in Call, Half(c),
           Goes(p, c),
           c.pc = "get" => FALSE \in seen'[p] \/ tattr'[c.t] = c.at,
           c.pc = "ret" => (c.got = c.t) \in seen'[p]
    PROVE  Following'
<1>1. th'[p] = c
  BY GoesFacts DEF ChainInv
<1>2. \A q \in Thread : q # p => Follows(th[q], seen[q])'
  BY OthersFollow
<1>3. Follows(th[p], seen[p])'
  BY <1>1 DEF Follows
<1>4. QED BY <1>2, <1>3 DEF Following

(* The calls that are not get_tx, and its return. *)
LEMMA OtherCallsFollow ==
    ASSUME ChainInv, Following, [ChainNext]_allVars, NEW p \in Thread, NEW c \in Call,
           Goes(p, c), c.pc \notin {"get", "ret"}, Half(c)
    PROVE  Following'
BY ActorFollows DEF Follows

LEMMA OtherCalls ==
    ASSUME ChainInv, NEW p \in Thread,
           \/ \E b \in Block : LinkCall(p, b) \/ NewLinkBlock(p, b) \/ GetCall(p, b)
           \/ \E b \in Block : LoadAttr(p, b) \/ LinkPanics(p, b)
           \/ \E t \in Submitted : AppendCall(p, t) \/ RemoveCall(p, t)
           \/ PopCall(p) \/ CreateLock(p)
           \/ Tell(p) \/ Return(p) \/ LoadBlock(p) \/ CreateEnd(p) \/ CreatePanics(p) \/ Refused(p)
    PROVE  \E c \in Call : Goes(p, c) /\ c.pc \notin {"get", "ret"} /\ Half(c)
<1>1. Idle \in Call /\ Idle.pc = "idle" /\ Creating \in Call /\ Creating.pc = "create"
  BY CallTypes
<1>2. Half(Idle) /\ Half(Creating)
  BY <1>1 DEF Half
<1>3. CASE Goes(p, Idle) \/ Goes(p, Creating)
  BY <1>1, <1>2, <1>3
<1>4. ASSUME NEW b \in Block \cup {NoBlock}, NEW by \in {-1, 0, 1}, Tells(p, b, by)
      PROVE  \E c \in Call : Goes(p, c) /\ c.pc \notin {"get", "ret"} /\ Half(c)
  <2>1. Telling(b, by) \in Call /\ Telling(b, by).pc = "tell"
    BY CallTypes
  <2>2. Goes(p, Telling(b, by)) /\ Half(Telling(b, by))
    BY <1>4, <2>1 DEF Tells, Telling, Half
  <2>3. QED BY <2>1, <2>2
<1>5. ASSUME NEW b \in Block, LoadAttr(p, b)
      PROVE  \E c \in Call : Goes(p, c) /\ c.pc \notin {"get", "ret"} /\ Half(c)
  <2>1. battr[b] \in BlkAttr /\ Goes(p, Loading(b, battr[b]))
    BY <1>5 DEF LoadAttr, Loading, ChainInv, IndexInv, TypeOK
  <2>2. /\ Loading(b, battr[b]) \in Call /\ Loading(b, battr[b]).pc = "load"
        /\ Loading(b, battr[b]).b = b /\ Loading(b, battr[b]).attr = battr[b]
    BY <2>1, CallTypes
  <2>3. Half(Loading(b, battr[b]))
    BY <2>1, <2>2 DEF Half
  <2>4. QED BY <2>1, <2>2, <2>3
<1>6. ASSUME PopCall(p) PROVE Tells(p, best.id, -1) /\ best.id \in Block
  BY <1>6, PopEffect DEF PopCall, ChainInv
<1>7. \A b \in Block : LinkCall(p, b) => Tells(p, b, 1)
  BY DEF LinkCall
<1>8. \A t \in Submitted : AppendCall(p, t) \/ RemoveCall(p, t) => Tells(p, NoBlock, 0)
  BY DEF AppendCall, RemoveCall
<1>9. \A b \in Block : NewLinkBlock(p, b) \/ GetCall(p, b) \/ LinkPanics(p, b) => Goes(p, Idle)
  BY DEF NewLinkBlock, GetCall, LinkPanics
<1>10. /\ CreateLock(p) => Goes(p, Creating)
       /\ Tell(p) \/ Return(p) \/ LoadBlock(p) \/ CreateEnd(p) \/ CreatePanics(p) \/ Refused(p)
            => Goes(p, Idle)
  BY DEF CreateLock, Creating, Tell, Return, LoadBlock, CreateEnd, CreatePanics, Refused
<1>11. QED BY <1>3, <1>4, <1>5, <1>6, <1>7, <1>8, <1>9, <1>10

LEMMA GetTxAttrFollows ==
    ASSUME ChainInv, Following, [ChainNext]_allVars, NEW p \in Thread, NEW t \in Tx, GetTxAttr(p, t)
    PROVE  Following'
<1>1. UNCHANGED vars /\ tattr' = tattr /\ TypeOK /\ TxIndexExact
  BY DEF GetTxAttr, vars, ChainInv, IndexInv
<1>2. CASE tattr[t] = NoTxAttr
  <2> DEFINE c == Answered(t, NoTx)
  <2>1. Goes(p, c)
    BY <1>2 DEF GetTxAttr, Answers, Answered
  <2>2. c \in Call /\ c.pc = "ret" /\ c.t = t /\ c.got = NoTx
    BY CallTypes
  <2>3. Half(c) /\ c.got # c.t
    BY <2>2, BlocksAssumption DEF Half
  <2> HIDE DEF c
  <2>4. th'[p] = c
    BY <2>1, <2>2, <2>3, GoesFacts DEF ChainInv
  <2>5. seen'[p] = seen[p] \cup {tattr'[t] # NoTxAttr}
    BY <2>1, <2>2, <2>4 DEF Goes
  <2>6. FALSE \in seen'[p]
    BY <1>1, <1>2, <2>5
  <2>7. (c.got = c.t) \in seen'[p]
    BY <2>3, <2>6
  <2>8. QED BY <2>1, <2>2, <2>3, <2>7, ActorFollows
<1>3. CASE tattr[t] # NoTxAttr
  <2> DEFINE c == Getting(t, tattr[t])
  <2>1. tattr[t] \in TxAttr /\ tattr[t].blk \in Block /\ t \in Linked
    BY <1>1, <1>3 DEF TypeOK, TxAttr, Linked
  <2>2. Goes(p, c)
    BY <1>3 DEF GetTxAttr, Getting
  <2>3. c \in Call /\ c.pc = "get" /\ c.t = t /\ c.at = tattr[t]
    BY <2>1, CallTypes
  <2>4. PICK i \in DOMAIN Txs(tattr[t].blk) : Txs(tattr[t].blk)[i] = t
    BY <1>1, <2>1 DEF TxIndexExact, BlockTxs
  <2>5. tattr[t].idx = i
    <3>1. tattr[t] = [blk |-> tattr[t].blk, idx |-> i]
      BY <1>1, <2>1, <2>4 DEF TxIndexExact
    <3>2. QED BY <3>1
  <2> HIDE DEF c
  <2>6. Half(c)
    BY <2>1, <2>3, <2>4, <2>5 DEF Half
  <2>7. tattr'[c.t] = c.at
    BY <1>1, <2>3
  <2>8. QED BY <2>2, <2>3, <2>6, <2>7, ActorFollows
<1>4. QED BY <1>2, <1>3

(* What get_tx fails to read is not, or no longer, in the chain. *)
LEMMA GetTxBlockFollows ==
    ASSUME ChainInv, ReadableChain, Following, [ChainNext]_allVars, NEW p \in Thread, GetTxBlock(p)
    PROVE  Following'
<1> DEFINE t == th[p].t
           at == th[p].at
           b == at.blk
<1>1. IndexInv /\ TypeOK /\ ChainShape /\ UndoOnDisk /\ TxIndexExact /\ ChainTypeOK /\ CallsOK
  BY DEF ChainInv, IndexInv
<1>2. /\ th[p].pc = "get" /\ Half(th[p]) /\ Witnessed(th[p], seen[p]) /\ Follows(th[p], seen[p])
  BY DEF GetTxBlock, At, ChainInv, CallsOK, Witness, Following
<1>3. t \in Tx /\ at \in TxAttr /\ b \in Block /\ at.idx \in DOMAIN Txs(b) /\ Txs(b)[at.idx] = t
      /\ TRUE \in seen[p] /\ at # NoTxAttr /\ (FALSE \in seen[p] \/ tattr[t] = at)
  BY <1>2, IndexerAssumption DEF Half, Witnessed, Follows, TxAttr
<1> HIDE DEF t, at, b
<1>4. ASSUME NEW got \in {t, NoTx}, Goes(p, Answered(t, got)), (got = t) \in seen[p]
      PROVE  Following'
  <2> DEFINE c == Answered(t, got)
  <2>1. c \in Call /\ c.pc = "ret" /\ c.t = t /\ c.got = got
    BY <1>3, CallTypes
  <2>2. Half(c) /\ Goes(p, c)
    BY <1>4, <2>1 DEF Half
  <2> HIDE DEF c
  <2>3. th'[p] = c
    BY <1>1, <2>1, <2>2, GoesFacts
  <2>4. seen[p] \subseteq seen'[p]
    BY <2>1, <2>2, <2>3 DEF Goes
  <2>5. (c.got = c.t) \in seen'[p]
    BY <1>4, <2>1, <2>4
  <2>6. QED BY <2>1, <2>2, <2>5, ActorFollows
<1>5. CASE CanGet(b) /\ at.idx \in DOMAIN Txs(GetBlock(b))
  <2>1. Goes(p, Answered(t, Txs(GetBlock(b))[at.idx]))
    BY <1>5 DEF GetTxBlock, Answers, Answered, t, at, b
  <2>2. GetBlock(b) = b
    <3>1. CASE b \in cache
      BY <3>1 DEF GetBlock
    <3>2. CASE b \notin cache
      BY <1>1, <1>3, <1>5, <3>2, GetsBlock DEF CanGet, OnChain
    <3>3. QED BY <3>1, <3>2
  <2>3. QED BY <1>3, <1>4, <2>1, <2>2
<1>6. CASE ~(CanGet(b) /\ at.idx \in DOMAIN Txs(GetBlock(b)))
  <2>1. Goes(p, Answered(t, NoTx)) /\ NoTx # t
    BY <1>3, <1>6, BlocksAssumption DEF GetTxBlock, Answers, Answered, t, at, b
  <2>2. FALSE \in seen[p]
    <3> SUFFICES ASSUME tattr[t] = at PROVE FALSE
      BY <1>3
    <3>1. t \in Linked /\ tattr[t].blk = b
      BY <1>3 DEF Linked, b
    <3>2. OnChain(b)
      BY <1>1, <3>1 DEF TxIndexExact
    <3>3. CanGet(b) /\ GetBlock(b) = b
      BY <1>1, <1>3, <3>2, ChainIsRead
    <3>4. QED BY <1>3, <1>6, <3>3
  <2>3. QED BY <1>3, <1>4, <2>1, <2>2
<1>7. QED BY <1>5, <1>6

LEMMA FollowingStays ==
    ASSUME ChainInv, ReadableChain, Following, [ChainNext]_allVars
    PROVE  Following'
<1>1. CASE UNCHANGED allVars
  BY <1>1 DEF Following, Follows, allVars, vars
<1>2. ASSUME NEW p \in Thread,
             \/ \E b \in Block : LinkCall(p, b) \/ NewLinkBlock(p, b) \/ GetCall(p, b)
             \/ \E b \in Block : LoadAttr(p, b) \/ LinkPanics(p, b)
             \/ \E t \in Submitted : AppendCall(p, t) \/ RemoveCall(p, t)
             \/ PopCall(p) \/ CreateLock(p)
             \/ Tell(p) \/ Return(p) \/ LoadBlock(p) \/ CreateEnd(p) \/ CreatePanics(p) \/ Refused(p)
      PROVE  Following'
  BY <1>2, OtherCalls, OtherCallsFollow
<1>3. \A p \in Thread, t \in Tx : GetTxAttr(p, t) => Following'
  BY GetTxAttrFollows
<1>4. \A p \in Thread : GetTxBlock(p) => Following'
  BY GetTxBlockFollows
<1>5. Asked \subseteq Tx /\ Minted \subseteq Block /\ Panicking \subseteq Block
  BY ChainAssumption
<1>6. QED BY <1>1, <1>2, <1>3, <1>4, <1>5 DEF ChainNext, GoesOn

(* The invariant of the chain with what get_tx goes by and the ledger's. *)
FullInv == ChainInv /\ ReadableChain /\ Following /\ AmountsKept

LEMMA FullBegins == ChainInit => FullInv
<1> SUFFICES ASSUME ChainInit PROVE FullInv
  OBVIOUS
<1>1. ChainInv /\ \A b \in Block : ~OnChain(b)
  BY ChainBegins DEF ChainInit, Init, OnChain
<1>2. ReadableChain
  <2>1. blk.idx = 0 /\ blk.open = <<0>>
    BY DEF ChainInit, Init, EmptyStore
  <2>2. 0 \in ToSet(<<0>>)
    BY DEF ToSet
  <2>3. QED BY <1>1, <2>1, <2>2 DEF ReadableChain, Missing
<1>3. Following
  BY CallTypes DEF Following, Follows, ChainInit
<1>4. AmountsKept
  BY <1>1 DEF AmountsKept
<1>5. QED BY <1>1, <1>2, <1>3, <1>4 DEF FullInv

LEMMA FullStep == FullInv /\ [ChainNext]_allVars => FullInv'
<1> SUFFICES ASSUME FullInv, [ChainNext]_allVars PROVE FullInv'
  OBVIOUS
<1>1. ChainInv' /\ ReadableChain' /\ Following'
  BY ChainStep, ReadableStays, FollowingStays DEF FullInv
<1>2. AmountsKept'
  <2>1. ASSUME NEW b \in Block, Link(b) PROVE AmountsKept'
    BY <2>1, AmountsStep DEF FullInv, ChainInv, Next
  <2>2. ASSUME Pop PROVE AmountsKept'
    BY <2>2, AmountsStep DEF FullInv, ChainInv, Next
  <2>3. QED BY <2>1, <2>2, IndexerMoves, AmountsStay DEF FullInv
<1>3. QED BY <1>1, <1>2 DEF FullInv

LEMMA FullInvariant == ChainSpec => []FullInv
<1>1. QED BY FullBegins, FullStep, PTL DEF ChainSpec

(* However threads link and pop between the two locks of get_tx, its answer *)
(* is one it could have given at a single moment of the call: what it read  *)
(* of a chain that has moved on is right, and when it finds nothing there   *)
(* was a moment with nothing to find (get_tx, pop, link).                   *)
THEOREM GetTxLinearizes == ChainSpec => []GetTxLinearizable
<1>1. FullInv => GetTxLinearizable
  BY DEF FullInv, ChainInv, Witness, Witnessed, Following, Follows, GetTxLinearizable
<1>2. QED BY <1>1, FullInvariant, PTL

(* Threads that link, pop and fill the cache with stale blocks make no      *)
(* money either (check_block_amount, load).                                 *)
THEOREM ThreadsMakeNoMoney == ChainSpec => []SupplyBounded
<1>1. FullInv => SupplyBounded
  BY SupplyLaw DEF FullInv, ChainInv
<1>2. QED BY <1>1, FullInvariant, PTL

(* Whatever the threads call, and in whatever order, what they do to the    *)
(* chain is what a ledger could do (do_write, link, pop).                   *)
THEOREM ThreadsRefineLedger == ChainSpec => ImplementsLedger
<1>1. ChainInit => Mapped = <<>>
  BY DEF ChainInit, Init, Mapped, NextHeight
<1>2. ChainInv /\ [ChainNext]_allVars =>
        [(\E b \in Block : Ledger!Extend(b)) \/ Ledger!Retract]_Mapped
  <2> SUFFICES ASSUME ChainInv, [ChainNext]_allVars
               PROVE  [(\E b \in Block : Ledger!Extend(b)) \/ Ledger!Retract]_Mapped
    OBVIOUS
  <2>1. ASSUME NEW b \in Block, Link(b) PROVE Ledger!Extend(b)
    BY <2>1, LinkExtends DEF Ledger!Extend, Mapped, ChainInv
  <2>2. ASSUME Pop PROVE Ledger!Retract
    BY <2>2, PopRetracts DEF Ledger!Retract, Mapped, ChainInv
  <2>3. UNCHANGED <<best, hidx>> => UNCHANGED Mapped
    BY DEF Mapped, NextHeight
  <2>4. QED BY <2>1, <2>2, <2>3, IndexerMoves
<1>3. QED BY <1>1, <1>2, ChainInvariant, PTL DEF ChainSpec, ImplementsLedger, Ledger!LedgerSpec, Mapped

-----------------------------------------------------------------------------
(* Why calls return: the lock is kept between steps by create_block alone, *)
(* whose closure waits for nothing.                                        *)
LockHeld == \A p \in Thread : th[p].pc = "create" <=> holder = p

(* What a call in its second half waits for, as in GoesOn. *)
CallReady(p) ==
    \/ th[p].pc = "tell" /\ holder = NoThread
    \/ th[p].pc \in {"get", "load"} /\ (Usable \/ poisoned)
    \/ th[p].pc \in {"ret", "create"}

(* The steps it has left at most. *)
CallSteps(c) == IF c.pc = "idle" THEN 0 ELSE IF c.pc = "get" THEN 2 ELSE 1

(* A call that never has the lock between steps, ... *)
Passes(p, c) ==
    /\ th[p].pc # "create" /\ c.pc # "create"
    /\ th[p].pc # "idle" => CallSteps(c) < CallSteps(th[p])
    /\ holder' = holder

(* ... and create_block, which takes and gives it. *)
Locks(p, c)   == th[p].pc = "idle" /\ c.pc = "create" /\ holder = NoThread /\ holder' = p
Unlocks(p, c) == th[p].pc = "create" /\ c.pc = "idle" /\ holder' = NoThread

Moves(p) == \E c : Goes(p, c) /\ (Passes(p, c) \/ Locks(p, c) \/ Unlocks(p, c))

LEMMA CallPlaces ==
    /\ Idle.pc = "idle" /\ Creating.pc = "create"
    /\ \A b, by : Telling(b, by).pc = "tell"
    /\ \A t, got : Answered(t, got).pc = "ret"
    /\ \A t, at : Getting(t, at).pc = "get"
    /\ \A b, a : Loading(b, a).pc = "load"
  BY DEF Idle, Creating, Telling, Answered, Getting, Loading

(* A call begins. *)
LEMMA BeginMoves ==
    ASSUME NEW p \in Thread, th[p].pc = "idle",
           \/ \E b \in Block : LinkCall(p, b) \/ NewLinkBlock(p, b) \/ GetCall(p, b)
           \/ \E b \in Block : LoadAttr(p, b) \/ LinkPanics(p, b)
           \/ \E t \in Submitted : AppendCall(p, t) \/ RemoveCall(p, t)
           \/ \E t \in Tx : GetTxAttr(p, t)
           \/ PopCall(p) \/ CreateLock(p)
    PROVE  Moves(p)
<1>1. ASSUME NEW c, Goes(p, c), c.pc # "create", holder' = holder PROVE Moves(p)
  BY <1>1 DEF Moves, Passes
<1>2. ASSUME NEW b, NEW by, Tells(p, b, by), holder' = holder PROVE Moves(p)
  <2>1. Goes(p, Telling(b, by))
    BY <1>2 DEF Tells, Telling
  <2> QED BY <1>1, <1>2, <2>1, CallPlaces
<1>3. CASE \/ \E b \in Block : LinkCall(p, b) \/ NewLinkBlock(p, b) \/ GetCall(p, b)
           \/ \E b \in Block : LinkPanics(p, b)
           \/ \E t \in Submitted : AppendCall(p, t) \/ RemoveCall(p, t)
           \/ PopCall(p)
  <2>1. holder' = holder /\ (Goes(p, Idle) \/ \E b, by : Tells(p, b, by))
    BY <1>3 DEF LinkCall, NewLinkBlock, GetCall, LinkPanics, AppendCall, RemoveCall, PopCall
  <2> QED BY <1>1, <1>2, <2>1, CallPlaces
<1>4. ASSUME NEW b \in Block, LoadAttr(p, b) PROVE Moves(p)
  <2>1. Goes(p, Loading(b, battr[b]))
    BY <1>4 DEF LoadAttr, Loading
  <2>2. holder' = holder
    BY <1>4 DEF LoadAttr
  <2> QED BY <1>1, <2>1, <2>2, CallPlaces
<1>5. ASSUME NEW t \in Tx, GetTxAttr(p, t) PROVE Moves(p)
  <2>1. holder' = holder
    BY <1>5 DEF GetTxAttr
  <2>2. CASE tattr[t] = NoTxAttr
    <3>1. Goes(p, Answered(t, NoTx))
      BY <1>5, <2>2 DEF GetTxAttr, Answers, Answered
    <3> QED BY <1>1, <2>1, <3>1, CallPlaces
  <2>3. CASE tattr[t] # NoTxAttr
    <3>1. Goes(p, Getting(t, tattr[t]))
      BY <1>5, <2>3 DEF GetTxAttr, Getting
    <3> QED BY <1>1, <2>1, <3>1, CallPlaces
  <2> QED BY <2>2, <2>3
<1>6. ASSUME CreateLock(p) PROVE Moves(p)
  <2>1. Goes(p, Creating) /\ holder = NoThread /\ holder' = p
    BY <1>6 DEF CreateLock, Creating, Begin, Usable
  <2>2. Locks(p, Creating)
    BY <2>1, CallPlaces DEF Locks
  <2> QED BY <2>1, <2>2 DEF Moves
<1> QED BY <1>3, <1>4, <1>5, <1>6

(* A call goes on. *)
LEMMA GoesOnMoves ==
    ASSUME NEW p \in Thread, GoesOn(p)
    PROVE  Moves(p)
<1>1. CASE Tell(p) \/ Return(p) \/ LoadBlock(p) \/ Refused(p)
  <2>1. /\ Goes(p, Idle) /\ holder' = holder
        /\ th[p].pc \in {"tell", "ret", "load", "get"}
    BY <1>1 DEF Tell, Return, LoadBlock, Refused, At
  <2>2. Passes(p, Idle)
    BY <2>1, CallPlaces DEF Passes, CallSteps
  <2> QED BY <2>1, <2>2 DEF Moves
<1>2. CASE GetTxBlock(p)
  <2>1. holder' = holder /\ th[p].pc = "get"
    BY <1>2 DEF GetTxBlock, At
  <2>2. \E got : Answers(p, th[p].t, got)
    BY <1>2 DEF GetTxBlock
  <2>3. PICK got : Goes(p, Answered(th[p].t, got))
    BY <2>2 DEF Answers, Answered
  <2>4. Passes(p, Answered(th[p].t, got))
    BY <2>1, CallPlaces DEF Passes, CallSteps
  <2> QED BY <2>3, <2>4 DEF Moves
<1>3. CASE CreateEnd(p) \/ CreatePanics(p)
  <2>1. Goes(p, Idle) /\ holder' = NoThread /\ th[p].pc = "create"
    BY <1>3 DEF CreateEnd, CreatePanics, At
  <2>2. Unlocks(p, Idle)
    BY <2>1, CallPlaces DEF Unlocks
  <2> QED BY <2>1, <2>2 DEF Moves
<1> QED BY <1>1, <1>2, <1>3 DEF GoesOn

LEMMA EveryoneMoves == ChainNext => \E p \in Thread : Moves(p)
<1> SUFFICES ASSUME ChainNext PROVE \E p \in Thread : Moves(p)
  OBVIOUS
<1>1. PICK p \in Thread :
        \/ \E b \in Block : LinkCall(p, b) \/ NewLinkBlock(p, b) \/ GetCall(p, b)
        \/ \E b \in Block : LoadAttr(p, b) \/ LinkPanics(p, b)
        \/ \E t \in Submitted : AppendCall(p, t) \/ RemoveCall(p, t)
        \/ \E t \in Tx : GetTxAttr(p, t)
        \/ PopCall(p) \/ CreateLock(p)
        \/ GoesOn(p)
  BY ChainAssumption DEF ChainNext
<1>2. CASE GoesOn(p)
  BY <1>2, GoesOnMoves
<1>3. CASE ~GoesOn(p)
  <2>1. Begin(p)
    <3>1. \A b \in Block :
            /\ LinkCall(p, b) \/ NewLinkBlock(p, b) \/ GetCall(p, b) => Begin(p)
            /\ LoadAttr(p, b) \/ LinkPanics(p, b) => Begin(p)
      BY DEF LinkCall, NewLinkBlock, GetCall, LoadAttr, LinkPanics
    <3>2. \A t : AppendCall(p, t) \/ RemoveCall(p, t) \/ GetTxAttr(p, t) => Begin(p)
      BY DEF AppendCall, RemoveCall, GetTxAttr
    <3>3. PopCall(p) \/ CreateLock(p) => Begin(p)
      BY DEF PopCall, CreateLock
    <3> QED BY <1>1, <1>3, <3>1, <3>2, <3>3
  <2>2. th[p].pc = "idle"
    BY <2>1 DEF Begin
  <2> QED BY <1>1, <1>3, <2>2, BeginMoves
<1> QED BY <1>2, <1>3

LEMMA MoveKeepsLock ==
    ASSUME ChainTypeOK, LockHeld, NEW p \in Thread, Moves(p)
    PROVE  /\ LockHeld'
           /\ \A q \in Thread : th[q].pc # "idle" /\ th'[q] # th[q] =>
                 CallSteps(th'[q]) < CallSteps(th[q])
<1>1. PICK c : Goes(p, c) /\ (Passes(p, c) \/ Locks(p, c) \/ Unlocks(p, c))
  BY DEF Moves
<1>2. \A q \in Thread : th'[q] = IF q = p THEN c ELSE th[q]
  BY <1>1 DEF Goes, ChainTypeOK
<1>3. NoThread \notin Thread
  BY ChainAssumption
<1>4. LockHeld'
  <2>1. SUFFICES ASSUME NEW q \in Thread PROVE th'[q].pc = "create" <=> holder' = q
    BY DEF LockHeld
  <2>2. /\ th[q].pc = "create" <=> holder = q
        /\ th[p].pc = "create" <=> holder = p
    BY DEF LockHeld
  <2>3. CASE Passes(p, c)
    BY <1>2, <2>2, <2>3 DEF Passes
  <2>4. CASE Locks(p, c)
    BY <1>2, <1>3, <2>2, <2>4 DEF Locks
  <2>5. CASE Unlocks(p, c)
    BY <1>2, <1>3, <2>2, <2>5 DEF Unlocks
  <2> QED BY <1>1, <2>3, <2>4, <2>5
<1>5. ASSUME NEW q \in Thread, th[q].pc # "idle", th'[q] # th[q]
      PROVE  CallSteps(th'[q]) < CallSteps(th[q])
  <2>1. q = p /\ th'[q] = c
    BY <1>2, <1>5
  <2>2. CASE Passes(p, c)
    BY <1>5, <2>1, <2>2 DEF Passes
  <2>3. CASE Unlocks(p, c)
    BY <2>1, <2>3 DEF Unlocks, CallSteps
  <2> QED BY <1>1, <1>5, <2>1, <2>2, <2>3 DEF Locks
<1> QED BY <1>4, <1>5

(* Nobody waits for ever for the lock: a call that waits for it waits for a *)
(* thread in create_block's closure, which waits for nothing and never for  *)
(* itself, and a call takes two more steps at most once it has begun        *)
(* (do_write, link's listener, create_block, get_tx).                       *)
THEOREM CallsGoOn ==
    ChainSpec =>
        /\ [](\A p \in Thread : th[p].pc # "idle" =>
                CallReady(p) \/ \E q \in Thread \ {p} : holder = q /\ CallReady(q))
        /\ [][\A p \in Thread : th[p].pc # "idle" /\ th'[p] # th[p] =>
                CallSteps(th'[p]) < CallSteps(th[p])]_allVars
<1> DEFINE Free == \A p \in Thread : th[p].pc # "idle" =>
                      CallReady(p) \/ \E q \in Thread \ {p} : holder = q /\ CallReady(q)
           Nearer == \A p \in Thread : th[p].pc # "idle" /\ th'[p] # th[p] =>
                        CallSteps(th'[p]) < CallSteps(th[p])
<1>1. ChainInit => LockHeld
  <2> SUFFICES ASSUME ChainInit, NEW p \in Thread PROVE th[p].pc # "create" /\ holder # p
    BY DEF LockHeld
  <2> QED BY CallPlaces, ChainAssumption DEF ChainInit
<1>2. ChainInv /\ LockHeld /\ [ChainNext]_allVars => LockHeld' /\ [Nearer]_allVars
  <2> SUFFICES ASSUME ChainInv, LockHeld, [ChainNext]_allVars PROVE LockHeld' /\ [Nearer]_allVars
    OBVIOUS
  <2>1. CASE ChainNext
    BY <2>1, EveryoneMoves, MoveKeepsLock DEF ChainInv
  <2>2. CASE UNCHANGED allVars
    BY <2>2 DEF LockHeld, allVars
  <2> QED BY <2>1, <2>2
<1>3. ChainInv /\ LockHeld => Free
  <2> SUFFICES ASSUME ChainInv, LockHeld, NEW p \in Thread, th[p].pc # "idle", ~CallReady(p)
               PROVE  \E q \in Thread \ {p} : holder = q /\ CallReady(q)
    OBVIOUS
  <2>1. th[p].pc \in {"idle", "tell", "get", "ret", "load", "create"} /\ holder \in Thread \cup {NoThread}
    <3>1. th[p] \in Call
      BY DEF ChainInv, ChainTypeOK
    <3> QED BY <3>1 DEF Call, ChainInv, ChainTypeOK
  <2>2. holder \in Thread
    BY <2>1 DEF CallReady, Usable
  <2>3. holder # p /\ th[holder].pc = "create"
    BY <2>2 DEF CallReady, LockHeld
  <2> QED BY <2>2, <2>3 DEF CallReady
<1> HIDE DEF Free, Nearer
<1>4. ChainSpec => []Free /\ [][Nearer]_allVars
  BY <1>1, <1>2, <1>3, ChainInvariant, PTL DEF ChainSpec
<1> QED BY <1>4 DEF Free, Nearer
=============================================================================
