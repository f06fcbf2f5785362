------------------------------ MODULE ScriptBytes ------------------------------
(***************************************************************************)
(* The bytes of a script (script.rs), how the two walks over them cut them *)
(* into operations (Script::ops, which check uses, and Exector::exec), and *)
(* how it is put among other bytes and got back (iobuf.rs).                *)
(* Positions count from 1; a walk that fails at p has no next position.    *)
(***************************************************************************)
EXTENDS Integers, Sequences, FiniteSets

CONSTANTS
    MaxScriptOps,       \* MAX_SCRIPT_OPS
    MaxCbSize, MaxInSize, MaxOutSize    \* MAX_SCRIPT_CB_SIZE, _IN_SIZE, _OUT_SIZE

MaxUsize == 32767   \* 0x7FFF: the longest that Writer::usize takes, which it asserts

\* 128, 2048, 2048
ASSUME ScriptBytesAssumption ==
    /\ MaxCbSize \in Nat /\ MaxInSize \in Nat /\ MaxOutSize \in Nat
    /\ MaxCbSize <= MaxUsize /\ MaxInSize <= MaxUsize /\ MaxOutSize <= MaxUsize

OpNumber1 == 160    \* 0xA0 .. 0xA3: a number of 1, 2, 4, 8 bytes follows
OpNumber8 == 163
OpData1   == 176    \* 0xB0 .. 0xB2: data follows, its length in 1, 2, 4 bytes
OpData4   == 178
OpTypeB   == 255    \* OP_TYPE: a script type follows

(* The operations exec knows that are followed by nothing. *)
Plain == (0..16) \cup {144, 145} \cup (192..199)

None == 0

(* Where a walk is once it read n bytes at p (Reader::check, advance). *)
Skip(s, p, n) == IF p + n - 1 <= Len(s) THEN p + n ELSE None

(* Data after a little-endian length of n bytes at p; 2^16 bytes or more    *)
(* pass the end of every script.                                            *)
SkipData(s, p, n) ==
    IF \/ Skip(s, p, n) = None
       \/ \E i \in 3..n : s[p + i - 1] # 0
    THEN None
    ELSE Skip(s, p + n, s[p] + IF n = 1 THEN 0 ELSE 256 * s[p + 1])

\* mutant of OpsNext: a length has as many bytes as the operation's place in the list
OpsNextLength(s, p) ==
    LET c == s[p]
    IN  IF c = OpTypeB THEN Skip(s, p + 1, 1)
        ELSE IF c \in OpNumber1..OpNumber8 THEN Skip(s, p + 1, 2 ^ (c - OpNumber1))
        ELSE IF c \in OpData1..OpData4 THEN SkipData(s, p + 1, c - OpData1 + 1)
        ELSE p + 1

(* Script::ops at p.  Reader::length reads four bytes when it is asked for *)
(* three, which is how OP_DATA_4 gets its length.                          *)
OpsNext(s, p) ==
    LET c == s[p]
        n == c - OpData1 + 1
    IN  IF c = OpTypeB THEN Skip(s, p + 1, 1)
        ELSE IF c \in OpNumber1..OpNumber8 THEN Skip(s, p + 1, 2 ^ (c - OpNumber1))
        ELSE IF c \in OpData1..OpData4 THEN SkipData(s, p + 1, IF n = 3 THEN 4 ELSE n)
        ELSE p + 1

(* Exector::exec at p, where each operation has a case (read_binary for data). *)
ExecNext(s, p) ==
    LET c == s[p]
    IN  IF c = OpTypeB THEN Skip(s, p + 1, 1)
        ELSE IF c \in OpNumber1..OpNumber8 THEN Skip(s, p + 1, <<1, 2, 4, 8>>[c - OpNumber1 + 1])
        ELSE IF c \in OpData1..OpData4 THEN SkipData(s, p + 1, <<1, 2, 4>>[c - OpData1 + 1])
        ELSE IF c \in Plain THEN p + 1
        ELSE None

(* The positions the walk of ops over s gets to, None if it fails. *)
OpsWalk(s) ==
    LET at[n \in 0..Len(s)] ==
            IF n = 0 THEN {1}
            ELSE at[n - 1] \cup {OpsNext(s, p) : p \in at[n - 1] \cap DOMAIN s}
    IN  at[Len(s)]

OpsStarts(s) == OpsWalk(s) \cap DOMAIN s

(* The type get_type reads, None if there is none, and the size it allows. *)
TypeOf(s) == IF Len(s) >= 2 /\ s[1] = OpTypeB THEN s[2] ELSE None

MaxSize(s) ==
    IF TypeOf(s) \in 1..3 THEN <<MaxCbSize, MaxInSize, MaxOutSize>>[TypeOf(s)] ELSE 0

(* Script::check. *)
ScriptCheck(s) ==
    /\ s # <<>> /\ Len(s) <= MaxSize(s)
    /\ None \notin OpsWalk(s)
    /\ Cardinality(OpsStarts(s)) <= MaxScriptOps

(* Script::data: what it writes of v, of fewer than 2^16 bytes. *)
DataOp(v) ==
    IF v = <<>> THEN <<>>
    ELSE IF Len(v) <= 255 THEN <<OpData1, Len(v)>> \o v
    ELSE <<OpData1 + 1, Len(v) % 256, Len(v) \div 256>> \o v

-----------------------------------------------------------------------------
(***************************************************************************)
(* How a script is put into a transaction, and whatever else has a length  *)
(* of its own (iobuf.rs): the length first, in one byte or two.            *)
(***************************************************************************)
(* Writer::usize, high byte first; the high bit says that there are two. *)
Usize(n) == IF n <= 127 THEN <<n>> ELSE <<128 + n \div 256, n % 256>>

(* Writer::put. *)
PutBytes(v) == Usize(Len(v)) \o v

(* Reader::usize at p: where it gets to, and what it reads. *)
UsizeNext(s, p) ==
    IF Skip(s, p, 1) = None THEN None ELSE Skip(s, p, IF s[p] < 128 THEN 1 ELSE 2)

UsizeAt(s, p) == IF s[p] < 128 THEN s[p] ELSE 256 * (s[p] - 128) + s[p + 1]

(* Reader::get at p: likewise. *)
GetNext(s, p) ==
    IF UsizeNext(s, p) = None THEN None ELSE Skip(s, UsizeNext(s, p), UsizeAt(s, p))

GotBytes(s, p) == SubSeq(s, UsizeNext(s, p), GetNext(s, p) - 1)
=============================================================================
