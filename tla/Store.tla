-------------------------------- MODULE Store --------------------------------
(***************************************************************************)
(* The append-only data files of the chain (store.rs).  A Store is a       *)
(* directory of numbered files; data is appended to the highest one and a  *)
(* position (Attr: file, offset, length) is handed back, which LevelDB     *)
(* keeps.  Files are sequences of bytes and a byte carries the body it was *)
(* written for and its place in it, so that a read at a wrong position is  *)
(* told apart from a right one.                                            *)
(*                                                                         *)
(* The operators work on a store value, so that BlkIndexer can hold two of *)
(* them (the block data and the undo data); StoreClient drives one.        *)
(***************************************************************************)
EXTENDS Integers, Sequences, FiniteSets, SequencesExt

CONSTANTS
    MaxFileSize,    \* the bytes a file may hold (MAX_FILE_SIZE)
    MaxCacheFile,   \* the handles kept before one is closed (MAX_CACHE_FILE)
    Dir,            \* the directory's name, which open_file passes twice
    Ext             \* the extension of the files

ASSUME StoreAssumption ==
    /\ MaxFileSize \in Nat
    /\ MaxCacheFile \in Nat

(***************************************************************************)
(* A store: the highest file, the contents of the files 0..idx, and the    *)
(* files whose handle is open, in the order of the vector "cache".         *)
(***************************************************************************)
EmptyStore == [idx |-> 0, files |-> [i \in {0} |-> <<>>], open |-> <<0>>]

Byte(bodies) == [of : bodies, at : Nat]

(* A store of bytes written for the given bodies. *)
IsStore(s, bodies) ==
    /\ s = [idx |-> s.idx, files |-> s.files, open |-> s.open]
    /\ s.idx \in Nat
    /\ s.files \in [0..s.idx -> Seq(Byte(bodies))]
    /\ s.open \in Seq(0..s.idx)

Bytes(body, l) == [k \in 1..l |-> [of |-> body, at |-> k]]

Attr == [idx : Nat, off : Nat, len : Nat]

\* mutant of NextFile: the highest number is not advanced
NextFileUncounted(s) ==
    [idx   |-> s.idx,
     files |-> [i \in 0..(s.idx + 1) |-> IF i <= s.idx THEN s.files[i] ELSE <<>>],
     open  |-> Append(s.open, s.idx)]

NextFile(s) ==
    [idx   |-> s.idx + 1,
     files |-> [i \in 0..(s.idx + 1) |-> IF i <= s.idx THEN s.files[i] ELSE <<>>],
     open  |-> Append(s.open, s.idx + 1)]

\* mutant of CheckNext: rolls one push too late
CheckNextLate(s, l) ==
    IF Len(s.files[s.idx]) < MaxFileSize THEN s ELSE NextFile(s)

(* Roll to the next file when l more bytes do not fit in this one. *)
CheckNext(s, l) ==
    IF Len(s.files[s.idx]) + l <= MaxFileSize THEN s ELSE NextFile(s)

AppendBytes(s, bytes) == [s EXCEPT !.files[s.idx] = @ \o bytes]

CanPush(s, l) == l > 0 /\ l <= MaxFileSize /\ s.idx \in ToSet(s.open)

\* mutant of PushAttr: the position is taken before the roll
PushAttrEarly(s, l) ==
    [idx |-> s.idx, off |-> Len(s.files[s.idx]), len |-> l]

PushAttr(s, l) ==
    LET n == CheckNext(s, l)
    IN  [idx |-> n.idx, off |-> Len(n.files[n.idx]), len |-> l]

Pushed(s, body, l) == AppendBytes(CheckNext(s, l), Bytes(body, l))

(* A write that stops after k of the l bytes: an I/O error or a crash. *)
Torn(s, body, l, k) == AppendBytes(CheckNext(s, l), Bytes(body, k))

(* The extension open_file looks for: the code passes the directory. *)
OpenExt == Dir

(* Close the open file of the lowest number, never the one written to. *)
RemoveFile(s) ==
    LET others == {p \in DOMAIN s.open : s.open[p] # s.idx}
        lowest == CHOOSE p \in others : \A q \in others : s.open[p] <= s.open[q]
    IN  IF others = {} THEN s ELSE [s EXCEPT !.open = RemoveAt(@, lowest)]

OpenFile(s, i) ==
    LET n == [s EXCEPT !.open = Append(@, i)]
    IN  IF Len(n.open) > MaxCacheFile THEN RemoveFile(n) ELSE n

Openable(s, i) == i \in DOMAIN s.files /\ OpenExt = Ext

Missing(s, i) == i \notin ToSet(s.open)

(* The store after the handle of file i was looked up. *)
Looked(s, i) == IF Missing(s, i) /\ Openable(s, i) THEN OpenFile(s, i) ELSE s

\* mutant of Handle: the first handle of the cache
HandleFirst(s, i) == Head(s.open)

(* The file read: the cached handle, or the last one of the vector. *)
Handle(s, i) == IF Missing(s, i) THEN Last(Looked(s, i).open) ELSE i

Span(file, a) == [k \in 1..a.len |-> file[a.off + k]]

InFile(file, a) == a.off + a.len <= Len(file)

CanPull(s, a) ==
    /\ Missing(s, a.idx) => Openable(s, a.idx)
    /\ InFile(s.files[Handle(s, a.idx)], a)

Pull(s, a) == Span(s.files[Handle(s, a.idx)], a)

(* What the position a refers to on disk, whatever handle is open. *)
OnDisk(s, a, body) ==
    /\ a.idx \in 0..s.idx
    /\ InFile(s.files[a.idx], a)
    /\ Span(s.files[a.idx], a) = Bytes(body, a.len)

\* mutant of Reopened: the first file is opened
ReopenedFirst(s) == [s EXCEPT !.open = <<0>>]

(* Store::new on an existing directory: only the highest file is opened. *)
Reopened(s) ==
    LET n == IF Len(s.files[s.idx]) > MaxFileSize THEN NextFile(s) ELSE s
    IN  [n EXCEPT !.open = <<n.idx>>]
==============================================================================
