----------------------------- MODULE StoreClient -----------------------------
(***************************************************************************)
(* One store (Store::push, Store::pull) and its caller, which keeps the    *)
(* positions it is given, as LevelDB does, across failed writes and new    *)
(* processes.                                                              *)
(***************************************************************************)
EXTENDS Store

CONSTANTS
    Body,       \* what is stored
    BodyLen,    \* the length of each
    MaxFiles    \* bound: files the caller fills beyond the first

ASSUME ClientAssumption ==
    /\ BodyLen \in [Body -> Nat]
    /\ MaxFiles \in Nat

VARIABLES
    store,      \* the store
    stored,     \* the positions push returned, with what was pushed
    got         \* the outcome of the last pull, {} before one

storeVars == <<store, stored, got>>

StoreInit ==
    /\ store = EmptyStore
    /\ stored = {}
    /\ got = {}

DoPush(b) ==
    /\ CanPush(store, BodyLen[b])
    /\ CheckNext(store, BodyLen[b]).idx <= MaxFiles
    /\ store' = Pushed(store, b, BodyLen[b])
    /\ stored' = stored \cup {[attr |-> PushAttr(store, BodyLen[b]), body |-> b]}
    /\ UNCHANGED got

(* The write fails midway: push returns an error, the bytes stay. *)
PushFails(b, k) ==
    /\ CanPush(store, BodyLen[b])
    /\ CheckNext(store, BodyLen[b]).idx <= MaxFiles
    /\ store' = Torn(store, b, BodyLen[b], k)
    /\ UNCHANGED <<stored, got>>

DoPull(r) ==
    /\ store' = Looked(store, r.attr.idx)
    /\ got' = IF CanPull(store, r.attr)
              THEN {[ok |-> TRUE, attr |-> r.attr, bytes |-> Pull(store, r.attr)]}
              ELSE {[ok |-> FALSE, attr |-> r.attr, bytes |-> <<>>]}
    /\ UNCHANGED stored

(* The process ends and a new one opens the directory. *)
Reopen ==
    /\ store' = Reopened(store)
    /\ got' = {}
    /\ UNCHANGED stored

StoreNext ==
    \/ \E b \in Body : DoPush(b)
    \/ \E b \in Body : \E k \in 0..(BodyLen[b] - 1) : PushFails(b, k)
    \/ \E r \in stored : DoPull(r)
    \/ Reopen

StoreSpec == StoreInit /\ [][StoreNext]_storeVars

-----------------------------------------------------------------------------
StoreTypeOK ==
    /\ IsStore(store, Body) /\ store.idx <= MaxFiles
    /\ stored \subseteq [attr : Attr, body : Body]

(* A position returned by push refers for ever to exactly the bytes that    *)
(* were pushed: failed writes, the roll to a new file and a new process     *)
(* move nothing (store.rs push, check_next, init_file).                     *)
ReadBack == \A r \in stored : OnDisk(store, r.attr, r.body)

(* No file grows past the limit, whatever was written or torn before        *)
(* (check_next).                                                            *)
FileLimit == \A i \in DOMAIN store.files : Len(store.files[i]) <= MaxFileSize

(* The file written to stays open through pushes, pulls and restarts, so    *)
(* curr_file always finds it (remove_file spares it, init_file opens it).   *)
WriterOpen == store.idx \in ToSet(store.open)

(* A pull that succeeds returns what was pushed at that position and nothing *)
(* else (pull reads through whichever handle the cache gives it).            *)
PullExact ==
    \A g \in got : g.ok =>
        \E r \in stored : r.attr = g.attr /\ g.bytes = Bytes(r.body, r.attr.len)

(* "Read the data: i the file, p the position, l the length" (store.rs:364): *)
(* a pull of a position that push returned succeeds.                         *)
PullAnswers == \A g \in got : g.ok
=============================================================================
