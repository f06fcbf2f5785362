-------------------------------- MODULE IBatch --------------------------------
(***************************************************************************)
(* Undo batches (IBatch in leveldb.rs): a batch is a list of writes, and   *)
(* beside it grows, in the same order, the list that takes them back.      *)
(* reverse writes that list out and try_from reads it in as it was.        *)
(***************************************************************************)
EXTENDS Integers, Sequences

CONSTANTS DbKey, DbValue, Absent

ASSUME IBatchAssumption == Absent \notin DbValue

DbPut(k, v) == [k |-> k, v |-> v]
DbDel(k)    == [k |-> k, v |-> Absent]

EmptyBatch == [b |-> <<>>, f |-> <<>>]

(* put, put_attr. *)
BatchPut(w, k, v) == [b |-> Append(w.b, DbPut(k, v)), f |-> Append(w.f, DbDel(k))]

\* mutant of BatchDel: the value deleted is not kept
BatchDelForgets(w, k, old) == [w EXCEPT !.b = Append(@, DbDel(k))]

(* del, del_bytes: old is the value deleted, or none. *)
BatchDel(w, k, old) ==
    [b |-> Append(w.b, DbDel(k)),
     f |-> IF old = Absent THEN w.f ELSE Append(w.f, DbPut(k, old))]

(* set. *)
BatchSet(w, k, new, old) == [b |-> Append(w.b, DbPut(k, new)), f |-> Append(w.f, DbPut(k, old))]

(* LevelDB writes a batch in order. *)
Written(db, ops) ==
    LET after[n \in 0..Len(ops)] ==
            IF n = 0 THEN db ELSE [after[n - 1] EXCEPT ![ops[n].k] = ops[n].v]
    IN  after[Len(ops)]
=============================================================================
