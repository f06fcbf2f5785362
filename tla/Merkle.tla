-------------------------------- MODULE Merkle --------------------------------
(***************************************************************************)
(* The Merkle root of a block's transactions (merkle.rs).  compute builds  *)
(* a tree in which no transaction is matched: its one bit is false and its *)
(* one hash the root calc_hasher computes, which extract_root hands back.  *)
(* A leaf is <<id>>; the hash of two nodes is the pair of them.            *)
(***************************************************************************)
EXTENDS Integers, Sequences

MerkleHash(l, r) == <<l, r>>

(* x << h and x >> h. *)
Shl(x, h) == LET bits[k \in 0..h] == IF k = 0 THEN x ELSE bits[k - 1] * 2 IN bits[h]
Shr(x, h) == LET bits[k \in 0..h] == IF k = 0 THEN x ELSE bits[k - 1] \div 2 IN bits[h]

\* mutant of TreeWidth: the last node of an odd level is left out
TreeWidthFloor(n, h) == Shr(n, h)

(* Nodes at height h above n leaves. *)
TreeWidth(n, h) == Shr(n + Shl(1, h) - 1, h)

(* The lowest height of one node. *)
TreeHeight(n) == CHOOSE h \in 0..n : TreeWidth(n, h) <= 1 /\ \A k \in 0..(h - 1) : TreeWidth(n, k) > 1

(* calc_hasher for the root: the nodes of a height count from 0, and one    *)
(* without a right brother is its own.                                      *)
ComputeMerkle(ids) ==
    LET n == Len(ids)
        node[h \in 0..TreeHeight(n)] ==
            [pos \in 0..(TreeWidth(n, h) - 1) |->
                IF h = 0 THEN <<ids[pos + 1]>>
                ELSE IF pos * 2 + 1 < TreeWidth(n, h - 1)
                     THEN MerkleHash(node[h - 1][pos * 2], node[h - 1][pos * 2 + 1])
                     ELSE MerkleHash(node[h - 1][pos * 2], node[h - 1][pos * 2])]
    IN  node[TreeHeight(n)][0]

-----------------------------------------------------------------------------
(* The root by levels: a level is paired up from the left, an odd last node *)
(* with itself, until one is left.                                          *)
PairedUp(level) ==
    [i \in 1..((Len(level) + 1) \div 2) |->
        MerkleHash(level[2 * i - 1], level[IF 2 * i <= Len(level) THEN 2 * i ELSE 2 * i - 1])]

RootByLevels(ids) ==
    LET level[d \in 0..Len(ids)] ==
            IF d = 0 THEN [i \in DOMAIN ids |-> <<ids[i]>>]
            ELSE IF Len(level[d - 1]) = 1 THEN level[d - 1]
            ELSE PairedUp(level[d - 1])
    IN  level[Len(ids)][1]
=============================================================================
