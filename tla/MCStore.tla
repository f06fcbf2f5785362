------------------------------- MODULE MCStore -------------------------------
(* Bodies of one and two bytes in files of at most three bytes: files end    *)
(* full and short of full, and the store rolls twice.                        *)
EXTENDS StoreClient

CONSTANTS p1, p2

MCBody == {p1, p2}
MCBodyLen == [b \in MCBody |-> IF b = p1 THEN 1 ELSE 2]

=============================================================================
