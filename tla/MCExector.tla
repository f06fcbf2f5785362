------------------------------- MODULE MCExector -------------------------------
(***************************************************************************)
(* Two accounts: `two` of the three keys k1, k2, k3, with signatures by    *)
(* various of them in various orders, over this input's signing bytes (m1) *)
(* or another's (m2); and `arb`, the keys k1, k2 and the arbiter k3, whose *)
(* signing bytes are m3; "long" lists a key too many.  The inputs are the  *)
(* standard ones and short scripts of any operations.                      *)
(***************************************************************************)
EXTENDS Exector

CONSTANTS k1, k2, k3, k4, m1, m2, m3, Lengths

TwoOf(sigs) ==
    Unpack([num |-> 3, less |-> 2, arb |-> NoArb, pubs |-> <<k1, k2, k3>>, sigs |-> sigs])
ArbOver(sigs) ==
    Unpack([num |-> 3, less |-> 2, arb |-> 2, pubs |-> <<k1, k2, k3>>, sigs |-> sigs])

MCAccount ==
    [two12  |-> TwoOf(<<<<k1, m1>>, <<k2, m1>>>>),
     two13  |-> TwoOf(<<<<k1, m1>>, <<k3, m1>>>>),
     two23  |-> TwoOf(<<<<k2, m1>>, <<k3, m1>>>>),
     all    |-> TwoOf(<<<<k1, m1>>, <<k2, m1>>, <<k3, m1>>>>),
     two31  |-> TwoOf(<<<<k3, m1>>, <<k1, m1>>>>),
     same   |-> TwoOf(<<<<k1, m1>>, <<k1, m1>>>>),
     one    |-> TwoOf(<<<<k2, m1>>>>),
     other  |-> TwoOf(<<<<k1, m2>>, <<k2, m1>>, <<k3, m2>>>>),
     none   |-> TwoOf(<<>>),
     arb3   |-> ArbOver(<<<<k3, m3>>>>),
     arb12  |-> ArbOver(<<<<k1, m3>>, <<k2, m3>>>>),
     thief  |-> Unpack([num |-> 1, less |-> 1, arb |-> NoArb, pubs |-> <<k4>>,
                        sigs |-> <<<<k4, m1>>>>])]

MCData == DOMAIN MCAccount \cup {"h_two", "h_arb", "h_thief", "long"}
MCAccountOf ==
    [d \in MCData |-> IF d \in DOMAIN MCAccount THEN MCAccount[d]
                      ELSE IF d = "long" THEN Overlong ELSE NoAccount]
MCHashOf ==
    [d \in MCData |-> IF d = "thief" THEN "h_thief"
                      ELSE IF d \in {"arb3", "arb12"} THEN "h_arb" ELSE "h_two"]
MCMsgOf == [d \in MCData |-> IF d \in {"arb3", "arb12"} THEN m3 ELSE m1]

MCTokens ==
    {Push(Dat(d)) : d \in {"two12", "two31", "same", "thief", "arb3", "h_two", "h_arb", "long"}}
        \cup {Push(Bool(TRUE)), OpType(TypeOut), Op("hasher"), Op("equal"),
              Op("equal_verify"), Op("not"), Op("verify"), Op("checksig"), Op("bad")}

(* Inputs begin with their type (TxIn::check_value). *)
MCInputs ==
    {ScriptIn(d) : d \in DOMAIN MCAccount \cup {"long"}}
        \cup {<<OpType(TypeIn)>> \o s : s \in UNION {[1..n -> MCTokens] : n \in Lengths}}
        \cup {ScriptIn("two12") \o [n \in 1..k |-> Push(Num(0))] : k \in 4..9}
=============================================================================
