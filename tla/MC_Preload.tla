----------------------------- MODULE MC_Preload -----------------------------
(***************************************************************************)
(* Small instances of Preload.  c1 is deployed at the start; c2 is deployed *)
(* by x and, with other code, by y; c3 is the next version of c1, which only *)
(* ann may deploy.                                                          *)
(***************************************************************************)
EXTENDS Preload

CONSTANTS c1, c2, c3, n, m, ann, bob, g, x, y, z, v, p1, p2

MCName == [c \in Contract |-> IF c = c2 THEN m ELSE n]

Tx(op, c, s) == [op |-> op, cid |-> c, signer |-> s, code |-> 1, enable |-> FALSE]
Coded(tx, code) == [tx EXCEPT !.code = code]

MCParent == [b \in Block |-> IF b \in {z, v} THEN x ELSE g]

MCTxs == [b \in Block |->
    CASE b = x -> <<Tx("deploy", c2, ann), Tx("invoke", c2, ann), Tx("throw", c1, ann)>>
      [] b = y -> <<Coded(Tx("deploy", c2, bob), 2), Tx("invoke", c2, bob), Tx("deploy", c3, ann)>>
      [] b = z -> <<Tx("state", c2, ann), Tx("invoke", c2, bob), Tx("deploy", c3, bob), Tx("invoke", c3, bob)>>
      [] OTHER -> <<Tx("points", c2, ann), Tx("invoke", c1, ann)>>]

MCWorld0 == [k \in Key |-> CASE k = <<"tx", c1>> -> 1
                             [] k = <<"state", c1>> -> TRUE
                             [] k = <<"coder", n>> -> ann
                             [] OTHER -> None]
=============================================================================
