------------------------------- MODULE MCWallet --------------------------------
(***************************************************************************)
(* A user with 3 credits, two orders of 2 and 1, and four requests: two    *)
(* orders with two requests each, or one order with three and a charge,    *)
(* are the smallest cases in which checks, notifications and charges meet. *)
(***************************************************************************)
EXTENDS Wallet, TLC

CONSTANTS o1, o2
MCAmount == [o \in Order |-> IF o = o1 THEN 2 ELSE 1]
Symmetric == Permutations(Request)
=============================================================================
