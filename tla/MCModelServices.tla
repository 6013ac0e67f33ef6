---------------------------- MODULE MCModelServices ----------------------------
(***************************************************************************)
(* Two operations, one after or across the other.                           *)
(***************************************************************************)
EXTENDS ModelServices, TLC
CONSTANTS t1, t2
MCPlans == {t1 :> a @@ t2 :> b :
            <<a, b>> \in {<<"stop", "start">>, <<"remove", "deploy">>, <<"restart", "delete-cache">>}}
=============================================================================
