---------------------------- MODULE MCProviderCalls ----------------------------
(***************************************************************************)
(* Two keys and two calls with one retry: late answers for a key that the   *)
(* other call opened, probed or closed.  A threshold of two failures, one   *)
(* probe at a time and two successes to close, so that every counter is met *)
(* below and at its limit.                                                  *)
(***************************************************************************)
EXTENDS ProviderCalls
=============================================================================
