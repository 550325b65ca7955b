---------------------------- MODULE MCRunLeases ----------------------------
(***************************************************************************)
(* Instances of RunLeases for TLC.                                         *)
(***************************************************************************)
EXTENDS RunLeases, TLC

CONSTANTS w1, w2, host1, host2

(* One worker process per host, as compose.yaml deploys them.              *)
OneIdEach == (w1 :> host1) @@ (w2 :> host2)
============================================================================
