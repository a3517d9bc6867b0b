------------------------------ MODULE MC_Gateway ------------------------------
(* Gateway on small sets of requests; the configurations say which faults   *)
(* the environment may commit.  MC_Gateway.cfg: all of them.                *)
(* MC_GatewayLive.cfg: all but the unrenderable body, after which the       *)
(* semaphore is not what it was, with fairness and control calls.           *)
(* MC_GatewayCap.cfg and MC_GatewayMetrics.cfg each check one sentence of   *)
(* the repository that the code does not keep.                              *)
EXTENDS Gateway, TLC

RequestSymmetry == Permutations(Requests)

=============================================================================
