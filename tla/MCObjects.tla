----------------------------- MODULE MCObjects -----------------------------
(* Instances of Objects: a receiver, its prototype and the prototype's     *)
(* prototype; a proxy of the first and a proxy of that proxy.              *)
EXTENDS Objects

CONSTANTS o1, o2, o3, proxy1, proxy2

MCTargetOf == proxy1 :> o1 @@ proxy2 :> proxy1
=============================================================================
