------------------------------ MODULE MCEvents ------------------------------
(* An instance of Events: one emitter, one target, three signals.           *)
EXTENDS Events

CONSTANTS e1, t1, s1, s2, s3
MCComposites(s) ==
  CASE s = s1 -> {}
    [] s = s2 -> {<<s1>>}
    [] OTHER -> {<<s1, s2>>, <<s2>>}
=============================================================================
