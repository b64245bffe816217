----------------------------- MODULE MCServices -----------------------------
(* Instances of Services for TLC.                                          *)
EXTENDS Services

LateServer == {<<"server", 1>>}
NoneLate == {}
=============================================================================
