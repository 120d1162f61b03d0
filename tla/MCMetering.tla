----------------------------- MODULE MCMetering ------------------------------
(* A small instance of Metering.                                           *)
EXTENDS Metering, TLC

SmallCap == [daily |-> 2, monthly |-> 3]
OtherCaps == {[daily |-> 1, monthly |-> 3], [daily |-> 2, monthly |-> 1]}
==============================================================================
