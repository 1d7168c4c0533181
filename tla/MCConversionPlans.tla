------------------------- MODULE MCConversionPlans -------------------------
(* Small instances of ConversionPlans.                                     *)
EXTENDS ConversionPlans, TLC
CONSTANTS p1, r1

AllRoutes == {<<"swap", "send">>, <<"receive", "swap", "send">>, <<"lightning", "swap">>,
              <<"swap", "lockup">>}
=============================================================================
