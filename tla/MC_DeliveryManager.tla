------------------------ MODULE MC_DeliveryManager ------------------------
(* TLC instance of DeliveryManager: three sessions and a channel of two.  *)
EXTENDS DeliveryManager

CONSTANTS c1, c2, c3

MC_Callers == {c1, c2, c3}
=============================================================================
