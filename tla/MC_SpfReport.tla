---------------------------- MODULE MC_SpfReport ----------------------------
(* TLC instance of SpfReport: two sessions, two recipients, one report per *)
(* recipient and window, two windows and two calls per session.            *)
EXTENDS SpfReport

CONSTANTS s1, s2, r1, r2

MC_Session == {s1, s2}
MC_Rcpt == {r1, r2}
=============================================================================
