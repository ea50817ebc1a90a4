----------------------- MODULE MC_JapaneseTokenizer -----------------------
(* TLC instance of JapaneseTokenizer; the bounds are given in the cfg.    *)
EXTENDS JapaneseTokenizer
=============================================================================
