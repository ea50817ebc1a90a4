-------------------------- MODULE MC_MilterReceiver --------------------------
(* Model-checking instance of MilterReceiver and its properties.           *)
EXTENDS MilterReceiver

\* Three byte values. With max_frame_len = 2, a prefix <<0,0,0,2>> announces
\* a payload of exactly the limit, <<0,0,0,0>> an empty one, <<0,0,0,3>> one
\* byte over the limit, and any other an oversized one.
MCByte == {0, 2, 3}

==============================================================================
