------------------------------- MODULE MC_IfBlock -------------------------------
EXTENDS IfBlock
====
