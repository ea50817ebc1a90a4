------------------------ MODULE MC_MemoryDirectory ------------------------
(* TLC instance of MemoryDirectory: two names, an address in lower and in  *)
(* mixed case.                                                            *)
EXTENDS MemoryDirectory

MC_Names == {"alice", "staff"}
MC_Addr == {"a@x", "A@X"}
MC_Lower == [e \in MC_Addr |-> "a@x"]
MC_DomainOf == [e \in MC_Addr |-> "x"]
=============================================================================
