--------------------------- MODULE MC_StoreConfig ---------------------------
(* TLC instance of StoreConfig: two store ids, one protocol of each branch  *)
(* kind (embedded, embedded SQL, server SQL, blob, full-text, lookup and an *)
(* unknown one) and one reload.                                             *)
EXTENDS StoreConfig

MC_Protocols == {"rocksdb", "sqlite", "postgresql", "fs", "elasticsearch",
                 "redis", "ldap"}
=============================================================================
