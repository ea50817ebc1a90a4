---------------------------- MODULE StoreConfig ----------------------------
(***************************************************************************)
(* Stores::parse_all, parse_stores and parse_lookups (store/src/config.rs) *)
(* and a reload that calls parse_stores again on the same Stores.           *)
(*                                                                         *)
(* A store id is a number; config.sub_keys lists the ids in BTreeMap order *)
(* and parse_stores walks them with the cursor i. A backend is named by its *)
(* protocol: the value of a map entry is the protocol of the store it was   *)
(* opened from, or "absent" when the map has no entry. Opening a backend   *)
(* may fail (open returns None), a nondeterministic outcome of each step.  *)
(* Compression and connection settings are left out. The memory lookup     *)
(* stores (parse_memory_stores) and the init.execute queries, which only   *)
(* record build errors, are not under src/ or change no store, and are     *)
(* left out. Purge schedules are a set: the lookup schedules are pushed in *)
(* AHashMap order, which the code does not fix.                            *)
(***************************************************************************)
EXTENDS Naturals

CONSTANTS
    N,           \* the store ids are 1..N
    Protocols,   \* the store.<id>.type values a configuration may use
    MaxReloads   \* the reloads the model makes at most

ASSUME StoreConfigAssumption == N \in Nat /\ MaxReloads \in Nat

Ids == 1..N

\* The protocols of store.rs's branches.
Embedded == {"rocksdb", "foundationdb", "sqlite"}
DataProtocols == Embedded \cup {"postgresql", "mysql"}
Sql == {"postgresql", "mysql", "sqlite"}
BlobOnly == {"fs", "s3"}

\* "none": the configuration has no store.<id>.type, so sub_keys skips <id>.
Types == Protocols \cup {"none"}
Backend == Protocols \cup {"absent"}

VARIABLES
    cfg_type,      \* store.<id>.type of the configuration being parsed
    cfg_query,     \* the ids with a store.<id>.query.<q> entry
    cfg_data,      \* storage.data (0 when unset)
    cfg_blob,      \* storage.blob (0 when unset)
    stores, fts, blobs, lookups,  \* the four maps of Stores
    query_lookups, \* the ids of the "<id>/<q>" query lookup stores
    schedules,     \* purge_schedules
    phase,         \* which call is running
    i,             \* the loop cursor of parse_stores
    is_reload,     \* parse_stores' is_reload
    sql_todo,      \* the SQL stores parse_lookups has still to visit
    failed,        \* the ids whose open returned None in this parse
    reloads        \* the reloads so far

vars == <<cfg_type, cfg_query, cfg_data, cfg_blob, stores, fts, blobs,
          lookups, query_lookups, schedules, phase, i, is_reload, sql_todo,
          failed, reloads>>

Absent == [x \in Ids |-> "absent"]

Schedule == [kind: {"data", "blobs", "lookup"}, id: Ids]

\* Stores::parse_all on a fresh Stores::default(), with any configuration.
Init ==
    /\ cfg_type \in [Ids -> Types]
    /\ cfg_query \in SUBSET Ids
    /\ cfg_data \in Ids \cup {0}
    /\ cfg_blob \in Ids \cup {0}
    /\ stores = Absent /\ fts = Absent /\ blobs = Absent /\ lookups = Absent
    /\ query_lookups = {}
    /\ schedules = {}
    /\ phase = "stores"
    /\ i = 1
    /\ is_reload = FALSE
    /\ sql_todo = {}
    /\ failed = {}
    /\ reloads = 0

InStores == phase \in {"stores", "reload"} /\ i <= N

\* Mutant: the loop cursor skips the following id.
NextIdSkip ==
    /\ i' = i + 2
    /\ UNCHANGED <<stores, fts, blobs, lookups, failed>>

\* The loop moves to the next id; nothing else changes.
NextId ==
    /\ i' = i + 1
    /\ UNCHANGED <<stores, fts, blobs, lookups, failed>>

\* The store's open returned None: it is in no map.
OpenFailed ==
    /\ i' = i + 1
    /\ failed' = failed \cup {i}
    /\ UNCHANGED <<stores, fts, blobs, lookups>>

\* "Avoid opening the same store twice": on reload, a store of this
\* embedded protocol is already open.
AlreadyOpen(p) == is_reload /\ \E x \in Ids : stores[x] = p

\* A data store opens and is inserted into all four maps.
OpenData(p) ==
    /\ i' = i + 1
    /\ stores' = [stores EXCEPT ![i] = p]
    /\ fts' = [fts EXCEPT ![i] = p]
    /\ blobs' = [blobs EXCEPT ![i] = p]
    /\ lookups' = [lookups EXCEPT ![i] = p]
    /\ UNCHANGED failed

\* One iteration of parse_stores' loop, for store id i.
ParseStore ==
    /\ InStores
    /\ LET p == cfg_type[i] IN
       \* no store.<id>.type, or the `unknown` arm: nothing is opened
       \/ /\ p \notin DataProtocols \cup BlobOnly \cup {"elasticsearch", "redis"}
          /\ NextId
       \/ /\ p \in Embedded
          /\ AlreadyOpen(p)
          /\ NextId
       \/ /\ p \in DataProtocols
          /\ ~(p \in Embedded /\ AlreadyOpen(p))
          /\ (OpenData(p) \/ OpenFailed)
       \/ /\ p \in BlobOnly
          /\ (/\ i' = i + 1 /\ blobs' = [blobs EXCEPT ![i] = p]
              /\ UNCHANGED <<stores, fts, lookups, failed>>) \/ OpenFailed
       \/ /\ p = "elasticsearch"
          /\ (/\ i' = i + 1 /\ fts' = [fts EXCEPT ![i] = p]
              /\ UNCHANGED <<stores, blobs, lookups, failed>>) \/ OpenFailed
       \/ /\ p = "redis"
          /\ (/\ i' = i + 1 /\ lookups' = [lookups EXCEPT ![i] = p]
              /\ UNCHANGED <<stores, fts, blobs, failed>>) \/ OpenFailed
    /\ UNCHANGED <<cfg_type, cfg_query, cfg_data, cfg_blob, query_lookups,
                   schedules, phase, is_reload, sql_todo, reloads>>

\* parse_stores returns. In parse_all, parse_lookups starts and collects
\* the SQL stores of self.stores.
EndStores ==
    /\ phase \in {"stores", "reload"}
    /\ i > N
    /\ \/ /\ phase = "stores"
          /\ phase' = "lookups"
          /\ sql_todo' = {x \in Ids : stores[x] \in Sql}
       \/ /\ phase = "reload"
          /\ phase' = "reloaded"
          /\ UNCHANGED sql_todo
    /\ UNCHANGED <<cfg_type, cfg_query, cfg_data, cfg_blob, stores, fts, blobs,
                   lookups, query_lookups, schedules, i, is_reload,
                   failed, reloads>>

\* The queries of one SQL store become lookup stores "<id>/<q>".
SqlQueries(x) ==
    /\ phase = "lookups"
    /\ x \in sql_todo
    /\ sql_todo' = sql_todo \ {x}
    /\ query_lookups' = IF x \in cfg_query THEN query_lookups \cup {x}
                                           ELSE query_lookups
    /\ UNCHANGED <<cfg_type, cfg_query, cfg_data, cfg_blob, stores, fts, blobs,
                   lookups, schedules, phase, i, is_reload, failed,
                   reloads>>

\* The data purge, and the blob purge when the data store exists.
DataSchedules ==
    IF cfg_data # 0 /\ stores[cfg_data] # "absent"
    THEN {[kind |-> "data", id |-> cfg_data]}
         \cup (IF cfg_blob # 0 /\ blobs[cfg_blob] # "absent"
               THEN {[kind |-> "blobs", id |-> cfg_blob]} ELSE {})
    ELSE {}

\* Mutant: every lookup store gets a purge schedule, not just LookupStore::Store.
LookupSchedulesAll ==
    {[kind |-> "lookup", id |-> x] : x \in {y \in Ids : lookups[y] # "absent"}}

\* A lookup purge for every lookup store that is a LookupStore::Store.
LookupSchedules ==
    {[kind |-> "lookup", id |-> x] : x \in {y \in Ids : lookups[y] \in DataProtocols}}

\* The purge schedules are pushed; parse_all returns.
PurgeSchedules ==
    /\ phase = "lookups"
    /\ sql_todo = {}
    /\ schedules' = schedules \cup DataSchedules \cup LookupSchedules
    /\ phase' = "done"
    /\ UNCHANGED <<cfg_type, cfg_query, cfg_data, cfg_blob, stores, fts, blobs,
                   lookups, query_lookups, i, is_reload, sql_todo,
                   failed, reloads>>

\* The configuration is reloaded and parse_stores runs on the same Stores.
Reload ==
    /\ phase \in {"done", "reloaded"}
    /\ reloads < MaxReloads
    /\ reloads' = reloads + 1
    /\ cfg_type' \in [Ids -> Types]
    /\ phase' = "reload"
    /\ i' = 1
    /\ is_reload' = \E x \in Ids : stores[x] # "absent"
    /\ failed' = {}
    /\ UNCHANGED <<cfg_query, cfg_data, cfg_blob, stores, fts, blobs, lookups,
                   query_lookups, schedules, sql_todo>>

Next ==
    \/ ParseStore
    \/ EndStores
    \/ \E x \in Ids : SqlQueries(x)
    \/ PurgeSchedules
    \/ Reload

Spec == Init /\ [][Next]_vars

-----------------------------------------------------------------------------
(* Properties                                                              *)

\* Every variable has its type.
TypeOK ==
    /\ cfg_type \in [Ids -> Types]
    /\ cfg_query \subseteq Ids
    /\ cfg_data \in Ids \cup {0} /\ cfg_blob \in Ids \cup {0}
    /\ \A m \in {stores, fts, blobs, lookups} : m \in [Ids -> Backend]
    /\ query_lookups \subseteq Ids
    /\ schedules \subseteq Schedule
    /\ phase \in {"stores", "lookups", "done", "reload", "reloaded"}
    /\ i \in 1..(N + 1)
    /\ is_reload \in BOOLEAN
    /\ sql_todo \subseteq Ids
    /\ failed \subseteq Ids
    /\ reloads \in 0..MaxReloads

\* The configured ids of the protocols P whose open did not fail.
Opened(P) == {x \in Ids : cfg_type[x] \in P /\ x \notin failed}

\* The map a parse should build for the protocols P.
ExpectedMap(P) == [x \in Ids |-> IF x \in Opened(P) THEN cfg_type[x] ELSE "absent"]

\* The purge schedules a parse should push.
ExpectedSchedules ==
    (IF cfg_data \in Opened(DataProtocols)
     THEN {[kind |-> "data", id |-> cfg_data]}
          \cup (IF cfg_blob \in Opened(DataProtocols \cup BlobOnly)
                THEN {[kind |-> "blobs", id |-> cfg_blob]} ELSE {})
     ELSE {})
    \cup {[kind |-> "lookup", id |-> x] : x \in Opened(DataProtocols)}

\* parse_all builds what the configuration says, whichever opens fail: each
\* store that opens is in exactly the maps of its protocol, each SQL store's
\* queries become lookup stores, the data purge exists exactly when
\* storage.data names an open data store, the blob purge only with it, and
\* each data store (the data store included) gets a lookup purge.
ParseMatchesConfig ==
    phase = "done" =>
        /\ stores = ExpectedMap(DataProtocols)
        /\ fts = ExpectedMap(DataProtocols \cup {"elasticsearch"})
        /\ blobs = ExpectedMap(DataProtocols \cup BlobOnly)
        /\ lookups = ExpectedMap(DataProtocols \cup {"redis"})
        /\ query_lookups = Opened(Sql) \cap cfg_query
        /\ schedules = ExpectedSchedules

\* After a reload, every data store of the new configuration whose open
\* did not fail is in Stores, as the comment "Avoid opening the same store
\* twice" intends: only a store already open is skipped.
ReloadOpensConfigured ==
    phase = "reloaded" =>
        \A x \in Ids : cfg_type[x] \in DataProtocols /\ x \notin failed
                        => stores[x] = cfg_type[x]

=============================================================================
