------------------------- MODULE StoreConfigProofs -------------------------
(***************************************************************************)
(* Proofs about Stores::parse_all and its reload, for any number of        *)
(* store ids, any protocols and any number of reloads.                     *)
(*                                                                         *)
(* GuardInv: the first parse runs with is_reload FALSE, and while it       *)
(* does the ids the loop has still to visit hold no store, so the reload   *)
(* guard never skips a store in the first parse.                           *)
(*                                                                         *)
(* TypeOK and ParseMatchesConfig: the four maps, the failed ids, the      *)
(* query lookups and the purge schedules are what the configuration asks  *)
(* for once parsing is done. The inductive invariant ParseInv says what   *)
(* each phase of the parse has built so far: the maps agree with the      *)
(* configuration below the loop index i, and the SQL lookups cover the    *)
(* SQL stores already visited.                                            *)
(***************************************************************************)
EXTENDS StoreConfig, TLAPS

\* The types the proof needs.
TypeInv ==
    /\ cfg_type \in [Ids -> Types]
    /\ stores \in [Ids -> Backend]
    /\ i \in Nat \ {0}
    /\ is_reload \in BOOLEAN
    /\ phase \in {"stores", "lookups", "done", "reload", "reloaded"}

\* The first parse runs with is_reload FALSE; and while parse_stores runs
\* with is_reload FALSE, the ids from the cursor on hold no store.
GuardInv ==
    /\ phase = "stores" => ~is_reload
    /\ phase \in {"stores", "reload"} /\ ~is_reload =>
           \A y \in Ids : y >= i => stores[y] = "absent"

IInv == TypeInv /\ GuardInv

-----------------------------------------------------------------------------

\* The initial states satisfy the invariant.
LEMMA InitIInv == Init => IInv
<1> SUFFICES ASSUME Init PROVE IInv
  OBVIOUS
<1>1. stores \in [Ids -> Backend] /\ \A y \in Ids : stores[y] = "absent"
  BY DEF Init, Absent, Backend
<1>3. cfg_type \in [Ids -> Types] /\ i = 1 /\ is_reload = FALSE /\ phase = "stores"
  BY DEF Init
<1>4. TypeInv
  <2>0. i \in Nat \ {0}
    BY <1>3
  <2>1. is_reload \in BOOLEAN
    BY <1>3, Zenon
  <2>2. phase \in {"stores", "lookups", "done", "reload", "reloaded"}
    BY <1>3
  <2>. QED BY <1>1, <1>3, <2>0, <2>1, <2>2 DEF TypeInv
<1>5. GuardInv
  BY <1>1, <1>3 DEF GuardInv
<1>. QED BY <1>4, <1>5 DEF IInv

\* A step that leaves the cursor's remaining ids and the maps alone,
\* and does not enter parse_stores, keeps the invariant.
LEMMA NextIInv == IInv /\ [Next]_vars => IInv'
<1> SUFFICES ASSUME IInv, [Next]_vars PROVE IInv'
  OBVIOUS
<1>1. CASE ParseStore
  <2>1. InStores /\ i \in 1..N
    BY <1>1 DEF ParseStore, InStores, IInv, TypeInv
  <2>2. /\ i' = i + 1
        /\ UNCHANGED <<cfg_type, phase, is_reload>>
        /\ stores' \in [Ids -> Backend]
        /\ \A y \in Ids : y # i => stores'[y] = stores[y]
    BY <1>1, <2>1 DEF ParseStore, NextId, OpenFailed, OpenData, IInv, TypeInv,
                     DataProtocols, Embedded, Backend, Types
  <2>3. TypeInv'
    BY <2>2 DEF IInv, TypeInv
  <2>4. (phase = "stores" => ~is_reload)'
    BY <2>2 DEF IInv, GuardInv
  <2>5. ASSUME phase' \in {"stores", "reload"}, ~is_reload', NEW y \in Ids, y >= i'
        PROVE  stores'[y] = "absent"
    <3>1. y # i /\ y >= i
      BY <2>1, <2>2, <2>5 DEF Ids
    <3>2. stores[y] = "absent"
      BY <2>2, <2>5, <3>1 DEF IInv, GuardInv
    <3>. QED BY <2>2, <3>1, <3>2
  <2>6. GuardInv'
    BY <2>4, <2>5 DEF GuardInv
  <2>. QED BY <2>3, <2>6 DEF IInv
<1>2. CASE EndStores
  BY <1>2 DEF EndStores, IInv, TypeInv, GuardInv
<1>3. CASE \E x \in Ids : SqlQueries(x)
  BY <1>3 DEF SqlQueries, IInv, TypeInv, GuardInv
<1>4. CASE PurgeSchedules
  BY <1>4 DEF PurgeSchedules, IInv, TypeInv, GuardInv
<1>5. CASE Reload
  BY <1>5 DEF Reload, IInv, TypeInv, GuardInv
<1>6. CASE UNCHANGED vars
  BY <1>6 DEF vars, IInv, TypeInv, GuardInv
<1>. QED BY <1>1, <1>2, <1>3, <1>4, <1>5, <1>6 DEF Next

-----------------------------------------------------------------------------
(* ParseMatchesConfig. The first parse fills the maps id by id: the ids    *)
(* the cursor has passed hold what the configuration says, the others      *)
(* nothing; parse_lookups then consumes sql_todo into query_lookups.       *)

\* Map m holds, at each id before k, the protocol of a store of P that
\* opened, and nothing at the ids from k on.
MapUpTo(m, P, k) ==
    \A x \in Ids : m[x] = IF x < k THEN ExpectedMap(P)[x] ELSE "absent"

\* The four maps of Stores up to the id k.
MapsUpTo(k) ==
    /\ MapUpTo(stores, DataProtocols, k)
    /\ MapUpTo(fts, DataProtocols \cup {"elasticsearch"}, k)
    /\ MapUpTo(blobs, DataProtocols \cup BlobOnly, k)
    /\ MapUpTo(lookups, DataProtocols \cup {"redis"}, k)

ParseInv ==
    /\ phase = "stores" =>
           /\ MapsUpTo(i)
           /\ failed \subseteq {x \in Ids : x < i}
           /\ query_lookups = {} /\ schedules = {}
    /\ phase \in {"lookups", "done"} => MapsUpTo(N + 1)
    /\ phase = "lookups" =>
           /\ sql_todo \subseteq Opened(Sql)
           /\ query_lookups = (Opened(Sql) \ sql_todo) \cap cfg_query
           /\ schedules = {}
    /\ phase = "done" =>
           /\ query_lookups = Opened(Sql) \cap cfg_query
           /\ schedules = ExpectedSchedules

PInv == TypeOK /\ GuardInv /\ ParseInv


\* TypeOK, with the four maps named one by one.
LEMMA MapsTyped ==
    TypeOK <=> /\ cfg_type \in [Ids -> Types]
               /\ cfg_query \subseteq Ids
               /\ cfg_data \in Ids \cup {0} /\ cfg_blob \in Ids \cup {0}
               /\ stores \in [Ids -> Backend] /\ fts \in [Ids -> Backend]
               /\ blobs \in [Ids -> Backend] /\ lookups \in [Ids -> Backend]
               /\ query_lookups \subseteq Ids
               /\ schedules \subseteq Schedule
               /\ phase \in {"stores", "lookups", "done", "reload", "reloaded"}
               /\ i \in 1..(N + 1)
               /\ is_reload \in BOOLEAN
               /\ sql_todo \subseteq Ids
                          /\ failed \subseteq Ids
               /\ reloads \in 0..MaxReloads
BY Zenon DEF TypeOK

LEMMA TypeOKTypeInv == TypeOK => TypeInv
BY MapsTyped, StoreConfigAssumption DEF TypeInv, Ids


\* TypeOK of the next state, from its conjuncts.
LEMMA TypeOKPrimed ==
    ASSUME /\ cfg_type' \in [Ids -> Types]
           /\ cfg_query' \subseteq Ids
           /\ cfg_data' \in Ids \cup {0} /\ cfg_blob' \in Ids \cup {0}
           /\ stores' \in [Ids -> Backend] /\ fts' \in [Ids -> Backend]
           /\ blobs' \in [Ids -> Backend] /\ lookups' \in [Ids -> Backend]
           /\ query_lookups' \subseteq Ids
           /\ schedules' \subseteq Schedule
           /\ phase' \in {"stores", "lookups", "done", "reload", "reloaded"}
           /\ i' \in 1..(N + 1)
           /\ is_reload' \in BOOLEAN
           /\ sql_todo' \subseteq Ids
              /\ failed' \subseteq Ids
           /\ reloads' \in 0..MaxReloads
    PROVE  TypeOK'
BY Zenon DEF TypeOK

\* Every step keeps the types: the cursor stops at N + 1, a map entry is a
\* protocol, and a purge schedule names a configured id.
LEMMA TypeOKStep == TypeOK /\ [Next]_vars => TypeOK'
<1> SUFFICES ASSUME TypeOK, [Next]_vars PROVE TypeOK' OBVIOUS
<1>0. /\ cfg_type \in [Ids -> Types]
      /\ cfg_query \subseteq Ids
      /\ cfg_data \in Ids \cup {0} /\ cfg_blob \in Ids \cup {0}
      /\ stores \in [Ids -> Backend] /\ fts \in [Ids -> Backend]
      /\ blobs \in [Ids -> Backend] /\ lookups \in [Ids -> Backend]
      /\ query_lookups \subseteq Ids
      /\ schedules \subseteq Schedule
      /\ phase \in {"stores", "lookups", "done", "reload", "reloaded"}
      /\ i \in 1..(N + 1)
      /\ is_reload \in BOOLEAN
      /\ sql_todo \subseteq Ids
        /\ failed \subseteq Ids
      /\ reloads \in 0..MaxReloads
      BY MapsTyped
<1>1. CASE ParseStore
  <2>1. InStores BY <1>1 DEF ParseStore
  <2>2. i \in Ids /\ cfg_type[i] \in Types BY <2>1, <1>0 DEF InStores, Ids
  <2>3. /\ i' = i + 1
        /\ UNCHANGED <<cfg_type, cfg_query, cfg_data, cfg_blob, query_lookups,
                       schedules, phase, is_reload, sql_todo, reloads>>
        BY <1>1 DEF ParseStore, NextId, OpenFailed, OpenData
  <2>6. failed' \subseteq Ids
        BY <1>1, <1>0, <2>2 DEF ParseStore, NextId, OpenFailed, OpenData
  <2>8. \A q \in Types : q \in DataProtocols \cup BlobOnly \cup {"elasticsearch", "redis"}
                         => q \in Backend
        BY DEF Types, Backend, DataProtocols, Embedded, BlobOnly
  <2>9. /\ stores' \in [Ids -> Backend] /\ fts' \in [Ids -> Backend]
        /\ blobs' \in [Ids -> Backend] /\ lookups' \in [Ids -> Backend]
        BY <1>1, <1>0, <2>2, <2>8 DEF ParseStore, NextId, OpenFailed, OpenData
  <2>4. i' \in 1..(N + 1) BY <2>2, <2>3, StoreConfigAssumption DEF Ids
  <2>5. QED BY <1>0, <2>3, <2>4, <2>6, <2>9, TypeOKPrimed
<1>2. CASE EndStores
      BY <1>2, <1>0, TypeOKPrimed DEF EndStores
<1>3. CASE \E x \in Ids : SqlQueries(x)
      BY <1>3, <1>0, TypeOKPrimed DEF SqlQueries
<1>4. CASE PurgeSchedules
  <2>1. DataSchedules \subseteq Schedule /\ LookupSchedules \subseteq Schedule
        BY <1>0 DEF DataSchedules, LookupSchedules, Schedule
  <2>2. QED BY <1>4, <2>1, <1>0, TypeOKPrimed DEF PurgeSchedules
<1>5. CASE Reload
  <2>1. is_reload' \in BOOLEAN BY <1>5 DEF Reload
  <2>2. reloads' \in 0..MaxReloads /\ i' \in 1..(N + 1)
        BY <1>5, <1>0, StoreConfigAssumption DEF Reload, Ids
  <2>3. QED BY <1>5, <2>1, <2>2, <1>0, TypeOKPrimed DEF Reload
<1>6. CASE UNCHANGED vars
      BY <1>6, <1>0, TypeOKPrimed DEF vars
<1>7. QED BY <1>1, <1>2, <1>3, <1>4, <1>5, <1>6 DEF Next


\* In the first parse (is_reload FALSE) the loop sets the entries at id i
\* of exactly the maps of cfg_type[i]'s branch, unless the open fails.
LEMMA ParseStoreEntry ==
    ASSUME TypeOK, ParseStore, ~is_reload, i \notin failed,
           stores[i] = "absent", fts[i] = "absent", blobs[i] = "absent",
           lookups[i] = "absent"
    PROVE  LET Ent(m, P) == m'[i] = IF cfg_type[i] \in P /\ i \notin failed'
                                    THEN cfg_type[i] ELSE "absent"
           IN  /\ Ent(stores, DataProtocols)
               /\ Ent(fts, DataProtocols \cup {"elasticsearch"})
               /\ Ent(blobs, DataProtocols \cup BlobOnly)
               /\ Ent(lookups, DataProtocols \cup {"redis"})
               /\ failed' \in {failed, failed \cup {i}}
               /\ \A x \in Ids \ {i} : /\ stores'[x] = stores[x]
                                       /\ fts'[x] = fts[x]
                                       /\ blobs'[x] = blobs[x]
                                       /\ lookups'[x] = lookups[x]
<1> DEFINE p == cfg_type[i]
<1>1. i \in Ids /\ stores \in [Ids -> Backend] /\ fts \in [Ids -> Backend]
      /\ blobs \in [Ids -> Backend] /\ lookups \in [Ids -> Backend]
      BY MapsTyped DEF ParseStore, InStores, Ids
<1>2. ~AlreadyOpen(p) BY DEF AlreadyOpen
<1>3. CASE p \notin DataProtocols \cup BlobOnly \cup {"elasticsearch", "redis"}
  <2>1. NextId BY <1>3 DEF ParseStore, DataProtocols, Embedded, BlobOnly
  <2>2. QED BY <1>1, <1>3, <2>1 DEF NextId
<1>4. CASE p \in DataProtocols
  <2>1. OpenData(p) \/ OpenFailed
        BY <1>2, <1>4 DEF ParseStore, DataProtocols, Embedded, BlobOnly
  <2>2. CASE OpenData(p) BY <1>1, <1>4, <2>2 DEF OpenData, DataProtocols, Embedded
  <2>3. CASE OpenFailed BY <1>1, <1>4, <2>3 DEF OpenFailed
  <2>4. QED BY <2>1, <2>2, <2>3
<1>5. CASE p \in BlobOnly
  <2>1. \/ /\ i' = i + 1 /\ blobs' = [blobs EXCEPT ![i] = p]
           /\ UNCHANGED <<stores, fts, lookups, failed>>
        \/ OpenFailed
        BY <1>5 DEF ParseStore, DataProtocols, Embedded, BlobOnly
  <2>2. QED BY <1>1, <1>5, <2>1 DEF OpenFailed, DataProtocols, Embedded, BlobOnly
<1>6. CASE p = "elasticsearch"
  <2>1. \/ /\ i' = i + 1 /\ fts' = [fts EXCEPT ![i] = p]
           /\ UNCHANGED <<stores, blobs, lookups, failed>>
        \/ OpenFailed
        BY <1>6 DEF ParseStore, DataProtocols, Embedded, BlobOnly
  <2>2. QED BY <1>1, <1>6, <2>1 DEF OpenFailed, DataProtocols, Embedded, BlobOnly
<1>7. CASE p = "redis"
  <2>1. \/ /\ i' = i + 1 /\ lookups' = [lookups EXCEPT ![i] = p]
           /\ UNCHANGED <<stores, fts, blobs, failed>>
        \/ OpenFailed
        BY <1>7 DEF ParseStore, DataProtocols, Embedded, BlobOnly
  <2>2. QED BY <1>1, <1>7, <2>1 DEF OpenFailed, DataProtocols, Embedded, BlobOnly
<1>8. QED BY <1>3, <1>4, <1>5, <1>6, <1>7


\* The first parse's loop keeps the maps right up to the cursor.
LEMMA ParseStoreFirstParseInv ==
    ASSUME TypeOK, GuardInv, ParseInv, ParseStore, phase = "stores"
    PROVE  ParseInv'
<1>1. /\ ~is_reload /\ MapsUpTo(i) /\ failed \subseteq {x \in Ids : x < i}
      /\ query_lookups = {} /\ schedules = {}
      BY DEF GuardInv, ParseInv
<1>0. i \in Ids
  <2>1. InStores BY DEF ParseStore
  <2>2. QED BY <2>1, MapsTyped DEF InStores, Ids
<1>2. /\ i \notin failed
      /\ stores[i] = "absent" /\ fts[i] = "absent"
      /\ blobs[i] = "absent" /\ lookups[i] = "absent"
      BY <1>0, <1>1 DEF MapsUpTo, MapUpTo, Ids
<1>3. /\ i' = i + 1
      /\ UNCHANGED <<cfg_type, query_lookups, schedules, phase>>
      BY DEF ParseStore, NextId, OpenFailed, OpenData
<1>4. /\ stores'[i] = IF cfg_type[i] \in DataProtocols /\ i \notin failed'
                      THEN cfg_type[i] ELSE "absent"
      /\ fts'[i] = IF cfg_type[i] \in DataProtocols \cup {"elasticsearch"} /\ i \notin failed'
                   THEN cfg_type[i] ELSE "absent"
      /\ blobs'[i] = IF cfg_type[i] \in DataProtocols \cup BlobOnly /\ i \notin failed'
                     THEN cfg_type[i] ELSE "absent"
      /\ lookups'[i] = IF cfg_type[i] \in DataProtocols \cup {"redis"} /\ i \notin failed'
                       THEN cfg_type[i] ELSE "absent"
      /\ failed' \in {failed, failed \cup {i}}
      /\ \A x \in Ids \ {i} : /\ stores'[x] = stores[x]
                              /\ fts'[x] = fts[x]
                              /\ blobs'[x] = blobs[x]
                              /\ lookups'[x] = lookups[x]
      BY <1>0, <1>1, <1>2, ParseStoreEntry
<1>5. \A x \in Ids \ {i} : (x \in failed') <=> (x \in failed)
      BY <1>4
<1>6. MapsUpTo(i)'
  <2>1. MapUpTo(stores, DataProtocols, i)'
    <3>1. \A x \in Ids \ {i} : stores'[x] = stores[x] BY <1>4
    <3>2. \A x \in Ids : stores[x] = IF x < i THEN ExpectedMap(DataProtocols)[x] ELSE "absent"
          BY <1>1 DEF MapsUpTo, MapUpTo
    <3>3. \A x \in Ids : stores'[x] = IF x < i' THEN ExpectedMap(DataProtocols)'[x] ELSE "absent"
      <4> SUFFICES ASSUME NEW x \in Ids
                   PROVE  stores'[x] = IF x < i + 1 THEN ExpectedMap(DataProtocols)'[x] ELSE "absent"
          BY <1>3
      <4>1. CASE x = i BY <4>1, <1>3, <1>4, <1>0 DEF ExpectedMap, Opened, Ids
      <4>2. CASE x # i
        <5>1. ExpectedMap(DataProtocols)'[x] = ExpectedMap(DataProtocols)[x]
              BY <4>2, <1>3, <1>5 DEF ExpectedMap, Opened
        <5>2. (x < i + 1) <=> (x < i) BY <4>2, <1>0 DEF Ids
        <5>3. QED BY <3>1, <3>2, <4>2, <5>1, <5>2
      <4>3. QED BY <4>1, <4>2
    <3>4. QED BY <3>3 DEF MapUpTo
  <2>2. MapUpTo(fts, DataProtocols \cup {"elasticsearch"}, i)'
    <3>1. \A x \in Ids \ {i} : fts'[x] = fts[x] BY <1>4
    <3>2. \A x \in Ids : fts[x] = IF x < i THEN ExpectedMap(DataProtocols \cup {"elasticsearch"})[x] ELSE "absent"
          BY <1>1 DEF MapsUpTo, MapUpTo
    <3>3. \A x \in Ids : fts'[x] = IF x < i' THEN ExpectedMap(DataProtocols \cup {"elasticsearch"})'[x] ELSE "absent"
      <4> SUFFICES ASSUME NEW x \in Ids
                   PROVE  fts'[x] = IF x < i + 1 THEN ExpectedMap(DataProtocols \cup {"elasticsearch"})'[x] ELSE "absent"
          BY <1>3
      <4>1. CASE x = i BY <4>1, <1>3, <1>4, <1>0 DEF ExpectedMap, Opened, Ids
      <4>2. CASE x # i
        <5>1. ExpectedMap(DataProtocols \cup {"elasticsearch"})'[x] = ExpectedMap(DataProtocols \cup {"elasticsearch"})[x]
              BY <4>2, <1>3, <1>5 DEF ExpectedMap, Opened
        <5>2. (x < i + 1) <=> (x < i) BY <4>2, <1>0 DEF Ids
        <5>3. QED BY <3>1, <3>2, <4>2, <5>1, <5>2
      <4>3. QED BY <4>1, <4>2
    <3>4. QED BY <3>3 DEF MapUpTo
  <2>3. MapUpTo(blobs, DataProtocols \cup BlobOnly, i)'
    <3>1. \A x \in Ids \ {i} : blobs'[x] = blobs[x] BY <1>4
    <3>2. \A x \in Ids : blobs[x] = IF x < i THEN ExpectedMap(DataProtocols \cup BlobOnly)[x] ELSE "absent"
          BY <1>1 DEF MapsUpTo, MapUpTo
    <3>3. \A x \in Ids : blobs'[x] = IF x < i' THEN ExpectedMap(DataProtocols \cup BlobOnly)'[x] ELSE "absent"
      <4> SUFFICES ASSUME NEW x \in Ids
                   PROVE  blobs'[x] = IF x < i + 1 THEN ExpectedMap(DataProtocols \cup BlobOnly)'[x] ELSE "absent"
          BY <1>3
      <4>1. CASE x = i BY <4>1, <1>3, <1>4, <1>0 DEF ExpectedMap, Opened, Ids
      <4>2. CASE x # i
        <5>1. ExpectedMap(DataProtocols \cup BlobOnly)'[x] = ExpectedMap(DataProtocols \cup BlobOnly)[x]
              BY <4>2, <1>3, <1>5 DEF ExpectedMap, Opened
        <5>2. (x < i + 1) <=> (x < i) BY <4>2, <1>0 DEF Ids
        <5>3. QED BY <3>1, <3>2, <4>2, <5>1, <5>2
      <4>3. QED BY <4>1, <4>2
    <3>4. QED BY <3>3 DEF MapUpTo
  <2>4. MapUpTo(lookups, DataProtocols \cup {"redis"}, i)'
    <3>1. \A x \in Ids \ {i} : lookups'[x] = lookups[x] BY <1>4
    <3>2. \A x \in Ids : lookups[x] = IF x < i THEN ExpectedMap(DataProtocols \cup {"redis"})[x] ELSE "absent"
          BY <1>1 DEF MapsUpTo, MapUpTo
    <3>3. \A x \in Ids : lookups'[x] = IF x < i' THEN ExpectedMap(DataProtocols \cup {"redis"})'[x] ELSE "absent"
      <4> SUFFICES ASSUME NEW x \in Ids
                   PROVE  lookups'[x] = IF x < i + 1 THEN ExpectedMap(DataProtocols \cup {"redis"})'[x] ELSE "absent"
          BY <1>3
      <4>1. CASE x = i BY <4>1, <1>3, <1>4, <1>0 DEF ExpectedMap, Opened, Ids
      <4>2. CASE x # i
        <5>1. ExpectedMap(DataProtocols \cup {"redis"})'[x] = ExpectedMap(DataProtocols \cup {"redis"})[x]
              BY <4>2, <1>3, <1>5 DEF ExpectedMap, Opened
        <5>2. (x < i + 1) <=> (x < i) BY <4>2, <1>0 DEF Ids
        <5>3. QED BY <3>1, <3>2, <4>2, <5>1, <5>2
      <4>3. QED BY <4>1, <4>2
    <3>4. QED BY <3>3 DEF MapUpTo
  <2>5. QED BY <2>1, <2>2, <2>3, <2>4 DEF MapsUpTo
<1>7. failed' \subseteq {x \in Ids : x < i'}
      BY <1>0, <1>1, <1>3, <1>4 DEF Ids
<1>8. QED BY <1>3, <1>6, <1>7, <1>1 DEF ParseInv

\* parse_stores returns into parse_lookups, which collects exactly the SQL
\* stores that opened.
LEMMA EndStoresParseInv ==
    ASSUME TypeOK, ParseInv, EndStores
    PROVE  ParseInv'
<1>1. CASE phase = "stores"
  <2>1. /\ phase' = "lookups" /\ sql_todo' = {x \in Ids : stores[x] \in Sql}
        /\ UNCHANGED <<cfg_type, cfg_query, stores, fts, blobs, lookups,
                       query_lookups, schedules, i, failed>>
        BY <1>1 DEF EndStores
  <2>2. i = N + 1 BY <1>1, MapsTyped, StoreConfigAssumption DEF EndStores
  <2>3. MapsUpTo(N + 1) /\ query_lookups = {} /\ schedules = {}
        BY <1>1, <2>2 DEF ParseInv
  <2>4. \A x \in Ids : stores[x] = ExpectedMap(DataProtocols)[x]
        BY <2>3, StoreConfigAssumption DEF MapsUpTo, MapUpTo, Ids
  <2>5. sql_todo' = Opened(Sql)
        BY <2>1, <2>4 DEF ExpectedMap, Opened, Sql, DataProtocols, Embedded
  <2>6. MapsUpTo(N + 1)'
    <3>1. /\ cfg_type' = cfg_type /\ failed' = failed
          /\ stores' = stores /\ fts' = fts /\ blobs' = blobs /\ lookups' = lookups
          BY <2>1
    <3>2. \A P : ExpectedMap(P)' = ExpectedMap(P) BY <3>1 DEF ExpectedMap, Opened
    <3>3. QED BY <2>3, <3>1, <3>2, Zenon DEF MapsUpTo, MapUpTo
  <2>7. Opened(Sql)' = Opened(Sql) BY <2>1 DEF Opened
  <2>8. /\ sql_todo' \subseteq Opened(Sql)'
        /\ query_lookups' = (Opened(Sql)' \ sql_todo') \cap cfg_query'
        /\ schedules' = {}
        BY <2>1, <2>3, <2>5, <2>7
  <2>9. QED BY <2>1, <2>6, <2>8 DEF ParseInv
<1>2. CASE phase = "reload"
      BY <1>2 DEF EndStores, ParseInv
<1>3. QED BY <1>1, <1>2 DEF EndStores

\* parse_lookups turns one SQL store's queries into lookup stores.
LEMMA SqlQueriesParseInv ==
    ASSUME ParseInv, NEW x \in Ids, SqlQueries(x)
    PROVE  ParseInv'
<1>1. /\ phase = "lookups" /\ x \in sql_todo /\ sql_todo' = sql_todo \ {x}
      /\ query_lookups' = IF x \in cfg_query THEN query_lookups \cup {x}
                                             ELSE query_lookups
      /\ UNCHANGED <<cfg_type, cfg_query, stores, fts, blobs, lookups,
                     schedules, phase, failed>>
      BY DEF SqlQueries
<1>2. /\ sql_todo \subseteq Opened(Sql)
      /\ query_lookups = (Opened(Sql) \ sql_todo) \cap cfg_query
      /\ schedules = {} /\ MapsUpTo(N + 1)
      BY <1>1 DEF ParseInv
<1>3. MapsUpTo(N + 1)' BY <1>1, <1>2 DEF MapsUpTo, MapUpTo, ExpectedMap, Opened
<1>4. Opened(Sql)' = Opened(Sql) BY <1>1 DEF Opened
<1>5. /\ sql_todo' \subseteq Opened(Sql)'
      /\ query_lookups' = (Opened(Sql)' \ sql_todo') \cap cfg_query'
      BY <1>1, <1>2, <1>4
<1>6. QED BY <1>1, <1>2, <1>3, <1>5 DEF ParseInv


\* The purge schedules read off the maps are the ones the configuration
\* asks for: storage.data names an open data store exactly when its
\* entry in stores is set, and a lookup store is a data store exactly
\* when it opened from a data protocol.
LEMMA PurgeSchedulesParseInv ==
    ASSUME TypeOK, ParseInv, PurgeSchedules
    PROVE  ParseInv'
<1>1. /\ phase = "lookups" /\ sql_todo = {} /\ phase' = "done"
      /\ schedules' = schedules \cup DataSchedules \cup LookupSchedules
      /\ UNCHANGED <<cfg_type, cfg_query, cfg_data, cfg_blob, stores, fts,
                     blobs, lookups, query_lookups, failed>>
      BY DEF PurgeSchedules
<1>2. /\ MapsUpTo(N + 1) /\ schedules = {}
      /\ query_lookups = Opened(Sql) \cap cfg_query
      BY <1>1 DEF ParseInv
<1>3. /\ cfg_data \in Ids \cup {0} /\ cfg_blob \in Ids \cup {0}
      /\ cfg_type \in [Ids -> Types]
      BY MapsTyped
<1>4. /\ \A x \in Ids : stores[x] = ExpectedMap(DataProtocols)[x]
      /\ \A x \in Ids : blobs[x] = ExpectedMap(DataProtocols \cup BlobOnly)[x]
      /\ \A x \in Ids : lookups[x] = ExpectedMap(DataProtocols \cup {"redis"})[x]
  <2>1. \A x \in Ids : x < N + 1 BY StoreConfigAssumption DEF Ids
  <2>2. \A x \in Ids : stores[x] = ExpectedMap(DataProtocols)[x]
        BY <1>2, <2>1 DEF MapsUpTo, MapUpTo
  <2>3. \A x \in Ids : blobs[x] = ExpectedMap(DataProtocols \cup BlobOnly)[x]
        BY <1>2, <2>1 DEF MapsUpTo, MapUpTo
  <2>4. \A x \in Ids : lookups[x] = ExpectedMap(DataProtocols \cup {"redis"})[x]
        BY <1>2, <2>1 DEF MapsUpTo, MapUpTo
  <2>5. QED BY <2>2, <2>3, <2>4
<1>5. (cfg_data # 0 /\ stores[cfg_data] # "absent") <=> cfg_data \in Opened(DataProtocols)
      BY <1>3, <1>4 DEF ExpectedMap, Opened, DataProtocols, Embedded, Ids
<1>6. (cfg_blob # 0 /\ blobs[cfg_blob] # "absent")
          <=> cfg_blob \in Opened(DataProtocols \cup BlobOnly)
      BY <1>3, <1>4 DEF ExpectedMap, Opened, DataProtocols, Embedded, BlobOnly, Ids
<1>7. {y \in Ids : lookups[y] \in DataProtocols} = Opened(DataProtocols)
      BY <1>4 DEF ExpectedMap, Opened, DataProtocols, Embedded
<1>8. schedules' = ExpectedSchedules
  <2>1. DataSchedules =
            IF cfg_data \in Opened(DataProtocols)
            THEN {[kind |-> "data", id |-> cfg_data]}
                 \cup (IF cfg_blob \in Opened(DataProtocols \cup BlobOnly)
                       THEN {[kind |-> "blobs", id |-> cfg_blob]} ELSE {})
            ELSE {}
        BY <1>5, <1>6 DEF DataSchedules
  <2>2. LookupSchedules = {[kind |-> "lookup", id |-> x] : x \in Opened(DataProtocols)}
        BY <1>7 DEF LookupSchedules
  <2>3. QED BY <1>1, <1>2, <2>1, <2>2 DEF ExpectedSchedules
<1>9. ExpectedSchedules' = ExpectedSchedules /\ Opened(Sql)' = Opened(Sql)
      BY <1>1 DEF ExpectedSchedules, Opened
<1>10. MapsUpTo(N + 1)'
  <2>1. \A P : ExpectedMap(P)' = ExpectedMap(P) BY <1>1 DEF ExpectedMap, Opened
  <2>2. QED BY <1>1, <1>2, <2>1, Zenon DEF MapsUpTo, MapUpTo
<1>11. /\ query_lookups' = Opened(Sql)' \cap cfg_query'
       /\ schedules' = ExpectedSchedules'
       BY <1>1, <1>2, <1>8, <1>9
<1>12. QED BY <1>1, <1>10, <1>11 DEF ParseInv

\* The other steps leave the first parse's phases, or stay out of them.
LEMMA OtherParseInv ==
    ASSUME ParseInv,
           \/ ParseStore /\ phase = "reload"
           \/ Reload
           \/ UNCHANGED vars
    PROVE  ParseInv'
<1>1. CASE ParseStore /\ phase = "reload"
      BY <1>1 DEF ParseStore, ParseInv
<1>2. CASE Reload
      BY <1>2 DEF Reload, ParseInv
<1>3. CASE UNCHANGED vars
  <2>1. \A P : ExpectedMap(P)' = ExpectedMap(P) BY <1>3 DEF vars, ExpectedMap, Opened
  <2>2. ExpectedSchedules' = ExpectedSchedules /\ Opened(Sql)' = Opened(Sql)
        BY <1>3 DEF vars, ExpectedSchedules, Opened
  <2>3. \A k : MapsUpTo(k)' = MapsUpTo(k)
        BY <1>3, <2>1, Zenon DEF vars, MapsUpTo, MapUpTo
  <2>4. QED BY <1>3, <2>2, <2>3 DEF vars, ParseInv
<1>4. QED BY <1>1, <1>2, <1>3


LEMMA NextParseInv == TypeOK /\ GuardInv /\ ParseInv /\ [Next]_vars => ParseInv'
<1> SUFFICES ASSUME TypeOK, GuardInv, ParseInv, [Next]_vars PROVE ParseInv'
    OBVIOUS
<1>1. CASE ParseStore
  <2>1. phase \in {"stores", "reload"} BY <1>1 DEF ParseStore, InStores
  <2>2. QED BY <1>1, <2>1, ParseStoreFirstParseInv, OtherParseInv
<1>2. CASE EndStores BY <1>2, EndStoresParseInv
<1>3. CASE \E x \in Ids : SqlQueries(x) BY <1>3, SqlQueriesParseInv
<1>4. CASE PurgeSchedules BY <1>4, PurgeSchedulesParseInv
<1>5. QED BY <1>1, <1>2, <1>3, <1>4, OtherParseInv DEF Next

LEMMA InitPInv == Init => PInv
<1> SUFFICES ASSUME Init PROVE PInv OBVIOUS
<1>1. TypeOK
  <2>1. is_reload \in BOOLEAN BY Zenon DEF Init
  <2>2. \A m \in {stores, fts, blobs, lookups} : m \in [Ids -> Backend]
        BY DEF Init, Absent, Backend
  <2>3. i \in 1..(N + 1) /\ reloads \in 0..MaxReloads
        BY StoreConfigAssumption DEF Init
  <2>4. QED BY <2>1, <2>2, <2>3 DEF Init, TypeOK
<1>2. GuardInv BY InitIInv DEF IInv
<1>3. ParseInv BY DEF Init, ParseInv, MapsUpTo, MapUpTo, Absent, Ids
<1>4. QED BY <1>1, <1>2, <1>3 DEF PInv

LEMMA NextPInv == PInv /\ [Next]_vars => PInv'
<1> SUFFICES ASSUME PInv, [Next]_vars PROVE PInv' OBVIOUS
<1>1. TypeOK' BY TypeOKStep DEF PInv
<1>2. GuardInv' BY TypeOKTypeInv, NextIInv DEF PInv, IInv
<1>3. ParseInv' BY NextParseInv DEF PInv
<1>4. QED BY <1>1, <1>2, <1>3 DEF PInv

\* At the end of the first parse the maps are the expected ones.
LEMMA PInvParseMatchesConfig == PInv => ParseMatchesConfig
<1> SUFFICES ASSUME PInv, phase = "done"
             PROVE  /\ stores = ExpectedMap(DataProtocols)
                    /\ fts = ExpectedMap(DataProtocols \cup {"elasticsearch"})
                    /\ blobs = ExpectedMap(DataProtocols \cup BlobOnly)
                    /\ lookups = ExpectedMap(DataProtocols \cup {"redis"})
                    /\ query_lookups = Opened(Sql) \cap cfg_query
                    /\ schedules = ExpectedSchedules
    BY DEF ParseMatchesConfig
<1>1. /\ stores \in [Ids -> Backend] /\ fts \in [Ids -> Backend]
      /\ blobs \in [Ids -> Backend] /\ lookups \in [Ids -> Backend]
      BY MapsTyped DEF PInv
<1>2. MapsUpTo(N + 1) /\ query_lookups = Opened(Sql) \cap cfg_query
      /\ schedules = ExpectedSchedules
      BY DEF PInv, ParseInv
<1>3. \A x \in Ids : x < N + 1 BY StoreConfigAssumption DEF Ids
<1>4. stores = ExpectedMap(DataProtocols)
      BY <1>1, <1>2, <1>3 DEF MapsUpTo, MapUpTo, ExpectedMap
<1>5. fts = ExpectedMap(DataProtocols \cup {"elasticsearch"})
      BY <1>1, <1>2, <1>3 DEF MapsUpTo, MapUpTo, ExpectedMap
<1>6. blobs = ExpectedMap(DataProtocols \cup BlobOnly)
      BY <1>1, <1>2, <1>3 DEF MapsUpTo, MapUpTo, ExpectedMap
<1>7. lookups = ExpectedMap(DataProtocols \cup {"redis"})
      BY <1>1, <1>2, <1>3 DEF MapsUpTo, MapUpTo, ExpectedMap
<1>8. QED BY <1>2, <1>4, <1>5, <1>6, <1>7

\* Every variable of parse_all and of any number of reloads keeps its type:
\* the loop cursor never passes N + 1 and every map entry is a protocol.
THEOREM StoreTypesHold == Spec => []TypeOK
<1>1. Init => PInv BY InitPInv
<1>2. PInv /\ [Next]_vars => PInv' BY NextPInv
<1>3. PInv => TypeOK BY DEF PInv
<1>4. QED BY <1>1, <1>2, <1>3, PTL DEF Spec

\* For any number of store ids and any protocols, whichever opens fail,
\* parse_all ends with each opened store in exactly the maps of its
\* protocol, the SQL stores' queries as lookup stores, and the purge
\* schedules the configuration asks for.
THEOREM ParseMatchesConfigHolds == Spec => []ParseMatchesConfig
<1>1. Init => PInv BY InitPInv
<1>2. PInv /\ [Next]_vars => PInv' BY NextPInv
<1>3. PInv => ParseMatchesConfig BY PInvParseMatchesConfig
<1>4. QED BY <1>1, <1>2, <1>3, PTL DEF Spec

=============================================================================
