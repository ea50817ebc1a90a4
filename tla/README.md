# TLA+ models of the smtp-server sample

This directory holds TLA+ specifications of parts of the mail server in
`src/`, the TLC configurations that model-check them, and TLAPS proofs of
their invariants.

## The system and its parts

The repository is a sample of a Rust mail server (SMTP, IMAP, JMAP). The
specification (`spec.md`) describes its feedback-reporting subsystem. That
subsystem has a Throttle Gate, an Event Router, an Aggregator, a
Scheduler/Sweeper, a Renderer and a Purge Task. Most of that subsystem's code
is not in the sample. What the sample holds, and what each part does:

| Part | Source | State and operations |
|------|--------|----------------------|
| Milter frame receiver | `smtp/src/inbound/milter/receiver.rs` | `Receiver{packet_pos, state: Len{buf, bytes_read} \| Frame{buf, frame_len}}`; `read_frame(packet)` returns `Frame`, `Incomplete` or `TooLarge`, keeping state between calls |
| SPF failure report | `smtp/src/reporting/spf.rs` | `send_spf_report`: checks the throttle for the recipient, evaluates address, name and subject, renders and queues one report |
| If-block parser | `common/src/expr/if_block.rs` | `IfBlock::try_parse`: walks the sorted keys of an `if/then/else` array with `found_if`, `found_then`, `found_else`, `last_array_pos` |
| Store configuration | `store/src/config.rs`, `common/src/config/storage.rs` | `parse_stores` opens backends (with a reload guard for embedded ones); `parse_lookups` adds query stores and the purge schedules |
| Memory directory | `directory/src/backend/memory/config.rs` | `from_config`: allocates account ids and builds the principal list, the email-to-id index and the domain set |
| Delivery manager | `jmap/src/services/delivery.rs` | one task that answers `Ingest` events in order until `Stop` |
| Japanese tokenizer | `nlp/src/tokenizers/japanese.rs` | re-segments alphabetic tokens and assigns byte offsets |
| Reporting tests | `tests/src/smtp/reporting/{dmarc,analyze}.rs` | DMARC aggregation end to end; report storage and purge |
| IMAP config, CLI groups, Postgres glue | `common/src/config/imap.rs`, `cli/src/modules/group.rs`, `store/src/backend/postgres/mod.rs` | straight-line defaults, single HTTP requests, error conversions |

How the parts interact: an MTA filter (a milter) talks to the SMTP
session over a stream of length-prefixed frames, and the receiver cuts that
stream into frames. SMTP sessions call `send_spf_report` when SPF fails.
Several sessions do this at the same time and share the throttle counters.
Configuration values such as the report address are `IfBlock`s, evaluated
per session. The store configuration decides which stores exist and the
purge schedules that run against them. The memory directory is built
from the configuration over the data store. SMTP sessions hand accepted
messages to the JMAP delivery manager over a channel. The full-text index
cuts Japanese text with the Japanese tokenizer.

## Modules

* `FrameStream`: the abstract milter stream. Bytes arrive (`Receive`). A
  complete frame at the head is delivered (`Deliver`). A head frame whose
  length is above the limit fails the stream (`Reject`). Nothing here knows
  about packets.
* `MilterReceiver`: `Receiver::read_frame` in full, one action per branch of
  the code:

  | Action | Code branch |
  |--------|-------------|
  | `EmptyPacket` | empty packet, lines 68/123-125 |
  | `LenIncomplete` | the prefix runs out of packet, lines 71-79 |
  | `LenFrame` | the prefix and the whole payload are in the packet, lines 81-86 |
  | `LenPartial` | the payload runs past the packet, lines 87-98 |
  | `LenTooLarge` | the length is over the limit, line 100 |
  | `FrameComplete` | the rest of the payload arrives, lines 104-112 |
  | `FramePartial` | the payload is still incomplete, lines 113-119 |

  The variables `state`, `packet_pos` and `packet` are the code's. `caller`
  is the client loop: it calls `read_frame` on the same packet until
  `Incomplete`, then reads the next packet (`ReadPacket`), and drops the
  connection on `TooLarge`. That loop is not in `src/`, so `ReadPacket` is
  written from the code's contract. `sent` and `frames` are history: all
  bytes read so far, and all frames returned.
  The `bytes_read` counter and the fixed 4-byte array of the Len state are
  modelled as the sequence `buf` of bytes read so far. The while loop over
  prefix bytes is modelled by what it computes: the prefix is completed from
  the packet, or every remaining byte is taken.
  `MilterReceiver` refines `FrameStream` under this mapping:
  * `in` is the bytes buffered in `state` followed by the unread rest of the
    packet. A Frame state contributes its length re-encoded as four bytes,
    then its buffer.
  * `out` is `frames`.
  * `failed` is `caller = "failed"`.
* `MC_MilterReceiver`: TLC instance. `Byte = {0, 2, 3}` and
  `max_frame_len = 2`, so a prefix spells the lengths 0, 2 (exactly the
  limit), 3 (one over it) and larger ones, all TooLarge. The bounds are
  packets of 1 to 8 bytes and a stream of at most 10 bytes. These bounds
  cover:
  * two frames in one packet (two empty frames are 8 bytes);
  * the end of one frame and the start of the next in one packet;
  * a prefix split across up to four packets;
  * a payload split across packets;
  * a frame that completes exactly at the end of a packet;
  * a length of exactly the limit, and one of the limit plus one.
* `MilterReceiverProofs`, `MilterReceiverRefinement`: TLAPS proofs (see below).
* `IfBlock`: `IfBlock::try_parse`. The input is the sorted key list
  `config.keys` gives under the prefix. Each key is abstracted to three
  things:
  * its array position, where 0 is the empty position of a key `<key>..if`;
  * its `if_key`: `if`, `then`, `else`, `other`, or `nodot` for a key with
    no `.`;
  * whether its value parses.

  `KeyLists` enumerates every such list in BTreeMap order. The variables are
  the code's locals: `found_if`, `found_then`, `found_else`,
  `last_array_pos`, the `if_then` vector and `default`. An empty string is
  0, as in the code, where `""` is both "no position yet" and the empty
  position. There is one action per branch of the loop body:

  | Action | Branch |
  |--------|--------|
  | `IfNew` | an `if` at a new position |
  | `IfSame` | a further key of the same `if` |
  | `Else` | an `else` entry |
  | `Then` | a `then` entry; includes the panic of `last_mut().unwrap()` |
  | `Other` | any other key of an array element |
  | `InvalidKey` | a key with no `.` |

  `SingleValue` is the single-expression form, and `Finish` is the checks
  after the loop. An expression is `<<i>>`, meaning "parsed from `keys[i]`".
  `ParseMatchesReference` compares the result with a declarative reading of
  the keys:
  * each array element but the last has exactly an `if` and a `then`, and
    the last has exactly an `else`;
  * the first entry of each kind counts;
  * elements with other properties only are ignored.

* `SpfReport`: `Session::send_spf_report` called by concurrent sessions.
  `pc[s]` is where session `s` is in its call. The call is cut at its
  awaits:

  | Action | Code |
  |--------|------|
  | `Call(s, r)` | a session calls `send_spf_report(r, ...)`, lines 31-37 |
  | `Throttle(s)` | `throttle_rcpt`, and the early return when it denies, lines 38-48 |
  | `Render(s)` | the three `eval_if` awaits and `write_rfc5322`, lines 50-106 |
  | `Send(s)` | the awaited `send_report`, which queues `ReportOf(s)`, lines 108-118 |
  | `Tick` | the throttle window elapses |

  `throttle_rcpt` is not under `src/`. It is written from the spec's
  Throttle Gate:
  * `counter[<<r, w>>]` counts the attempts for recipient `r` in window `w`;
  * the store increments it atomically on every attempt (`CounterIncr`);
  * the attempt is allowed when the count it reaches is at most `Rate`
    (`RateAllowed`).

  A window's rows expire by being left behind once `Tick` moves on. A
  report is abstracted to its session, call number, recipient and the
  window of its throttle check. `write_rfc5322` writes into a `Vec`, which
  cannot fail, so rendering has no error branch.
* `MC_SpfReport`: two sessions, two recipients, `Rate = 1`, two windows,
  two calls per session. Both sessions can call for the same recipient in
  the same window, and a call allowed in window 0 can be sent in window 1.
* `SpfReportProofs`: TLAPS proofs (see below).

* `StoreConfig`: `Stores::parse_all` (`parse_stores`, then
  `parse_lookups`) on a fresh `Stores`, and a reload that runs
  `parse_stores` again on the same `Stores`. `cfg_type`, `cfg_query`,
  `cfg_data`, `cfg_blob` are the configuration of `N` store ids; `stores`,
  `fts`, `blobs`, `lookups` are the four maps (`"absent"` for no entry);
  `query_lookups` and `schedules` are the rest of `Stores`. Each open is a
  backend that succeeds or fails, and `failed` holds the ids whose open
  failed.

  | Action | Code |
  |--------|------|
  | `ParseStore` | one id of the `parse_stores` loop: unknown or `none` protocol, the reload guard that skips an embedded store (`AlreadyOpen`), and each protocol's open succeeding (`OpenData`) or failing (`OpenFailed`), lines 74-227 |
  | `EndStores` | the end of the loop; `parse_all` goes on to `parse_lookups` |
  | `SqlQueries(x)` | the SQL query lookups of one SQL store, lines 235-270 |
  | `PurgeSchedules` | the data, blob and lookup purge schedules, lines 272-323 |
  | `Reload` | `parse_stores` called again with a new configuration |

* `MC_StoreConfig`: two ids and the protocols rocksdb, sqlite,
  postgresql, fs, elasticsearch, redis and an unknown one, with two
  reloads. Two ids can name the same embedded database, and a reload can
  switch an id between embedded databases and a second reload switch it
  back. The second reload reaches the state the guard does not remember:
  rocksdb at id 1, replaced by sqlite, is opened again by the second reload.
  No property judges that second open (see "Not modelled").
* `MemoryDirectory`: `MemoryDirectory::from_config`. The configuration
  `conf` is a sequence of principals (name, member-of groups, addresses,
  list addresses). `account_ids` and `next_id` are the data store's side of
  `get_or_create_account_id`, which is not under `src/`. It is modelled
  from its contract: an id kept per name, taken from a counter on first use.
  `k`, `g`, `id`, `member_of` are the loop's locals. `principals`,
  `emails_to_ids`, `domains` are the directory.

  | Action | Code |
  |--------|------|
  | `GetPrincipalId` | the awaited id of principal `k`, or a store error that returns `None`, lines 61-75 |
  | `GetGroupId` | the awaited id of one member-of group, or a store error, lines 77-100 |
  | `PushPrincipal` | the address, alias and list entries, the domains and the principal, lines 102-155 |
  | `Finish` | `Some(directory)`, line 158 |
  | `Retry` | the caller runs `from_config` again after `None`; the store keeps its ids |

  An address is a model value. `Lower` is its `to_lowercase`, and
  `DomainOf` its lowercased domain.
* `MC_MemoryDirectory`: names `alice` and `staff`, the addresses `a@x`
  and `A@X`, up to two principals with one group, one address and one list
  address each, and two calls. A group can name a principal before or after
  that principal is loaded, a name can be a principal twice, and a store
  error can fall between any two awaits.
* `JapaneseTokenizer`: `JapaneseTokenizer::new` and `Iterator::next`.
  `input` is what the inner tokenizer returns, `pos` its position,
  `tokens` the buffered words (`self.tokens`), `out` what `next()` has
  returned, `done` that it returned `None`. One call of `next()` is one
  step (`NextToken`), with one disjunct per way the loop ends: a buffered
  word, `None` at the end of the input, a non-alphabetic token passed
  through, and an alphabetic token cut by tinysegmenter. For the last,
  `Segment` builds the words with the `.map` closure's running `token_to`,
  and the first is returned. The inner tokenizer and tinysegmenter are not
  under `src/`. Their contract: tokens in text order, each word the bytes of
  its span, and segments that concatenate to the word. A word is its byte
  length. `Reference` is the declarative output: each alphabetic token's
  words, with offsets from prefix sums of the lengths.
* `MC_JapaneseTokenizer`: up to three inner tokens starting at offsets
  up to 5, words of 1 or 3 bytes (ASCII and a CJK character), up to two
  words per alphabetic token.
* `DeliveryManager`: `spawn_delivery_manager`. `chan` is the bounded mpsc
  channel of capacity `Cap`, `rx_open` says whether its receiver is alive,
  and `mgr` is the task (`"recv"`, the caller being delivered, `"done"`).
  `Recv` is one `recv().await` with its match: an `Ingest` starts a
  delivery. `Stop` breaks the loop, and the task's end drops the receiver
  and with it the queued events. `Deliver` is the awaited `deliver_message`
  and the `result_tx.send(...).ok()`. The senders are not under `src/` and
  are modelled from the tokio contract:
  * `StartIngest`, `SendIngest`: a session's `send(...).await`, which waits
    on a full channel and fails once the receiver is gone;
  * `StartStop`, `SendStop`: the shutdown's `Stop`;
  * `Abandon`: a session's future dropped while it sends or waits.

  `log` (every event that entered the channel) and `delivered` are history.
* `MC_DeliveryManager`: three sessions and a channel of two, so the
  channel fills with a sender waiting, and Stop can have events both ahead
  of it and behind it.

## Runs

| Run | Checks | Shows |
|-----|--------|-------|
| `milter_receiver` | `TypeOK`, `BufferBound`, `Refinement` | every split of the stream into packets decodes to exactly the abstract stream's frames; `packet_pos` never passes the packet end; a Frame buffer stays below its announced length, so `frame_len - buf.len()` never underflows |
| `if_block` | `TypeOK`, `ParseMatchesReference`, `NoSilentDrop` | every sorted list of up to 4 keys over positions {empty, 1, 2}, each value parsing or not: Some exactly for well-formed blocks, built as the reference builds them; None without an error only when there is no if/then/else key |
| `if_block_conditions` | `ParseMatchesReference` | up to 5 keys over positions 1..3 (all values parse): blocks of two conditions pair each `then` with its own `if`, in order |
| `spf_report` | `TypeOK`, `ThrottleBound` | however two sessions' throttle checks, renders and sends interleave, and however the window ticks between them, a recipient has at most `Rate` reports queued or in flight per window |
| `if_block_panic` (violation) | `NoPanic` | the single key `<key>..then` reaches `if_then.last_mut().unwrap()` with nothing pushed |
| `store_config` | `TypeOK`, `ParseMatchesConfig` | for every configuration of two ids, with every open succeeding or failing and two reloads: after `parse_all` the four maps, the query lookups and the purge schedules are exactly what the configuration names (the failed stores left out) |
| `store_config_reload` (violation) | `ReloadOpensConfigured` | a reload that switches both ids from rocksdb to sqlite opens the first and then skips the second: the guard asks whether any store exists, and the one the reload just opened counts |
| `memory_directory` | `TypeOK`, `IdsAgree` | with any store call failing and `from_config` retried, one name has one id and two names have two ids, across principals and their groups |
| `memory_directory_email` (violation) | `EmailsIndexed` | a principal configured with `A@X` lists `a@x` in its emails, but `emails_to_ids` has only `A@X` |
| `japanese_tokenizer` | `TypeOK`, `OutputMatchesReference` | for every text of up to three inner tokens, each cut into up to two words of 1 or 3 bytes, `next()` returns exactly the reference tokens, in text order, each word with the offsets of its own bytes |
| `delivery_manager` | `TypeOK`, `AcceptedBeforeStopDelivered`, `AnsweredEventually` | messages that entered the channel before Stop are all delivered and never failed; every session that sends is eventually answered, failed or gone |

`milter_receiver` has about 461,000 distinct states (under a minute) and
every action fires. Deadlock is not checked. A
connection really does stop: TooLarge ends it, and the bounded stream runs
out of packets.

The two IfBlock instances split one question. Four keys over two positions
cover every branch with values that fail to parse. Two conditions need five
keys and three positions, and that instance keeps every value parsing so the
input set stays small. Keys at the empty position are excluded from the
reference comparison. The inputs of the panic are among them, and
`if_block_panic` reports them. The others are left unchecked: some of them
return Some where the reference calls the block malformed. For example,
`<key>..if` with a value that does not parse, then `1.if`, `1.then` and
`2.else` give a block of one condition. The `if` at the empty position
only sets `found_if`, so its value is never parsed and it is dropped. Neither IfBlock run checks deadlock: the
parse returns.

`spf_report` has about 3,600 distinct states. Deadlock is not checked,
because the bounded run ends with every session idle and the last window
reached.

`store_config` has about 10 million distinct states (two minutes), and
`memory_directory` about 77,000. Neither checks deadlock,
because both end when the parse returns (and the reload budget is spent).
`delivery_manager` has about 3,200 states. It does not check deadlock:
once everyone is answered, the manager rests on an empty channel, or has
stopped.

Fairness: `WF_vars(read_frame)`. The client calls `read_frame` again after
every `Frame` while it expects a response, so a packet it holds is always
processed. `ReadPacket` has no fairness, because the MTA may send nothing
more. `SpfReport` has no fairness: its runs check safety only.
`DeliveryManager` has `WF_vars(Manager)`: the tokio runtime polls the
ready task, and `deliver_message` ends. Each send has strong fairness
(`SF_vars(SendIngest(c))`, `SF_vars(SendStop)`): a send waiting on a full
channel is enabled only while a slot is free, and another sender may take
that slot. tokio's mpsc queues waiting senders in order, so a waiting
sender is served in turn, and strong fairness stands for that. Starting a
session, abandoning one, and shutting down are not forced.

## Proofs

`MilterReceiverProofs` proves, for every byte set inside `0..255`, every
limit and every bound:

* `TypeCorrect`: `Spec => []TypeOK`.
* `BufferBounded`: `Spec => []BufferBound`.

Neither invariant is inductive by itself. The strengthening `IInv` adds two
conjuncts:

* after `Incomplete` (`caller = "read"`), `packet_pos = 0`. Without it, a
  `ReadPacket` step could bring in a shorter packet with the cursor past
  its end.
* a Len buffer never holds more than 4 bytes. It holds exactly 4 only after
  TooLarge. This keeps `HeaderNeed` a natural number.

The step proof has one case per action. Under each case, TypeOK' and
BufferBound' are proved apart. The lemmas they rest on:

* `RestFacts`, `HeaderFacts`: the lengths of the slices the code takes;
* `PrefixBytesNat`, `FromBeBytesNat`: the decoded length is a number;
* `ConcatBytes`: the length of two joined byte sequences.

`MilterReceiverRefinement` proves `ImplementsFrameStream`:
`Spec => Abs!Init /\ [][Abs!Next]_Abs!vars`. This is the safety half of
`Refinement`. The Receiver's behaviours are behaviours of `FrameStream` under
the mapping `Abs`, which sends the unread stream to `Pending \o Unread`. The
proof maps each step as follows:

* `ReadPacket` is `Receive`, and the piece is the packet.
* `LenFrame` and `FrameComplete` are `Deliver`: the frame handed out is the
  `HeadLength` bytes after the stream's first four, and the stream
  afterwards is what follows them.
* `LenTooLarge` is `Reject`.
* `EmptyPacket`, `LenIncomplete`, `LenPartial` and `FramePartial` leave the
  stream, the frames and the error unchanged. Bytes only move between the
  packet and `state`.

`IInv` is not enough for this proof. A Frame state stands for its prefix
through `ToBeBytes(frame_len)`, so the step for `LenPartial` needs
`ToBeBytes(FromBeBytes(h)) = h` for the four bytes `h` of the prefix
(`PrefixRoundTrip`). The step for `FrameComplete` needs
`FromBeBytes(ToBeBytes(frame_len)) = frame_len`. The inductive invariant
`RInv` therefore adds one conjunct to `IInv`: a Frame state's length is
`FromBeBytes` of some four bytes. TLC checked `RInv` as an invariant of
`MC_MilterReceiver`'s instance before the proof was written. The lemmas
behind it are:

* `SliceAfter`, `PrefixThrough` and `SliceOfSlice`: slices of joined and of
  sliced sequences;
* `HeadFrame` and `FrameTail`: the frame at the head of the stream, and its
  rest, after a Len state and after a Frame state;
* `CallStream` and `LenStream`: what the stream is while `read_frame` is
  due.

`SpfReportProofs` proves, for any set of sessions and recipients, any
rate and any bounds:

* `SpfTypeCorrect`: `Spec => []TypeOK`.
* `ThrottleBounded`: `Spec => []ThrottleBound`.

`ThrottleBound` is not inductive: a step that grants a report must know
the row's count. The strengthening `IInv` adds two conjuncts:

* `CallNumbered`: a started call has a call number.
* `GrantsCounted`: each row's granted reports are a finite set, no larger
  than the row's counter and no larger than `Rate`.

The Throttle case is the only one that grows a row's grants. It adds one
report, and the counter goes up by one. `RateAllowed` then bounds the new
count by `Rate`. `SubsetAddOne` bounds the cardinality of the grown set.
Every other step keeps the queued and in-flight reports together
(`GrantsKept`, `GrantsSame`), so `Send` moving a report into the queue
changes no row. Finiteness sits in the invariant itself, so no assumption
that `Session` is finite is needed.

`MemoryDirectoryProofs` proves, for every set of names and addresses and
every bound:

* `IdsAgreeHolds`: `Spec => []IdsAgree`. This holds across store failures
  and retries of `from_config`.

`IdsAgree` speaks only of the directory, and a step that records an id
must know it is the store's id for that name. The invariant `IInv` adds:

* `StoreInv`: the store's ids are below `next_id` and distinct;
* `DirectoryInv`: principal `x` of the directory is `conf[x]` with the
  store's ids for its name and its groups;
* `LoopInv`: the loop's `id` and `member_of` are the store's ids for the
  principal in progress and its first `g - 1` groups.

The facts the step cases rest on:

* `CreateAccountStore`: `get_or_create_account_id` keeps the store
  injective and changes no id it gave before;
* `GroupsKept`, `DirectoryKept`: agreement with such a store is kept;
* `PairsFromStore`: every pair in `IdPairs` is a name with its store id.

Injectivity of the store then gives `IdsAgree`. A retry empties the
directory and keeps the store, so it keeps `IInv`.

`TypeOK` of `MemoryDirectory` is only model-checked: the type of
`emails_to_ids`, which is built with `SelectSeq`, a recursive function.
Its bound on `next_id` follows from the modelled contract of
`get_or_create_account_id` (a new id only for a name without one); the
real store is not under `src/`.

`StoreConfigProofs` proves, for every number of store ids, protocols and
reloads:

* `StoreTypesHold`: `Spec => []TypeOK`;
* `ParseMatchesConfigHolds`: `Spec => []ParseMatchesConfig`. Once
  `parse_stores` and `parse_purge_schedules` are done, the four maps, the
  query lookups and the purge schedules are exactly what the configuration
  asks for.

The invariant `PInv == TypeOK /\ GuardInv /\ ParseInv` was model-checked
first (MaxReloads 1, 792k states). `GuardInv` says that the first parse
runs with `is_reload` false and that the ids from the cursor on are still
empty then, so the reload guard never skips a store in the first parse. `ParseInv` says what each phase has
built:

* while stores are parsed, each map agrees with `ExpectedMap` below `i`
  and is empty from `i` on (`MapsUpTo(i)`);
* the failed ids are below `i`;
* the SQL lookups and schedules are still empty.

During the lookups phase, the lookups are the opened SQL stores already
visited. When done, they are all of them, and the schedules are
`ExpectedSchedules`. Each phase's step gets a lemma
(`ParseStoreFirstParseInv`, `EndStoresParseInv`, `SqlQueriesParseInv`,
`PurgeSchedulesParseInv`). `TypeOKPrimed` gives the types of the primed
state from the typed step.

`DeliveryManagerProofs` proves, for every set of sessions and every
capacity:

* `TypeOKHolds`: `Spec => []TypeOK`. This includes that the channel never
  holds more than `Cap` events.
* `AcceptedBeforeStopDeliveredHolds`:
  `Spec => []AcceptedBeforeStopDelivered`. Every message that entered the
  channel before Stop is never failed, and it is delivered once the
  receiver is dropped.

The property is about the history `log`, and a step only sees the channel.
The inductive invariant `IInv` (model-checked first, 3181 states) links
the two:

* `Unique`: each event occurs in `log` at most once, because a session
  sends once and Stop is sent once;
* `NotSentYet`: a session that is idle or still sending has no event in
  `log`, nor has the Stop sender before it has sent;
* `ChannelIsSuffix`: while the receiver is alive, the channel is the
  suffix of `log` after the `Taken` events already received. Every taken
  event was an Ingest whose session is delivered or being delivered;
* `Dropped`: after the receiver is dropped, the channel is empty and the
  manager is done.

A send appends to both `log` and the channel and keeps the suffix
(`AppendKeepsSuffix`). The Stop send is then the last event, so every
earlier event is before it (`AppendBeforeStop`). A receive of Stop drops
the receiver. By `ChannelIsSuffix`, every event before that Stop was
taken, so it is delivered. `DeliveryManagerAssumption` now also says that
no session is named `"recv"` or `"done"`. The variable `mgr` holds either
a session or one of these two states, and the proof must tell them apart.
In the code the manager's state is its place in the loop, never a session.

Checked by TLC only, and why:

* **Liveness and ENABLED.** TLAPS cannot reason about these, so TLC alone
  checks:
  * the fairness in `Refinement` (`WF` of `Deliver` and `Reject`). Its
    safety half is proved; that a complete frame is eventually handed
    out needs ENABLED and is checked only by TLC;
  * `AnsweredEventually` in `DeliveryManager`.
* **Induction over data.** The library's induction theorems take an
  operator parameter, which the installed provers cannot instantiate.
  Facts about what a recursive function computes for every input
  therefore stay with TLC:
  * `TypeOK` of `MemoryDirectory`: `emails_to_ids` is built with
    `SelectSeq`;
  * `TypeOK` and `OutputMatchesReference` of `JapaneseTokenizer`. The
    token offsets come from the recursive function in `Segment`, and the
    reference is a `FlattenSeq` and `FoldLeft` over the input.
* **RECURSIVE operators.** `IfBlock` declares them (`SortedLists` and
  the reference parser), and no module that reaches one can hold a
  theorem. `TypeOK`, `ParseMatchesReference` and `NoSilentDrop` are
  therefore model-checked only.

## Findings

* `if_block.rs:194` panics for a `then` key at an empty array position (see
  `if_block_panic`). It needs a configuration key with an empty path
  segment.
* `store/config.rs:106`: the reload guard skips an embedded store whenever
  any store already exists, so a reload that switches stores to another
  embedded database opens only the first of them (`store_config_reload`).
* `memory/config.rs:110`: addresses are indexed as written while the
  principal keeps them lowercased and list addresses are indexed lowercased
  (`memory_directory_email`).

## Not modelled, and the plan

Hazards of every part are listed in `PROJECT.json` at the line where they
bite.

* The inner word tokenizer and tinysegmenter that `JapaneseTokenizer`
  wraps are not under `src/`. They are modelled only by their contract.
  A word whose bytes differ from its span (a normalised word) would shift
  the offsets, and that case is outside the contract.
* The DMARC reporting tests exercise an aggregator, sweeper and purge task
  that are not under `src/`. A spec-modelled `DmarcAggregate` is the plan.
* IMAP configuration, the CLI group commands and the Postgres glue have no
  state that changes across steps, so there is nothing to model there.
* In `StoreConfig`, what a reload should leave in the maps is not said
  anywhere in `src/`. The reload caller is not under `src/`, so only the
  guard itself is checked. A reload that re-opens a database an earlier
  reload replaced is reached, but nothing says whether readers of the old
  `Stores` may still hold it.
* In `SpfReport`, a session task dropped between the throttle check and
  the awaited `send_report` loses a report whose slot is spent. Dropping a
  session is decided outside `src/`, and nothing says a granted report
  must be queued, so no property covers it.
* In `DeliveryManager`, a session dropped while it waits still has its
  message delivered. What that session told its client is not under `src/`.
