# OpenSeaFeed in TLA+

Specifications of the processes of this repository, checked with TLC and, but
for liveness, proved with TLAPS. Every definition is a translation of code under
`src/`; `PROJECT.json` ("map") names the lines.

    tlc -workers 2 -config MCLineQueue.cfg MCLineQueue    # one model
    tlapm Worker_proofs.tla                               # one set of proofs

1. [The system](#1-the-system)
2. [The modules](#2-the-modules)
3. [What is checked](#3-what-is-checked), with bounds and fairness
4. [What is proved](#4-what-is-proved)
5. [Where the code departs from what it says](#5-where-the-code-departs-from-what-it-says)
6. [What is not modelled](#6-what-is-not-modelled)
7. [Plan](#7-plan)

## 1. The system

OpenSeaFeed collects AIS messages of ships from volunteers' receivers and
foreign feeds, and serves them live on a WebSocket stream and on a map.

    station or feed
        v
    worker ------------ reader -> LineQueue -> writer
        v  UDP, TCP, WebSocket; key checked when it connects
    ingest gateway ---- one Assembler per connection or UDP address
        v  NATS  ais.raw.*
    pipeline (x2) ----- dedupe, decode, enrich (JetStream KV)
        v  NATS  ais.decoded.<geohash>
        +--> fanout (x2) ------- WebSocket clients, seeded from the snapshotter
        +--> snapshotter ------- the live fleet, GET /snapshot
        +--> archiver ---------- ClickHouse, read by the snapshotter's warm start
                                 (a second process imports daily dumps)
    control plane ------ accounts, keys, stations, tiers (SQLite); every
                         service asks it about keys, through crates/keys

| Component | State | Operations | What is hard | What makes it correct |
|---|---|---|---|---|
| worker line queue `worker/src/queue.rs` | deque behind a mutex, semaphore | `push`, `pop`, `try_pop`, `recv_batch` | lock and semaphore are not updated together | a permit always stands for a line; the newest lines stay, in order; the writer is woken |
| worker tasks `pump.rs`, `ingest.rs`, `upstream.rs` | counters, the failed batch, both connections | read, connect, send, retry, drain, abort | abort at any await; a batch that is neither queued nor sent | lines are accounted for, keep their order; a replay ends |
| worker feeds `finland.rs`, `aisstream.rs` | a `u8` message counter | convert a frame, number it, split it | the counter wraps at 256, sequence ids at 10 | what the feed said is what the pipeline decodes |
| NMEA `crates/nmea` | partial groups and their age | `parse`, `to_sentences`, `Assembler::add` | duplicates, gaps, late parts, reused ids | a group is whole, of one message, young, and never has a hole |
| AIS codec `crates/ais` | none | encode and decode ten layouts | widths and offsets are kept in two places | decoding what was encoded gives it back |
| ingest gateway `services/ingest` | an assembler per connection; a table of them by UDP address, swept | accept, check the key, handle a line or a datagram, sweep | long connections; a sweep between two parts; UDP senders behind one address | as above, and no group is lost to a sweep |
| key validator `crates/keys` | cache of verdicts | `validate`, `fetch` | a verdict outlives what it was told; concurrent callers overwrite each other | revocation takes effect in time; rejections pass |
| pipeline `services/pipeline` | dedupe window, caches of names and positions, the KV bucket | receive, put, publish, restart | two replicas, failing writes, two clocks of the window | one copy per window; statics follow their vessel; names survive a deploy |
| archiver `services/archiver` | two buffers, counters | collect, flush, retry, give up, stop | two tables fail independently, inserts that were applied count as failed | no row vanishes; memory is bounded |
| DMA importer `services/archiver/src/dma.rs` | the record of imported days | poll, plan, delete, load, record | a crash or a late request between the steps; one bad file | a recorded day is stored once; the backlog drains |
| snapshotter `services/snapshotter` | the fleet, the ring of snapshots | consume, warm from history, prune, snapshot | history and live stream race | live wins; heard vessels stay; no ghosts |
| fanout `services/fanout`, `crates/geo` | a client's filter, its NATS subscriptions, the seed fleet | subscribe, replace, seed, forward | resubscription while messages arrive; covers that overlap | every delta asked for comes once, nothing else does |
| control plane accounts `services/control` | accounts, links, keys, stations | create and revoke keys, admin update, heartbeat | check and update under two locks; throttled timestamps | an admin remains; a link works once; the tier follows feeding |
| control plane sign-in `auth.rs` | identities of an account, state cookies | start a flow, its callback, the exchange, a link | flows, providers and links in any order; addresses that are missing or spelled otherwise | one person, one account; an answer signs in who asked |
| control plane caches `api.rs` | photo rows, the coverage grid | ask, look up, store; refresh | lookups without the lock overwrite each other; ages in unsigned numbers | an answer is recent, and about the caller's vessel |

Hazards (`PROJECT.json`, "hazards") are listed at the line where they bite.

## 2. The modules

| Module | Code | Correspondence |
|---|---|---|
| `LineQueue` | `queue.rs` | `queue` is the deque, `permits` the semaphore, `pushing` says that `push` is between its unlock and `add_permits`, `writer` is where `recv_batch` is: between "waiting" and "holding" it has been given a permit at its `await` and has not run yet ("granted"), and may be dropped there (`CancelPop`). One action per critical section or semaphore operation. |
| `DropOldest` | what `queue.rs` promises | A bounded buffer, without lock and semaphore. `LineQueue!Abstract` is the refinement mapping. |
| `Worker` | `pump.rs`, `ingest.rs`, `upstream.rs` | Extends `LineQueue`, whose actions are steps of its tasks (`vars` are the buffer's variables, `workerVars` all). `conn`, `pending`, `outgoing` are the writer's locals, `reader` is where the reader is, `main` where `pump::run` is, `stats` the counters, `wire` the network. `target` chooses a stream or UDP, `source` a replay or a live source that reconnects. |
| `Assembler` | `assembler.rs` | `pending` is the HashMap (slots, `have`, `born`), `group` the last group returned. |
| `Reassembly` | converters, network, gateway | Instantiates `Assembler`. `seq` is the converter's counter. A behaviour is of one regime: a reliable link, a lossy one, one address of the table of UDP assemblers (`seen`, `lastSweep`; `kept` is that address's assembler had it not been swept), or one message of `Uplink`. `link` is what has an id and has not arrived, in the worker's line buffer or on the network; it waits for any time. |
| `Codec` | `encode.rs`, `decode.rs`, `bits.rs` | `Encoder` is a table of widths in push order, `Decoder` one of absolute offsets: as in the source, nothing but the properties ties them together. `Push` and `Read` are the bit operations, `Encode` and `Decode` the two directions with armoring and fill bits. |
| `Uplink` | `finland.rs`, `aisstream.rs` | Extends `Reassembly` and `Codec`: `frame` is what a feed said, `ToPacket` the converters, `Chunks` the split into sentences. |
| `KeyValidator` | `crates/keys`, `internal.rs` | `cache` is the validator's, `call` the state of each `validate` between its two locks, `status` the control plane's row. |
| `Archiver` | `services/archiver` | `step` and `attempt` are where `flush` is; an insert that fails may have been applied. |
| `Archive` | what the archiver promises | A bounded archive that stores at least once. `Archiver!Abstract` is the refinement mapping. |
| `Importer` | `dma.rs` | `phase` is the request that comes next, `plan` the set of files `plan_imports` returned (it is worked off newest first), `loaded` and `recorded` are in ClickHouse, `adrift` the requests that were given up and may still be carried out. |
| `ArchiverService` | `main` of the archiver | `job`, the first argument, decides which of the two a process is. |
| `Snapshotter` | `services/snapshotter` | `vessels` is the map, `warm` the warm-start task between its queries and its locks, `published`/`stored` the stream and the archive it reads. |
| `Pipeline` | `services/pipeline` | Per replica `seen`, `lastSweep`, `names`, `lastPos` and the `task` it awaits in (of a start: before the names are read, "warming", and until the loop begins, "loading"); `kv` is the bucket. |
| `Geo` | `crates/geo` | `Encode`, `BBox`, `Cover` with its budget, on a small square world; `SoundCover` says of a box what its cover must be. |
| `Fanout` | `services/fanout` | Extends `Geo`. `phase` is where the session is, `queues` the NATS subscriptions by prefix, `opening` those being made, `fleet` the seed cache. |
| `ControlPlane` | `db.rs`, `api.rs`, `internal.rs` | `role`, `override`, `keys`, `links` are the tables, `requests` the admin updates that have been checked and not applied. |
| `SignIn` | `auth.rs`, accounts in `db.rs` | `users` is the table, `cookie` the state cookie of each browser, `callbacks` those that passed `check_state` and await the provider. |
| `PhotoCache` | `vessel_photo` | `row` is the vessel's row, `caller` where each request is between its two locks, `photos` what Wikidata has. |
| `CoverageCache` | `coverage` | `slot` is the cached grid, `request` where each request is, `holder` who holds the write lock. |
| `ControlService` | the process | Extends `ControlPlane` and instantiates the other three. |

`ArchiverService` and `ControlService` put parts of one binary side by side. A
process of the archiver has one job for its life. The parts of the control
plane share the lock on the database, which none of them holds while it waits
for anything else, and otherwise touch different rows. Their interleavings are
therefore products, and a behaviour follows one part (`job`, `part`).

`MC*.tla` give TLC its instances and symmetry. `Worker_proofs`,
`Uplink_proofs`, `KeyValidator_proofs`, `Pipeline_proofs`,
`ArchiverService_proofs`, `Snapshotter_proofs`, `ControlService_proofs` and
`Fanout_proofs` extend the module they are named after with its inductive
invariants, lemmas and theorems; the proofs about parts that share a binary are
in the module of the binary. `Worker_proofs` begins with those about
`LineQueue`, `Uplink_proofs` with those about `Reassembly`, `Fanout_proofs` with
those about `Geo`.

Some operators are marked `Mutation:`. They are the same operation with a
plausible mistake in it; no specification uses them.

Two abstractions are used throughout. Data is a number or a model value unless
a property tells values apart: a line, a row, a message is its number in the
order of its creation, so order and loss show in every state. Time is a counter
with small constants for time-to-live and timeout; a tick is any duration that
no two of the code's durations share.

## 3. What is checked

Every bound is a constant of the model. "States" are distinct ones. The type
invariants hold on the instances below; what is proved of types for all
instances is in [section 4](#4-what-is-proved).

| Run | Question | Bounds | States |
|---|---|---|---|
| `line_queue` | `PermitsMatchLines`, `HoldsNewest`, `BatchWithinBounds`, `NoLostWakeup`; refinement `ImplementsDropOldest`, with fairness | capacity 3, batches of 3 lines or 7 bytes, 8 pushes, every fourth line of 4 bytes | 550 |
| `worker` | `LinesAccountedFor`, `NoOvertaking`, `DrainLosesAtMostOneBatch`, `ReplayTerminates` | capacity 2, batches of 2, 4 lines, 1 invalid, 2 connections that fail or break; stream and UDP, replay and live source | 105 k |
| `uplink` | assembler: `CountersAgree`, `FragmentsWithinTtl`; with the sender or the table: `GroupsAreWhole`, `NothingLost`; content: `FramesSurvive` | 3 fragments, ttl 1, 7 messages (3 with losses), 3 sentences on the link, time 3, counter wraps at 5 with ids modulo 2; the table: swept every 2, addresses kept for 3, time 6, 1 id; some 1,100 frames | 172 k |
| `key_validator` | `RevocationTakesEffect`, `RejectionsAreTemporary` | 1 key, 2 callers, ttl 2, timeout 2, time 6 | 834 k |
| `archiver` | live: `NoRowVanishes`, refinement `ImplementsArchive`, `RowsSettle`; dumps: `ImportedOnce`, `BacklogDrains` | flush at 2 rows, cap 2, 4 rows, 5 failures; window of 2 days, 3 days, 2 batches a dump, 2 failed requests or crashes, any dumps unreadable | 268 k |
| `snapshotter` | `CatchesUp`, `HeardVesselsStay`, `NoGhosts`, `LiveWins` | 1 vessel, ttl 2, interval 1, ring 2, 3 messages, 1 restart, time 4 | 963 k |
| `pipeline` | `OneCopyPerWindow`, `RoutedToLastCell`, `NamesSurviveRestarts` | 2 replicas, 2 cells, 2 names, ttl 1, 3 messages, 1 restart each, time 2 | 3.6 M |
| `fanout` | `CoversAreSound`, `DeltasExactlyOnce`, `FramesMatchTheirView` | 8 x 8 world, subjects of 3 characters, budget 4 cells; covers of all 2,025 boxes; 2 boxes that overlap, buffers of 1, 2 messages, 2 subscriptions | 2.1 M |
| `control_plane` | accounts: `AdminsRemain`, `LinksWorkOnce`, `TierFollowsFeeding`; sign-in: `OneAccountPerAddress`, `IdentitiesStay`, `FlowsEndWhereTheyStart`; caches: `AnswersAreRecent`, `CoverageIsRecent`, `GridsNeverGoBack` | 2 accounts, 2 keys, 1 link, window 2, throttle 1, time 3, 2 concurrent updates; 2 browsers, 3 flows, 2 callbacks, 3 identities at 2 providers, 1 address in 2 spellings; 2 callers with 2 IMO numbers, lives of 2 and 1 days; 2 clients, ttl 2, time 5, ages modulo 16 | 543 k |

Three more runs must fail: `key_validator_outage`, `snapshotter_restart` and
`pipeline_lost_write` ([section 5](#5-where-the-code-departs-from-what-it-says)).

**Why these bounds are enough to be interesting.**

- `line_queue`: with 8 pushes the buffer of three overflows, batches close for
  each of their three reasons (lines, bytes, empty queue), and the writer
  sleeps and wakes; the proofs hold for any capacity.
- `worker`: two failures make a batch fail, be kept, and fail again; a third
  changes nothing, since `pending` is replaced by itself.
- `uplink`: ids repeat after two messages, and at once where the counter
  wraps; in the code they repeat after ten and after six, so this is harder.
  Groups of both ids are pending at once on the lossy link. In the regime "single" each field of
  each message type takes its least and greatest value, the first value that does
  not fit, and values between two units, once among empty and once among full
  neighbours: a shifted or widened field shows as a changed neighbour.
  In the regime "udp" two addresses interact only through the sweep, so one is
  followed and the others are datagrams that may cause one. Time passes while sentences wait, so a line may spend longer than the ttl in
  the worker's buffer. The ttl, the period
  and the time an address is kept are in the order of the code's 30, 60 and
  300 seconds. A sweep drops all ids of an address alike, so one is enough.
- `archiver`: the two tables fail independently, five failures exhaust the
  retries of a flush; with two faults an import is interrupted twice, at the
  same step or at two, and what was sent before may land after. Days do not
  interact except through the order of the plan, for which three are enough.
- `key_validator`: entries of different keys do not interact. Two callers are
  enough to overwrite a newer verdict with an older one.
- `snapshotter`: vessels do not interact except through the lock. Time 4 with a
  ttl of 2 lets a vessel go silent, be dropped, and come back from history.
- `pipeline`: a third replica behaves as the second does; copies of a payload
  may be heard at any time.
- `fanout`: one cover refines fully and one stays coarse, so prefixes of
  different lengths shadow each other.
  A box is a pair of corners on the grid: all of them are tried.
- `control_plane`: two admins can demote each other. Roles, links and keys do not
  depend on each other: a behaviour of the model is about one of the three, one
  of the proofs about any of them (`Concerns`).
  Three identities are two of one provider and one of the other: enough to be
  linked, and to displace one another. A photo lookup sees at most one
  midnight, so ages in days, capped where the property no longer tells them
  apart, are exact. Two requests are enough for one whose time is older than
  the entry it compares it with.

**What is assumed.** Every row of a dump is of its day, as its file name says. A
reliable link (`NothingLost`) loses nothing, and does not stall for the ttl
between two sentences of one message; between messages it stalls as it likes.
A subscription of `Fanout` is in force once it is made, although the client only
queues it for the server (`fanout/src/main.rs:289-293`); in `Pipeline` a
publish does not fail, which the client queues too, and every payload decodes
(one that does not is logged and dropped).
`ImportedOnce` does not speak of a file one of whose requests was carried out by
ClickHouse after the next poll had begun (`late`): the importer has no way to
exclude it, and without that exception the property is false. `reused` and
`displaced` are such history variables too: each names the circumstance under
which the code gives no guarantee, and the property is checked everywhere else.
Likewise `authority` leaves out of `AdminsRemain` the updates whose caller is no
longer an admin when they are applied, which are the ones that can leave none;
`started` lets `NamesSurviveRestarts` speak of what was published before the names
were read; and `presented` does not count a presentation that should have been
recorded and was not (`internal.rs:90-92` answers "valid" all the same).
`OneCopyPerWindow` and `RoutedToLastCell` are of one instance: the replicas share
neither the window nor the positions.

**What the interesting ones say.** `NoLostWakeup` and `PermitsMatchLines` are
the argument in the comment of `queue.rs` made exact: `permits` plus a push
that is about to add one, plus one the writer holds, is the length of the
queue. `DrainLosesAtMostOneBatch` gives the price of polling `is_empty`: the
poll does not see the batch the writer holds, so a drain that succeeds can
still lose it. Nor does it see a line whose permit the semaphore has handed to a
writer that has not run: if the abort comes first, the permit is given back and
that line is left in the queue. `GroupsAreWhole` holds only while no sequence id
is given out again before the ttl has passed since the last sentence that
carried it left the link; otherwise the code may join fragments of two messages. `FramesSurvive` says that every field which fits arrives, that a
field which does not fit spoils no other, and that a vessel is placed where the
frame places it or, if its position is none, nowhere. Fields of coordinates are
wider than the chart; a coordinate that does not even fit its field wraps, and
may come out as a position (a longitude of 200 does not, one of 300 does).
`NothingLost` compares the swept table with one that is never swept: although an
address may be silent for longer than it is kept, and the sweep runs on another
address's datagram, what the gateway publishes is the same.
`ImplementsArchive` says that the two buffers, whichever inserts fail, are applied
though they failed, or are retried, amount to one bounded archive
that gives up rows only for want of room, and never more than it must.
`ImportedOnce` is the claim of `dma.rs` that re-polls are idempotent.
`AnswersAreRecent` holds whatever order two lookups store in, because a row
says for which IMO it was a miss. `CoverageIsRecent` holds although an age may
be negative, thus huge: a grid is then computed again, never served too long.
`RevocationTakesEffect` bounds for how long a revoked key still opens a
connection by the cache's ttl plus one request timeout, not by the ttl alone: a
slow caller may store the acceptance it was told before the revocation. An open
connection is not ended.

**Mutations.** Every property of a passing run was seen to fail under a
plausible mistake in a mapped definition (`PROJECT.json`, "mutants").

**Deadlock.** All counters are bounded, so every model stops when they run
out; `CHECK_DEADLOCK` is FALSE for that reason. That nothing waits for ever is
the business of the liveness properties.

**Fairness.** Four specifications assume some.

- `LineQueue`: `push` and `recv_batch` run to their end once started: there is
  no await between their steps except the semaphore's own. Nothing is assumed
  of the arrival of lines.
- `Worker`: tasks of the runtime are polled when they are ready, and the
  operating system answers a connect or a send, either way. Failures are
  bounded by `MaxFailures`; a network that fails for ever is excluded by that
  bound. For `ReplayTerminates` the exclusion does not matter: the drain has a
  deadline.
- `Archiver`: the loop of `main` goes round, ticks arrive, and an insert
  returns, at the latest by its client's timeout. The arrival of rows is not
  assumed.
- `Importer`: the poll loop goes round, a request ends by its timeout, and a
  process that stopped is started again, as its deployment does. Faults are
  bounded by `MaxFaults`; that an unreadable file stays unreadable is not a
  fault, and `BacklogDrains` says what it costs. For either job one step is
  enabled at a time, so weak fairness of `Progress` is that of both.

## 4. What is proved

Every safety property of section 3, for every value of the constants that
satisfies the assumptions below: sets of any size, no bound on time, messages or
failures that the theorems depend on. Each theorem rests on an
inductive invariant. TLC checked each of those on the instance of section 3
before it was proved.

| Module | Theorem | States |
|---|---|---|
| `Worker_proofs` | `BufferTypeCorrect` | of the buffer (`LineQueue`): the type invariant |
| | `NoPanic` | `PermitsMatchLines`, and that whoever consumed a permit finds a line: the two `expect`s of `queue.rs` cannot fire |
| | `KeepsNewestInOrder` | `HoldsNewest`, and that the lines of a batch are in the order of the pushes (evictions may leave gaps) |
| | `NoLostWakeupHolds`, `BatchBounds` | `NoLostWakeup`, `BatchWithinBounds` |
| | `ImplementsDropOldestSafe` | every behaviour is one of `DropOldest` (safety) |
| | `BufferInvariance` | the worker uses its buffer as `LineQueue` specifies: its invariant holds inside |
| | `LinesAddUp`, `LinesKeepTheirOrder`, `DrainLosesOneBatch` | `LinesAccountedFor`, `NoOvertaking`, `DrainLosesAtMostOneBatch` |
| `Uplink_proofs` | `GroupsCompleteWhenWhole`, `OldFragmentsAreNotJoined` | of `Reassembly`: `CountersAgree`, `FragmentsWithinTtl` |
| | `GroupsAreOfOneMessage`, `EveryMessageArrives` | of `Reassembly`: `GroupsAreWhole`, `NothingLost` |
| | `ReassemblyOfFrames` | the same four of `Uplink` |
| | `PayloadFacts` | a payload of any length gives its bits back |
| | `Layouts`, `FieldsKept` | the encoder's and the decoder's tables agree; every field of any packet is kept if it fits |
| | `WhatIsToldIsHeard` | `FramesSurvive`, of any frame a feed may send |
| `KeyValidator_proofs` | `TypeCorrect`, `AcceptedKeysIssued` | the type invariant; an acceptance that is cached, on its way or given to a caller is of a key that was issued |
| | `RevocationBound`, `RejectionBound` | `RevocationTakesEffect`, `RejectionsAreTemporary` |
| `Pipeline_proofs` | `FirstCopyWins`, `StaticsFollowPositions`, `DeploysKeepNames` | `OneCopyPerWindow`, `RoutedToLastCell`, `NamesSurviveRestarts` |
| `ArchiverService_proofs` | `ServiceTyped`, `RowsAreKept` | the type invariants of both jobs, `NoRowVanishes` |
| | `RefinesArchive` | `ImplementsArchive`: every behaviour is one of `Archive` |
| | `DaysImportedOnce` | `ImportedOnce`, with its exception of `late` days |
| `Fanout_proofs` | `Typed`, `CoversSound` | the type invariant; `CoversAreSound`, of every box in a world of any depth |
| | `FramesMatch`, `ExactlyOnce` | `FramesMatchTheirView`, `DeltasExactlyOnce` |
| `Snapshotter_proofs` | `NoVesselDisappears`, `GhostsAreNotShown` | `HeardVesselsStay`, `NoGhosts` |
| | `FleetCatchesUp`, `LiveDataWins` | `CatchesUp`, `LiveWins` (an action property) |
| `ControlService_proofs` | `AccountsTyped`, `AnAdminRemains`, `LinksSignInOnce`, `FeedersContribute` | the type invariant of the accounts, `AdminsRemain`, `LinksWorkOnce`, `TierFollowsFeeding` |
| | `AddressesShareAccounts`, `PeopleComeBack`, `AnswersReachTheirBrowser` | `OneAccountPerAddress`, `IdentitiesStay`, `FlowsEndWhereTheyStart` |
| | `PhotosAreRecent`, `GridsAreRecent`, `GridsOnlyAdvance` | `AnswersAreRecent`, `CoverageIsRecent`, `GridsNeverGoBack` (an action property) |

### The arguments

**`LineQueue`** (`BufferInv`, `BatchInv`). `PermitsMatchLines` alone is not inductive:
that a pop leaves the queue's order alone needs `HoldsNewest`, that batches stay
in order needs to know that what is queued is newer than what was taken
(`BatchInOrder`), and that a waiting writer stays right about the queue needs
that it waits only without permits. `BatchInv` adds that while the writer holds a
permit its batch is empty or short of both bounds, which is what the test in
`recv_batch` before each `try_pop` establishes. `ImplementsDropOldestSafe` maps
`PushEvicting` and `PushBack` to puts, `PopFront` to a take, and everything
about permits to stuttering.

**`Worker`** (`WInv`, over the buffer's `BufferInv`). Every step of the worker is a
step of the buffer or leaves it alone, so what is proved of the buffer is used
as it stands. A line is in one of five places after it, of which two are empty
at any time (`OneBatch`): a batch is not received while one is sent or kept for
retry. Hence what is on the wire, in hand and in the buffer is in this order
(`SentInOrder`, `HeldInOrder`). The drain needs that after the source's end
nothing is pushed (`ReaderDone`) and that no permit comes back but by the abort:
what is left in the buffer then is at most the line of the permit the writer had
(`Drained`).

**`Reassembly`** (`RInv`). Of the assembler (`AssemblerInv`): a pending group
counts its slots, misses one, and all of its sentences came within the ttl of
its birth, although eviction is lazy. Of the ids (`OneUserPerId`): as long as
none was given to a second message within the ttl of the last sentence that
carried it, what is on the link and what is pending and not too old under one id
is of one message. Of the reliable link
(`Reliable`): what is on it and what the assembler holds is always the rest and
the beginning of the same message. Of the table (`SweepUnseen`): the assembler
that is swept and the one that never is hold the same groups, but for groups
too old to be joined; this is where `Ttl < KeepFor` is needed.

**`Uplink`** (`UInv`). `RInv`, which is proved of `RNext`: what both `Reassembly`
and `Uplink` do, a message of any size being converted. With it `Alone`: the one
message of a frame is on the link in the sentences of its content, and when the
link is empty the published group has all of them. What was sent is then what is
decoded, and the rest is about `Codec`:

- Numbers. What is pushed of a number is read back modulo its width (`TwoTo` is a
  recursive function, which is reached as those of `Geo` are).
- Payloads. The bits are cut into sixes, each six is a character that gives it
  back, and the fill bits are those dropped (`PayloadFacts`). The same lemma
  about cutting and joining serves characters and sentences.
- Layouts. Where a field begins is the sum of the widths before it. For each of
  the ten types these sums are computed and compared with the decoder's offsets,
  and the last with the length it wants; no field is read twice (`Layouts`). This
  is the one place where the proof is a computation.
- Fields. What is read at that place is what was pushed, and of each kind of
  field, integers, tenths, degrees and text, that is what was told if it fits
  (`FieldsKept`).
- Frames. What the two converters make is a packet of its type, whatever members
  are missing. Where the type is read from, the first six bits and for type 24
  two more, is itself a field that is kept, so the type is.

**`KeyValidator`** (`VInv`, `RInv`). An acceptance was true when the control
plane gave it (`ToldWhileLive`), a call ends within the timeout
(`CallsInTime`), so what it stores is at most a timeout late (`CacheBound`),
and what is served from the cache at most a ttl later (`VerdictBound`). A
rejection comes from a failure, which leaves its time in the cache, or was told
before the key existed (`ToldBeforeCreated`).

**`Pipeline`** (`PInv`). The window and the log of what was published agree:
what was handled within the ttl is remembered whenever the sweep ran
(`Remembered`), what is in hand was not published within the ttl
(`InHandIsNew`), what is remembered is a first copy (`SeenIsFirst`), and a first
copy is published, in hand, or of a life that has ended (`FirstIsPublished`). The
last position is that of the message in hand, or else the last published
(`LastCell`). A known name is in the bucket or about to be put there
(`NamesInBucket`), so whoever reads the bucket later has it (`ReadyWithName`).

**`Archiver`** (`IInv`). That a successful flush may clear the buffers needs to
know what the inserts of this attempt stored (`InsertedIsStored`), not of an
earlier one; that the counter of drops is that of the rows given up, and that
no more is given up than must be, needs that no row is buffered twice
(`BuffersApart`); that a row is collected only while there is room needs at
which length a flush starts (`RoomToCollect`), and for it that `FlushRows` is
at most `MaxBuffer + 1`. `RefinesArchive` maps an insert that is applied to
`Store`, whether or not it is said to have failed.

**`Importer`** (`ImportInv`). A request that a poll gave up may still be carried
out, but harmlessly: it is alone (`OneAdrift`), none is left while a poll works
(`NoneWhileBusy`, except what is marked `late`), a record is sent only for a day that is
complete, a delete or a batch only for one that is not recorded
(`AdriftHarmless`), and no file is imported again once it is recorded
(`PlanUnrecorded`).

**`Snapshotter`** (`SInv`). The tasks share nothing but the fleet. Until the rows
are applied no vessel's `ts` is before its position (`Warming`), which is what
makes the comparison in the warm start one of positions; a `ts` is when the
vessel was heard or what the archive had (`Stamps`); what was consumed and is
recent is in the fleet (`Consumed`); and the newest snapshot is of the fleet at
its time (`Shown`).

**`Geo`** (`Cells`, `Rounds`). What a recursive function computes is proved by
its least counterexample: `<` on the naturals is well founded, so if a round
were wrong there would be a first one, and the round before it was right
(`Induction`; that the function exists at all is `IteratesExist`). Of each
round: its cells are told apart by their prefixes (`PrefixesTell`), and each
place of the box is in exactly one of them, which is the one its hash begins
with (`OneCell`): refining replaces the one cell by the one of its children that
the next character names, and that child touches the box because the place is in
it. A round over the budget is not taken.

**`Fanout`** (`IInv`). Two prefixes of one subject are comparable and a cover
holds no two comparable ones (`OneSubscription`), while a place asked for is in
some cell of some box's cover (`Subscribed`): so a message arrives through one
subscription, or none if it was not asked for. `BuffersOK` says what is buffered:
published messages, in order, under a prefix of their subject. With
`DeltasDiffer` and `SentIsNotHeld` what was sent is not sent again;
`Complete` is the other half, that what is published after the subscriptions were
complete was sent, is buffered, was lost to a full buffer, or does not match. For
the seed, `SeedsFirst` says that no frame was sent yet under a view
that is being seeded, and `FleetOK` that the fleet's message has a position.

**`ControlService`**. A step is of one part and leaves the variables of the
others alone (`StepsOfParts`), so there is an invariant for each. `AccountsInv`:
a change of role is of another account than its caller's (`RoleChanges`), so
its caller stays an admin; a link that signed someone in is used (`LinksUsed`);
the recorded use of a key lags by at most the throttle behind the last time it
was presented and not refused a record (`UseRecorded`). `SignInInv`:
a cookie names a flow of its browser (`Cookies`); an identity is in the account
of its first sign-in and nowhere else (`Homes`), which has the address reported
then (`FirstAddresses`). `PhotoInv` follows what a lookup learnt, with its age, to the
row. `CoverageInv`: one request fetches at a time, and what it fetches is no
older than what it replaces (`Fetching`); a request's time may be before the
entry's, and its wrapped age is then more than the ttl.

### What the proofs assume

Of the constants, only what the named assumptions say. Those that are more than
a type:

| Assumption | Why the code justifies it |
|---|---|
| `FlushRows <= MaxBuffer + 1` | `FLUSH_ROWS` is 5,000, `MAX_BUFFER` 200,000 |
| `Capacity`, `MaxLines` above 0 | `QUEUE_CAPACITY` is 10,000, `MAX_BATCH_LINES` 32 |
| `CacheTtl`, `Ttl` above 0 | constants of the services |
| `Ttl < KeepFor` | 30 s and 300 s |
| `WarmTimeout < Ttl` | a query to ClickHouse is given 60 s, the ttl is 24 h |
| `NegativeTtl <= PositiveTtl`, `Throttle <= Window` | 7 and 30 days; 5 minutes and 7 days |
| `MaxNow + Ttl < Width` | times in seconds and 2^64 |
| `SubjectPrecision`, `MaxCells` above 0, `CoverPrecision <= SubjectPrecision` | 4 characters, 48 cells, 3 characters |
| the corners of `Boxes` are integers, `Position` is in the world | coordinates in units of the smallest cell; a position outside the world is dropped by `valid_position` |
| `Batches` above 0 | a dump that is loaded has rows |
| `FramesAssumption`: members have their types; a packet of aisstream has the fields of its type, and its number | serde refuses others; the number is the upstream's to give, and the worker sends it as it came |
| `MaxFragments` is 2 or more where frames are converted | the largest payload, a type 5, is 71 characters; `fragments` is a `u8` |
| "none", "nobody", "unknown" are no identity, client, name | they stand for `None` |

The assumptions `*Bounds` say that the bounds of the models are numbers.
The proofs about `Pipeline`, `Snapshotter` and `Worker` use types without the
bounds (`Typed`, `WorkerTyped`) in place of the `TypeOK` that TLC checks.

### What is only model-checked

- Every liveness property, and the fairness in `ImplementsDropOldest`: the
  prover handles neither `ENABLED` nor fairness.
- That the three runs of section 5 fail: a counterexample is its own proof.

## 5. Where the code departs from what it says

Found while modelling; the first three have a run that shows them.

- `key_validator_outage`: `crates/keys/src/lib.rs:217-218` says that a control
  plane which is down must not kill the data plane, and that unknown keys are
  rejected. A failed request stores a rejection over an expired acceptance, so
  known keys are rejected too, for a ttl at a time.
- `snapshotter_restart`: `services/snapshotter/src/main.rs:111-112` says that a
  restart does not blank the map. A static message consumed before the position
  query returns makes the vessel look fresh, and its stored position is
  skipped.
- `pipeline_lost_write`: `services/pipeline/src/main.rs:247-248` says that a lost
  write heals on the next static broadcast. The cache already has the value
  then, and the put is skipped.

Without a run of their own: a property states the condition under which all is
well, the code claims nothing, or the claim is about what is not modelled.

- Worker: the drain looks neither at the batch the writer holds nor at a permit it
  has been handed; either may be lost at the exit.
- Gateway: `services/ingest/src/main.rs:6-7` says that unauthenticated UDP is
  enabled only when `OSF_ALLOW_ANON_UDP` is 1; it is enabled when the variable
  is not set. Stations behind one address share an assembler, so fragments of
  two with the same id may be joined. A key is checked when a connection is
  made; the account page says of a revoked key that "anything using it stops
  working" (`frontend/account.html:174`), but a feed that is connected goes on.
- Importer: a poll ends at its first error, and takes the newest file first: an
  unreadable newest file keeps all older ones out until it leaves the window
  (`BacklogDrains` has it as its condition), though `dma.rs:166` says that older
  files follow. `connectors.md` says that `OSF_DMA_BACKFILL_DAYS` bounds the first
  run; it bounds every poll, and an older dump is never imported.
  A file that failed is downloaded again. An archive that ends early for
  its reader is recorded as complete.
- Reassembly: if an id returns within the ttl and fragments were lost,
  fragments of two messages can be joined. Ids repeat after ten messages of
  several sentences, so a busy feed does that; and the ttl counts from arrival:
  after an outage longer than it, lines that have waited in the worker's buffer
  arrive together, also those of two messages given one id long apart.
- Pipeline: the last position is known to the replica that handled it; a static
  handled by the other goes to the subject for unknown positions. The names are
  read first, then two more buckets for up to 10 s each before the loop begins: a
  name the other replica publishes in between is missing here until a static
  of the vessel comes to this instance.
- Control plane: the comment on `ensure_bootstrap_admin` says that the operator
  signs in first and is the admin, but the role is given only when the process
  starts. An update that was checked before its caller lost the admin role is
  still applied, and two of them can leave no admin until the next restart
  (`AdminsRemain` holds while that has not happened). A feeding key whose use
  cannot be recorded is answered as valid (`internal.rs:90-92`), and its owner
  may not get the tier.
- Sign-in: `db.rs:264-267` says that two providers with one address land on one
  account. Addresses are compared as the providers spell them, and GitHub's may
  be missing when its lookup fails: then there are two. A link's address is in
  lower case and finds no account of another spelling (`OneAccountPerAddress`
  compares what was reported). A second identity of one provider takes the
  place of the first in the account; who has the first gets a new account.
  `finish_login` clears the state cookie of another flow of the same browser,
  whose callback then fails.
- Photos: Wikidata that fails is answered as "not found", though not cached. Of
  two lookups at once the one without the IMO may store its miss over the
  other's photo, which is then looked up again by those who know the IMO.
- Coverage: the age of an entry newer than the request's own time is a negative
  number in a `u64`: it panics in a debug build and is huge in a release build.
- Fanout: the limit on cells is applied to each box, so a client with several
  boxes may have a multiple of it.
- Control plane: a feeding key is stamped when it is presented, which is when a
  connection is made. A station that stays connected for more than a week loses
  the contributor tier while it feeds.
- Codec: values wider than their field keep their low bits; text that is not
  ASCII is cut or changed byte by byte; the reserved halves of type 24 would be
  encoded again as an empty part A; the name extension of type 21 is read and
  not written. A location without `lon` or `lat` is sent as 0, 0, which is a
  position.

## 6. What is not modelled

- The command line, start-up, HTTP routing, pages: no state. A session is a
  signed cookie that only its holder keeps; logging out forgets it there.
- SQL text, the history API, the archiver's schema: read-only or external.
- The handshakes of the ingest gateway's connections. What they decide is
  `KeyValidator`'s verdict, after which a connection is one of `Reassembly`.
- The protocols of the worker's feeds (MQTT, WebSocket), and the length of a
  backoff: a connection is made, yields frames and breaks.
- The trim of pipeline caches above a million entries (what follows is what
  follows a restart without the bucket).
- NATS, JetStream, ClickHouse and SQLite are external: they are modelled by what
  the code relies on (order per subscription, an acknowledged put is stored, an
  insert that failed may have been applied, one writer at a time).
- Formatting: JSON, sentence checksums, TAG blocks; `parse` is modelled by what
  it lets through and the fields it returns.

## 7. Plan

The order is that of the data: what loses or corrupts it first.

1. Done: `LineQueue`, `DropOldest`, `Worker`; `Assembler`, `Reassembly`, `Codec`,
   `Uplink`; `KeyValidator`; `Pipeline`; `Archiver`, `Archive`, `Importer`;
   `Snapshotter`; `Geo`, `Fanout`; `ControlPlane`, `SignIn`, `PhotoCache`,
   `CoverageCache`; the proofs of section 4.
2. Next: one fleet per time as what `Snapshotter` implements, and an
   exactly-once filtered stream as what `Fanout` implements; a gateway's
   connection from its handshake on, with `KeyValidator`.
