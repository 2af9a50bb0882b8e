# A verification project for openclaw

TLA+ modules that model the parts of openclaw whose correctness depends on
order, failure and concurrency; TLC configurations that check them on small
instances; and proofs, checked by TLAPS, of what holds for every instance.
Paths below are relative to the repository root; `appender.py`, `projector.py`
and so on are under `core/app/audit/`, the poller's files under
`core/app/ingest/`, WebAuthn's under `core/app/auth/`.

Contents: 1 the system, 2 inventory, 3 modules, 4 how the models correspond to
the code, 5 runs, 6 fairness and deadlock, 7 proofs, 8 where code and documents
disagree, 9 what is not covered, 10 plan.

## 1. The system

openclaw-core is one FastAPI process with one asyncio event loop
(`core/app/main.py`). Its purpose is an audit trail that cannot be rewritten:

    request handlers      (middleware.py) --+
    GitHub poller         (poller.py)     --+--> sign --> NATS JetStream
    hooks, git, fswatch   (hooks.py)      --+                 |
                                                          appender task
                              verify, redact, link, sign, write |
                                                                v
                                                      immudb (the ledger)
                                                                |
                                                         projector task
                                                                v
                  oc CLI, audit views, attestation <-- Postgres (projection)

Everything that writes is a coroutine that awaits a network call (NATS, immudb,
Vault, OPA, Postgres, GitHub) between any two changes of state. The processes
that run beside core are the `oc` command line, which may truncate and rebuild
the projection, the Rust file watcher, and the hook scripts.

Four places hold state that outlives a process: the JetStream streams with
their consumers, immudb, Postgres (projection tables and the `lookup` table
with the poller's checkpoints) and SQLite (users, credentials, challenges).
They are updated one after the other and never in one transaction, so that the
order of the updates carries the correctness.

## 2. Inventory

| component | state it keeps | operations | talks to | what is hard | what makes it correct |
|---|---|---|---|---|---|
| audit appender (`appender.py`) | `_chain_head`, the batch in hand | start, `_seed_chain_head`, `_run`, `_process`, stop | JetStream (pull), Vault, OPA, immudb | crash or lost reply between commit and ack; redelivery; `ack_wait` under a batch; `max_deliver`; chain head lost at restart | nothing acknowledged before it is stored or refused; a chain without cycles that forks only when something failed; nothing given up without faults |
| ledger and writer (`immudb_writer.py`) | a versioned key-value store, key = ULID | `set_envelope`, `get_latest_value` | immudb | key order is not commit order; capped scans | append-only versions |
| envelope, signer (`envelope.py`, `signer.py`) | none | build, canonical hash, sign, verify | Vault | what the hash covers; Vault down looks like a bad signature | the hash covers everything but the appender's signature |
| NATS bus (`core/app/bus/nats_client.py`, `infra/nats/streams.yaml`) | streams, durable consumers | publish, pull, ack, nak | NATS | redelivery, order, delivery counts | a published message stays open until acked or given up |
| projector (`projector.py`, `001_audit_projection.sql`) | checkpoint and three derived tables | `_cycle` | immudb, Vault, Postgres | cursor by key over a store filled in another order; rewritten entries; failed transactions; a second projector | counts agree with rows, nothing skipped, `chain_valid` right |
| rebuild command (`core/app/cli/audit_cmds.py`) | truncates the projection | `oc audit projection rebuild` | as above | runs beside core | what it reports is true |
| command line: replay, verify, summary (`audit_cmds.py`) | none | scans and folds | immudb or Postgres | agreement of three implementations of the same chain check | same verdict from each |
| redaction (`redaction.py`, `policy/redaction.rego`) | the cached policy version | keep, drop or encrypt each field | OPA, Vault | failure of either in the midst of a payload; OPA without a policy | a failure costs the field it hits and opens none |
| audit middleware (`middleware.py`) | none | two envelopes around a handler | bus | handlers that raise, failed publications | nothing runs unannounced; what the client is told is what the bus is told |
| attestation (`core/app/tasks/attestation_publisher.py`) | one file per day on GitHub | Merkle root, commit | Postgres, GitHub | publications that overlap; late rows; truncated rows; time zones | no version replaced unseen; an entry is lost from a file only by an overlap or a rebuild |
| GitHub poller (`poller.py`, `checkpoint.py`, `emit.py`) | `seen` map per endpoint | fetch, diff, emit, save, back off | GitHub, bus, Postgres | publication and checkpoint are two steps; trimming; operator resets | every change reported, repeats bounded |
| token cache, filter, worker (`github.py`, `filter.py`, `worker.py`) | a token and its expiry | mint, cache; OPA filter | GitHub, OPA | tasks that share the cache | no expired token |
| hook receiver (`hooks.py`) | session manifests | `_handle_conn`, `handle_event` | bus | manifest and event are two steps; hooks of a session race | 200 only for what was published or is dropped by policy; the manifest covers the bus |
| file watcher (`ingest/fswatch/src/main.rs`) | `pending` map | coalesce, debounce, flush | hook receiver | debounce windows that restart, rename pairs, posts that time out | the last event of a path at rest says whether it exists |
| WebAuthn, sessions (`core/app/auth/`) | users, credentials, challenges | two ceremonies, sweep, JWT | SQLite | overlapping, repeated, late and reordered requests; restarts | a challenge completes at most one ceremony, in time; counts rise; a token is of the key's owner |
| audit views, health (`core/app/views/audit.py`, `health.py`) | none | queries | Postgres | - | - |
| lifespan (`main.py`) | which tasks run | startup and shutdown order | all of the above | partial startup; no retry | - |

The rest (`agents/`, `mcp/`, `mobile/`, `notifier/`, `edge/`: placeholders;
`infra/`, `tests/`: provisioning and smoke tests; `audit/viewer`, web pages:
presentation) keeps no state that these properties depend on.
PROJECT.json lists every part with its status, and every hazard at its line.

## 3. Modules

| module | what it is |
|---|---|
| `AuditEvents` | the envelopes and their ULIDs, whose order is not the order of storage |
| `AuditLedger` | immudb: every body ever committed, the current version of each key, the capped scan |
| `JetStream` | streams with a durable pull consumer per subject (external) |
| `AuditAppender` | extends the two above with the appender's coroutine |
| `AuditPromise` | the abstract life of an envelope: idle, queued, then stored, refused or lost, and what losing or refusing a good one costs |
| `AuditLedgerProofs` | facts about the ledger that the proofs of its writer and of its reader share |
| `AuditAppenderProofs` | theorems about `AuditAppender` and, in its last part, about `AuditPipeline` |
| `AuditProjector` | the projector of core and the rebuild command over Postgres, with any writer the appender could be |
| `AuditProjectorProofs` | theorems about `AuditProjector` |
| `AuditPipeline` | composes `AuditAppender` and `AuditProjector` (an INSTANCE) in one process |
| `GhPoller` | one endpoint of the GitHub poller |
| `GhPollerProofs` | theorems about `GhPoller` |
| `FsWatch` | the file watcher's loop, with the disk and the notify crate |
| `IngestReceiver` | core's ingest socket: a coroutine per connection, the manifests, the OPA filter, publication; the hook scripts |
| `Ingest` | composes the two above: the watcher's posts are connections of the receiver |
| `IngestProofs` | theorems about `Ingest`, and so about `FsWatch` and `IngestReceiver` in it |
| `Attestation` | runs of `oc attest publish` beside a projector and a rebuild, over GitHub's file versions |
| `AttestationProofs` | theorems about `Attestation` |
| `CoreRequest` | the requests that the next three modules share |
| `WebAuthn` | both ceremonies, sessions and `/auth/me` over SQLite, with authenticators |
| `AuditMiddleware` | the middleware around any handler |
| `CoreRequests` | composes the two above: the handlers of `/auth` behind the middleware, clients, restarts |
| `CoreRequestsProofs` | theorems about `CoreRequests`, and so about `WebAuthn` and `AuditMiddleware` behind it |
| `Redaction` | `redact()` between bus and ledger, with OPA, Vault and the policy file |
| `RedactionProofs` | theorems about `Redaction` |
| `MC...` | instances for TLC |

`AuditAppender` implements `AuditPromise` by a refinement mapping (`Fate`);
`AuditPipeline` implements `AuditProjector`'s specification, so that the
environment with which the projector is checked on its own is shown to be at
least as free as the real appender.

Six groups do not share variables and are checked on their own: audit
(appender, projector, pipeline), poller, ingest, attestation, requests, and
redaction. They meet where one publishes what another reads, and the modules
state the interface: a publication is an element appended to `published` or
`bus`; the appender takes any set of envelopes from its streams, and any form a
redaction may give them (`Forms`).

## 4. How the models correspond to the code

An action ends where the code awaits something that can fail, or where the
process can die. What happens between two awaits on the one event loop is
atomic in the code and is one action here.

### AuditLedger, JetStream

`bodies` is the sequence of all versions ever committed to immudb and a body's
index stands for its canonical hash (`envelope.py:180-212`), which is taken to
be collision free: a body that is committed a second time, equal in payload and
link, keeps its index, and a different one gets a new index.
`ledger[e]` is the version stored under e's ULID and whether it carries the
appender's signature, which the hash leaves out. `Scan` is a scan limited to
`ScanLimit` keys from the first (1000 or 10000 in the code). `JetStream` keeps
for each message whether it is new, pending (delivered, open), ready for
redelivery, acked or dead, with its number of deliveries. Messages of one
subject are delivered in stream order, redeliveries at any time.

### AuditAppender

| code | model |
|---|---|
| `_chain_head` | `chain_head` |
| pull subscriptions, the loop over them | `psubs`, `turn`, `NextTurn` |
| the batch of `psub.fetch()` | `batch`, head in process |
| the envelope while `_process` works on it | `env`, `sealed` |
| `lifespan`, `start`, `_seed_chain_head`, head of `_run` | `Boot`, `BootImpaired`, `BootWithoutImmudb`, `BootWithoutJetStream`, `JetStreamWaitTimesOut` |
| `fetch()` and its timeout | `Deliver`, `FetchReturns`, `FetchTimesOut` |
| parse and `verify_envelope` | `Accept`, `Refuse`, `RefuseUnverifiable` |
| `redact`, link, `sign_envelope` | `Prepare(form)`, `PrepareUnsigned` |
| `set_envelope`: committed; raises | `Commit`; `WriteFails`, `ReplyLost` |
| `_chain_head = ...; msg.ack()` | `Acknowledge` |
| `stop()` and the death of the process | `Crash` |
| an ack that is lost, `ack_wait` | `SendAck`, `RedeliverAbandoned`, `AckWaitExpires` |

Redaction is a choice from `Forms`: the same message may be redacted in
different ways at two deliveries. Histories (`refused`, `faults`) are read by
properties and by the bounds only.

### AuditProjector

The four tables are variables named after them. A cycle is `FetchCheckpoint`,
`ScanLedger` (or `ScanNothingNew`), and the transaction `WriteRows` (rows,
conversation counts, policy rows, checkpoint) or `NothingParses`; an exception
at any await is `CycleFails`. `at["core"]` and `at["cli"]` are two such
coroutines in two processes. The rebuild is `Rebuild` (the truncation), cycles
until one processes nothing (`AfterZero`), `CountRows` and `Report`. Which
signatures Vault could not check in a batch is the parameter `doubted` of
`WriteRows`. The appender is `Appending`: any body, linked to the newest one
or to one of `Relinks`.

### AuditPipeline

`StartUp` starts both tasks, with the outcomes `lifespan` allows: without
immudb neither runs; without a pool the projector does not. `CrashOfCore`
takes both down. `Store` is the appender's commit, which the projector
notices only by scanning; every other step belongs to one task.

### GhPoller

| code | model |
|---|---|
| GitHub's entities, their `updated_at`, the sorted first page | `listed_at`, `updated_at`, `clock`, `FirstPage`; `Create`, `Update` |
| the `lookup` row of the endpoint | `lookup`; `ResetCheckpoint` is the operator's DELETE |
| `installation_token` and `_fetch` | `Fetch` |
| `load_checkpoint` and `diff`, `_trim` | `Load`, with `EventsOf`, `SeenAfter`, `Trim` |
| the loop over events, `emit_event` | `Emit`, `EmitReplyLost` |
| `save_checkpoint` | `Save`, `SaveReplyLost` |
| the two except clauses, `_next_backoff` | `RateLimited`, `StepFails` (both `Fails`) |
| `_maybe_health`, whose report the bus may refuse | `MaybeHealth`: `alarmed` when it is on the bus, `missed` counts the refusals |
| `_sleep` | `Wake`; `elapsed` is the time slept since `last_success` |
| `stop()` and the death of the process | `Crash` |

`seen` maps an entity to its mark, 0 when the key is absent: the time of its
last update, or 1 for an endpoint without `updated_field` (`"1"` in the code).
Keys are ordered by `KeyRank`, since `_trim` sorts them as strings. Time counts
only while the task sleeps, in units of the first backoff. Two changes of an
entity within GitHub's clock resolution are one change.

### FsWatch, IngestReceiver, Ingest

| code | model |
|---|---|
| `pending: HashMap<PathBuf, Pending>` | `pending`; `Pending.last` as the age of the entry |
| the notify channel | `channel`; `DiskStep` changes `disk` and sends what notify sends for it, three events for a rename |
| `recv_timeout` returns an event, or times out | `ReceiveEvent`, `ReceiveNothing` |
| `map_event`, `is_excluded`, the entry API | `map_event`, `Note`, `Coalesce` |
| the collection of `ready` paths and their flushes | `Ready`, `flush_one` |
| `post_body`, which waits for the answer for 3 s at most | `Post`; `PostReturns` at any time, `PostLingers`, `PostAbandoned` |
| `_handle_conn` up to the first await | `Connect`, with `append_manifest` |
| `should_keep`; `emit_event`'s signature and publication | `should_keep`; `PublishEvent`, `PublishFails` |
| the answer on the socket | `conns[c].answer` |
| `start`, `stop` of the receiver | `StartReceiver`, `StopReceiver` |
| the hook scripts, curl with `--max-time` | `FireHook`: nobody waits for the answer |

Each connection is a coroutine: its steps interleave with those of all others
and with the watcher's thread. The watcher has one post at a time; when it
stops waiting, the coroutine in core goes on, which is how a later event of the
same path can overtake. Time is in ticks of which the debounce window is one.
The watcher is taken to keep up with notify (`MaxBacklog`): time passes while
it waits, in `recv_timeout` or on the socket. `waited` is how long it has, and
`flushes` counts the posts of the present pass of the loop, which are made one
after the other. The time to connect and to write is left out: a post is
smaller than a socket's buffer.

### Attestation

A publisher goes through `Start` (the date), `Fetch` (the rows and the
document), `LookUp` (the file's sha), `Put`; `Fails` ends it at any of these.
A hash is the term it hashes, so that two hashes are equal only when their
terms are; `Layers` climbs the Merkle tree of `merkle_root` with `Above`. GitHub accepts a
PUT when the sha given is that of the file's present version (`Accepts`).
`Emit` gives an entry the moment at which its envelope is made, `InsertRow`
is the projector, in any order, `Truncate` the rebuild. The rows of a day are
those whose moment is `Within` it: from its midnight by UTC, and before the next.

### CoreRequest, WebAuthn, AuditMiddleware, CoreRequests

A request has a place in the middleware: `handler`, `returned`, then
`answered`, `raised` or `cut` (by the end of the process). `Ask`, `Handle` (or
`HandleFails`) and `Respond` are its three steps, since the handlers of `/auth` do not await: sqlite3 is called on
the event loop, so that one handler runs to its end. The two awaits of the
middleware are where requests interleave. `Call` is the router; `RegisterBegin`,
`RegisterComplete`, `LoginBegin`, `LoginComplete` and `Me` are the functions of
`webauthn_handlers.py` with the SQL each of them runs, the sweep included.
`expires_at` is compared as a string with `datetime('now')`, which is a
comparison of days: `Swept`, `DayOf`. An authenticator answers what it has been
asked; its answers stay in `responses` and may be sent any number of times, in
any order, to any request. `Restart` gives a new signing key and keeps SQLite.
`Earlier` is a challenge or a credential left by an earlier process.

### Redaction

| code | model |
|---|---|
| `_policy_version()` and its `lru_cache` | `cached`, read in `Begin` |
| `_query_opa`: answer; timeout, error, refusal | `QueryOpa`; `OpaUnavailable` |
| the loop over the fields | `Drop`, `Keep`, `Seal`, `VaultFails`, one field each, in order |
| `_is_high_entropy`, the telemetry subjects | `Decision`, with `HighEntropy` as a constant |
| `redaction.rego` | `classify`, `EncryptedNames`; `SecretNames` is what each version of the policy adds |
| the rest of `_process` | `Redacted`, `Store`, `StoreFails` |

## 5. Runs

| run | question | bounds |
|---|---|---|
| `appender_safety` | what acknowledgement, chain and order guarantee | 3 envelopes, 2 subjects, batches of 2, 2 deliveries, one crash, lost reply, failed write and lost ack each |
| `appender_promise` | does the appender implement `AuditPromise`, and does every envelope come to its end | the same with an unparseable and an unsigned envelope; one faulty boot, crash, lost ack, failed write and Vault outage |
| `projector_exclusive` | is each envelope processed once, in order, when a rebuild runs only while core is down | 3 envelopes, 2 of them in a conversation, one corrupt, 3 bodies, one rebuild, crash, error, Vault outage |
| `projector_beside` | what survives a rebuild beside core | the same without a crash, with a core that may not start |
| `pipeline` | the appender as the projector's environment; rows agree with the ledger; from the bus to Postgres | 2 envelopes, batches of 1, 2 deliveries, a faulty boot, a crash, a lost reply, a failed query |
| `poller` | reporting, repeats, stalls and last changes of one endpoint | 3 entities, a page of 2, 3 changes, 3 incidents out of a 429, an error, a lost reply, a crash and a reset |
| `ingest` | from a change on the disk or a hook to the bus | 3 paths (ordinary, noise by policy, excluded by the watcher), 4 hook payloads, 3 incidents out of changes, hooks and faults; window 1 tick, post timeout 3 |
| `attestation` | what a published file says and can lose | 3 entries, 2 days of 2 ticks, 2 publishers, 2 publications, host at UTC or a tick ahead, one fault or rebuild |
| `requests` | ceremonies, sessions and their envelopes | 3 requests after an earlier process, 2 of them open at once, a user, an authenticator with 2 answers, one tick that ends lifetimes and may end the day, one fault |
| `redaction` | what is stored of a payload | 3 envelopes of 4, 2 and no fields, 2 policy versions, 3 faults |
| `doc_*` | two statements of comments and documents, refuted (section 8) | as small as shows it |

Why the bounds suffice. Three envelopes whose ULIDs differ from their order of
processing are the least with which a key can be committed between two others,
a chain can have a link that is neither to the first nor to the last body, and
a batch can hold a first, a middle and a last row. Two subjects are the least
with which one can starve another; a batch of two the least in which one
message waits in hand while the other is processed. One fault of each kind lets
every pair and triple of different faults meet; for the properties of section 7
the proofs extend this to any number of faults. `ScanLimit` 2 with three
envelopes puts the ledger over the cap that seeds the chain head. For the poller, a page smaller than the number of
entities lets one leave the page and return, and three incidents let any three of the
five kinds combine in any order.

For ingest, three incidents are the least with which two events of a path and
a fault, or a change, a rename of the changed path and a restart can meet; a
post timeout longer than the window lets a path be written to again while its
first event is still being handled. Two watched paths let one become
quiet while the post of the other is slow: without its term for the posts,
`QuietIsFlushed` is violated here. That several posts of one pass add up is
left to the proof. Two publications are the least that can
overlap, and three entries the least for a Merkle tree with an odd layer below
the root. Two open requests are the least that can interleave, and three the
least for a ceremony (begin, complete) with one more request: a second begin, a
repeated answer, a `/auth/me` or an answer to the earlier process' challenge.
Four fields are the least with one before and one after each of two sealed
ones.

What the properties say. Several are conjunctions of parts that are named and
explained in the modules; the part names are given in parentheses.

- `AckedIsAccountedFor`, `AckedIsFinal`, `LossNeedsFaults`: the order of
  commit, ack and nak. An entry is never rewritten after the ack, and
  `max_deliver` is used up by faults alone.
- `ChainWellFounded`, `EachForkCostsAFault`, `OnlyRedeliveryDisturbs`
  (`IntactUnlessRedelivered`, `FirstTryOrder`): what is left of "one hash
  chain" when a crash forgets the head and a redelivery rewrites an entry.
- `PromiseKept`: an envelope's life has no other turns than those of
  `AuditPromise`; a good envelope is lost only after `max_deliver` failures and
  refused only when Vault failed. `EnvelopesEnd` (`GoodIsStored`,
  `EverythingSettles`): no subject starves, no message stays open.
- `ProjectorInv` (`TypeOK`, `ProcessedOnce`, `SkippedIsLate`, `CursorInv`),
  `ChainVerdict`, `DifferMeansCorrupt`, `EventuallyProjected`: what the
  projector achieves when it is alone.
- `DerivedTablesAgree` (`DerivedTablesCover`, `IssuesSurface`), `MatchIsTrue`:
  the part of it that survives a rebuild beside core. (Counts may then be too
  high, and `DifferMeansCorrupt` fails; section 8.)
- `RowsAreCurrent`, `NoFalseAlarm`, `GoodIsProjected`, `ProjectorSpecMet`: the
  two tasks together.
- `RememberedIsReported`: the checkpoint is never ahead of the bus.
  `RepeatsBounded` (`RepeatsArePaidFor`, `NewOnce`): how often an event can be
  repeated. `StallIsReported`: the report of a stall is on the bus within one
  sleep of the hour, and one more for each that the bus refused. `LastChangesAreReported`: the poller catches up with what is on the
  page.
- `WatcherInv` (`QuietIsFlushed`, `PairsAreOfOneRename`, `LastPostIsTrue`) and
  `CountsAddUp`: what debouncing and merging keep of a burst.
  `ReceiverInv` (`HeaderFirst`, `ManifestCoversEvents`, `AnswersAreTrue`):
  manifest, bus and answers agree. `EventsInOrder`, `LastEventIsTrue`: end to
  end, and which faults break it.
- `AttestInv` (`NothingReplacedUnseen`), `EntriesLostByOverlapOnly`: what
  GitHub's check of the sha protects and what it does not, since the rows are
  read before the sha. `RootFixesLeaves`: the repeated last hash of an odd
  layer does no harm as long as the count is published beside the root.
  `DaysAreSettled` (`OneDayEach`, `DefaultDayIsOver`): an entry made at
  midnight belongs to one day, and the day taken without `--date` is over,
  unless the host is ahead of UTC. A day given with `--date` may be going on.
- `CeremonyInv` (`ChallengeUsedOnce`, `ChallengeUsedInTime`,
  `PendingIsRecent`), `CredentialInv` (`AcceptedCountsRise`,
  `CounterNeverAhead`, `OneKeyEach`), `SessionInv` (`TokensNameOwners`,
  `SessionsAreRecent`), `RequestsInv` (`EffectsAreAnnounced`,
  `AnswersAreRecorded`).
- `RedactInv` (`FieldsAsDecided`, `BlobsMatchPlaceholders`): a failure costs the
  field it hits and no other. `OpenOnlyWithoutPolicy`: the one way to store what
  every policy would have kept back. `RedactionNeverBlocks`: OPA or Vault down
  for ever does not stop the ledger.

Each property has a mutant of a mapped definition in PROJECT.json: a change of
the kind one could make to the code, under which TLC finds the property
violated.

## 6. Fairness and deadlock

Fairness is weak fairness of the steps a running coroutine takes by itself:
the event loop runs every ready task, and every await in them has a timeout or
an answer. Further: JetStream delivers what is due (`Deliver`,
`RedeliverAbandoned`), and core is started again when it is down, which
`restart: unless-stopped` in `infra/docker-compose.openclaw.yml` provides.
Nothing is assumed of publishers, GitHub, operators, or of faults happening or
not. Nothing starts a coroutine that has ended, as in the code
(`_run` returns when there is no subscription; the 5 s wait for JetStream ends
the task): `BootImpaired` and its like are therefore outside the fairness, and
`GoodIsProjected` is stated up to `Outage`.

For ingest: the watcher's loop and the coroutines of core go on, and time
passes (`IngestFairness`); nothing is assumed of changes, hooks or restarts.
`LastEventIsTrue` is a `<>[]`: the bound on
changes brings the disk to rest, and it says that a disk at rest is told truly. For redaction: the appender
goes on, weakly for each step of a job and strongly for the choice of the next
message (a message may be open and not on offer); nothing is assumed of OPA or
Vault, whose failures are the steps `OpaUnavailable` and `VaultFails`. The
attestation's and the requests' runs have safety properties only: a process
that is run by hand, or a client, owes nobody a next step.

The runs of the appender, the pipeline and the poller switch deadlock checking
off: with everything published and settled, or at the bound on changes with the
bounded crashes used up, an ended task in a live process has nothing left to
do. That is a stop of the system as coded. So do the runs of ingest,
attestation, requests and redaction, where everything is done at the bound on
changes, publications, requests or envelopes. So does
`projector_beside`, where core may be up without its projector and the rebuild
be used up. `projector_exclusive` checks for deadlock.

## 7. Proofs

The theorems hold for every value of the constants: any number of envelopes,
entities, users, publishers, requests and faults, any page, batch, cap and
timing. What is assumed of the constants is named in the module that declares
them (`AppenderAssumption`, `ProjectorAssumption`, `PipelineAssumption`,
`PollerAssumption`, `AttestationAssumption`, `WebAuthnAssumption`, `RedactionAssumption`,
`FsWatchAssumption`, `IngestReceiverAssumption`, those of the modules they
extend): their types, that ULIDs and keys are distinct, that a day or a window is
longer than nothing, that a payload's fields come in some order, that a hook is
not called as the header of its manifest, that the envelopes of the pipeline are
finitely many (its bound on bodies counts them). TLC
evaluates them in every run. Two hypotheses go further; both are stated in the
theorems that need them and discussed below. Each inductive invariant was
checked by TLC on the run of its module before it was proved.

### The appender

`IndInv` is inductive. Its parts and why each is needed:

- `ReadyHasDeliveriesLeft`: ties a message's state to its delivery count;
  without it `dead` says nothing of failures.
- `HandInv`: a message is in hand once and open; without it an ack of one copy
  could be followed by a commit of the other, and `AckedIsFinal` fails.
- `WriteInv`: what is known at each await: the link is the chain head before
  the commit, the message is stored after it. `AckedIsAccountedFor` follows at
  `Acknowledge`.
- `BudgetInv`: every delivery but the open one has been paid for by a fault.
- `ForkInv`: forks are at most the crashes and lost replies so far, and one
  less when the appender is off the tip of the chain: the debt that the next
  commit turns into a fork. Without the second half the bound is not inductive.

From it follow `TypeCorrect`, `AckedSafe`, `ChainSafe`, `ForksArePaidFor`,
`LossIsPaidFor` and the action property `AckedFinal`.

`RedeliveryAloneDisturbs` needs `DisturbInv` on top: `FreshInv`, that what has
not been delivered, or only now and not yet written, is not in the ledger, so a
first commit overwrites nothing; `BodyInv`, that a hidden version belongs to an
envelope delivered again; `OrderInv`, that first deliveries follow the stream
and that a batch and the ledger keep their order; `StreamInv`, that a message is
in its stream once.

`AppenderKeepsPromise` is the refinement of `AuditPromise`, step by step:
`StepFate` shows for every action what it does to the fate of each envelope,
`StepCounters` what it does to the counters of failures; the theorem
puts the two together.

### Induction

Two theorems need induction over numbers (`RootsFixLeaves`,
`EveryEventIsCounted`). The library's induction theorems take a predicate as a
parameter, which tlapm 1.4.5 does not instantiate; `Induction` states the
principle for a set of naturals and follows from the library's `WFMin`. That the
recursive functions of the two (`Layers`, `MapThenSumSet` of the community
modules) satisfy their equations is proved with it as well: the functions up to
each number, or on the sets of each size, exist (`LayersFacts`, `SumsExist`).

### The pipeline

Every step of the pipeline is a step of the appender or leaves its variables
alone (`PipelineSteps`), so that the appender's two invariants hold here as
they are (`PipelineInductive`). What the proofs add relates the two tasks:

- `CurrentInv`: rows, and the batch that waits between scan and write, are of
  the current version of their entries, but for messages delivered again. The
  batch is what makes it inductive: the appender commits while the projector
  awaits Postgres, and only `FreshInv` says that this commit rewrites nothing.
  `RowsStayCurrent` follows.
- `SlotInv`: the bodies map one to one to deliveries, pairs of an envelope and a
  number up to `max_deliver`; a delivery whose message is not in the ledger yet
  has no body. So a commit always finds room under the bound `MaxBodies` with
  which the projector is checked on its own.
- `SealInv`: what is about to be written without a signature met a fault of
  Vault. `DoorInv`: both tasks are down together.

With the last three each step is one of the projector's specification, or a
stutter: `AppenderIsItsEnvironment`, a refinement by substitution, step by step
(`StepIsProjectors`). Safety of the projector proved below for every
environment therefore holds beside the appender as well, for constants that
meet `ProjectorAssumption` (positive ULIDs and a bound for each kind of fault).
The pipeline sets `BesideCore` to FALSE, so that the theorems with that
hypothesis are included. This last step is an argument about the theorems and
not one of them: tlapm 1.4.5 cannot cite a theorem of an instance.

`OnlyTroubleIsFlagged` is about the alarm `chain_valid = false` that nobody
should see without cause. `Calm` is the absence of every cause; it can only end
(`CalmBefore`). While it lasts (`CalmInv`) the chain ascends in ULIDs, what is
stored is sealed, a batch in hand has no gap between any two of its keys, and no
row is flagged: `LinkIsGood` puts the first three together at `WriteRows`, where
the row before in key order is then the one the link names.

### The projector

`BaseInv` (types, that a row is of a body of its own envelope, that a batch is
of what a scan has shown) is inductive whoever else writes, also with a rebuild
beside core. From it follow `BaseInductive`, `DerivedTablesNeverBehind` and,
with the count that the report has taken (`CountInv`), `MatchTrue`.

`NoRepeatNoGap`, `ChainVerdictTrue` and `DifferCorrupt` have the hypothesis
`~ BesideCore`: the rebuild runs only while core is stopped. Without it they are
false, which is what section 8 says of `audit_cmds.py:334` and
`docs/RUNBOOK.md:61-99`; the run `projector_exclusive` has this value, and
`projector_beside` the other. The invariant is `PassInv`:

- `OneUp`: one of the two projectors has a process.
- `NoGap`: a batch in hand lacks, up to any of its keys, only what was appended
  after the scan. This carries `SkippedIsLate` and `ProcessedOnce` over the
  awaits between scan and write.
- `CheckpointInv`, `CursorInv`: the checkpoint is at a stored key, and behind no
  row; the key before the next row is then the last row of its cycle, from which
  `ChainVerdictTrue` follows.

`DifferCorrupt` adds `RebuildInv`: while a rebuild runs the rows are what one
scan shows up to the cursor, less what does not parse. Nobody appends then, so
the count at the end lacks the corrupt entries alone.

### The poller

`PollerInv` is inductive (`PollerInductive`). `RoundInv` is the heart: from the
diff to the save, whatever the map about to be saved remembers is reported
already or is still among the events of the round. `SeenInv` says what a map
without `updated_field` holds. `StallInv` adds that a sleeping task has
reported, or is late by no more than the hour and a sleep for each report the
bus refused (`missed`): the sleep to come adds one, and the round after it
reports, or is refused once more. From it follow `RememberedSafe` and `StallsSafe`.

`RepeatsPaidFor` counts. `RepeatInv` counts an event when the diff makes it
(`Due`), not when it is published, and says that a version that has used up its
budget is `Settled`: the map that the next diff will read passes it over, or it
has left the page for good. For that the clock must be known never to go back
(`ClockInv`), and what was published never to be younger than its entity
(`AgeInv`, `PageInv`). Its hypothesis is `MaxEntities <= SEEN_CAP`, a map with
room for every entity. It cannot be dropped: with a full map the repeats have no
bound (`doc_poller_repeats`).

### Redaction

`Stored`: `StoredAsDecided` says of every entry in the ledger, and of the one in
the making, that each field is as one answer of OPA, one of Vault and its own
entropy decide (`EntryInv`), and of the loop that it is behind exactly the
fields that have their outcome (`LoopInv`). `FieldsAreAsDecided` and
`NeverOpen` follow: what the policy protects is stored open only when OPA answers
without a policy or redaction is off. An OPA or a Vault that cannot be asked
never opens it.

### Attestation

`AttestProofInv`: a version of a file replaces the one before it of the same day
(`ChainInv`), since GitHub refuses any other sha; a document in the hands of a
publisher, and each one committed, has the leaves of every version that was there
when its rows were read, less what has been truncated (`Covers`). So a version that
loses leaves must have been read before the one it replaces was committed:
`LossNeedsOverlap`. The leaves of a document are entries made within its day
(`DocInv`), and no moment is within two days (`DaysApart`): this is the first
half of `AttestedDaysAreSettled`. The second is about the default date alone;
it excepts hosts ahead of UTC, and says nothing of `--date`. `VersionsFormAChain`
is the remaining one.

`RootsFixLeaves` is about the Merkle tree, for any number of leaves. Its
invariant (`BuiltInv`) only says that every document was built from leaves by
`merkle_root`; the work is in `RootFixes`. `AboveInjective`: two layers of the
same length with the same layer above are the same; the length is needed, since
`<<a, b, b>>` and `<<a, b, b, b>>` have the same layer above. `LayerLengths`:
the lengths on the way to the root follow from the length of the leaves. So
from the root, a layer of one, equality climbs down to the leaves.

### The requests of /auth

`RequestsProofInv` has a part for each thing a handler reads from a store that
another handler, a restart or an authenticator writes:

- `ChallengeInv`: a challenge in the table has served no ceremony, and comes
  from a request whose handler has run. `ChallengesServeOnce` follows.
- `CounterInv`: no answer has a count beyond its authenticator's, and no
  accepted one is beyond the stored one.
- `KeyInv`: what the options of a registration did not exclude was enrolled
  after they were made; this is what makes two keys of one device overlap.
- `AskedInv`, `TokensInv`: every token there is names a credential and a
  ceremony that earned it, with its process and its time. `SessionsAreEarned`
  follows.
- `RecordInv`: what the bus holds of a request is determined by its progress and
  by the faults that have hit it. `RequestsAreRecorded` follows.

### Ingest

`BurstsKeepTheirOutcome` says of the watcher what a burst cannot take from it,
for any interleaving of changes, events and posts. `WatchProofInv`:

- `AgeInv`: what this iteration does not flush is younger than a window, plus
  the time the loop has waited since, plus a timeout for each post before: the
  loop waits for one answer after the other, each as long as the timeout at most
  (`WaitInv`). At the next return of `recv_timeout` the bound is checked again,
  so `QuietIsFlushed` has two windows, and a timeout for each post of the pass.
  `QuietPathsAreFlushed` states it on its own.
- `RenameInv`: the id of every pending entry and of every post is that of a
  rename with this path, of the same process; ids are not given twice.
- `ToldInv`: the last that was said of a path is what the disk is, where "last"
  is the last event in the channel that names it, else its pending entry, else
  its last post. A rename's three events make it more than bookkeeping: between
  them the channel, not the disk's history, is what counts.

`EveryEventIsCounted` has an equation as its invariant (`CountInv`): the counts
posted of a path, plus the count held, plus the notices to come of the path
alone, are its changes plus the renames the loop has seen. A rename's notice of
both paths is on neither side until it is received, and then on both. That
`CountsOf` takes the posts in an unspecified order does not matter
(`CountsAdd`).

`RecordsAgree` says what bus, manifests and answers have to do with each other.
Its invariant gives each published event the connection it is of (`OriginInv`)
and each connection of a hook a manifest line (`LinesInv`), both one to one: the
counts that `ReceiverInv` compares follow from the two maps (`Fits`).

`EventsKeepOrder`: `OrderInv` maps the published events of fswatch to its posts,
in order. It is inductive since at most one connection of fswatch is open, that
of its last post, whose event is not yet published; this is lost when fswatch stops
waiting (`PostAbandoned`) or is restarted, the two faults that `EventsInOrder`
excepts.

### Model-checked only

- Liveness (`EnvelopesEnd`, `EventuallyProjected`, `GoodIsProjected`,
  `LastChangesAreReported`, `LastEventIsTrue`, `RedactionNeverBlocks`): fairness
  and ENABLED are beyond the provers used here.

## 8. Where code and documents disagree

Shown by a run:

| run | statement | what happens |
|---|---|---|
| `doc_scan_cap` | `projector.py:124-125` pagination is needed "once a single cycle can exceed it" | beyond the cap on the whole ledger nothing new is projected |
| `doc_poller_repeats` | `docs/phases/phase-3.md:177` "one NATS event per new/changed entity" | with a full map a low-sorting key is trimmed by the poll that reports it and reported again at every poll |

Shown by a property that holds and says how far the statement goes:

- `docs/ADR/ADR-003-audit.md:86` "If immudb is down, NATS queues; the appender
  catches up", and `docs/RUNBOOK.md:179`: `max_deliver` failures (5, of 5 s
  each) give an envelope up for good (`LossNeedsFaults`, `PromiseKept`).
- `appender.py:89-90` "so the chain stays continuous across restarts": the seed
  is the greatest ULID of a capped scan, not the newest entry
  (`immudb_writer.py:112`); the chain may fork once for each crash
  (`EachForkCostsAFault`).
- `projector.py:26-28` "entries are processed exactly once": a key committed
  below the checkpoint is never projected (`SkippedIsLate`).
- `redaction.py:24` "Never fail open": when OPA answers without a policy, every
  field that does not look random is stored as it came (`OpenOnlyWithoutPolicy`).
- `checkpoint.py:3-5`: a restart resumes without re-emitting; one in the midst
  of a round repeats its events (`RepeatsArePaidFor` bounds them).

Seen while modelling:

- `appender.py:53-54` says an entry is not processed again; a lost ack writes
  it again. `appender.py:20-22` leaves bad signatures to the projector; a
  refused message is acknowledged and dropped, and the projector never sees it.
- `appender.py:125`: the wait for JetStream is 5 s, after which the task ends.
- `projector.py:20-21`: a break at the boundary of two batches is not flagged;
  `projector.py:22-23`: a batch of corrupt entries alone does not move the
  checkpoint and is scanned again at every poll.
- `audit_cmds.py:334`: a rebuild beside core can count entries twice;
  `audit_cmds.py:394` gives corrupt entries as the reason of a mismatch, which
  beside core may be a write between the two counts. `docs/RUNBOOK.md:61-99`
  calls the rebuild safe and idempotent without that condition.
- `audit_cmds.py:412-424` calls `run_until_complete` inside a running event
  loop, which raises: `oc audit verify` without `--fast` and `oc audit replay`
  end there. `_scan_all` (426-450) then looks for `.key` and `.value` in what
  `scan` returns, a dictionary.
- `ADR-003-audit.md:86` lets the originating service fail closed when NATS is
  down; `middleware.py:133-145` logs and goes on.
- `emit.py:39-41` says that a failing signature raises; `sign_envelope` returns
  an envelope with an empty one, which is published and which the appender
  refuses.
- `docs/RUNBOOK.md:199-204`: a reset that falls into a round of the poller is
  undone by its save.
- `envelope.py:75-77`, `redaction.py:73`: the version of the policy is read once
  per process and from disk; OPA decides with what it loaded. An envelope can
  name a version that did not decide.
- `webauthn_handlers.py:151` "Sweep ran, so an expired row would be gone": the
  sweep compares `T` with a space and keeps the expired rows of the day; the
  check that the comment calls defensive is the one that works
  (`ChallengeUsedInTime`).
- `sessions.py:35` calls `cid` hexadecimal; registration stores the base64url
  raw id (`router.py:148-149`).
- `attest_cmds.py:39`, `audit_cmds.py:190`: the default date is of the host's
  calendar, the rows are of UTC days (`DefaultDayIsOver`).
- `main.rs`: the ids of renames start again at `rn-1` with the process, and the
  id stays on a later event of its path that is merged with it;
  `docs/RUNBOOK.md:227` expects `created` from a touch, after which the last
  kind is `modified`.

## 9. Not covered

- Cryptography and canonical JSON: data; their outcomes are choices. Of the
  policies, `redaction.rego` and the rules of `ingest.rego` for the socket's
  events are modelled, those for GitHub's are not.
- An `ack()` or `nak()` that itself raises: the NATS client buffers while it
  reconnects.
- Stream limits: `max_age` (7 or 30 days) outlives every retry; the 60 s
  duplicate window covers publishers that retry with the same id, which none
  does.
- Clock adjustments; two cores at once (the compose file runs one).
- The token cache of `github.py`: what it does to the poller, a fetch that
  fails, is there; which of several tasks mints a token, and for how long a
  revoked one is kept, is not. Tasks that mint together cost a request.
- The readers: `oc audit summary`, `verify --fast`, the audit views, health.
  They change nothing; each is a query and a fold over its rows. `verify` and
  `replay` over immudb cannot run as coded (section 8).
- Shutdown in its order (`main.py:122-131`): the models end a process at any
  await, which includes every point at which an orderly stop can cancel a task.
- WebAuthn's own checks (origin, attestation, signature): data of the library.
- Placeholders, provisioning scripts and web pages: no state that a property is
  about.

## 10. Plan

Done: ledger, bus, appender, projector, rebuild and their composition; poller;
the watcher, receiver and their composition; attestation; the requests of
`/auth` behind the middleware; redaction; the proofs of section 7. Every safety
property that a passing run checks is stated by a theorem; liveness is left to
TLC.

To come, in this order:

1. Redaction as the `Prepare` of `AuditAppender` in place of `Forms`, so that
   `Stored` becomes a theorem of the pipeline.
2. Poller and ingest as the publishers of the appender's envelopes: a module
   that composes them, and that the appender's environment admits what they
   publish.
3. `TokenCache` in `GhPoller`.
4. The chain verification of the views and of `verify --fast` as a fold,
   compared with the projector's verdicts.
