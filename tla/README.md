# Verification of ryu-feedback-board

TLA+ models of the feedback board sidecar, the TLC runs that check them on small
instances, and TLAPS proofs of their main properties for every instance. Paths
below are relative to the repository's `src/`.

## The system

`ryu-feedback-board` is a sidecar process: an axum HTTP server on a
multi-threaded tokio runtime over one SQLite database
(`backend/src/store.rs`). Visitors of a public board post requests, vote and
comment; administrators review, patch, triage and merge requests and publish a
changelog. One `Mutex<Connection>` guards the database. A handler takes and
releases that lock several times per call, so **what happens between lock and
unlock is atomic, and between two lock sections every other handler may run**.
Some handlers use a transaction; others run autocommitted statements, and a
kill may fall between two of them.

Below the board lies a crate that keeps data sealed at rest
(`crates/core/crypto`): it seals columns of SQLite stores in place, keeps
recordings in sealed logs and files, finds and guards the master key of a data
folder, and serves sealed embeddings from memory. A second crate
(`crates/core/sidecar-runtime`) lets processes find and trust one another. These
are libraries that several processes run on the same files at once, so there
**what one file or keychain access does is atomic, and between two of them any
other process may run or this one be killed**.

| component | state | operations | talks to |
|---|---|---|---|
| public calls (`public.rs`, `store.rs`) | `request`, `request_vote`, `comment` | post, vote, comment | issuance (a vote without a cookie), settings (guest posts, moderation) |
| administration (`admin.rs`, `store.rs`) | the same tables, `release_request` | review, patch, triage, brief, merge | rows the public calls read and write |
| changelog | `release`, `release_request` | draft, publish | request status (patch), links (merge) |
| voter issuance (`voter.rs`, `store.rs`) | `voter_issuance` | claim an identity | the wall clock; vote |
| voter tokens (`voter.rs`) | `app_secret` | load or create the key, sign, verify | vote |
| settings (`store.rs`) | `workspace`, `board`, `board_status` | create and patch boards, patch workspace, restore at start; list, roadmap | every public call |
| automation runs (`store.rs`) | `automation_run` | start, report | administration |
| content sealing (`content.rs`, `content_sqlite.rs`, `plugin_keys/`) | sealed columns, `ryu_content_seal`, freed pages | check key, reset, migrate, reopen, scrub, vacuum, seal, open | the board's store; keys; other processes on the store |
| deferred compactions (`content_sqlite.rs`) | a queue, a worker thread | defer, run, maintain | content sealing |
| sealed log, sealed file (`sealed_log.rs`, `sealed_file.rs`) | files | append, sync, recover, compact, seal in place, read a range | keys |
| key custody (`custody.rs`, `lib.rs`, `app_key.rs`, `secret_file.rs`) | keychain, key files, retired set, recorded check value | resolve, adopt, retire, import | all sealing |
| process keys, standalone root (`process_keys.rs`, `plugin_keys/`) | a child's environment; root and pin files | deliver; load or create, pin | custody |
| vector index (`vector_index.rs`) | partitions in memory, a shared budget | hydrate, upsert, remove, drop, search, rank | a sealed store |
| handoff, peer proof (`sidecar-runtime`) | the handoff file; a proof cache | publish, withdraw, connect; prove, remember, send | the running sidecar |
| release scripts (`scripts/*.mjs`) | none | version arithmetic, batching | CI |

### What is hard, and what makes each part correct

* **Calls that look, let go of the lock and then write** (vote, comment, patch,
  merge, draft, publish, settings, a list put together from three reads). Correct
  when the write still holds good for the row as it is at the write, and the
  answer for the store as it was read.
* **Counters kept beside the rows they count.** `vote_count` and
  `comment_count` are changed by four calls in four different ways; the vector
  budget counts bytes of partitions that several indexes grow and evict. Correct
  when they agree with what they count.
* **Kills.** Correct when what is left is a state the program can go on from: no
  value unreadable, no key lost, no half-written file published, no plaintext left
  behind in a store that says it is clean.
* **Key changes amid everything else**: a migration under one key, killed, and
  gone on with under another.
* **Several processes on the same files without a lock**: two first starts, a
  sidecar that stops after its successor has started, a peer without a key.
* **Windows over a wall clock** that is read before the lock is taken, and proofs
  that expire while they are used.
* **Things that must happen in the end**: no column is walked for ever, no queued
  job is forgotten, a client finds the sidecar that is up.

## Modules

| module | models | notes |
|---|---|---|
| `RequestRow` | `model.rs` `Request`, `RequestPatch`; row-level effects of insert, patch, merge | pure operators |
| `BoardTables` | the tables, the calls in flight, `Init`, the frame of a handler | |
| `PublicCalls` | `create_guest_request`, `vote_request` + `vote`, `add_public_comment` | one action per lock section |
| `AdminCalls` | `review_public_comment`, `patch_request`, `apply_triage`, `link_brief`, `merge_requests`; the settings columns | |
| `ChangelogCalls` | `create_release`, `publish_release` | |
| `FeedbackBoard` | composes the three, adds `Crash`; properties | |
| `RequestLedger` | abstract specification: every call is one atomic step | |
| `VoterIssuance` | `VoterTokens::issue`, `claim_voter_issuance`, the clock | |
| `VoterTokens` | `VoterTokens::load`, `verify`, `secret_or_insert`, `vote_request`'s use of the cookie | |
| `BoardSettings` | `patch_workspace`, `patch_board`, `create_board`, `ensure_default_workspace`; posts, status patches and lists as they read them | |
| `AutomationRuns` | `create_automation_run`, `update_automation_run` | |
| `ContentEnvelope` | a stored value, `ContentCipher`, `StoreSeal`, `reseal_value` | pure operators |
| `SealedStore` | `from_connection`, `open_store`, `check_store_key`, `reset_items`, `reopen_plaintext_items`, `migrate_columns`, `run_pending_vacuum`, `finish_store`, `scrub_freelist` | one action per transaction or statement |
| `CompactionQueue` | `defer_compaction`, its worker, `run_deferred_compactions` | |
| `SealedFile` | `SealedFileWriter`, `SealedFileReader` | pure operators |
| `SealedLog` | `SealedLogWriter`, `open_log`, `compact_to_sealed_file`, `seal_file_in_place` | EXTENDS `SealedFile` |
| `KeySlots` | where a key can be: keychain, files, retired vault, record | state and operators |
| `KeyCustody` | `load_master_key_guarded`, `resolve`, `resolve_app_key`, `RetiredVault::retire`, adopt, retire, import, delivery | one action per file or keychain access |
| `StandaloneRoot` | `PluginKeys::resolve`, `load_or_create_standalone_root`, `pin_standalone_kcv` | |
| `VectorIndex`, `TopK` | `VectorIndex`, `VectorBudget`, `Partition`; `TopK` and `top_k` | |
| `Handoff`, `PeerProof` | `handoff.rs`, `peer_proof.rs` | |
| `MCFeedbackBoard`, `MCVoterIssuance`, `MCSealedStore`, `MCKeyCustody`, `MCVectorIndex`, `MCRuntime` | instances for TLC | |
| `FeedbackBoardProofs` | theorems about the board; the refinement of `RequestLedger` | |
| `VoterIssuanceProofs` | theorems about issuance | |
| `SidecarProofs` | theorems about `VoterTokens`, `BoardSettings`, `AutomationRuns`, `Handoff`, `PeerProof` | |
| `SealedStoreProofs` | theorems about `SealedStore` | |
| `KeyCustodyProofs` | theorems about `KeyCustody` | |
| `CryptoPartsProofs` | theorems about `StandaloneRoot`, `CompactionQueue`, `TopK`, `VectorIndex` | |
| `SealedLogProofs` | theorems about `SealedLog` and the operators of `SealedFile` | |
| `FoldLemmas` | what the folds of the community modules compute, by induction over sets | used by the two above |

### State and actions: the board

`BoardTables` has one variable per table or column that behaviour depends on.
`created` is the set of ids with a row; `row[r]` the columns administrators edit;
`revision`, `vote_count` and `comment_count` stand apart because calls write
them on their own. `call[h]` is the call in flight of handler `h`: `at` names
the lock section it enters next, the other fields are the Rust locals it will
still use (the `current`/`next` rows of a patch, the two vote counts a merge
read). `mergedInto`, `buried`, `uncounted`, `issued`, `latest`, `newest` and `inOrder` are history
variables: they decide nothing but the fresh id of an issuance and the bound on the lag.
`mergedInto[d]` is where the last merge sent `d`, and stays when `d` becomes the survivor of
another one; `buried[d]` is whom such a later merge brought to `d` although it was closed
(`merge_requests` does not look at its survivor), and who is therefore not with `d`'s own
survivor. `uncounted` has the requests a merge took comments from that no merge has
counted since: their `comment_count` is what it was.

Every action is one lock section: `VoteBegin` is `public_request`, `VoteIssue`
is `claim_voter_issuance`, `VoteCommit` is `Store::vote`; `PatchRead` is
`request_without_email` with the revision test, `PatchWrite` the `UPDATE ...
WHERE id AND revision`; `MergeBegin` and `MergeCheck` are the two reads before
the merge's transaction, `MergeCommit` the transaction; `DraftCheck` and
`PublishCheck` are one request each. `public_request` takes the lock three times (board, request, statuses), but
boards and statuses are never deleted and every status the code creates is
public, so only the request read matters.

`Crash` kills the process between two statements: calls in flight vanish,
transactions are all or nothing, and the two handlers that write outside one may
leave what they had committed (`TornComment`, `TornDraft`). An identity issued
for a vote may be lost with its response, so `cookies`, the identities visitors
can present, is a subset of `identities`.

`BoardSettings` is the board seen from its other side: requests have only the
columns a list asks for, but boards come and go through `create_board` row by
row, settings have revisions, and a post or list keeps what each of its reads
returned (`receipt`, `codes`) until it answers. It spells out what `AdminCalls`
does in the one step `SetPolicy`. `settled` is history: the boards whose
moderation nobody has set apart from the workspace's.

### State and actions: sealing

`SealedStore` has the cells of the sealed columns (`cell`), the two kinds of row
of `ryu_content_seal` (`item`, `record`), and `residue`: whether old plaintext is
left in the WAL, in free pages, in page fragments. `owner` is the process that
opens and serves the store, its phase and locals; it may be a board, a satellite
or Core, which differ in which steps they take and in which order (`AfterCheck`,
`AfterJob`). `peer` is a process without a key that shares a satellite's store,
`reader` a connection whose snapshot keeps the WAL from being truncated. Values
are records: a sealed value names its key and its place and opens nowhere else
(`ContentEnvelope`), so a migration that seals for the wrong row or under the
wrong key loses it, and `NothingLost` sees it. Texts are two: a plain word, and
one that looks like an envelope although somebody typed it.

`SealedLog` has a log as a sequence of frames with a tail that is clean, cut
inside a frame (`"short"`), or ended by a whole frame that does not open
(`"final"`), and how many frames are synced; a power loss keeps the synced ones
and any number of the others (`LogsLeft`). `owed` is what the caller was told is
durable. `SealedFile` has the byte arithmetic: chunks, tags, the flag on the last
chunk, and a reader that infers all of it from the length.

`KeySlots` and `KeyCustody` have one variable per place a key can be. A key
stands for its check value as well. `proc[p]` is a process on its way down the
ladder: what it read stays in its fields (`seen`, `idx`) while other processes
change the files. Nothing keeps two processes, or a process and a command, apart, since
nothing does in the code: `RESOLVE_LOCK` is a lock within one process. `locked` is what the
desktop remembers of the keychain (`ObservedKeychain`): `resolve_app_key` decides by what the
ladder found, not by what the keychain is by then. `sealed` records which key sealed which
kind of data. Two history variables name what the properties except. `mishap` becomes true when
a step goes wrong in a way that the code does not look out for: a process stores its key in
the keychain over another one it had not seen there; a command begins while Core is up or another
process resolves, a process starts under a command, or the keychain moves under one; a command
writes the key file because the keychain it had just read from refused. `stranded` has the keys of
key files when a record was written by somebody who could not tell whether they are needed: a
command, which records what it is told to, or Core without a message to try. For the desktop it is
a locked keychain's key.

`Handoff` withdraws in two steps, look and removal, and any run may publish in between:
`overtaken` has the runs that did. `PeerProof` asks, has its answer and receives it in three
steps with time between any two, within the probe's `Patience`, and a proof is stamped when
it is received, as in the code; `noted` remembers when each proof was asked for and stamped.
`VectorIndex` lets its stores change at any time, lets callers count late or never, and
records in `uncounted` which partitions have a vector that no call has counted.

### Parts that share no state

`MCRuntime` extends ten modules that have no variable in common: settings, voter
tokens, automation runs, sealed log, vectors, ranking, handoff, peer proof, standalone
root, compaction queue. A behaviour is of one of them, chosen by
`part` in the initial state, and the others stand still in their initial states,
so the run's states are the sum and not the product of the parts'. An invariant
of one part holds in the others' behaviours because it holds initially.

### Abstractions

* Statuses are `open` and `shipped`: the code compares a status with
  `"shipped"` only. A moderation state other than `approved` and `merged` counts
  as `pending`. `text` stands for the eleven free columns, which are copied
  and never compared.
* `FeedbackBoard` has the default board only; its `allow_guest_posts` and
  `moderate_public_writes` are set in one step (`SetPolicy`), which is what either
  settings call does to the columns the other calls read.
* Honeypot, length limits and unknown statuses reject a call without effect, as
  does any SQLite error; only the foreign key of `duplicate_of` and the primary
  key of `release_request` are modelled among these, since legal calls
  run into them.
* The patches enumerated never set `moderation_state` to `"merged"` (the HTTP
  patch takes any text); `BackersKept` is about merges that merge_requests made.
* A client's patch carries the current revision or the one before it: an older
  one is refused at the same place.
* Signatures, HMACs, AEADs and random names are ideal: only a holder of a key
  makes what verifies under it, and nonces, challenges and generated keys never
  repeat.
* A BLOB column of a sealed store is walked as a TEXT column is and is left out,
  and so is `min_reader`, a version number that only newer builds would raise.
* A store from before sealing has no text that looks like an envelope: `SealedStore` starts from
  plain words and puts such texts in by its own writes, which escape them. A power loss keeps the
  synced frames of a log and a beginning of the unsynced ones, not any subset of them.
* Corrupt key files, files edited by hand and hosts that forbid key files are
  left out of custody: they refuse, and change nothing. At most one keys command runs at a time
  (`cli` is one process); it may run beside Core, the Gateway and a moving keychain.

### What is assumed of callers

Some of these libraries rely on callers that are not in this repository. One assumption about
them is a constant, so that it can be set otherwise: `SameEnvironment = TRUE` in `StandaloneRoot`
says that processes of a plugin that start at once agree on `RYU_MASTER_KEY`; with `FALSE`
TLC finds `OneKeyForever` violated. Everything else that may go wrong between callers happens
in the models, and the properties name it (`mishap`, `stranded`, `overtaken`, `uncounted`,
`buried`).

`SealedLog` builds its caller's contract into the guards: one call at a time on a
path, and a writer dropped after an append that failed. The disk keeps the names
of one folder in the order they changed.

## Runs

Deadlock checking stays on in the runs of the board, issuance, sealed stores and custody:
`Quiescent` is the one state in which a system may stop, and it says why. In `Runtime` ten
bounded parts stop when their bounds are spent, each in a different way, so the run says
`CHECK_DEADLOCK FALSE`, as does `SilentMiss`; that the parts get somewhere is `ServedWhileUp`,
`NoJobStranded` and the coverage of their actions.

| run | instance | checks | shows |
|---|---|---|---|
| `Counters` | 3 requests with a seeded vote, 2 voters, 2 comments, 2 handlers, 4 calls, 1 kill | `DemandIsBacked`, `BackersKept`, `CommentCountKept` | the counts shown agree with the rows behind them: demand is never below the voter rows, a merge loses no backer but one that it brings to a request closed before, the comment count is the number of approved comments and after a kill at most too low |
| `Ledger` | every kind of call, 2 requests and 1 to come, 2 voters, 1 comment, 1 release, 2 handlers, 3 calls, 1 kill, no seeded votes | `BoardTypeOK`, `NoSilentChange`, `HiddenStaysHidden`, `ReleaseNeverEmpty`, `ImplementsLedger` | calls take effect atomically; stale patches are refused and never revive a closed request; merges move release links, never drop them |
| `Issuance` | 2 subjects and the unknown one, 2 handlers, 4 rows, windows 1/2/3, lag 1 | `TypeOK`, `NodeBound`, `ClientHourBound`, `ClientDayBoundInOrder`, `RefusedOnlyWhenSpent` | the limits hold over any window, the daily one while readings commit in order; nobody is refused without a spent limit |
| `SealedStore` | each kind of owner, 2 columns of 2 rows walked one at a time, an empty cell and one under a lost key, 3 key rings, 2 starts, 1 write, 1 day, a reader and a peer | `TypeOK`, `NothingLost`, `SealedMeansSealed`, `OkIsClean`, `ResetMovesTheKeyLast`, `OpensEventually` | killed anywhere and started again, under the same key, the next one or none, the store keeps every value, seals every column it says it sealed, leaves no plaintext behind a finished compaction, and opens |
| `Custody` | 8 kinds of folder (new, old, copied to another machine; master and app slot), 3 keys and the operator's, 2 retired at most, 3 starts, 1 change of the keychain; explored up to the first mishap | `TypeOK`, `KeysKept`, `KeysFound`, `AppOpens`, `RefusedOnlyWithoutTheKey` | no kill, refusal or overlap short of a mishap loses a key in use, none but a stranded one is hidden from the next start, the desktop opens what it sealed, and no start is refused beside a file with the right key |
| `Runtime` | see the cfg, part by part | the type invariant and, by part: settings `BoardsFollow`, `BoardsWhole`, `AnswersHonest`; tokens `CookiesLast`; runs `RuntimeTypeOK`; log `SyncedKept`, `PublishedWhole`; vectors `WithinBudget`, `MissesCounted`; ranking `KeepsTheBest`; handoff `UpIsPublished`, `ServedWhileUp`; proof `SentWhereProven`; root `OneKeyForever`; queue `NoJobStranded` | what each part promises, under its own interleavings, kills and time |

Six more runs expect a violation: what a comment, an error text or a test of
the repository says does not hold under some interleaving.

| run | what is said | what happens |
|---|---|---|
| `SecondMerge` | `tests/admin_api.rs`: a second merge is a conflict | two merges of one duplicate both pass the test made before the transaction |
| `PublishRace` | `store.rs`: only shipped requests can be published | a request reopened between check and update is published |
| `IssuanceDay` | `voter.rs`: at most so many identities a day | a claim with an older reading finds its day's rows pruned by a later one |
| `KeyRecord` | `content_sqlite.rs`: "Every value now opens under the current root: the record moves on" | a board killed in its first migration, then started under a new key, goes on behind the cursor; the rows before it stay under the retired key |
| `KeychainRace` | `lib.rs`: "no process ever seals data under a key that is not on disk" | two processes find the keychain empty, each stores and verifies a key of its own, and the first seals under the key the second replaced |
| `SilentMiss` | `vector_index.rs`: "degraded semantic recall is visible in the recall API and health, never silent" | a vector stored while its partition is read or away is counted by nobody, and missed |

In `KeyRecord` no value is lost while the retired key is kept: `NothingLost`
holds in `SealedStore`, and `ResetMovesTheKeyLast` shows that an owner that does
call `reset_items` when it finds a retired key keeps the comment's promise.

The other properties about the same parts say what does hold: `KeysKept` and `KeysFound` of
custody short of the mishap that `KeychainRace` ends with, and `MissesCounted` of the index.

Other races the models reach have no run of their own; the hazards in `PROJECT.json` list them:

* a draft left without requests by a kill (`TornDraft`), an identity spent on a vote that is then
  refused, seeded votes lost by overlapping merges (`bootstrap_sample`, which seeds them, has no
  caller in the binary), and a merge refused as "already merged" for a request triage only flagged;
* a bundle imported before the first record: `install_current` retires the keychain's key and not
  the file's, under which the messages may be (`stranded`);
* a command that retires a key beside a Gateway that does: whoever writes the index last takes the
  other's key off it (`mishap`);
* a run that removes the handoff its successor published after it had looked (`overtaken`);
* a proof that counts as fresh for as long as its answer took beyond the TTL, since it is stamped
  on receipt: `SentWhereProven` counts from the stamp;
* a plugin that never starts again because it was killed between creating its root file and
  writing it.

### Bounds

`MaxCalls` bounds the calls clients make, `MaxCrashes` the kills, `MaxClock` the
clock; `RowIds` bounds the issuances, `IdLeftFor` holds back a call whose insert
would find no id left. No guard of the code depends on any of them. Two handlers
suffice for the races at hand, each of which is one call between two lock
sections of another; in `Counters` four calls let a third and fourth follow on what the
race left, and three requests give a duplicate two survivors to choose between.
The seeded count of 1 and two voters make every case of `max(0)` in a merge
occur. Windows of 1, 2 and 3 units in a clock of 4 let rows age out of each
window while others stay. `SealedStore` and `Runtime` go without symmetry, which
liveness does not allow, and `Custody`, whose folders name keys.

`SealedStore`: two rows walked one at a time give every column a cursor with rows
before and behind it, two columns a first and a last one. Two starts are the
killed one and the one that finds what it left; one write lands anywhere between,
from the owner or its peer; one chunk of free pages lets a scrub stop half-way.
`Custody`: three starts are two overlapping processes and the next one that must find what they
left, or a command between two; what follows on a mishap is cut off by the constraint
`Undisturbed`, since the invariants of the run are claimed up to there. (`RefusedOnlyWithoutTheKey`
is claimed beyond, and proved.) `MaxRetired` of 2 lets the retired set be full.
`Runtime`: three calls and one kill on
two boards; three runs of the sidecar of which two overlap; three records of 0, 1 and
2 bytes in chunks of 2, so that a file is empty, ends on a boundary or beside one, and two
power losses; two indexes of one partition each under a limit that need not hold even one of
them, and one partition read while both are written and evicted (vectors are of one size here, of
any sizes in `BudgetIsKept`); five scores for at most three places; three runs on two ports, so
that a port is used again; a proof that expires at the next tick and an answer that takes one;
`MaxSlow` answers that come too late, since a client that times out for ever is served by nobody.

### Fairness

The board needs none: its properties are safety, and nothing there waits for another call.

`SealedStore`'s `FairSpec` assumes weak fairness of `OwnerSteps`, the steps of one
thread that opens a store: none of them waits for another process (SQLite's busy
timeout turns a wait into an error, which `EndsJob` is). Writers, the reader and
kills are not fair.

`HandFairness` assumes that a client goes on with its call and begins the next,
and that a run which publishes or withdraws goes on; it never assumes that a run
starts, stays up, or stops.

## Proofs

`tlapm` checks all eight proof modules. Every theorem holds for all values of
the constants that satisfy the named assumptions of the modules: finite
`Voters` and `Comments`, `Patches` a set of patches, `SeedVotes` a natural
number; for issuance, natural windows and limits with `Minute <= Hour` and
`Hour + MaxLag <= Day`; for a sealed store, at least one column, one row and one row
in a batch, and a lost key in no ring (`StoreAssumption`); for custody, folders whose
data is under a key that a slot or the operator has (`FolderAssumption`); for the
proof of the token, a lifetime of at least one tick; for the vector index, finitely many
partitions and ids, and no vector without a size (`VecAssumption`); for a sealed file, chunks
and tags of at least one byte (`SizesAssumption`), and for a log that a record is a
sequence of bytes (`LogAssumption`); elsewhere only that bounds are natural numbers and "none" is not
one of the keys. Four theorems ask for more, in their statements: `SeedVotes = 0` for
`BoardImplementsLedger`, `NobodySendsMerged` for `BackersAlwaysKept`, `SameEnvironment` for `OneKeyHolds`
and `OneFile` for `DesktopOpensItsData`. The others hold of every behaviour, and what a property
excepts is in the property.

* **Board** (`FeedbackBoardProofs`): `TypeCorrect`, `DemandAlwaysBacked`,
  `NoChangeIsSilent`, `HiddenRequestsStayHidden`. None is inductive alone: what a
  call read before must still mean something when it writes. The invariant `IInv`
  adds one condition per call in flight: a patch whose revision is still current
  holds the row as it is, patched; a vote has a row to go to; a merge's two
  requests exist and, where nothing was seeded, the counts it read are at most the
  voter rows now, so that `max(0)` yields 0. Each action preserves the condition of
  its own call and, since revisions and voter rows only grow, of all others.
* **Merges, comments, releases** (`FeedbackBoardProofs`): `BackersAlwaysKept`,
  `CommentsCounted`, `ReleasesNeverEmpty`. A merge adds the duplicate's voters to the
  survivor's in one transaction and a vote looks again before it counts, so a
  merged request gains no voter but from a later merge into it, and those are `buried`: the
  voters of a request whose survivor has moved on are with that survivor still, since no
  merge takes voters away, only copies them. That needs `NobodySendsMerged`: a
  client that reopens a duplicate, lets it collect votes and patches it back to
  `"merged"` does break `BackersKept`. For comments the argument follows each set
  of approved rows through insert, review and merge; for releases, that a draft
  has looked at a request before it is written and that links are only moved.
* **Refinement** (`FeedbackBoardProofs`): `BoardImplementsLedger`, under `SeedVotes = 0`.
  Under `IInv` a `PatchWrite` that passes its `WHERE` clause is the ledger's
  `Edit` of the current row, a `MergeCommit` its `Merge`, a `VoteCommit` its
  `Back`; all other steps leave the ledger's variables alone. With seeded counts
  the refinement is false: overlapping merges may lose or repeat a seeded vote.
* **Issuance** (`VoterIssuanceProofs`): `TypeCorrect`, `NodeBounded`,
  `ClientHourBounded`, `ClientDayBounded`, `RefusedForASpentLimit`. A row an hour window
  still needs is never pruned, because no reading lags the latest clock by more than
  `MaxLag` and `Hour + MaxLag <= Day`; so when a claim counts rows it counts every
  issuance of its window, later ones included, and the window that ends at any instant
  holds at most the limit. For the daily window the argument needs a reading no older
  than any committed before it (`inOrder`), and the run `IssuanceDay` shows that it
  does. The other way round, the rows a claim counts are a subset of the issuances
  made, and fewer rows never spend a limit that more rows leave (`WithinFewer`), so
  a refusal is owed to issuances that were made.
* **Cookies** (`SidecarProofs`): `CookiesLastHolds`, `OneRunServes`. The key in `app_secret`
  never changes once set; a run that is past its read holds that very key, so every
  cookie handed out is signed under it, whoever serves. Runs may overlap up to the port
  they bind, and no further.
* **Automation runs** (`SidecarProofs`): `RunsShowOneReport`. A report writes all its
  columns in one statement; the invariant ties each row to the report it shows and
  counts the reports sent.
* **Settings** (`SidecarProofs`): `BoardsAlwaysFollow`, `BoardsStayWhole`,
  `AnswersStayHonest`. The invariant `SetInv` says what each call knows between two
  lock sections (`Informed`), and only as long as the row has the revision that was read:
  every step leaves a board and a request as they are or moves their revision on
  (`BoardsMove`, `PostsMove`), so what a call knows is either still true or no longer
  claimed. A kill ends every call, and leaves no board but whole ones or, with
  `falls` counted, one whose statuses are cut short.
* **Handoff** (`SidecarProofs`): `UpStaysPublished`. While the last publisher is
  up the file is its own, or some run is or was between a look at an earlier file and its
  removal when it published (`overtaken`), and then the file is its own or gone: a run that looks
  later finds a token that is not its own and leaves it.
* **Proof of the token** (`SidecarProofs`): `BearerGoesWhereProven`. A proof that is received was
  given by the origin after the probe was sent, for each sender with an answer in hand; what
  the cache holds is such a proof, stamped no later than now, and what is sent was fresh under
  that stamp when the request looked at the cache, or stamped since. Nothing is assumed of
  how long an answer or a sender takes; what the theorem does not say, that the proof was *given*
  within the TTL, does not hold.
* **Sealed store** (`SealedStoreProofs`): `StoreTypes`, `StoreLosesNothing`,
  `SealedColumnsAreSealed`, `CompactedStoresAreClean`, `TheKeyMovesLast`. Every cell holds
  what was last stored there, sealed for that very place or plain and unlike an
  envelope (`Values`): a step of the walk keeps that because it leaves alone what it
  cannot open, and a kill because a batch and its cursor are one transaction. Rows up
  to the cursor hold no plaintext but the peer's (`Walked`). While a column is walked a
  scrub is owed, which is what makes a store that owes none clean (`Scrubs`). An owner
  that met a retired key puts every column back before the first and from then on has
  under its own key what is behind each cursor (`Moving`); it moves the record when that
  is every row.
* **Key custody** (`KeyCustodyProofs`): `CustodyTypes`, `NoKeyIsLost`,
  `RefusedForWantOfTheKey`, of every behaviour. The last needs no luck: a key that a file holds is a
  candidate, whatever has happened (`Told`). For `NoKeyIsLost` the invariant `IInv` is claimed up to the
  first mishap: what sealed anything is the operator's, in a slot or listed as retired (`Used`), what is
  listed was put away before (`Vaulted`), and a process that works has its key from a slot
  (`Resolves`). The hard step is the retired index, which is written back whole as it was read, over
  what another process listed meanwhile: a process that resolves puts away only what the keychain
  or the key file holds, so an index read too early can only miss keys that those two slots still
  hold, as long as no command moves them meanwhile.
* **Finding the keys** (`KeyCustodyProofs`): `NeededKeysAreFound` and `DesktopOpensItsData`. For the
  first, `FInv` follows what each process knows of the record: Core goes by the record as
  it is, or writes it, and the Gateway may have read it before the first one was written, and then
  retires nothing; a command that installs a key has what only the record or the keychain names in hand
  until it is listed. A command may come before the first record: what it records was chosen
  by the operator, and the keys in files that it did not look at are `stranded` from then on;
  they may be needed. For the second, `AInv` says when the desktop may
  take the file's key: it is the one that sealed everything, or the keychain was locked and the
  record decides. `OneFile` is how `app_key.rs` lays a slot out: one key file, which is its own
  legacy file; and the operator's key is none that the file holds.
* **Standalone root** (`CryptoPartsProofs`): `OneKeyHolds`. The invariant relates
  root file, pin and every process between two file accesses (`Sound`): a key in hand
  is its environment's or the root file's, processes under way share an
  environment (`Together`), a pin and a root agree (`PinAgrees`), and
  what is sealed is sealed under the pinned key (`SealedUnderPin`).
* **Compactions** (`CryptoPartsProofs`): `NoJobLeftBehind`. The worker's flag is
  set exactly while its thread is there, and it leaves only in the step that finds
  the queue empty.
* **Ranking** (`CryptoPartsProofs`): `CollectorKeepsTheBest`. What the bounded heap
  holds is a set of the best, and its lowest, which `accepts` compares with, is no
  better than any other of them.
* **Vector index** (`CryptoPartsProofs`): `BudgetIsKept`, `MissesAreSeen`,
  `HeldInOrderOfUse`. Each partition counts the sizes of its own vectors, of
  which no two have one id (`PartitionSound`), through upsert, swap-remove and hydration;
  `used` is the total of those held and fits, or one partition alone is held (`Fits`).
  The steps of `make_room` are one lemma: its victims are never the partition just
  used, and once they are gone the rest fits or is that one (`VictimsMakeRoom`). A partition
  that is not `uncounted` has a total of at least what its store has, whatever came between reading
  and hydrating it, so an index that holds only stored vectors and misses one holds fewer
  than it knows of, and `coverage` shows it. The order of use is a strict
  total order of exactly the partitions held.
* **Sealed log and file** (`SealedLogProofs`): `RecordsAreKept`, `FilesAreWhole`. First the
  functions: `SealedFileWriter` sees one byte at a time and `SealedFileReader` only a
  length, so it is proved that a finished file is a header, full chunks and a last one that
  alone carries the flag (`Laid`), that the reader takes its last chunk for the last
  one wherever the end falls, also when nothing was written or a chunk was just filled,
  and returns what the writer was given (`Holds`). Then the invariant `LogInv`: the
  frames of a log are in order under one key, what is owed to the caller is a beginning of
  the log or, once the log is gone, of the file made of it, and the copy that a
  compaction has under way holds the beginning of what it copies. A torn tail costs
  no synced frame, since synced frames come before it, and a rename comes only
  after the copy was finished and synced; the in-place seal reads it back as well, a compaction does
  not and trusts what it wrote, and so does the model.

The folds that these two models add up and cut sequences with are from the
community modules. `FoldLemmas` proves what they compute for finite sets and
sequences of any size; its induction is over a set of numbers (`LeastNumber`, from
the well-foundedness of the naturals), with no operator as a parameter.

Proving led back to one model: with the decision of `resolve_app_key` made by the
keychain as it is then, a keychain that is locked at first and damaged by the time of
the decision let the desktop run on a key that does not open its data. The code goes
by what it observed, so the model does too.

Every safety property of a passing run is proved for all values of the constants, but
for one: `RuntimeTypeOK` gathers the type invariants of the parts of `MCRuntime`, of
which `TokenTypeOK` and `RunTypeOK` are theorems; what the others say is for the most
part in the inductive invariants, and the rest is that bounded counters stay in their bounds.
All liveness (`OpensEventually`, `ServedWhileUp`) is only model-checked: it is
out of the proof system's reach. The six violations are TLC's counterexamples.
Nothing here is recursive.

## What could come next

A composition of `SealedStore` with `CompactionQueue`, whose jobs are now one step of
`EndJob` there and `BeginDeferred` here. BLOB columns and `min_reader` in
`SealedStore`. A key file that is corrupt, and a host that forbids key files, in
`KeyCustody`.

## Not modelled

HTML, translation, branding, DLL search paths and CI files keep no state, and
neither do the release scripts, whose results are texts. The cryptographic
primitives (`lib.rs` below the ladder, `sealed.rs`) and the blind index are
byte-level; what they promise is assumed. The encoding of derived keys in a
child's environment is left out, as are BLOB columns, `min_reader`, corrupt key files
and hosts without key files (see Abstractions). SQLite
and tokio are assumed to do what they promise: transactions are atomic and
durable, tasks that can run are run. Mutex poisoning would need a panic inside a
lock section, and the model assumes none.
