# TeleDrive in TLA+

TeleDrive stores files as encrypted chunks in Telegram channels. A FastAPI
server keeps an index of the chunks in an in-memory repository (`db/memory.py`,
snapshotted to JSON), sends and reads the chunks through a pool of Telegram
accounts, and serves a REST API, a bot and an Android client.

This directory holds a formal model of that server: what the code in
`src/backend/app` does, translated into TLA+ modules, checked with TLC on small
instances and, for the properties that matter most, proved with TLAPS for every
instance. `PROJECT.json` relates every definition to the lines it models.

Paths below are relative to `src/backend/app` unless they start with `src/`.

## 1. Inventory

The whole server is **one asyncio process with one event loop**. The repository
is always the in-memory one (`db/repository.py`), and none of its coroutines
ever suspends. What interleaves is therefore known exactly: a request runs
without interruption from one *real* suspension to the next, and those are
Telegram I/O, a contended semaphore, `asyncio.sleep` and the bot's HTTP calls.
Every action in these modules is such a stretch.

| Component | State | Operations | Talks to | What is hard |
|---|---|---|---|---|
| Upload service, `services/upload.py`, `api/routes/uploads.py` | upload sessions, chunk rows, file nodes, `used_bytes`, upload semaphore | create (with idempotency key, overwrite), list missing, put chunk, complete, abort | repository, pool, Telegram | PUTs of one chunk racing; abort, purge and overwrite during a send or a digest; lost responses; quota |
| Session pool, `telegram/pool.py`, `telegram/ratelimit.py` | accounts, leases, in-flight counts, flood-wait gates, breaker, global ceiling | acquire, release, report, retry, enrol | Telegram | slot leaks, overlapping flood waits, waiting with a slot held, cancellation |
| Virtual file system, `services/vfs.py` | the node tree | folders, move, rename, copy, trash, restore, purge, list, search | repository | cycles, sibling names, restore of a subtree, shared chunks of copies |
| Repository and snapshot, `db/memory.py` | every table | queries and updates, `_save_state` | disk | a restart loses upload sessions and refresh tokens but not nodes |
| Download service, `services/download.py` | none | range parsing, chunk window, read with failover | repository, pool | boundaries of ranges; failure after the headers |
| Authentication, `services/auth.py` | refresh-token families, wrapped DEKs | register, login, Mini App login, refresh, logout | repository | reuse detection against lost replies and rotation; restarts |
| Telegram bot, `telegram/bot_service.py` | update offset, dialogue state, reminders | poll, menus, file intake, reminder dispatch | all services | alerts in flight against snooze, complete and delete |
| Notes, reminders, Jalali calendar | rows | CRUD; calendar arithmetic | repository | repeating reminders; calendar boundaries |
| Cryptography, `core/crypto.py` | wrapped DEK per user | seal, open, wrap, unwrap | repository | replacing a DEK that does not unwrap; a DEK that is not on disk |
| Start-up and enrolment, `main.py`, `api/routes/telegram.py` | `app.state` | provision, OTP dialogue, enrol | all | services replaced under requests in flight |
| Android client, `src/android` | local queue | resume loop of `ChunkUploader.kt` | REST API | endless resume of a session that is gone |
| SQL migrations, `src/db`; operations, `src/ops`; emulator page | - | - | - | no code uses the migrations: they say what the authors intend |

What makes each correct:

- **Upload**: a file is listed as ready only when it is whole, and stays so; a
  receipt is durable; an index is written once; the digest recorded for a file
  is that of the rows a download reads; a terminal session stays terminal; quota
  is neither exceeded nor leaked; every slot comes back; every request is answered.
- **Pool**: the ceiling and the in-flight counts balance on every way out; a
  gate is never shortened nor passed; calls are answered.
- **VFS**: the tree stays a tree and its ancestor arrays say so; live siblings
  have distinct names; usage is what live files occupy; the trash loses nothing.
- **Repository and keys**: what survives a restart is consistent, and what was
  uploaded can be opened.
- **Download**: the bytes sent are the bytes asked for, or an error.
- **Authentication**: one live token per family; reuse revokes the family, and
  nobody else's.
- **Bot**: an update is handled and not forgotten before; a text is taken only
  when it was asked for; a reminder fires when due and not again.
- **Calendar**: no day is skipped or repeated.

`PROJECT.json` lists under `hazards` every hazard met in the code, at its line,
with the property that covers it or the reason why none does.

## 2. The modules

| Module | What it is | Code |
|---|---|---|
| `ChunkPlan` | the arithmetic of `ChunkPlan` (count, offset, length, `validate`) as operators | `upload.py` |
| `Upload` | the upload pipeline with the repository and VFS operations that touch it | `upload.py`, `routes/uploads.py`, `memory.py` |
| `ResumableFile` | the abstract specification: write-once cells, published together, removed together | |
| `UploadRefinement` | `Upload` implements `ResumableFile`: the mapping | |
| `SessionPool` | accounts, leases, ceiling, gates, breaker, retry loop | `pool.py`, `ratelimit.py`, `routes/telegram.py` |
| `Drive` | the tree of folders and files | `vfs.py`, `routes/nodes.py`, `memory.py` |
| `RefreshTokens` | issue, rotation, reuse, revocation of refresh tokens | `auth.py`, `memory.py` |
| `FileKeys` | whose key seals and opens a file, across restarts and account merges | `auth.py`, `upload.py`, `download.py`, `crypto.py`, `memory.py`, `bot_service.py` |
| `Bot` | the poll loop and the dialogues | `bot_service.py` |
| `Reminders` | reminders and the dispatcher | `bot_service.py`, `routes/reminders_routes.py`, `memory.py` |
| `ByteRanges` | a Range header to status, length and body, as operators | `download.py`, `routes/files.py` |
| `Calendar` | the Jalali conversions and the month grid, as operators | `jalali.py` |
| `MCUpload`, `MCUploadRefinement`, `MCSessionPool` | instances for TLC | |
| `Arithmetic` | what the three operator modules are to compute | |
| `MCArithmetic` | one state for each plan and each month | |
| `ArithmeticProofs`, `UploadProofs`, `SessionPoolProofs`, `DriveProofs`, `RefreshTokensProofs`, `RemindersProofs`, `BotProofs`, `FileKeysProofs` | the theorems (section 4) | |

Operators named "Mutant" in a comment are plausible bugs (a dropped guard, a
forgotten reset). They are not part of any specification: each property is
known to fail when the definition after it is replaced by the mutant.

The modules share no variables. Where two components interact, the module that
needs the other has the part of it that it meets: `Upload` has the VFS
operations on the file being uploaded, and abstracts a send to delivery and
failure; `SessionPool` is what happens inside of that send; `Drive` abstracts an
upload to the node it creates; `FileKeys` has a whole upload of one chunk, with
the table of users and the snapshot.

### Upload

An upload session, the node it creates and the file it fills share an identity
`f`. `node`, `session` and `rows` are the tables `nodes`, `upload_sessions` and
`chunks`; `messages` is what the Telegram channel received; `used` is
`used_bytes`; `gcJobs` are the garbage-collection jobs; `slots` is the semaphore
`_upload_slots`; `put` and `completing` are the requests in flight with their
local variables. `acked` is history: the chunks for which `put_chunk` returned a
receipt.

- `put_chunk` is split at its two suspensions: `BeginPut` (checks, seal, choice
  of a storage pool), `AcquireSlot`, then the send: `Deliver` (Telegram has the
  document), `RetrySend` (an attempt failed, before *or after* delivery, and
  `execute_with_retry` sends again), `GiveUp`; and `CommitChunk` (`insert_chunk`
  with its ON CONFLICT, progress, receipt, slot). `ReplayPut` is the idempotent
  answer for a chunk that is there.
- `complete` is `BeginComplete` (the rows are listed, the digest starts),
  `FinishComplete` or `RejectComplete`; `CompleteUnverified` is the
  zero-knowledge mode, where nothing is read back.
- `create_session` is `CreateSession`; with overwrite it is `OverwriteSession`, or
  `OverwriteRefused` when the quota refuses after the old rows are gone.
- `Abort`, `Trash`, `Restore` and `Purge` are each one stretch.

Content is abstract: a chunk's bytes are a model value and its SHA-256 is that
value; a file digest is the function from indices to bodies. One owner, one
folder.

### SessionPool

`pool`, `disabled` and `inFlight` are the pooled sessions; `gate` and `breaker`
are keyed by label, as in the code; `free` is the limiter's semaphore; `req` are
the calls of `execute_with_retry` (or of a route that borrows a lease). A call
goes `Call` -> `Enter` (the semaphore) -> `Take`, `Refuse` or `Doze` (one turn of
acquire's loop) -> `Succeed`, `FloodWait`, `Fail` or `Return` -> `Again`.
`Cancel` is a request cancelled at an await: a download stream whose client
leaves. `Enroll` is `_enroll_live_session`. `Tick` is a second.

Timers are kept as the time that is left, so the state space is finite with no
horizon. Delays are lower bounds only: a request may act any time after its
timer ran out. Counts of offences saturate at `CountCap`, beyond which no
threshold and no quarantine changes (`CountCapAssumption`). Jitter is a choice
among the whole seconds within a fifth of the duration. Token buckets are left
out: no code path takes a token, so they are always full and decide nothing.
The degraded mode (`require_healthy=False`) has no caller.

### Drive

`tree` is `repo.nodes` of one owner, with `ancestor_ids` as a set (`above`);
`used` is `used_bytes` in files of size one; identities are given in order, the
order of the repository's table. `place` says whether a node is live, is the top
of something trashed, or went to the trash with a folder. No operation suspends,
so each is one action, also those that do several things and may stop in the
middle: `Patch` (moved, and the new name is taken: 409, and the move stays) and
`CopyFolder` (a descendant is refused because its copy would stand beside a
namesake: what was copied before it stays). `CreateFile` with overwrite is the
second node of `OverwriteSession`.

### RefreshTokens

`rows` is `repo.refresh_tokens`, which is not in the snapshot; `held` is the
token each device would present; `access` the access tokens handed out, which
the server does not look up. `Login`, `Refresh`, `Reuse` (a rotated token comes
back) and `Logout` are the handlers; their replies may be lost. `Share` gives a
device the token of another. `Restart` empties the table. `doubt` and `ended` are
history: which devices cannot count on their token, and when a family was
revoked or forgotten.

### FileKeys

A file of one chunk, sealed with a secret: the owner's DEK, or the key derived
from MASTER_KEK that `_user_dek` falls back to. `users` has each account's wrapped
DEK and Telegram chat; `files` the nodes with their row; `disk` the snapshot;
`sending` what `put_chunk` has sealed when it suspends. `CreateUser` shows the
order in the code: the account is saved, its DEK is not. `UserDek` is the
replacement of a DEK that does not unwrap. `LookUp` is `_get_or_create_user`, with
its merging of accounts; `BotFile` and `BotFallback` are the bot's intake, which
ends in its fallback because `UploadService` has no `finish_upload`. `SaveState` stands
for the operations outside of the module that save everything. `Restart` loads
`disk`, with any `kek` of `Keks`.

### Bot and Reminders

`Bot` has one user: `inbox` and `confirmed` are Telegram's side; `offset`, `batch`
and `handler` are `_poll_loop`; `dialogue` is `_user_state`. A text has its effect when
it is taken up; a button is answered first (`HandleButton`), has its effect
after that await (`Press`), and either await may raise (`EndHandler`). `Stop`
cancels the loop wherever it is, and the offset begins at 0 again.

In `Reminders` time is reduced to whether a reminder is due. `round` holds the
copies that `list_due_reminders` returned and `sending` the alert under way;
everything that the web and the buttons do can happen between `Alert` and
`Answered`. A repeating reminder is advanced on the copy, and stays due.

### Operators

`ByteRanges` takes a header after its split into the two sides of the "-", and a
byte of a file is its offset: `Response` gives the status, the length and the
body. `Calendar` has the arithmetic of `gregorian_to_jalali` and
`jalali_to_gregorian` after the years 1600 and 979 (no other is in reach of the
routes), and the operators of the month grid.

## 3. The runs

| Run | Instance | Question |
|---|---|---|
| `upload_safety` | 2 files (1 and 2 chunks), 2 PUTs for 1 slot, 1 complete, quota 4, abort/trash/restore/purge | are ready files whole, receipts durable, and do aborted uploads leave no node, whatever is removed when? |
| `upload_content` | 1 file of 2 chunks, 2 bodies, 2 PUTs, 2 completes, both modes, declared digests, abort/purge | with clients that disagree: is an index single-valued and backed, is the digest right, do terminal states stay, and does the pipeline implement `ResumableFile`? |
| `upload_quota` | 2 uploads of one name, sizes 1 and 3, quota 4, 1 slot, retries, a key, overwrite/abort/trash/restore | is `used_bytes` the live bytes, is no upload admitted past the quota, and is every request answered? |
| `session_pool` | 2 calls under a ceiling of 1, an enrolment that replaces the only session, waits below and above the limit | does the slot come back, do accounts rest, is every call answered or refused? |
| `drive` | 3 nodes (one folder name, two file names) and one copied folder, quota 3 | do the ancestor arrays, the usage, the names and the trash stay right in every order of the operations? |
| `refresh_tokens` | 2 devices, 4 tokens, lifetimes 2 and 1, 4 ticks | are families chains, ended ones dead, and careful devices undisturbed? |
| `file_keys` | 2 accounts, 2 chats, 2 files, 2 values of MASTER_KEK, 1 replaced DEK | are uploads readable, now and after a crash, and do chats lead to one account? |
| `bot` | 3 updates of any kind, any batches, 1 stop | is no update forgotten unhandled, no text taken unasked, and is all handled in the end? |
| `reminders` | 3 reminders, repeating or not, 2 stops | is each alerted once per creation or snooze, and is none starved? |
| `arithmetic` | sizes to 16, chunk lengths to 5, all headers with numbers from -1 to 17; the months of 1371-1473 | are plans partitions, ranges served byte by byte, and months gapless? |

Two more runs show a disagreement between the code and what it documents, each
violating one property: `race_loser` and `calendar` (section 6).

**Bounds.** Two PUTs are enough for every race on an index, because a PUT
interacts with others only through the row of its index, the progress count and
the semaphore. Two completes cover the race of two finishers. Two chunks
distinguish "last" from "all". `MaxPuts` bounds how many chunks are ever handed to
a storage pool; in `upload_content` it allows a second try after a failure.
`MaxAttempts` 2 allows one retry. A quota of 4 with sizes 1 and 3 can be hit
exactly, missed by one, and freed again. In `session_pool` the ceiling is tight,
because it is the waiting for it, with the retries, the naps and the refusals,
that only TLC can check; two calls that are at work together on one account are
the subject of theorems for every ceiling (section 4). Waits of 1 and 2 seconds
with `MaxSleep` 1 give a wait that gates and one that disables; thresholds of 2 let a
breaker open by failures, by flood waits and by both. In `drive` three nodes below the
root give every relation of two nodes under a third, and the copied folder
brings the numbers to six; `MaxBusy` stops what would be a second copy. Four
tokens are two families with a rotation each, or one with three. Two accounts,
chats and files make every pairing of main, web, bot and Mini App accounts, and
MASTER_KEK may change and change back. Three updates are a prompt, its text and one
more of each kind around them. Symmetry is used on interchangeable model values
in `upload_safety` only, which has no liveness property.

**Deadlock** is not checked: a server with no more clients, or with the model's
bounds used up, legitimately stops. That no request is stuck is what the
liveness properties check.

**Fairness.** `Upload`: weak fairness of the steps of an accepted request (the
event loop runs what is ready; Telethon answers or times out through
`request_timeout`) and strong fairness of `AcquireSlot`, because
`asyncio.Semaphore` serves its waiters in order. Nothing is assumed of clients:
no upload has to be completed. `SessionPool`: the same, with weak fairness of
`Tick`, and none for `Cancel`, `Call` or `Enroll`. `Reminders`: weak fairness of the
steps of the loop, which looks every 15 seconds and whose requests have a
timeout, and of `Start`; a request may fail every time. `Bot`: the same for the
handlers, and strong fairness of the `getUpdates` that bring something: Telegram is not
unreachable for ever. A user need not write and need not snooze.

**Mutants.** `PROJECT.json` pairs every property of a passing run with a
definition and a changed form of it under which TLC finds the property violated.

## 4. Proofs

All theorems are for every value of the constants that satisfies the named
assumptions (finite sets of requests, natural settings and bounds, sentinels
that are not values, years that the modelled branches of the conversions are for). A module's bounds are constants, so that a theorem about
`MaxTokens` tokens is about any number.

**Upload** (`UploadProofs`). The inductive invariant is

    IInv == TypeOK /\ EverythingHasASession /\ EverythingIsBacked /\ OneRowPerChunk

`OneRowPerChunk` and the backing of rows are not inductive alone. A row is what
a PUT in flight brings, so the invariant says of each PUT with a message id that
the message holds its chunk; a stored digest is typed only if the rows that a
complete listed covered the plan, so it says so of every complete that is
reading; both speak of the plan of a session, so no session may be forgotten.
The proof first bounds what a step can do to each variable (`Frame`), one lemma
for each group of actions, and then derives each conjunct from the frame.
`Invariance` gives `TypeCorrect`, `RowsAreUnique`, `BackingHolds`,
`SessionsAreKept`. `SlotsAreConserved` is a count on its own. `AbortIsClean` and
`StatusIsFinal` rest on the life cycle of session and node. On the assumption
`NoOverwrite` (no client overwrites), rows leave only with their node
(`RowsAreKept`), and with the invariant
`ReadyFilesAreComplete /\ DigestedFilesAreComplete /\ ReceiptsAreDurable` follow
`ReadyIsComplete`, `ReceiptsHold` and `DigestsAreOfCompleteFiles`. The assumption is
needed: an overwrite empties a ready file (section 6).

**The refinement** (`UploadProofs`). `UploadImplementsResumableFile` follows
one file at a time: what a handler does to the phase, the cells and the
content of a file is `Open`, `Write`, `Publish`, `Remove` or nothing, and of all
other files it changes nothing. Two cases need the invariants above: a PUT
never writes into a ready file because a ready file already has every chunk
(`ReadyFilesAreComplete`), and `complete` publishes a whole file because the
file it digests stays whole (`DigestedFilesAreComplete`). `ReadyDigestHolds` is
about the gap between listing the rows and hashing what the messages hold: the
rows of a whole file neither come nor go while its node lives (`RowsStay`),
so the list is still the index's when the digest is stored (`SeenIsCurrent`).
Both are on `NoOverwrite`.

**The quota** (`UploadProofs`). `Usage` is a sum over the live nodes. The proof is one
bound on every step (`QuotaFrame`): `used` is recomputed as that sum, or grows with it
by a size that fits, or neither changes; but an abort of an upload whose node was
purged releases its bytes a second time. `NobodyPaysTooMuch` follows for all clients.
`UsageIsExact` and `AdmissionRespectsQuota` need that the last case does not
happen: the invariant `QInv` adds to `QuotaMatchesUsage` that an upload that can
be aborted has its node (`PendingHaveNodes`). It is one on the assumption
`NoDoubleRelease` (clients do not both purge and abort), and the assumption is needed: with
both, the quota admits too much (section 6).

**SessionPool** (`SessionPoolProofs`). `PoolTypeCorrect` for all waits,
thresholds and jitter. `CeilingIsConserved` and `LoadIsCounted` go together:
which of the two sets, holders of a slot and users of a session, the one request
that moves enters or leaves decides both counters; that a release never hits the
floor of `max(0, in_flight - 1)` needs the second. `GatesAreHard` and
`RestIsGuaranteed` are action properties that need only the types.

**Drive** (`DriveProofs`). That every node's array is its parent's array and its
parent (`TreeIsConsistent`) is not inductive: a move rewrites a subtree that it finds
by the arrays, and keeps of each the part not above the moved node. The
invariant adds that arrays are transitive (`Ancestors`) and that of two ancestors
one is above the other (`Lines`). Lemmas about any tree (`Grown`, `Shrunk`, `Moved`,
`Cloned`) say that what the operations do to it leaves a tree, each of the three
parts in turn; one lemma for each kind of operation applies them. `TreeStaysConsistent`,
`TypeCorrect` and `NobodyIsOvercharged` follow. `TrashIsFindable` uses the
transitive arrays: what leads to a node outside of a restored or purged subtree
is outside of it. `DuplicatesAreSourced` needs of a folder copy that the copies have
identities of their own (`CopyOfFacts`) and that of two siblings the walk reaches
one first and stops at the other (`CopiesDiffer`).

**RefreshTokens** (`RefreshTokensProofs`). The invariant joins the four properties
with `History` (no token, access token or device beyond what was issued, and a
family has the identity of its first token; an access token outlives the present
by no more than its lifetime) and `Alone` (a careful device shares its family
with no other). `RotationsAreChains`,
`RevocationIsFinal` and `NoFalseAlarms` are its conjuncts.

**Reminders** (`RemindersProofs`). `AlertsInOrder` needs that whatever the loop
holds a copy of, and does not repeat, is still owed an alert (`Held`), and that
so is whatever is not notified and not under way (`Unsent`).

**Bot** (`BotProofs`). `NothingIsForgotten` needs what the offset means: below it
everything was handled or is being handled (`PassedUpdates`), and so is what lies
before an update of the batch, but for the rest of the batch (`WaitingUpdates`).
`DialoguesAreAskedFor` needs only the types.

**FileKeys** (`FileKeysProofs`). Memory and disk are each sound by themselves
(`Sound`): a finished upload that is not lost has the key that its owner's row
names (`Match`), files have owners, chats have one account, accounts are numbered in
a row, and every DEK in use was made (`Known`), so that a new one opens nothing
old. Between the two, finished uploads agree (`Saved`), and a DEK that is not on
disk has sealed nothing that is stored (`Unsaved`): that is why a crash after
`create_user` or `_user_dek` costs nothing. Within one run of the server the owner of an
upload keeps a DEK that unwraps (`Uploading`), so what `complete` reads back was
sealed with the DEK that a download will find; what is being sent belongs to an
upload without a row (`Sending`). A step that saves needs only that memory
is sound (`SavingStep`), one that does not only that it finishes no upload (`QuietStep`).

**Arithmetic** (`ArithmeticProofs`). The provers cannot instantiate an induction
theorem, which has a predicate as parameter. They can take the smallest element out of a
set of numbers: `Least`, from the well-foundedness of `<`, and from it `Induction`
for a set of numbers that is closed under successor. `SumsAgree` and `SumsExist` use
it on the size of a set, to show that a sum over a finite set is what one
would write down (`TotalIs`, `SumsStep`, `TotalStep`), which is what the quota needs too.
`SizesTotal` then gives that `validate` never raises, and with the facts about one
chunk (`ChunkFacts`, `ByteFacts`) `PlansPartition`. `RangesAreServed` goes along the
loop of the download: the blocks of the window of chunks are consecutive bytes (`WindowFacts`,
`BytesJoin`), so are they with the first and the last one cut (`TrimmedIs`,
`PartFacts`), and they begin and end where the header says (`ParseIs`,
`StreamIs`); bytes from one offset to another, in order, are what `BytesServe` needs.

The calendar is proved by cutting a number of days as the code does, into eras,
centuries, four years and a rest (`EraIs`, `FourYears`, `MonthIs`): `GregorianFollows`,
the date that `jalali_to_gregorian` gives for a number of days is the day of that
number in Python's count, `toordinal`. In the other direction, `SinceIs`: `gregorian_to_jalali`
counts one day too few from 1 March of a leap year to the end of the
next February, and is otherwise right; what it then does with the days is an inverse of
`JalaliDays` (`JalaliFollows`, `JalaliAgain`). `DatesComeBack` puts the
two together. `JalaliLeapIs` is what that means for `is_jalali_leap_year`: it
misses the long years whose 30 Esfand lies in such a year, and no others.
`MonthsFollow` therefore has a hypothesis for Esfand, that the leap test is right about the
year; it has none for the other eleven months.

**Model-checked only**: liveness (`RequestsFinish`, `CallsAreAnswered`,
`UpdatesAreHandled`, `DueRemindersAreSent`), which is out of the prover's reach. That
Esfand is right in all of 1371 to 1473 is checked year by year.

## 5. What is not modelled

Of the upload service: `ingest_stream` (no caller) and the expiry of sessions
(no code). Of the pool: byte and request counters, connecting and disconnecting
clients, token buckets (section 2). A task is never cancelled inside
`put_chunk`: Starlette does not cancel a plain handler. Of the VFS: stars,
listings, search and pagination, which read or set one flag. Of downloads:
replicas, which nothing creates, and signed links. Of the bot: listings, menus,
wording. Of the calendar: occasions and the parsing of dates.

Whole parts: notes (single-step operations on one table), configuration, schemas
and error mapping (no state), password hashing, JWTs and AES (library calls), the
OTP dialogue (Telethon's), the second generation of the upload service after an
enrolment (its semaphore bounds memory only), the emulator page and the Android
client (a client that does less than the clients of `Upload` may), the SQL
migrations (unused) and the deployment files.

## 6. What the model shows about the code

Runs:

- `race_loser`: of two overlapping PUTs with different bytes the loser is told
  that its chunk is stored.
- `calendar`: `gregorian_to_jalali` is one day early from 1 March of each
  Gregorian leap year to the end of the next February. As `is_jalali_leap_year`
  converts there and back, it is wrong in the years that `JalaliLeapIs` names: none from
  1371 to 1473, but some around that, such as 1474.

Met while modelling. These follow from the modules, with the instance or the
restriction named:

- With `overwrite` among the clients' operations, `ReadyFilesAreComplete` fails:
  overwriting drops the chunks of a ready file that stays in the listing
  (`upload.py` 177), even when the overwrite is then refused for quota.
- With `purge` next to `abort`, `AdmittedWithinQuota` fails: the bytes are
  released twice (`upload.py` 687).
- A PUT overtaken by an abort inserts a row for a node that is gone
  (`upload.py` 380); the schema forbids it (`src/db/migrations/0001_init.sql` 299).
- A call may be repeated on the account that was just told to wait, once its
  wait is over: the labels collected to avoid it are not used (`pool.py` 448, 461).
- A send whose response is lost leaves a second copy of the chunk in the channel.
- `expires_at` is never read, so nothing releases an abandoned upload; a disabled
  account is never enabled again, although the blueprint says it rejoins the pool.
- A copy of a server-managed file cannot be opened: its rows are bound to the
  node of the original, although `vfs.py` says that it "references the same
  encrypted chunks".
- What the bot stores is not sealed: `finish_upload` does not exist
  (`bot_service.py` 983), and the fallback's row is of plain bytes.
- The bot's merging of accounts gives files to an owner with another DEK
  (`bot_service.py` 1545); they cannot be opened any more.
- A repeating reminder is advanced on a copy and is sent every 15 seconds
  (`bot_service.py` 1699); a snooze made while its alert is on the way is undone by
  the mark that follows.
- `restore` tests neither names nor the parent: it makes live siblings of one
  name, and live nodes in trashed folders (`memory.py` 641). A node cannot be
  moved to a folder that is above it (`memory.py` 553).
- An enrolled session is never persisted: `encrypt_session_string` is called with
  an argument it does not have (`routes/telegram.py` 438).

## 7. What could follow

1. `Drive` and `Upload` over one table of nodes, to follow a folder that is
   trashed or copied around an upload in flight.
2. The two generations of the upload service after an enrolment.
3. The resume loop of the Android client as a client of `Upload`.
