# Hyphae (agent-speaker): TLA+ models, checks and proofs

Hyphae is a command-line client and daemon for messages between agents over
Nostr relays. This directory models the parts that keep state: the retry queue
of undelivered messages, the keystore, the files these are kept in, the inbox
that the daemon watches, and the database that messages, groups, profiles, the
audit log and the chat screen share. TLC checks the models on small instances;
TLAPS proves the safety properties for every value of the constants.

    tlc -config MCOutbox_serial.cfg MCOutbox.tla     # one run
    tlapm Outbox_proofs.tla                          # one proof module

## 1. The system

Every command is a short-lived process. The daemon (`hyphae daemon`) is a
long-lived one: a `select` loop over three tickers (retry, watch, clean up),
which runs its passes one after the other, plus one goroutine for every
automatic answer. Processes share files under `~/.hyphae` and nothing else; no
lock file is used anywhere.

| Component | State | Operations |
|---|---|---|
| Outbox (`messaging/outbox*.go`) | `outbox.json`: entries with status, retry count, event, relays | `agent msg` queues or unqueues; the daemon's pass and `storage outbox retry` run `AttemptSend`; `clear` and the hourly cleanup remove; `list` reads |
| File save (`SaveOutbox`, `SaveKeyStore`) | the file, its temporary file | open, write, fsync, close, rename |
| Daemon inbox watch (`daemon/daemon.go`) | seen set, start time, open subscription, answers under way | watch tick, subscribe, handle event, auto-reply, preload at start |
| Message store (`storage/`, `messaging/store.go`) | SQLite table `messages` | upsert from five writers, inbox / sent / conversation / search / stats, delete, migration from JSON |
| Audit log (`audit/audit.go`) | SQLite table `audit_log`, a hash chain | append, verify, list |
| Keystore (`identity/`) | `keystore.json`: identities, contacts, encryption parameters | create, use, export, add contact, resolve, change password |
| Groups (`group/`) | tables `groups`, `group_members`, `group_messages` | create, add, leave, list, store message |
| Profiles (`profile/`) | table `agent_profiles`, replaceable events on relays | publish, discover, store, filter |
| TUI (`tui/`) | screen state | load conversation, send (publish and store; no outbox) |
| Nostr tools, crypto, compression, output, notification | none | one request, one answer |

How they interact:

- `agent msg` publishes, then either stores the message, appends to the audit
  log and takes the message off the outbox, or puts it on the outbox.
- The daemon's retry pass loads the outbox once, and for each pending entry
  dials relays and then saves its copy two times (sent: mark, remove) or one or
  two times (not sent: count, perhaps give up); sent messages go to the store.
- The watch pass polls one relay after the other, asks its seen set, writes the
  message store, and starts a goroutine that publishes and stores an answer.
- The relay echoes what an identity sends to itself, answers included, so
  `agent msg`, `agent inbox`, the watch loop and the auto-replies write the
  same rows.

What is hard, and therefore what the properties are about:

- *Whole-file read-modify-write without a lock.* The window between load and
  save contains network dials (daemon, retry) or a question to the user
  (clear), so it lasts seconds to minutes.
- *Crashes and failing writes between steps that belong together*: publish and
  save; mark, remove and store; mark as seen and store.
- *The save itself*: temporary file, fsync, rename; one fixed temporary name
  for the outbox, one of its own per save for the keystore.
- *The same event seen many times*: from several relays, in every poll since
  the daemon's start, and after a restart.
- *Limits*: the retry budget and its boundary, the seen set of 10000 with its
  eviction, ten events per poll.
- *Liveness*: the queue has to come to rest; what relays offer has to arrive.

What makes each component correct:

- Outbox: nothing queued is lost; nothing is sent twice unless something
  failed; what was sent is recorded; "sent" and "failed" are earned; nothing
  rests pending where no pass looks; the queue settles.
- File save: always a complete document, also after a power loss; an error
  means nothing changed.
- Inbox: what arrived stays recorded; each event is answered once; answers are
  not answered; what a relay keeps offering arrives; messages do not evict each
  other.
- Message store: readable text is not overwritten but by the two writers that
  have none, and by nothing that failed to decrypt; moving `messages.json` loses and doubles nothing; what was reported
  as stored is there.
- Audit log: the chain verifies whatever appends at once and whatever fails; an
  edit or a deletion shows; what the log says happened did happen.
- Keystore: one password opens the store and every encrypted key in it; no key
  that was reported as created is lost; an encrypted key stays encrypted.
- Groups: the creator is the administrator. Profiles: what was asked for is
  published or refused; filters mean what they say; a discover leaves what the
  relays have.
- Chat screen: a message is on a relay or the user was told; the screen shows
  the newest of what is in the history.

## 2. Modules

| Module | What it models |
|---|---|
| `Outbox` | `outbox.json` and every process that loads and saves it; the map to `Delivery` |
| `Delivery` | what the outbox promises about a message, without files or processes |
| `MCOutbox` | instances of `Outbox` |
| `Outbox_proofs`, `OutboxLoss_proofs`, `OutboxSerial_proofs` | theorems about `Outbox`: in general, about loss, and what else holds without overlap |
| `SaveFile` | `SaveOutbox` and `SaveKeyStore`, call by call, over a file system; the map to `AtomicSave` |
| `AtomicSave` | what their callers count on |
| `MCSaveFile` | instances of `SaveFile` |
| `SaveFile_proofs` | theorems about `SaveFile`: it implements `AtomicSave` |
| `Inbox` | watch loop, seen set, store rows, auto-replies, relays |
| `MCInbox` | instances of `Inbox` |
| `Inbox_proofs` | theorems about `Inbox` |
| `KeyStore` | `keystore.json` and the commands that load, unlock and save it |
| `MCKeyStore` | instances of `KeyStore` |
| `KeyStore_proofs` | theorems about `KeyStore` |
| `Sqlite` | the processes and goroutines on `messages.db`, and what its transactions do to each other |
| `AuditLog` | `LogAction`, `VerifyChain`, and a user who tampers |
| `Groups` | `group create`, `add-member`, `leave` |
| `Messages` | every writer of the history, opening the store, migrating `messages.json` |
| `Chat` | the chat screen and its commands, over `Messages` |
| `Profiles` | `profile publish` and `discover`; flags, modes, filters |
| `Database` | the composition: one specification for all that shares the file |
| `MCDatabase` | the instance of `Database` |
| `Database_proofs` | theorems about the audit chain in `Database` |
| `DatabaseTables_proofs` | theorems about the rest of `Database` |

Some definitions are marked "Seeded fault": they are variants of the definition
after them, each a plausible mistake, that put a property to the test. No
specification uses them.

### Outbox

A process (the daemon, one `agent msg` per fresh message, each retry and clear
command) has a place `pc`, a copy `snap` of the file and, while it sends, the
message `cur`. `Load` copies the file; `Save` replaces it or fails. Every save
in the code is a step of its own, so a crash or another process can come
between any two of them. The daemon's pass is `PassBegin`, then for each
pending entry `PassOver` (backoff, or `AttemptSend` refuses) or `PassSend`
followed by `AttemptSend`; `AttemptSend` is the same code, and the same action,
for the retry command.

`Overlap` says whether a process may load while another one holds a copy. The
code does nothing to prevent it. With `Overlap = FALSE` the environment does
(one user, one command at a time, not during a daemon pass): this is what most
properties need, and the two violated runs and `docs/agent/tasks.md` say what
happens without it.

Retries are 2 instead of 10 and clear's threshold is 1 instead of 5. Whether a
backoff or seven days have passed is a free choice, so no property depends on
the lengths of times. `LastAttempt > 0` is `retries > 0`, since one function
sets both. `Twins` are entries stored under one ID (unsigned events, found in
real outboxes), `Garbled` ones have an event that does not parse. A killed
`agent msg` also stands for one that panics because the outbox did not load.

`Delivery` has one fate per message: new, queued, delivered, given up, removed.
Delivered is final, and a message can only leave the queue for one of the
others. The map reads the fate from the file and the acknowledgements.

### SaveFile

Names are bound to inodes; each writer opens, writes, syncs, closes, renames;
any call may fail and any process may be killed in between; a power loss
returns the directory to what was last written back and may lose what was not
synced. `scheme` is the difference between `SaveKeyStore` ("unique" temporary
names) and `SaveOutbox` (one "fixed" name); `Overlap` says whether `SaveOutbox`
calls of two processes may overlap. The map to `AtomicSave` forgets temporary files and
inodes. `Outbox`'s one-step `Save` is `AtomicSave` for a process alone in
saving, which is the case when windows do not overlap.

### Inbox

An event is a message or the answer to an event. Of a row the model keeps
whether it exists and is marked incoming (`Upsert` is the `ON CONFLICT` clause
of `StoreMessage`). The relays keep what is published, answer a subscription
with their newest `Limit` matches, pass on what arrives while it is open, and
keep only the last of one sender's events that carry no "d" tag (kind 30078 is
addressable under NIP-01). `agent msg` reaches any set of relays in one step.
Stamps of other senders need not agree with the clock: a message may have
waited in an outbox, a clock may be ahead. `storeErr` is the error `InitStorage`
keeps when the store could not be opened; from then on the daemon writes
nothing. Whether automatic answers are on is not a parameter: they are.

### KeyStore

A command loads the file into `copy`, may wait at a password prompt (`unlock`),
may save an upgraded verification token (`upgrade`), and saves the whole copy.
Saving is one step or an error, which is what `AtomicSave` promises of
`SaveKeyStore`. A key that encrypts is a pair of password and salt; what was
encrypted under one opens with no other. Fresh salts and private keys carry the
name of the command that drew them, so two are never equal. `stale` marks
commands whose copy is older than the file, and `lost` records that such a copy
was saved: the code has no protection against that, and the properties that a
lost update can break say so. The password last set, and what was acknowledged
(`owner`, `contacts`), are remembered for the properties only. Listing, lookup
and `ResolveRecipient` only read.

### Sqlite, AuditLog, Groups, Messages, Chat, Profiles, Database

`Sqlite` has two kinds of threads: shells, which run one command after the
other, each in a new process, and the goroutines of one process that stays (the
daemon or the chat screen). A statement outside of `LogAction` commits by
itself. `LogAction` reads and then writes in one deferred transaction: between
the two its snapshot can become `stale`, and SQLite then refuses the write at
once (`busy_timeout` does not apply to SQLITE_BUSY_SNAPSHOT). A process has two
handles on the file, `internal/audit`'s own with one connection, and that of
`internal/storage`.

`AuditLog` takes a hash to be the tuple of what it is computed from. `written`
remembers what `LogAction` committed. A user may edit a row or delete one,
without being able to recompute a hash that verifies (whoever does is not found
out: the chain has no key). Commands log through `Log`, which leaves the thread
at "log" and says where it goes on.

`Groups` and `Messages` have one action per statement. A group, message or
profile is named by the number of the job that makes it. In `Messages` sender
and addressee belong to one keystore, so that the commands of both write the
same row; a publication is acknowledged, taken without acknowledgement, or
refused; the text of a row is what the property tells apart (readable text,
ciphertext, placeholder, none). `PeerSends` is another program that publishes an
event, which may not decrypt or not decompress (`yields`): readers store it all the
same, the daemon with what it failed to decrypt (`daemon.go:358-366`), `agent inbox`
with a placeholder (`agent.go:413-421`), and an empty text does not replace another
(`message.go:32-80`). Events of one's own programs yield their text. `opened` is the
singleton of `InitStorage` with the error it keeps. `LegacyId` is the ID a message of
`messages.json` gets: two of them stand for messages of one second.

`Chat` has `Update` deliver keys and results one at a time, while the commands
it started run in goroutines of their own. A load reads the newest `ScreenLimit`
messages by `created_at` (`GetConversation`, 100 in the code). `created` gives every
message any stamp from the start, since clocks differ and are set back; of equal
stamps at the end of the window any may be returned. `reads`, `nth` and `shown`
number the loads, for `ScreenCurrent` only.

`Profiles` has the decision tables (`Accepts`, `Valid`, `Built`, `Matches`) as
operators over all combinations of flags and profiles, and the commands with their
relays one by one. Bounds and ratings are pointers in the code and sets of at most
one number here (`Optional`), so that 0 is a number like another. A rate may lack its
service and is then left out (`Offered`, `commands.go:177-180`). With `--json-file`
the profile is that of the file, and the other flags that describe it are not looked
at (`Made`, `commands.go:109-118`). Profiles of relays and files may have a mode or
an availability that nobody knows; `EventToProfile` does not validate.

`Database` is their conjunction: every action of one module leaves the others'
variables alone, and all meet in the transactions of `Sqlite` and in the audit
log. `Crash` kills a process, at any statement, with everything in its memory.

## 3. Runs

| Run | Result | Instance | Distinct states |
|---|---|---|---|
| `outbox_serial` | holds | 1 fresh message, 2 entries with one ID, 1 unparseable, daemon, retry, clear, 2 faults, no overlap | 243 000 |
| `outbox_overlap` | holds | 1 fresh, 1 unparseable, daemon, retry, clear, 1 fault, overlap, fair | 117 000 |
| `outbox_crash` | violated | 1 fresh, daemon, 1 fault | |
| `outbox_retry` | violated | 2 entries, daemon, retry, overlap | |
| `savefile` | holds | 2 writers, own names; and one writer at a time, fixed name; documents of 1 and 2 blocks | 198 000 |
| `savefile_shared` | violated | 2 writers, fixed name | |
| `inbox_watch` | holds | 1 own message and its answer, 2 relays, seen set of 1, 3 moments, 2 faults | 589 000 |
| `inbox_arrives` | holds | 1 own, 1 foreign message, 1 relay that answers with 1 event, seen set of 2, 1 fault, fair | 133 000 |
| `inbox_evict` | violated | 2 foreign messages, 1 relay | |
| `keystore` | holds | 3 commands, 2 nicknames, 2 passwords, plain, encrypted and legacy stores | 43 000 |
| `keystore_plain` | violated | 2 commands | |
| `database` | holds | 2 shells, 2 goroutines, 3 jobs out of one of 7 workloads, 1 fault, 2 tampered rows, 2 people, 2 legacy messages, 2 relays, a screen of 1 message, 2 stamps, prices 0 to 2 | 664 000 |

What they show:

- `outbox_serial`: `NoSilentLoss`, `NoDoubleSendUnlessFault`,
  `RecordedWhenAcked`, `StuckOnlyByFault`, `NoResurrection`, and that `Outbox`
  implements `Delivery` (`KeepsPromise`). The first and the last hold through
  faults; the ones that say "unless fault" do not, and say so.
- `outbox_overlap`: what is left when copies overwrite each other. A status is
  still earned and the count stays within the budget plus the manual retries
  (`retry` asks for no budget). `Settles`: in the end nothing is left that a
  pass would send.
- `outbox_crash`: `daemon.go:187-189` says the saves inside the helpers keep a
  daemon crash after a publish from sending twice. They come after the publish;
  a crash in between, or a failing save, sends twice.
- `outbox_retry`: `specs/m1.5/tasks/08-daemon-outbox-diagnostics.md:34` asks
  that `retry --id` leave other entries alone. Its saves write back its copy of
  all of them.
- `savefile_*`: with one writer, or with temporary files of their own, saves
  are atomic; with the shared name two writers publish a mixture. The outbox
  has the shared name; `keystore.go:94-104` explains why that is not enough.
- `inbox_watch`: `ArrivalKept` is the promise of `message.go:37-45`: sender and
  daemon may write the row in either order. `AnsweredOnce` holds over relays,
  polls, crashes and restarts, except for events whose row was not written or
  that were left out of the seen set; both exceptions are needed. That answers
  are not answered is the guard `shouldAutoReply` itself, and is not stated as
  a property.
- `inbox_arrives`: `Arrives`, under the premises that make it true: the relay
  is reached again and again and the message is among its newest `Limit`
  matches. A message in a longer burst, or stamped before the daemon started,
  is not covered, and the code does not fetch it. The run also has a seen set
  that evicts one of two.
- `inbox_evict`: `agent.go:64-68` says messages without a "d" of their own
  would evict each other; the daemon's answers have none.
- `keystore`: `OneKeyOpensAll` holds whatever overlaps, fails or is killed,
  since every saved copy is consistent in itself. `KeysSurvive` and
  `StaysEncrypted` hold as long as no stale copy is saved; two commands that
  overlap can lose an identity, and an old copy can bring back plain keys.
- `keystore_plain`: `docs/agent/spec.md:54` says the nsec is encrypted. In an
  encrypted store `identity create` writes it in the clear, and
  `create --password` leaves the identities from before in the clear. Such a
  key cannot be exported or used (both try to decrypt it), and every later
  change of password fails at it.
- `database`, audit log: `ChainVerifies` for every interleaving, fault and kill
  without tampering. `TamperEvident` says what `audit.go:3-5` can promise: a
  chain that verifies is a prefix of what was logged, so the deletion of its
  last rows is the one thing that does not show. `DroppedOnlyByOthers`: entries
  of one process do not cost each other an entry; those of two processes do, and
  so does any commit through the other handle of the same process.
  `LogTellsTruth`: no entry says of a group or a message what did not happen.
- `database`, groups: `CreatorIsAdmin`, also while another process adds the
  creator, or finds the group before its members are in.
- `database`, messages: `LegacyKept` and `LegacyOnce` through crashes between
  commit and rename and through two migrations at once. `SentIsStored` names
  what makes `agent msg` report a message as stored that is not: its output
  does not depend on the write, and a process that lost the race for the
  migration keeps the error and stores nothing. `TextKept` names the two writers
  that put something unreadable over readable text. What fails to decrypt or to
  decompress is stored by all readers and is not among them: it never had a
  text to replace.
- `database`, chat: `NothingVanishes` also holds where the comment of
  `sendMessage` (`model.go:343-346`) promises less than the code does: the code
  reports an error for a message that is stored and not published.
  `ScreenCurrent` says of every submitted message that could be stored that the
  screen shows it once all is at rest, or is full of messages that are not older:
  a hundred newer ones, or ones with stamps ahead of the clock, do keep a message
  just sent off the screen. It excuses the time in which the load that is shown is
  not the one read last: the results of two loads are not ordered, and nothing
  loads again until the next message is sent.
- `database`, profiles: `NothingDropped` over all 30 720 combinations of flags: what
  `publish` accepts is in the profile. It names what is not: blank tags, and a
  `--rate` without a service name, which go without a word (`commands.go:177-180`).
  It is about flags without `--json-file`; beside it the code ignores `--name`,
  `--mode`, `--tags` and the rest silently, and no property calls that right.
  `FoundAsPublished` puts `publish`, `Validate` and `discover` together: of a
  profile made from flags any of 256 combinations of filters finds just what was
  stated, a bound of 0 included; a valid simple or tagged profile, from a file
  too, is found only without a filter. `FreshAfterDiscover` is about relays that
  agree; if they do not, the last one read wins, whatever its age.

Why the bounds are enough: every comparison in the code has instances on both
sides (retries below, at and above the budget and the threshold; the seen set
below and above its size; fewer and more matches than `Limit`). Faults come in
pairs where a second one meets the traces of the first: a failed removal after
a failed mark, a crash during recovery. Two processes with overlapping windows
suffice for a lost update, and a third (the fresh sender) is there. The action
coverage of the passing runs together is complete.

In `database` a behaviour does the jobs of one workload, since jobs that touch
none of the same rows meet only in `Sqlite` and in the audit log, which every
workload has. A screen of one message is full with the first; two stamps put any
of three messages before, beside or after another. Three prices are one below, one
within and one above a range, with 0 among them. Three jobs are two that overlap and one before or after; two
goroutines and two shells give two threads in one process and two in different
ones, the two cases that SQLite treats differently. Three commands on one
keystore are two that overlap and a third that sees the result.

Deadlock checking is off in `keystore` and `database`, where commands end and
nothing needs to follow. Elsewhere the daemon can always take another tick.

Symmetry is used in `savefile` (writers), `inbox_watch` (relays), `keystore`
(commands, nicknames, passwords) and `database` (shells, goroutines, legacy
messages), which check no liveness property.

### Fairness

- Daemon steps: weakly fair. The loop runs, and `docs/README_DAEMON.md` has
  launchd restart the daemon (`KeepAlive`).
- A retry pass: strongly fair. `select` picks among ready tickers at random, so
  a ready retry tick is not passed over for ever by the cleanup.
- `PassSend`: strongly fair. The backoff is capped at five minutes and each
  pass offers the entry again.
- A started retry or send command runs on (weakly fair). Whether a user starts
  one, or answers clear's question, is not assumed.
- Watch: each relay is tried in each tick, with success or not. Handling an
  event that is delivered again and again is strongly fair: it is not for ever
  cut off by the end of the three-second window. That the relay can be reached
  is a premise of `Arrives`, not an assumption on the system.
- Crashes and failed writes are bounded in number, and never fair.

## 4. Proofs

The theorems hold for every value of the constants that satisfies the named
assumptions of the modules, whatever the number of processes, messages,
commands, jobs, faults and manipulations.

**`Outbox_proofs`, `OutboxLoss_proofs`, `OutboxSerial_proofs`.** Assumed: process
and message names are distinct, the retry budget is positive, the other bounds are
natural numbers, the retry commands are finitely many. "Without overlap" is the
premise `~Overlap` of a theorem; `outbox_retry` and `docs/agent/tasks.md` show what
happens otherwise.

- `TypeCorrect`: `[]TypeOK`. Inductive with `Aims`: a process in the middle of
  an attempt has a message, without which the entry it writes would be
  undefined.
- `StatusEarned`: `[]StatusIsEarned`, with or without overlap. The invariant has
  to hold of every process's copy as well as of the file, since any copy may
  become the file; and a process that is about to write "sent" has an
  acknowledgement, one about to give up has used up the retries in its copy. The
  proof has a lemma for one process's move and a lemma per process kind.
- `NothingLost`: without overlap, `[]NoSilentLoss`. `KeepInv` says that every
  queued message is accounted for in the file, and also in the copy of the
  process that holds one (there is at most one); `TodoInv` says that what the
  daemon's pass has still to look at is in its copy. `AllInv` is their
  conjunction with the two invariants above. `OperationKeeps` is the step where a
  shared ID matters: `RemoveFromOutbox` removes nothing when two entries have the
  ID.
- `RetriesBounded`: `[]RetryBound`, with or without overlap. The bound on the file
  is not inductive: the count in the file and in every copy is at most the budget
  plus the number of retry commands that have counted their attempt (`WithinInv`),
  and the daemon raises a count only below the budget (`PassInv`).
- `AckedRecorded`: `[]RecordedWhenAcked`, with or without overlap: between the
  acknowledgement and the row the message is in the hands of one process.
- `NothingResurrected` (`NoResurrection`) and `PromiseKept` (`Spec => KeepsPromise`,
  the refinement of `Delivery`), without overlap. `SerialInv` adds to `AllInv` that
  a copy follows the file (`Follows`): it lists nothing the file does not list, and
  of an unacknowledged message it says what the file says, except for a "failed"
  that is not saved yet. Every step is first reduced to one of five effects on file
  and ghosts (`Effect`), and those are mapped to the fates.
- `NothingSentTwice` (`[]NoDoubleSendUnlessFault`) and `NothingStuck`
  (`[]StuckOnlyByFault`), without overlap, from `FaultlessInv`: while nothing failed,
  the one copy is the file, what is acknowledged and still listed is being taken out,
  and what has no retries left is being given up.

**`SaveFile_proofs`.** Assumed: finitely many writers, documents of at least one
block, enough inodes for each of the writers to have one open beside the two
that are published. The theorems have the premise `~Overlap \/ Schemes \subseteq
{"unique"}`: `SaveKeyStore` without restriction, `SaveOutbox` when saves do not
overlap. `savefile_shared` shows that they fail without it.

- `Complete` (`[]NeverTorn`), `Final` (`PublishedIsFinal`) and `Implements`
  (`Spec => SavesAtomically`, the refinement: opening begins, the rename commits,
  the removal aborts, a write-back flushes, everything else stutters).
- The inductive invariant `Inv`: no two names are bound to one inode, nor a
  temporary name to the published one (`Apart`); so the inode a writer fills is
  its own, and how full it is follows from the place the writer is at
  (`Progress`); what it renames is therefore complete and synced (`Published`).
  `InodeLeft` counts inodes, to show that a new file gets one nobody uses.

**`Inbox_proofs`.** Assumed: finitely many messages, own and foreign ones apart, a
positive `Limit`, and evictions that take at least one event and not more than the
seen set holds (`seenEvictBatch`, `maxSeenEvents`).

- `TypesHold` (`[]TypeOK`), with the strengthening that answers have answers only up
  to the bound on their number (`Answerable`).
- `ArrivalsKept` (`ArrivalKept`): no writer takes "incoming" back.
- `AnsweredAtMostOnce` (`[]AnsweredOnce`), from `OnceInv`: an event that was answered
  has its row and, while the daemon runs, is in the seen set (`Remembered`), unless it
  is one of the two named exceptions. The restart is the step that needs the first
  part: it fills the seen set from the newest rows, which `Recents` takes in any order
  among equal stamps; the lemmas about it and about eviction come first.

**`KeyStore_proofs`.** Assumed: "nobody" is not a command, nickname or password.

- `TypesHold` (`[]TypeOK`) and `OneKey` (`[]OneKeyOpensAll`), from `SoundInv`:
  not the file alone but the copy of every command is consistent under one key,
  also halfway through a change of password, since any of them may be saved.
- `Survival` (`[]KeysSurvive`) and `Encryption` (`StaysEncrypted`), from
  `SurvivalInv`: a copy that is not stale agrees with the file except for the
  form of the token (`Current`), and until a stale one is saved the file gives
  back all that was acknowledged (`Faithful`). `KeysSurvive` alone is not
  inductive: a command could save a copy that says something else.

**`Database_proofs`.** About the whole composition, not `AuditLog` alone.
Assumed: what `Database` and its parts assume of their constants.

- `Chain` (`[]ChainVerifies`) and `Tampering` (`[]TamperEvident`), from `LogInv`:
  what `LogAction` committed carries the hash of a row numbered one less
  (`WrittenOK`); a row of the table is one that was committed, or an edit of one
  (`StoredOK`); without tampering there are no gaps (`ChainOK`); between its
  SELECT and its INSERT a thread holds the number and hash of the last row as
  its tail, or its snapshot is stale and the INSERT will fail (`TailOK`). That
  is why one deferred transaction is enough. Every other action of the
  composition is shown to leave the log alone (`Untouched`).

**`DatabaseTables_proofs`.** About the whole composition. Assumed, beside bounds that
are natural numbers: shells, goroutines, people and the fixed names are distinct;
`messages.json` is missing, readable or not; prices and stamps are integers, the limit
of a load is positive; and a resident process is the daemon or the chat screen, so that no workload has
a chat and the daemon's jobs (`ChatAssumption`).

- The inductive invariant `TablesInv` has a part for every module: `SqliteInv`,
  `LogInv`, `GroupInv`, `MailInv`, `ReadableInv`, `ChatInv`, `FactInv`, `ProfileInv`. A step of one
  module leaves the variables of the others alone and takes no thread to their places
  (`PlainFrame` and the Frame lemmas), so that each part is shown for its own steps.
  It gives `TablesTypesHold` (`[]TypeOK`).
- `CreatorKept` (`[]CreatorIsAdmin`), from `GroupInv`: while a group is being made, nobody
  is in it before its creator, so that no `add-member` of another process can have
  put them there as a plain member.
- `LogIsTrue` (`[]LogTellsTruth`), from `FactInv`: what a thread is about to log is
  true by then and stays true, also the entries of a thread that waits at "log".
- `LegacyIsKept`, `LegacyIsOnce`, `SentStored`, `TextIsKept` (`[]LegacyKept`,
  `[]LegacyOnce`, `[]SentIsStored`, `TextKept`), from `MailInv`: who renames has
  committed all legacy messages, under the same IDs as anyone else; who stores has
  opened the store or has the error it got; only two kinds of message carry a text that
  is not the plaintext. `TextIsKept` also needs `ReadableInv`: no message whose text is in
  the history is one that does not decrypt, since a text is stored only of a message that
  yields one, and a message cannot be received before it was published.
- `DropsExplained` (`DroppedOnlyByOthers`), with `HandleInv` (a process has one
  transaction at a time, and no commit through its own handle outdates it) and
  `ResidentInv` (the goroutines of the chat screen do not log).
- `NoneVanishes` (`[]NothingVanishes`), and `ScreenIsCurrent` (`[]ScreenCurrent`) from
  `ScreenInv`: a message whose result came without an error is in the history, and a load
  is still to come, or what the load read last brings covers it (`LastCovers`), whether
  it is under way or on the screen. That holds for any limit and any stamps, since the
  newest of a set of messages cover each of them (`Newest`).
- `BuildsWhole` (`[]NothingDropped`) and `FoundAsSaid` (`[]FoundAsPublished`): the decision
  tables of publish, Validate and discover together, for any set of prices. They rest on
  `BuiltIs`, what the profile of accepted flags consists of.
- `DiscoverIsFresh` (`[]FreshAfterDiscover`), from `ProfileInv`.

Only model-checked: the liveness properties `Settles` and `Arrives`, which rest on
fairness and ENABLED and are out of the prover's reach. Every other property that a
passing run checks is a theorem.

## 5. Plan

1. Sender and receiver together: `Outbox` delivering into `Inbox`, for what a
   queued message does after a restart of the receiving daemon.
2. Identity and contact commands as threads of `Database`, for their log
   entries, with `KeyStore` as the file they share.
3. Theorems about what these add. Of the present models, every safety property is
   proved; the premises of the theorems (no overlap, no stale copy) are the ones the
   violated runs show to be needed.

## 6. Not modelled

- The relays' protocol and storage, the network, SQLite and the file system are
  environment, taken from how the code uses them. The pragmas and the creation
  of tables (`CREATE TABLE IF NOT EXISTS`, `ALTER TABLE`) are taken as done;
  `PRAGMA foreign_keys` reaches one connection of a pool, and nothing here
  depends on it.
- Wording, colours, JSON envelopes, notifications, layout and scrolling of the
  TUI, its list of contacts.
- NIP-44 and zstd: a message can be read or it cannot, with what each reader then stores.
- The generic Nostr commands: they keep no state.
- Queries, lists, searches and statistics: they only read. So do `profile show`
  and `group list`.
- Code without a caller: `DeleteMessage`, `AddMessage`, `SaveMessageStore`,
  `DeleteGroup`, `StoreGroupMessage`, `DeleteProfile`. `group remove-member`,
  `delete` and `chat` print that they are not implemented.
- Roles, descriptions and nicknames of group members; names of groups: all have
  one, so that which group a name means is always open.
- That commands which sign (`agent.go:126`, `profile/commands.go:90`,
  `tui/model.go:100`) load the keystore without unlocking it, so that they fail
  on an encrypted one: a fact of every run, not of an interleaving.
- `scripts/minirelay.go`, a stand-in for a relay in test scripts.
