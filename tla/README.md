# Bus traffic demo: models and proofs of its account life cycle and its store

The application (`src/BAT/BusTrafficDemo`, Swift, iOS) signs people in with
Firebase Auth, keeps a profile of each in the Firebase database, and has four
augmented-reality screens: a bus timetable, a transport card, the nearest
stations and the weather. Its C and C++ code is in the pods it is built from:
leveldb, in which the Firebase database persists what it has synchronised, and
nanopb, with which the pods encode diagnostics. This directory holds TLA+ models
of the parts in which several things happen at once or in which a mistake would
lose data, the TLC runs that check them, and TLAPS proofs about the most
important of them.

    tlc -config Durability.cfg MCDurability.tla    # any run of PROJECT.json
    tlapm SessionProofs.tla                        # any module with proofs

Paths below are relative to `src/BAT/BusTrafficDemo` (application) or to
`src/BAT/Pods/leveldb-library` (leveldb) unless they name another pod.

Two things about reach. The application never enables the persistence of the
Firebase database, so leveldb is compiled and linked but its code runs only if
that is switched on; the C binding (`db/c.cc`) and with it `RepairDB` and
`DestroyDB` have no caller at all; nanopb is reached through the diagnostics of
FirebaseCore. They are modelled because they are the code here that is hard to
get right. The share of lines covered counts the C-family files only; a helper of
an operation is mapped to the lines of it that the helper abstracts, often the same.

## Inventory

### Application

| component | state | operations | talks to |
|---|---|---|---|
| authentication client (`Pods/FirebaseAuth`: FIRAuth, FIRUser, FIRAuthKeychain) | `_currentUser`, the keychain item, requests in flight; at the backend the accounts | signIn, createUser, sendPasswordReset, reauthenticate, delete, signOut, forced sign-out, launch | backend over the network; completions on the main queue |
| login, register (`Features/Login`, `Register`) | the presenter's `view`, the HUD, alerts | login, forget password, create an account and write `users/<uid>` | client, database, navigator |
| settings (`Features/Settings`) | the presenter's `view`, its alerts | log out, deactivate (reauthenticate, delete, remove the profile) | client, database, user manager, navigator |
| home, navigator, app delegate | the root controller, the navigation stack | launch, set root, check that a user is logged in | user manager, reachability |
| user settings, AR timetable, AR card, stations, weather, provider, reachability | see `PROJECT.json` | not modelled | database, ARKit, MapKit |

What is hard: four threads of control (touches and completions interleave on the
main thread, `_currentUser` changes on Firebase's work queue, the backend and the
database answer on their own); views that die before their closures run;
`Auth.auth().currentUser` read again and again, each time perhaps another;
failures in the middle (an account without a profile, a keychain that refuses, an
answer that is lost after the backend acted, a process that is killed); one HUD,
one alert, one root controller shared by all.

What makes it correct: the user in memory is the one a launch would restore; an
answer affects only the session it belongs to; every request is answered; no late
answer takes the session from a user inside the application; a screen that was left
is silent; the account that is deleted should be the one whose password was checked
(it is not, see the disagreements); the HUD ends.

### leveldb

| component | state | operations | what makes it correct |
|---|---|---|---|
| write path (`db/db_impl.cc`) | mutex, queue of writers, log, memtable, the one that is flushed, background error | Write, MakeRoomForWrite, CompactMemTable, manual compactions, destructor | what was answered ok is in a log or table that a restart reads; a number is given once; calls return |
| versions and compaction (`db/version_set.cc`, `db_impl.cc`) | files in levels, versions pinned by readers, pending outputs | flush, pick, compact, move, remove obsolete files, Get | reads see the newest entry of their snapshot; no file in use is deleted |
| recovery (`db_impl.cc`, `version_set.cc`) | CURRENT, MANIFEST, logs, tables on disk | create, open, replay, reuse, log an edit | whatever crashed when, the database opens and has what was promised |
| log format (`db/log_*.cc`) | a file of blocks of fragments | AddRecord, ReadRecord | what is whole is read back, damage is local |
| repair (`db/repair.cc`) | directory and `lost/` | archive, convert, extract, describe | nothing readable is lost |
| tables (`table/`, `db/dbformat.cc`) | blocks, index, filter, footer | build, open, seek, walk, InternalGet | every iterator is a cursor over what was added |
| iterators (`table/merger.cc`, `db/db_iter.cc`, `version_set.cc`) | children, direction, saved key | seek and walk both ways | the cursor over a snapshot |
| caches (`util/cache.cc`, `db/table_cache.cc`) | hash chains, two lists, counts | insert, lookup, release, erase, prune | an entry in use stays, the deleter runs once |
| memtable (`db/skiplist.h`, `memtable.cc`, `util/arena.cc`, `port/atomic_pointer.h`) | nodes and links, blocks | insert; seek without a lock | readers miss nothing and read nothing uninitialised |
| environment (`util/env_posix.cc`) | lock table and fcntl locks, work queue, limiters | LockFile, Schedule, open for reading | one holder, work in order, nothing leaks |
| coding (`util/`, `db/version_edit.cc`, `write_batch.cc`, `filename.cc`) | none | encode and decode | read back, refused when cut |
| C binding (`db/c.cc`) | handles and messages | create, use, destroy | memory belongs to who has the handle |

nanopb (`Pods/nanopb`) encodes and decodes messages from descriptions of their
fields, with streams, callbacks, arrays, unions and extensions; base 64
(`Pods/FirebaseDatabase/.../SocketRocket/fbase64.c`) is what the web socket's
handshake uses.

`PROJECT.json` lists every component with its status, and every hazard at its
line with the properties that watch it.

## Modules

`AuthClient` is the model of the vendored client; `Session` takes the client's
actions from it and adds what the application does around them, so every step of
the session is one of the client or leaves it alone by construction. For leveldb an
abstract module says what a component promises, and the detailed one implements it:

| abstract | detailed | by |
|---|---|---|
| `KVStore` (a map with snapshots) | `Lsm` (levels, versions, compactions) | TLC |
| `CacheSpec` (entries, clients, least recent first) | `LRUCache` (chains, lists, counts) | TLC |
| `Cursor` (a position in a sequence) | `Block`, `Table`, `Iterators` (merging, database) | TLC |
| `LockSpec` (at most one holder) | `FileLock` (fcntl locks and the table of names) | TLC, for one thread in each process |

The others state their properties themselves: `WriteQueue`, `Recovery`,
`LogFormat`, `Repair`, `TableCache` (over `LRUCache`), `MemTable`, `AtomicPointer`,
`Arena`, `Background`, `ReadFiles`, `CApi`, `Nanopb` (over `Pb`, the encoder and
decoder as operators), and the pure `Keys`, `BlockFormat`, `Coding`,
`VersionEdit`, `WriteBatch`, `Crc32c`, `Base64`. The theorems about a component `X`
are in `XProofs`, those about a composition in its `MC` module.

`MCStore`, `MCDurability`, `MCReading`, `MCFormats`, `MCShared` and `MCProgress`
each check several small instances in one run: a variable `part`, chosen in the
initial state and never changed, says which instance a behaviour belongs to. Only
that instance's variables change, and a property `part = "x" => P` is about it
alone. Every instance has the whole of its module's `Init` and `Next`.

### AuthClient

`account` is the backend's table; `user` is `_currentUser`, `keychain` the
archived user, both as uids; `calls` the requests whose completion has not run.
A call moves through phases, and each move is an action of its own because other
things happen in between:

    idle --Send--> sent --Backend--> ok | noUser | failed --Receive--> done.. --Complete--> idle

- `Send` (SignIn, CreateUser, SendPasswordReset, Reauthenticate, Delete): the
  method returns at once. Reauthenticate and Delete are messages to
  `currentUser`; with nobody signed in there is no call.
- `Backend`: it accepts (and may open or delete an account) or refuses; either
  way the device may see an error instead of the answer. This covers time-outs.
- `Receive`: the block on the work queue. `UpdateCurrentUser` saves to the
  keychain before it assigns, and does not assign if saving fails;
  `ForceSignOut` assigns even then. `ReceiveSession` is the sign-in flow of both
  signIn and createUser.
- `own` records that the `FIRUser` object a deletion was called on is still
  `_currentUser`. `signOutByForceWithUserID:` compares uid strings by pointer,
  so this object, not the uid, decides. `Replaced` clears the field in every
  step that assigns `_currentUser`.
- `Complete`: the completion block has run on the main queue.
- `RejectToken`: a token refresh of the current user is refused, which happens
  after a deletion, or at any time when `revoke` is among the faults.
- `Restart` merges the end of the process with the next launch: nothing of the
  client runs in between, the backend's steps commute with it, and a creation or
  a deletion it has not seen yet stays as an orphan that may still be executed.

### Session

Adds the records under `users/` (`profiles`), the FIFO of database writes, the
FIFO of blocks on the main queue, and the views. A slot of `Calls` is one closure
chain (touch, request, database write, alert). Correspondences worth knowing:

- One main-queue block is one step, with one exception. The closure of a
  deactivation reads `currentUser`, sends `delete`, and reads `currentUser`
  again while the work queue runs on: it is split into `ReauthCompleted` and
  `FinishDeactivate`, and the main thread runs nothing else in between.
- `live[c]` says that the view controller that started the chain exists, and
  `Attached(c)` that its presenter still has a view. Replacing the root frees
  all of them; popping the settings frees it when the transition ends
  (`SettingsDisappeared`).
- `leaving` is the time of a transition, in which UIKit delivers no touches.
- `Present`: UIKit presents nothing while an alert is up and drops the request.
- `ReplaceRoot` may bring up the "no network" alert of the new root at will,
  since reachability is not modelled; its only button ends the process
  (`Relaunch`), so no touch is possible behind it.
- `Relaunch` is Restart plus loss of both queues: writes that have not reached
  the server are not persisted by the application's configuration.
- A registration without a user (`doneNil`) leaves the HUD as it is, or crashes
  when the nil uid is used as a path, which is a `Relaunch`.

### leveldb, and what its models take for granted

- **WriteQueue**: an action runs from one point at which the mutex is released to
  the next. `mutex` is who has it; a client waits for its turn in `writers`, for
  the background (`bg_cv_`), or works without the mutex (`append`, `sync`). Logs
  and memtables are sequences of writes; a compaction's output is abstracted to
  the number of level-0 files and to `chunk`, what is left of a manual range.
- **Lsm**: entries, tables and levels, with the version that each reader has
  pinned and the pending outputs of a compaction; user keys are small numbers.
  Sizes are counts of entries.
- **Recovery**: files are synced or not. A kill loses nothing that was given to
  the operating system, a loss of power any part of what was not synced, except
  that operations on the directory are durable in the order of the calls. Two
  crashes, so that a recovery is itself interrupted.
- **LogFormat, Table**: a checksum is an injective value of what it covers, so a
  changed cell is seen. `Crc32c` checks the ground for that: the scaled-down
  checksum differs whenever one byte does. `ChecksumSees` also compares it with
  the remainder by the polynomial. A varint, a word or a byte is one cell.
- **Coding, VersionEdit, WriteBatch, Crc32c, Base64, Nanopb** work on bytes of
  two to four bits and words of six to eleven, so that every width's edge is
  reached by every small input. The loops, shifts and guards are the source's.
- **Iterators**: writes fall between its operations and not inside one; an
  operation reads a memtable whose entries above its snapshot it ignores.
- **MemTable** is sequentially consistent and link by link; **AtomicPointer** has
  the same list over a memory with views, in which a load without a barrier may
  return any store not older than what the reader has seen. One reader, as
  readers share nothing.
- **LRUCache**: the table starts with one chain (the source: four), so that three
  keys resize it.
- **Repair** is killed or has failing calls, not both, and repairs again. A read of
  a table that fails, in the scan or in the copy, gives any part of the table; the
  histories `misread` and `risked` name the tables it happened to, and what a copy
  cut short by it lacks when its original could not be archived.
- **Nanopb**: `PB_FIELD_32BIT` and no `PB_ENABLE_MALLOC`, as the pod is compiled;
  streams are buffers, a stream whose callback fails half-way is left out.
- **CApi** has one handle of a kind and one key. Calls may fail half way: `kept`
  holds the contents the database may have when it is opened again. A write whose
  sync failed may or may not be among them; a `DestroyDB` that fails has deleted what
  it could, and one that cannot list the directory answers OK and has deleted
  nothing; a `RepairDB`, whether it fails or not, may leave any key at an older value
  or without one. An append to the log fails in `WriteQueue` only.
- `MemoryBarrier` is that of `OS_MACOSX`, the others are not told apart.

## Runs

| run | instance | shows |
|---|---|---|
| `auth_client` | 2 accounts, 2 calls, all faults | the session in memory is the one in the keychain; an answer ends only its own session; every call is answered |
| `session` | 2 accounts, 2 chains, keychain and database faults | late completions neither alert nor sign out where they should not |
| `session_sequential` | 2 accounts, 1 chain, failing loads and lookups, rejected tokens | the login screen means nobody is signed in; the spinner ends |
| `deletes_verified` | 2 accounts, 2 chains, no fault; violation | a sign-in answered during a deactivation becomes the account that is deleted |
| `success_is_true` | 1 account; violation | "has been deactivated" stays up over an account that is there |
| `store` | 3 writes, 2 keys; snapshots, pinned readers and failing writes, manual ranges | flushes and compactions are invisible, and delete no table in use |
| `durability` | queue: 3 clients, 4 calls, five faults; recovery: 2 writes, 2 kills or losses of power; log: 4 records, cut or damaged; repair: 3 failures or 2 kills | what was answered ok is there, whatever happened |
| `reading` | blocks of 6 entries, one changed cell; a table of 5 keys whose file fails, one of 3 with a changed cell; databases of 3 writes | every iterator is a cursor, damage is reported |
| `formats` | every small input | encodings against their definitions |
| `messages` | messages of every kind of field, cut anywhere, every size of the buffer | what is encoded is decoded, or refused |
| `shared` | one object at a time, 1 to 3 threads or processes | caches, list, memory, lock, background thread, files and handles |
| `progress` | 2 clients, 3 calls; levels, restart, searches, scheduled work | calls return, compactions settle, a database opens again |

Properties, where the name does not say it: `QueueDurable` (a write answered ok is
in a live log or a table that the descriptor has, and a sync one is durable
before it is answered), `SequenceUnique` (no number is given to two writes,
failed ones included), `QuietWhenClosed` (no background work after the
destructor), `NewerAbove` (of a user key a level has newer entries than those
below), `LiveFilesExist`. `CacheAgrees`, `ReadersFind`,
`SystemShared`, `RecordsReadBack` and others are conjunctions with a part for
each object; the comment above each names them.

Bounds. Two accounts are enough for "somebody else's session": the properties
compare at most two uids. Two chains give every race of a pair of requests.
`MaxWrites` of `Session` bounds the writes that wait when a touch is made. Three
clients of the queue give a leader, a member of its group and one that waits
behind it; four calls fill a memtable while another is being flushed. Three
writes to two keys, with a table limit of one, reach compactions into three
levels and a second one over their result. Two crashes interrupt the recovery
from the first. `MaxNumber` and `MaxFiles` bound file numbers and are never
reached where a run says so. Symmetry is over threads, uids and slots and only in
runs without liveness.

Restricted on purpose, because the code promises no more: `LoginMeansSignedOut` is
checked with one chain and with no fault of the keychain's or the database's writes
(a failing log-out is printed and ignored, a failed profile write leaves a user at
the login screen, a second sign-in may be answered there), so of those hazards it
shows nothing; `EndsOnlyOwnSession` excepts a creation whose lookup failed
(FIRAuth.m:988); saving to the keychain and assigning `_currentUser` are one step;
`Kept` and `Described` of a repair except what failing reads lost; `NewerAbove` where tables are not cut; `ImplementsStore` not while
readers have failing writes; the queue without a failed append; `SystemShared`
takes the lock among processes for one thread each. The disagreements below say
what happens otherwise.

Fairness. Of the application: weak fairness of the backend's answer (a request
ends with an answer or a time-out), of the work queue, of the main thread and of
the end of a transition; touches, faults, restarts, token rejections and database
writes have none (the SDK holds a write for ever without a connection). Of
leveldb: threads that have the mutex run and those that wait for it get it in
the end (strong fairness, since it is taken and given up again and again);
conditions that are signalled are taken; an opening that failed is tried again;
a reader steps, while the writer need not. Nobody has to call, write or close.
CHECK_DEADLOCK is off where all calls or inputs are used up in the end.

## Disagreements

Two have a run. `success_is_true`: `showSuccess` does not wait for the deletion
(SettingsPresenterImpl.swift:51; the alert's text is SettingsViewController.swift:105).
`deletes_verified`: the completion of the reauthentication deletes whoever is current
by then (SettingsPresenterImpl.swift:40). Two sign-ins are sent from the login
screen, the first is answered and opens home, its user deactivates the account and
is reauthenticated, the second sign-in is answered, and its account is deleted, under
an alert titled "Deactivate your account" (SettingsViewController.swift:80).
Others were met while modelling, and are stated here without a run:

| where the code | does | while |
|---|---|---|
| FIRAuth.m:988 | a creation whose lookup fails is a success with a nil user | FIRAuth.h:575 "on success, signs in" |
| FIRAuth.m:1247 | uids are compared by pointer: an account that signed in again during its deletion stays signed in | FIRUser.h:437 "also signs out the user" |
| RegisterPresenterImpl.swift:42 | a failed profile write leaves the HUD up | SVProgressHUD/README.md:9 "progress of an ongoing task" |
| db/db_impl.cc:616, 757 | a manual compaction that ends early leaves a pointer that is read again | db_impl.cc:762 |
| db/db_impl.cc:1365 | the full log is closed without a sync | options.h:199-201 |
| db/db_impl.cc:1224 | a failed append is no background error; later synced records stand behind a partial one | options.h:188-190 |
| db/version_set.cc:1350 | of two files that share a user key one may be moved below the other | version_set.cc:345-347 "entries never hop" |
| db/db_impl.cc:539 | a flush within a manual compaction may choose a level in the gap it fills | version_set.cc:765-767 "Must not overlap" |
| db/db_impl.cc:196 | CURRENT may name an empty MANIFEST after a loss of power | db_impl.cc:276-278 |
| db/db_impl.cc:463 | a torn log is written after when it is reused | options.h:193-196 |
| db/log_reader.cc:90 | resynchronising ends at a first fragment that was skipped | log_reader.h:79-81 |
| db/repair.cc:193 | a changed byte goes into a table | repair.cc:189-192 |
| db/repair.cc:330 | a table whose copy cannot be made is left, and deleted later | repair.cc:317 |
| db/repair.cc:305 | a read that fails in the scan leaves the range and the greatest number of what was read before it, the copy has more | repair.cc:7-9, 13-14 "largest sequence# found across all tables" |
| db/repair.cc:337 | the status of the copying iterator is not looked at: a copy in part takes the place of a table that could not be archived (363) | repair.cc:317 "archives input file", db.h:155-156 |
| db/repair.cc:398 | tables at level 0 are ordered by number and not by content | version_set.cc:358-359 |
| table/table.cc:51 | the footer has no checksum | options.h:162-163 |
| table/table.cc:185 | a block cached unverified is returned to a read that verifies | options.h:162-163 |
| util/cache.cc:58 | with capacity 0 `next` is not set and key() reads it | cache.h:50 |
| util/cache.cc:355 | unused entries may exceed the capacity | cache.h:28 |
| util/env_posix.cc:471 | a refused LockFile gives up the lock of the process | env.h:112-113 |
| db/db_impl.cc:1539 | a directory that cannot be listed counts as empty: OK, and nothing is deleted | db.h:151 "Destroy the contents" |
| db/db_impl.cc:1562 | the lock file is deleted after it is unlocked | env.h:112-113 |
| util/env_posix.cc:200 | a read over the end of a mapped file fails | env.h:206-208 |
| nanopb/pb_decode.c:947 | 32 or 64 required fields: shift by the width, read past the array | pb.h:129 |
| nanopb/pb_encode.c:257 | an array [0, 5] counts as empty | pb_encode.c:227-228 |
| nanopb/pb_decode.c:260 | a message cut in a tag ends well | pb_decode.h:53, 119 |


## Proofs

`AuthClientProofs` proves, for all sets of accounts, calls and faults (the only
assumptions are that `NoUser` is not an account and that `Faults` are known
ones), `Typed`, `Persisted`, `Owned` and `EndsOnlyOwn`. The inductive invariant
`IInv` adds two facts about answers to the three invariants: `DeletionsHappened`
(an accepted deletion has happened at the backend) and `CreationsNamed` (an
accepted creation names its account). Without the first a forced sign-out could
not be blamed on the deleted account, without the second a sign-in answer could
sign out. Steps that replace the user share one lemma, `ReplaceInv`, over any
table of calls that `Follows` the old one.

`SessionProofs` shows that every step of the session is a step of the client or leaves
it alone (`NextRefines`), which carries the client's invariant over to the session, and
on top of it proves `Typed` and `AlertsBelong`. The strengthening is
`ChainsOfScreen`: a chain whose view is alive and which still has work at the
client, in the database or on the main queue belongs to the kind of screen the
application is on. `AlertBelongs` alone is not inductive, because it says nothing
of the blocks that will present alerts later. `Client` there is
`AuthClientProofs` over the session's variables; the `Same...` lemmas identify
its definitions with those of `Auth`. `Typed` needs `CreationsNamed`: it is what
makes the uid of a profile write an account. `InsideKept` has the restriction of its
run as a hypothesis (no `revoke` or `lookup` among the faults), and rests on
`LookupsSucceed`: no account is created and then not found.

`WriteQueueProofs` is about every set of clients, calls, limits and faults; only
`Durability` assumes, as the run does, that no append fails. Its invariant has
four parts: *Queue* (`writers` holds those who wait, each once, and only the front
works; a group is the writes of a prefix of the queue), *Store* (types, and what
the background thread holds while it works without the mutex), *SequenceInv*
(numbers ascend through the logs, and only the record in flight may be above
`last_sequence`) and *DurableInv* (an answered write is in a table, in `imm` or in
`mem`, and a synced one in a synced part of a log or in a table as well). Steps
are sorted by what they touch (a client that enters, rechecks, works inside or
outside the mutex, the background, the destructor), with a lemma for each kind.
Besides the run's three properties it proves `Typed` and `ImmFlushed`: a memtable
being flushed leaves memory only as a table.

`RecoveryProofs` is about any number of writes, file numbers and crashes, for a
database whose logs are not reused (the default, and both runs; with `reuse_logs`
TLC finds a torn MANIFEST that is appended to). The invariant says of every
reading of the MANIFEST that a crash at this moment may leave (`Reads`) that a
database can be started from it: its tables exist, with the logs it keeps they
hold every durable write, and its numbers are below its next one. Around that
stand what the memory knows of the files in each phase: `Replaying` logs, `Renewing`
the MANIFEST, `Renewed`, `Running`, and `Editing`, in which the old and the new
version must both be starts. One lemma an action, and lemmas for what a crash
leaves (`LeftOf`, `AfterCrash`), how edits give a version (`VersionNext`,
`Prefix`) and which starts stay starts (`StartsStays`, `LogsKept`). `AckedSurvive`
and `Openable` need that only processes die: with power, a first MANIFEST that was
not synced may be lost. `MCDurability` instantiates that module for kills and for
losses of power; the last part of the module proves the run's own `AnswersSurvive`
and `AlwaysOpens` from the two instances.

`LsmProofs` proves `FilesExist` with no assumption on the constants: no table that
the current version, a version a reader pinned or a compaction needs is deleted.
`LiveFilesExist` speaks of a compaction's inputs; what makes it inductive is that
the compaction pins the version it began with, of which its inputs are part
(`Pinned`), and that `file_to_compact_` is a file of the current version. `MCStore`
proves the same of the run's composition.

`RepairProofs` is about `RepairDB` on any damaged database. `RepairAssumption` says
what a disk has: finitely many files, with natural numbers, and in each what can be
read has a greatest sequence number. `OneKind`, the hypothesis of its theorems, is
that either calls fail or the process is killed, any number of times, as in the
run. With both the promises do not hold: after a repair that failed, another one may
give out a number again, and its file then replaces one of `lost`. The promises are
far from inductive, and the invariant says where each write is at each step. *Shape*,
`Typed` and `Listed` relate the step, the lists in memory (`logs`, `tables`, `manifests`)
and the directory; `Staged` and `Owned` say which half-made files belong to the step,
and `Fresh` that the next number is above every file's. `FromTable` says of a copy that it
has nothing but what its table gives, all of it if no read failed, and that what it lacks
of a table that stayed is in `risked`; `Infos` that the description of a table in which
no read failed (keys, greatest sequence number) is that of what it gives;
`NoneReplaced` and `Taken` that a file goes to `lost` under a number not taken there,
without which archiving could overwrite an earlier file and `Kept` would fail;
`AllHeld` that what was readable is, unless a call failed, in what the step has still
to read or in the tables listed for the new version; and `Decided` what an answer
means. `InvariantHolds` has one lemma an action; `PromisesHold` is `Kept`, `Salvaged` and
`Described`. `MCDurability` instantiates the module for its three repairs (`Failing`,
`Stopped`, `Idle`), evaluates their assumptions (`Repairable`), and proves `RepairKeeps` of
the run's composition (`RepairPromised`).

Only model-checked, and why:

- liveness (`CallsComplete`, `SignInSpinnerEnds`, `MakesProgress`), which needs
  fairness and ENABLED, beyond the provers used;
- what recursive definitions and folds compute, which needs induction over data:
  the formats, messages, checksums, tables and iterators, `LogReadsBack`,
  `DamageIsLocal`, and the outputs of a compaction, hence `ImplementsStore`;
- `NewerAbove`, and `ImplementsStore` with it, are true of the instance of the run
  only: they need that the tables of a level do not overlap, and that is false of the
  code. With five keys a manual compaction of two level-0 tables [1,2] and [4,5]
  leaves a gap at 3; a memtable that holds 3, flushed from the middle of that
  compaction, may go to level 1, and the output [1..4] then overlaps it. It takes
  level-2 tables that overlap the grandparent limit and nine writes, more than a run
  can search. That is the disagreement at db_impl.cc:539, and why no theorem is stated;
- what threads and processes share (`shared`).

What could still be proved: the caches' lists and counts (`LRUCache`), the lock among
processes against `LockSpec`, the order of background work, and `Arena`. They are
small, and the run `shared` visits all their states for a few threads and keys.

## Not modelled

- The four AR screens and user settings; the user-settings screen is
  a place one can be at, from which deactivation closures may still answer.
- Credentials: a sign-in names the account it is for, and the backend may refuse
  any request, which stands for a wrong password.
- Validation of text fields, layout, keyboards, animations, logging.
- The HUD's own animation and delays; it is what it was last asked to show.
- Kinds of sign-in the application does not use, and the vendored pods otherwise.
