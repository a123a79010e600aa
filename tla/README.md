# Cantica: a TLA+ verification project

Cantica keeps prompts the way a version-control system keeps files. A *vault*
is a directory with a SQLite database (or a PostgreSQL URL) and a store of
content files; a server, a command line, an MCP server and an embedded shim
open it and run the operations of `services/version_store.py` on it. This
directory holds TLA+ modules of that code, the TLC runs that check them on small
instances, and theorems that TLAPS proves for instances of any size. Paths in
this file are relative to `src/src/cantica` unless they start with `docs/`.

## 1. Inventory

| Part | Code | State | Operations | What makes it right |
|---|---|---|---|---|
| Version store | `services/version_store.py` 465-1253, `orm/tables.py` 85-151 | tables `prompts`, `versions`, `branches`, `tags` | create/delete prompt, commit, import, tag, branch, rollback, merge, log, resolve | references resolve, histories are complete, versions are immutable, commits append, merges fast-forward |
| Blob store | `services/blob_store.py` | `objects/<sha>`, `objects/<sha>.enc` | put, get, put_encrypted, get_encrypted | a row's content is on disk and can be read back |
| Database session | `database.py` | connection, open transaction | execute, commit, rollback | an error leaves nothing half done and the session usable |
| Push, pull, export | `shim.py` 848-1098, `endpoints/push.py` | write lock, NDJSON stream, checkpoint | to_json, push, ingest | the receiver ends up with what the sender had, parents first |
| Fork | `version_store.py` 1096-1159 | `forks`, `fork_count` | fork, list_forks | a recorded fork has every version and tag it read; the counter is the number of forks |
| Stars, comments, collections | `version_store.py` 2039-2312 | `stars`, `comments`, `collections`, `star_count` | star, comment, collect | counters equal rows; deletions do not strand rows |
| Webhooks | `version_store.py` 2318-2393 | `webhooks` | fire | an event per commit, best effort |
| Federation | `endpoints/federate.py`, `core/federation_*.py`, `version_store.py` 1712-1995, `shim.py` 769-808 | `federations`, `federation_members`, identity | join, leave, eject, notify, sync, reconcile | who goes was ejected, has left or was brought in as not accepted; a sync leaves accepted members alone; a server is a member only where the founder says so |
| Invites and users | `endpoints/invites.py`, `admin.py`, `version_store.py` 1309-1613 | `user_invites`, `users`, `user_flags` | invite, accept, activate | who has not been reviewed is not active; nothing outlives its account |
| Key authentication | `endpoints/keyauth.py`, `core/auth_gate.py` | `jwt_keys`, `used_jtis` | register, assert, revoke | an assertion buys one session, for whoever signed it; who is locked out is not served |
| Access | `core/certificates.py`, `version_store.py` 358-459 | `namespace_certs` | issue, check, revoke | a proprietary namespace is reached, and published, with a certificate only |
| Resolution, diff, rendering | `core/resolver.py`, `version_store.py` 1026-1090, `services/template_engine.py` | none | resolve, diff, render | a ref names one version |
| Command line, lock files | `cli.py`, `services/lock_file.py` | lock file, `.cantica` config | push, pull, lock, install | what a command reports as done is done |
| Wiring | `main.py`, `api/deps.py`, `config.py`, `mcp/server.py`, schemas | one store per process | none of its own | |

### How the parts interact

* Every client calls the same `VersionStore` methods. A process has one store
  with one session (`api/deps.py` 49); several processes may open one vault.
* A commit or an import first writes the content file and then, in a single
  transaction, the version row and the branch row, and then fires webhooks.
* Push and pull move commit objects between vaults. An object's SHA is a hash
  over its content, parent, author, message and time (`version_store.py` 174),
  so an object means the same everywhere.
* Foreign keys tie versions, branches, tags, stars, comments and collections
  to prompts, and branches, tags and children to versions.

### What is hard

* **Read outside, write inside.** SQLite starts a transaction at the first
  INSERT, UPDATE or DELETE, and what a method reads before that is read on its
  own. `commit`, `import_version`, `rollback` and `merge` all read, decide, and
  later write without looking again.
* **Two places, no transaction.** Files and rows are written separately, and
  the files in place.
* **Several vaults.** Streams of records may be cut short, repeated or
  received in parallel, and federation messages are best effort.
* **Several transactions in one operation**: `fork`, `accept_invite`,
  `register_key`, `join_federation`.

`PROJECT.json` lists each hazard at its line with the properties that cover
it, or a note on why no property does.

## 2. Modules

| Module | Models | State |
|---|---|---|
| `VersionTables` | the four tables, and what each operation reads and writes in them | `commits`, `versions`, `heads`, `tags`, `prompts` |
| `VersionStore` | the operations, cut into the steps between which other sessions run | the tables, `clock`, `req` |
| `AtomicVersionStore` | what the store promises to a caller that has a prompt to itself: each operation at once | the tables |
| `MCVersionStore` | symmetry set for TLC | |
| `BlobStore` | content files, written in two steps, before the row; crashes | `plain`, `enc`, `rows`, `req`, `died` |
| `Sync` | a push: the export's reads, the stream, the import record by record | two sets of tables, `clock`, `stamp`, `push`, `since` |
| `Replication` | what a push promises: rows of the sender arrive unchanged, parents first | rows sent and received |
| `Fork` | `fork()`, a transaction per version and tag, among the operations of others | the tables, `forks`, `forkCount`, `job` |
| `Client` | push, pull, lock and install of the command line | the tables of two vaults, `cmd`, `late`, `lock` |
| `Community` | namespaces, certificates, stars, comments, collections, webhooks, broken sessions | their tables, `broken`, `req` |
| `Accounts` | invites, accounts, flags, keys, assertions, sessions, the gate | their tables, `clock`, `session`, `req` |
| `Federation` | founders and members, their messages and request threads | `fedrow`, `rows`, `msgs`, `job`, `waiting` |
| `MCSync`, `MCFork`, `MCClient`, `MCCommunity`, `MCAccounts`, `MCFederation` | instances and symmetry sets for TLC | |
| `VersionStoreProofs` | theorems about `VersionStore` for any number of sessions, at work on the same prompts or apart | |
| `BlobStoreProofs` | theorems about `BlobStore` | |
| `SyncProofs` | theorems about `Sync` for any number of callers and writers | |
| `ForkProofs` | theorems about `Fork` for any number of sessions, prompts, branches and tags | |
| `FederationProofs` | theorems about `Federation` for any number of servers, peers, threads and messages | |
| `CommunityProofs` | theorems about `Community` for any number of sessions, prompts and actors | |
| `AccountsProofs` | theorems about `Accounts` for any number of requests, accounts, keys and ticks | |
| `ClientProofs` | theorems about `Client` for any number of versions, branches, tags, commands and late POSTs | |

### Version store

`commits` is the sequence of all commit objects made anywhere, with their parent
and timestamp; the index of one stands for its SHA. `versions` holds the rows of
this vault, a function from SHAs to the `prompt_id` and `branch` columns. `heads`
and `tags` are functions on pairs (prompt, name) with 0 for no row. A prompt id
goes from absent to live to deleted and never back, because ids are uuids.

A session runs one operation at a time. `req[s]` is what the method has in its
local variables:

| Method | Steps |
|---|---|
| `commit` | `CommitStamp` (`_utcnow()`), `CommitRead` (branch head), `CommitWrite` (version row, branch row) |
| `import_version` | `ImportCheck` (SHA unknown here), `ImportWrite` |
| `rollback` | `RollbackResolve` (any ref), `RollbackWrite` |
| `merge` | `MergeReadSource`, `MergeReadTarget` (with the walk to the ancestor), `MergeWrite` |
| `create_prompt`, `delete_prompt`, `create_tag`, `create_branch` | one step each: a single statement, or a single transaction without reads |

A write step checks what the database checks: primary keys and foreign keys. When
they fail the transaction is rolled back, which is `Abandon`, the same as when
the process dies or a lock times out. `CommitElsewhere` is a commit object that
another vault makes on any object it may have pulled; `ImportCheck` picks one in
any order, as a push may offer it.

The walk of `merge` over `parent_sha` is one step with the read of the target:
versions never change (`VersionsImmutable`), so the walk sees the same at any
later time unless the prompt is deleted meanwhile, when the walk fails, which is
`Abandon`. "The ancestors of v" is the least set that holds v and is closed under
parents, without recursion, so that it can be used in proofs.

`AtomicVersionStore` has the same tables and table operations. It commits on the
head of the moment with a timestamp above the parent's, and merges only when the
target head of the moment is an ancestor. Without a lock around the reads the store
keeps this only while no two sessions are at work on one prompt, and that is enough:
with `Exclusive` a session begins nothing on a prompt that another is at work on.
Nothing in the code sees to that: it says how the vault is used, by one author per
prompt or by commands run one after another. The sessions still interleave in all they
do to different prompts, which share the versions table, the foreign keys and the
clock. Without `Exclusive` (`two_sessions`, `stale_commit`) every operation may begin at
any time.

### Blob store

`plain[c]` and `enc[c]` are the two files that content c may have. `put` checks
whether the file exists and, when it does not, opens it (`"cut"`) and then writes
it (`"whole"`); `put_encrypted` opens and writes always, and what matters of its
result is whose key it was written with. A commit goes through one of the two and
then inserts its row. An import always puts the plaintext first, because it
needs the hash, then looks the SHA up, then encrypts for an encoded namespace.
A process may die at any point (`Crash`), the insert may fail. `died` remembers the
contents a process died with: one that dies between opening a file and writing it
leaves a file that `put` never writes again, because it exists. `rows` only grows:
`delete_prompt` takes rows away and no file, which can break no promise about the
files of rows. No step touches the files of another content, so one content stands
for all of them.

### Sync

`Sync` has two instances of `VersionTables`, `Sender` and `Receiver`, that share
`commits`. Writers commit to the sender (stamp, then read and write in one step) and
move its branches and tags at any time. Each element of `Push` is a caller, a shim of
its own, that pushes the prompts in `Scope[p]`, again and again:

| Code | Actions |
|---|---|
| `to_json`, `_fetch` | `ListPrompts`, `SelectVersions`, `SelectTags`: three reads |
| a record looked up | `LookUpPrompt`, `LookUpVersion`, `LookUpTag` |
| the record imported | `ImportPrompt`, `ImportVersion`, `ImportTag`, or `RecordFails` |
| the answer | `Answer`: the checkpoint is kept after 200, not after 422 |
| a timeout, a broken connection, a process that dies | `Cut` |

`push[p]` holds the records that are still to come. Prompts come first, then versions
by `created_at`, each followed by its tags. No lock appears: the sender's is taken by
`push` and `ingest` only, so it excludes neither commits nor other processes, and a
server makes a new one for each request. (A server mounted by `shim.mount` shares the
shim's; its streams are then one after the other, which the model includes.)
`since[p]` is the caller's: `push` takes it as a parameter, and the stream ends with the
checkpoint record that a caller passes next time.

### Fork

`Fork` works on `VersionTables` too. `job[s]` is what `fork()` has in its local
variables: the destination is created (`CreateDest`), `log()` is a select of SHAs
(`SelectLog`) and a fetch of each (`FetchLog`, which loses what was deleted
meanwhile), every version is a `commit()` (`ReadHead`, `WriteCopy`), every tag an
upsert (`ReadTags`, `CopyTag`), and the counter and the row are one transaction
(`Record`). Others create, commit, tag and delete on both prompts at any point, and
`Abandon` stops a fork anywhere. `origin` says which content a version has.

A prompt is an id, used once, under a slug (`SlugOf`), which is free again when the
prompt is deleted (`SlugFree`, the unique constraint on namespace and name). `fork()`
looks source and destination up by slug and works on ids from then on; a row of `forks`
has slugs only and stays when the prompt goes. The ids and the rest of what `forks`
holds in the model is history: it lets the properties say which prompt was forked.

### Command line

`Client` has two instances of `VersionTables` that share `commits`, like `Sync`. A
user runs one command at a time: `push` and `pull` are requests to the remote and
calls of the local store in the order of `cli.py`, and other clients write to the
remote between any two. A tag that `pull` cannot store is skipped (`PullTagFails`), as its
`except Exception: pass` does, and the command goes on. `Abort` ends a command at any point; `GiveUp` ends it
with a POST still on its way, which the remote may carry out at any later time
(`LatePost`) or never. `lock` resolves its URIs one by one and writes the file last,
or not at all. `install` resolves the URI of an entry again (`InstallFetch`).

### Community

A request checks its certificate and reads (`...Begin`) and writes in one transaction
(`...Write`), which checks the unique and foreign keys. A violation, or a locked
database, fails the flush inside `commit()` (`FlushFails`): the transaction is rolled
back, but `_ResettingSession` guards only `execute()`, and the session stays *broken*
until its next request fails too (`Refuse`). `PatchBegin` keeps what it read and whether
it was shown a certificate (history). Ids are used once. Deliveries of webhooks read
rows and change none.

### Accounts

Every method of the store is a transaction and an endpoint is several of them:

| Endpoint | Steps |
|---|---|
| `accept_invite` | `BeginAccount` (invite open, name free), `CreateAccount`, `ReadInvite`, `MarkInvite` (`use_invite`), `Disable`, `FlagNewbie`, `Grant` |
| `register_key` | `BeginEnrol`, `Enrol` (assertion, look-up of its jti), `Burn`, `AddKey` |
| `assert_auth` | `BeginAssert`, `Burn`, `GateKey`, `Touch` (and the session) |
| any other, with a JWT or an API key | `BeginRequest` or `BeginKeyRequest`, `Serve` (the gate) |
| administration | `CreateInvite`, `UpdateUser`, `DeleteUser`, `Block`, `ToggleApiKey`: one step each |

`Die` ends a request between any two. A client signs a jti once (`Signable`), and the
assertion may be presented any number of times, by anyone. `clock` is the time; an `iat`
may lie `Leeway` in the future. `Tick` keeps one assumption: between the check of an
assertion (`since`) and the insert of its jti no request is held up for longer than
`MaxHold`, in the run at most half of `MaxAge` (section 3 tells what happens without). It also drops the sessions whose JWT has expired. The administrator
may have enrolled a key before the first step.

### Federation

`Servers` run this code; `Peers` are members whose federation row holds the founder's
key, which those of this code never do (below). `msgs` are requests and answers under
way, delivered in any order, or lost. A thread of a server reads the member rows
(`ReceiveEntry`, `ReceiveLeave`, `PeerSync`) and then looks up, updates, inserts or
deletes row by row (`job`), as other threads do. What a peer sends needs no message of
its own: one that arrives late is one that is sent late.

A sync submits any of `Tables`: the sender's own rows, accepted or not, old or new, and
also of keys that the founder has never heard of. The founder adds the keys it did not
know, with the `is_accepted` that was submitted (`Unknown`), and prunes the rows that were
not accepted when it read them (`Prune`); the answer stays with the peer. So a sync does
make members that never asked, which `tests/test_federation_store.py` 235 expects; what it
may not do is to take accepted ones away.

Reading the code for this module showed how little of the protocol is reachable, and the
module has just what is: `join_federation` stores a placeholder with an empty
`founding_key_enc` (266), on which `get_federation` raises, so a server that has joined
can neither sync, nor leave, nor take an ejection; a second placeholder has the same
name, is dropped by the conflict clause, and the member row that follows fails; the
ejection notices need an event loop that a worker thread lacks, and are never sent;
`sync_all` raises at the first placeholder and skips what a server founded itself.

## 3. Runs

| Run | Instance | States | Shows |
|---|---|---|---|
| `two_sessions` | 2 sessions, 2 prompts, 2 branches, 2 commit objects | 214,955 | `TypeOK`, `ReferencesResolve`, `HistoryComplete`, `VersionsImmutable` hold in every interleaving |
| `one_author` | `Exclusive`; 2 sessions, 2 prompts, 2 branches, 1 tag, 2 commit objects | 281,542 | `AtomicSpec` (refinement), `CommitAppends`, `MergeFastForwards`, `ParentsOlder` |
| `stale_commit` | 2 sessions, 1 prompt, 2 branches, 3 commit objects | | `CommitAppends` violated |
| `blob` | 2 sessions, an open and an encoded namespace, 1 content, crashes, fair | 9,812 | `TypeOK`, `RowsHaveFiles`, `UnreadableOnlyWhileWritten`, `RowsReadableAgain` (liveness) |
| `blob_two_keys` | 1 session, 2 encoded namespaces, 1 content, fair | | `RowsReadableAgain` violated |
| `sync` | 2 writers, 2 callers, 1 prompt, 1 branch, 1 tag, 2 commit objects | 600,758 | `TypeOK`, `ReceiverConsistent`, `NothingPassedOver`, `ReplicaSpec` (refinement), `NeverSetBack` |
| `torn_export` | 2 writers, 2 callers, 1 prompt, 2 commit objects | | `ExportOfOneMoment` violated |
| `fork` | 2 sessions, 3 prompts of which 2 have one slug, 1 branch, 1 tag, 4 commit objects | 1,125,575 | `TypeOK`, `RecordedForksComplete`, `ForkCountIsForks` |
| `client` | 2 branches, 1 tag, 2 commit objects, 2 commands, 1 late POST, the URIs `latest` and the tag | 757,846 | `TypeOK`, `DoneMeansThere`, `CleanInstallPinned`, `RemoteTagsKept` |
| `community` | 2 sessions, 1 namespace, 1 prompt, 2 actors, 2 collections, 1 certificate, 7 requests | 146,197 | `TypeOK`, `StarCountIsRows`, `VersionsGoWithPrompt`, `PublishedByHolder` |
| `accounts` | 2 requests at a time, 2 names, 3 accounts, 2 addresses, 2 jtis, 1 invite, 1 API key, 4 clock values, 3 requests | 3,739,895 | `TypeOK`, `UsedByIsItsAccount`, `UnreviewedOnlyInFlight`, `AssertionOnce`, `SessionOfSigner`, `NothingOutlivesItsUser`, `LockedOutStaysOut` |
| `federation` | 2 servers, 1 peer, 2 federations, 2 threads, 4 member rows, 3 requests | 1,065,779 | `TypeOK`, `JoinedWasAdmitted`, `RemovalsWanted`, `SyncSparesMembers` |

**Bounds.** Two sessions are enough for every race between a read and a write, since
each property speaks of one write against what another session did since the
read. Two prompts are needed for a branch that names a version of another prompt,
which is what `delete_prompt` may not break. Two commit objects give a parent and
a child, in one prompt or across two, or two histories that have nothing in common,
which a merge must refuse. The clock has one tick per commit object. `two_sessions` has no tags: a tag is to the
properties what a branch is, and tags are in `sync`, `fork`, `client`
and in the theorems. Prompts, branches and sessions are symmetric: no operation
tells two of them apart. Runs may end (ids, commits, requests used up), so deadlock
is not checked.

* `sync`: two callers for a record that another stream imports between the lookup and
  the import, two versions for a parent that fails or is younger than its child. The
  clock has a third tick, for a caller whose checkpoint lies between two versions. A
  caller may push any number of times.
* `fork`: four commit objects, two to copy and their copies; two sessions for two
  forks of one source, or a fork and its retry; three prompts for a source or a
  destination, one that takes its slug when it is gone, and the other end of the fork. One
  branch, since `fork()` reads and writes one; forks of different branches are in the theorems.
* `client`: every commit has the same timestamp, so a log comes in every order: that is
  what clocks that disagree can do at worst. Two runs are a run and its retry, or a
  lock and an install; the late POST is the first run's.
* `community`: seven requests reach create, star by two actors, collect, put, delete and
  the race of any two of them. One namespace: namespaces meet in a collection only,
  whose certificate is checked for its own (section 5).
* `accounts`: three requests, two at a time, are one account by invite and its race, an
  enrolment with an assertion that is used twice, and any one of these against the
  administrator (whose edits count as requests). Times are the least that let an
  assertion, an invite and a session expire, and a jti expire and be pruned while a
  second request with its assertion still waits to insert it: with `MaxHold` 2 instead
  of 1 the same bounds find `AssertionOnce` violated.
* `federation`: four rows are a founder, two members and one that comes back; three
  requests are any three of found, join, leave, eject, notify and sync, with their
  answers and messages late or lost. A submitted table is empty, lists any one party as
  accepted or not, or lists all.

`one_author` assumes with `Exclusive` what the code does not see to, so `CommitAppends`,
`MergeFastForwards` and `ParentsOlder` say there what a single author can rely on. Without
the assumption each of them fails: `stale_commit` shows it for the first, and the other two
fail in the same way (below).

**Fairness.** Only `BlobStore` has any: a process that does not die takes the next
step of the method it is in (`WF_vars(Progress(s))`). `Start` and `Crash` are not
fair. Everywhere else nothing promises that a request ends: a thread may wait for a
lock until the database gives up, a message may be lost for good and no code resends
it, so the other modules state what may never happen and nothing that must.

Each property of a passing run has a mutant, an operator next to the one it
replaces and marked *Mutant*, for which the property fails: for example
`InsertImportReplacing` (no primary key) for `VersionsImmutable`,
`CommitReadNewest` (parent taken from `log()`'s order) for `CommitAppends`,
`CountedBySlug` (the counter found by slug) for `ForkCountIsForks`,
`Differing` (a submitted table overrules the founder's) for `SyncSparesMembers`,
`BurnUntilNow` (a jti is kept too short) for `AssertionOnce`.

### Findings

* `stale_commit`: two sessions read the head h of `main` and both commit on h. The
  second update of the branch row overwrites the first without a conflict, and the
  first version is no longer in the history of `main`. It stays in `versions` and in
  `log()`, which selects by the branch column.
* `blob_two_keys`: the encrypted file is named by the hash of the plaintext, so two
  encoded namespaces with the same content share a file, and the last writer's key
  is the one that opens it. The older version can no longer be decrypted.
* `torn_export`: a prompt is created and committed to between the export's reads of
  prompts and of versions, so the stream has a version without its prompt, and the
  receiver refuses it. The lock that the comment relies on is not taken by commits.

Read in the code while modelling, visible in the modules, not runs of their own:

* Version store. `merge` finds the target absent, or its head among the ancestors of the
  source, and another session may commit to the target before `merge` writes; the update
  is by branch name, so that version drops out as in `stale_commit` (`MergeWrite`), where
  `docs/concepts.md` 230 says "Fast-forward only". `commit` takes its time before it reads
  the head (`CommitStamp`): stamped first and written second, a version is older than its
  parent, and the export sends it first, where `shim.py` 876 says that its order puts
  parents first. With `Exclusive` off TLC finds `MergeFastForwards` and `ParentsOlder`
  violated this way. `rollback` of a branch that does not exist updates no row and reports
  success (`UpdateHead`); `rollback` moves the pointer and makes no commit, where
  `docs/concepts.md` 231 says it creates one. `create_branch` accepts a SHA of another
  prompt, where `docs/concepts.md` 196 calls branches prompt-scoped.
* Push. A tag is exported under the prompt of its version, not its own (`SelectTags`). A
  version that is stamped before an export and written after it, or that comes by an
  import, is older than the checkpoint and not sent by a later incremental push (hence
  `StampedInOrder` in `NothingPassedOver`). An import into an encoded namespace leaves the
  plaintext file.
* Fork. A row of `forks` names its prompts by slug and outlives them: when a prompt that
  was forked is deleted and its slug used again, the new prompt has `fork_count` 0 and
  `list_forks` (1167) lists the old prompt's fork as its own, where `docs/concepts.md` 106
  calls `fork_count` the "Cached fork count" and 441 has that list "enumerate all known
  forks" (`Create`, and the slugs of `MCFork`). `source_sha`, left out of the module, is
  the head of the branch while the copies are what `log()` selects by the branch column:
  the one need not be among the other (`docs/concepts.md` 438 calls it where the fork
  diverged). A fork that stops half way leaves a prompt that makes the next try fail.
  `docs/concepts.md` 431 says SHAs are recomputed for the new `prompt_id`, which
  `_commit_sha` does not take; they differ by their time.
* Community. `docs/api-manual.md` 631 says that deleting a prompt deletes its stars,
  comments and forks; `delete_prompt` fails while there is a star, a comment or a
  collection item (`DeleteWrite`, ~`Held`) and never touches forks. A namespace can be
  published without a certificate by a request that read it while it was public
  (`PublishedByHolder` says just that). One failed flush makes the next request on the
  session fail, where the comment at `database.py` 94 has the session recover.
* Accounts. Two requests with one invite both find it unused and each makes an account
  (`BeginAccount`, `MarkInvite`): that `use_invite` finds it used is ignored, where
  `orm/tables.py` 392 has a "one-time invite token" and the mail says that it "can only be
  used once" (`core/mailer.py` 52). An account whose request stops before `Disable` stays
  active without review (`stranded`). The token of a deleted account passes the gate until
  it expires. The address a key is filed under is not unique: two keys with one make every
  assertion for it fail. An assertion accepted before its `iat` is good for longer than
  its jti is kept (`early`), so it can be used twice. So can one whose second request has
  looked its jti up before the first inserted it, and is held up until that row has
  expired and a third request has pruned it: the primary key of `used_jtis` no longer
  refuses the second insert. That takes a hold-up of more than half of the maximum age
  (150 s by default), which nothing in the code rules out.
* Federation. `add_federation_member` looks a key up and inserts when it finds none
  (`LookUp`, `InsertMember`), and no constraint makes (federation, key) unique: two
  requests of one member leave two rows, where 1834 says "Add or update a member" and
  `tests/test_federation_store.py` 263 "should not create a duplicate". Leave, update and
  ejection then reach one of them. A member that was not accepted when a sync read the
  table, and joins again before it prunes, loses a row that is accepted by then
  (`DeleteMember`), where 1991 says "Prune members that want to leave
  (is_accepted=False)". Besides what section 2 tells: `eject_member` does not look at the
  federation of the row, and the notices that its docstring (168) announces are never
  sent; `federate_sync` answers anyone who signs, where its docstring (463) asks for a
  known member; a sync that lists an ejected server, or anybody else, makes it a member.
* Command line. `pull` passes over every exception of `create_tag` (`PullTagFails`) and
  ends as if nothing had failed, with the reason "tag already exists" (`cli.py` 627); but
  `create_tag` is an upsert that no existing tag makes fail, so what fails is a database
  that is locked too long, say, and the tag is lost. `push` moves a tag that another
  client has put between its list and its POST. `install` imports what the URI names now,
  with a warning when it is not what is pinned, where `docs/concepts.md` 710 says it
  fetches exactly the pinned versions. A version whose parent is on a branch that was not
  pushed or pulled ends the command, as does a pinned one whose parent is not there.

## 4. Proofs

All theorems are for every value of the constants. The assumptions, each named in the
module that declares the constant, are about the shape of the constants only:

| Module | Assumptions |
|---|---|
| `VersionTables` | `BoundsAssumption`: the bounds are natural numbers |
| `VersionStore` | `ExclusiveAssumption`: a Boolean |
| `BlobStore` | `EncodedAssumption`: encoded namespaces are namespaces, none is called `"absent"` or `"cut"` |
| `Sync` | `ScopeAssumption`: a caller's scope is a set of prompts |
| `Fork` | `SlugsAssumption`: a prompt id has a slug |
| `Federation` | `PartyAssumption`: a server is not a peer, `NoUrl` is neither; `TablesAssumption`: a submitted table is a set of entries; `BoundAssumption` |
| `Community` | `HomeAssumption`, `CertAssumption`, `ActorAssumption` (actors are finitely many), `BoundsAssumption` |
| `Accounts` | `NamesAssumption`, `TimesAssumption`, `UsersAssumption` |
| `Client` | `BoundsAssumption`; `DefaultAssumption`: the default branch is a branch; `UrisAssumption`: a URI names a branch, a tag or `latest`, here or on the remote |

Six theorems have a hypothesis of their own, written in their statement:
`UnreadableRowsAreBeingWritten` (no two encoded namespaces), `AssertionAlwaysOnce`
(`HeldBriefly`: `2 * MaxHold <= MaxAge`) and the four named `SessionsApart...` (`Apart`:
`Exclusive` is true, or there is one session only).

* **`VersionStoreProofs`**: `TypeCorrect`, `ReferencesAlwaysResolve`,
  `HistoryAlwaysComplete`, `VersionsAlwaysImmutable`. The inductive invariant `Inv` is
  `TypeOK /\ ReferencesResolve`. Each table operation has a lemma that it keeps the
  types and the references, each action uses one. `HistoryComplete` needs no invariant
  of its own: when all parents are stored, the stored versions are closed under
  parents, so they contain the ancestors of anything stored.
  The second half is about sessions that keep apart: `SessionsApartAreAtomic`
  (`AtomicSpec`), `SessionsApartParentsOlder`, `SessionsApartCommitAppends` and
  `SessionsApartMergeFastForwards`, which also hold of a vault that a single process
  has open. The invariant `ApartInv`
  adds that commit objects are made in order of their parents and the clock
  (`MadeInOrder`), that a prompt has one session at work on it at most (`OneEach`), and
  that what a session has read is still so (`ReadsCurrent`): the head it read is the
  head, the ref it resolved still resolves, the merge it checked is still a
  fast-forward. What makes it inductive is what a step on one prompt leaves to the
  others (`Keeps`): their heads, and whatever their refs can resolve to, because
  `delete_prompt` fails on a version that another prompt points at
  (`RemovePromptLeaves`). Commit objects made meanwhile change no ancestry
  (`AncestryKept`) and move no head under a commit that has its timestamp.
  `StepSimulation` maps the write steps to the operations of `AtomicVersionStore` and
  every other step to a stutter. With two sessions on one prompt all of this fails, as
  `stale_commit` shows.
* **`BlobStoreProofs`**: `BlobTypeCorrect` and `RowsAlwaysHaveFiles`. The invariant adds
  that a session about to insert has its file on disk, and a session that has come to
  the `lookup` step has the plaintext there. `UnreadableRowsAreExplained`: whatever the
  number of keys, a row that cannot be read is being written, or was when a process
  died, or belongs to an encoded namespace and another one has replaced its file; the
  invariant adds that a file that is cut is being written by some session or is one a
  process died with (`CutOnlyWhileWritten`). `UnreadableRowsAreBeingWritten` follows
  when no two namespaces are encoded; with two keys it fails, as `blob_two_keys` shows.
* **`SyncProofs`**: `ReceiverAlwaysConsistent`, `NothingIsPassedOver`,
  `HeadsNeverSetBack`, `ImplementsReplication`, `TypeCorrect`. The invariant `Inv` adds to
  the properties that every row of the receiver is the sender's (`RowsInv`) and that
  what a checkpoint will cover has arrived or is still to come in the stream unless a
  record has failed, and that a checkpoint is the time of some version
  (`CheckpointInv`): a version made later and in order is then younger than every
  checkpoint (`NewIsYounger`). A head never moves back because an imported version is
  new and the stored ones are closed under parents (`ReceiverClosed`).

* **`ForkProofs`**: `ForkTypeCorrect`, `RecordedForksAlwaysComplete`,
  `ForkCountAlwaysForks`. `JobKnown` says of a fork under way what the row it may write
  will have to say: what it copied is in the destination, with its content and in its
  order (`Copied`), the tags done name copies (`TagsDone`), and what it selected is copied
  or still to come unless the source has gone (`LogKept`). `InOrder` (all that is copied is
  no younger than what is left) makes the next copy fit. `Owners` (nobody else has the
  destination) is why no other fork moves its tags and why its row is new to the counter.
  The count is by prompt id, so who has the slug does not matter to it; the number
  of forks that `list_forks` finds by slug is another (section 3).
  `Evolves` gathers what no step takes away, so that each step is looked at once.
* **`FederationProofs`**: `FederationTypeCorrect`, `JoinedAreAdmitted`,
  `RemovalsAlwaysWanted`, `SyncAlwaysSpares`. A claim about a member travels from a row, a
  message or a submitted table into a thread's local variables and into a row, so the
  invariant `Known` says the same of each of these places: whoever is not accepted there
  has left or was brought in so (`Claim`), and a server that is named in its own table was
  stored by the founder (`OwnAdmitted`; `RowsKnown`, `MsgKnown`, `JobEntries`). `IdsUnique`
  (row ids are given once) is what makes a delete or an update by an id read earlier hit
  that row or none (`JobIds`). A sync spares the accepted because what it adds has none of
  their keys (`JobSpares`); this holds for every set of submitted tables.
* **`CommunityProofs`**: `CommunityTypeCorrect`, `StarCountAlwaysRows`,
  `VersionsAlwaysGoWithPrompt`, `PublishedOnlyByHolder`. `StarCountIsRows` is inductive
  with `TypeOK`, because the row and the counter are one flush and a flush that fails
  takes both back; the lemmas are about the cardinality of the stars of one prompt when
  a row comes or goes. `PatchChecked` carries the certificate check of a request over to
  its write.
* **`AccountsProofs`**: `AccountsTypeCorrect` and the six properties of the run, with four
  invariants. `Rows` adds to the foreign keys that the account of a request in flight is
  one that was made (`IdsKnown`, `MadeKnown`). `Signing` says what a request that has
  presented an assertion knows: the jti was signed once, by the holder of the key it
  goes on with (`SignedOnce`, `Presented`). `Burning` is for `AssertionOnce`: a jti that
  has bought something, or is about to, still has its row, or its assertion is too old
  for any request that has yet to verify it and too old for any that has and still waits
  (`OnceClaimed`, with `Kept` and `Stale`): that is where `HeldBriefly` is needed.
  `Gated` says of each step behind the gate what the account was when the request began
  (`Stopped`).
* **`ClientProofs`**: `ClientTypeCorrect`, `TransfersComplete`, `CleanInstallsArePinned`,
  `PushesKeepRemoteTags`, and, of both vaults, `BothVaultsResolve` and
  `BothHistoriesComplete`. A command that goes by steps is right at the end because of
  what holds on the way: whatever it has listed has arrived or is still on its list
  (`PushOnItsWay`, `PullOnItsWay`, `InstallOnItsWay`), and what has arrived stays. Of the
  tags of a pull nothing is claimed, since it passes over those it cannot store. No step
  of any command or of another client takes a version or a tag name from either vault
  (`LocalGrows`, `RemoteGrows`; the frame `Grows` and the lemmas `Moved`, `Aside`, `GaveUp`
  and `Ended` let each step be looked at once), so the report of an earlier command
  stays true (`PushReported`, `PullReported`, `InstallReported`). With the full histories
  it is as in `VersionStoreProofs`: parents are stored, so ancestors are
  (`AncestorsStored`). `PushesKeepRemoteTags` needs to know of every tag that is due or on
  its way in a late POST that the push has seen it missing (`DueSeenAbsent`,
  `LateSeenAbsent`).

Only model-checked: liveness (`RowsReadableAgain`). Every other property of a passing run
is the property of a theorem. Out of the prover's reach in general: liveness under
fairness, ENABLED, and induction over data.

## 5. Abstractions

* Content, messages, authors and variables are left out of versions: they enter the SHA
  and nothing else the properties tell apart. `docs/concepts.md`'s object SHA is the
  index into `commits`: distinct objects have distinct SHAs.
* Timestamps are distinct. (Two commits in the same microsecond are in `Client` only,
  where they stand for clocks that disagree.)
* One clock serves all sessions and vaults: clock skew between hosts is left out, but for
  `Client`. Objects made elsewhere (`CommitElsewhere`) are younger than their parents, as
  vaults whose sessions keep apart make them; `ParentsOlder` and `AtomicSpec` rely on it.
* In `Sync` prompts are matched by name and neither vault deletes one, the receiver is
  written by pushes only (an import among other operations is in `VersionStore`), every
  content can be read, and namespace records, which any stream may create, are left out.
* Cryptography is sound: a signature, an HMAC, a password hash stands for who made it, and
  keys and tokens are told apart by their owners.
* In `Accounts` no request waits for more than `MaxHold` between verifying an assertion and
  inserting its jti (sections 2 and 3), a bound only `AssertionOnce` needs to be small; roles, passwords and enrolment ids other than the address are left out,
  `auth_enabled` is on, and a flag that blocks is set by tools outside this code (nothing
  in `src` sets one).
* In `Community` all prompts and collections are in one namespace in the run, so the check
  of `add_item`, which asks for the collection's certificate and not for the prompt's,
  meets no other; `star_prompt` also creates a namespace for the actor, which is left out.
* In `Federation` an identity is there from the start (`get_or_create_identity` races with
  itself only before any message), and a key and a URL are the party they belong to.
* In `Client` the remote deletes no prompt, the lock file is written at once, and one
  certificate or API key is used throughout.
* In `VersionStore` a foreign key from stars, comments and collection items also blocks `delete_prompt`;
  such a prompt is one that is not deleted in the model, which is allowed.
* A session is used by one thread. The server shares one session between the threads of
  its pool (`api/deps.py` 49); what SQLAlchemy does then is not this code's.
* Isolation is SQLite's in the driver's default mode: statements before the first write
  see what is committed, and one writer at a time holds the lock to the commit.

## 6. Plan and what is not modelled

Every module planned is written, and every safety property of the runs is proved. What
would come next: a receiver in `Sync` that is also written to by its own users, and
namespaces of their own for prompts and collections in `Community`.

Not modelled: full-text search, whose ranking is SQLite's and PostgreSQL's; mail, logging,
schemas and models, which are I/O and data; the MCP server, which only reads; the
search over peers and the federation policy, which keep no state of the protocol; the
delivery of webhooks, which changes no row; the diff and the template engine, functions
of texts; the external provider behind `core/security_shim.py`; schema migration; and
deployments where threads share one session (section 5).
