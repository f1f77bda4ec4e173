# Memos: a TLA+ verification project

The repository deploys [Memos](../src/app/memos), a note-taking server in Go with a
React front end, on EKS. All of its own logic is under `src/app/memos`; `src/infra` and
`src/bootstrap` are declarative configuration. Paths below are relative to
`src/app/memos` unless they start with `src/`.

Contents: [the system](#the-system), [hard behaviours](#hard-behaviours),
[modules](#modules), [runs](#runs), [disagreements found](#disagreements-found),
[proofs](#proofs), [limits](#what-is-not-modelled), [plan](#plan).

## The system

One server process (`server/server.go`) answers API requests, each in a goroutine, over
a store with three SQL drivers (`store/db/sqlite`, `postgres`, `mysql`). The Helm chart
runs three such processes over one PostgreSQL database. SQLite serializes write
transactions; the PostgreSQL driver runs at READ COMMITTED with row locks, and some memo
mutations at SERIALIZABLE.

| Part | State | Operations | Correct when |
|---|---|---|---|
| Space membership (`store/db/*/space*.go`, `user*.go`) | `user`, `space`, `space_member` rows (INVITED or ACTIVE, ADMIN or USER) | create, invite, accept, decline, revoke, change role, remove or leave, delete Space; register, archive, restore, delete user | a Space always has an active ADMIN; no row without its user and Space; archived users keep what they had |
| Memos and write policy (`store/memo.go`, `store/db/*/memo_policy.go`, `server/router/api/v1/memo_service.go`) | `memo` rows: author, state, Space, audience, content; `memo_share` rows with an expiry | create, update, move, archive, delete, share, revoke; cascades of users and Spaces | placements do not dangle; SPACE memos are not shared; removed authors can withdraw and do nothing else |
| Read policy (`server/access/memo.go`, `store/db/*/memo_access.go`, `store/memo_relation.go`, `store/memo_delete_policy.go`) | none | decides reads, lists, references, comments, reactions | all copies of it agree |
| Memo edits (`server/router/api/v1/memo_service.go`, `attachment_service.go`, `store/db/*/memo_attachment.go`) | memo content and payload, `attachment.memo_id` | read, decide, then one transaction | images refer to attachments of the memo; no attachment outlives its memo or changes hands |
| Attachment storage (`attachment_service_storage.go`, `store/attachment.go`) | files or S3 objects | save, insert row, compensate, delete row, clean up | each row has its own bytes; nothing is left behind without a fault |
| Live refresh (`sse_hub.go`, `sse_handler.go`, `web/src/hooks/useLiveMemoRefresh.ts`) | clients of the hub with buffered channels; connection state and query cache of a tab | subscribe, publish, evict, forward, close; connect, retry, resynchronize | no panic; a change reaches every connected tab; a shutdown ends the streams |
| Accounts (`store/user.go`, `server/router/api/v1/user_service.go`, `auth_service_sso.go`, `store/db/*/user_identity.go`) | `user`, `user_identity` rows; a lock per process | first-user setup, registration, sign-on, linking, unlinking, rename, archive, delete | a login ends at the account that holds the identity; nobody's account is taken over; closed registration is closed |
| Sessions and caches (`store/user_setting.go`, `store/cache`, `server/auth`, `auth_service_session.go`) | refresh tokens as a list in a setting; per-process caches with a TTL | sign in, rotate, sign out, authenticate; read-modify-write through the cache | an archived user and a revoked token are refused in the end; a revoked token stays revoked |
| Sign-in configuration (`store/auth_config.go`, `deployment_config.go`, `idp.go`) | the GENERAL setting, `idp` rows, deployment files | update GENERAL, create and delete providers, load files | regular users keep a way in |
| Start and migrations (`store/migrator.go`, `server/server.go`) | tables, the BASIC and ACCESS settings | initialize, check, migrate, stamp the version, decide the access mode, make the secret | no migration is skipped; nobody serves on an old schema; mode and secret survive |
| Filters (`internal/filter`) | none; a request compiles, renders and queries | CEL to a condition tree to SQL of three dialects | a query selects what its filters mean |
| Scheduler, notifications, webhooks, mail, Markdown, MCP, RSS, OAuth2 and AI clients, other instance settings | see `components` in `PROJECT.json` | | |

How they interact: API handlers read through the store, decide, and call one store
transaction, which checks again what it must (policies, snapshots). After the commit they
remove files, publish an event on the hub of their process, and start webhooks and mail in
goroutines. Deleting a user or a Space removes memos, shares, reactions and attachments in
the same transaction and files afterwards. Browsers learn of changes through the stream and
fetch again.

## Hard behaviours

`PROJECT.json` lists them under `hazards`, each at its line. They are of six kinds:
*sequences* of legal membership and memo operations that could end in an illegal state;
*stale reads*, because handlers decide before their transaction (`lifecycleOnly`, the
current attachments, the payload); *interleaved statements* at READ COMMITTED, where only
the locks a transaction takes protect what it has checked; *partial failure*, because files
and rows cannot be committed together; *lost notifications*, because events carry no data and buffers are finite; and *several processes*,
because locks and caches live in one process while the database, and the deployment files, are
shared by all.

## Modules

| Module | Models | Uses |
|---|---|---|
| `Membership` | abstract specification: the life cycle of users, Spaces and memberships, without actors | |
| `Spaces` | the SQLite transactions on Spaces and users, one action each | implements `Membership` |
| `SpacesPg` | the PostgreSQL transactions, one action per statement | extends `Spaces`, implements `Membership`, and `Spaces` where transactions do not overlap |
| `Memos` | memos, shares and cascades on top of Spaces | extends `Spaces` |
| `MemoAccess` | the copies of the read policy | extends `Memos` |
| `MemoEdits` | requests that read first and write later: memos and attachment bindings | |
| `AttachmentFiles` | rows and files of attachments | |
| `LiveRefresh` | SSE hub, stream handlers, tabs | |
| `Linkage` | abstract specification: who holds an external identity, and for whom a login is decided | |
| `Accounts` | sign-on, linking, registration, setup, statement by statement | implements `Linkage` (`INSTANCE ... WITH`) |
| `Sessions` | refresh tokens, user rows and their caches in several processes | |
| `SessionsEnded` | a history variable: the tokens that were removed | extends `Sessions` |
| `AuthConfig` | the GENERAL setting, identity providers and deployment files | |
| `Startup` | migration and first settings of processes that start | |
| `Filter` | the filter compiler, its SQL and the meaning of both | |
| `MemosProofs`, `SpacesPgProofs`, `AttachmentProofs`, `LiveRefreshProofs`, `AccountsProofs`, `SessionsProofs`, `AuthConfigProofs`, `StartupProofs` | theorems | extend the modules they are about: `AttachmentProofs` both `MemoEdits` and `AttachmentFiles`; `SpacesPgProofs` also `MemosProofs`, for the theorems about `Spaces` |
| `MC...` | symmetry sets and constant definitions for TLC | extend the module they check |

Definitions marked "(a plausible slip)" belong to no specification. Each is a mistake that
could be made in the code, put in place of the real definition to see that a property
notices.

**Spaces.** `user[u]` is `absent`, `NORMAL` or `ARCHIVED`; `spaces` the Spaces that exist;
`member[s][u]` the `space_member` row. Every write transaction of `sqlite/space.go`,
`space_delete.go`, `user.go` and `user_delete.go` that touches them is an action with the
checks of the code in its guard. `UpdateSpace` changes names only and is left out.
`Lifecycle == INSTANCE Membership` maps the state unchanged: the point of `Membership` is
what it leaves out, namely who may do what and the administrator rule, so that it is also
what the PostgreSQL driver promises.

**SpacesPg.** `tx[t]` holds the statements that a connection has still to run, its
arguments, what earlier statements decided, and the rows it has locked. `user`, `spaces` and
`member` are the committed rows. A `FOR UPDATE` waits while another transaction holds the
row. The last write and `COMMIT` are one step; the header of the module says why nothing is
lost by that. `DeleteUser` and `DeleteSpace` delete many rows before they commit, and hold the
lock of each: `deleted[t]`. Memberships are deleted one by one; memos, shares, reactions,
attachments and relations are `Dependent` rows, of which a deletion may find any, in any order:
`DeleteSpace` before its memberships, `DeleteUser` after its invitations. Their contents belong
to `Memos`, and the memo transactions of PostgreSQL, which lock some of them too, are not here.
`Abort` is a lost connection, a cancelled request, a crash before `COMMIT`, or the victim of
the deadlock detector.

**Memos.** An action is a store transaction. What a handler decides from reads made before
(the update itself and `LifecycleOnly`) is quantified over, so that every stale decision is
included. `Apply` is `applyMemoUpdate`; `ValidateMemoWrite` is `ValidateMemoWritePolicy`
with the reads of `validateSQLiteMemoWritePolicy`. The clock `now` advances in `Tick` so
that shares expire.

**MemoAccess** has no state of its own; the read policies are operators over the state of
`Memos` and are compared in every state it reaches.

**MemoEdits.** `req[r]` is what a handler has read and means to write; each read is an action
and so is the final transaction. A content is known by the attachments its images refer to
and by the tags extracted from it. Abstractions: one author; policy rejections and motion
media groups appear as refusals, which any request may meet, or as a smaller set of
requested attachments; identifiers are never used again, as in the schema; updates of
relations alone are left out.

**AttachmentFiles.** An upload goes through *new, chosen, saved, failed, compensating,
done*; `disk[p]` is the upload whose bytes are at path `p`. Writes, removals and insertions
may fail, an insertion may be reported as failed although it was committed, and the server
may stop at any point. `UniqueTemplate` says whether the configured path template contains
`{uuid}`. Bytes kept in the database need none of this and are left out.

**LiveRefresh.** `hub[i]` has the registered clients and the closed flag of the process `i`.
`Subscribe`, `Unsubscribe` and `Close` hold the write lock and are one step; a publisher
holds the read lock from `Publish` to `Sent`, one `Send` per client in between, and then
evicts slow clients. `stream[c]` is a client and its handler: accepted (headers flushed),
open (registered, or told to end at once by a closed hub), none. `tab[b]` is the connection loop: connecting,
connected, waiting, hidden; `dirty` and `seen` stand for the query cache. What is in sockets
counts as buffered. The tabs of one browser share a connection through a lock and a
broadcast channel; a tab here is the one that owns it.

**Accounts.** `call[c]` is a call between two statements, `user` and `links` the committed
rows, `born` how an account came to be. A conflict of a transaction is one of the UNIQUE
constraints. `Promise == INSTANCE Linkage WITH` maps a call of sign-on to a login that has
*asked* for its identity and is *decided* by the statement that finds the linkage or by the
transaction that makes it. `Linkage` knows neither names, nor retries, nor the reconciliation
with the winner of a race, which are the ways in which the code could get it wrong. `Fail` is a
statement that fails or a client that leaves. Passwords, profile fields and changes of role are
left out; callers are judged by their row.

**Sessions.** One account, since caches are keyed by account. `stored` is the list in the
`user_setting` row and `listCache[p]` what process `p` has of it; `status` and `userCache[p]`
likewise for the user row. A change holds `refreshTokenMu` of its process from `Change` to
`CacheList`; the check of a token reads without it, so a `FillList` may come after a change.
`Tick` ages entries. Expired tokens, signatures and the descriptions of clients are left out. A
token is the ID of a record; `issued` is what clients may present.

**AuthConfig.** `call[c]` is an administrator call with the snapshot of its SERIALIZABLE
transaction; `stale` marks it when a transaction that wrote has committed since. `proc[p]` is a
process and the files it has found: it goes from *general* through *providers* and *publish* to
*up*, each read of `validateDeploymentAuthenticationState` a step of its own, outside any
transaction, while others mutate. `Stop` may come at any time and takes the calls of the process
along. `rollout` says how new files arrive: with "rolling" every process may find its own, as in
the update the chart prescribes; with "recreate" no process starts while one with other files
runs. GENERAL is known by `DisallowPasswordAuth` alone, a provider by its UID and its ID.

**Startup.** `proc[p]` goes from *check* to *serving* or to a refusal; `applied` is the set of
migrations the tables reflect, `basic` and `access` the rows. A transaction of migrations is one
step (SQLite and PostgreSQL) and fails when a change is already made, unless its files can be
repeated. `End` may come anywhere, so that every prefix of a start is a crash.

**Filter.** A filter is the tree cel-go has checked. `Build` is `buildCondition` and what it
calls, `RenderCondition` the renderer; SQL stays a tree, whose leaves name the argument that
`addArg` made for them. `Position` is the argument a driver binds there: the same one for `$n`,
the next one in the order of the text for a bare `?`, which differs once a side was dropped that
had arguments (`Misbound`). `Accepted` are the statements the database runs: MySQL's and
PostgreSQL's drivers refuse surplus arguments, SQLite's (modernc.org/sqlite, not under `src/`)
ignores them, as far as we know it. `Query` puts the visibilities `ListMemos` may be limited to
behind the filters, for all the conditions of its own. `Eval` is the database: three-valued logic, `LIKE` with its escape, the string
functions of SQLite. `Means` is CEL with the deviations the code documents: text matches on the
content ignore case, `all()` wants a tag, a missing flag is false.

## Runs

Every run finishes in about two minutes or less with two workers. Passing runs:

| Run | Instance | States | Shows |
|---|---|---|---|
| `memos` | 2 users, 2 Spaces, 1 memo, 1 share, 2 contents, times 0 to 2 | 20,286 | Space membership: `ActiveAdminRetained`, `NoOrphanMember`, `ArchivedRowFrozen`, refinement of `Membership`; memos: `PlacementValid`, `SpaceMemoUnshared`, `AuthorCanWithdraw`, `RemovedAuthorOnlyMoves`, `PlacementNeedsMembership`, `ReadPathsAgree`, `ParticipationNeedsRead` |
| `spaces_pg` | 2 users, 1 Space, 1 dependent row, 2 connections | 333,702 up to symmetry | `PgNoOrphanMember`, `PgMembershipLifecycle`, `OnlyDeletionsDeadlock` |
| `memo_edits` | 2 memos, 1 attachment, 2 contents, 2 requests | 187,330 | `RefsBound`, `BindingsLive`, `AttachmentNotStolen` |
| `attachment_files` | 3 uploads, 2 UIDs, 1 file name, local and S3 | 28,340 | `RowKeepsBytes`, `NoLitter` |
| `live_refresh` | 1 process, 2 streams, 1 tab, 1 publisher, buffer of 1, 2 changes | 18,203 | `NoSendOnClosed`, `ChannelsClosedOnce`, `NoSilentMiss`, `DueUntilFetched`, `ChangeReachesTab`, `CloseEndsStreams` |
| `accounts` | 2 processes, 2 calls, 1 provider, 2 subjects of which one is a username, 2 usernames, 2 accounts | 704,365 up to symmetry | `ImplementsLinkage`, `NoTakeover`, `OneSetupPerProcess`, `ClosedRegistration` |
| `sessions` | 2 processes, 2 calls, 2 tokens, entries that live until the next tick, 1 archival or restoration | 517,382 | `ArchivedRefused`, `RevokedRefused`, `RefusalFinal` |
| `auth_config` | 2 processes, 2 calls, 2 UIDs, 3 mutations, 2 attempts, both kinds of rollout | 2,036,835 up to symmetry | `MutationsKeepAWayIn`, `ManagedHasAWayIn` |
| `startup` | 2 processes, releases 2 and 4, minimum 2, 4 starts | 1,033,880 | `VersionNotAhead`, `ServesMigratedSchema`, `AccessDecidedOnce`, `SecretKept` |
| `filter` | some 1,450 filters, 1 or 2 per request, with and without a condition of `ListMemos`, 35 memos, 3 dialects | 52,221 | `SelectsOnlyMeant`, `SelectsAllMeant` |

Two more runs are expected to violate a property; see [below](#disagreements-found).

Why the bounds are enough. *Spaces*: checked together with *Memos* on two users and two
Spaces; the proofs cover any number. *Memos*: a move needs a source and a target Space; the
policies look at one memo and one reader at a time; three times give a share that is before, at and after its expiry.
*SpacesPg*: the known races are between two transactions; a membership and one dependent row are
enough for two deletions to lock them in opposite orders; the proofs cover any number of
connections, users, Spaces and rows.
*MemoEdits*: two requests and two memos that want one attachment; the proofs cover any
number. *AttachmentFiles*: two uploads that collide and a third that comes between.
*LiveRefresh*: a buffer of one overflows at the second change; two streams let an abandoned
one and its successor be registered together; several publishers are covered by the proofs.
*Accounts*: two calls that race, an account that was there before and one that is made; the second
subject lets an account have another identity of the provider. *Sessions*: two tokens are a session
and its successor; a tick may come between any two steps, so a longer TTL only delays expiry.
*AuthConfig*: a call can commit between the attempts of another, or between the two reads of a
process that starts; a call that ended can be followed by a third; the proofs cover any number.
*Startup*: a release that needs two files, of which one can be repeated; four starts let both
processes crash once. *Filter*: each form alone and negated, pairs of thirteen with every
connective, strings of up to two characters with all metacharacters of both escapes. Bounds on
counters are `MaxVersion`, `MaxTime`, `MaxUsers`, `MaxUpdates`, `MaxIds`, `MaxChanges`,
`MaxStarts`, `MaxFilters`.

Fairness. `SessionsSpec` assumes that time goes on (`Tick`) and strong fairness of the steps of
a call that has begun: goroutines run, and a `sync.Mutex` hands over to the waiter that starves.
No call has to be made. `LiveSpec` assumes strong fairness of a publisher and of the handler's
steps, which wait for a `sync.RWMutex` that does not let readers starve a writer, weak fairness of what a tab does
by itself, and strong fairness of being accepted and of getting the response: a tab that
tries again and again succeeds at last. A handler that returns is assumed not to hang in a
write to a client that no longer reads; the code sets no deadline for such a write. Nothing is assumed about changes, failures,
shutdowns, restarts or users. `ChangeReachesTab` is claimed for servers that are not shut
down for good or over and over.

Deadlock is checked except in `startup` and `filter`: a start ends in service or in a refusal
once no more starts are left, and a request ends with its query.

## Disagreements found

Two are runs that are expected to violate a property, which says what a document or a comment
says.

- `spaces_pg_last_admin`: on PostgreSQL the last-administrator checks read without locks. Two
  administrators who demote each other at once, or an archival beside the creation of a
  Space, leave a Space without an active ADMIN (`docs/design/multi-spaces.md` says it must
  always retain one). The rule itself is right: `Spaces` keeps it when transactions are
  serialized, and the statements of the PostgreSQL driver keep it whenever no two transactions
  overlap (`PgSerialKeepsActiveAdmin`), so the missing locks are all there is to it.
- `sessions_revoked`: the list of refresh tokens is read from a cache of the process, changed
  and written back whole. A list cached before a `SignOut`, by another process or by a check
  that filled the cache late, brings the token back with the next sign-in or rotation.
  `RevokedRefused` shows what is left: a token that does stay out of the database is refused
  everywhere once the caches have expired; and `RefusalFinal` that nothing but such a list
  brings one back.

Seen while modelling, without a run:

- An update of a memo's location alone writes back the payload it read, and after a concurrent
  update of the content the memo keeps the tags of its former content (`memo_service.go:419`).
- With a path template without `{uuid}` two concurrent uploads of the same name write the same
  file (`attachment_service_storage.go:277`); `attachment_files` is run with `{uuid}`.
- The SSE hub serves one process. With several, as deployed, a tab never learns of changes made
  through another one; `live_refresh` is run with one.
- Stream headers leave before the client is registered, so a tab that reconnects can fetch
  everything and still miss the change that comes right after (`sse_handler.go:67`).
- The write policy counts a share as inactive from the second it expires, while
  `isMemoShareExpired` resolves its token a second longer. `ParticipationNeedsRead` shows that
  the token opens nothing on a SPACE memo all the same.
- `combineAnd` and `combineOr` drop a constant side but keep its arguments (`render.go:793`). The
  drivers of MySQL and PostgreSQL count arguments and refuse the statement; SQLite's binds every
  later `?` to an argument too early, so that the rest of the filter, the next ones and the
  conditions of `ListMemos` compare with the wrong values (`internal/filter/README.md:47`: "The
  renderer tracks offsets to compose queries with pre-existing arguments"). TLC reaches such
  statements; the properties leave them out (`Accepted`, `Misbound`), and `SelectsAllMeant` says
  that filters without a constant part never lead to one.
- On PostgreSQL `DeleteUser` and `DeleteSpace` can wait for each other: the one deletes
  invitations (`user_delete.go:47`), then memos (`:111`), then shares (`:123`), the other shares
  and memos (`space_delete.go:28`, `:100`, `:103`), then memberships (`:32`). The model reaches
  it; PostgreSQL aborts one of the two, whose call fails and can be repeated.
  `OnlyDeletionsDeadlock` says that nothing but deletions is affected.
- The chart rolls new files out process by process (`values.yaml:1-4` of
  `src/infra/kubernetes/my-chart/memo-app`). A new process finds GENERAL closed by its file and a
  stored provider; an old one, without the file, then deletes that provider, since passwords are
  allowed as far as it knows; the new process has no way in. `docs/configuration-provisioning.md:456`
  asks for another kind of rollout when the authentication changes, and `ManagedHasAWayIn` is
  stated for that. Without this condition TLC finds the lock-out.
- The lock around the first-user setup lives in one process (`store/user.go:111`), so that each
  of several may create an administrator; `OneSetupPerProcess` is about one.
- A flag that is false is missing from the payload, so `has_link == false` selects nothing on
  MySQL and PostgreSQL. `SelectsAllMeant` leaves such filters out.
- A process that ends between the commit of `LATEST.sql` and the write of the version leaves a
  database that every later start refuses as too old (`migrator.go:399`).
- Processes that start together on a fresh database each make a secret, and the last one is
  stored; until a restart each process refuses the access tokens of the others. `SecretKept` is
  about installations that have one.
- `GetInstanceGeneralSetting` renews its cache entry on every read, so that under traffic a
  change made by another process is not seen.
- `user_identity` has no foreign key: a link made while its account is deleted stays behind and
  blocks its subject, whose logins then fail.

## Proofs

TLAPS checks the theorems listed in `PROJECT.json` for every value of the constants.

- **MemosProofs, Space tables** from no assumption on `User` and `Space`. The inductive
  invariant is `SpaceInv == SpaceTypeOK /\ ActiveAdminRetained /\ NoOrphanMember`. The
  administrator rule needs the second part of itself only (every check looks for another active
  administrator than the one it takes away), but `DeleteUser` keeps it only because a user with
  an active membership is refused, and `CreateSpace` starts from an empty Space only because no
  orphaned row waits in it. Refinement of `Membership` and `ArchivedRowFrozen` are then shown
  action by action from the same invariant.
- **MemosProofs, memos** from `MemoAssumption` (the markers for "no value" are not values).
  `MemosImplementSpaces` first shows that every step of `Memos` is a step of `Spaces` or
  leaves the Space tables alone, so that `SpaceInv` carries over. `MemoInv` adds the types of
  memos and shares, `PlacementValid` and `SpaceMemoUnshared`; with the types these are
  inductive, since the cascades take the memos and shares of what they delete along and the
  clock only lets shares expire. `AuthorCanWithdraw` is not about steps: it follows from `MemoInv` because the checks of
  the write policy that a withdrawal meets are implied by the placement. `RemovedAuthorOnlyMoves` and
  `PlacementNeedsMembership` are shown per action for *every* `LifecycleOnly` a handler may have
  computed. `ReadPathsAgree` and `ParticipationNeedsRead` hold only in reachable states: the
  copies of the policy look at different rows, and agree because rows do not dangle.
- **SpacesPgProofs** from no assumption on `User`, `Space` and the connections. The committed
  rows alone are not inductive. `TxInv` says for each connection, by the statements it has left, which
  arguments it has (`Arguments`), exactly which rows it has locked (`Locks`) and what it has
  checked under these locks and may still rely on (`Checked`); and that no row is locked twice.
  A row that is locked cannot be deleted by another, so what was checked holds at the write.
  Hence `PgNoOrphanMember` and the refinement of `Membership`. Spaces are locked before users, so
  that among transactions that are no deletions whoever holds a user's row waits for nothing; and
  a deletion that holds anything waits only for rows that another deletion has deleted, because
  `FOR UPDATE` is behind it (`DelInv`: only a deletion that has come to its rows has deleted any).
  `PgDeadlocksAreDeletions` puts this together for any number of transactions: follow who waits
  for whom from a transaction that is itself waited for, and after at most two steps there are
  only deletions. So a cycle, of whatever length, is one of deletions, which do occur (see
  [above](#disagreements-found)). `PgCrossesOnlyDeletions` is the case of two. Both are about the
  Space and account transactions of `SpacesPg`; memo transactions are not in it. The
  last-administrator rule is false here (`spaces_pg_last_admin`).

  What is true of it is the second part. `PgSerialized` says that the statements of the
  transactions do together what the atomic transactions of `Spaces` do, and holds where no two
  transactions overlap (`NoOverlap`, a hypothesis of the theorem about the behaviour, not an
  assumption on a constant: the number of connections is arbitrary). `Knows` says for each
  statement left what the transaction has read, under a lock or not, that its write relies on.
  Between two statements users are still registered and restored, and what was read of them is
  then no longer so: a removal that found its target archived does not count the administrators. `KnowsMore` shows that it need not: every
  Space had an active administrator while the target was archived, so there is another one.
  That is why `ActiveAdminRetained` is part of the invariant (`SerialInv`) and comes from
  `SpaceInvInductive` at each write. No run of the project asks for it; with `Tx = {t1}`, three
  users and one Space, TLC confirms `PgSerialized`, `PgActiveAdminRetained` and `SerialInv` on
  8,619 states.
- **AttachmentProofs, memo edits** from `RefsAssumption` (which attachments a content refers to) and
  `MarkerAssumption` (markers are not identifiers). `RefsBound` is not inductive: a deletion
  of attachments acts on contents it read before. `HandlerInv` says what a handler in progress
  knows, in particular that no content which a deletion expects to find refers to one of its
  targets; since the transaction compares the contents, what it deletes is referred to by
  nobody. With it `EditInv == EditTypeOK /\ HandlerInv /\ RefsBound /\ BindingsLive` is
  inductive, and `BindingsAreFinal` follows from the comparisons in the transactions.
- **AttachmentProofs, files** from `StorageAssumption`, for templates with `{uuid}`: both theorems
  assume `UniqueTemplate`, which is a constant of the model, since without it two uploads do
  collide. `FileInv` says that a path carries the mark of its upload (`OwnPath`), that bytes are
  only where their upload put them (`OwnBytes`), in which order rows, compensation and cleanup
  come (`RowsInOrder`), and that without a fault somebody is in charge of all bytes
  (`Accounted`), which `NoLitter` becomes once nobody is under way.
- **LiveRefreshProofs** from `BufferAssumption` (buffers are not empty). `NoSendOnClosed` needs
  that the clients a publisher has still to send to are registered (`PublisherOK`), which the
  read lock guarantees, and that registered clients have open channels (`ClientsOpen`).
  `NoSilentMiss` needs that the slow clients of a publisher belong to its own process, so that
  a restart which takes the publisher takes them as well. Two more results are the safety
  halves of the liveness properties. `ClosedHubEndsStreams` is what remains of
  `CloseEndsStreams` without fairness: a handler that runs after `Close` has been told to return. `DueUntilFetched`
  is the chain of `ChangeReachesTab`: an event to be sent, a buffered one, a stream about to
  end, a reconnection and an invalid query hand the obligation to fetch to each other, and no
  step drops it. `FetchInv` says what a connected tab and an unregistered stream are, and
  `OwnerInv` that the stream of a tab is the tab's own; both are needed because a slot that is
  freed and accepted anew must not pass for the stream the tab waits on.
- **SessionsProofs** from `SessionsAssumption` (`None` is no state). A token comes back only from
  a list, and a list is the stored one, a cached one or one that a call holds; so a token in
  none of them (`Forgotten`) stays away, provided a call adds only the token it has made itself,
  which nobody had before: `NewIsNew`, with the types and what a call carries at each statement
  (`CallsOK`), is the inductive invariant. A `Forgotten` token can still be presented, and a
  rotation of it may have passed the check before. That is `RevocationFinal`; `ArchivalFinal` is the same about the state of the
  account: what is read again after an entry expires is the row, which says `ARCHIVED`. Each
  action is first brought into one form, the record of one call changes to `q` and the rows and
  caches change by what the call holds (`StepOf`), and the invariant and both halves of
  `RefusalFinal` are shown for that form once.
- **AuthConfigProofs** from `AuthConfigAssumption` (at least one attempt; `None` is none of the
  values it is compared with). A transaction that commits was validated on its snapshot, not on
  what is stored then. `SnapshotsHold` says that a transaction that is not stale has
  read the GENERAL row that is stored, that all providers it has read are still stored, and that
  the one it deletes is among them; others inserted since can only help. `IdsIssued` and
  `CallsMutate` keep IDs from being used again and say what calls carry. With the type they form
  `AuthInv`, which is inductive. `MutationsLeaveAWayIn` follows from it: a mutation that is refused
  changes nothing, and one that is not refused leaves a way in wherever there was one, to every
  process with the files of the one that commits. `FilesLeaveAWayIn` needs `OneGeneration` as
  well: with the rollout "recreate" all processes that run have the same files, and these are safe
  from the moment they were checked on. The two reads of the check may see different states;
  what they miss in between only mutations can change, and these are validated against the same
  files.
- **AccountsProofs** from `AccountsAssumption` (`None` is none of the values it is compared with;
  at least one fallback). `AccountsInv` says of each call which kind it is and what it has
  decided at each statement (`CallSound`), that accounts and linkages stay below the user
  sequence (`BelowSequence`), and that the lock admits one setup per process, which has found no
  account (`SetupAlone`). The sequence is what `NoTakeover` and the refinement of `Linkage` rest
  on: the account made for a first login is new, so its linkage excludes no other. The
  refinement maps every statement: the read that finds a linkage and the transaction that makes one are `Decide`, the last
  statement of a login is `Leave`, and a retry under another name is not seen.
- **StartupProofs** from `StartupAssumption` (releases are not below the minimum; `None` is no
  version). `StartupInv` is about copies: whatever version a process has read of BASIC, at
  whatever time, the tables have reached it (`SoundBasic`), because they only grow. So a row
  written back from an old cache records no more than there is, and a process that planned on an
  old version closes the gap. `SecretKept` needs that once there is a secret every copy has it and
  nobody is about to make one (`SecretEverywhere`).

TLC confirms the inductive invariants on the instances of the runs: each holds in every state
they reach.

Only model-checked: liveness, which is out of the prover's reach (`ChangeReachesTab`,
`CloseEndsStreams`, `ArchivedRefused`, `RevokedRefused`), where the theorems give the step that
must not happen and TLC, under fairness, that the rest does; and `Filter`, whose operators recurse
over conditions: what they compute for every filter needs an induction over data, which the
installed provers cannot do. Every other property of a passing run is also a theorem.

## What is not modelled

`components` in `PROJECT.json` gives the reason for each part. In short: the MySQL driver;
personal access tokens, webhooks and memo views, which are lists in a setting like the refresh
tokens; instance settings that are plain values; regular expressions and the attachment schema
of filters; the scheduler, which nothing uses at this commit; comments, relations and reactions
beyond who may make them; notifications, webhooks and mail, which are best effort; Markdown,
presentation, clients of remote services, and infrastructure code.

Most of the repository's lines cannot be modelled at all: of some 86,000 lines about 36,000 are
generated protocol buffers and gateways, 5,000 are Unicode tables, and much of the rest are
request validation, conversions between formats and the same statements for three SQL dialects.

## Plan

Done: inventory, Space membership (SQLite and PostgreSQL), memos with both policies, memo edits,
attachment storage, live refresh, accounts with sign-on, sessions, the sign-in configuration,
starts and migrations, filters; proofs of every safety property of a passing run but those of
`Filter`.

Next, in this order:

1. `MemosPg`: memo mutations, attachment deletions, reactions and the cascades of users and
   Spaces on PostgreSQL, statement by statement, with SERIALIZABLE where it is used.
2. Comments, relations and their cascade in `Memos`; several memos and shares.
3. Personal access tokens and webhooks in `Sessions`; the sharing of a connection among tabs in
   `LiveRefresh`.
4. `SpacesMySQL` with snapshot reads; `Scheduler`.
