# LiveSync, verified

TLA+ models of LiveSync's collaborative core, the TLC configurations that check
them on small instances, and TLAPS proofs of what matters most for every
instance. Paths are relative to `src/`.

## The system

| Component | State | Operations | Talks to |
|---|---|---|---|
| **Conflict resolver** `livesync-realtime/src/services/conflictResolver.ts` | none | apply an insert or a delete, with clamping; transform one against a concurrent one | called by every SendOperation handler |
| **Operation pipeline** `hubs/editorHub.ts:404-527`, `services/operationLog.ts` | Redis: `doc:revision`, `doc:operations` (sorted set), `doc:snapshot`, the hot text | SendOperation, RequestMissedOperations, compaction that nobody waits for | all handlers of all replicas share the Redis keys; broadcasts through the Redis adapter |
| **Document room and write-behind** rest of `hubs/editorHub.ts`, `services/documentStateService.ts`, `documentAccessClient.ts` | Redis: members, access levels per connection, hot text, save stream; per replica in memory: tokens, last saved text | JoinDocument, LeaveDocument, SendContentUpdate, disconnect, the sweeper (2 min), the flusher | the API: permission checks and PUT of the text; the save stream |
| **Save stream consumer** `livesync-api/services/stream_consumer.go` | position of the consumer group, entries in hand | poll, write to Postgres, acknowledge and delete | Redis stream, document service |
| **Document service** `services/document_service.go` | Postgres rows | create, read (hot text over stored text), update, share, delete | Postgres, Redis |
| **Access cache** `services/acl_cache_service.go`, `Access` in `document_service.go:593-644`, `editorHub.ts:699-745` | Redis: access level per user and document; a second cache in the gateway (10 s) | cache-aside read, invalidation, write-through | API, realtime service, gateway |
| **Folder tree and quotas** `services/folder_service.go`, `quota_guard.go` | Postgres rows with parent links | create, move, share, recursive delete, inherited access, quota checks before inserts | document service |
| **Identity and audit** `services/auth_service.go`, `audit_service.go`, `security/` | Postgres rows | register, log in, append audit rows | - |
| **Workspace synchronisation** `livesync-gateway/handlers/workspace_*.go` | suppressed paths, files on disk, file watcher | materialise a workspace, sync a file, report file events, replace in files | UI, disk |
| **Terminals, execution, sandboxes** `handlers/terminal.go`, `execution.go`, `sandbox.go`, `packages.go` | PTY sessions, sandbox directories | open, run, clean up | Docker, disk |
| **Gateway access check, AI proxy, AI service** `middleware/auth.go`, `handlers/ai.go`, `livesync-ai/` | 10 s access cache | check, forward | API, gRPC |
| **Web client** `livesync-ui/src/app` | open document, joined room, comments, pending saves, lists and dialogs | join, leave, type, reconnect, share, search, install packages | everything |
| **Deployment** `docker-compose.yml` | - | two replicas of the realtime service, one API | - |

What is hard here: every `await` of a realtime handler is a point where the
other handlers of the same replica, and of the other one, run; state that
several processes share lives in Redis while each replica also remembers things
of its own; three writers (flusher, room close, stream consumer) race for one
Postgres row; sockets, replicas and the API die in the middle; operations are
transformed against a log that is being pruned. `PROJECT.json` lists each hazard
at its line.

What makes each component right, in a sentence:

* resolver: two replicas that apply the same two concurrent operations in
  different orders show the same text; nothing is deleted twice; an insert is
  never torn;
* pipeline: one gapless order of operations; each transformed against what its
  author had not seen; hot text and snapshots reflect that order; a client that
  drops out misses nothing;
* room: who is gone gets removed; a closed room leaves no state behind and its
  last text in Postgres; every edit gets to Postgres even if the room never
  closes;
* access levels: every cache, and whoever is let into a room, follows a change of
  the sharing within a stated time;
* folder tree: parent links stay a forest; a deletion takes all that was below
  the folder;
* workspace directory: the suppression of the gateway's own writes hides no write
  of a program; a run gets a complete copy;
* browser: a command runs once, in its project; the connection is a member of
  exactly the rooms that are shown; what a user wrote survives a failed save and
  reaches the API in order; lists and tabs follow what other members change; an
  answer never covers that of a later query or search; a share dialog shows the code
  and the level of the item it names.

## Modules

### ConflictResolver, TwoReplicas

`ConflictResolver` holds the pure functions of `conflictResolver.ts`: one
operator per rule (`TransformInsertAgainstInsert`, ...), `ApplyInsert` and
`ApplyDelete` with their clamping of positions, and the comparison of operation
ids of `models/operationId.ts`. Texts are sequences of characters.

`TwoReplicas` is the situation TP1 is about: a shared base text, one operation
made on each of two replicas at the same time, each replica applying its own as
it is and the other's after `transformAgainstConcurrent`. Its initial states are
*all* pairs of operations on all short bases.

### OrderedLog, OperationPipeline

`OrderedLog` is the promise: operations are numbered 1, 2, 3, ... and are in the
log from the moment they have their number; the log forgets from the old end
only, and only what is more than `KeepRevisions` behind.

`OperationPipeline` is the code: one action per Redis call of
`handleSendOperation` (`TransformAgainstLog`, `AppendAtomically`, `GetContent`,
`SetContent`, `Broadcast`), the two calls of a compaction (`SaveSnapshot`,
`PruneOperationsOlderThan`) as a job that runs on after its handler, any of them
failing (`FailSend`, `FailCompaction`), and the client's side of a dropped
connection (`Disconnect`, `Rejoin`, `SendMissed`, `ResyncComplete`). An operation
is abstracted to its author, its base, its revision and the set of revisions it
was transformed against; a text to the sequence of revisions applied to it. The
Lua script is one action, because Redis runs it as one.

A client marks a revision as seen by `Complete(c, r)`: it bases an operation, or
a request for missed operations, only on revisions it has everything up to. The
repository's UI does not send operations (it uses SendContentUpdate), so this
part of the client is the protocol that the hub's messages are made for, marked
external.

### DocumentRoom

One document. A process is a socket's message handler, its disconnect handler,
or one of the two timers of a replica; `proc[p].pc` is the call it is about to
make. Leave, disconnect and sweep share the removal of a user (`RemoveUser` ...
`RemoveConnection`): the code writes it three times with small differences,
which are the conditions on `p[1]`. `status`, `users`, `access`, `hot`, `stream` are Redis
(and the sockets), `tokens` and `lastSaved` a replica's maps, `delivered` and
`batch` the consumer group and the consumer. The stream is the set of its entries that are
not deleted, each a number and a text; the consumer is given what is behind `delivered`
(`Poll`), deals with the oldest entry in hand (`Consume`), and is given again what
it had in hand when nothing new is there (`ConsumerCrash`). Two history variables: `latest`
is the text of the last accepted update; `mistaken` says that an update went back to a
text its replica takes for saved, after a flush whose PUT failed (Findings, 3).

Abstractions: texts are values; the set of tokens is the set of sockets they
belong to, because the code only asks whether there is one (which of them is
taken, the last editor's if possible, changes neither the text nor whether there
is a PUT); the API answers permission checks with Edit; a socket handles one
message of its own at a time, and its disconnect handler runs beside it; Redis
keys do not expire (24 h) within a behaviour.

Two further simplifications. Redis calls inside the room's handlers do not throw. And the
calls of two handlers of one replica may overtake each other between any two
steps, which one `ioredis` connection, being a queue, would not do for calls issued
in an order; the model then has more behaviours than the code, which is sound
for what passes, and neither violated run depends on it.

### FolderTree

`parent` and `location` are the two columns `"Folders"."ParentFolderId"` and
`"Documents"."FolderId"`, with `Unborn` and `Deleted` for ids without a row. The
schema (`database/migrations.go:35-59`) has no foreign key and no request opens a
transaction, so a request is a record `req[r]` that goes from one query to the next
(`pc`), with what it has read so far: `found` and `todo` for the walk of
`collectSubfolderIds`, `stack` for the recursion of `deleteContentsRecursively` (one
frame per active call, with the subfolders it read), `root` for the quota check.
`cached` is the set of folders whose level in the access cache is Edit.
`misplaced` is a history variable: what was written into a folder that had no row,
or while a deletion was running.

Abstractions: the requests are those of users who may edit what exists, so an
access check is "cached, or the row is there" and its read and fill are one step
(their race is for the access cache module); a level None is cached only for rows
that are gone, and ids do not come back; shares, names, share codes, the byte quota
and the default folder are left out; database errors are not modelled. The order in
which a recursion visits subfolders is arbitrary, as a SELECT without ORDER BY is.
`DeleteDocument` is one step: nothing happens between its check and its DELETE that
would change what it does.

### Sharing

One document (entity 0), the folders above it (1 .. `Depth`, the last the project), and
for each user the four places a level is kept in: the share rows (`rows`), the
Redis cache that the API and the hub both write (`cache`), the gateway's own
(`gate`), and the level of a connection at the hub (`held`). A lookup is a record
`request[lane][u]` going from query to query: `Look`, `ReadRaw`, one `ReadShare` per
folder on the way up, `Fill`, and the answer to the browser, the hub or the gateway
(`ReplyRest`, `ReplyJoin`, `ReplyGate`). A change is a record `manage[m]`: the rows
first (`RemoveShare`, `UpdateShareAccess`, `UpdateCodeAccess`, `DeleteDocument`), then the
cache (`InvalidateAccess`, `SetAccess`, or the SCAN and DEL of `DeleteByPattern`), then,
from the browser that asked, the event on which the hub writes the level through and
tells the sockets. `AddShare` (joining by a share code) belongs to the user.

Time is in `Tick`s. An entry lives `TTL` ticks; a request or change lives less than one
tick, so at most one falls into it (`old`). `quiet` is the history variable that the
properties measure with: ticks since the last step of a change. One user has one join
and one gateway check under way at a time. Redis DEL of the keys a SCAN found, the
levels of other documents and the owner's level are as described in the module.

### WorkspaceDisk

The directory the gateway keeps for a project (`disk`, each file a text and its lock),
written path by path by requests that interleave: `HandleWorkspaceSync` and the sync
message of a terminal (register, rename, chmod), `HandleReplace` (truncate, write),
`RunCode` with `MaterializeWorkspaceFromManifest` (stat, fetch, rename, chmod) and
`CreateEphemeralSandbox`. `entries` is the `SuppressionRegistry`. A terminal has its
watcher: `events` from inotify, the one it is `checking`, and `pending` until the timer
of `FlushEvents`. `ShellWrite` and `ShellRemove` are programs in a terminal. `untold` is a
history variable: changes by programs that a terminal's browser has not heard of.
A file is one of two paths, a text one of two contents; directories, ignore rules, path
checks and size limits are left out; the five seconds of an entry are "some time"
(`Expire`), and two writes of one text are told apart by nothing, as in the code.

### TerminalClient, RealtimeClient, EditorSaves, Explorer, PackageHub, WorkspaceSearch, ShareDialog, MCWorkbench

The services of the browser that keep state across awaits, one module each:

* `TerminalClient` is `live-terminal.service.ts` and the profile runner of
  `run-config.service.ts`: tabs, every socket ever made with the project it was opened
  for, the one queue of commands all tabs share, the timers that deliver it, files waiting to
  be synchronised. `isConnected` and `terminalStatus` are display and left out.
* `RealtimeClient` is `realtime.service.ts` with the hub's side of one connection: the map of
  document states and subscribers, wanted workspaces, the token, socket.io's buffer, the joins
  the hub has begun and the rooms it has put the connection in. A message is its kind
  and its room.
* `EditorSaves` is the part of `editor.ts` that moves text: loading and access, drafts, the
  2 s timer and the handle by which the editor knows it, PUTs that overlap and fail,
  remote texts, the formatter, closing and reloading. A text is its number; a PUT is a
  record with a number of its own, since two may carry one text.
* `Explorer` is the part of `workspace.ts` that loads and changes the list: scope, expanded
  folders and their cached contents, tabs, moves, creations and deletions, and the notices
  between members. A function with awaits is a job; what it has read stays in its
  record while others run. A project is one folder; subfolders, names and the tree
  of shared folders are left out.
* `PackageHub` is the package panel (`package-manager.service.ts`): the search box with its
  debounced pipe (`debounceTime`, `distinctUntilChanged`, `switchMap`), where `asking` holds the
  request whose answer is still wanted, and the calls that install and remove packages with the
  marks on them. A query stands for a text and its language.
* `WorkspaceSearch` is the search panel (`workspace-search.service.ts`): searches and
  replacements, each a record in `trips`, answered in any order. The files are a version that every
  replacement makes one newer, and hits are the version they are of.
* `ShareDialog` is the share dialogs of the dashboard and the workspace page with the list behind
  them. What a browser holds of an item is a JavaScript object with a name in `objects`; list
  and dialog may hold the same one or a copy, and handlers write into the one they began with.

The seven share no variable: what one does to another (a run profile that synchronises
files, an editor that joins its document) happens within the modules or through the
server. `MCWorkbench` therefore checks them side by side in one run, an execution
choosing one service and leaving the rest as they start.

### How they fit

`TwoReplicas` INSTANCEs nothing and EXTENDS `ConflictResolver`;
`OperationPipeline` uses the resolver only as "transformed against these
revisions" and is shown to implement `OrderedLog` by INSTANCE. `DocumentRoom`
covers the life of the room around it; the two meet only in rooms to which somebody
sends operations, which the repository's client does not do. `FolderTree` shares the
`"Documents"` rows with `DocumentRoom` but no column of them. `Sharing` has the join of
`DocumentRoom` as one of its lanes, seen from the levels; `DocumentRoom` takes the level as
granted. `RealtimeClient` meets the hub of `DocumentRoom` from the other end of one socket.

## Runs

| Run | Question | Answer |
|---|---|---|
| `two_replicas` | all pairs of operations on bases up to 4 characters, inserted texts up to 2 | `ConvergedOffBoundary`: equal texts unless an insert meets the end of a deleted span; `EditsExact`: deletes exact, and within the text they are applied to, inserts whole or gone |
| `tp1_boundary` | TP1 as documented | **violated** at that boundary |
| `pipeline_safety` | two handlers interleaved call by call, overlapping compactions, a disconnect, a failing call | numbering, retention, what an operation is transformed against, no hole after a resynchronisation, and the refinement of `OrderedLog` hold |
| `pipeline_sequential` | one handler at a time, compactions still overlapping, a disconnect | transformation is complete, the hot text is exact, a snapshot is exact and the log continues it; every operation arrives and every handler ends |
| `pipeline_toctou` | complete transformation with two handlers | **violated** |
| `room_sequential` | one socket, one replica doing one thing at a time, beside the stream consumer; three edits, a PUT may fail | a closed room's last text is what Postgres ends up with; every edit reaches Postgres |
| `room_concurrent` | two processes interleaved call by call, a replica crash; no edits | no token outlives its user's membership; who is gone is swept |
| `room_stream` | two sockets, consumer crash, failing UPDATE and PUT, a seeding client, one edit | a closed room leaves nothing behind; every entry leaves the stream |
| `folder_tree` | two requests interleaved query by query, at most one of them a MoveFolder, from every forest of up to three folders with every assignment of documents and cached levels | the folders stay a forest; what a deletion strands was put there while it ran or later |
| `sharing` | lookups, a join, a gateway check and one change of the sharing interleaved query by query, with the caches expiring | `CacheSettles`: `TTL` + 2 ticks after the last change no entry disagrees with the rows; `LevelsSettle`: neither does the gateway's after `TTL` + `GatewayTTL` + 1, nor a level someone is let in with after `TTL` + 3 |
| `workspace_disk` | two requests and a program write the directory, a terminal watches, a call may fail | the suppression hides no program's change and each is announced in the end; a run's sandbox is complete if nothing but the gateway touched the files |
| `workbench` | the seven services of the browser, each interleaved with its sockets, timers, answers and failures | ten properties, below |

`workbench` in words: no command is lost, run twice, forgotten or taken to another
project (`CommandsArrive`); once nothing is on its way the connection is in every room
that is wanted, and in no other but for the cases named (`RoomsFollowPage`); a text the user
sees is in the draft or stored (`DraftKept`); the API never holds an older text over a newer
one, but for the cases named, and a collaborator's text leaves the editor only on the user's
demand (`SavesOwnInOrder`); when nothing is under way every member's list is the server's
(`ListSettles`); tabs are those of the scoped project (`TabsOfScope`); the results in the package
panel are those of the text in its box, and a package is marked while a call for it runs, and
only then (`PanelSettles`); the hits of a search are of the files as they are, and a match is
replaced where it is (`HitsCurrent`); list and dialog show the code, the level and the member that
the API has, and no dialog the code of another item (`DialogSettles`); an editor that stays open
is joined or refused in the end and the last text is stored in the end (`ServicesSettle`).

### Bounds

* Resolver: a base of four characters has room for every relative position of
  two spans (before, overlapping on either side, inside, equal, touching), and an
  inserted text of two can be torn. The proofs remove the bound.
* Pipeline: three revisions, `SnapshotEvery` 1 and `KeepRevisions` 1, so that
  each operation starts a compaction and each compaction has something to prune;
  the code has 100 and 200. `MaxLag` bounds how old an operation's base is,
  `MaxJobLag` how many revisions a compaction may be overtaken by. Without
  `MaxJobLag` a compaction delayed without limit could overwrite a newer snapshot
  with one that the pruned log no longer continues; the code has no guard against
  it, but would have to take as long as `KeepRevisions` operations. The proofs
  need no bound but the natural numbers.
* Room: two texts are what it takes to go back to a text already saved, three edits to
  leave it and return; a second socket adds nothing to that, and is there where handlers or
  memberships meet. `MaxRunning` is
  the number of processes in the middle of something: 1 means that handlers do
  not interleave (the consumer and its crashes always do), 2 is every pair. The proofs
  remove the numbers of sockets and edits.
* Folders: three folders make a chain whose two ends can be moved onto each other
  and a deletion of two levels; two documents and one file per project put a
  project at its limit. `MaxFolderDepth` is the code's 4, so that it is not the depth
  check that keeps a folder out of its own descendants; three folders do not reach
  it, and its limit is left to the properties on depth in the plan. Two requests
  (`MaxRequests`) are every pair of operations, both running or one after the other,
  and because the initial states are all forests, with all cached levels, a pair
  stands for what a longer history leads to. `MaxMoves` is the number of MoveFolder
  requests that run at the same time; the code has no such limit, and with 2
  `Forest` fails (Findings). The proof removes all other bounds.
* Sharing: one user, one manager, one change, two requests at once, each cache one tick: the
  lanes of one user are what interferes, and the proof removes every bound.
* Disk: two paths let a request be between two of them while something else happens, two texts
  are what suppression tells apart, two requests each pair of them, one change by a program,
  one failing call.
* Browser: two projects, two commands and one lost connection (`MaxCommands` and `MaxCuts` bound
  the two together), three sockets; two
  documents and one workspace, three emits, one dropped connection, one event; two texts
  typed, one manual save, one PUT on its way while another is asked for, one reload; two members,
  two projects, two
  documents, two clicks, two jobs at once, one failing request; two queries, one package,
  four keys, two calls; one needle, three requests, two changes of the box; two folders and one
  document to share, three clicks and failures together (`MaxShareClicks`), two jobs at once.
  Each is the least at which
  the interesting order exists: a queue carried to another project, a join lost with its
  connection, a save overtaken, a load that overlaps a change of another member, a query typed
  again, a search inside a replacement overtaken by a search, a code generated while another
  dialog opens. The
  other services stand still at their start, so the state space is a sum, not a product. The
  proofs remove the bounds of the editor and of the two panels.

`CHECK_DEADLOCK FALSE` everywhere: a bounded behaviour ends when its edits and
sockets are used up, and the system may really be at rest.

### What the passing runs do not claim

`HotContentCurrent`, `ClosedTextDurable`, `LastOneOutCloses` and
`EditsReachPostgres` are checked under assumptions the code does not enforce.
Outside of them, found while modelling:

* **Two handlers.** `getContent` and `setContent` are two calls
  (`editorHub.ts:452-454`); the second of two handlers overwrites the first.
* **An update inside a close.** Between the read of the final text and the
  deletion of the hot key (`editorHub.ts:342-360`) an update is deleted with it;
  one that lands after the deletion leaves a hot text in a room without users,
  which no sweeper visits and which shadows Postgres until it expires.
* **A failed PUT.** On one replica: W is saved, X is published but its PUT
  fails, the user returns to W; the close finds W equal to `lastSavedContent`
  and publishes nothing, Postgres keeps X. `mistaken` exempts it; it is the same flaw as
  in Findings, 3.
* **Crashing consumer.** What it had in hand is read again only when nothing new
  is there, hence after newer entries, over which it wins.
* **A failing UPDATE** is ignored and its entry deleted (`stream_consumer.go:128-139`).
* **A seeding join** stores the text that the client had loaded if the key is
  missing, however old that text is; the repository's UI does not seed.
* **A late PUT.** With two handlers on one replica, the flusher's PUT of an older
  text (`editorHub.ts:164`) may overtake that of a close that came after it.
* **Folders.** `Forest` needs that MoveFolder requests do not overlap.
  `OnlyLatecomersStranded` says what it does *not* exclude: a folder or document
  that is created in or moved into a subtree while it is being deleted survives below a
  missing row; so does what is moved into a subfolder long after its deletion,
  because only the level of the deleted folder itself is taken out of the cache
  (`folder_service.go:333-335`) and `MoveDocument`, `MoveFolder` and `Create` trust the
  cache for 15 minutes; so does what a failing query of the deletion leaves. Depth
  and quotas are modelled, but nothing is claimed of them: a move checks the depth
  of its target only and no quota (`:404-412`, `:363-382`), and a file count is read
  before the insert (`document_service.go:183-195`).
* **Two replicas.** A sweeper removes the users of another replica's dead
  sockets but their tokens only from its own map; a replica that dies in the
  middle of a close leaves a hot key without users.

* **Levels.** `Revoked` is cached as a level of its own, which no check takes for "none"
  until it expires; a join that read before a revocation keeps its level for as long
  as the socket lives (`JoinsSettle` speaks of who is let in, not of who is in); an
  `updateUserDocumentAccess` for a socket that never joined makes it look joined; `AddShare`
  leaves a cached `None` for up to 15 minutes.
* **Directory.** The chmod that follows a synchronisation's rename
  carries no suppression: the watcher tells the editors of a "write" that was the
  gateway's own (`terminal.go:357-374`, against the comment `workspace_sync.go:26-27`). A
  terminal's `.livesync_bashrc`, or any one synchronised file, makes the directory non-empty and
  materialisation is skipped (against the comment `execution.go:108`), so a run may find one file. `SandboxComplete` is
  about runs that did materialise. A replacement truncates in place, and a sandbox
  copied meanwhile holds the empty text; two synchronisations may leave the text of one with the
  lock of the other; materialising may write an older text over a newer one.
* **Terminals.** Commands and files that waited while the project changed are
  delivered in the new one (`carried` exempts them). Every command given while a socket
  connects opens one more socket. Closing the tab whose socket is connecting leaves its
  commands in the queue until the next command (`lostAt`).
* **Realtime.** `excused` are the memberships that outlive their editor: left while disconnected,
  left before the join was answered, or brought back by a late event. A refused join is
  never tried again. Permission events of the hub go to a room nobody joins; comments
  reach their sender twice and are stored nowhere.
* **Saving.** `outdated`, `orphaned`, `overtaken` and `dropped` are the ways in which the code
  does save in the wrong order: a load that shows an older text; a handle set to null
  after the await of an older save, so that the newer timer cannot be cancelled
  (`editor.ts:831-832`); PUTs overtaking each other; the answer to an older save that
  removes a newer draft (`:863-866`). A restored draft is saved only once it is edited. The
  formatter overwrites what was typed meanwhile.
* **Explorer.** Two overlapping loads may end in the wrong order and show the older list
  for good (`missed`); a project's deletion is announced to a room nobody is in, since
  `scopedProject` is cleared first; rooms of former projects are never left; a folder
  expanded again shows its cached contents.
* **Package panel.** An empty query clears the results but cancels nothing, so a late answer
  fills them again; a query equal to the one before is dropped by `distinctUntilChanged` and
  the spinner stays (`swallowed`); an editor that opens empties the results of the page
  (`emptied`); of two calls for one package the first to return takes the mark from both
  (`twice`). `fetchInstalledPackages` shows the head of the catalogue, not what is installed.
* **Search panel.** No request is cancelled: an older answer may be shown over a newer one, until
  the next search (`upTo`), and `isSearching` is false after the first of several has ended.
  Replace-all replaces the text that is in the box by now, and without the include and exclude
  filters; Enter in the replace box does not wait for a request under way; a single replacement
  uses the position of a hit that may be out of date (`crossed`).
* **Sharing.** The dialog of a document goes on showing the level it was opened with (`dated`;
  `workspace.html:1339` reads a signal that `workspace.ts:1932-1944` does not set); a level
  changed twice is not in the list, the second change writing into a copy (`unlisted`); opening a
  document's dialog makes a code the list is not told of, so opening it again makes another and
  the first one stops working; a late answer puts the dialog that is open to another item and
  leaves the code of the former beside it, and a failed `openShareModal` shows the code of before
  (`mixed`); `createQuickStarter` may leave an empty project.

### Fairness

`OperationPipeline`: weak fairness of each running handler, of compactions and
of a client that is offline or catching up: an awaited Redis call returns or
throws, and socket.io reconnects. No fairness of sending or disconnecting.
`DocumentRoom`: weak fairness of every started process and of the consumer's loop; strong
fairness of the two timers' *starts*. `setInterval` fires however busy the
replica is; in the model a start may find `MaxRunning` reached again and again,
which is the bound's doing, and strong fairness undoes it. `WorkspaceDisk`: weak fairness of
each watcher, a goroutine that reads its channel and a timer. `RealtimeClient`: of
reconnecting (socket.io's own retries), of the messages of a connection that is up, and of
the hub's answers; `EditorSaves`: of the answers to GETs, of the timers and of PUTs, which
return or fail. `Sharing`, `TerminalClient`, `Explorer`, `PackageHub`, `WorkspaceSearch` and
`ShareDialog` claim safety only. Nothing is
assumed of users, and nothing of failures, which the bounds make finite.

## Findings

1. **TP1 does not hold at one place** (`tp1_boundary`). `conflictResolver.ts:85-90`
   collapses an insert *at the end* of a concurrently deleted span,
   `:107-109` leaves the delete alone there. The class comment and
   `docs/ARCHITECTURE.md:69` claim TP1. `TP1OffBoundary` proves that it is the only
   place.
2. **The TOCTOU race is not eliminated** (`pipeline_toctou`). The script makes the
   append atomic; the read it was transformed by is before it (`editorHub.ts:442`, `:450`).

Three more disagreements are reproduced by a change of one cfg, with the named
property as its INVARIANT; they are not kept as
runs of their own, whose number is limited by their time:

3. **Stale reads**: `SettledReadsCurrent` of `DocumentRoom`, in `room_sequential.cfg` with
   `Sockets <- MCSockets`, `Replicas <- MCTwoReplicas`, `Home <- MCHomeTwo`, `MaxPutFailures = 0`.
   Replica 1 flushes `b`; replica 2's flusher publishes `a`; the user goes back to `b`; replica 1's close finds `b`
   saved already (`editorHub.ts:347`), publishes nothing and deletes it. Postgres holds `a`.
   `docs/ARCHITECTURE.md:179-180` promises zero stale reads.
4. **The sweeper evicts a live user** who joins between its two reads
   (`editorHub.ts:185-195`): `SweptAreGone`, in `room_concurrent.cfg` with `MaxReplicaCrashes = 0`.
5. **Circular folders**: `Forest`, in `folder_tree.cfg` with `MaxMoves = 2`. Under the comment
   "Prevent circular hierarchy" (`folder_service.go:395`) MoveFolder looks for the target
   among the folder's descendants and updates four queries later. Two moves that both look
   first put A into B and B into A; neither is reachable from a root any more, and
   the recursive walks over them do not end.

## Proofs

* `ConflictResolverProofs`: lemmas on the apply functions (length and every
  character of the result), one lemma per pair of kinds of operations, and from
  them `TP1OffBoundary`: for texts of every length, applying either operation
  first gives the same sequence unless an insert sits at the end of the other's
  deleted span. Equality of sequences is shown index by index.
  Its second part is about `TwoReplicas`: `TwoReplicasConverge`, `Spec => []ConvergedOffBoundary`: the invariant
  says of each replica which operations it has applied and that its text is the
  base with these applied in this order; the lemma does the rest.
  `EditsAlwaysExact`, `Spec => []EditsExact`, rests on the same invariant and on `Marked` (the
  base is 1, 2, ..., n and the texts share no character with it or with each other). `Laid` is
  the document after two edits, index by index; `Outcomes` shows that whatever a replica ends
  with is such a picture of its two operations, with the parameters the edits call for (an insert that
  is swallowed leaves the picture of the delete alone; two deletes that overlap leave one longer span), and
  `LaidKeeps`, `LaidTexts` and `LaidNothingElse` read off it which characters are there, in which
  order, and that each text is whole where it was put.
* `OperationPipelineProofs`: `IInv` is the conjunction of `TypeOK`,
  `log \subseteq history`, `RevisionsGapless`, `NobodyAhead` (no handler or
  compaction knows a revision that has not been claimed), `RecentRetained`,
  `SeenSoFar` (what a running handler has read lies between its base and what
  was committed) and `TransformedAgainstSeen`. None of the last three is
  inductive alone: an append turns what a handler has *read* into what an
  operation *was transformed against*, which needs `SeenSoFar`, and a prune keeps the recent ones
  because no compaction knows a future revision, which needs `NobodyAhead`. One
  lemma per action, then `TypeCorrect`, `GaplessAlways`, `RecentAlwaysRetained`,
  `AlwaysTransformedAgainstSeen`.
  Four more rest on `IInv`. `ResyncNeverLeavesHole` needs `CaughtUp`: an operation that a client who is
  catching up does not have is still to be broadcast by its handler, or was never announced, so
  what it is sent, what it is told and what arrives live meet. The other three
  are about one handler at a time (`MaxInFlight = 1`), which is what makes a read of the log still
  true at the append (`NothingBetween`): `AloneTransformComplete` (clients no further behind
  than the log is kept, `MaxLag <= KeepRevisions`: a client further behind is
  not sent what was pruned), `AloneHotContentCurrent` (no failing call; `TextSoFar` says what a
  handler between its calls has in hand) and `AloneSnapshotMeetsLog` (also
  `MaxJobLag <= KeepRevisions + 1`: a compaction is not overtaken by more than is kept;
  `JobsClose` bounds how far behind each one is). Without the
  conditions `pipeline_toctou` and the section above show the counterexamples.
* `PipelineImplementsOrderedLog`: the refinement with `head <- revision`,
  `retained <- Revisions(log)`. An append is a `Commit`, a prune a `Forget` (or a
  stutter when there is nothing to prune), every other step a stutter; the prune
  needs `NobodyAhead`.

* `FolderTreeProofs`: `OneMoverKeepsForest`, `MaxMoves = 1` gives `Spec => []Forest`, for
  every number of folders and of creations and deletions beside the move. `Forest`
  is not inductive: what a move has collected may be out of date when it updates. The
  invariant says what stays true of it (`Moved`): there is a set `E`, of folders created
  meanwhile, such that every child of what has been walked over, or of `E`, is in what
  has been found or in `E`, and the target is not in `E` (`Separates`). A creation
  under that set joins it, and is not the target, which was there before; a deletion
  only removes children; after the walk the set is closed, so a circle through the
  new edge would have to leave it. Beside it: parents of rows have been rows, two
  requests never insert the same id, and there is one mover. Four lemmas carry the
  invariant through an insert, a delete, a move and a request's own progress; each
  action is then one of these.
  `DeletionsStrandLatecomers`, for any number of moves at a time: the invariant describes the stack
  of the recursive deletion. A call whose documents are deleted has
  none left in its folder but what was put there since (`Emptied`), one that has read its
  subfolders has none left but those it still awaits (`Searched`, `Awaited`); the frames
  of a stack hang together, each folder being awaited by the call below it, so that when
  the last call returns nothing is left that was in place. What a request carries between two
  queries must be typed for this (`TypeCorrect`), and ids once used stay used.

* `DocumentRoomProofs`: `TypeCorrect` for any number of replicas. The others are conditional,
  and on what the system has where they are false without it. `TokensKeptOfMembers`: one
  replica, any number of handlers at once and crashes: who has a token is a member, about to
  become one, or being withdrawn by a process past its SREM (`TokensAccounted`).
  `RoomsCloseClean`: one replica that does one thing at a time and does not die; `RoomIn` says for each
  place in a handler what it has left of the room so far. `ClosedRoomsSaved`: one replica, one
  thing at a time, a consumer that works, no empty text, no seeding; any number of PUTs may
  fail. `InOrder` keeps the stream and the batch in step; `SavedEnds` says that what
  is remembered as saved is what Postgres ends up with, until a flush has failed, which is why
  the exemption `mistaken` can be as narrow as it is; `Durable` joins the two to `latest`.
* `WorkspaceDiskProofs`: `TypeCorrect`; `ChangesNotSwallowed` from `UntoldOnItsWay`: a change that a
  browser has not been told of is in the watcher's queue, noted, or being compared, and the
  registry expects of its path something else than what is there, so the comparison cannot
  hide it; `RunsFindTheirFiles` from `Stage`: what a materialising run has passed is there, and
  what it has copied is in its sandbox, as long as no program and no failure intervenes.
* `ClientProofs`: the services of the browser, without any bound on what a run may do. `PanelAlwaysSettles`: only the query let
  through last is asked for, what waits is the text in the box or
  the box is empty, and every mark is that of a call (`PipeInv`, `MarksInv`). `HitsAlwaysCurrent`: hits that are not
  of the newest files have a search under way that will renew them (`Renews`), or were shown over
  newer ones; a single replacement that has the panel to itself aims at the files as they are
  (`Aimed`). `DraftAlwaysKept`: what is stored of the user's was sent. `SavesAlwaysOwnInOrder`: `OwnInv`
  follows every text on its way out to the user; `OrderInv` says that as long as no load was
  outdated, no timer lost and no PUT overtaken, what is stored, on its way and waiting is in the
  order written, there being at most one timer, whose handle is known. It is not true
  that PUTs return in order: it is enough that a PUT overtaken says so. `RoomsAlwaysFollow`,
  in `RoomsInv`: while the link is up, what is on its way, followed by what the hub has begun, ends
  with the connection in every workspace wanted and in every document whose editor joined
  (`InWorkspace`, `JoinComing`: the last join is not followed by a leave), and a document
  that was left is excused or forgotten: it has no state that a reconnection would join, no join
  is on its way or begun, and a membership that is left has its leave on its way
  (`Forgotten`). It rests on lemmas about a queue that grows at its end, loses its head or is
  extended by a sequence; the connect handler appends one made of the keys of the Map.
  `CommandsAlwaysArrive`, in `TerminalInv`: the commands given are divided among the queue,
  the lists the timers hold and what was sent, none in two of them and none twice in one
  (`QueueInv`); so a socket that opens may take the whole queue and a timer send or requeue
  its whole list. A command that waits was given in the project shown or was carried into it
  (`HomeOK`), and the sockets of the open tabs are of that project (`SessionsOK`), which is
  what a command meets when it is sent 300 ms after its socket opened.
* `WorkspacePageProofs`: the explorer and the share dialogs. `ListAlwaysSettles`, in
  `ListInv`: a list that is neither marked nor right (the documents being deleted taken off) has a load under
  way or owed, or another member still has a change to announce (`Fresh`); and what a load
  that knows of no other has read is the newest, unless such a change is still to come
  (`ReadsNew`). The second is what makes the first hold when the load is shown; it is why `Crossed` must
  mark the loads that were there before as well as the one that begins.
  `TabsAlwaysOfScope`, in `TabInv` on top of it: whatever a browser shows or has read of where
  documents are (its list, the cached contents of folders, what a job has in hand) is
  so, or was until the document was moved or deleted (`Been`). An alignment or an opening meant for
  a project therefore opens documents of that project, and a tab is of the project it is
  shown in unless it was marked as opened too late (`TabBeen`). What the API does lets all of this
  last (`Lasting`), so each step of a browser need only account for the list, the folder
  or the job it changes.
  `DialogsAlwaysSettle`: `DialogSettles` speaks of moments when no request is
  under way; the invariant must say what holds in between. Beside the types of objects, dialogs and
  jobs, it has three parts. Every code shown, stored or on its way was generated for the item
  it is shown with (`CodesInv`). A job that began with nothing else under way and has met
  nothing since is still the only one, and while nothing is `behind` there is no other
  (`AloneInv`). And while nothing is `behind` there are rows `B` that the browser believes in
  (`Believed`): list and open dialog tell `B`, which is what the API has but for what the
  request of the one job has already changed there (`Ahead`), and what that job has in its hands
  agrees with `B` and with the dialog it came from (`Holds`). A request that is served leaves
  `B` behind; the handler that returns moves `B` up to the API's rows, and has to tell
  list and dialog of exactly that difference. A load that runs alone makes `B` anew, which is
  how the property recovers from an overlap or a failure. What the handlers leave
  in the heap of objects is in lemmas of its own, one per way of making or copying objects.
* `SharingProofs`: `TypeCorrect`, `TheCacheSettles`, `TheLevelsSettle`. `CacheSettles` is
  inductive only with the age of every level that may be wrong. The invariant (`Late`) says
  for each place how long after the last change a wrong level can still be there: a
  walk that no change has overtaken has passed no row (`WalkLate`), so what it fills in is wrong only if a
  change happened while it ran, `Slack` ticks ago; a stored entry is wrong at most its
  age and one tick after the change, or two for the document (`EntryLate`), because the hub
  stores once more what a join was answered; and a join that goes to the API found no
  level when it began, so that what it copies was stored since (`JoinLate`). That last part is why
  nothing is renewed for ever: a hub that asked the API although it had found a level
  would give an old one a new life. One lemma carries the invariant through an advance
  of a call, one through a store, one through an entry of the gateway's, one through
  changes (where `quiet` is 0 and nothing is late), and one through a tick.

The assumptions are those on the constants (`PipelineAssumption`: naturals, with
`SnapshotEvery` positive; `TreeAssumption`: finite sets, ids of folders and documents
and the three markers distinct; `Sharing`: lives of at least a tick, at least one folder,
initial rows of the right type; `ExplorerAssumption`: documents start in projects or
nowhere, and the marker for nowhere is no project; `RealtimeAssumption`: finitely many workspaces, no id both a workspace's and a
document's; `TerminalAssumption`: a project to show, and a natural bound on the tabs, which are
numbered up to it; `BoundsAssumption` and `CharAssumption` of `TwoReplicas`: natural bounds, and
characters enough for the base and for each replica's own text; `ShareAssumption`: no id both a
folder's and a document's, `NoObject` the name of no object, something to share, and the items
there are to begin with among those there may be).

Only model-checked: the type invariants of the browser's services side by side (`TypeOK` of
`MCWorkbench`); and all liveness (`EveryOperationArrives`, `StaleSwept`, `StreamDrains`,
`EditsReachPostgres`, `ChangesAnnounced`, `ServicesSettle`), since temporal
reasoning with fairness and ENABLED is out of the prover's reach.

## Not modelled

What the hub relays (colours, cursors, comments: no state that anything reads);
expiry of Redis keys other than levels; identity and audit (row by row, no interaction);
API start-up, schema and configuration; pseudo-terminals, the gateway's side of package
installation, the AI proxy and service (process, file and network I/O); the byte quota, names and share
codes as texts; the other dialogs, the AI panel, the views and the read-only requests of the browser.
`appendOperation`, `getAllOperations` and `getSnapshot` of the operation log, and
`CleanupEphemeralSandbox` (`sandbox.go:81`), have no caller. The operation pipeline over
rooms that close and open again is not composed with `DocumentRoom`: the client
sends no operations, so no room of the program has both.

Left for later: the quotas at their limits, once the code has a bound to state.
