# TLA+ models of altero

altero is a self-hosted server for Zotero clients, with a browser client of its own: libraries that
desktop, mobile and browser clients sync with, write to at once, and keep files in. This directory
holds models of the parts of it that are hard to get right, configurations that check them with TLC on small instances, and
proofs checked by TLAPS for every instance.

Paths below are relative to the repository; `services/` and `api/` stand for `src/altero/services/`
and `src/altero/api/`, and `web/` for `web/src/`, the browser client.

## 1. The system

A request runs in one asyncio task with one database session, and its transaction ends with the
request. Requests of several workers run at once, on PostgreSQL really in parallel. The database is
the shared state of the components; the file store (a directory) and the streaming broker (an object
of the process) are outside its transactions. The browser client is one thread per page, but every
request it makes is a point at which the reader, a timer or another answer may come in between.

| Component | State | Operations | What must hold |
|---|---|---|---|
| Library versions (`services/writes.py`, `services/deletions.py`) | `libraries.version`, a version on each object, the delete log, write tokens | lock, check, bump, claim, stamp, log | one version per write; whoever asks "since v" hears of everything that changed after v |
| Write requests (`api/batch.py`, `services/objectwrites.py`, `itemwrites.py`, `settings.py`, the routes) | a session each, with savepoints | batches, single writes, deletes | writes to a library do not interleave; nothing unseen is overwritten; a repeated batch counts once; no parent is missing |
| Sync reads (`api/routes/deleted.py`, the listings) | none of their own | `since`, `format=versions`, `itemKey`, `/deleted` | a client that repeats the cycle converges |
| Streaming (`services/streaming.py`, `api/routes/streaming.py`) | pending events of a session, queues, subscriptions | note, publish, attach, subscribe, deliver, resync | every committed version is announced to whoever is attached; a subscription follows the account's access |
| File store (`api/routes/files.py`, `services/storage.py`, `storagestats.py`, parts of `webitems.py`) | files by digest, `storage_uploads`, `registered_md5` | authorize, send, register, browser upload, sweep | what is registered can be served; an upload counts once; a newer file is not overwritten |
| Retention (`services/retention.py`) | none | sweeps of trash, uploads, activity, expired rows | nothing in use is swept |
| OAuth server (`services/oauthserver.py`) | requests, grants, codes, token families, device codes, keys | begin, approve, deny, exchange, poll, refresh, revoke, withdraw, rotate | a code and a refresh token are spent once; a family has one live refresh token; what was denied or withdrawn gets nothing |
| Browser: note pane (`web/components/NotePane.vue`, `saveItem` of `web/stores/library.ts`) | the draft, the text last written, a flight, a state | type, save, look again, resolve, leave | nothing typed is lost unsaid; nothing of others is written over unseen; "Saved." is true |
| Browser: library page (`web/stores/library.ts`) | rows, selection, the open item, requests under way, the known version | open, list, pick, trash, undo, edit, follow | it shows what was asked for last and follows what others change |
| Login (`services/login.py`, `loginlimits.py`, `logincodes.py`) | login sessions, budgets, codes | start, approve, cancel, reserve, succeed, verify | one outcome per session; no guess is free; no success is refunded twice |
| Groups (`services/groups.py`, `invitations.py`, `api/routes/groups.py`, `webgroups.py`) | owner, members, roles, permissions, invitations | add, set, remove, transfer, invite, accept, decline, withdraw, lapse | the owner is a member and an administrator; people join as they were added or invited; an invitation is answered once |
| Merge and undo (`services/merge.py`, `mergeundo.py`) | one snapshot per library | merge, undo | an undo applies only to what the merge left |
| Tags, full text, groups' digests, accounts, sharing, import, the rest of the browser client, citations, migrations | | | see section 8 |

How they interact: every write calls `lock_library` or `bump_library_version`, which notes the
library's topic on the session; the session's `after_commit` hook gives the noted topics to the
broker; the broker puts them on the queue of each socket; a client that gets one syncs. File uploads
and group changes are writes of a library. The sweep of orphans and retention read what the others
write, without a lock. A page of the browser client hears of versions by a stream of its own
(`api/routes/webevents.py`), reads again what it shows, and writes through `api/routes/webitems.py`.

The hard behaviours: requests that interleave between reading and writing; batches whose objects
fail one by one; retries whose first attempt may still be running; reads that see one version in one
statement and another in the next; clients that sync across several requests; hooks that run when
the ORM says so rather than when the database commits; queues that overflow; two stores (disk and
database) that no transaction spans; credentials presented by several requests at once; and a page
whose answers come in after the reader has moved on. Each is listed with its line under `hazards` in PROJECT.json.

## 2. Modules

| Module | What it models |
|---|---|
| `LibraryVersions` | the abstract specification: one atomic step per committed write |
| `LibraryWrites` | the requests that make up those writes, each of several steps; implements `LibraryVersions` |
| `LibrarySync` | extends `LibraryVersions` with clients that sync over several requests |
| `Streaming` | transactions, the commit hook, the broker, sockets with a reader and a writer task |
| `FileStore` | uploads of both kinds, the store, and the sweep of orphans |
| `OAuthTokens` | consent, codes, device codes and token families in concurrent transactions |
| `NoteEditing` | a note pane, its saves, another client and the feed |
| `LibraryPage` | the open library of the browser client, its requests and their answers |
| `GroupMembers` | the members of one group and the invitations to it |
| `LibrarySync_proofs` (with those about `LibraryVersions`), `LibraryWrites_proofs`, `Streaming_proofs`, `FileStore_proofs`, `OAuthTokens_proofs`, `NoteEditing_proofs`, `LibraryPage_proofs`, `GroupMembers_proofs` | theorems |
| `MC...` | instances for TLC: small sets and symmetry |

`LibraryWrites` and `LibrarySync` meet at `LibraryVersions`: the first is shown to implement it, the
second is checked on top of it, so a write of `LibrarySync` is one step although the code takes many.
`Streaming` has the library's row lock in its guard for the same reason, `GroupMembers` commits what it does
under the lock as one step, and `NoteEditing` and `LibraryPage` take a write of the server for one step.

Definitions whose comment begins with "Mutant of" are faulty variants of the definition that follows
them. Nothing uses them: they say what bug each property would find, and a property is only kept if
substituting its variant makes TLC refute it. PROJECT.json pairs each property with its variant.

### LibraryVersions

`version` is `libraries.version`, `objs` the tables of collections, items, searches and settings by
key, `log` is `deleted_objects` with 0 for no row. `changed` is history: the version at which a key
last came to hold what it holds. `Write` takes the keys saved and those removed; `Apply` stamps the
ones and logs the others. `Forgets` are the kinds for which a save calls `forget_deletion`, in the
code settings only (and tags, which are not modelled).

### LibraryWrites

`lib` is the committed database; `work[r]` is the private copy a request has staged; `lock` is the
row lock of `lock_library`. The steps of a request, with `pc`:

- `Arrive`: the request is read, with the version it names if it names one, which may trail the library's,
  equal it or exceed it. A single write of a collection looks the collection up before
  anything is locked (`collections.py` `_write_single`).
- `Lock` (batches, deletes, settings): `lock_library`, with the row read again past the identity map.
- `Prepare`: `check_library_version`, `claim_write_token`, `bump_library_version`.
- `BumpSingle` (PUT and PATCH of a collection, item or search): no lock is taken; the `UPDATE` of the
  version waits for the row and holds it. The object's own version is checked after it.
- `SaveOne`: one object of a batch in its savepoint, or the object of a single write.
- `DeleteOne`: one key. Collections promote their children, and cannot go when that leaves one nested in
  them (`Removable`, the foreign key of `collections.parent_id`, which fails the request); items take their subtree along, at most
  `Deepest` levels of it.
- `Commit`, `Rollback`. Rollback stands for each way a request ends without a commit: any refusal, a
  batch in which nothing succeeded, an exhausted wait, a stop of the server.
- `Expire`: twelve hours pass for a stored token.

An object that is refused or unchanged has no step: its savepoint is rolled back and the staged copy
is what it was. The body of a request is chosen as it is applied, because nothing reads it before.
What an item type may have for a parent is abstracted to "an item that exists", which admits more
nesting than the code does, so what is shown of deletes holds of the code's trees too.

### LibrarySync

The client is the one `tests/test_sync_cycle.py` replays and `docs/compatibility.md` describes. A
cycle is `AskVersions` (the library row is read, which gives the version the answer carries),
`ListVersions` (the objects are read, in a later statement), `FetchObjects`, `ListDeleted`; between
any two of them `OtherWrite` may change the library. `Upload` is a write of a synced client naming
the version it holds. `Interrupted` gives up a cycle half way.

### Streaming

`pending` is `session.info`. `BumpLibraryVersion` notes a version and, where a member is added or
removed, the access change as well, in one transaction; `NoteAccessChange` is a group made or deleted,
which moves no version; `AcceptInvitation` adds a
member and raises the version, and notes no access change (`unannounced` has the libraries joined so). `Publish` is the hook `_publish_pending`. The hook runs in two actions because SQLAlchemy dispatches
`after_commit` in two places: `ReleaseSavepoint` and `AfterCommit`. The commit itself is `CommitTx`,
a step earlier than its hook, because another request can commit and publish in between.

A socket goes through `Greet` (topics read, greeting sent), `Attach` (`broker.attach`), `ReadTopics`
and `Subscribe` (`createSubscriptions`, which awaits in between), `Unsubscribe`, `Deliver` and
`ResyncStore` (`_resync`, which awaits while it announces what moved) and `Close`. `known`,
`before`, `overflowed`, `missed` and `unannounced` are history. `known` is the latest version a socket is aware
of: what the library was at when it attached, which its client reads after the greeting, and what it was told
since. The broker gives a publication to the sockets attached in that moment and
the session forgets it, so what a batch announces at the release of a savepoint (`Early`) is not told
again at the commit: `before` keeps, for a socket that attached in between, the version that passed it by.

### FileStore

`store` says of each digest whether the file at its path is absent, whole or damaged. `items` keeps
an attachment's claimed `md5` and its `registered_md5` apart; at first an attachment may claim any
digest and has no file, as one synced from elsewhere does. The protocol's requests are `Authorize`
and then `ExistsCommit` or `GrantCommit`; `Receive`, `ReceiveStore`, `ReceiveCommit`; `Confirm`
(before the lock) and then `Register` or `Discard`. The browser's are `BrowserAsk`, `BrowserStore`,
`BrowserCommit`. `Written` is what the session writes for an attachment loaded before the lock: an
ORM writes the fields whose value differs from what it loaded, so a field changed by another request
meanwhile is kept where the two values loaded and set are equal. `hashed` are the files whose digest
`_digest_of` has cached by size and mtime: one of them that is harmed without a change of either may be
confirmed, so `Confirm` finds it out or does not. `PurgeList`, `PurgeRead` and
`PurgeRemove` are `purge_orphans`. `Age` and `Damage` are the clock and the disk. `Age` keeps a file
young while an upload of it is under way: the grace period of 24 hours is taken to be longer than any
upload, which is what the code relies on.

`damaged`, `raced`, `spent` and `stale` are history. `raced` holds the digests that were put, kept or
handed out while their removal was already decided; `RegisteredIsStored` excepts them, and the run
`orphan_sweep` shows that the exception is needed.

### OAuthTokens

One application, one person. `code` holds the rows of `oauth_codes` and `oauth_device_codes`, `screens`
the consent screens, `pairs` the tokens two and two, with `live` the kinds not revoked, `from` the pair
whose refresh gave it (0 for the code) and `stored` whether the row is there. A family is named by the
code it descends from. `call[c]` is what a request has read and not yet committed.

A transaction runs at READ COMMITTED. The requests that spend something go `read` (`Exchange`, `Poll`,
`Refresh`: the row as a SELECT shows it), `claimed` (`Claim`: the conditional UPDATE, which waits for
whoever holds the row and looks at it again), committed (`Issue`). `Claims` is the condition of the
UPDATE. A replay goes `burn`, `burning` (`Burn` reads the live tokens of the family), committed
(`Burnt` marks those it read). A decision goes from `Decide`, which deletes the screen and reads the
grant, to `Approve` or `Deny`, whose UPDATE of a device's row has the conditions `Answerable`.
`Withdraw` deletes the grant and what hangs on it by cascade, and waits for rows that are held; `Fail`
is every way a request ends without committing. Deleted pairs stay in `pairs` so that history can be
spoken of.

### NoteEditing

A text is the set of the marks that were put in it: a mark that is gone from all texts is lost. `panes`
are the note panes drawn so far, of which the last may be on the screen; one that was left still waits
for its flights. In a pane `pending`, `written`, `timer`, `flight` and `state` are the variables of
`NotePane.vue`; `waiting` is a `flush` that awaits the flight of another. A flight carries the item it is
for, the item as the page held it (`base`), the version it sends, and how far `saveItem` has got:
`patch`, `read` (refused, looking again), `again`. `rows`, `selected` and `known` are the store's
`items`, `selected` and `knownVersion`.

- `Open`, `Close`, `Type`, `HiddenOrRetried`, `KeepMine`, `KeepTheirs` are the reader's; `TimerOut` the
  second after the last keystroke.
- `Serve` is `update_item`; `Saved`, `Refused`, `LookedAgain`, `Failed` and `Lost` are its answers.
- `CatchUp`, `ItemAnswered`, `ListRead`, `ItemRead`, `ReadFailed` are the feed (`follow`, `catchUp`,
  `catchUpSelected`). Every change of the open item goes through `Watched`, which is the watcher.

A pane that is unmounted flushes after the selection has moved, in the order Vue runs it: so does `Open`.
`unseen`, `chosen` and `strayed` are history: marks the page took in while a draft kept it from drawing
them, marks the reader decided against, and marks that a pane left behind sent elsewhere.

### LibraryPage

`rows` are the rows on the screen with the library and scope they are of; `rows.at` is history, the
version they are known to show. Each request is a variable that holds what was asked and, once served,
the answer until it arrives: `req` (`loadItems`, whose predecessor is aborted), `kids` (`open`),
`catching` (`catchUp`, then `catchUpSelected`), `reload` (`reloadSelected`), `errand` (the write under
way), `after` (`afterItemWrite`, waiting for its rows and its collections). Serving and arriving are two
actions, and the reader, other clients and other answers come between. `heard` is the timer of
`follow`: the last announcement, unless the page has since read that version. An announcement is taken
to be heard when it is made, because a connection that drops announces the version again.
`Pick` leaves any of the rows selected: clicking, toggling, extending and selecting all end in one.
`jumped` and `lost` are history: the pane was put back on an item that had been left, and the version of
a catching-up that failed.

### GroupMembers

`group` is the owner, the version and the members of one group library, `offers` the rows of `invitations`,
`tokens` how many were mailed. `req[r]` is what a request has read before it takes the lock or claims a
row. Two of the four permissions are kept, `inherit` and `read`: the others restrict what may be done to
items, not who administers.

- `Ask` is the first half of a change of the members: who may is decided without the lock. The browser's
  routes (`webgroups.py`) keep the row of the group they read there, and the session's identity map hands
  that row back when the second half asks for it, so `OwnerRead` is the owner of then. The API
  (`routes/groups.py`) and the command line (`services/admin.py`) read it under the lock: what the API reads to authorize is
  dropped, and the identity map holds rows weakly. `actor = Nothing` is the command line.
- `AddMember`, `SetMember`, `RemoveMember`, `Transfer` are the second half, up to the commit.
- `Invite`, `FindOutstanding`, `Issue` are `invite_with_token`, which takes no lock: who is a member and which
  invitation is outstanding are read in statements of their own, and the row is written in a third. A reissue is
  an ORM update of the row as it was loaded: the token and the expiry always differ and are written, the role and
  the permission only where they differ from what was loaded (`Assigned`), over whatever is there by then.
- `Open` reads an invitation, by its token or its id; `Accept`, `Decline`, `Revoke` answer it, by an `UPDATE`
  whose conditions are `Answerable`. `Lapse` is fourteen days, `Sweep` the retention sweep.
- `Refuse` is each way a request ends without a commit.

`overtaken` is history: a browser's request was carried out by an owner it had read before the group was
handed on. So are `mailed` and `crossed` of a row: what the administrator stated whose link is the current one,
and whether they wrote it over terms that another had written since they loaded the row.

## 3. Properties and what they are for

| Property | Module | In words |
|---|---|---|
| `StagedOverCommitted` | LibraryWrites | whatever is staged stands on what is committed now, and only one request has anything staged |
| `ParentsExist` | LibraryWrites | no interleaving of nesting and deleting leaves a parent that is gone |
| `SinceIsComplete` | LibraryVersions, LibraryWrites | a changed key is stamped or logged at or above its change |
| `NoLostUpdate` | LibraryWrites | a write that names a version is committed only over it |
| `TokenHonouredOnce` | LibraryWrites | two committed batches never carry one token within its lifetime |
| `ImplementsVersions` | LibraryWrites | the requests are one sequence of atomic writes |
| `IInv` | LibraryVersions | the inductive invariant of the proofs, checked |
| `NothingMissed` | LibrarySync | a client at v holds what the server holds, but for what changed after v |
| `UploadsSeeEverything` | LibrarySync | an accepted upload overwrites nothing its client was never sent |
| `Converges` | LibrarySync | when the writing stops, copies and server agree |
| `EveryCommitAnnounced` | Streaming | a version committed while a socket is attached has reached it or waits for it, unless it was announced before it attached |
| `SubscriptionFollowsAccess` | Streaming | a settled subscription is what the account may read |
| `RegisteredIsStored` | FileStore | a registered file is in the store, whole |
| `OncePerGrant` | FileStore | an authorized upload is registered once |
| `FileChangesStamped` | FileStore | another file on an attachment means another version |
| `SpentOnce` | OAuthTokens | a code or refresh token yields one pair, however many requests present it |
| `OneLiveRefresh` | OAuthTokens | no overlap of refreshes, replays and revocations leaves two refresh tokens |
| `NothingWithoutGrant` | OAuthTokens | when the grant is taken back, nothing it gave stays, whatever was under way |
| `DenialStands` | OAuthTokens | of two screens for one device, the first decision is the one that counts |
| `BurnReaches` | OAuthTokens | a replay or revocation ends every token issued before it was begun |
| `DraftKept` | NoteEditing | what is typed is stored, on its way, or in a pane on the screen, but for the named ways of section 6 in which it is lost |
| `IdleShowsHeld` | NoteEditing | a pane with nothing of its own shows what its next save is based on |
| `SavedIsStored` | NoteEditing | "Saved." is never said too early, but for a text decided against that another pane is replacing still |
| `ReplacesKnowingly` | NoteEditing | no save removes from a note what the reader was not shown |
| `DraftSettles` | NoteEditing | every draft is stored in the end or said on the screen not to be, or was left and given up |
| `RowsOfTheView` | LibraryPage | rows that arrive late do not take the place of those asked for since |
| `ChildrenOfTheOpenItem` | LibraryPage | children that arrive late are not shown under another item |
| `QuietIsCurrent` | LibraryPage | a page at rest is current, or knows of a newer version than it shows |
| `UndoRestores` | LibraryPage | an undo puts back exactly what its errand changed, or is refused |
| `PageSettles` | LibraryPage | a refresh that was aborted leaves nobody waiting |
| `OwnerAdministers` | GroupMembers | no crossing of transfers with demotions and removals leaves an owner who is no administrator |
| `JoinsAsOffered` | GroupMembers | nobody joins by an invitation that was withdrawn, reissued, swept or used meanwhile, nor on other terms than its link was mailed with, but for reissues that cross |

Each module also has a `TypeOK`, which the proofs need and which says of each variable what it may hold
beside the others (that an unmounted pane is not the open item's, that a request is for the place the
page is at). That of `GroupMembers` is part of its proved `IInv` and is in no run; the others are theorems too.

## 4. Runs

| Run | Instance | Shows |
|---|---|---|
| `collection_writes` | 2 requests, 2 collections, 1 setting, 1 token, 3 versions | the properties of LibraryWrites and the refinement |
| `nested_writes` | 2 requests, 3 items, 3 collections, 1 search, 2 versions | `ParentsExist` for deletes against nesting, loops included |
| `sync` | 1 client, an item and a setting, 2 contents, 4 versions, fair | safety and convergence of sync |
| `streaming` | 2 requests, 1 library, 1 socket, queue of 2, 2 versions | announcements and subscriptions |
| `file_store` | 2 requests, 1 attachment, a plain file and a snapshot, 1 upload key, 1 digest that may be harmed, 2 versions | the properties of FileStore |
| `oauth_tokens` | 2 requests, 1 code, 1 device, 3 pairs, 2 grants, 2 screens for one user code | the properties of OAuthTokens |
| `note_editing` | 2 notes, 2 panes, 2 marks typed, 1 write by others, 1 reading of the feed at a time, 1 lost save, fair | the properties of NoteEditing |
| `library_page` | 2 libraries, 3 items, 3 clicks, 1 write by others, fair | the properties of LibraryPage |
| `group_members` | 2 requests, 2 accounts, 1 with a confirmed address, 1 invitation, 3 versions, 3 tokens | the properties of GroupMembers |
| `delete_log`, `orphan_sweep`, `note_left` | as above, smaller | disagreements of section 6 |

Why the bounds are enough. Two requests give every pairwise interleaving, and the lock leaves no third
one anything to see that a second does not; the proofs remove the bound for what they cover. Two
collections are what a promotion needs, three a loop of two that is removed with one nested in it, three items a subtree of two levels and a delete of
its middle. Three versions let a key be made, removed and made again with a client at each; in `sync`
four let this happen within one cycle that began behind. A queue of two can overflow, hold an event
that has been overtaken, and hold an access change behind a version. One attachment, two digests and
an upload key suffice for each race of `FileStore`, which are between two requests over one file or
one request and the sweep. Upload keys are reused after they are consumed, so `OncePerGrant` is not vacuous with one.

In `oauth_tokens` two requests give each pairwise race, and a third pair is a refresh of a refreshed
token; the proofs lift all of its bounds for what they cover. In `note_editing` two marks are typing
before and during a flight, two panes are leaving a note and another one opened, and one write of
others is what a save is refused for; that it goes on being refused needs a second save, which the
draft of the other pane is. In `library_page` three clicks are the shortest way to an errand and its
undo, or to an errand that is overtaken by a click elsewhere; one item is in the second library, so
opening it shows rows that differ.

`nested_writes` lists `ParentsExist` alone: the other properties of LibraryWrites are proved for every instance
and checked in `collection_writes`. In `group_members` two accounts are an owner and somebody to hand the
group to, three versions a transfer, a change that it crosses and one more, and three tokens an invitation and two
reissues of it that cross each other or a request that has it open. One invitation is enough for `JoinsAsOffered`, which is about one row and
those who have it open; the proofs lift all of these bounds.

Symmetry is used over requests, collections, items, values and libraries in runs without liveness.
`sync`, `oauth_tokens`, `note_editing` and `library_page` do not check for deadlock: each may stop, when
its bounds are reached and everything asked was answered. The other passing runs check for it.

The bounds in the guards are `MaxVersion`; `MaxTokens`; `MaxPairs`, `MaxGrants` and `MaxClaims`; `MaxTyped`,
`MaxForeign`, `MaxPanes`, `MaxReads` and `MaxFailures`; `MaxMoves`. Beside these, `LibraryPage` has one
write of the reader, one catching-up and one re-reading of the open item under way at a time
(`errand = {} /\ after = {}`, `catching = {}`, and a `reload` that a later one replaces), where the code
has no limit.

## 5. Fairness

`LibrarySync`: `WF(Sync(c))`: a client that is behind goes on with its cycle. The
strong fairness of the last three requests of a cycle says that not every cycle is interrupted before
them; without it a client that is cut off for ever never converges, which no server could prevent. The
server takes no part in the fairness: there is none for `OtherWrite`, and the writing stops because
the version is bounded. What makes `Converges` hold is the code's answers, as the off-by-one in
`NotModified` shows.

`NoteEditing`: weak fairness of `Save` (what was sent is answered or fails, and the answer is handled),
of `TimerOut` (a timer that was set runs out) and of `Feed`. Nobody has to type, press or choose: a
draft that failed or is in conflict counts as settled: on the screen because the pane says so, and in a pane
that was left because nothing sends it any more (18 of section 6).

`LibraryPage`: weak fairness of `Answers`: requests are answered, answers arrive, the timer of `follow`
runs out. The reader, the other clients and the failures are not fair; `PageSettles` follows because
clicks are bounded and every wait ends in an answer, an abort or a failure.

`OAuthTokens` has no liveness: the server promises nothing to a client that does not ask again.

## 6. Disagreements found

Each of these is a run that TLC refutes, with the line it contradicts quoted in PROJECT.json.

1. `delete_log`: a collection, search or item saved again under a removed key stays in the delete log,
   and a client is told of it as stored and as removed. `LibrarySync` therefore states its properties
   for keys that are `Unambiguous`.
2. `orphan_sweep`: an orphan referenced again between the sweep's read and its unlink is removed.
3. `note_left`: a note left before its draft was sent is saved into the item picked instead, or not at
   all when the selection was cleared, because the pane flushes when `library.selected` has moved on.
   `DraftKept`, `ReplacesKnowingly` and `SavedIsStored` except it with `strayed`.

These are further ones, which the passing properties except by name or do not promise. Those that have a name
are defined in the modules, and a configuration that lists one as an invariant or a property shows the
counterexample.

4. `AttachedAreTold` and `RolledBackUnannounced` (Streaming): a batch announces its version at the release of its
   first savepoint, before the commit, and not again (`batch.py:84-100`, `streaming.py:183-197`). A socket that
   attaches between the two is never told of the version, although it is committed while attached:
   `EveryCommitAnnounced` excepts it with `before`. One that is attached is told, but a client that asks at once may be answered
   as of before the commit, and is told nothing afterwards. And a version that is rolled back has been announced,
   where `streaming.py:47-49` says that publication is "on commit rather than as they happen, so a write that rolls
   back does not announce a version nobody can fetch".
5. `AutomaticFollowsAccess` (Streaming): a change of access while the topics of a subscription are being
   read is missed. `SubscriptionFollowsAccess` excepts it with `missed`.
6. `ConflictFound` (NoteEditing): the comment over the pane's watcher says that with something typed
   waiting "the save that follows finds the conflict". But the feed has put the other client's text and
   version in `library.selected` by then, the save sends that version, and it is accepted: the other
   text is replaced unseen. The properties except it with `unseen`.
7. `ElsewhereReachesThePage` (LibraryPage): the comment over `follow` promises that a change made
   elsewhere reaches the page. It may not: `put` raises `knownVersion` to the version of one item, which
   passes over announcements of versions in between that were never read; a listing asked for earlier
   may arrive after a newer one; and the answer of an edit sent before the library was changed raises
   the version of the other library. `QuietIsCurrent` excepts what `rows.at < known` tells.
8. `reloadSelected` opens the item it asked for even if the reader has opened another meanwhile
   (`jumped` in `ChildrenOfTheOpenItem`), and `loadCollections` and `loadTags` do not look whether the
   library they asked for is still open (read in the code; the sidebar is not modelled).
9. `_burn_family` marks the tokens it has read: a pair that a refresh commits between that read and the
    commit survives, which is why `BurnReaches` speaks of the pairs issued before the read. `docs/oauth.md:277-278`
    says that "these rules also apply to simultaneous requests: only one exchange succeeds, and a detected replay revokes
    its token family". The first half holds (`SpentOnce`), the second does not for a refresh that overlaps the replay.
10. `NewerFileKept` (FileStore): two uploads authorized over one file, each with its own upload key, are both
    registered, and the second replaces the newer file: `storage.py:447-448` says that a client working from
    stale information cannot, but the condition is checked when the upload is authorized and not again at
    `storage.py:738`. It takes two upload keys to see.
11. `OwnerAlwaysAdministers` (GroupMembers): a demotion or removal asked for in the browser (`webgroups.py:388`,
    `423`) is checked against the owner read before the lock. A group handed on meanwhile may be left with an
    owner who is no administrator, or no member, which `groups.py:273` and `:318` say cannot be.
    `OwnerAdministers` excepts it with `overtaken`.
12. `AdminsUnrestricted` (GroupMembers): `_transfer` makes the successor an administrator and leaves their
    permission, where `models/library.py:185` says that an administrator's is always `inherit`. What reads
    it (`auth.member_permission`) takes it for absent, until they are demoted.
13. `OneOutstanding` (GroupMembers, with two ids in `Offer`): two invitations of one address at once both find none
    outstanding and both are stored, where `invite_with_token` says that one is "reused rather than duplicated".
    Likewise an invitation that is answered between being found and being reissued is given a new token,
    which is mailed and opens nothing.
14. An accepted invitation announces the version and no change of access (`AcceptInvitation`), although
    `streaming.py:176-179` says that a connection is told of joining a group: a client that subscribed without naming topics
    does not watch the group until something else is announced to it. `SubscriptionFollowsAccess` excepts it with
    `unannounced`.
15. `NoLoop` (LibraryWrites): `collections.py:60-62` says of the walk down a tree of collections that it "cannot
    loop: `webcollections` refuses a move that would close one". A write over the API closes one all the
    same, because `save_collection` (`objectwrites.py:191`) refuses only a collection named as its own parent, as
    the docstring of `_would_loop` notes. Removing one of the two then makes the other its own parent, which cannot
    be removed while anything else is nested in it (`Removable`). The walk down survives by what it has seen;
    the walk up in `_would_loop` (`webcollections.py:166-175`) has no such guard and does not end.
16. `routes/groups.py:470` asks for write access of somebody who leaves a group, so that a member held to reading
    cannot leave it by the API, although the docstring says that "anybody may remove themselves". And
    deleting an account takes it out of its groups without a new version of them, where
    `docs/compatibility.md:627` says that every membership change advances it. Both are read in the code; the
    first is in `AllowedByApi`.
17. "Saved." may be said of a note that lacks what was typed in it, if the reader decided against that text in
    another pane of the same note which is saving still. It takes a pane that is left while the save of its Keep Mine is
    under way, the note opened again, and a save of another pane whose answer is lost and which is sent again: that puts back the
    text the first save was based on, so that the first save, looking once more, is accepted over what the new pane
    has just stored. What goes is what the reader chose to replace, only later than it was chosen. `SavedIsStored`
    excepts it with `chosen`. The instance of `note_editing` has too few panes for it.
18. `FailureAnnounced` (NoteEditing): `NotePane.vue:23-25` says that "a note that could not be saved is announced". One
    that was left while its save was under way is not: the pane is unmounted (`NotePane.vue:150-154`), the save
    then fails or is refused, and what was typed stays in a component that nothing draws, with its state
    and its message. It takes a note typed in, another one opened, and a write of somebody else or a lost answer; the text is
    gone and nobody is told. `DraftKept` and `DraftSettles` except it with `GivenUp`.
19. `JoinsAsMailed` (GroupMembers): `accept` says that one becomes a member "at the role it offered". Two administrators
    who reissue an invitation at once each write what differs from the row they loaded (`invitations.py:142-150`), so
    that the link of the second can carry the role the first had chosen, or the role of one with the permission of
    the other: terms neither of them mailed, among them an administrator held to reading, which `invitations.py:112-113`
    refuses. Accepting grants them. `JoinsAsOffered` excepts it with `crossed`.

## 7. Proofs

Every invariant and every action property that a passing run checks on a small instance is also a theorem, for all
values of the constants. What follows is the argument of each module.

`LibrarySync_proofs` begins with the library by itself and proves `Spec => []IInv` of `LibraryVersions`.
`SinceIsComplete` alone is not inductive: that a new stamp is at or above the change needs `changed` bounded by
`version` for the keys the write leaves alone, which is `VersionsReached`. `ApplyKey` says what a write does to
one key, by the three cases saved, removed, untouched; the rest follows (`Invariance`, `SinceIsAlwaysComplete`).

`LibraryWrites_proofs` rests on `WInv`: the type, and for each request past the lock that it holds the
lock, that its version is the library's or one above, and that each key of its copy is untouched,
stamped with the new version, or removed and logged at it. Each action has a lemma. Facts about the
operators on databases (`SaveFacts`, `RemoveFacts`, `PromoteFacts`, `SubtreeFacts`) are stated once.
From `WInv`:

- `LockSerializes`: `StagedOverCommitted`, for any number of requests.
- `Refinement`: a commit is a `Write` of `LibraryVersions` with the stamped keys saved and the others
  that differ removed; every other step leaves the refined variables alone.
- `SinceIsAlwaysComplete`: `SinceIsComplete` of the committed database, from `TellsAll`. A commit leaves a key as
  it was, or stamps or logs it at the version it commits, which no change before it can exceed (`CommitTells`).
- `ParentsAreThere`: `ParentsExist`, from `PInv`: the committed database and each staged copy are `Rooted`
  (every parent is there and is of its children's kind). The lemma of a deleted item is `SubtreeClosed`: what is
  below something that goes was found by the walk, as the walk ended before `Deepest`. The levels are defined
  by recursion, so that they exist is shown one level at a time (`LevelsExtend`), up to `Deepest`. The lemma
  of a deleted collection, `RemoveCollectionRooted`, needs the foreign key, and the attempt to do without is
  how the loops of section 6 were found.
- `NothingIsOverwritten`: `NoLostUpdate`; `TokensCountOnce`: `TokenHonouredOnce`. Both from `RInv`, which carries
  what was checked under the lock to the commit, and says that a key that names nothing has no version,
  which is what the version 0 of a new object is compared with.

For the clients, every step of `LibrarySync` is a `Write` or leaves the library alone, so the library's `IInv`
is kept. `NothingMissed` is not inductive, because the version a client
comes to hold is the one its sync began at, requests ago. `InStep` says what a client in the middle of a sync
has learnt of the keys that did not change since it began: after the listing, such a key is listed, absent, or
no newer than the version the client held; after the fetch, what was got for it is what is there. A write adds
a change beyond the header and so disturbs none of it (`OverWrite`).

- `NothingIsMissed`: `NothingMissed`, for any clients, keys, contents and bound.
- `UploadsAreInformed`: `UploadsSeeEverything`, likewise.
- `SyncTypes`: `SyncTypeOK`.

`OAuthTokens_proofs` rests on `IInv`: the types, without the bounds; `Descends` (a pair descends from a
code that is spent, or from a pair of which the refresh token is not live); `Claiming` (what a request
has read exists and is of the family it names, what it has claimed is unspent, and no two have claimed
one row); and the two properties. `SpentOnce` alone is not inductive, because it does not say that a
credential about to yield a pair has yielded none: that is `Descends` with `Claiming`. Nor is
`OneLiveRefresh`, for the pair that is issued: its family's one live refresh token is the one claimed,
which the same step spends, and a revocation that marks a family meanwhile waits for it. `Keeps` says
what every action but `Claim` and `Issue` does to tokens and claims, so that those two are the only ones
with an argument of their own. From `IInv`:

- `PresentedOnce`: `SpentOnce`, for any number of codes, devices, requests and pairs.
- `OneRefreshToken`: `OneLiveRefresh`, likewise.

On top of it stand four more invariants, each with a lemma that covers the actions that leave it alone
(`LeavesKeeps`, `LaterKeeps`, `FamiliesKept`) and one for each action that does not:

- `DenialIsFinal`: `DenialStands`, from `Answered`: pairs of devices, and requests about to be given one,
  are of devices that were approved; only a device without an answer is given one.
- `WithdrawalIsComplete`: `NothingWithoutGrant`, from `Granted`: what is stored is of the one grant, and a
  claim is on a stored row of it. So nothing can be claimed when a withdrawal commits, and the pair an
  `Issue` adds is of the grant there is.
- `BurnIsThorough`: `BurnReaches`, from `Families` (the pairs of a family are of one grant and are deleted
  with it) and `Burning` (a revocation has read all of the family that is still there and was issued
  before it). A revocation that marks anything has found a victim stored, so the whole family is, and
  what it read is all that is live.
- `TypeCorrect`: `TypeOK`, from `Known` (what is stored is of a grant that was made) and `Serving` (a request
  presents something that is stored, or decides on a consent screen that no other request decides on). The
  type alone is not inductive: it says that the screen somebody decides on is there, and of two requests that
  decided on one, the first would take it from the other.

`NoteEditing_proofs` rests on one invariant, in four parts. None of the properties is inductive: whether a save is
right depends on what it was sent with, requests ago.

- `Copy`, of every copy of a note anywhere (a row of the page, the open item, what a save is based on, an
  answer that has not arrived): it is of a version the server has had, it is the text as stored if it is of the
  version as stored, and what is in it and no longer stored was lost in one of the three ways the properties
  except. A copy with the stored version but another text is what an overwrite unseen would begin with.
- `FlightFine`, of every save under way: if the server would accept it, what it was based on is what is stored,
  and what was based on is in its text. A refusal carries a copy, and the retry is based on that copy.
- `PaneFine` and `Shows`, of every pane: how draft, flight, conflict and editor hang together, and that the pane
  on the screen has in its editor all that the open item's text has, up to what was lost knowingly. That is what
  a redraw, a merge by `put`, a feed that comes in under a draft and a change of the selection each have to keep.
- `NoneVanishes`: what was typed is stored, in a save under way, or in the draft of a pane that is on the screen,
  waits for its flight, or failed or was refused. `DraftKept` follows, because a pane that failed or was refused has
  nothing under way (`PaneFine`). The others need nothing of it, and it needs them for the save that lands.

The definitions are of one pane, one save and one copy, so that what an operation does to a pane is a lemma about
records (`Extended`, `Routed`, `Accepted`, `GaveUp`, `Redrawn` and the like), and each step of the module puts
such lemmas together for all panes. The invariant was checked by TLC on the instance of `note_editing`.

- `TypedIsKept`: `DraftKept`; `IdleIsHeld`: `IdleShowsHeld`; `TypeCorrect`: `TypeOK`.
- `SavesReplaceKnowingly`: `ReplacesKnowingly`. An accepted save replaces its base, which its text takes in.
- `SavedMeansStored`: `SavedIsStored`. A pane says "Saved." only when the answer is of the text its editor shows
  (`PaneFine`: with nothing pending, the editor has what was sent), and the answer is a copy. The attempt to prove
  it without excepting `chosen` found a run of more panes than the instance has in which it is false: see 17 of section 6.

`LibraryPage_proofs` has three arguments.

- `RowsFollowTheView`: `RowsOfTheView`, from `RowsInv`: a request is for the place the reader is at,
  because moving on replaces it; a listing is of what it was asked for; and rows are of the open
  library. `catchUp` carries a listing across moves, and looks at where the page is when it arrives.
  `ChildrenFollowTheItem` (`ChildrenOfTheOpenItem`) is inductive as it stands.
- `UndoIsExact`: `UndoRestores`, from `UndoInv`: every offer of an undo, on a toast, in an answer or in a
  request, `Stands`: it names the items its errand changed and how they were, and as long as the library
  has the version of the errand all its other items are as they were. `OfferStands` carries that through
  any write, because a write of the library makes its version a later one, which the server refuses.
- `QuietPageIsCurrent`: `QuietIsCurrent`, from `Truth`, `Known` and `Aware`. A page that waits for anything is
  promised nothing by the property, so the invariant has to say what each wait stands for.
  `Truth`: `rows.at` is honest. The rows, and each listing on its way, show rightly every item of their library
  not written since the version they are known to show, and of the others an earlier version or none. A row
  replaced by an older one takes `rows.at` back with it (`RowTold`). A row replaced by the reader's own edit takes it one
  version further, which is sound because that edit is all the library has at that version, and because it
  moves no item in or out of the listing (`Edited`, `OwnRowShows`). `Aware`: the last version of the library is known, was
  announced, is what a catching-up under way reads or one that failed would have read, or comes with the listing asked for.
  Its second part is for a catching-up that the reader moves away from: either what it reads is known, or the
  move asked for a listing at least as new. `FeedStays` keeps `Aware` through every step that writes nothing
  and does not move; `WriteAware` and `MovesAware` are the other two cases.
- `TypeCorrect`: `TypeOK`, from the same invariant and `Alone` (one item is open, and one request of each sort
  is under way).

`GroupMembers_proofs` rests on `IInv`: the types; `TokensInv` (no token is larger than the last mailed);
`OpenedInv` (what a request has opened is a row that exists and is theirs, and offers what they read as long
as its token is the one they read); `MailedInv` (a row that was not written across another's change offers what its
link was mailed with); and `OwnerAdministers`. `JoinsAsOffered` needs `OpenedInv` because what an
`Accept` grants is the terms that were read, not those of the row; `OpenedInv` needs `TokensInv` because a
reissue must not bring back a token that somebody holds. `MailedInv` is that assigning to a row the terms one wants
leaves exactly those in it if the row is still as it was loaded. `OwnerStays` is the one argument about owners: a
committed change leaves the members' owner an administrator if it did so for the owner it had read.

- `OwnerKeepsTheGroup`: `OwnerAdministers`, for any accounts, requests and invitations.
- `MembersJoinAsOffered`: `JoinsAsOffered`, likewise.
- `AnswersStand`: `AnsweredStands`: an answered invitation is never answered again.

`Streaming_proofs` has two arguments.

- `CommitsAnnounced`: `EveryCommitAnnounced`, from `IInv`: the types; `OneOpen` (no two transactions are
  open on one library, which the row lock gives); `Promised` (a transaction that raises a version has it to
  announce, or has announced it to everybody when a savepoint was released); `OnItsWay` (the newest version
  has reached every socket that keeps up, or was announced before the socket attached, or a commit hook has yet to
  send it). A socket that attaches late starts at what is committed, what was announced by then of the transaction under way is in
  `before`, and a queue with room loses nothing (`EnqueueAllKeeps`,
  `TailTells`). `TypeCorrect` needs `Noting` besides: a transaction that takes a membership announces it.
- `SubscriptionsFollow`: `SubscriptionFollowsAccess`, from `IInv` and `Follows`. The property speaks of
  sockets at rest; `Follows` says what each task in the middle of something has read: that of a resync is
  current or another event will start a resync; that of a `createSubscriptions` or a handshake is current
  or a publication has been missed.

`FileStore_proofs` rests on `IInv`: `TypeOK`; `Jobs` (what a request is about, by how far it has got);
`Unspent` (an upload that can still be registered has not been); and `AllKept`. `RegisteredIsStored` is not
inductive: it says nothing of the file an attachment is about to be given. `Kept` follows each digest from
the bytes in flight (`Flying`) and the requests that found the file there (`Found`) to the attachments that
have it (`Held`), and on to those that are to discard it: each is `Served`, that is, the file is whole, or
was harmed from outside, or crossed its own removal. Bytes in flight are never of an old file, because the
sweep's grace period is longer than an upload lives, so the sweep lists no file of theirs, and bytes
put after it listed the file mark it as raced; and what the sweep is about to remove, no attachment had when it read them.

- `RegisteredStaysStored`: `RegisteredIsStored`, for any attachments, files, uploads and requests.
- `RegisteredOnce`: `OncePerGrant`, from `Unspent`: the lock is taken before the upload is read again.
- `FileChangesAreStamped`: `FileChangesStamped`; `FileStoreTypes`: `TypeOK`.

The assumptions are the named ASSUMEs of the modules: that a code is not a device's, that a version is a
number and "no version" is not, that absent is not a content, that a key belongs to one table, that an
item has a library, that "no member" is not a membership, that an account is not a library, that a task at
rest has read no set of libraries, and that "nothing" is no item, file, upload, digest or request.

Only model-checked: `Converges`, `DraftSettles` and `PageSettles`, because liveness under fairness is out of the
prover's reach; and the three runs that TLC refutes, which are counterexamples and nothing to prove.

## 8. Not modelled

- Item types, retyping, tags, relations, creators, collection membership and the text of anything.
- Paging, filters, sorting and search: read-only.
- Subscriptions that name topics, several keys on one socket, the cap on subscriptions, the topics of
  login sessions.
- Staging files, downloads and their keys, the size checks on bytes as they arrive (bytes that are
  not what was promised never reach the store and have no step).
- SQLite's own locking, whose single writer admits fewer interleavings than the row lock does.
- OAuth: what a grant covers (scopes, libraries, collections), ID tokens, signing keys and their
  rotation, logout, the registration of applications; tokens do not expire, which only ends them sooner.
- The browser client: collections, tags and search as filters, further pages of a listing (`loadMore`),
  duplicates, merge and copies, attachments, the sidebar, the reader of group settings and shares, the
  other stores (they load one resource and show it), sign-in, and all presentation. Editing of fields
  other than a note takes the same `saveItem` and differs in the form that holds the draft. `put` takes
  any envelope, older or newer, and is modelled so.
- Of the client's lines two thirds are translations (`web/locales/`), which hold no behaviour, so the
  share of its lines that the models cover is small by nature; the two modules have the parts of it in
  which requests, the reader and other clients overlap.
- Groups: making and deleting one, its metadata and policy, notifications of an invitation, the permissions
  `add` and `own`, an account that is deleted.
- Accounts, passkeys, SAML and OIDC, mail, citations, import, migrations, command line, deployment:
  libraries, formatting, or single-row operations without an interleaving worth a model.

## 9. Plan

In order, the most important behaviour first:

1. `LoginLimits` (budgets with generations, codes charged before they are checked) and `LoginSession`.
2. `MergeUndo` over `LibraryVersions`; the trash sweep of retention against restores.
3. `LibraryPage` with collections as scopes and `loadMore`; `NoteEditing` over `LibraryPage`, where an
   errand re-reads the open note.
4. `Streaming` with a second key and named topics; `FileStore` with downloads.
5. Tags over `LibraryWrites`, with renames that touch many items at one version.
6. `GroupMembers` with the making and the deletion of a group, composed with `Streaming`.

The abstract specifications worth stating: a credential spent once (for codes, refresh tokens, device
codes, uploads and invitations alike), and a subscription as a view of access.

The proofs cover every safety property of the runs, so each of these steps brings its own theorems; the first
worth having are that a credential is spent once, stated once and shown of each of the five, and that
`Streaming` implements a subscription as a view of access.

## 10. Running

    tlc -config collection_writes.cfg MCLibraryWrites.tla
    tlapm LibraryWrites_proofs.tla
