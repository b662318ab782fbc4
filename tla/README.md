# A TLA+ specification of vdirsyncer

vdirsyncer synchronizes calendars and addressbooks between two *storages* (a
directory of files, one big file, a CalDAV/CardDAV server, an HTTP resource).
It is run again and again, each time for a moment, while people edit the items
of both storages with other programs. What it must never do is lose an edit;
what it must achieve is that both sides end up with the same items. This
directory holds the TLA+ modules that state this, the TLC configurations that
check it on small instances, and the TLAPS proofs that hold for any number of
items, edits and failures. All paths below are relative to `src/vdirsyncer/`.

## 1. Inventory

| Component | State | Operations | Hard behaviour | What makes it correct |
|---|---|---|---|---|
| sync algorithm, `sync/__init__.py` | rows of the new status, item cache, list of actions | `sync`, `prepare_new_status`, `_get_actions`, `Upload`, `Update`, `Delete`, `ResolveConflict` | edits between listing, download and write; errors of single actions; partial syncs | no edit lost, no side emptied, read-only sides untouched, convergence |
| status database, `sync/status.py` | tables `status`, `new_status` | inserts, updates, `rollback`, `transaction` | interruption before the commit, constraints violated at the commit, migration of the legacy format | rows have both sides; a failed ident keeps its old row |
| storage interface, `storage/base.py`, `storage/memory.py` | items by href, with etags | `list`, `get`, `get_multi`, `upload`, `update`, `delete`, metadata | etags checked by the storage, etags that are not returned | compare-and-swap of single items |
| filesystem storage, `storage/filesystem.py`, `utils.py` | one file per item | the same, by `atomic_write` | check and write are two steps; names that collide; crash while writing | items are never half-written, uploads never overwrite |
| single-file storage, `storage/singlefile.py` | one file, cached items and etag | the same, all writes buffered by `at_once` | file changed by others between read and write | never overwrites a changed file |
| DAV storages, `storage/dav.py`, `http.py` | none (the server's) | PROPFIND, REPORT, PUT, DELETE with `If-Match` | lost answers, retries, servers that omit etags | requests that change something are not repeated |
| HTTP and Google storages, `storage/http.py`, `storage/google.py` | item cache, token file | `list`, `get`; token refresh | answers cut off, or made anew for each request; several tasks refresh one token | the same items as long as the resource is the same; one token file |
| metadata sync, `metasync.py` | cached status values | `metasync` | conflicts of metadata, read-only sides | the newer value wins, conflicts are reported |
| command line, `cli/*.py` | status files, cached collections | `sync`, `metasync`, `discover`, `repair` | several collections at once, two processes, crash while saving | one sync per status at a time; errors of one collection do not stop the others |
| items, `vobject.py` | - | parse, split, join, hash | texts that are malformed or incomplete; items that share a file and its properties | nothing that is read gets lost; splitting a joined collection gives its items back |
| repair, `repair.py` | - | new UIDs for items without a good one | item changes while it is rewritten; items whose UID cannot be changed | every item whose UID can be changed has a unique one, and a safe one if asked for |

Interaction: the command line loads the status, opens the database and calls
`sync()` with two storages; `sync()` lists both storages, downloads what is
new to it, plans one action per item, and runs the actions against the
storages while it writes `new_status`; the transaction replaces `status` by
`new_status` when all actions have run. Everything after an `await` may find
the storages changed by people.

## 2. Modules

| Module | Models | Status |
|---|---|---|
| `Storage` | the operations of a storage as the sync algorithm sees it (`storage/memory.py`) | done |
| `SqliteStatus` | the two tables, `rollback`, the constraints (`sync/status.py`) | done |
| `Sync` | `sync()` called again and again, with people editing, failed requests and interruptions | done |
| `MCSync` | instances of `Sync` for TLC | done |
| `SyncProofs` | theorems about `Sync` | see 6 |
| `Filesystem`, `MCFilesystem` | one file per item, with `atomic_write` (`storage/filesystem.py`, `utils.py`) | done |
| `SingleFile`, `MCSingleFile` | one file for all items, with `at_once` (`storage/singlefile.py`) | done |
| `RemoteStorage` | what a storage on a server promises: the abstract specification of `Dav` | done |
| `Dav`, `MCDav` | item operations over the retrying `request()` (`storage/dav.py`, `http.py`) | items |
| `StatusFile`, `MCStatusFile` | the file of the status, its conversion and its locks, for several processes (`cli/utils.py`, `sync/status.py`) | done |
| `Metasync`, `MCMetasync` | properties of a collection (`metasync.py`, `cli/tasks.py`, metadata of the storages) | done |
| `Discovery`, `MCDiscovery` | which collections there are, and the commands that find, save and open them (`cli/discover.py`, `cli/tasks.py`, `cli/utils.py`) | done |
| `Repair`, `MCRepair` | a UID of its own for every item (`repair.py`, `cli/tasks.py`) | done |
| `Vobject`, `MCVobject` | the text of a collection (`vobject.py`), read and written by a single file, read again and again by `storage/http.py` | done |
| `FilesystemProofs`, `SingleFileProofs`, `DavProofs` | theorems about the storages | see 6 |
| `StatusFileProofs`, `MetasyncProofs`, `DiscoveryProofs`, `RepairProofs` | theorems about the commands | see 6 |

Each of the modules stands for one answer to "what does this part rely on?".
`Sync` relies on single operations of a storage being atomic (`Storage`), and
on a status that is its own while it runs. `Filesystem`, `SingleFile` and `Dav`
look at the first, `StatusFile` at the second: there `sync()` is one step and
what is taken apart is everything around it. `Discovery` is about what comes
before (which storages a command opens), `Metasync` and `Repair` are the other
two commands that write to them. `Vobject` is below all of this: where the other
modules have an ident and a hash, it has lines of text.

### How `Sync` corresponds to the code

A storage is a function from hrefs to items or `None`; an item is its ident
(UID), its content (named by its hash) and its etag. The status tables are
functions from sides and idents to rows. `sync()` is cut into actions at its
`await`s:

* `StartSync` evaluates `status_nonempty` and opens the transaction;
* `List` is the `async for` over `list()`: unmodified items keep their row,
  the others are noted for the download; `Fetch` is one item that `get_multi()`
  yields, `FetchFails` its `NotFoundError` or an `IdentConflict`; `NextSide`
  turns to side b;
* `RefuseEmpty` is `StorageEmpty`; `Plan` is `_get_actions`;
* the actions of all idents are then run one at a time, in any order: each has
  an action for success (`UploadAccepted`, ...), for a precondition that fails
  because somebody has edited the item (`UploadRefused`, ...), for the
  read-only cases (`RevertUpload`, `SkipReadOnly`, `RejectReadOnly`, ...) and,
  with `RequestFails`, for a request that fails before or after it took effect;
  `Fail` is `auto_rollback` together with the handler in `sync()`, which gives
  the error to `error_callback` or lets it end the sync;
* a conflict that is resolved by a third version becomes a "merge" (the update
  of side a), followed by a "settle" (the update of side b);
* `Commit` is the end of the transaction, `CommitRejected` the
  `IntegrityError` of its constraints, `Interrupted` a killed process or a
  failed listing.

People are the actions `EditorPut`, `EditorRemove` and `EditorMove`, which may
happen at any moment. What they do beyond ordinary edits is a constant
(`EditorMay`), because some properties only hold of ordinary edits: see the
comments there, and section 5.

The variables `known`, `agreed`, `clean` and `quiet` are history: which
contents a side ever had, what sync() last brought to both sides, whether
anything disturbed the running sync, and how many undisturbed syncs there were
in a row. No guard of a sync action reads them, but for one: a merge that is
neither of its two inputs is a new content.

### How the storages correspond to the code

`Storage` lets every operation of a storage be one atomic step. The other
modules take these steps apart, each at the points where somebody else may
interfere, and ask what is left of the contract.

* `Filesystem` has an action per system call. An operation is `Begin`, for
  writes a temporary file (`MakeTemp`, `WriteTemp`), then `Link` (uploads, fails
  if the target exists) or `Rename` (updates and metadata, replaces anything)
  and `Return`. A call that fails is `WriteFails` inside of the handler of
  `atomic_write`, which removes the temporary file, and `PlaceFails` or
  `UnlinkFails` outside of it: then the file stays (`TempStays`, `left`). Values
  are only buffered inside of the handler, so that a full disk is mostly
  `PlaceFails` for them. `CheckedFails` fails before there is a temporary file.
  Other programs write and remove items in between (temporary files they leave
  alone), `Kill` is the end of the process at any point. The etag, mtime and inode in the code, is a
  value that is new with each write; that is an assumption about the clock of
  the file system: two writes to one inode within one tick of it have the same
  etag.
* `SingleFile` has two reads (`Stat`, `Read`), operations on the items in
  memory (`Buffered`), and two steps of `_write()`: `WriteCheck` and `Rename`.
  A "single" operation writes at once; `get_multi()` and an `at_once()` block
  list, work in memory and write at the end. `rows` is what the caller
  believes, `before` what it believed when the block began.
* `Dav` has one call at a time, in up to `MaxTries` tries of up to two rounds.
  `Send`, the server's step and the client's handling of the answer are steps
  of their own, so that the request, the answer or both can be lost
  (`Disconnected`); a write that was given up may still arrive (`late`). Server
  and network are external. For the nonces of digest authentication the module
  only records which of them the server still accepts.
* `RemoteStorage` says what that should look like to a caller: a write takes
  effect at most once, between the call and its success, never before a
  refusal, and only on the version it was made for. `Contract` is the
  refinement; the mapping is the identity but for reads, which are no write.

### How the text of items corresponds to the code

`Vobject` abstracts a line to its key and the rest; a rest is a sequence, so that
the value of a folded property is the concatenation of its parts, as in
`_Component.__getitem__`. Parameters of properties, and what is inside of a
value, are left out. `Load` hands the text to the parser, `ParseLine` is one
turn of the loop of `_Component.parse` with its two lists (`stack`, `rv`),
`ParseEnds` and `ParseFails` are its ends, `SplitAll` is `split_collection` with
the loop of `list()` around it. For a single file (`kind`) the items in memory are
then changed by `Upload`, `Update` and `Delete`, and written by `Write`
(`join_collection`); `SingleFile` says what happens to the file meanwhile. For
an HTTP resource `Read` is `with_uid(item.hash)`, and the server may answer the
next request with other UIDs, timestamps and foldings (`Regenerate`). `CutOff`
is a download or a file that is incomplete. The hash of an item is the bag of
the lines that count; `normalize_item` sorts them. History: `expected` are the
items that ought to be read next.

### How the commands correspond to the code

* `StatusFile` has processes that sync the same collection. A job is
  `get_status_path` (`LookForOldName`, `Rename`), `manage_sync_status`
  (`Inspect`, `Unlink`, `Connect`), the constructor of `SqliteStatus`
  (`CheckSchema`, `CreateSchema`), `LoadLegacy`, and then `sync()`: `Peek` is
  `status_nonempty`, `Begin` the exclusive transaction. The files are inodes, so
  that a process goes on with a database another one has removed. `lock` is
  SQLite's, `LockTimeout` its "database is locked". A status is the set of the
  items it has rows for; versions and conflicts are the subject of `Sync`.
  History: `last` is what was committed last, `stale` are the processes whose
  answer of `status_nonempty` is older than another one's commit, `torn` says
  that a conversion was cut off or not alone.
* `Metasync` goes from key to key as `metasync()` does: `GetA`, `GetB`, then
  nothing, a `Conflict`, or `Set`. The status is loaded at `Start` and saved at
  `Save`, so that an exception loses what was recorded (`Abort`). Properties on
  a server have no empty value, those in files have. `SetRefused` is a server
  that answers a PROPPATCH with a multistatus whose propstat is an error, which
  `set_meta` does not read, or a directory that cannot remove the file of a
  property, which `set_meta` suppresses. History: `fresh` are values people gave and nothing
  has recorded, `raced` and `refused` the two reasons why metasync cannot know
  better, `inStep` the keys of which nothing disturbed it.
* `Discovery` has processes that run `discover` or `sync` with the
  configuration they have loaded (`run[p].conf`), while people change it and the
  collections. A place is a storage section and a path below it; all three
  ways to write an element of `collections` are there, and `null`. What a
  process has in memory is one record, dropped when the command ends. `Opened`
  is the retry of `storage_instance_from_config` after `CollectionNotFound`,
  for storages that check for it when they are made. History: `vanished` places
  and whether a discovery was `settled`.
* `Repair` processes one item of the listing after the other: `Get`, then `Keep`,
  or `Upload` and `Delete`, or `Rewrite`, as the text and the UID it shows have
  changed or not. A body is an item but for its UID; it may be `Broken` (cannot be
  parsed) or `Masked` (shows the same UID, or none, whatever UID `with_uid()` gives
  it). Masked are items with a UID before those of all components that it renames,
  as a calendar's own is, and the `Bare` ones, in which `with_uid()` finds no
  component to write a UID to. Properties are assumed to come before components,
  as RFC 5545 has them, so that any other item shows the new UID. History:
  `kept` are the bodies people have put there and not taken away, `before`, `calm`
  and `repaired` compare an undisturbed command with what it found, `cut` says that
  a command ended between upload and delete.

## 3. Hazards and properties

PROJECT.json lists the hazards at their lines. The properties of `Sync`:

| Property | Kind | Says |
|---|---|---|
| `NoLostEdit` | action | sync() overwrites or deletes only contents the other side has had, or the very version that a configured conflict resolution decided against |
| `EmptySideSpared` | action | a side is not emptied because the other one was listed empty |
| `ReadOnlyUntouched` | action | read-only storages are never written to |
| `NoResurrection` | action | deleted items that were left alone on the other side do not come back |
| `SettledStaysPut` | action | a sync of settled storages writes nothing |
| `Converged`, `StatusDescribesItems` | invariant | one undisturbed sync (two, if a side is read-only or no_delete) makes the sides agree, and the status describe them |
| `StatusTwoSided`, `RowsAndCacheAgree`, `FailedKeepsStatus` | invariant | what the assertions, NOT NULL constraints and `rollback()` rely on |
| `ConflictsAreGenuine` | invariant | conflicts are only reported of items changed on both sides |
| `EventuallySame` | liveness | when people and failures stop, the sides end up equal for good; only a `no_delete` side may keep more than a read-only one has |

Those of the storages:

| Property | Module | Kind | Says |
|---|---|---|---|
| `ItemsAreWhole` | `Filesystem` | invariant | no reader ever finds a part of an item |
| `OwnWritesRecognized` | `Filesystem` | invariant | the etag an upload or update returns is that of what it wrote |
| `UploadNeverReplaces`, `ReplacesOnlyChecked` | `Filesystem` | action | what is replaced or removed is the version that was checked, or was changed after the check |
| `LeftoversExplained` | `Filesystem` | invariant | temporary files stay only after a kill, or when the system refused to finish, place or unlink them |
| `NoBlindOverwrite` | `SingleFile` | action | a write replaces only items the caller knew when the block began |
| `AcceptedIsWritten` | `SingleFile` | action | what the operations of a block reported is in the file when it ends |
| `Contract` | `Dav` | refinement | `Dav` implements `RemoteStorage` |
| `GetMultiComplete` | `Dav` | action | `get_multi()` returns all that was asked for, or raises |
| `RefusalExplained` | `Dav` | action | good credentials are refused only when a nonce expires during the challenge |
| `EveryCallEnds` | `Dav` | liveness | every call ends, even if the server always answers 429 |

And those of the commands:

| Property | Module | Kind | Says |
|---|---|---|---|
| `StatusKept` | `StatusFile` | invariant | every sync works with the status that was committed last, and a conversion loses nothing of it |
| `OneAtATime` | `StatusFile` | invariant | two processes never change the items of one collection at a time |
| `EmptySideSpared` | `StatusFile` | action | a side found empty does not empty the other one, although the status is asked before the transaction |
| `EventuallySettled` | `StatusFile` | liveness | processes that lock each other out, or meet a conversion half done, get to agreeing storages and status |
| `NoLostMetaEdit` | `Metasync` | action | a changed property is overwritten only if the other side is to win |
| `MetaConverged` | `Metasync` | invariant | after a metasync that ended well both sides and the status file hold the same value |
| `EventuallyInStep` | `Metasync` | liveness | when people stop, both sides hold the same properties for good |
| `SyncStaysInConfig` | `Discovery` | invariant | a sync opens what its own configuration asks for, where it says, whoever discovered it and when |
| `OpenedWhereDiscovered` | `Discovery` | invariant | a storage is opened at the place that was discovered |
| `DiscoveryIsComplete` | `Discovery` | invariant | until people change something, what an undisturbed discovery saved is what is wanted, no more and no less, and it exists on both sides |
| `NoItemLost` | `Repair` | invariant | an item that people put there and did not take away is there |
| `RepairedWell` | `Repair` | invariant | an undisturbed repair gives every item whose UID `with_uid()` can change one of its own, and takes none away but those it should |
| `CopiesExplained` | `Repair` | invariant | items are there twice only between upload and delete |
| `EventuallyDistinct` | `Repair` | liveness | repeated repairs end with distinct UIDs on the items whose UID `with_uid()` can change, whatever they do with the others |

And those of the text of items, in `Vobject`:

| Property | Kind | Says |
|---|---|---|
| `ParsesExactly` | invariant | a text is accepted if and only if it is nested properly, and then every line is in the component it is in |
| `ReadsAll` | invariant | everything in the text is in exactly one item, with all that has its UID and with all timezones |
| `WrittenIsRead` | invariant | what was written to a single file is read back with the same ident and the same hash |
| `FeedStaysSame` | invariant | UIDs and timestamps that are made up for each request change no item of an HTTP resource |

The exceptions in these properties are the code's:

* `NoResurrection`, `ConflictsAreGenuine`: after a failure the status may have
  missed what a sync did itself (`faults = 0`);
* `ParsesExactly`: a text that is cut off between two components is nested
  properly; `ReadsAll`, `FeedStaysSame`: a calendar with a UID of its own
  (`HasCalendarUid`), and items with one name for two (`HasTwins`);
  `WrittenIsRead`: items whose calendars have different properties, or that hold
  a component twice (`MayShare`; see 5 for all of these);
* between the check and the rename of `update()`, `delete()` and `_write()` there
  is a gap in which other programs are overwritten; and `SingleFile` does not
  check at all when there was no file at the time of listing;
* `StatusKept`, `OneAtATime`: an old status is removed before its rows are
  committed to the database, and nothing locks it meanwhile (`torn`);
* `EmptySideSpared` of `StatusFile`: a commit of another process after
  `status_nonempty` (`stale`);
* `NoLostMetaEdit`: metadata has no etags, so that a value that was given after
  the side was read is overwritten (`raced`), and refused properties (`refused`);
* `OpenedWhereDiscovered`: a directory that was removed is created again one
  level too deep (`vanished`; see 5);
* `DiscoveryIsComplete`: a sync that has read the file saved before brings a
  removed directory back (`vanished`), and `discover` finds it next time; a list
  that takes all names of a side, and gives a collection another name than it has
  there, finds what it creates only next time (`NamesFound`; see 5). With one
  change by people, TLC finds a counterexample to the property without either.

All of them are history variables, or conditions on the text, with a precise
meaning, so that the property says what holds in all other cases and TLC visits
both.

## 4. Runs

Those of `MCSync`: the bounds are `MaxEdits` and `MaxFaults` (how
often people edit, and how many requests fail or syncs are interrupted); the
number of syncs is not bounded. Two idents at two hrefs, or one at its own.

| Run | Instance | Shows |
|---|---|---|
| `SyncHistory` | one item, 4 contents, 4 edits, 1 fault; merging, forced syncs | `Converged` also when conflicts take two updates, `StatusDescribesItems`, `EmptySideSpared`, `SettledStaysPut`; `NoLostEdit`, also of those who edit while a conflict is being settled; `ConflictsAreGenuine` and `NoResurrection` until a request fails |
| `SyncReadOnly` | two items, 3 contents, 2 edits, 1 fault; side b read-only, `revert`; side a `no_delete` and without etags; merging, forced syncs, no error callback | `ReadOnlyUntouched`, `EventuallySame` |
| `SyncPartial` | two items, 2 edits, 1 fault; side a read-only, `ignore` and `error`; side b without etags; all `EditorMay` | `StatusTwoSided`, `FailedKeepsStatus` under the worst edits |
| `UndoneChange` | one item, 2 edits that may be undone | a violation of `Converged`, see 5 |

Those of the storages:

| Run | Instance | Shows |
|---|---|---|
| `Filesystem` | two items, one of which cannot be a file name, one metadata key, 2 changes by others, 1 kill, any number of failed system calls | the properties of `Filesystem` |
| `SingleFile` | two items, up to two cards of each in the file, 2 changes by others, 1 fault | the properties of `SingleFile` |
| `Dav` | one href, 3 tries (5 in the code), 2 changes by other clients, 1 lost message or server error, any number of 429s and expiring nonces | the properties of `Dav` |

Those of the commands:

| Run | Instance | Shows |
|---|---|---|
| `StatusFile` | two processes, two items, no status or an old one, 3 inodes, 2 changes by people, 1 failure or kill | the properties of `StatusFile` |
| `Metasync` | two keys, of which one or both are configured; side b on a server; all resolutions and read-only sides; two values, none and empty; 3 edits, 1 failed or refused request or kill | the properties of `Metasync` |
| `Discovery` | two processes, two directories and a server, two names, five configurations (`from a` and `from b`; a mapping of different names, not implicit; `from a` with a collection that is the home of side a; `from b` with a mapping of different names; `null`), 3 commands, 1 change by people, 1 failure; 800,611 states | the properties of `Discovery` |
| `Repair` | two items, one in an unsafe place, with missing, equal, safe or unsafe UIDs, which may be replaced by one that shows the same UID always, with or without a component to rename; 6 places and 6 UIDs; 1 edit, 1 failure or kill | the properties of `Repair` |

That of the text of items:

| Run | Instance | Shows |
|---|---|---|
| `Vobject` | 420 texts, as a file and as a resource: calendars with up to three components (events with one, another, a folded or no UID, an alarm with a UID of its own, a timezone) and four kinds of own properties, two calendars in one text, address books and bare cards with up to two cards, an unknown component, and lines in a wrong order; six items to upload, among them a journal entry outside of a calendar; 2 changes | the properties of `Vobject` |

Three components are what the grouping by UID can tell apart: an event, its
exception, and another one or a timezone. Two changes are an upload or update
and another one, or a file cut off after it was written.

Two processes are enough for `StatusFile` and `Discovery`, for what one does to
another goes through a file, and every property relates one process to the last
one that wrote it; a third inode is needed when one process has a removed file
open, and another one creates a new one after a second removal. In `Repair`
the places and UIDs are as many as the copies that commands which end early
leave behind; were there too few, `Upload` could not go on and TLC would report
a deadlock. Deadlock is checked where the commands can always be repeated
(`Metasync`, `StatusFile`, `Repair`); in the others the number of calls or
commands is bounded, and they may all be over.

The two lists of `Discovery` that mix a `from` with a mapping are there for the
exceptions of `DiscoveryIsComplete`: each is reached with one change and three
commands. Two names are needed for a mapping that renames.

One href is enough for `Dav`: a write names one href, the conditions are
checked per href, and what may be missing in a multistatus is missing per href.

Why the bounds of `MCSync` are enough: a conflict takes two edits, one on each side; an
edit that races with a sync takes one edit before it (so that there is
something to do) and one while it is running; a failure matters together with
an edit before and an edit after it. Two items are needed where one item must
not disturb another (constraints of the database, moved and retagged items, one
failed action among others), and where a side must not look empty.

Fairness (`FairSpec`): weak fairness of the steps of a running sync, and of
starting one; for `Dav` that of the client's steps, and that a request is
answered or times out (aiohttp's default timeout); for `Metasync` and `Repair`
that of the running command and of its repetition; for `StatusFile` that of each
process by itself, so that one may well be overtaken by the other between any
two steps. The code justifies it: `sync()` is a loop over finite lists,
every `await` of which returns or raises, and vdirsyncer is run periodically
(`contrib/vdirsyncer.timer`). Nothing is assumed of people, failures or
`--force-delete`.

## 5. Findings

* `UndoneChange`: `Update._run_impl` stores the new etag of the destination,
  but the hash stays the one read before the update. When the destination is
  later changed back to that content, `is_changed` sees the remembered hash
  and takes it for unchanged: the sides differ for good, and no sync says so.

What follows was met while modelling and is not given a run of its own:

* When the UID of an item at an href changes, the old ident is deleted and the
  new one uploaded. If the deletion is skipped (or fails), its row is rolled
  back to an href the new row has as well, and the unique index rejects the
  commit of the whole sync, now and every time again.
* `partial_sync = ignore`, side a read-only, a conflict merged to a third
  version: skipping the first update rolls the row back, so that the second one
  uses the etag of the last sync and fails, every time.
* `get_multi()` and the `at_once()` block of every sync of a single file end with
  `_write()`, also if the storage is read-only. The file is rewritten from what
  was parsed; of vCards with the same UID only the last one is left.
* `FilesystemStorage.get()` reads the file and then
  takes the etag of the path. A change in between is returned as the old content
  with the new etag, and later syncs take it for unchanged (`ReadsRecognized`).
* `DAVStorage.delete()` warns of a missing etag when
  there is one, and without one deletes any version (`Precondition`). sync()
  always has an etag from a listing.
* A storage that returns no etag for an update
  (`EtagLost`) makes the next sync take its own write for a change, so that an
  edit of the other side becomes a conflict (`ConflictsAreGenuine` is violated
  with `EtagLost = {"b"}`).
* A process that is killed between `os.remove` and the commit of
  `load_legacy_status` (`cli/utils.py`) leaves no status at all, although
  CHANGELOG.rst:211 says "Old data is automatically migrated". The next sync is
  a first one: deleted items come back.
* `status_nonempty` is read before the transaction: of two processes, the one
  that started on an empty status may take a side that was emptied since for
  a first sync.
* A directory that is removed after its discovery is opened again as
  `foo/foo`: `storage_instance_from_config` calls `create_collection` with the
  arguments of the collection, and `FilesystemStorage.create_collection`
  appends the name to a path that ends with it already, although
  `storage/base.py:129` says of `collection=None` only that "the arguments are already
  pointing to a possible collection location".
* With a triple that maps a name to another one, and `from a` beside it, a second
  discovery finds more than the first: the created collection is discovered
  under its own name.
* Two sides that are both non-empty and have nothing in common are, without a
  status, a first sync like any other.
* The `update` of `repair_storage` is reached by items whose text `with_uid()`
  changes, but not the UID that `Item.uid` finds first: calendars with a UID of
  their own before their components, and items without a component that takes a UID,
  written back in another layout. They keep their duplicate or unsafe UID, and are
  written again by every repair.
* `set_meta` only buffers its value: a full disk shows at the flush in the `else:` of
  `atomic_write`, and the temporary file stays, as it does when `os.link` or `os.rename`
  fails. When the `os.unlink` after a link fails, `upload()` raises although the
  item is there.
* `FilesystemStorage.set_meta(None)` suppresses every `OSError`: metasync then
  records that the property is gone when it is not.
* A single file that is to hold nothing but, for example, a journal entry outside of
  a calendar cannot be written (`WriteFails`): `join_collection` does not know how.
* The UID of an item is the first one in its text. A calendar with a UID of its own
  (RFC 7986) gives it to all items of a single file or HTTP resource, of which
  only the last one is left.
* The items of a single file share one VCALENDAR, and so all its properties:
  an item whose calendar has, for example, a CALSCALE changes the hash of all
  others when it is uploaded. Of components that are equal in two items, or twice in
  one, one is written.
* A file or download that ends between two bare vCards is read as a shorter
  collection.
* Timezones are added to vCards, too, when a text holds both.
* `DAVStorage.set_meta` ignores the answer to the PROPPATCH, as a comment says
  (`storage/dav.py:752`); metasync then records a value the server does not have, and takes the
  old one for a change of the server next time.

## 6. Proofs

The theorems hold for every value of the constants. What is assumed of them
are the named assumptions in the modules, which every run evaluates.

### Sync

`SyncProofs` holds for every set of idents, hrefs, contents and etags, every
configuration of the pair and every `MaxEdits` and `MaxFaults`; it rests on the
named assumptions of `Storage`, `SqliteStatus` and `Sync` about their constants
(configuration options have their documented values, storages choose different
hrefs for different idents, `None` is none of the values).

| Theorem | States |
|---|---|
| `TypeCorrect` | `Spec => []TypeOK` |
| `StatusStaysTwoSided` | `Spec => []StatusTwoSided` |
| `RowsAndCacheAlwaysAgree` | `Spec => []RowsAndCacheAgree` |
| `FailedAlwaysKeepsStatus` | `Spec => []FailedKeepsStatus` |
| `ReadOnlyAlwaysUntouched` | `Spec => ReadOnlyUntouched` |
| `EmptySideAlwaysSpared` | `Spec => EmptySideSpared` |
| `EditsNeverLost` | `DecisionsHold => (Spec => NoLostEdit)` |
| `UndisturbedSyncConverges` | `TakesOrReverts => (Spec => []Converged)` |
| `StatusAlwaysDescribesItems` | `TakesOrReverts /\ (\A s \in Sides : ~ KeepsItsOwn(s)) => (Spec => []StatusDescribesItems)` |
| `SettledAlwaysStaysPut` | `TakesOrReverts /\ EtagLost = {} => (Spec => SettledStaysPut)` |
| `ConflictsAlwaysGenuine` | `HistoryKept => (Spec => []ConflictsAreGenuine)` |
| `DeletedStaysDeleted` | `HistoryKept => (Spec => NoResurrection)` |

None of the invariants is inductive. `RowsInv` is: it says what is in
`new_status` while the sides are prepared (`PrepareInv`: a row was either
carried over from `status` or its item is in the cache, and side b has no rows
before it is listed), and what is there while the action of an ident is pending
and after it has run (`RunInv`). `Plan` is the step where the first gives the
second. The four theorems about rows follow from it; the two about storages
from the lemma `StoreChanges`, which says at which place and for which action
sync() changes a storage.

`EditsNeverLost` needs to know where the contents in the rows come from. That
is `VersionsInv`. What a row of the status remembers of a side has been on the
other side too: its hash, and the content of the item that still has its etag
(`Carried`). A new row was either kept from the status or read from its side
(`Read`). When the actions run, the row of the destination of a pending update
or deletion is `Carried`, and that of its source was `Read`. sync() overwrites
or deletes an item only with the etag of its row; so what it destroys has been
on the other side. Every action of `Sync` has a lemma of its own; those that
write to a storage share the lemmas about fresh etags, by which an old row never
matches a newer item.

A conflict resolution destroys one of two edits, and that is what was asked
for; but it may destroy only that version, and nothing later. For this the invariant
has to follow a conflict to its end: the row of the side that lost keeps the
hash of the lost version (`UpdateRow`), which the other side may never have had.
What makes this harmless is that the lost version is nowhere on its side
(`Answered`), as long as it does not come back; and until the update that a merge
owes to the other side has been done, the merged content is what will have been carried
there (`Brings`). Hence the hypothesis `DecisionsHold`, which says nothing of
pairs without a conflict resolution, and of the others that

* nobody brings back a content that was there before (`"undo"`): with
  `conflict_resolution = "a wins"` and four edits TLC finds an edit that is lost when
  the version that lost a conflict comes back, looks unchanged by its hash, and is
  overwritten with the next change of the other side. It is `UndoneChange` again, this time
  at the expense of an edit;
* for a merge, the side that is written to first has one item of the UID, and is
  not skipped by `partial_sync = "ignore"`: else the rows of the two
  versions stay, and the merge is computed once more from a version that is no
  longer there.

The last five theorems say what a sync achieves, and not only what it spares.
Their hypotheses are

* `TakesOrReverts`: people do not move or duplicate items or bring back earlier
  contents (`EditorMay \subseteq {"touch"}`), not both sides are read-only, and if
  one is, what it does not take is reverted (`partial_sync = "revert"`) and no
  conflict is merged. Any side may be `no_delete`. The first part is needed as
  after an update the row has the new etag and the old hash, so that an old content
  that comes back looks unchanged (`UndoneChange`, see 5). `error` and `ignore` leave
  the sides different on purpose. And a merge has two updates, of which the
  read-only side is only noted to have taken one: TLC finds a merge to a third
  content, after which a change of the read-only side is passed on, the answer to
  that update is lost, and the content of the merge, which is new to the read-only
  side, looks unchanged there when it turns up.
  `StatusAlwaysDescribesItems` leaves out pairs of a `no_delete` side and a read-only
  other side (`KeepsItsOwn`): what the first keeps for itself has no rows.
* `PlainPair == ReadOnly = {} /\ NoDelete = {} /\ EditorMay \subseteq {"touch"}`,
  for the last two theorems: both storages take every change. A `no_delete` side
  really brings deleted items back, which is what `NoResurrection` excludes.
* `HistoryKept`: `PlainPair`, every write returns an etag, nobody touches
  files, and errors go to a callback. The old hash is the reason here, too: with a
  new etag an item whose content is the same looks changed, and a conflict that
  is reported of it is none. Without a callback an error ends the sync without
  a commit, after actions of which the status then knows nothing; the command line
  always gives a callback.

TLC found all of these to be needed: each part that was left out had a
counterexample. The run `SyncHistory` has constants of this kind. The argument
has two halves, by the same case distinction over the actions of `sync()`.

* `QuietInv` says what undisturbed syncs have got done. While a side is listed and
  fetched, a row stands for the item that is there, or it is on the list; `Plan`
  turns the difference of the two sides into actions, so that an ident without an
  action is the same on both sides, and one with a pending action is what the
  action says (`CleanInv`). What makes `Plan` right is that two items that both
  look unchanged, by etag or by hash, hold the same content, and that the side an
  action copies from looks changed (`AgreeInv`). A storage has one place for an
  ident (`PlacesInv`), but a row of a read-only side may stand for a write that was
  not made: it has neither href nor etag and the hash of the other side
  (`MadeUp`). So the first sync leaves an ident in one of four ways
  (`Settles`): absent; the same on both sides; without rows, on a `no_delete` side
  that kept it (`KeptBack`); or with such a row (`PutOff`). Each of the last two
  makes the second sync bring the other side's item back, by an upload, an update
  or a deletion that the side to be written to takes (`RunSettles`), and after
  that nothing is left but what a `no_delete` side keeps from a read-only one
  (`Alike`, `SettledInv`); every further sync plans at most what is skipped or
  noted again. `StayInv` adds, for storages that return etags, that the
  next sync finds every item by its etag, except those behind a made-up row, whose
  hash is the same: so nothing is written.
* `TrackInv` is about any sync, disturbed or not, as long as no request has
  failed. `Track` says of a row that the item on its side either is what sync()
  brought there last, or has an etag that the row does not know and a content that
  side never had. So a row whose hash is not what both sides agreed on is a change
  of people. A conflict has two such rows, and an upload is of such a content.

### The status file, the commands and the storages on disk

| Theorem | Module | States |
|---|---|---|
| `StatusFileTypeCorrect` | `StatusFileProofs` | `Spec => []TypeOK` |
| `StatusAlwaysKept` | `StatusFileProofs` | `Spec => []StatusKept` |
| `AlwaysOneAtATime` | `StatusFileProofs` | `Spec => []OneAtATime` |
| `EmptySideAlwaysSpared` | `StatusFileProofs` | `Spec => EmptySideSpared` |
| `MetaTypeCorrect` | `MetasyncProofs` | `Spec => []TypeOK` |
| `MetaEditsKept` | `MetasyncProofs` | `Spec => NoLostMetaEdit` |
| `MetasyncConverges` | `MetasyncProofs` | `Spec => []MetaConverged` |
| `DiscoveryTypeCorrect` | `DiscoveryProofs` | `Spec => []TypeOK` |
| `SyncWithinConfig` | `DiscoveryProofs` | `Spec => []SyncStaysInConfig` |
| `AlwaysOpenedWhereDiscovered` | `DiscoveryProofs` | `Spec => []OpenedWhereDiscovered` |
| `DiscoveryAlwaysComplete` | `DiscoveryProofs` | `Spec => []DiscoveryIsComplete` |
| `RepairTypeCorrect` | `RepairProofs` | `Spec => []TypeOK` |
| `ItemsNeverLost` | `RepairProofs` | `Spec => []NoItemLost` |
| `CopiesAlwaysExplained` | `RepairProofs` | `Spec => []CopiesExplained` |
| `RepairsWell` | `RepairProofs` | `Spec => []RepairedWell` |
| `FilesystemTypeCorrect` | `FilesystemProofs` | `Spec => []TypeOK` |
| `ItemsAlwaysWhole` | `FilesystemProofs` | `Spec => []ItemsAreWhole` |
| `LeftoversAlwaysExplained` | `FilesystemProofs` | `Spec => []LeftoversExplained` |
| `UploadsNeverReplace` | `FilesystemProofs` | `Spec => UploadNeverReplaces` |
| `OnlyCheckedReplaced` | `FilesystemProofs` | `Spec => ReplacesOnlyChecked` |
| `OwnWritesAlwaysRecognized` | `FilesystemProofs` | `Spec => []OwnWritesRecognized` |
| `SingleFileTypeCorrect` | `SingleFileProofs` | `Spec => []TypeOK` |
| `NeverBlindlyOverwritten` | `SingleFileProofs` | `Spec => NoBlindOverwrite` |
| `AcceptedAlwaysWritten` | `SingleFileProofs` | `Spec => AcceptedIsWritten` |
| `DavTypeCorrect` | `DavProofs` | `Spec => []TypeOK` |
| `DavKeepsContract` | `DavProofs` | `Spec => Contract` |
| `GetMultiAlwaysComplete` | `DavProofs` | `Spec => GetMultiComplete` |
| `RefusalAlwaysExplained` | `DavProofs` | `Spec => RefusalExplained` |

* `StatusFileInv` adds three parts to `TypeOK` and `StatusKept`: where a process
  is tells whether it has a database open or a status in hand (`PlacesInv`);
  unless `torn`, every open database is the file at the path, and who converts
  has what was committed last and is alone (`OneDatabase`); and unless `stale`,
  what was read of the status still holds (`PeekHolds`). Without `OneDatabase`,
  `StatusKept` is not inductive: a commit to a removed file would be the
  latest. `OneAtATime` follows, for the lock is then a lock of one file.
* `MetaInv`: a fresh value differs from the status file (`FreshInv`), the status
  in memory agrees with the file for the keys still to be worked on
  (`MemoryInv`, which needs that no key is configured twice), and what was read
  of a side is its value unless it was changed since (`ReadInv`). So a side that
  holds a fresh value differs from the status, and is written to only by a
  resolution against it. For `MetasyncConverges`, `StepInv` adds that a key in step
  agrees with the status in memory while a run goes on, and with the file
  between the runs; `Save` writes configured keys only, and a key is in step only
  after its turn in a run that has it configured (`InStepInv`).
* `DiscoveryInv`: everything between the configuration and the storages a sync
  opens (elements to be expanded, resolved collections, the saved file) is
  something a configuration asks for; and the saved file belongs to a
  configuration with its key. Two configurations with one key ask for the same.
* `PlacesInv` of `Discovery`: what a process has seen, made or resolved, and what
  is saved, is among the places that exist or have vanished. A directory is opened
  elsewhere only if it does not exist, and so has vanished.
* `CompleteInv`: everything the configuration stands for is resolved already, still
  stands for itself in the list, is what the `from` in the list will find, or has
  vanished (`CoversAll`); nothing else is in the list or resolved (`Within`); and
  what was seen, made or resolved is there (`Sighted`, `Standing`). This is kept not
  only by the steps of the process itself but by those of others: all of them work on
  the configuration in use while nobody disturbs them (`CalmInv`), so that what
  one creates is wanted by all (`CreateGrows`, which needs `NamesFound`), and what a
  sync creates has vanished before (`OpenGrows`). At `Save` the list is
  empty and every storage was opened.
* `RepairInv`: as long as the item in hand has the etag that was read, it is the
  item that was read (`EtagTells`), and when it is to be deleted there is another
  copy (`HasOtherCopy`). For `CopiesExplained`: of two places with one item, one is
  that of the item in hand (`TwinsInv`); the body of an item that people change or
  add has no copy. For `RepairedWell`: in an undisturbed command, the items that were
  processed have distinct UIDs, all of which are in `seen_uids` (`SeenInv`),
  and every UID that was there is still there, on an item that is done or to do
  (`BeforeInv`).
* `FilesystemInv`: what the operation at work has got so far (`CallFits`: once its
  temporary file is written it holds the content of the call); what was checked
  is still there, unless it was changed after the check (`StillChecked`); and
  every temporary file is the one being written, or known to be left
  (`TempsKnown`). `ItemsAreWhole` needs the first, for `Link` and `Rename` put the
  temporary file in place; the two action properties follow from the second by
  the lemma `OnlyPlacesOrRemoves`, which says in which steps the storage changes an item.
  `OwnWritesRecognized` needs, between `Link` or `Rename` and `Return`, that the etag
  that was taken from the temporary file is that of the file put in place, unless
  another program has touched it (`PlacedInv`), and that no etag is given twice.
* `DavInv`: a request is made for a version (`WellMade`), also one that may still arrive
  late; an answer of success is that of a write, which has taken effect
  (`CallInv`); and unless a nonce expires, the server accepts the one of
  the current round (`ChallengeInv`). `DavKeepsContract` is the refinement: initial
  states are initial states of `RemoteStorage`, and each step of the request, the
  network, the server and the others is a step of it or changes nothing it can see.
  A second try of a write is impossible because `_is_safe_to_retry_method` is false
  of it; a late write is `RemoteStorage`'s write of nobody.
* `SingleFileInv`: between `before`, `rows`, the items in memory and the file that
  was listed, where two differ the third tells why (`TellsMemory`,
  `ChangesKnown`); between check and rename the file is the one that was listed,
  or was changed too late (`CheckHolds`).

Among the assumptions on constants are that sets of names and hrefs are finite
(`NamesAssumption`, `HrefsAssumption`; a directory and a multistatus are finite) and
that `None` is not a request, an answer or a saved file (`NoneIsNoRequest`,
`NoneIsNoAnswer`, `NoneIsNoCache`).

`TypeOK` of all these modules, `RowsAndCacheAgree` and the inductive invariants
are proved and not listed in a run. The runs show the properties a reader asks
for; TLC has checked the inductive invariants on the same instances before they
were proved. One of these checks changed a property: `DiscoveryIsComplete` did
not yet have its two exceptions, and held only because the instance had no list
that mixes a `from` with a mapping.

Only model-checked are

* everything about `Vobject`, whose definitions are recursive (`ParsesExactly`,
  `ReadsAll`, `WrittenIsRead`, `FeedStaysSame`): the provers can neither unfold them
  nor use induction over data;
* all liveness (`EventuallySame`, `EventuallySettled`, `EventuallyInStep`,
  `EventuallyDistinct`, `EveryCallEnds`), which is out of their reach;
* convergence of a pair with a read-only side whose conflicts are merged, within the
  two edits and three contents of `SyncReadOnly` (`EventuallySame`).

## 7. Plan

1. An abstract specification of synchronization, which `Sync` implements.
2. The rest of `Dav`: the requests of the discovery and calendar filters.

## 8. Not modelled

* Wording, logging, reports, `showconfig`, and everything that only moves bytes.
* The filter hook of `storage/http.py`, another program. `get()` hands out what the
  last `list()` has stored. To `Sync` it is a read-only side.
* `storage/google.py`: the token is fetched by a person in a browser and
  refreshed by a library; the steps in this code are reading and writing one
  file. Three things a reader should know: `_save_token` writes the file but
  not `self._token`, so that a storage goes on with the token it has loaded; the
  thread that waits for the browser is joined on the event loop, which stops all
  other tasks; and two tasks of one account may both find no token, and ask
  twice, as a comment there says.
* The parser of the configuration and the fetching of passwords, which keep no
  state but a cache; commands that settle conflicts are the third version of
  `Sync`.
* Hooks of the filesystem storage (`post_hook`, `pre_deletion_hook`), which run
  other programs: to the model these are other programs.
* Discovery and creation of single files, and the requests by which a DAV
  server's principal and home set are found: `Discovery` has what they return.
* The inside of values and the parameters of properties; items of single files
  that mix calendars with cards. HTTP authentication beyond nonces, and
  OAuth, are external.
