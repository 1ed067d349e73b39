# Terrible Butler in TLA+

Terrible Butler is a household inventory server: one Node process (Express 5, Socket.IO,
better-sqlite3) and a React client. This directory models the parts of it whose correctness
depends on the order in which things happen, checks them with TLC and proves some of it with TLAPS.

`PROJECT.json` lists every component, run, mutant, hazard and finding, and maps each definition
to the lines it stands for.

## 1. How the program behaves

Five facts shape every model.

* **Server handlers run to completion between awaits.** JavaScript is single threaded and
  better-sqlite3 is synchronous, so a handler without `await` is one atomic action. What waits is named
  in each module: the upload of an invoice (PDF worker, language model), the auth routes (the
  JSON body, the password check), the log's streams, the backup's copy, the shutdown.
* **A database write is a transaction.** `synchronous=FULL`, foreign keys on: a crash falls
  between transactions. A handler whose transaction throws leaves the tables as they were.
* **Clients do not wait for each other.** Requests arrive in any order; of one client's, only
  those it chains itself. A reply may be lost after the server has acted.
* **A closed dialog's handlers still run.** React drops what they set in the dialog, not what they set in its
  parent or in `localStorage`.
* **Work that is heavy or external is gated** (`lib/work-gate.js`).

## 2. Inventory of the system

| Component | State | Operations | Interacts with | Hard part | Correct when |
|---|---|---|---|---|---|
| Work gate (`lib/work-gate.js`) | `active`, `waiting` | `run`, `release` | uploads, PDF extraction, language model | the microtask between hand-over and resumption; tasks that throw | slots bounded and never lost, first come first served, every waiter runs |
| Items, stock, prices (`routes/items.js`, `routes/price-history.js`, `lib/domain-helpers.js`) | `items`, `item_locations`, `price_history` | create, edit, quantity, deduct, merge, move, open, delete, delete a price | locations, invoice commit | caps per row, cached prices, barcode uniqueness by a read | stock conserved and bounded, prices agree with history, a barcode names one item |
| Locations, categories (`routes/locations.js`, `routes/categories.js`) | two name tables | create, rename, delete | everything that refers to them | folding of stock rows; ids given out again | nothing refers to what is gone |
| Schema (`lib/database.js`, `db-migrations.js`) | tables, triggers, indexes, `user_version` | open, migrate | all of the above | a crash between a migration and its number; keys for imports that had none | an opened database has the latest schema, its stock moved once |
| Invoice import (`routes/invoices.js`, `lib/invoice-dedupe.js`, `item-matching.js`) | imports, lines, match memory | upload, edit a line, commit, cancel | inventory, language model, retention | a snapshot that is stale after the await; two uploads of one invoice; several lines for one item | an invoice is counted once, and exactly as reviewed |
| Retention (`lib/invoice-retention.js`) | none | purge at start and daily | invoice import | deletes under a reviewer | abandoned keys are freed, committed records stay |
| Parsers (`parsers/`) | the buffered product, the category | one physical line at a time | upload | wrapped descriptions, page headers, a header one line ahead | every product of the layout once, in its category |
| Language model client (`lib/llm-client.js`, `item-matching.js`) | chunk counter, workers | classify, match, photo | gate, upload | chunks answered in any order, lines left out, repeated, invented | one answer per line, the one given for it |
| Uploads, media, PDF worker (`lib/uploads.js`, `lib/pdf-worker.js`, `routes/uploads.js`) | scratch files, worker, deadline | receive, decode, extract, discard, sweep | gates, model | four endings of a worker that race; crash between file and removal; the sweep beside live requests | no file for ever, none gone while it is read |
| Sessions (`routes/auth.js`, `lib/auth-state.js`, `lib/middleware.js`, `lib/realtime.js`) | epoch, fingerprint, device tokens, sockets | log in, mint, touch, revoke, revoke all, start with another configuration | every request | requests and sockets in flight at a sign-out | what has ended stays ended and is not served |
| Limits (`lib/rate-limit-core.js`, `lib/login-backoff.js`, `createConnectionLimiter`) | buckets, the door, counters | hit, evict, sweep, reserve, succeed, handshake, time out | login, API, sockets | the table at its limit; checks that reserve before any fails; a connection after its timeout | bounded memory, lock-outs kept, gaps that grow, counters that count |
| Client session (`api.ts`, `socket.ts`, `App.tsx`, `LoginScreen.tsx`) | stored token, socket | log in, remember, fetch, sign out | sessions | notices and handshakes that are lost; a form submitted twice | an end of the session the socket carries is noticed |
| Review screen (`lineUpdateQueue.ts`, `InvoiceImportModal.tsx`) | per-line queue, rows, the id to come back to | edit, settle, resync, commit, resume, cancel | PATCH, GET, commit of an import | lost replies, late answers, edits while committing, dialogs closed and opened again | the server applies edits in order and commits what is shown; a review can be resumed |
| Add form (`ItemFormModal.tsx`) | fields, duplicate panel, saves | type, save, choose | items, matching | pressing twice, answers to a closed form | what was typed becomes stock once |
| Lists and stock dialogs (`useInventory.ts`, `QtyModal.tsx`, `DeductModal.tsx`, `ItemCard.tsx`) | copies of the server's lists | refetch, adjust, set, move, deduct | broadcasts, stock routes | broadcasts missed, stale copies | a change changes the number that was shown |
| Shutdown, log, backup (`lib/shutdown.js`, `logger.js`, `backup.js`) | stage, deadline, streams, files | signal, close, write, flush, copy, prune | database, requests | deadline races, handlers whose clients have gone, stalled readers, crash in a copy | the process ends; success means no client waiting and nothing from before the close unwritten; gaps are told; the last good copy stays |
| Configuration, stocktake, camera, line display, variants | none that lasts | | | | not modelled, see section 8 |

## 3. Modules

| Module | Models |
|---|---|
| `WorkGate` | `lib/work-gate.js`: each call of `run` is a task with a phase; `handed` is the time between `next()` and the resumption of the waiter |
| `BoundedPool` | what a gate promises, with no counter and no promises |
| `WorkGateProofs` | the theorems about the gate |
| `Inventory` | tables and write handlers of items, stock, prices, locations, categories |
| `InventoryProofs` | the theorems about `Inventory` |
| `InvoiceImport` | uploads, review, commit and retention, interleaved with the handlers of `Inventory`, which it extends |
| `MCInvoiceImport` | small invoices for TLC |
| `InvoiceProofs` | the theorems about `InvoiceImport` |
| `Sessions` | household and device tokens, the epoch and the fingerprint, the auth routes, sockets and their expiry |
| `ClientSession` | one browser's token, login form, requests and socket |
| `HitCounter`, `LoginBackoff`, `SocketLimits` | the bounded table of the rate limiters; the household's login delay; the caps on open connections |
| `MCAccess` | the six components that decide who may call, side by side |
| `AccessProofs` | the theorems about `Sessions`, `HitCounter`, `LoginBackoff` and `SocketLimits`, and the types of all six |
| `ActionLog`, `Shutdown` | the log's streams; `Shutdown` extends it with signals, deadline, flush and exit |
| `Uploads` | a file from multer to its removal, the PDF worker, the sweep, crashes |
| `Backup`, `Schema` | the nightly copy and its pruning; opening and migrating a database of any version |
| `InvoiceParsers`, `Classify` | from the text of an invoice to its lines; from lines to the model's answers and the candidates |
| `MCService` | these six side by side |
| `ServiceProofs` | the theorems about these: shutdown and log, uploads, backup, schema, the model's answers and the parsers |
| `LineQueue` | the review screen's rows, its edit queue and the server's side of PATCH, GET and commit |
| `ImportScreen` | which import the dialog shows and keeps |
| `ItemForm`, `InventoryView`, `StockDialogs` | the add form; the lists on screen; the ways to change stock |
| `MCClient` | these five side by side |
| `LineQueueProofs`, `ClientProofs` | the theorems about `LineQueue`; about the other four |
| `RecursionLemmas` | induction over naturals and finite sets, recursion and sums, for the proofs |

### Side by side
Components that share no state are checked in one run without their product: `part` says which of them
moves, and only that one starts in more than one state. A behaviour of the run is a behaviour of one
component, with that component's own fairness; a part that does not move has nothing enabled, so its fairness asks
for nothing.

Where components do interact, one extends the other (`InvoiceImport` on `Inventory`, `Shutdown` on
`ActionLog`) or is checked against what the other promises:

| Module | Assumes | Which is checked as |
|---|---|---|
| `ClientSession` | a token that has ended has ended for good, and its socket is dropped | `EndedForGood`, `DeadSocketsDropped` of `Sessions` |
| `Uploads` | a gate of `HeavySlots` slots that lets every waiter in | `ImplementsPool`, `EveryWaiterRuns` of `WorkGate` |
| `SocketLimits`, `LoginBackoff` | the hit counter may refuse any request | nothing to promise |
| `ImportScreen` | an import is committed or cancelled once | `InvoiceOnce`, `CommittedForGood` of `InvoiceImport` |
| `InventoryView` | every change is broadcast after its transaction | the handlers in `Inventory` |

### Work gate
`active` and `waiting` are the variables of `createWorkGate`; `phase` is where each call stands.
`TakeSlot`, `Wait` and `Refuse` are the three branches of `run`; `PassOn` and `GiveBack` the two of
`release`, which `Settle` calls from the `finally` clause, however the task ended.

### Inventory
A row that does not exist is `None` (SQL NULL is `None`, too); `items` has AUTOINCREMENT ids that
are never reused, `locations` and `categories` have not, so the id of the newest deleted row is
given out again. A handler that answers 4xx leaves the tables alone: its guard is false.

Foreign keys, triggers and unique indexes are *not* part of the actions. They are invariants
(`ReferencesResolve`, `QuantityInBounds`), so a handler whose own checks would let the
database refuse a write, a 500 in the program, shows up as a violation. Times are two per day: a
purchase dated by hand is stored at midnight, one that is not at the clock's time, and the order
of the two on one day is what `recalculateItemPrices` depends on.

### Invoice import
`ReadInvoice` is the upload up to the first call of the model: duplicate check, snapshot,
candidates. Its decision is kept in `uploads`. `FinishUpload` is everything after the last await: the
transaction that stages import and lines, which the unique key or a foreign key may refuse.
Between the two any other action may happen. `Commit` applies `CommitLine` to the kept lines, in the order of their ids, each
on the tables the one before left (`LinesCommitted`), and changes nothing when one of them fails. `Resolutions` gives
what matching may decide: memory and unique names are exact, the fuzzy search and the model may
choose any item or none.

### Sessions and the client's session
`Accepted` is `authenticateToken`; `Touched` the write of `last_used_at` it makes. An auth request is authenticated on
arrival (`AuthCallArrives`) and writes later (`MintDevice`, `RevokeDevice`, `RevokeAll`), after its body and the
password check; anything may come in between, a sign-out too. `Start` is the start-up of `server.js` with any login and
key, so the fingerprint is rotated and rotated back; `SessionInit` includes databases of versions that
recorded nothing or only the login. `Handshake`, `TimerFires` and the disconnects are the sockets of `lib/realtime.js`.
`ClientSession` has the two ways a browser learns of its end: `NoticeArrives` and `HandshakeRefused`. `form` follows each call of
`handleSubmit`, since nothing keeps the form from being submitted while one is under way; the first to end connects the
socket (`ShowInventory`), a later one only replaces the stored token.

### Limits
`buckets` is the `Map` with its order of insertion. `starts` in `LoginBackoff` observes when each comparison is
allowed to begin. `SocketLimits` follows a handshake through `allowRequest` and the three events that end its
reservation; `expired` is the `WeakSet` of those that timed out.

### Log and shutdown
An entry is its number. The buffers are in lines; a stream that was ended at the change of week is in
`ended` until it closes, `awaited` if `flush` waits for it. `torn` observes that a stream broke with lines in
it, or could not be opened (`OpenThrows`), which the log cannot tell. `Shutdown` counts connections, those with a request (`inFlight`)
and those kept alive, because that is what the callbacks of `io.close` and `server.close` wait for; handlers whose clients have gone
(`abandoned`) are waited for by nobody and may log until the process exits. `atClose` observes the last entry and the week when the
server had closed.

### Uploads
`work` is where a handler stands, `thread` its PDF worker: `WorkerFinished` is `finish`, for the first event or
the deadline. The label route asks the second gate before the model, an invoice does not (`GateFull`). A crash
leaves the directory; the sweep of the next start lists it once and takes one name at a time.

### Schema, backup, parsers, model
`Schema` takes a statement, or a transaction, as a step and may crash between any two. `tables` maps a table to the
columns migrations added; what the code tests with `hasTable` and `hasColumn` it tests with those. In `Backup`
a file is a name, a time and whether it is whole. `InvoiceParsers` keeps of a physical line its kind and which fields
are numbers; `ParsedAsLaidOut` compares the parsers' buffers and look-ahead with a description of the layout that has neither.
`Classify` names an entry of the model's answer by its place in it, so that answers cannot be mixed up unseen.

### Review screen
A row is abstracted to the number of the edit it holds. `queued` and `flights` are the promise chain of
`lineUpdateQueue.ts`; `failed`, `failures` its map and counter; `resyncs` the GETs the modal sends after a
failed edit; `unsure` is an observer that remembers, with what the program cannot see, whether a failure
has been followed by a row that was read after it. `drain` is done in `PressCommit` itself when nothing is outstanding, since its promises
then settle in the microtasks of the click, and otherwise with the reply to the last edit it awaits (`Settle`). A commit's reply may be
lost, too: the import is committed and the dialog stays.
`ImportScreen` is the dialog around it: `kept` is the id in `localStorage`, `calls` what was sent. `crossed` observes that the
last answer to change the screen belonged to a dialog closed since, or came after something else was done.

### Form, lists, dialogs
A draft is its number; `writes` and `lost` observe how often the server wrote it and how many replies were lost. A list is its
version; `missed` observes the last version whose news was lost. `StockDialogs` keeps the server's rows of one item, the
device's copy, and the one request under way; `OthersChange` is whatever others do meanwhile.

## 4. Runs

| Run | Checks | Bounds, and why they are enough |
|---|---|---|
| `inventory_stock` | caps, references, conservation of stock | 2 items, 2 locations and unassigned, cap 1: rows fold onto empty and full rows, ids are given out again |
| `inventory_catalogue` | types, barcode uniqueness, cached prices | 2 items, 1 barcode, 2 purchases on 4 possible times over 2 days: ties, tomorrow's date, deletion of the latest and of the cheapest |
| `invoice_lifecycle` | an invoice once, references, committed records, freed keys | 2 uploads in flight of one document, of two or of one without lines; 2 imports; deleted items and categories |
| `invoice_commit` | what a commit adds to stock | 2 lines of one item, quantities 0..2 with cap 2, one location deleted and created again |
| `invoice_identity` | which item a line finds or creates, and its prices | 2 lines of one name, 2 names, 1 barcode, 2 prices |
| `access` | sessions: ended is ended, nothing outlives a sign-out, dead sockets dropped; the browser notices; lock-outs kept; guesses delayed; slots counted; the gate sound, a bounded pool, and every waiter runs | 2 logins, 2 keys, 2 auth requests at once, 3 epochs, 4 days with tokens of 2 and timers of 1; 2 submits at once, 2 household tokens and 1 device token in the browser; 2 buckets for 3 clients of 5 addresses; 4 guesses of which 1 is free; 6 handshakes of 2 clients under caps 2 and 3; 5 callers, 2 slots, 2 places to wait |
| `service` | schema after any crashes; no scratch file for ever, none taken from a live request; clean exits, shutdowns that end; gaps in the log; the last good backup; lines read as laid out and answered for themselves | versions 0..6 with 2 starts and 3 imports of one number; a PDF and an image on one slot with a planted link and 2 crashes; 3 entries over 2 weeks with a buffer of one line on a server that goes on, 2 on one that stops; 2 signals, 1 connection, 1 handler without a client; 4 nights, 3 copies, kept 1 day; texts of 4 lines in 2 categories; 3 lines in chunks of 2 for 2 workers, 4 items of which 3 may be offered |
| `client` | edit order, when Commit may be sent, that draining ends; the import on screen can be resumed, lists are explained; a draft is written once; a stock request changes what was shown | 2 lines, 3 edits; 2 imports, 2 dialogs, 2 requests at once; 3 drafts, 2 forms, 1 lost reply per draft; 2 versions of each list, 2 requests per list; 2 locations and unassigned, cap 2 |
| `fallback`, `late_resync`, `edit_while_draining`, `flush` | a finding each, section 7 | |

The smallest instance in which the case can happen is chosen for each part: two of whatever can be confused with each
other (two uploads, two lines, two dialogs, two keys, two weeks), and one more than a limit
(three clients for two buckets, five callers for four places, four guesses).

`CHECK_DEADLOCK FALSE` is said where the system may stop. Inventory and invoices may run out of the
ids the bounds allow; the review screen closes after a commit; a process that exits takes no further step; a part
whose clock and requests are used up is at rest.

Bounds such as `MaxItem`, `MaxImport`, `MaxEdit`, `MaxEpoch`, `MaxEntry`, `MaxModal`, `MaxAsk`, `LastDay`, `LastWeek` and `LastClock`
count things ever created, requests under way, or time; a request that would exceed one is not made. Each is marked "bound" where
it is declared. `QuantityMax`, `NameListMax`, `MaxBuckets`, `CapGap`, `MaxWait`, `MaxBuffered`,
`MatchMax`, `PerClientMax` and their like are limits of the program itself, made small. `Edited` and `Other` choose which fields
are edited and which other requests arrive during an import, so that each run can afford the part it is about; between the runs all of
them occur, but for stock requests during an import, which touch only what creating items, deleting
locations and other commits vary already.

## 5. Fairness

* `WorkGate`: a resolved promise resumes, and a gated task settles. The PDF worker has a
  deadline, a model call a timeout, image decoding a size limit. Nobody has to call `run`.
* `InvoiceImport`: time passes (`RetentionPasses`) and the daily timer fires
  (`PurgeAbandonedImports`). Nobody has to review, commit, cancel or finish an upload.
* `Sessions`: a timer that is due fires, while the process is up. Nobody has to use, revoke or close anything.
* `ClientSession`: the server drops a dead socket, what it sent on a connection that stays arrives, and a handshake that is
  possible again and again is made (strong: the link may break between). Requests need not be answered.
* `Shutdown`: the deadline fires, promises run, the stdout timeout fires and the disk takes the last lines. Requests may never end
  and the reader of stdout may stall for ever.
* `Uploads`: a handler goes on, because its worker has a deadline and the model a timeout, and the sweep goes
  through its names. A worker need not report, nobody has to upload.
* `LineQueue`: the browser runs its promises and a request is answered or fails. Nobody has to edit, and
  the reviewer need not press Commit; a resync may never be answered.

## 6. Proofs

TLC explores the instances above. The theorems hold for every value of the constants that satisfies the
modules' assumptions. For each component there is one inductive invariant, defined in its module and found with TLC
first; one lemma per action shows that the action keeps it, and the theorems follow from it.

| Proofs about | Module | Inductive invariant | Theorems |
|---|---|---|---|
| the gate | `WorkGateProofs` | `IInv` | `GateAlwaysSound`, `GateImplementsPool` |
| the inventory | `InventoryProofs` | `Inventory!IInv`, of which `Sound` is what imports keep too | `TypesKept`, `QuantitiesBounded`, `ReferencesAlwaysResolve`, `BarcodesUnique`, `PricesFollowHistory`, `StockIsKept` |
| invoice imports | `InvoiceProofs` | `ImportInv` | `ImportsKeepTypes`, `InvoicesStagedOnce`, `PricesStayRecorded`, `CommitsKeepTables`, `CommittedStays`, `SameNameAddedOnce`, `CommitsCreditLines` |
| who may call | `AccessProofs` | `SessionInv`, `LinkInv`, `LimitInv`, `BackoffInv` | `SignOutIsComplete`, `EndedTokensStayEnded`, `NoticeAlwaysUnderWay`, `SlotsAlwaysCounted`, `GuessesAlwaysDelayed`, `LocksAreKept`, `AccessAlwaysTyped` |
| the review queue | `LineQueueProofs` | `QueueInv` | `EditsApplyInOrder`, `CommitsKnowTheRows` |
| the screens | `ClientProofs` | `ScreenInv`: `QueueInv`, `FormInv`, `ImportScreenInv`, `ViewInv`, `StockInv`; `RequestMeant` | `ScreensKeepTypes`, `DraftsWrittenOnce`, `ScreensExplained`, `ShownIsChanged` |
| the rest of the server | `ServiceProofs` | `ServiceInv`: `StopInv`, `GapInv`, `UploadInv`, `BackupInv`, `SchemaInv`, `ClassifyInv`, `ParseInv`, `LayoutInv` | `ServiceTyped`, `AnswersBelong`, `RoomForEveryBest`, `InvoiceAsLaidOut`, `GapsTold`, `ExitsClean`, `EndAlwaysUnderWay`, `LastBackupKept`, `OpenedIsLatest`, `LiveFilesSpared` |

**The gate** (from `GateAssumption`: at least one slot, a natural queue length). `IInv` is the conjunction of four
properties none of which is inductive alone: `SlotsAccounted` needs `WaitersQueuedOnce`, because a hand-over must move
one holder out and a *new* one in; that needs `TypeOK`; and `NoIdleSlotWhileWaiting` needs the counter to be exact
when a slot is given back. `GateImplementsPool` shows, step by step, that the gate with its counter implements
`BoundedPool`, where slots are counted by looking at who holds one.

**The inventory** (from `InventoryAssumption`: bounds and caps are natural numbers, prices positive, NULL is none of the
values). The invariants the runs check depend on each other:

* `QuantityInBounds` survives the deletion of a location because its guard looks at the rows of items that exist,
  and `ReferencesResolve` says that only they have rows (`FoldedStock`).
* `ReferencesResolve` and `PricesAgreeWithHistory` survive the creation of an item because
  `IdsIssued` says that its id was never used, so no row and no purchase is waiting for it.
* `TypeOK` survives a recalculation because a nonempty history has a latest and a cheapest entry; that a latest
  one exists needs the bound on dates and ids in `IdsIssued`.
* `PricesAgreeWithHistory` says what the cached prices are without the operators that compute them. The actions keep `PricesCurrent`, that the
  prices are what `LastPrice` and `LowestPrice` compute; that these are the latest and the smallest is shown from their definitions.
* `BarcodeUnique` needs only the guards and the types.

`StockIsKept` needs only the types: a move and the folding of a deleted location's row change two rows of an item, one by what the other
loses, so two terms are taken out of the sum over the places and the rest is the same sum (`TransferKeeps`).

**Invoice imports** (from `ImportAssumption` and `RowAssumption`: what is printed are sequences of rows, documents and ids are
not NULL). `ImportInv` takes from the inventory `Sound`, all of its invariant but the agreement of the last price with the
latest purchase, which a commit does not keep (hazard at `routes/invoices.js:353`); `PricesRecorded` takes its
place. `NextUnused` makes a staged id a new one. A commit is a recursive function over the lines in the order of their ids: the
lemmas about `CommitLine` show that one line keeps the tables sound, and induction over the lines that
all of them do. `SameNameAddedOnce` has an induction of its own: an item that an earlier line has inserted
is the one hit of a later line of that name. `CommitsCreditLines` has one too: what the first k lines credit a row is the
sum of those of them that went to it (`Credited`), and the next line adds itself to one sum and to one row.

**Sessions** (from `SessionAssumption`). `NothingOutlivesSignOut` is inductive only with `FingerprintCurrent`, because a start with another login
or key bumps the epoch only when the recorded fingerprint was that of the tokens' key, and with
`SessionsKnown`, because disconnecting what was issued must leave no socket. `EndedForGood` then follows
reason by reason: expiry, revocation, an older epoch, another key. In the browser the socket is up exactly while
the inventory is on screen, whatever calls of `handleSubmit` end meanwhile (`LinkInv`); hence the safety part of `SessionNoticed`,
`NoticeUnderWay`: nothing leaves a browser that shows the inventory with a socket that will hear nothing more.
**Limits.** `SlotsCounted` counts finite sets of sockets, so each step adds one element to a set it was not in or removes one that was
in it (`HandshakesOnce`). `GuessesDelayed` needs `DoorBehindLastStart`: the door stands a gap behind the last start, and a gap is
a recursive function, bounded by induction. `LockoutKept` needs no more than the types and what a rebuilt table keeps.

**The review queue** (from `QueueAssumption`). Edits of a line are in order from the server's row over the one request under way to those that
wait (`EditsInLine`), hence `AppliedInOrder`. `FailureRemembered` says that a line whose fate is unknown is in the queue's map with a
number of failures no older read can match, hence `CommitWhenSure`.

**The screens.** Only one save is under way per form and it holds the form's lock (`OneSave`, `WritesCounted`), hence
`WrittenOnce`. An answer speaks of an import that is on screen, closed or crossed (`CallsMeanImports`); a list's answers
are never newer than the list (`NothingNewer`). A stock request that leaves its place to the server was made from the total, any other
from the row of its place (`RequestMeant`); the server resolves the former only while the item has at most one row, which then
is the total, hence `ChangesWhatWasShown`. That needs the locations to be finitely many (`StockAssumption`).

**The rest of the server.** After the close of the server only handlers whose clients have gone log, and the streams they open are neither awaited
nor of an earlier week (`FlushedLast`): an entry in a buffer that `flush` does not await is a late one (`Late`) or of a week that was
over, and once the flush is done no other is left. Hence `CleanExit`. `UploadInv`
relates the files to the requests (`LiveFiles`): a request that is handled has its file, written since the start,
and the sweep takes only older ones. In `BackupInv` names differ, a free one always exists within
the bound (`NamesLast`: fewer files than copies started, and one), and a copy under way is the only file of its name. `SchemaInv` says
what a version number, and where opening stands, tell of tables (`TablesAsApplied`), stock (`StockAsApplied`) and keys
(`KeysAsApplied`); a crash may lower what is counted as applied by one, never what is there. That the
key goes to one import of each number, a committed one if any is, is `KeysMade`. In `ClassifyInv` a chunk that was taken is held by a worker
or stored (`ChunksAccounted`), so when the workers are over all are stored; all chunks but the last are full, so the joined answers are
one per line and each has the index of its line in its chunk (`AnswersInOrder`). The items chosen are those of the longest prefix of the
rounds that fits, and the first round has at most one item per line (`ChosenBounded`, `BestOffered`). `ParseInv` gives the types of what the
parsers buffer and find, for Coles by induction over the lines the fold goes through (`ColesTyped`).

*The layout.* `ParsedAsLaidOut` says that the records found are those of the products of the text, each with the hint that stands above it, in their
order. `LayoutInv` says it of the text so far: what has been found are the products that are over, the buffer holds the one that has
begun and not ended (`Begun`), and the hint known is the one the next product gets. Each line ends at most one product (`OneMoreProduct`,
`NoProduct`), and a product that begins later gets the same hint whatever follows (`HintKept`). Coles is a fold over the whole text and
is proved line by line in the same terms (`ColesLaidOut`); what remains in the buffer at the end of a Woolworths text is
the last product (`Ended`).

*The log.* `GapsExplained` compares entries any distance apart; `Linked` compares neighbours and is what a write keeps: the last line
is an entry, and with the number of drops since it gives the number of the last call (`UpToDate`), so the entry to be
written, with the record of drops before it, fits on (`LinkedMore`). For the copy on stdout that is all (`CopyInv`). The files are one
sequence when the weeks' lines are joined, those on disk, those of an ended stream and those of the open one: a line that lands
moves within its week (`HeadTaken`), an entry is added to the last week that has lines (`FlatMore`), and `pruneOldLogs` takes a beginning
(`FlatCut`). The last needs `FilesInOrder`: a file is not written to any more once a later week's is open, but for the week in
which that happens, so of two files the earlier was written last no later than the other was opened, and goes first. It needs
`StreamsInOrder`, too: at most one stream holds lines of a week (`Holds`). `GapsExplained` speaks of the time until the call of `flush`.

**Recursion.** What `kept`, `doubled` and `LinesCommitted` compute is proved by induction, with the lemmas of `RecursionLemmas`: a nonempty set of
natural numbers has a least element, hence an inductive set holds all of them, hence a function that is defined by recursion exists and
satisfies its equation. Induction is stated over sets, since the provers cannot instantiate an operator. `RemovalExists` is the same for a recursion
that takes the elements of a finite set away one by one, as the folds of the community modules do; `Joined` for `FlattenSeq`,
of which `FlatMore` and `FlatCut` say what it is when one of the sequences grows or the first are emptied.

**Sums.** The library's theorems about folds take operators, so `RecursionLemmas` starts from what a fold is: `SumOver`
is the recursion over the subsets of a set that `MapThenSumSet` stands for when its definitions are expanded. By induction over finite sets the
recursion exists, has one value, and gives the same whichever element is taken first (`SumsTake`); so a sum is one of its
terms and the sum of the rest (`SumTake`), which is all the theorems about stock use.

The assumptions are those that the modules declare: bounds and limits are natural numbers, positive where the program divides by
them, counts down from them or never sets them to 0, and values such as NULL are none of the proper ones.

Only model-checked is

* all liveness (`EveryWaiterRuns`, `KeyFreed`, `DrainReturns`, `DeadSocketsDropped`, `SessionNoticed`, `ShutdownEnds`,
  `ScratchFreed`): liveness under fairness and ENABLED are out of the prover's reach. Of `SessionNoticed` and `ShutdownEnds`
  the safety parts are proved: something that ends the wait is always ahead (`NoticeAlwaysUnderWay`, `EndAlwaysUnderWay`);
  that fairness then gets there is TLC's to say.

Every invariant and every action property a passing run checks is a theorem.

## 7. Findings

Four runs end in a violation of what the repository says of itself.

* `fallback`: deleting a location (or category) the reviewer chose for a line clears the choice but not
  the fact that one was made; the commit then books the line at the *suggested* location, although the code's
  comment promises that only a line that was not overridden falls back.
* `late_resync`: the answer of the GET after a failed edit is shown whatever happened since; an edit saved meanwhile
  disappears from the screen although the server has it, and Commit is enabled.
* `edit_while_draining`: while Commit waits for earlier edits the fields stay enabled; an edit made then is not
  waited for, so the commit, sent with the reply to the last of the earlier ones, overtakes it.
* `flush`: the log's `flush` awaits the stream that is open; one that was ended by the change of week and still
  writes is not awaited, although the comment says that every accepted entry is on disk.

What the models show besides, where a property has to name an exception:

* `ReviewResumable` holds but for `crossed`: an answer that belongs to a dialog closed since, or to something done before,
  still writes or clears the id kept to resume by, and a late commit closes the dialog opened after it.
* `StaleExplained` holds but for `missed`: nothing is fetched when the socket reconnects, and an older answer may replace a newer one.
* A device token minted by a request that was authenticated before a sign-out and inserts after it is one of the new
  epoch; `NothingOutlivesSignOut` is about what was inserted before.
* `SessionNoticed` is about the token the socket carries. Of two logins that overlap, both with the box ticked, the later reply replaces the stored token
  and the socket keeps the first one's: the end of the stored token reaches an idle screen only with its next request.
* `CleanExit` vouches for the entries logged before the server had closed. A handler whose client has gone (an upload that
  awaits the model, say) is cut off by an exit with 0, and what it logs during the flush may be lost. It also leaves out a stream ended
  when its week was over, the finding `flush`.
* A late 401 ends whichever session is stored by then (`Receive401`).

## 8. What is left out

* Validation of request shapes, HTML escaping, length limits: the models' inputs are what passes it.
* `PATCH /api/items/:id/ignore-grocery`, `updated_at`, vendors and descriptions: nothing that is modelled reads them.
* A failing `unlink` of a scratch file, which is logged and leaves the file to the sweep of a later start: `Uploads` removes what
  it is told to.
* React's own scheduling: a state change, its commit and its effects are one step, and so is a handler up to its first `await`.
* Photos and their serving: a photo is a file that is read with a signed link; the model of uploads ends with the answer.
* The characters of an invoice: fields are texts or numbers. Joining a document's fragments into lines is the PDF library's and
  `pdf-worker.js`'s, and sequential.
* The score of a fuzzy match: any answer.
* More than one tab of a browser: `localStorage` is one page's.
* The detail view and the edit form of an item: they send what `Inventory` models; the detail view is not refreshed by broadcasts.
* The fields of a review line keep what was typed in a state of their own; `LineQueue` shows a line as one row.
* Camera, cropping, barcode and label scanning, the display of a review line, visual variants: device work and pure display.
* Configuration and the operator's scripts: sequential, run at start or by hand; what they set are constants here.

## 9. Plan

1. Done: the models of sections 3 and 4; the proofs of section 6.
2. Next, if a run can be freed: the fields of a review line beside `LineQueue`, and the detail view beside `InventoryView`.
