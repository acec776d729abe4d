# LocalDrive: specifications, checks and proofs

LocalDrive is a self-hosted file store: a Go server (`src/app.go`, `src/src/`) with a MySQL database
(`src/sql/`) and a directory of stored files, and a React client (`src/frontend/`). This directory holds
TLA+ specifications of it, TLC configurations that check them on small instances, and theorems about
them proved with TLAPS. `PROJECT.json` maps every definition to the lines it models and lists the runs,
the mutants that each property kills, the findings, the hazards and the theorems.

    tlc -config UploadAny.cfg MCUploadSession.tla     # one run
    tlapm UploadSessionProofs.tla                     # one proof module

## 1. The system

### Components, their state and their operations

| Component | State | Operations | Module |
|---|---|---|---|
| Chunked upload (`api/file_handler.go`, `api/mutex_map.go`) | `uploadSessions` (upload id to `chunkInfo` with `Dir` and `ChunkIndexes`), `uploadMutex`, temporary chunk files, the stored file, the row's `UploadStatus` | `UploadGenerateId`, `UploadFileChunk`, `UploadFileComplete`, `UploadFileStatusFailed` | UploadSession |
| File table (`db_gateway/file_gateway.go`, `file/file.go`, `sql/scripts/00.testdb_setup.sql`) | rows: name, extension, type, parent, `DeletedOn`, `UploadStatus`, `UniqueHash`; `FileUniqueIndex` | insert, rename, soft delete, restore, two status updates; queries | FileTable; the queries in FileStore; status and index also in UploadSession |
| Other file handlers (`api/file_handler.go`) | none of their own | `PostAddFolder`, `RenameFile`, `DeleteFile`, `RestoreDeletedFiles`; `GetFiles`, `GetFolderBreadcrumbs`, `DownloadFile` only read | FileTable for what they write, FileStore for their requests and answers, UploadClient for `DownloadFile` |
| Accounts and sessions (`api/user_handler.go`, `api/session_handler.go`, `db_gateway/user_gateway.go`, `session_gateway.go`) | rows of `UserAccount` and `Session`, the cookie of each browser | register, login, logout; ageing of sessions and cookies | Sessions |
| Routes and middleware (`app.go`, `api/api.go`, `api/handler_utils.go`) | request context, `Set-Cookie` of the answer | `CreateAuthMiddleware` | Sessions; `FailRouteAuth` of UploadSession |
| Browser upload client (`file-uploader.ts`, `StorageHome.tsx`) | where the loop is, `chunkIndex`, the answer it awaits | generate, chunks, complete, fail | UploadClient |
| Browser file cache (`context/FileStore.ts`, row buttons, dialogs, pages) | `files`: a list per folder and one of the trash; the open page | `setFiles`, `setFilesTrash`, `addFileResponse`, `addFolder`, `replaceFile`, `removeFile` | FileStore |
| SQL builder (`sqlquery/`) | the arguments and condition nodes of a chain | `Select`, `Update`, `InsertInto`, `Args`, `Where`, conditions, `Build` | SqlBuilder |
| Row scanning (`db_utils.go`) | none | reflection | not modelled |
| Disk writer (`diskreadwriter/`) | none; no handler calls it | buffered copy | not modelled: dead code of the server |
| Hashing, configuration, server start | none that interleaves | | not modelled: a wrapper of argon2id, environment variables, `net/http` |
| Pages (`Login.tsx`, `Register.tsx`, `middleware.ts`, `Breadcrumbs.tsx`) | form state | what they call is in Sessions | not modelled: layout and forms |

### How they interact

Every HTTP request runs in its own goroutine. The upload handlers share plain Go maps, the disk and the
File table. One mutex per upload protects the part of `UploadFileChunk` between `MutexMap.Get(...).Lock`
and its deferred `Unlock`; nothing protects the maps, the checks before the lock, `UploadFileComplete` or
`UploadFileStatusFailed`. A row is inserted as `pending` before its session exists. The row's status, the
session, the chunk files and the stored file change at different moments, and each change may fail.
The auth middleware reads the session before a handler runs and renews the cookie with the id the
request carried. The browser waits for each answer of an upload; the pages of one browser share its cookie.
The pages of one document share one store of lists, which is filled by one request per list and then edited by
hand with the answers of everything the user does. The gateways build a part of their statements with
`sqlquery`, whose text and arguments are two lists that only their order ties together.

### What is hard, and what correctness means

* *Upload.* Requests of one upload overlap; a session is dropped while another request still works for
  it; a copy of the session is written back after it was dropped; the server stops between a row and the
  file it describes; a failed row may still be completed. Correct means: a pending row can be resolved
  as long as the server runs, no mutex stays locked, a merge takes only chunks whose bodies were read to
  the end, a completed row has all its bytes, and names stay unique.
* *File table.* Each statement is atomic, but long sequences of legal requests move files between
  folders, the trash and the root while uploads fail and succeed late. Correct means: folders form no
  cycle, `UniqueHash` follows the name and the place, and no two files of a folder have one name.
* *Sessions.* An account has one session row; logins, logouts and other requests of several browsers
  overlap and their answers may overtake each other. Correct means: a handler acts for the account its
  browser signed in to, an ended id never comes back, a logout ends only its own session.
* *Upload client.* Connections break while handlers run on; the loop ignores the answers to its chunks; the
  number of chunks is computed in three places. Correct means: no request of an upload meets another one, what
  is shown is whole, an upload that nothing disturbs completes, and every upload ends for its user.
* *Browser cache.* Lists are fetched, changed and replaced by callbacks in any order. Correct means: where no
  fetch overlapped a change, each entry of the table is shown once, under its name and in its place.
* *SQL builder.* Placeholders and arguments are collected at different moments. Correct means: each value gets
  to the column it was given for.

`PROJECT.json` lists these hazards one by one, at the line where each bites.

## 2. Modules

### UploadSession

One upload id stands for the id of `UploadGenerateId` and for the row inserted with it. An element of
`Requests` is a goroutine with a program counter (`pc`) and its locals; one action is one stretch of a
handler between two effects that another goroutine could see: a lock, a database statement, a file
operation, a change of a shared map.

| Code | State and actions |
|---|---|
| `UploadGenerateId` (161) | `GenerateInsert`, `GenerateRegister` |
| `UploadFileChunk` (254) | `ChunkAdmit`, `ChunkGetMutex`, `ChunkLock`, `ChunkDir`, `ChunkTemp`, `ChunkRecord`, `ChunkFail` |
| `UploadFileComplete` (396) | `CompleteAdmit`, `CompleteCreate`, `CompleteMerge`, `CompleteUpdate`, `CompleteForget`, `CompleteClean`; errors: `CompleteCreateFail`, `CompleteAbort`, `CompleteMarkFailed` |
| `UploadFileStatusFailed` (512) | `FailAdmit`, `FailMark`, `FailDrop` |
| `uploadSessions`, `ChunkIndexes`, `uploadMutex` | `sessions`, `chunks`, `mutexOf`, `locked` |
| File row, chunk files, stored file | `status`, `disk`, `stored` |
| `NewFileHandler` after a stop of the server | `Crash` |

Decisions a reader should know:

* The session lookup and the checks before the lock are one step; `dirSeen` remembers whether the copy of
  `chunkInfo` taken there had a `Dir`, and `ChunkDir` writes that copy back as line 332 does.
* `stored[u]` maps each position of the stored file to the chunk file whose bytes it holds, to `NoFile`,
  or to `Torn` for a chunk that was read while being written. A chunk sent again with another length
  would shift what follows; the model takes a repeated chunk to have the length of the first.
* `os.CreateTemp` never returns a name the server still knows. Every disk, database and remove operation
  may fail; an operation reported as failed had no effect (a commit that took effect although an error
  was reported is the crash right after it).
* Go maps used without a lock are modelled as atomic accesses; the fatal error the runtime may raise for
  concurrent map writes is `Crash`.
* A body is as long on its way as its client likes: the server sets no read timeout (`server.go:30`), so nothing
  says that a request in `pc = "copy"` ever leaves it, although it holds the mutex of its upload.
* `lost` records uploads whose row the server left pending for good: a crash, or a failed last update. It
  is read by properties only.
* The removals of lines 466 and 480 are one removal. A chunk is a unit: sizes inside it are left out.
  Renames and deletes during an upload are in FileTable only.
* `Awaits = TRUE` adds what `file-uploader.ts` does: it sends the next chunk, or the completion, after the
  previous answer. `net/http` keeps these short answers in its buffer until the handler returns, so the
  client cannot overlap even the clean-up of a completion. The fail route may still overlap anything.
  `Awaits = FALSE` is any client.
* `FailRouteAuth` says whether the fail route has the auth middleware. In `app.go:176` it has not, and the
  handler answers 401; UploadClient has it FALSE, the runs of the handler itself set it to TRUE to cover its code.

### UploadPromise and UploadRefinement

UploadPromise is what uploading promises the owner: a file is uploading, available or failed; no two
uploading or available files have one name; an available file has all its bytes; no upload goes back to
uploading. It has no requests, chunks, mutexes or crashes. UploadRefinement maps a row and its stored file
to that view (`Offer`): a completed row whose file is not whole maps to "broken", which UploadPromise has
not, so the refinement includes the wholeness of every completed file.

### FileTable

The table of one account. Every action is one statement, which `execQuery` runs in a transaction of its
own; the reads after it change nothing. `Names` stands for the text of name and extension as the hash joins
them. `RenameFile` writes the new name to `FileName` as a bound parameter, but its hash is made of the name as
it stands between quotes in the text of the statement (lines 269 and 274), where MySQL applies its escapes. `Read[n]`
is the set of texts MySQL may read there for the name n: n itself for a plain name, another text for one with an
escape (which one depends on where its extension begins), none for one that ends the literal early, so that the
statement is refused and the rename answered as an error. Uploads and folders hash the name itself (`HashString`).
Names after which the statement would be another one that MySQL accepts are left out. Parent ids come from the client unchecked, so a row may name a file, a trashed row or a missing id
(`Missing`) as its parent; ids themselves are made by the server. `UploadCompleted` and `UploadFailed` may
hit any file row at any time, which includes everything UploadSession does. `RestoreDeletedFiles` restores one
id, as the handler does, and its COALESCE is `LiveParent`. `ModifiedOn`, sizes and paths are left out; so are
texts that end in a uuid.

### Sessions

A request goes from a browser (`Send...`) through its handler to an answer that is delivered or lost, so
`Deliver` applies answers of one browser in any order.

| Code | Actions |
|---|---|
| `PostRegisterUser`, `AddUser` | `Register` (with `AddUser`), then `Upsert` or `UpsertFail` |
| `PostLogin`, `ValidateUser` | `LoginByCookie` (a live cookie answers at once), `LoginCheck`, then `Upsert` or `UpsertFail` |
| `ValidateSessionAndGetUser` | `Live` |
| `CreateAuthMiddleware` | `Authenticate`, with the cookie renewed (`RefreshedCookie`) |
| handlers behind it | `Logout`, `LogoutFail`; `Serve` for every other |
| `MaxAge` and `ExpireOn` | `CookieExpires`, `SessionExpires`, at any time |
| broken connections, the panic on a nil session in `PostLogin`, a stop of the server | `Lose` |

Account and username are one (the username is UNIQUE). The password is a choice: a check of a known user may
succeed or fail. `owner`, `holder` and `signedOut` are history for the properties, except that `NewIds` reads
`owner` for the freshness of `uuid.NewString`. `GET /api/session` changes nothing and is left out.

### UploadClient

UploadClient extends UploadSession. Its actions conjoin the handlers' actions with what the browser does, so a
call that a handler admits is the handler's `...Admit`, and the answer is heard in the step in which the handler
returns (`Hear`). One client per upload, each run once.

| Code | Actions |
|---|---|
| `newRequestBody`, `generateUploadId` | `StartUpload`, `RejectUpload` (the exception leaves the loop, no id to fail) |
| `uploadChunks` | `SendChunk`; `ChunkRefused` (an error answer: the loop does not look at it) |
| `completeUpload`, `upload` | `SendComplete`, `CompleteRefused` |
| a rejected `fetch` in any `await` | `LoseConnection`: the handler runs on without a listener |
| `failUpload` | `FailUpload`: the route has no auth middleware, the answer is 401 |
| the handlers | `HandlerGoesOn`, `HandlerLocks`, `HandlerStumbles`, `HandlerCompletes`, `HandlerSucceeds`, `HandlerFails` |
| a stop of the server | `ServerCrash`: every connection breaks |
| `DownloadFile` | `AskDownload` (the row), `OpenDownload`, `CopyDownload` (one chunk of `io.Copy`), `EndDownload` |

A download keeps what the row said when it was read (`seen`) and reads the stored file as it is at each copy.
`GetTotalChunks` and `MoreToSend` are the arithmetic of the code on sizes in bytes; that they agree with the
server's count of `ChunkIndexes` is what `UntroubledCompletes` and `ShownIsWhole` are about. `trouble` is history.
A request may be refused at any time (a session that ended), which counts as trouble.

### FileStore

FileStore extends FileTable: the statements of a served request are the table's actions. A call goes through
"sent", "written" (only where the handler goes on after its statement) and "answered" or, with an error, "refused";
between any two any other step may come.

| Code | Actions and operators |
|---|---|
| a new document; the links of the menu and the breadcrumbs are plain `<a href>` | `Load`: the store is emptied, the page fetches its list |
| `navigate`, the history | `Open`; `Fetches` is the test `key in baseFiles`, which the trash does without |
| `getFiles`, `addFileResponse`, `removeFile`, `replaceFile`, `getParentIdUndefined` | `GetFiles`, `Added`, `Removed`, `ReplaceFile`, `FolderOf` |
| what the user clicks on a row the open page shows | `ClickAdd`, `ClickUpload`, `ClickDelete`, `ClickRestore` |
| `renameOnClick`; the form's submit; Cancel, Escape, a click beside the form; `onClose` after an answer | `OpenRename`, `SubmitRename`, `CloseRename`, `FormEnds` |
| `GetFiles`, `PostAddFolder`, `RenameFile`, `DeleteFile`, `RestoreDeletedFiles`, the upload handlers | `ServeList`, `ServeAdd`, `ServeRename`, `ServeDelete`, `ServeRestore`, `ServeGenerate`, `ServeUpload`; `ServeReadBack` for the read after a rename or restore; `ServeError` |
| the code after each `await` | `ReceiveList`, `ReceiveAdded`, `ReceiveRenamed`, `ReceiveDeleted`, `ReceiveRestored`, `ReceiveError` |
| a rejected `fetch` | `GiveUp`, with the request still on its way (`deaf`) or not (`LoseRequest`) |

* A list is a bag of file objects: its order is not modelled, so `replaceFile`, which changes the first object of
  an id, changes any one. `keys` holds the keys of `files`, `arrays` those that hold an array: the others hold
  `undefined`, which is what an error, or an empty list whose `output` is omitted by `omitempty`, leaves there; only
  the trash gets `[]`. `cache` has the objects of a key, none where there is no array.
* The upload is two steps of the table here; its inside is UploadSession and UploadClient. `NewRow` is the object
  both adding handlers answer with: the row as it was inserted.
* A rename is several steps of the user. `form` is the row whose rename form is open: `StorageHome` keeps it in
  `fileId`, and React keeps one `StorageHome` for the root, the folders and the trash, so the form stays open
  while the history leads to another page. The submit takes the `params.folderId` of that page. An answer of a
  form closes the one that is open (`FormEnds`), unless `StorageHome` has started anew since.
* The effect that fetches depends on `params.folderId` only: between the root and the trash, and from a page to
  itself, `Open` fetches nothing unless `StorageHome` starts anew (as after a login). So the trash page may
  show the list it had before, and is relied on only when its list has arrived since it was opened.
* The tab is the only one of its account. With a second tab a list is stale as soon as the other changes
  something, and nothing in the code claims otherwise.
* `loaded`, `raced` and `doubtful` are history, and say for what the code can be right. `raced` holds a list that
  was fetched while a change of it was awaited, and an entry changed by two calls at once; `doubtful` holds an
  entry changed without the tab being told (a broken connection, an error after the effect) or renamed from a page
  that does not show it, or from the trash. Outside of these the lists must be exact. Inside, they are not: a list answer that overtakes an
  upload drops or doubles its file; `addFileResponse` for a folder never opened makes the key, so that the
  first visit shows only that file; a rename sent from another page, or from the trash, puts the row into the list of that page's folder, or of
  the root, where it is not, and leaves the old name in its own; it throws where there is no array. These are listed as hazards.

### SqlBuilder

A placeholder is modelled as the argument it was written for, so the property compares two sequences. The chain is
in the order its types allow (`Args` before `Where`, conditions after it), with And or Or between two conditions, as
all callers write it, and possibly more of them before, between and after. `Exists` takes the text and the
arguments of a SELECT that was built before. A chain may be built twice, and after `Build` more conditions may
be added. Two boundaries are kept out of `ArgumentsInPlace`, and no caller meets them: `Is` adds its text to the
arguments although it writes no placeholder, and `InsertInto` without arguments writes a row of placeholders
(`AddFile` returns `NoFileArgsErr` first). The length of an UPDATE's `Args` is the caller's duty.

### MC modules and proofs

`MC*.tla` give constants their values and define symmetry; SqlBuilder needs none. `*Proofs.tla` hold the theorems,
each over the module it is named after; those of FileStore are in two: FileStoreProofs has the types, the calls under
way and the step to FileTable, FileStoreListProofs, which extends it, has the lists.

## 3. Runs

| Run | Question | Result |
|---|---|---|
| upload_any | Two requests of any client overlap on one upload of two chunks, with errors and a crash | `TypeOK`; `PendingIsServed`: while the server is up a pending row has its session, or is lost; `LockedExactly`: a mutex is held by exactly the request in its section; `MergedPiecesWhole`: no position of a stored file ever holds bytes of another index or of a half-read chunk |
| upload_awaiting | The same for a client that awaits its answers, any index from -1 | `CompletedIsWhole`, `SessionChunksOnDisk`, `CompletedStays` |
| upload_live | Does every request return? | `RequestsReturn` under fairness: it is answered, or for ever held up by one body that does not end, its own or that of the chunk whose mutex it waits for |
| upload_refinement | Two uploads of one name, of two chunks and of one, with retries, errors, a crash | `PromiseKept` |
| file_table | Two folders and two files, a plain name and one with an escape, any sequence of requests | `FoldersAcyclic`; `HashTracksRow`: a hash is of the name or of what a rename made of it, and of the folder; `NamesDistinctInFolders`: for every name that is read as itself |
| sessions | Two browsers, two accounts, two requests under way | `CookieIsOwn`, `ActsForItsAccount`, `EndedForGood`, `LogoutEndsItsOwn` |
| upload_client | Two browser clients, a file of two chunks and an empty one, broken connections, errors, a crash, a download | `AwaitsKept`: the system implements UploadSession with `Awaits = TRUE`; `ShownIsWhole`, `UntroubledCompletes`, `DownloadsWhole`; `UploadsEnd` under fairness |
| drive | One tab over a folder and a file, two calls under way, a rename form that is open from page to page | `LoadedShowsAll`: a fetched list shows every completed entry of its folder; `ShownIsThere`: what is shown is there under that name; `NothingShownTwice` |
| sql_builder | Two chains of up to two columns, two conditions and lists of three values | `ArgumentsInPlace`, `ConditionsJoined` |
| restored_names, logout_cookie, fail_route | What comments of the code claim | violated, see 5 |

Bounds. Two requests are the smallest number that interleave, and every pair of handlers is covered.
A third would add a third mutex holder; the proofs below do not depend on the number. Two
chunks are the smallest file with an order and a missing piece; indexes go from -1 to 1 where a negative
index matters and from 0 to 1 elsewhere. Two tags let a chunk be sent again while the first copy exists.
Three mutexes are enough for one in the map and one for each request (`NewMutexes` is never empty when a
request needs one). `MaxCrashes` is 1, and 0 for liveness: every crash leads to a state with an empty memory,
and the states of rows and disk it leaves behind are the start of later requests. Two files and two folders
can form every pair the table's index compares and every cycle of up to two folders; folders get one name
(`FolderNames`), since nothing depends on the name of a folder, and states with three or more entries in the trash are not continued
(`FewTrashed`): a restore reads two rows, an entry and its folder, and the index does not read `DeletedOn`. Of the two names one is plain and one is read as the other where a
rename spells it out; a name that breaks the statement would only add renames that do nothing (the proofs take
any `Read`). Two session ids give each account or device a
session and let one replace another; when they are used up `Upsert` can only fail.

upload_client takes a file of 3 bytes in chunks of 2, so the last chunk is short, and one of 0 bytes; two requests,
so that a handler that lost its client is still there when the next one arrives. In drive `MaxClicks` bounds the
changes asked for and the documents loaded after the first, `MaxLost` the broken connections and misreported
effects. Opening and closing the form costs nothing, so two clicks allow a restore or a trash and a rename of one
entry under way together, or an add into a folder that was fetched and one that was not. The table starts empty or with what former sessions left in it (`FormerInit`: the folder and a photo in it, or the photo in
the trash), which replaces the
clicks that would build it. The constraint `FewRaces` stops behind states with two exempted keys or entries:
with a folder and a file little is then left to say. In sql_builder two conditions have one place to join, three
values fill one row and a half of two columns (refused) or three rows of one, and the second chain can hold the
first in EXISTS.

Deadlock is checked for FileTable, FileStore and Sessions. The upload runs switch it off: each upload id is used
once, and the model stops when the clients do. So does sql_builder, whose chains are bounded.

Fairness (`FairSpec` of UploadSession). Weak fairness of `pc[r] # "copy" /\ Work(r)`: the Go scheduler runs every
goroutine that can run, and every operation on the disk or the database ends in success or error. Strong fairness of
`ChunkLock(r)`: a `sync.Mutex` in starvation mode hands itself to a waiter. Clients owe nothing: there is no fairness
on `Arrive`, none on the steps that end `io.Copy(chunkFile, r.Body)`, and none on `Crash`. Therefore `RequestsReturn`
has its second half: a client that stops sending may hold the mutex for ever, and then the chunks that wait
for it wait for ever too, which is what the code does; it says that nothing else can hold up a request.
`ClientFairness` of UploadClient has weak fairness of `ClientStep(u)`, since the event loop of the page runs a
continuation that is ready, and of the handlers with the end of the copy: the page sends a body it has, and if its
connection breaks the read ends with an error (keep-alive probes end a connection whose peer is gone). Nothing obliges a user to start an upload, a connection to break, a server to crash or a download
to go on.

Every property is broken by at least one mutant of the code listed in `PROJECT.json`: an unlock that is
forgotten, a session that outlives its upload, an index that covers completed files only, a hash that is not
computed again, a login that keeps the id of the row, and so on. The mutants stand in the modules before the
definitions they replace, each under a comment that begins with "Mutant".

## 4. Proofs

Theorems hold for every value of the constants that satisfies the named assumptions of the module: for
uploads that indexes are integers which cover the announced chunks and that the markers (`NoFile`, `Torn`, ...)
are no values of their types; for the table that folders are entries, that root, missing ids and entries
are distinct, and that a name is read as any set of names (`Read`); for sessions that `None` and `Keep` are no ids; for the browser's lists that `Trash` is no entry,
`Free` no call, and that a parent is a folder or the root (`Missing = {}`: the pages send no other). What is said of
the lists starts from any table that former pages may have left (`FormerTable`: a row has a name, and a folder or
the root as its parent), which covers both initial states of the drive run.

| Theorem | States | Argument |
|---|---|---|
| TypeCorrect, TableTypes, SessionTypes | types | one step per action |
| PendingServed | `PendingIsServed` | `PendingInv` adds that a request about to drop a session has settled the row or lost it; it needs `RowFirst` (a session has a row) |
| LocksExact | `LockedExactly` | inductive with the types |
| MergesWholePieces | `MergedPiecesWhole` | `ChunkFlow` follows a chunk from its temporary file, which is the request's own while it is copied, over `ChunkIndexes` to the stored file; `disk` of an indexed chunk is never "partial" |
| CompletedFilesWhole (assumes `Awaits`) | `CompletedIsWhole` | `OneAtATime` (no two chunk or complete requests of one upload), `FreshIndex` and `MergeProgress` (the loop has copied every position before it), `Finished` (a completed upload is only being cleaned up and its session is about to go) |
| SessionsHaveTheirChunks (assumes `Awaits`) | `SessionChunksOnDisk` | `OneAtATime` and the chunks a session counts: only its own completion removes them, and then the session goes |
| CompletedRowsStay (assumes `Awaits`) | `CompletedStays` | `OneAtATime`, `Finished`: after a completion no request of the upload but a fail request writes its row |
| ClientTypes | `ClientTypeOK` | `ClientInv`: the awaited handler serves the client's own call, and every chunk or complete handler of an upload is the awaited one unless its client is past sending |
| ClientAwaits | `AwaitsKept` | from `ClientInv` a client that may send has no handler left at work, so each of its steps is a step of UploadSession with `Awaits <- TRUE` |
| ClientFilesWhole | `CompletedIsWhole`, `CompletedStays` | the same gives `OneAtATime` for the system (`ClientsAlone`); the lemmas above are stated from `OneAtATime` and not from `Awaits`, and apply. What the upload theorems assumed of the client is now proved of it |
| ClientDownloads | `DownloadsWhole` | `ReadInPlace`: the chunks read are a beginning of the file, each in its place; rows stay completed (`CompletedStays`, and `NoFails`: no fail request gets past the middleware) and completed files are whole |
| ClientShows | `ShownIsWhole` | `Merged` (a merge that is over left a whole file; only the merge of an upload writes its stored file, `MergeWrites`) and `ShownAtRest` (a shown file has no request left and its client starts none); `ChunksCounted`: the chunks that start before the end of a file are the first `GetTotalChunks` ones |
| ClientCompletes | `UntroubledCompletes` | `Smooth`, one upload's agreement of client and server while nothing has failed it: at a loop that counts to `next` the session has the chunks before `next` and no others, and the row's status is the one the client's step implies. So every check of `UploadFileChunk` and `UploadFileComplete` passes (`SentAreCounted`, `ChunksNeeded`). A step of another upload leaves it alone (`HandlerStaysApart`) |
| KeepsPromise (assumes `Awaits`) | `PromiseKept` | `RowSteps`: what any step does to the rows; `OfferMoves`: each such change, with completed files whole before and after, is a step of UploadPromise or a stutter |
| NoFolderInItself | `FoldersAcyclic` | a step gives a parent only to a new row, which no row has as its parent, or gives the root; `FoldersAcyclic` over all sets of entries is inductive itself |
| HashesTrackRows | `HashTracksRow` | inductive with the types; only `AddFile` and `RenameFile` write a name, each with its hash |
| FolderNamesDistinct | `NamesDistinctInFolders` | `HashesUnique` (indexed rows have distinct hashes), `RowsNamed` (a row has a name) and `HashTracksRow`: rows whose name is read as itself and that are in one folder other than the root would have one hash |
| StoreTypes | `StoreTypeOK` | `BaseInv`: the pages, lists and answers name rows only (`Known`), what a call carries in each of its stages (`CallsOK`), and calls in each other's way have been noted in `raced` (`ClashesNoted`) |
| DriveIsTable | FileTable's `Spec` | `CallsOK` gives the guards of the table's actions: an id of an add is new, the row of a rename or delete is there |
| ShowsAll, ShowsRows, ShowsOnce | `LoadedShowsAll`, `ShownIsThere`, `NothingShownTwice` | `StoreInv`, see below |
| CookiesAreOwn, HandlersActForTheirAccount | `CookieIsOwn`, `ActsForItsAccount` | `Belongs`: an id belongs to one browser and one account wherever it is, in a cookie, a request, an answer on its way, or the table; a new id is nowhere yet |
| EndedIdsStayEnded, LogoutsEndTheirOwn | `EndedForGood`, `LogoutEndsItsOwn` | `RowChanges`: the three ways in which a step changes the Session table |
| BuilderTypes | `BuilderTypeOK` | the types in `BuilderInv` |
| ValuesInPlace | `ArgumentsInPlace` | `ArgsSplit`: the arguments are the values of `Args` and then those of the conditions, which are the conditions' placeholders; `BuiltSplit`: a built statement has the same two parts, with the room `MainRoom` counts (`WholeRows` for the rows of an INSERT) |
| ClausesJoined | `ConditionsJoined` | `ChainOrder` (every condition but the last has its And or Or) and `ConditionsAlternate` |

The lists. The three properties speak of an entry no call is changing; none of them is inductive, since the answer
of a change that took effect long ago is still to edit a list. `EntryInv` states for one entry what holds meanwhile.
As long as no change of it has taken effect (`Quiet`), the lists and the list answers on their way have the row as it
is and have it where it belongs (`ListsRight`, `ListsAll`). While a change is awaited, `Changing` says where the row
has gone and which lists may still have an object of it: the folder's own for a rename or a delete, the trash's for a
restore, none for an add. That each answer edits exactly that list carries the invariant back to `Quiet`. What makes
it true is that a list under way and an awaited change of the same page are both in `raced` (`ListApart`, from
`ClashesNoted`), and that two changes of one entry are (`OneChange`). `StoreInv` was checked by TLC on the whole state
space of the drive run before it was proved.

The builders. What SqlBuilder says of a statement is about sequences of any length put together with `FlattenSeq`, so
its proofs need induction over that length. The library's induction theorems take an operator as parameter, which
the provers cannot instantiate. `StepsReach` says the same of a set: one that has 0 and, with each number, the next has
all of Nat, since otherwise adding one would map its part below the gap one to one into that part without reaching
0, which a finite set does not allow. From it come the values of the fold (`FlattenSteps`), and that
`FlattenSeq`, `Slots` and `Values` of two sequences put together are theirs put together (`FlattenConcat`,
`SlotsConcat`, `ValuesConcat`). The invariant was checked by TLC on the state space of the sql_builder run before it was proved.

Only model-checked: `RequestsReturn` and `UploadsEnd` (liveness under fairness and ENABLED are out of TLAPS's
reach). No module uses RECURSIVE operators.

## 5. Findings

Each is a run that TLC ends with a counterexample to a sentence of the repository.

* **restored_names.** `00.testdb_setup.sql:33-34` says the index "prevents duplicate entries for normal files
  who share the same parent ID on the same account". A restore moves a file to the root and keeps its old
  hash, so the root may hold two files of one name. In every other folder names are distinct (proved).
* **logout_cookie.** `user_handler.go:154-155` says of a logout "the cookie will be removed from the browser".
  The middleware renews the cookie in every answer (`api.go:100`): an answer to a request accepted before the
  logout and delivered after it brings the old id back, or replaces the one of a later login. The id itself
  stays dead (`EndedForGood`), so the browser is signed out, not signed in.
* **fail_route.** `file-uploader.ts:79-80` says `failUpload` "Calls the API to fail the file entry in the back end".
  The route is registered without the auth middleware (`app.go:176`), although the handler's comment says "This
  requires auth" (`file_handler.go:511`): it answers 401 to its only caller, and the row of an upload whose
  connection broke stays pending and keeps its name. `UploadsEnd` shows that the user's side ends all the same.

Comments that promise more than the code does, in places where no run of their own is kept: `completeMutexes`
(`file_handler.go:53-55`) is created and never used, so two complete requests may merge at once, and the merge reads
chunks without `uploadMutex` (49-51). What holds all the same for any client is `MergedPiecesWhole`, and the
browser client never sends two (`ClientAwaits`). "background workers will resolve the issue periodically" (493): there
is none, a row whose last update failed is `lost` in the model. A rename "will recalculate the hash" and be refused "if the
rename failed the uniqueness check" (`file_handler.go:776-777`): for a name with an escape the hash is that of another
text (`file_gateway.go:269`), so a file renamed to it and one uploaded under it may stand in one folder. `HashTracksRow`
and `NamesDistinctInFolders` say what is left: the names that are read as themselves stay apart. `replaceFile` takes
"The parent ID the file resides in" (`FileStore.ts:62`), and the rename form gives it the folder of the page it is
submitted from (`RenameFile.tsx:43`), which is another one after the history's Back with the form open, and the
root on the trash page. Such an entry is `doubtful` in the model.

## 6. Not modelled, and what is left

* Row scanning by reflection, password hashing, configuration, the start of the server: sequential, without
  state another step could see. `rows.Err()` is never looked at (`file_gateway.go:614`, `db_utils.go:64`), so a connection to
  the database that breaks in the middle of a list gives a shorter list as a success; FileStore takes lists
  to be complete.
* `diskreadwriter`: no handler calls it.
* Breadcrumbs: the answers of two pages may arrive in the wrong order and the older one stays; nothing else
  depends on it. The store also survives a logout and a login of another account in one document, until a
  reload; FileStore has one account.
* Names that would turn the statement of a rename into another one that MySQL accepts (FileTable, `Read`).
* `FoldersAcyclic` rules out a cycle for the query of the breadcrumbs. Its other limit is not modelled: a chain of
  folders deeper than MySQL's `cte_max_recursion_depth` (1000 by default) makes the query fail.
* Two tabs on one table, and renames or deletes between the steps of an upload beyond what FileTable allows
  (`UploadCompleted` and `UploadFailed` at any time).
* Proofs: every safety invariant and action property a passing run checks is a theorem.
