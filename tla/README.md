# A TLA+ model of squidfs

squidfs mounts a remote account ("the bridge") as a file system, over WebDAV or
FUSE. Files are cut into chunks of 2 MB; chunks go straight to object storage
through presigned URLs, and a *record* at the bridge names a file, its folder
and its chunks. These modules model the parts of squidfs that keep state and
run concurrently. TLC checks them on small instances, and TLAPS proves the
main properties for every value of the constants.

Paths below are relative to `src/`. `server.go` is `internal/webdav/server.go`,
`filesystem.go` is `internal/fs/filesystem.go`.

## 1. The system

| Component | State it keeps | Operations | Who calls it | What is hard about it |
|---|---|---|---|---|
| WebDAV name space (`server.go`) | `fileInfo`, `nameToID`, `folderInfo` under `s.mu`; `listCache` under `s.listMu`, 15 s; per handle: data, written, parentID | GET, PUT, DELETE, MOVE, MKCOL, PROPFIND, COPY | one goroutine of net/http per request, through golang.org/x/net/webdav | two maps that must agree, a list read before a lock and merged after it, a lock held over a network call, a panic with a lock held |
| WebDAV ranges (`server.go:736-816`) | none | parseByteRange, the handler's slice | the GET handler | boundaries |
| Chunk transfers (`filesystem.go:626-730`, `server.go:936-1000`, `internal/stream/stream.go`) | per transfer: semaphore, mutex, firstErr, WaitGroup | the loops of File.upload and WebDAVFile.Close; FetchChunksParallel and PutChunksParallel of stream.go, which nothing calls | the uploads of both front ends (downloads fetch one chunk after the other) | early returns, retries, a callback under a lock, the point at which the caller goes on |
| Disk cache (`internal/cache/cache.go`) | `entries` under an RWMutex; one file per key | NewCache, Get, Has, Set with eviction, Delete, Clear | both front ends, many goroutines | writes under a read lock, failing file operations, a kill in the middle of a write, the budget |
| FUSE file (`filesystem.go`) | data, size, dirty, id, tmpPath per file under `f.mu` | Read, Write, Flush, Release, uploadOnce, upload, download | concurrent kernel requests | check without the lock, dirty read before the upload, buffer against spool, a size that shrinks, ignored errors of the spool's writes, failures between chunks, record and cache |
| FUSE reads by chunk (`filesystem.go:230-372`, `stream.go:18-37`) | none | readRange, prefetchChunk, ChunksCovering, sliceFor | nothing: Read takes this path only for a file whose `lazy` is set, and no function sets it | see section 5 |
| FUSE directories (`filesystem.go:133-182, 787-825`) | `entries` of a Dir | Lookup, Readdir, Create, loadDir | kernel requests | a map written under a read lock, a node replaced while it is written |
| Bridge client (`internal/api/client.go`) | none | ListFiles, CreateFileRecord, GetFile, DeleteFile, RenameFile, CreateFolder, URLs | everything | a nil record without an error (`client.go:168-177`), effects whose answer is lost |
| Per-chunk envelopes (`internal/platform/res54.go`) | none | EncryptChunk, DecryptChunk | FUSE download and upload | what is done with a blob that does not open |
| Whole-file encryption (`internal/encryption/encryption.go`) | a key | Encrypt, Decrypt | FUSE upload and download, WebDAV download | one key for all files, a file sealed as a whole and cut into chunks |
| Password gate, bind checks (`server.go`, `cmd/squidfs/main.go`) | none | PBKDF2 verifier | every request | none (pure) |
| Start and shutdown (`main.go`, `server.go:325-345`, `internal/mount/mount.go`) | the process | signal handlers, Stop, os.Exit | the operating system | exit while uploads and cache writes run |
| mDNS, MIME, timing tool | none the rest depends on | | | none |

How they meet: a WebDAV request goes through the name space to the bridge, the
disk cache and a transfer of chunks. A FUSE request goes through a Dir to a
File, and from there to the same three. The front ends share only the disk
cache and the account.

What makes each of them correct:

- *Name space*: what is listed can be opened; the record that is deleted or
  renamed is the one that is read; content is served under the path it belongs
  to; only a PUT uploads; nobody waits for somebody else's slow peer; what a
  request reports is what a later request sees.
- *Transfers*: bounded, exclusive callback, all or nothing, an error that has a
  cause, quiet after the return, and they return.
- *Disk cache*: index and directory agree, the directory stays within its
  budget, the least recently used goes first, an answer is the value set last.
- *FUSE file*: what is clean is saved, what is cached is what the record holds,
  one set of Writes is one upload, what was written is kept and can be read.
- *Directories*: what is written and not yet saved is found under its name; a
  listing never waits for a transfer.
- *Records and storage*: a record lists only chunks that are stored; what it
  lists, in order, is what was uploaded; a reader sees its own file and no other.
- *Ranges*: exactly the bytes asked for.

`PROJECT.json` lists the hazards, each at its line, with the properties that
cover it or the reason why none does yet.

## 2. The modules

| Module | What it is |
|---|---|
| `WebDAVServer` | the name space and the handlers, the bridge as its environment |
| `WebDAVHistory` | the same, observed by what a client can remember (`named`, `deleted`) |
| `MCWebDAV` | instances for TLC |
| `WebDAVServerProofs` | theorems about `WebDAVServer` |
| `WebDAVHistoryProofs` | theorems about `WebDAVHistory` |
| `AllOrNothing` | what a parallel transfer promises: every chunk is handed over, lost or passed over before it answers (abstract) |
| `ChunkTransfer` | the four worker pools, shown to implement `AllOrNothing` |
| `ChunkTransferProofs` | theorems about it, the implementation included |
| `LossyMap` | what a cache promises (abstract) |
| `DiskCache` | `cache.Cache` and its directory, shown to implement `LossyMap` |
| `MCDiskCache` | an instance for TLC |
| `DiskCacheProofs` | theorems about `DiskCache` |
| `WriteBack` | what a file with a write-back buffer promises (abstract) |
| `FuseFile` | one `fs.File` with its buffer, spool, cache and account; in its buffer it implements `WriteBack` |
| `MCFuseFile` | instances for TLC |
| `FuseFileProofs` | theorems about `FuseFile` |
| `Archive` | what storage and account together promise an upload (abstract) |
| `ChunkStore` | objects, records, and the uploads of either front end that make them, shown to implement `Archive` |
| `ChunkStoreProofs` | what every request of an upload preserves |
| `FuseMount` | the root directory, its inodes and files, composed with `ChunkStore` and a WebDAV server on the same account |
| `MCFuseMount` | an instance for TLC, in ten environments |
| `FuseMountProofs` | theorems about `FuseMount` |
| `RangeRead` | the byte arithmetic of a WebDAV range |
| `RangeReadProofs` | theorems about it |

A comment "Mutant:" marks a changed copy of the
definition below it, with the bug a slip of the pen would make there. Each is
used to see that a property can tell the code from the bug; no specification
uses one.

### WebDAVServer

A *request* is the goroutine net/http gives one call. One action is one stretch
of code between two points at which another goroutine can get in: the
acquisition of `s.mu` or `s.listMu`, and a call of the bridge or the storage.
`req[r].pc` says where a request is; the actions are named after the functions:

- `Stat`, `StatAgain`, `Lookup`, `Fetch`: the GET handler, statFor and
  downloadFile. `Serve` is the answer, or the filled buffer of an open handle.
- `ListSeesNil`, `ListMake`, `ListCheck`, `ListCall`, `ListMerge`, `ListStore`:
  listDir. The test for a nil `listCache` and its creation lie outside
  `listMu`, so they are two steps. `cont` is the place listDir returns to.
- `OpenTopLevel`, `OpenInFolder`, `OpenEntry`, `OpenDir`: OpenFile.
- `Close`, `Resolve`, `Blobs`, `Create`, `Publish`, `GetFile`: WebDAVFile.Close.
  `Publish` takes `s.mu` and `GetFile` releases it, with a network call between.
  If the bridge's client returned a nil record, `created.ID` panics in
  `Publish` and the lock is never released (`mu = Orphan`).
- `DavStat`, `Remove`, `DeleteFile`, `LookOld`, `RenameFile`: RemoveAll and
  Rename, as the WebDAV handler calls them for DELETE and MOVE. `Begin` refuses
  a method on a path that another request has locked, as webdav.NewMemLS does.
- `CreateFolder`: Mkdir. `Expire`: 15 seconds pass. `Evict`: the disk cache
  forgets a content.

The bridge is `home` (the path of each live record), `created` and `folders`.
*Content is abstracted to the id of its record*: no code of the repository
changes the content of an existing record.

Left out: the ids of folders in `nameToID`, and with them DELETE and MOVE of a
folder; paths more than one folder deep; COPY, whose sequence of calls is that of
a library outside the repository and would need the content of a record apart
from its id; a PUT whose body breaks off, which Close uploads as if it were
complete; the
opening of the children by PROPFIND (it opens and closes handles that write
nothing).

`env` is the world a behaviour runs in and never changes: the paths that clients
name, what the account holds at first, the methods that are sent, how many records
there may be (a bound), and the faults: `bridge` (a call fails), `lostReply` (it
takes effect and its answer is lost), `storage` (a transfer fails), `noRecord` (an
error body without "error" passes for a success, `client.go:168-177`: an upload gets
a nil record or nil metadata, a list is empty, and DELETE, MOVE and MKCOL report a
change that the bridge did not make). One run asks of several worlds what no run
could ask of all at once.

### ChunkTransfer

One state machine for four loops of the same design; `kind` says which. A
goroutine per chunk passes `check` (has it an URL), `try`, and then the steps
of its kind; `failed` counts an attempt, `giveUp` keeps the error. `sem`, `mu`
and `firstErr` are the variables of the code. The caller is `Launch` and
`Return`. "close" has two peculiarities: a chunk without an URL is passed over
without an error (`server.go:954`), and the loop after wg.Wait takes `urls[i]` by
*position* and panics when the answer has fewer entries than chunks (`short`),
which is modelled as the result "error": the request fails and no record is made.
An answer of full length that lists an index twice, or one that is no chunk's,
lacks a chunk and is not short. Then Close answers with success, and the chunk was
never sent. `AllOrNothing` has that as `PassOver`, which only a `lenient` transfer
may do.

"fetch" and "put" are FetchChunksParallel and PutChunksParallel, the only loops
with retries. *Nothing in the repository calls them.* The two loops in use make one
attempt for each chunk, although the comment over the one in File.upload says
"Parallel PUT with bounded workers + retry" (`filesystem.go:690`).

### DiskCache

`entries` is `c.entries`, `files` the directory. Get is `Get`, then `GetMiss`
or `GetHit` and `Touch`, because AccessAt is stored under the read lock, after
the clock was read, with other readers between. Set is `Set`, `Evict` once per
turn of the loop, `Truncate`, `Write`, `Publish`; a failing os.WriteFile is
`OpenFails` or `WriteFails`. Delete is one step (it is under the lock and no
reader can be inside), Clear is a loop. Has is Get's miss without the file, and
changes nothing. `Restart` is a kill and the NewCache after it: `Remains` is
what the kill leaves of the file being written. A content is a value and the
length of the prefix that the file holds. The clock is a counter. `used` and
`refused` are history: when a key was last read or written, which a restart does
not change, and which keys had a file operation fail. (`Restart` does change
AccessAt: loadExisting dates an entry from the writing of its file.)

`LossyMap` is a map that goroutines `Ask` for a key; the `Answer` is the value of
the key that was asked for, or there is none.

### FuseFile

The file, its account and its cache; contents are short sequences of blocks.
Each method is split where the code lets go of `f.mu`: Read is `Read` (with its
offset, against `f.size`), `CheckLoaded` (the test without the lock),
`Fetch`/`FromCache`/`DownloadFails`, and `Serve`, whose answer is `Served`; Flush and
Release are `Flush` and then `Upload`, `UploadEmpty`, `UploadFails` or
`UploadClean`. `uploadOnce` holds the lock to its end, so it is one step. Writes are
`WriteBuffer`, `WriteSpool`, `WriteShort` and `WriteFails`. The two last are a full
disk: Write drops the errors of tmp.Write and tf.WriteAt (`filesystem.go:391, 399`)
and reports success (`WriteShort`); only CreateTemp and OpenFile make it fail. A
spool that got nothing is empty, and uploadOnce takes that for an empty file and
marks it clean (`UploadEmpty`). Every Write sets `f.size` to its own end, also
inside the file (`Sized`, `filesystem.go:415`).

`want`, `lost`, `inside`, `writes` and `saved` are history: the content a reader of
the Writes would expect, whether the buffer or the spool still has it, whether the
last Write ended before the end of the file, how many Writes there were, and how
many of them the last acknowledged upload covered.

`WriteBack` is such a file without all that: a Write patches the content, a save
keeps it, a load makes all of it visible. Its `content` is what a save would keep;
what a Read may ask for ends at `visible`, where the last Write ended. `File` maps
the buffer, `f.size` and the record of `FuseFile` to it. `BufferIsWriteBack` says
that a file, new or listed, takes only steps of `WriteBack` as long as it is in its
buffer (`Plain`: loaded, not spooled, nothing lost), and `ActsAsWriteBack` that the
whole behaviour is one of `WriteBack`. The latter is true only of new files that
stay below the threshold, and proved of them; `fuse_spool` shows how the spool
breaks it, and `WrittenIsKept` names what happens to the others.

Dead branches are left out: nothing in the repository sets `lazy` or
`platKeyOK`. Writes of no bytes are left out too.

### ChunkStore

The account's records, the storage's objects, and the uploads, one request to
the bridge or the storage at a time: `GetUploadURLs`, `Put` and `PutFails` in
any order, `CreateFileRecord`, `UploadFails`. The pool that sends the PUTs is
`ChunkTransfer`; what is used of it here is `AllOrNothing`: all have ended before
the record is made, and one that failed is known. A *text* is a function from chunks to pieces; a piece is a chunk
of some content, a sealed chunk that nobody could open (`Raw`), the body of an
error answer, or `Gone`, where the end of a cached text is missing.

The points where the two uploads differ are kept apart by `front`:
`File.upload` looks the URL of a chunk up by index and fails when there is none
(`filesystem.go:690-730`), `WebDAVFile.Close` passes over a chunk without URL
and lists the paths by *position* in the bridge's answer (`server.go:941-1000`).
So the order and the indices of the bridge's answer (`Answers`, any sequence of
indices no longer than was asked for) decide what a record of Close holds: out of
order it is a permuted file (`reorder`); with an index twice, or `Stray`, one that
is no chunk's (`repeat`), it has a chunk twice, or a path that nothing was sent to,
in the place of a chunk that was passed over. File.upload refuses an answer that
lacks a chunk, whatever the reason. `Ordered` in the properties excludes those
records of Close, the permuted, the repeated and the stray, and no others;
`RecordsReadBack` still says of a permuted or repeated one that every path in it is
stored.

A path has the date, the base name and the index in it (`filesystem.go:653-659`,
`server.go:921-927`): two uploads of one base name on one day, from any folder
and by either front end, ask for the same paths. Whether the bridge grants them
as asked for is `places`, a choice of the environment; `granted` is history. A
path that was asked for begins with a name, one of the bridge's own with the
upload: `PathAssumption` says that these are never the same.

`Archive` is the contract an application could rely on: a text that is handed in
may be kept, and from then on is what a reader gets, for ever. `Books` maps to it
the texts of the uploads and what a reader of each record with places of its own
would get from a storage that does not fail (`Readable`). A record on paths that
were asked for is left out of it: there a later upload may put its chunks, which
`RecordsReadBack` and `NothingForeign` deal with.

Sealing is ideal: a chunk opens with the key of its own upload and no other.
With the local encryptor there is one key for all, but the text is sealed as a
whole, so what opens is one whole text or nothing (`OpenWhole`). A chunk that
does not open is passed on as it is (`filesystem.go:591-612`).

### FuseMount

- `LookupHit`, `LookupMiss`, `Readdir`, `Create`: the methods of Dir. `List`,
  `ListFails` and `Merge`, one name at a time, are loadDir. Lookup runs it under
  the *read* lock (`filesystem.go:150-182`), so two may be inside together:
  `MayRead` and `MayWrite` are the two modes. `MapFault` is what the Go runtime
  does when it notices one of them writing the map: the process ends.
- `Read`, `FromCache`, `Download`, `Fetch`, `Assemble`, `DownloadFails`: a Read
  of a file whose content is not loaded. `Locked` is `f.mu`, held for the whole
  of a download or an upload.
- `Write`, `Flush`, `SaveClean`, `Upload`, `Recorded`, `Saved`, `NotSaved`: Write,
  Flush and Release, and uploadOnce. The upload itself goes on in `ChunkStore`;
  between the record (`Recorded`) and the end (`Saved`) lies cache.Set.
- `CacheSet` is cache.Set, from a download or an upload: it stores the text, or
  (`disk`) nothing, or the start of it (`CutShort`).
- `Signal`, `MeetsNil`, `MapFault`: the process ends by a signal
  (`mount.go:32-37`), by a record or metadata that is nil (`client.go:168-177`),
  or by the map. Uploads are cut where they are; the account, the storage and
  the disk cache remain, and the next start finds them. `Dies` may hit a call in the
  middle of os.WriteFile (`cache.go:108`): then a part of the text remains in the
  cache, and is served as the content of the record (`cache_torn` is that fault by
  itself).
- `PutFile`, `Closed`, `ServerDies`: a WebDAV server on the same account.

`env` is the world a behaviour runs in and never changes: which faults occur
(`bridge`, `storage`, `lostReply`, `noRecord`, `errorBody` as above; `gap`: an
URL is missing; `reorder`: they come in another order; `repeat`: an index is there
twice or is no chunk's; `disk`: a cache write is cut short), where the bridge puts
chunks, which requests and names are used, and whether the local encryptor is
on.

Abstractions: a Write replaces the whole text (blocks, offsets and the spool
are in `FuseFile`). Only the root is modelled; a Dir below it is filled by the
same code. The folder of a record is left out; what shows of it is that File.upload
sends the *path* of a created file as its ParentFolder (`filesystem.go:171, 768`),
so the bridge may or may not list such a record in the root (`MayBeElsewhere`). The
kernel sends no other call on a directory while a Create of it is under way, so
`Create` finds no entry of its name that it could replace. A waiting writer does not
keep new readers out, which allows more than sync.RWMutex does. A map that two
goroutines corrupt without the runtime noticing is left out. The cache refuses or cuts
a value only under `disk` and never evicts, which costs nothing: a `Download` is
always possible instead. A PUT that reaches the
storage after its process has died is left out. go-fuse, which is not part of
the repository, finds the methods by their signatures, and some signatures here
(Readdir, Read, Create, Getattr) are not those of its version 2 interfaces; the
methods are modelled as called. This `main` does not start FUSE mode
(`main.go:130`).

### RangeRead

A byte is its position, so what is served is a sequence of positions: `Partial` if
the header parses, `Whole` if not.

## 3. What TLC checks

All passing runs finish; the bounds are in the `.cfg` files.

| Run | Question | Bounds | Result |
|---|---|---|---|
| `webdav_index` | May clients corrupt the maps? Do DELETE and MOVE act on the record that GET serves, and on one that had the name? | 2 requests, 2 environments: the root and a folder, 1 name, 1 record, `noRecord`; the root, 2 names, 2 records, `lostReply`, `storage` | `TypeOK`, `ListedIsResolvable`, `ServedWasNamed`, `NamesAgree`, `LockIsBrief`, `ChangedWasNamed` hold |
| `webdav_live` | Does a hung transfer block others? Does a handler go round? Does a read upload? | 2 requests, root, 1 name, 2 records, every method, `bridge`, `lostReply`, `storage` | `HungTransferBlocksNobody`, `AnswersComeNearer`, `OnlyWritersUpload` hold |
| `chunk_transfer` | Are the worker pools right? | 4 chunks, 2 workers, 2 retries, any subset of URLs, in an answer that is short or not | 9 properties hold, `AllOrNothing` is implemented |
| `disk_cache` | Is the cache right under races, faults and kills? | 2 goroutines, 3 keys, values of 1 and 3 bytes, budget 2, 4 clock readings | 5 properties hold, `LossyMap` is implemented |
| `fuse_file` | Is the file right under concurrent requests and faults? | 2 requests, 1 block, threshold 2, length 3, 3 Writes, 2 records, new or listed, a disk that fills | 6 properties hold, in its buffer the file implements `WriteBack` |
| `fuse_mount` | Do records, reads, inodes and restarts fit together, also beside a WebDAV server? | 2 requests, 2 names, 2 chunks, 2 uploads, 2 contents, 2 inodes, 10 environments | `TypeOK`, `RecordsReadBack`, `ReadsAreOwn`, `NothingForeign`, `UnsavedIsReachable`, `DirectoryAnswers` hold, `Archive` is implemented |
| `range_read` | Are ranges exact? | files and header numbers to 12, every header over them | `TypeOK`, `RangeIsServed` hold |
| `webdav_deleted` | Is a deleted file gone? | 1 request, no fault | **violated** |
| `webdav_folder` | Does a PUT land in its folder? | 1 request, no fault | **violated** |
| `webdav_moved` | Does a DELETE remove the file that has its name? | 1 request, 2 names, no fault | **violated** |
| `cache_torn` | Is every hit a whole value? | 1 goroutine, 1 key, kills | **violated** |
| `fuse_spool` | Is a clean file saved as it was written? | 1 request, no fault | **violated** |

Why these bounds are enough to be interesting:

- Two requests, because every race of the name space is between one request
  that reads a list (or a map) and one that changes what it read. The theorems
  hold for any number.
- One record suffices where the question is the life of an entry; two where two
  records may carry one name or swap names, or where a read handle could upload
  what it has read. `noRecord` and `lostReply` are in environments of their own,
  since `NamesAgree` is only promised where every upload gets its record. The
  theorems hold for every environment.
- 4 chunks on 2 workers make the caller wait for a slot, with 2 retries there
  is an attempt that is neither the first nor the last.
- A value larger than the budget, two that fit exactly and three keys make the
  eviction loop stop early, in the middle and with nothing left.
- A file of 3 blocks with a threshold of 2 grows in the buffer, crosses to the
  spool, and is written in it again; a Write of one block into 2 or 3 ends inside the
  file; 2 records allow a lost reply and its retry, or a save and a further edit.
- 2 uploads are the least that can share a path, overwrite one another's chunks
  and mix in one record; 2 chunks the least that can be permuted, missing or half
  overwritten; 2 inodes the least for a file and its replacement. Each
  environment asks one question: concurrent requests, two names, reused paths
  with the local encryptor, error bodies, a disk that fills or a kill in the middle
  of a cache write (with a key for each file, and with the local encryptor), lost
  and empty answers with gaps, reordered URLs, failing transfers, and two uploads of
  the server with everything going wrong, repeated and stray indices included. The
  theorems hold for every set of environments.
- 12 is more than any case of parseByteRange needs: its conditions compare two
  numbers with each other, with 0 and with the size.

`CHECK_DEADLOCK FALSE` is used for `chunk_transfer` and `range_read`, which end,
and for `webdav_index`, where the orphaned lock really stops the server: every
later request needs `s.mu`. All other runs are checked for deadlock.

### Fairness

`WebDAVServer!Fairness`: a goroutine that can run runs (weak fairness of
`PlainStep`), which for calls of the bridge rests on the 30 second timeout of
its client (`client.go:127`). Steps that take `s.mu` are strongly fair:
sync.RWMutex blocks new readers behind a waiting writer and lets the waiting
readers in when a writer leaves, so nobody who waits is passed over for ever.
Content transfers (`Fetch`, `Blobs`) get *no* fairness: their client has no
timeout (`server.go:91`). Neither do users, the clock and evictions.

`FuseMount!Fairness`: a listing ends (weak fairness of `DirStep`, by the 30
second timeout of the bridge's client, `client.go:127`), and a Create that waits
for the lock of the directory gets it (strong fairness: sync.RWMutex does not
pass over a waiting writer for ever). Uploads and downloads get none: their
client has no timeout (`filesystem.go:84`). `DirectoryAnswers` says that the
directory does not need any.

`ChunkTransfer!Fairness`: the goroutines and the caller run, and every single
request for a chunk ends. The latter is a premise about the network, not
something the code enforces, since the clients set no overall timeout
(`server.go:91`, `filesystem.go:84`).

### What the violated runs show

1. `webdav_deleted`: RemoveAll (`server.go:478-491`) deletes the record at the
   bridge and leaves `fileInfo`, `nameToID`, `listCache` and the disk cache. One
   client that reads a file, deletes it with success and reads it again gets
   its content with status 200. README.md:20 promises "Copy, move, delete files
   using standard OS commands".
2. `webdav_folder`: a PUT of `d/a` makes its record as `a` in the root, with
   status 201. For a folder the server knows, OpenFile never returns a handle
   with a parentID; for one it does not know it sets a parentID that Close looks
   up in the same map and misses (`server.go:449-472, 899-907`).
3. `webdav_moved`: Rename (`server.go:493-503`) renames at the bridge and leaves both
   maps, so the old name still leads to the moved record. One client lists the root,
   MOVEs `a` over `b` with success and DELETEs `a`, a name that no longer exists: the
   DELETE succeeds, and what it removes is `b`. README.md:20 again.
4. `cache_torn`: os.WriteFile writes the cache file in place; a process killed
   between truncation and the last byte leaves a file that loadExisting takes
   for an entry, and Get returns it as a hit (`cache.go:48-66, 108`).
5. `fuse_spool`: a Write beyond the spool threshold goes to the spool and turns
   `f.data` into zeros; upload sends `f.data`, then the file is marked clean and
   the spool removed (`filesystem.go:399-405, 488-491, 626`).
   RELEASE-NOTES.md:10-11 says the spool is uploaded.

Four properties hold with named exemptions, which are behaviours of the code and not
of the model:

- `WrittenIsKept` of `fuse_file`: a Write to a listed file that was never read
  (`filesystem.go:407`), a download that overwrites a Write (208), the spool of point
  5, and a spool the disk took only in part, while Write reported success (391, 399).
- `CleanIsSaved`: a spool that got nothing, which uploadOnce takes for an empty file
  (472-475).
- `ReadsReachTheEnd`: after a Write that ended inside the file, what lies behind it
  cannot be read until the file is loaded again (202, 415). An upload still sends it.
- `EvictsLeastRecent` of `disk_cache`: keys whose AccessAt two overlapping Gets set
  back (`cache.go:91`), and keys that were read before the last restart and not since
  (57-62), which the eviction may take first though README.md:224 says "LRU (Least
  Recently Used)".

### Behaviours the passing runs leave room for

The properties hold *with* these behaviours of the code, and say where each ends:

- After a MOVE the maps give the old name to the moved record, until a listing
  says otherwise (`server.go:494-503`). `ChangedWasNamed` asks for a path the record
  *has had*, and is the most that holds; `webdav_moved` shows what README.md:20 says
  and the code does not do.
- Stat reports every path as existing (`server.go:556`), so a MOVE to a free name is
  refused: x/net/webdav takes it for an overwrite, and the removal of the destination
  finds nothing. This, too, is not "move ... files using standard OS commands"
  (README.md:20). The model refuses it as the code does, and no property takes it for
  right. And a MOVE that replaces has deleted the destination before a rename that may
  fail.
- An error body without "error" makes DELETE, MOVE and MKCOL report a change that the
  bridge did not make (`client.go:168-177`). And where GetFile is answered so, Close
  puts a nil entry in `fileInfo`, on which a GET panics until the next listing:
  `ListedIsResolvable` names this case.
- An answer with upload URLs that lists an index twice, or one that is no chunk's, is
  as long as was asked for, and Close makes a record in which a chunk is missing and
  another is there twice, or a path is listed that nothing was sent to
  (`server.go:933-936, 953-954, 988`). `RecordsReadBack` bounds it to such answers.
- A path that two uploads were given holds the later one's chunk. A reader of the
  earlier record gets its sealed bytes (`NothingForeign`), which are cached as
  the content of the earlier record.
- The body of an error answer is taken for a chunk, and cached
  (`filesystem.go:568`): `ErrorBody` in `ReadsAreOwn`. And of a cached text the end may
  be missing, after a kill or on a full disk: `Gone`.
- With the local encryptor one key opens everything: the reader of a record whose
  paths were given to another upload may be shown the other's whole text, but no
  mixture (`OfOneText` in `NothingForeign`).
- loadDir puts a new inode in the place of one that is being written
  (`filesystem.go:787-822`): the unsaved content stays with the inode the kernel
  has, and the name leads to the record. `UnsavedIsReachable` says that this
  happens only when the account has a record of that name.
- An error body in place of a list is taken for an empty list
  (`client.go:168-177`): it removes no entry, since loadDir only adds.

## 4. What is proved

TLAPS checks every theorem for all values of the constants that meet the
`ASSUME` of its module: any number of requests, records, chunks, workers,
goroutines, keys, any sizes.

**WebDAVServerProofs.** `TypeCorrect` (`TypeOK`), `Resolvable`
(`ListedIsResolvable`), `MapsAgree` (`NamesAgree`), `ReadersNeverUpload`
(`OnlyWritersUpload`), `LockReleased` (`LockIsBrief`), `AnswersNear`
(`AnswersComeNearer`). `ListedIsResolvable` is not
inductive: between `ListMerge` and `ListStore` a request carries names it is
about to show, so the invariant adds that these are resolvable already (`Known`);
this in turn needs that no step takes a key from either map, and that Close writes
`nameToID` before the nil entry it may put in `fileInfo`. `NamesAgree` needs to
know who may be inside the lock: if `mu = r`, then r is at `GetFile`, and the
maps differ at most at r's path, with r's record in `nameToID`.
`OnlyWritersUpload` follows `written` from the arrival of a PUT through Close to
the record. `LockIsBrief` needs besides that a request comes to `Publish` without
a record only from an answer that had none (`LockInv`). `AnswersComeNearer` is the safety
half of `HungTransferBlocksNobody`: every step of a request takes one off the steps it has
left (`StepsLeft`, at most 24) and none of another's, so a request that is never
answered is one that is never let in; that it is let in is fairness, and TLC's.

**WebDAVHistoryProofs.** `NeverAnothersContent` (`ServedWasNamed`),
`ChangesOnlyTheNamed` (`ChangedWasNamed`). Neither says anything about a request
in the middle of its work, so the invariant `HInv` does: both maps, the listing a
request carries (`ReplyOK`) and the record it has in hand (`HandOK`) give a path
only to records that have had it. What makes it inductive is that nothing is ever
taken back (`Grows`): a record keeps the paths it has had, and `nameToID` never
loses an entry, so what was true when a request looked is true when its call
reaches the bridge. A GET, besides, never gets into the branches that write
(`ReaderOK`).

**ChunkTransferProofs.** `TypeCorrect`, `PoolIsBounded` (`BoundedWorkers`: `sem`
is the number of running goroutines, and `Launch` is the only step that adds
one), `OneCallback` (`CallbackExclusive`: a goroutine in the callback is the
owner of `mu`), `BlameIsDeserved` (`ErrorHasCause`), `NothingLeftBehind`
(`QuietAfterReturn`), `PoolNeverStuck` (`NeverStuck`), `StepsRunOut`
(`AlwaysNearer`), and `AllOrNothingHolds`: `Spec` implements `AllOrNothing`. The
last one rests on the fact that a finished goroutine has
either handed over its chunk, or left an error, or, in "close", had no URL (then the
chunk is passed over, with success or not), and that the caller answers when all have
finished; `ChunkStore` takes the former and the
latter from it. `NeverStuck` adds to `sem` being the number of running goroutines
that whoever holds `mu` is in the callback or about to leave it, so that while one
waits another can go on. With `AlwaysNearer`, by which every step lowers a natural
number of one chunk and raises none, this is all of `Terminates` but the fairness.

**DiskCacheProofs.** `TypeCorrect` (types, and mutual exclusion of readers and
writer), `IndexIsRight` (`IndexMatchesDisk`), `EvictionOrder`
(`EvictsLeastRecent`), `CacheIsLossyMap` (`ActsAsLossyMap`). The invariant says,
besides types and locks, what each
step of a call may rely on (`CallInv`), what index and directory have in common
*while a writer is inside* (`IndexInv`: the key being written is the exception
until `Publish`, those already cleared during Clear), and that neither AccessAt nor
the date of a file, from which a restart takes AccessAt, is later than the true time of
use (`AgeInv`). That the cache implements `LossyMap`
needs two more facts: a goroutine has a hit only from the reading of the file to
its answer (`HitInv`), and a file that is being written holds nothing of its value yet,
so it is torn before and after a kill or a full disk.
`WithinBudget` (`DiskBudget`): the size of the directory is a sum over the keys,
so the proof has lemmas of its own on what such a sum gains and loses when one
file comes, goes or changes its length. Its invariant (`RoomInv`) is that, while no
operation has failed, the index knows every file but the one that is being stored,
and that one has room or is alone. `HitsAreWhole` (`HitIsWhole`) has a hypothesis, `NothingBreaksOff`:
no kill and no failed write. Without it the statement is false, as `cache_torn`
shows; with it no run is needed, and the two together say that a torn hit comes
from those faults and from no race.

**FuseFileProofs.** `TypeCorrect` (`TypeOK`), `CleanSaved` (`CleanIsSaved`),
`CacheCoherent` (`CacheIsCoherent`), `WritesKept` (`WrittenIsKept`), `SavedOnce`
(`NothingSavedTwice`). `CleanIsSaved` and `CacheIsCoherent` need each other (a
download may take the cache for the account), and both need that the file and
the cache know of no record that is still to be made (`RecordInv`); otherwise a
record whose answer was lost could appear under a cached key. `SavedOnce` rests
on `DirtyInv`: a dirty file has Writes that no upload has covered. `WritesKept`
needs two more facts: as long as nothing is lost, the record of a clean file
holds what was written (`KeptInv`), so a download brings it back; and a spool the disk left
empty is not what was written (`SpoolInv`), which is why `UploadEmpty` loses nothing
that is not lost already. `ReadsToTheEnd` (`ReadsReachTheEnd`) adds that `f.size` is at
least the end of the file unless the last Write ended inside it (`SizeInv`). `BufferWritesBack`
(`BufferIsWriteBack`) takes each request to a Write, a save, a load or nothing of
`WriteBack`: a late download is a load, since where it loses nothing it brings back
what the buffer holds (`LateDownload`) and sets `f.size` to its end; an upload whose
answer is lost is nothing, since the record it made is not the file's. `SmallFilesAreSaved` (`SavedIsWritten`)
and `SmallFilesWriteBack` (`ActsAsWriteBack`) are about new files that the bound on
lengths keeps from the spool (`SmallAndNew`; without it `fuse_spool` refutes the
first). Such a file is in its buffer for good: nothing is downloaded over it, so
`WrittenIsKept` makes it what was written, and each step is one of `WriteBack`.

**ChunkStoreProofs.** `StoreKeepsInv`: every step of the store, of any number of
uploads in any order and whatever fails, preserves `StoreInv` and takes nothing
back (`Kept`: a record, a text, a grant or an object's place stays). `StoreInv`
says of an upload in flight that its URLs were granted to it and that, unless a
PUT has failed, there is an object wherever a PUT is over (`PutInv`); of an object
that it was put by an upload that was given the path, and is the chunk the path is
for (`ObjectInv`); of a record that all it lists is stored, but for an index that
nobody asked for, which only Close takes (`RecordInv`). A path
that no other upload was given thus holds the record's own chunk. It is stated
for the store alone, so that any composition with it, such as `FuseMount`, can
use it. So is what `Archive` needs: no upload is ever given a place the bridge gave to
another (`OwnInv`), hence the objects of a record at such places are its own and
open to its text, with the key of the record or with the local encryptor
(`OwnText`), and a step can only hand in a text, make one record, or show the
archive nothing (`ArchiveStep`).

**FuseMountProofs.** `TypeCorrect` (`TypeOK`), `RecordsAreComplete`
(`RecordsReadBack`), `ReadsAreHonest` (`ReadsAreOwn`), `NoForeignText`
(`NothingForeign`), `UnsavedKeepsItsName` (`UnsavedIsReachable`), `KeepsTexts`
(`ActsAsArchive`, from the lemmas of the store). `RecordsReadBack`
follows from `StoreInv`. The two about reads hold of a file and of the cache
(`Held`, `Cached`) only because they hold of a download in progress: `CallInv`
says that each chunk it has got was put by an upload that had the path, whatever
is overwritten before it is assembled, and that an upload in flight still has the
text of its file, also between its record and its cache write. The latter needs
`Exclusion`: a file has at most one download or upload under way, so what `Saved` puts
into the cache, or what a kill leaves of it there, is what was uploaded or the start of
it.
`UnsavedIsReachable` needs that a new inode takes a name in the map only from a
listing, hence only when the account has a record of it (`FileInv`).

**RangeReadProofs.** `TypeCorrect`, `RangeServed` (`RangeIsServed`): the slice of
the handler for every file size and header.

Only model-checked: the three liveness properties (`Terminates`,
`HungTransferBlocksNobody`, `DirectoryAnswers`), since fairness and ENABLED are out
of the prover's reach. Of the first two the safety halves are proved, as said above. Every
other property of a passing run is a theorem.

## 5. What is not modelled, and why

In the modelled components:

- Two goroutines of the WebDAV server see more of one another than the model
  shows only where Go leaves a data race: `listCache == nil` is modelled
  (`ListSeesNil`), a torn read of it is not.
- Folders: DELETE and MOVE of a folder, and paths more than one folder deep. They
  would need the folders' ids in `nameToID`, and records under deep keys.
- COPY, HEAD, and a PUT whose body breaks off. What x/net/webdav does for the
  first is known from outside the repository only; the last makes a record of the
  bytes that came, by the steps of every other PUT.
- The bytes of a Read's answer, a slice of `f.data` that a later Write may change
  before the kernel has read it (`filesystem.go:226`): this is the one hazard of
  the list without a property. It would need the moment at which the library
  copies the answer, which the source does not show.
- Directories below the root of a FUSE mount (same code), and what a map
  corrupted by the race of `filesystem.go:158` would answer if the runtime did
  not notice.
- FUSE reads by chunk: readRange, prefetchChunk, ChunksCovering and sliceFor
  (`filesystem.go:230-372`, `stream.go:18-37`) run for files whose `lazy` is set, and
  no function sets it. Their arithmetic could be stated, but not that they serve the
  file: the cache key of chunk 0 is the one the whole file is stored under
  (`filesystem.go:291` against 496, 614 and 779), so a hit would give other bytes than
  the chunk's, and prefetchChunk caches blobs that it has not opened (366-369).
Not modelled at all: the password gate (PBKDF2 and the checks of the bind
address are pure functions of the configuration), mDNS, MIME tables, the response
filter and the timing tool (no state the rest depends on), the inside of the
cryptography (taken as ideal), and the HTTP plumbing of the bridge client, which
the modules see as its outcomes only. Several functions are called by nothing in
the repository and are left out: the V3 functions of `encryption.go`,
EncryptChunkV2, DecryptBlob and DecryptMultiChunk of `res54.go`, MoveFile and
GetFileKey of `client.go`, sliceChunk, downloadViaAPI and downloadViaCLI of
`server.go`. FetchChunksParallel and PutChunksParallel of `stream.go` are called by
nothing either; `ChunkTransfer` has them all the same, beside the two loops that share
their design and are in use.

What could be added next: COPY and folders in `WebDAVServer`, with the content of
a record apart from its id.
