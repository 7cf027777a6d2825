---------------------------- MODULE WebDAVServer ----------------------------
(***************************************************************************)
(* The name space of the WebDAV front end (internal/webdav/server.go): the *)
(* maps fileInfo, nameToID and folderInfo under s.mu, the directory        *)
(* listings cached for 15 seconds under s.listMu, and the handlers that    *)
(* read and write them while the bridge, a remote service, holds the truth.*)
(*                                                                         *)
(* A request is the goroutine net/http gives one HTTP call.  One action is *)
(* one stretch of code between two points where another goroutine can get  *)
(* in: a lock acquisition or a network call.  A file's content is the id   *)
(* of its record, because no code of the repository changes the content of *)
(* a record once it is made: every write makes a new one.                  *)
(***************************************************************************)
EXTENDS Integers, Sequences

CONSTANTS
    Requests,    \* handler goroutines that may be active at the same time
    Root,        \* the top-level directory
    Folders,     \* names of the folders below Root
    Names,       \* names of files; one name is never both a file and a folder
    MaxRecords,  \* bound: records the bridge ever holds
    Environments \* the worlds a behaviour may run in, with
                 \*   paths:   the paths that the clients name
                 \*   seeds:   what the account may hold before squidfs starts
                 \*   ops:     the HTTP methods that are sent
                 \*   faults:  what goes wrong, subset of AllFaults
                 \*   records: bound: records the bridge ever holds in this world

Dirs   == {Root} \union Folders
Paths  == Dirs \X Names
Ids    == 1..MaxRecords
Absent == 0                 \* no entry in a Go map
NilPtr == MaxRecords + 1    \* an entry whose *api.FileMetadata is nil
Gone   == <<>>              \* no live record at the bridge
Free   == "free"            \* nobody holds s.mu
Orphan == "orphan"          \* a goroutine that panicked holds it

AllOps    == {"get", "list", "put", "delete", "move", "mkcol"}
AllFaults == {"bridge", "lostReply", "noRecord", "storage"}

ASSUME ConstantsAssumption ==
    /\ MaxRecords \in Nat
    /\ Root \notin Folders \union Names
    /\ Folders \intersect Names = {}
    /\ Names # {}
    /\ {Free, Orphan} \intersect Requests = {}
    /\ \A e \in Environments :
          /\ e.records \in 0..MaxRecords /\ e.paths \subseteq Paths
          /\ e.seeds \subseteq {s \in Seq(e.paths) : Len(s) <= e.records}
          /\ e.ops \subseteq AllOps /\ e.faults \subseteq AllFaults

VARIABLES
    env,         \* the environment, which does not change
    home,        \* bridge: the path of each live record, <<>> when there is none
    created,     \* bridge: how many records were ever made
    folders,     \* bridge: the folders that exist
    fileInfo,    \* s.fileInfo, path -> record
    nameToID,    \* s.nameToID, path -> record
    folderInfo,  \* keys of s.folderInfo
    mu,          \* who holds s.mu for writing
    listNil,     \* s.listCache == nil
    listing,     \* s.listCache, directory -> the names shown
    fresh,       \* directories listed less than 15 seconds ago
    cached,      \* records whose content is in the disk cache
    req          \* the local state of every request

bridge == <<env, home, created, folders>>
index  == <<fileInfo, nameToID, folderInfo>>
lists  == <<listNil, listing, fresh>>
vars   == <<bridge, index, mu, lists, cached, req>>

Unlisted == {Root}       \* no entry in listCache: Root is in no listing

Pcs == {"idle", "stat", "statAgain", "lookup", "fetch", "open", "openEntry",
        "listNil", "listMake", "listCheck", "listCall", "listMerge", "listStore",
        "close", "resolve", "blobs", "create", "publish", "getFile",
        "davStat", "remove", "delete", "lookOld", "rename", "mkcol"}

Statuses == {"none", "ok", "empty", "notfound", "forbidden", "error", "panic"}

Request ==
    [pc: Pcs, op: AllOps, path: Paths, dst: Paths,
     cont: {"stat", "open", "dir", "handle"},          \* where listDir or a read returns to
     last: [Names -> Ids \union {Absent}],             \* list reply: the last record of each name
     subs: SUBSET Folders,                             \* list reply: the folders
     parent: Dirs,                                     \* WebDAVFile.parentID, then folderID
     filled: BOOLEAN, written: BOOLEAN,                \* len(f.data) > 0, f.written
     rec: Ids \union {Absent, NilPtr},                 \* the record in hand
     status: Statuses, body: Ids \union {Absent, NilPtr}]  \* the answer

UsedDirs == {p[1] : p \in env.paths}

NoReply == [n \in Names |-> Absent]

Idle(p) == [pc |-> "idle", op |-> "get", path |-> p, dst |-> p, cont |-> "stat",
            last |-> NoReply, subs |-> {}, parent |-> Root,
            filled |-> FALSE, written |-> FALSE, rec |-> Absent,
            status |-> "none", body |-> Absent]

Init ==
    /\ env \in Environments
    /\ \E s \in env.seeds :
         /\ home = [i \in Ids |-> IF i <= Len(s) THEN s[i] ELSE Gone]
         /\ created = Len(s)
    /\ folders \in {F \in SUBSET (UsedDirs \ {Root}) :
                     \A i \in Ids : home[i] # Gone => home[i][1] \in F \union {Root}}
    /\ fileInfo = [p \in Paths |-> Absent]
    /\ nameToID = [p \in Paths |-> Absent]
    /\ folderInfo = {}
    /\ mu = Free
    /\ listNil = TRUE
    /\ listing = [d \in Dirs |-> Unlisted]
    /\ fresh = {}
    /\ cached = {}
    /\ req = [r \in Requests |-> Idle(CHOOSE p \in Paths : TRUE)]

-----------------------------------------------------------------------------
(* Helpers *)

At(r, l)   == req[r].pc = l
Goto(r, l) == req' = [req EXCEPT ![r].pc = l]

\* The request is answered; the locals of its goroutine are gone.
Finish(r, status, body) ==
    req' = [req EXCEPT ![r] = [Idle(req[r].path) EXCEPT
                                 !.op = req[r].op,
                                 !.status = status, !.body = body]]

Fails(kind) == kind \in env.faults

\* The paths on which the handler's lock system (webdav.NewMemLS) holds a
\* lock for the whole of a PUT, DELETE or MOVE.
LockedPaths == UNION {{req[r].path, req[r].dst} :
                        r \in {s \in Requests : req[s].pc # "idle"
                                              /\ req[s].op \in {"put", "delete", "move"}}}

-----------------------------------------------------------------------------
(* A request arrives.  golang.org/x/net/webdav refuses (423) a PUT, DELETE  *)
(* or MOVE of a path on which another one is under way.                      *)

Begin(r, op, p, q, first, full) ==
    /\ At(r, "idle")
    /\ op \in env.ops
    /\ op \in {"put", "delete", "move"} => {p, q} \intersect LockedPaths = {}
    /\ req' = [req EXCEPT ![r] = [Idle(p) EXCEPT !.pc = first, !.op = op, !.dst = q,
                                    !.filled = full, !.written = full]]
    /\ UNCHANGED <<bridge, index, mu, lists, cached>>

Get(r, p)       == Begin(r, "get", p, p, "stat", FALSE)
Propfind(r, p)  == Begin(r, "list", p, p, "open", FALSE)       \* of the directory of p
Put(r, p, full) ==                                             \* full: the body has bytes
    /\ created < env.records                                    \* bound
    /\ Begin(r, "put", p, p, "open", full)
Delete(r, p)    == Begin(r, "delete", p, p, "davStat", FALSE)
Move(r, p, q)   == p # q /\ Begin(r, "move", p, q, "davStat", FALSE)
Mkcol(r, p)     == p[1] # Root /\ Begin(r, "mkcol", p, p, "mkcol", FALSE)

-----------------------------------------------------------------------------
(* listDir, called by statFor ("stat"), by OpenFile for a path inside a      *)
(* folder ("open") and by OpenFile for a directory ("dir").                  *)

Dir(r) == req[r].path[1]

CallListDir(r, cont) == req' = [req EXCEPT ![r].pc = "listNil", ![r].cont = cont]

\* Go on after listDir returned the names ents.
ListDirReturns(r, ents) ==
    \/ req[r].cont = "stat" /\ Goto(r, "statAgain")
    \/ req[r].cont = "dir"  /\ Finish(r, "ok", Absent)
    \/ req[r].cont = "open" /\ req[r].path[2] \in ents /\ Goto(r, "openEntry")
    \/ req[r].cont = "open" /\ req[r].path[2] \notin ents /\ Finish(r, "notfound", Absent)

\* Mutant: a listing that fails is tried again until it succeeds.
ListDirRetries(r) ==
    \/ req[r].cont = "stat" /\ Goto(r, "listNil")
    \/ req[r].cont = "dir"  /\ Finish(r, "error", Absent)
    \/ req[r].cont = "open" /\ Finish(r, "notfound", Absent)

ListDirFails(r) ==
    \/ req[r].cont = "stat" /\ Goto(r, "open")
    \/ req[r].cont = "dir"  /\ Finish(r, "error", Absent)
    \/ req[r].cont = "open" /\ Finish(r, "notfound", Absent)

\* "if s.listCache == nil", read without listMu: two requests may both see nil.
ListSeesNil(r) ==
    /\ At(r, "listNil")
    /\ Goto(r, IF listNil THEN "listMake" ELSE "listCheck")
    /\ UNCHANGED <<bridge, index, mu, lists, cached>>

ListMake(r) ==
    /\ At(r, "listMake")
    /\ listNil' = FALSE
    /\ listing' = [d \in Dirs |-> Unlisted]
    /\ Goto(r, "listCheck")
    /\ UNCHANGED <<bridge, index, mu, fresh, cached>>

ListCheck(r) ==
    /\ At(r, "listCheck")
    /\ IF listing[Dir(r)] # Unlisted /\ Dir(r) \in fresh
         THEN ListDirReturns(r, listing[Dir(r)])
         ELSE Goto(r, "listCall")
    /\ UNCHANGED <<bridge, index, mu, lists, cached>>

\* What the bridge may answer: of several records of one name, any may be last.
ListReplies(d) ==
    {last \in [Names -> Ids \union {Absent}] :
       \A n \in Names : LET same == {i \in Ids : home[i] = <<d, n>>}
                        IN  last[n] \in (IF same = {} THEN {Absent} ELSE same)}

ListCall(r) ==
    /\ At(r, "listCall")
    /\ \/ \E last \in ListReplies(Dir(r)) :
            req' = [req EXCEPT ![r].pc = "listMerge", ![r].last = last,
                               ![r].subs = IF Dir(r) = Root THEN folders ELSE {}]
       \/ Fails("bridge") /\ ListDirFails(r)
       \* an error body without "error" decodes to a reply that lists nothing
       \/ Fails("noRecord") /\ Goto(r, "listMerge")
    /\ UNCHANGED <<bridge, index, mu, lists, cached>>

\* Mutant: the directory is left out of the key.
MergedByName(map, r) == [p \in Paths |-> IF req[r].last[p[2]] # Absent
                                           THEN req[r].last[p[2]] ELSE map[p]]

\* Mutant: a name the reply does not list is dropped from the map.
MergedForgetting(map, r) == [p \in Paths |-> IF p[1] = Dir(r) THEN req[r].last[p[2]] ELSE map[p]]

\* Mutant: the address of the loop's variable is kept, the same for every name.
MergedByReference(map, r) ==
    [p \in Paths |-> IF p[1] = Dir(r) /\ req[r].last[p[2]] # Absent
                     THEN CHOOSE i \in {req[r].last[n] : n \in Names} :
                            \A n \in Names : req[r].last[n] <= i
                     ELSE map[p]]

\* cacheEntries
Merged(map, r) == [p \in Paths |-> IF p[1] = Dir(r) /\ req[r].last[p[2]] # Absent
                                     THEN req[r].last[p[2]] ELSE map[p]]

ListMerge(r) ==
    /\ At(r, "listMerge")
    /\ mu = Free
    /\ fileInfo' = Merged(fileInfo, r)
    /\ nameToID' = Merged(nameToID, r)
    /\ folderInfo' = folderInfo \union req[r].subs
    /\ Goto(r, "listStore")
    /\ UNCHANGED <<bridge, mu, lists, cached>>

\* Records are told apart in a listing by name only: "seen" drops the others.
Shown(r) == {n \in Names : req[r].last[n] # Absent} \union req[r].subs

ListStore(r) ==
    /\ At(r, "listStore")
    /\ listing' = [listing EXCEPT ![Dir(r)] = Shown(r)]
    /\ fresh' = fresh \union {Dir(r)}
    /\ LET q == [req[r] EXCEPT !.last = NoReply, !.subs = {}]
       IN  \/ q.cont = "stat" /\ req' = [req EXCEPT ![r] = [q EXCEPT !.pc = "statAgain"]]
           \/ q.cont = "dir"  /\ Finish(r, "ok", Absent)
           \/ /\ q.cont = "open" /\ q.path[2] \in Shown(r)
              /\ req' = [req EXCEPT ![r] = [q EXCEPT !.pc = "openEntry"]]
           \/ q.cont = "open" /\ q.path[2] \notin Shown(r) /\ Finish(r, "notfound", Absent)
    /\ UNCHANGED <<bridge, index, mu, listNil, cached>>

\* Fifteen seconds pass.
Expire(d) ==
    /\ d \in fresh
    /\ fresh' = fresh \ {d}
    /\ UNCHANGED <<bridge, index, mu, listNil, listing, cached, req>>

-----------------------------------------------------------------------------
(* GET, served by the handler Start installs ahead of the WebDAV handler.    *)

\* The metadata found for the path is read: nil panics, and net/http recovers.
UseMeta(r, next) ==
    IF fileInfo[req[r].path] = NilPtr THEN Finish(r, "panic", Absent) ELSE Goto(r, next)

Stat(r) ==
    /\ At(r, "stat")
    /\ mu = Free
    /\ IF fileInfo[req[r].path] = Absent THEN CallListDir(r, "stat") ELSE UseMeta(r, "lookup")
    /\ UNCHANGED <<bridge, index, mu, lists, cached>>

StatAgain(r) ==
    /\ At(r, "statAgain")
    /\ mu = Free
    /\ IF fileInfo[req[r].path] = Absent THEN Goto(r, "open") ELSE UseMeta(r, "lookup")
    /\ UNCHANGED <<bridge, index, mu, lists, cached>>

\* The content of record id goes to the client, or to f.data of an open handle.
Serve(r, id) ==
    IF req[r].cont = "handle"
      THEN req' = [req EXCEPT ![r].pc = "close", ![r].filled = TRUE, ![r].rec = id]
      ELSE Finish(r, "ok", id)

\* Mutant: s.mu is kept over the download.
LookupHolding(r) ==
    /\ At(r, "lookup")
    /\ mu = Free
    /\ mu' = r
    /\ req' = [req EXCEPT ![r].pc = "fetch", ![r].rec = fileInfo[req[r].path]]
    /\ UNCHANGED <<bridge, index, lists, cached>>

\* downloadFile looks the path up again, then asks the disk cache.
Lookup(r) ==
    /\ At(r, "lookup")
    /\ mu = Free
    /\ LET id == fileInfo[req[r].path]
       IN  \/ id = NilPtr /\ Finish(r, "error", Absent)
           \/ id \in cached /\ Serve(r, id)
           \/ /\ id \notin cached \union {NilPtr}
              /\ req' = [req EXCEPT ![r].pc = "fetch", ![r].rec = id]
    /\ UNCHANGED <<bridge, index, mu, lists, cached>>

\* fetchDecrypted: no lock is held and no timeout is set.
Fetch(r) ==
    /\ At(r, "fetch")
    /\ \/ /\ home[req[r].rec] # Gone
          /\ cached' = cached \union {req[r].rec}
          /\ Serve(r, req[r].rec)
       \/ /\ home[req[r].rec] = Gone \/ Fails("storage")
          /\ Finish(r, "error", Absent)
          /\ UNCHANGED cached
    /\ UNCHANGED <<bridge, index, mu, lists>>

Evict(i) ==
    /\ i \in cached
    /\ cached' = cached \ {i}
    /\ UNCHANGED <<bridge, index, mu, lists, req>>

-----------------------------------------------------------------------------
(* OpenFile, for PUT, for PROPFIND, and for a GET that statFor could not     *)
(* resolve and that falls through to the WebDAV handler.                     *)

\* The handler has a WebDAVFile.  Of one opened to read, http.ServeContent reads
\* some to guess an unknown content type, which fills f.data; otherwise it takes
\* len(f.data) = 0 for the size and sends nothing.
OpensHandle(r) ==
    \/ Goto(r, "close")
    \/ /\ req[r].op = "get" /\ fileInfo[req[r].path] # Absent     \* f.existing is set
       /\ req' = [req EXCEPT ![r].pc = "lookup", ![r].cont = "handle"]

OpenTopLevel(r) ==
    /\ At(r, "open")
    /\ req[r].op # "list" /\ Dir(r) = Root
    /\ mu = Free
    /\ LET found == fileInfo[req[r].path]
       IN  \/ req[r].op = "get" /\ found = Absent /\ Finish(r, "notfound", Absent)
           \/ req[r].op = "get" /\ found = NilPtr /\ Finish(r, "panic", Absent)
           \/ (req[r].op = "put" \/ found \in Ids) /\ OpensHandle(r)
    /\ UNCHANGED <<bridge, index, mu, lists, cached>>

OpenInFolder(r) ==
    /\ At(r, "open")
    /\ req[r].op # "list" /\ Dir(r) # Root
    /\ mu = Free
    /\ \/ Dir(r) \in folderInfo /\ CallListDir(r, "open")
       \/ /\ Dir(r) \notin folderInfo /\ req[r].op = "put"
          /\ req' = [req EXCEPT ![r].pc = "close", ![r].parent = Dir(r)]
       \/ Dir(r) \notin folderInfo /\ req[r].op # "put" /\ Finish(r, "notfound", Absent)
    /\ UNCHANGED <<bridge, index, mu, lists, cached>>

\* listDir showed the name; its metadata is then read under a lock of its own.
OpenEntry(r) ==
    /\ At(r, "openEntry")
    /\ mu = Free
    /\ IF fileInfo[req[r].path] = NilPtr THEN Finish(r, "panic", Absent) ELSE OpensHandle(r)
    /\ UNCHANGED <<bridge, index, mu, lists, cached>>

OpenDir(r) ==
    /\ At(r, "open")
    /\ req[r].op = "list"
    /\ mu = Free
    /\ IF Dir(r) \in folderInfo \union {Root} THEN CallListDir(r, "dir")
                                              ELSE Finish(r, "notfound", Absent)
    /\ UNCHANGED <<bridge, index, mu, lists, cached>>

-----------------------------------------------------------------------------
(* WebDAVFile.Close: the only code that uploads.                             *)

\* Mutant: "if !f.written" is dropped.
CloseUnguarded(r) ==
    /\ At(r, "close")
    /\ IF req[r].filled THEN Goto(r, "resolve") ELSE Finish(r, "ok", Absent)
    /\ UNCHANGED <<bridge, index, mu, lists, cached>>

Close(r) ==
    /\ At(r, "close")
    /\ IF req[r].written /\ req[r].filled
         THEN Goto(r, "resolve")
         ELSE Finish(r, IF req[r].op = "put" \/ req[r].filled THEN "ok" ELSE "empty",
                        req[r].rec)
    /\ UNCHANGED <<bridge, index, mu, lists, cached>>

\* The folder the record goes to: parentID when it is a known folder, else Root.
Resolve(r) ==
    /\ At(r, "resolve")
    /\ mu = Free
    /\ req' = [req EXCEPT ![r].pc = "blobs",
                          ![r].parent = IF @ \in folderInfo THEN @ ELSE Root]
    /\ UNCHANGED <<bridge, index, mu, lists, cached>>

\* GetUploadURLs and the parallel PUTs of the chunks, with no lock held.
Blobs(r) ==
    /\ At(r, "blobs")
    /\ \/ Goto(r, "create")
       \/ Fails("storage") /\ Finish(r, "error", Absent)
    /\ UNCHANGED <<bridge, index, mu, lists, cached>>

Create(r) ==
    /\ At(r, "create")
    /\ \/ /\ created < env.records
          /\ created' = created + 1
          /\ home' = [home EXCEPT ![created + 1] = <<req[r].parent, req[r].path[2]>>]
          /\ \/ req' = [req EXCEPT ![r].pc = "publish", ![r].rec = created + 1]
             \/ Fails("lostReply") /\ Finish(r, "error", Absent)
       \/ /\ Fails("bridge") \/ created = env.records         \* bound: the account is full
          /\ Finish(r, "error", Absent)
          /\ UNCHANGED <<home, created>>
       \* an error body without "error" decodes to success with no record
       \/ /\ Fails("noRecord")
          /\ req' = [req EXCEPT ![r].pc = "publish", ![r].rec = NilPtr]
          /\ UNCHANGED <<home, created>>
    /\ UNCHANGED <<env, folders, index, mu, lists, cached>>

\* Mutant: s.mu covers the write of nameToID only.
PublishBriefly(r) ==
    /\ At(r, "publish")
    /\ mu = Free
    /\ nameToID' = [nameToID EXCEPT ![req[r].path] = req[r].rec]
    /\ Goto(r, "getFile")
    /\ UNCHANGED <<bridge, mu, fileInfo, folderInfo, lists, cached>>

\* Mutant: the ID of a record that is not there is read without a panic.
PublishNil(r) ==
    /\ At(r, "publish")
    /\ mu = Free
    /\ mu' = r
    /\ nameToID' = [nameToID EXCEPT ![req[r].path] = req[r].rec]
    /\ Goto(r, "getFile")
    /\ UNCHANGED <<bridge, fileInfo, folderInfo, lists, cached>>

\* s.mu is taken and kept until GetFile has answered.  created.ID of a nil
\* record panics; Unlock is not deferred, so the lock is never released.
Publish(r) ==
    /\ At(r, "publish")
    /\ mu = Free
    /\ IF req[r].rec = NilPtr
         THEN /\ mu' = Orphan
              /\ Finish(r, "panic", Absent)
              /\ UNCHANGED nameToID
         ELSE /\ mu' = r
              /\ nameToID' = [nameToID EXCEPT ![req[r].path] = req[r].rec]
              /\ Goto(r, "getFile")
    /\ UNCHANGED <<bridge, fileInfo, folderInfo, lists, cached>>

\* GetFile answers for a deleted record too (FileMetadata has IsDeleted).
GetFile(r) ==
    /\ At(r, "getFile")
    /\ \/ fileInfo' = [fileInfo EXCEPT ![req[r].path] = req[r].rec]
       \/ Fails("bridge") /\ UNCHANGED fileInfo
       \/ Fails("noRecord") /\ fileInfo' = [fileInfo EXCEPT ![req[r].path] = NilPtr]
    /\ mu' = Free
    /\ Finish(r, "ok", req[r].rec)
    /\ UNCHANGED <<bridge, nameToID, folderInfo, lists, cached>>

-----------------------------------------------------------------------------
(* DELETE is Stat, then RemoveAll.  MOVE is Stat and RemoveAll of the        *)
(* destination, then Rename.  Stat never says that a file does not exist.    *)

DavStat(r) ==
    /\ At(r, "davStat")
    /\ mu = Free
    /\ IF /\ fileInfo[req[r].dst] = NilPtr
          /\ req[r].dst[1] \in folderInfo \union {Root}
         THEN Finish(r, "panic", Absent)
         ELSE Goto(r, "remove")
    /\ UNCHANGED <<bridge, index, mu, lists, cached>>

\* RemoveAll and Rename read nameToID, let go of s.mu, then call the bridge.
Resolves(r, p, next) ==
    IF nameToID[p] = Absent
      THEN Finish(r, IF req[r].op = "move" THEN "forbidden" ELSE "notfound", Absent)
      ELSE req' = [req EXCEPT ![r].pc = next, ![r].rec = nameToID[p]]

Remove(r) ==
    /\ At(r, "remove")
    /\ mu = Free
    /\ Resolves(r, req[r].dst, "delete")
    /\ UNCHANGED <<bridge, index, mu, lists, cached>>

\* No error: a DELETE is done, a MOVE goes on.
Deleted(r) == IF req[r].op = "move" THEN Goto(r, "lookOld") ELSE Finish(r, "ok", req[r].rec)

\* With noRecord, here and in the next two, an error body without "error": the
\* bridge has changed nothing, and the client reports success.
DeleteFile(r) ==
    /\ At(r, "delete")
    /\ \/ /\ home' = [home EXCEPT ![req[r].rec] = Gone]
          /\ Deleted(r) \/ (Fails("lostReply") /\ Finish(r, "error", Absent))
       \/ Fails("noRecord") /\ Deleted(r) /\ UNCHANGED home
       \/ Fails("bridge") /\ Finish(r, "error", Absent) /\ UNCHANGED home
    /\ UNCHANGED <<env, created, folders, index, mu, lists, cached>>

LookOld(r) ==
    /\ At(r, "lookOld")
    /\ mu = Free
    /\ Resolves(r, req[r].path, "rename")
    /\ UNCHANGED <<bridge, index, mu, lists, cached>>

\* RenameFile is given the base name: the record stays in its folder.
RenameFile(r) ==
    /\ At(r, "rename")
    /\ \/ /\ home[req[r].rec] # Gone
          /\ home' = [home EXCEPT ![req[r].rec] = <<@[1], req[r].dst[2]>>]
          /\ \/ Finish(r, "ok", req[r].rec)
             \/ Fails("lostReply") /\ Finish(r, "error", Absent)
       \/ /\ home[req[r].rec] = Gone \/ Fails("bridge")
          /\ Finish(r, "error", Absent)
          /\ UNCHANGED home
       \/ Fails("noRecord") /\ Finish(r, "ok", req[r].rec) /\ UNCHANGED home
    /\ UNCHANGED <<env, created, folders, index, mu, lists, cached>>

\* Mkdir: the maps learn of the folder from a later listing only.
CreateFolder(r) ==
    /\ At(r, "mkcol")
    /\ \/ folders' = folders \union {Dir(r)} /\ Finish(r, "ok", Absent)
       \/ Fails("bridge") /\ Finish(r, "error", Absent) /\ UNCHANGED folders
       \/ Fails("noRecord") /\ Finish(r, "ok", Absent) /\ UNCHANGED folders
    /\ UNCHANGED <<env, home, created, index, mu, lists, cached>>

-----------------------------------------------------------------------------
ListDirStep(r) == ListSeesNil(r) \/ ListMake(r) \/ ListCheck(r) \/ ListCall(r) \/ ListStore(r)

\* Steps that take s.mu.
LockStep(r) ==
    \/ ListMerge(r) \/ Stat(r) \/ StatAgain(r) \/ Lookup(r)
    \/ OpenTopLevel(r) \/ OpenInFolder(r) \/ OpenEntry(r) \/ OpenDir(r)
    \/ Resolve(r) \/ Publish(r) \/ DavStat(r) \/ Remove(r) \/ LookOld(r)

\* Steps that end: computation, and calls of the bridge, whose client gives up
\* after 30 seconds.
PlainStep(r) ==
    \/ ListDirStep(r) \/ Close(r) \/ Create(r) \/ GetFile(r)
    \/ DeleteFile(r) \/ RenameFile(r) \/ CreateFolder(r)

\* Transfers of content: their client has no timeout and may wait for ever.
StorageStep(r) == Fetch(r) \/ Blobs(r)

Arrives(r) ==
    \/ \E p \in env.paths : \/ Get(r, p) \/ Delete(r, p)
                            \/ \E full \in BOOLEAN : Put(r, p, full)
                            \/ \E q \in env.paths : Move(r, p, q)
    \/ \E d \in UsedDirs : LET p == <<d, CHOOSE n \in Names : TRUE>>
                           IN  Propfind(r, p) \/ Mkcol(r, p)

Next ==
    \/ \E r \in Requests : Arrives(r) \/ LockStep(r) \/ PlainStep(r) \/ StorageStep(r)
    \/ \E d \in Dirs : Expire(d)
    \/ \E i \in Ids : Evict(i)

Spec == Init /\ [][Next]_vars

\* A goroutine that can run runs, and sync.RWMutex lets every waiter in.  The
\* network of the content transfers, the clock and the users promise nothing.
Fairness == \A r \in Requests : WF_vars(PlainStep(r)) /\ SF_vars(LockStep(r))

FairSpec == Spec /\ Fairness

-----------------------------------------------------------------------------
(* Properties *)

TypeOK ==
    /\ env \in Environments
    /\ home \in [Ids -> Paths \union {Gone}]
    /\ created \in 0..MaxRecords
    /\ folders \subseteq Folders
    /\ fileInfo \in [Paths -> Ids \union {Absent, NilPtr}]
    /\ nameToID \in [Paths -> Ids \union {Absent}]
    /\ folderInfo \subseteq Folders
    /\ mu \in Requests \union {Free, Orphan}
    /\ listNil \in BOOLEAN
    /\ listing \in [Dirs -> SUBSET (Names \union Folders \union {Root})]
    /\ fresh \subseteq Dirs
    /\ cached \subseteq Ids
    /\ req \in [Requests -> Request]

\* Every file a cached listing shows resolves to a record in both maps: OpenFile
\* and statFor find the metadata of what the client was shown, RemoveAll and Rename
\* its id, whatever lists, uploads and deletes run meanwhile.  The exception is an
\* upload to which GetFile answered an error body without "error": Close then puts
\* a nil entry in fileInfo, also for a listed name, and a GET of it panics until
\* the next listing is merged; DELETE and MOVE still resolve.  (server.go:575-595:
\* cacheEntries runs before the listing is stored, and neither map loses a key;
\* 1025-1030: nameToID is written first.)
ListedIsResolvable ==
    \A d \in Dirs, n \in Names : n \in listing[d] =>
        /\ nameToID[<<d, n>>] \in Ids
        /\ \/ fileInfo[<<d, n>>] \in Ids
           \/ fileInfo[<<d, n>>] = NilPtr /\ Fails("noRecord")

\* Whenever s.mu is free, the record DELETE and MOVE act on (nameToID) is the
\* record GET serves (fileInfo).  True as long as GetFile answers with a record:
\* two maps are written, and Close fills them on the two sides of a call of the
\* bridge.  (server.go:379-386, 1025-1030.)
NamesAgree ==
    (mu = Free /\ ~Fails("bridge") /\ ~Fails("noRecord")) => nameToID = fileInfo

\* A record is only ever made by a PUT that wrote: a browse, a read or a
\* thumbnail never uploads.  (server.go:882-883, "Read-only handles must NEVER
\* trigger uploads".)
OnlyWritersUpload ==
    [][created' # created =>
         \E r \in Requests : req[r].op = "put" /\ req[r].written /\ req[r] # req'[r]]_vars

\* s.mu is kept from one step to the next only by a Close that waits for GetFile,
\* and by a goroutine that panicked there; so without a reply that holds no record
\* the lock is always released after one call of the bridge, which ends.
\* (server.go:1025-1030; every other Lock and RLock of the file is let go of before
\* a call.)
LockIsBrief ==
    /\ \A r \in Requests : mu = r <=> At(r, "getFile")
    /\ mu = Orphan => Fails("noRecord")

\* The steps from here to the end of listDir.
ListDirLeft(l) ==
    CASE l = "listNil" -> 6 [] l = "listMake" -> 5 [] l = "listCheck" -> 4
      [] l = "listCall" -> 3 [] l = "listMerge" -> 2 [] l = "listStore" -> 1
      [] OTHER -> 0

\* At most so many steps are left to a request with these locals.
StepsLeft(q) ==
    CASE ListDirLeft(q.pc) > 0 -> ListDirLeft(q.pc) + (IF q.cont = "stat" THEN 17 ELSE 9)
      [] q.pc = "stat" -> 24
      [] q.pc = "statAgain" -> 17
      [] q.pc = "open" -> 16
      [] q.pc = "openEntry" -> 9
      [] q.pc = "lookup" -> 8
      [] q.pc = "fetch" -> 7
      [] q.pc = "close" -> 6
      [] q.pc \in {"resolve", "davStat"} -> 5
      [] q.pc \in {"blobs", "remove"} -> 4
      [] q.pc \in {"create", "delete"} -> 3
      [] q.pc \in {"publish", "lookOld"} -> 2
      [] q.pc \in {"getFile", "rename", "mkcol"} -> 1
      [] OTHER -> 0

\* No handler goes round: a step belongs to one request, which either arrives or
\* comes nearer to its answer, by at most 24 steps through both listings and an
\* upload or a download; only the clock and the cache move without one.
\* (server.go:225-349, 402-603, 687-700, 742-762, 876-1036.)
AnswersComeNearer ==
    [][\/ UNCHANGED <<home, created, folders, index, mu, req>>
       \/ \E r \in Requests :
            /\ \A s \in Requests : s # r => req'[s] = req[s]
            /\ IF At(r, "idle") THEN req'[r].pc # "idle"
                              ELSE StepsLeft(req'[r]) < StepsLeft(req[r])]_vars

\* A request waits for ever only in a content transfer of its own: a transfer
\* that hangs keeps no other request from being answered.
HungTransferBlocksNobody ==
    \A r \in Requests : []<>(req[r].pc \in {"idle", "fetch", "blobs"})
=============================================================================
