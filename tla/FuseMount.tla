------------------------------ MODULE FuseMount ------------------------------
(***************************************************************************)
(* A FUSE mount: the root Dir with its entries map, the inodes that Lookup *)
(* and Create hand out, and their files, composed with the storage and the *)
(* uploads of a WebDAV server on the same account.  FuseFile has the       *)
(* details of one file: its blocks, its spool, its tests without the lock. *)
(* Here a Write replaces the whole text.                                   *)
(***************************************************************************)
EXTENDS ChunkStore

CONSTANTS
    Kernel,      \* kernel requests
    MaxNodes     \* bound of the model: inodes made between two starts

\* An environment also has
\*   requests: the kernel requests that can be open at a time
\*   names:    the names that the kernel asks for
\*   puts:     the names that WebDAV clients write
\*   local:    encryptor.IsEnabled(), for the life of the account
ASSUME MountAssumption ==
    /\ MaxNodes \in Nat
    /\ \A e \in Environments :
          /\ e.requests \subseteq Kernel /\ e.names \subseteq Names /\ e.puts \subseteq Names
          /\ e.local \in BOOLEAN

Nodes == 1..MaxNodes
NoId  == 0      \* no record, no inode, no upload

VARIABLES
    entries,   \* Dir.entries
    node,      \* the File of each inode
    made,      \* inodes made so far
    known,     \* inodes that the kernel was given
    call,      \* the kernel requests
    cache      \* what the disk cache holds for each record

mountVars == <<entries, node, made, known, call, cache>>
vars == <<storeVars, mountVars>>

File == [name: Names, id: Uploads \union {NoId}, data: Texts \union {Nil}, dirty: BOOLEAN]

ASSUME FileAssumption == Nil \notin File

\* list, merge: loadDir, with the lock of the Dir; create: waits for that lock;
\* wait: a Read that saw f.data == nil; save: a Flush or Release that saw dirty;
\* fetch, upload, store (an upload, in the cache): with the lock of the file.
Call == [pc: {"idle", "list", "merge", "create", "wait", "fetch", "save", "upload", "store"},
         name: Names \union {Nil}, creates: BOOLEAN, node: Nodes \union {NoId},
         left: [Names -> Uploads \union {NoId}],
         got: [Chunks -> Sealed \union {ErrorBody, Nil}], up: Uploads \union {NoId}]

Nothing == [n \in Names |-> NoId]

Idle == [pc |-> "idle", name |-> Nil, creates |-> FALSE, node |-> NoId,
         left |-> Nothing, got |-> [i \in Chunks |-> Nil], up |-> NoId]

MountInit ==
    /\ entries = Nothing
    /\ node = [k \in Nodes |-> Nil] /\ made = 0 /\ known = {}
    /\ call = [p \in Kernel |-> Idle]
    /\ cache = [r \in Uploads |-> Nil]

Init == StoreInit /\ MountInit

At(p, pc)     == call[p].pc = pc
Goto(p, pc)   == call' = [call EXCEPT ![p].pc = pc]
Return(p)     == call' = [call EXCEPT ![p] = Idle]

-----------------------------------------------------------------------------
(* Lookup, Readdir and Create of the root *)

\* Lookup holds the lock for reading, Readdir (a call without a name) alone.
Inside(p)   == call[p].pc \in {"list", "merge"}
MayRead     == \A q \in Kernel : Inside(q) => call[q].name # Nil
MayWrite    == \A q \in Kernel : ~Inside(q)

\* Mutant: Lookup ends with whatever the map gives.
AnswerUnchecked(p, ents) ==
    LET n == call[p].name IN
    /\ Return(p)
    /\ known' = IF n = Nil THEN known ELSE known \union {ents[n]}

\* The end of a Lookup: the inode, or ENOENT.  The kernel may then ask for Create.
Answer(p, ents) ==
    LET n == call[p].name IN
    IF n = Nil THEN Return(p) /\ UNCHANGED known
    ELSE IF ents[n] # NoId THEN Return(p) /\ known' = known \union {ents[n]}
    ELSE IF call[p].creates THEN Goto(p, "create") /\ UNCHANGED known
    ELSE Return(p) /\ UNCHANGED known

LookupHit(p, n) ==
    /\ At(p, "idle") /\ MayRead /\ entries[n] # NoId
    /\ known' = known \union {entries[n]}
    /\ UNCHANGED <<storeVars, entries, node, made, call, cache>>

LookupMiss(p, n, creates) ==
    /\ At(p, "idle") /\ MayRead /\ entries[n] = NoId
    /\ call' = [call EXCEPT ![p] = [Idle EXCEPT !.pc = "list", !.name = n, !.creates = creates]]
    /\ UNCHANGED <<storeVars, entries, node, made, known, cache>>

Readdir(p) ==
    /\ At(p, "idle") /\ MayWrite
    /\ call' = [call EXCEPT ![p] = [Idle EXCEPT !.pc = "list"]]
    /\ UNCHANGED <<storeVars, entries, node, made, known, cache>>

RecordsOf(n) == {r \in Uploads : records[r] # Nil /\ records[r].name = n}

ToMake(l) == {n \in Names : l[n] # NoId}

\* The folder of a record that Create's file made is its own path, which the
\* bridge may or may not take for the root.
MayBeElsewhere(n) == \A r \in RecordsOf(n) : up[r].front = "fuse"

\* The bridge lists the records in some order, and the last of a name wins.  An
\* error body without "error" is taken for an empty list.
List(p) ==
    /\ At(p, "list")
    /\ \E l \in [Names -> Uploads \union {NoId}] :
         /\ \/ \A n \in Names : l[n] \in RecordsOf(n) \/ (MayBeElsewhere(n) /\ l[n] = NoId)
            \/ "noRecord" \in env.faults /\ l = Nothing
         /\ IF ToMake(l) = {} \/ made = MaxNodes                       \* bound
            THEN Answer(p, entries)
            ELSE /\ call' = [call EXCEPT ![p].pc = "merge", ![p].left = l]
                 /\ UNCHANGED known
    /\ UNCHANGED <<storeVars, entries, node, made, cache>>

\* The error is logged, and the map is as it was.
ListFails(p) ==
    /\ At(p, "list") /\ "bridge" \in env.faults
    /\ Answer(p, entries)
    /\ UNCHANGED <<storeVars, entries, node, made, cache>>

\* Mutant: the map is made anew and filled with the names of the listing.
MergedAnew(n) == [m \in Names |-> IF m = n THEN made + 1 ELSE NoId]

Merged(n) == [entries EXCEPT ![n] = made + 1]

\* Mutant: loadDir asks the file it replaces whether it is dirty.
MayReplaceClean(n) ==
    \A q \in Kernel : call[q].pc \in {"fetch", "upload", "store"} => call[q].node # entries[n]

MayReplace(n) == TRUE

\* A new inode for a name of the listing, whatever the old one was doing.
Merge(p, n) ==
    /\ At(p, "merge") /\ call[p].left[n] # NoId
    /\ MayReplace(n)
    /\ IF made < MaxNodes                                             \* bound
       THEN /\ made' = made + 1
            /\ node' = [node EXCEPT ![made + 1] =
                          [name |-> n, id |-> call[p].left[n], data |-> Nil, dirty |-> FALSE]]
            /\ entries' = Merged(n)
       ELSE UNCHANGED <<made, node, entries>>
    /\ LET l == [call[p].left EXCEPT ![n] = NoId] IN
       IF ToMake(l) = {}
       THEN Answer(p, entries')
       ELSE call' = [call EXCEPT ![p].left = l] /\ UNCHANGED known
    /\ UNCHANGED <<storeVars, cache>>

\* The kernel keeps other calls on the directory away while it creates a name.
Create(p) ==
    /\ At(p, "create") /\ MayWrite
    /\ IF entries[call[p].name] = NoId /\ made < MaxNodes     \* bound
       THEN /\ made' = made + 1
            /\ node' = [node EXCEPT ![made + 1] =
                          [name |-> call[p].name, id |-> NoId, data |-> Nil, dirty |-> FALSE]]
            /\ entries' = [entries EXCEPT ![call[p].name] = made + 1]
            /\ known' = known \union {made + 1}
       ELSE UNCHANGED <<made, node, entries, known>>
    /\ Return(p)
    /\ UNCHANGED <<storeVars, cache>>

-----------------------------------------------------------------------------
(* The files *)

Locked(k) == \E q \in Kernel : call[q].pc \in {"fetch", "upload", "store"} /\ call[q].node = k

\* The first n chunks of t, whole, are on the disk.
CutOff(t, n) == [i \in Chunks |-> IF i <= n THEN t[i] ELSE Gone]

CutShort(r, t) ==
    /\ "disk" \in env.faults
    /\ \E n \in 0..NumChunks : cache' = [cache EXCEPT ![r] = CutOff(t, n)]

\* Cache.Set.  An error is logged: nothing was stored, or a part of it.
CacheSet(r, t) ==
    \/ cache' = [cache EXCEPT ![r] = t]
    \/ "disk" \in env.faults /\ UNCHANGED cache
    \/ CutShort(r, t)

\* A file without a record is empty, and a Read of it is answered at once.
Read(p, k) ==
    /\ At(p, "idle") /\ k \in known
    /\ node[k].data = Nil /\ node[k].id # NoId
    /\ call' = [call EXCEPT ![p] = [Idle EXCEPT !.pc = "wait", !.node = k]]
    /\ UNCHANGED <<storeVars, entries, node, made, known, cache>>

FromCache(p) ==
    LET k == call[p].node IN
    /\ At(p, "wait") /\ ~Locked(k)
    /\ cache[node[k].id] # Nil
    /\ node' = [node EXCEPT ![k].data = cache[node[k].id]]
    /\ Return(p)
    /\ UNCHANGED <<storeVars, entries, made, known, cache>>

\* Not in the cache: never stored, or evicted.  GetFile, then the URLs by index.
Download(p) ==
    /\ At(p, "wait") /\ ~Locked(call[p].node)
    /\ Goto(p, "fetch")
    /\ UNCHANGED <<storeVars, entries, node, made, known, cache>>

\* One chunk after the other, in the order of the record.
Fetch(p, i) ==
    LET r == node[call[p].node].id IN
    /\ At(p, "fetch") /\ call[p].got[i] = Nil
    /\ \A j \in 1..(i - 1) : call[p].got[j] # Nil
    /\ \E b \in Reply(records[r].chunks[i]) : call' = [call EXCEPT ![p].got[i] = b]
    /\ UNCHANGED <<storeVars, entries, node, made, known, cache>>

\* The text of a download that has all its chunks.
Downloaded(p) ==
    IF At(p, "fetch") /\ \A i \in Chunks : call[p].got[i] # Nil
    THEN Opened(node[call[p].node].id, call[p].got) ELSE {}

Assemble(p) ==
    LET k == call[p].node IN
    /\ \E t \in Downloaded(p) :
         /\ node' = [node EXCEPT ![k].data = t]
         /\ CacheSet(node[k].id, t)
    /\ Return(p)
    /\ UNCHANGED <<storeVars, entries, made, known>>

\* GetFile, the URLs or a transfer; or Decrypt.
DownloadFails(p) ==
    /\ \/ At(p, "wait") /\ ~Locked(call[p].node) /\ "bridge" \in env.faults
       \/ At(p, "fetch") /\ "storage" \in env.faults
       \/ /\ At(p, "fetch") /\ \A i \in Chunks : call[p].got[i] # Nil
          /\ Downloaded(p) = {}
    /\ Return(p)
    /\ UNCHANGED <<storeVars, entries, node, made, known, cache>>

Write(p, k) ==
    /\ At(p, "idle") /\ k \in known /\ ~Locked(k) /\ written < MaxContents
    /\ written' = written + 1
    /\ node' = [node EXCEPT ![k].data = Text(written + 1), ![k].dirty = TRUE]
    /\ UNCHANGED <<env, up, started, store, records, granted, entries, made, known, call, cache>>

\* Flush or Release.
Flush(p, k) ==
    /\ At(p, "idle") /\ k \in known /\ ~Locked(k) /\ node[k].dirty
    /\ call' = [call EXCEPT ![p] = [Idle EXCEPT !.pc = "save", !.node = k]]
    /\ UNCHANGED <<storeVars, entries, node, made, known, cache>>

\* uploadOnce, with the lock.
SaveClean(p) ==
    /\ At(p, "save") /\ ~Locked(call[p].node) /\ ~node[call[p].node].dirty
    /\ Return(p)
    /\ UNCHANGED <<storeVars, entries, node, made, known, cache>>

Upload(p) ==
    LET f == node[call[p].node] IN
    /\ At(p, "save") /\ ~Locked(call[p].node) /\ f.dirty
    /\ Start("fuse", f.name, f.data, env.local)
    /\ call' = [call EXCEPT ![p].pc = "upload", ![p].up = started + 1]
    /\ UNCHANGED <<written, entries, node, made, known, cache>>

Recorded(p) ==
    /\ At(p, "upload") /\ CreateFileRecord(call[p].up)
    /\ node' = [node EXCEPT ![call[p].node].id = call[p].up]
    /\ Goto(p, "store")
    /\ UNCHANGED <<entries, made, known, cache>>

Saved(p) ==
    LET k == call[p].node IN
    /\ At(p, "store")
    /\ CacheSet(node[k].id, node[k].data)
    /\ node' = [node EXCEPT ![k].dirty = FALSE]
    /\ Return(p)
    /\ UNCHANGED <<storeVars, entries, made, known>>

\* Mutant: the file is marked clean whatever upload returns.
NotSavedClean(p) ==
    /\ At(p, "upload") /\ UploadFails(call[p].up)
    /\ node' = [node EXCEPT ![call[p].node].dirty = FALSE]
    /\ Return(p)
    /\ UNCHANGED <<entries, made, known, cache>>

NotSaved(p) ==
    /\ At(p, "upload") /\ UploadFails(call[p].up)
    /\ Return(p)
    /\ UNCHANGED <<entries, node, made, known, cache>>

-----------------------------------------------------------------------------
(* The process ends, and is started again: only the cache is left. *)

\* What the call p is writing to the cache, or is about to.
Storing(p) ==
    IF At(p, "store") THEN {node[call[p].node].data} ELSE Downloaded(p)

\* Also in the middle of a write to the cache, of which the next start finds a part.
Dies ==
    /\ Cut("fuse")
    /\ entries' = Nothing /\ node' = [k \in Nodes |-> Nil] /\ made' = 0 /\ known' = {}
    /\ call' = [p \in Kernel |-> Idle]
    /\ \/ UNCHANGED cache
       \/ \E p \in Kernel : \E t \in Storing(p) : CutShort(node[call[p].node].id, t)

\* A signal: Unmount and os.Exit, whatever runs.
Signal == Dies

\* created or fileMeta is nil, and its first use ends the process.
MeetsNil(p) ==
    /\ \/ At(p, "upload") /\ NilRecord(call[p].up)
       \/ At(p, "wait") /\ ~Locked(call[p].node) /\ "noRecord" \in env.faults
    /\ Dies

\* A Lookup writes the map while another one writes or reads it: the runtime
\* ends the process when it notices.
MapFault(p, q) ==
    /\ p # q /\ At(p, "merge") /\ call[p].name # Nil
    /\ At(q, "merge") \/ At(q, "idle")
    /\ Dies

-----------------------------------------------------------------------------
(* The WebDAV server on the same account *)

PutFile(n) ==
    /\ written < MaxContents
    /\ written' = written + 1
    /\ Start("webdav", n, Text(written + 1), FALSE)
    /\ UNCHANGED mountVars

\* Close; a nil record ends the request with a panic.
Closed(u) ==
    /\ up[u].front = "webdav"
    /\ \/ CreateFileRecord(u)
       \/ UploadFails(u)
       \/ NilRecord(u) /\ Abandon(u)
    /\ UNCHANGED mountVars

ServerDies ==
    /\ \E u \in Uploads : up[u].front = "webdav" /\ up[u].pc \in {"urls", "put"}
    /\ Cut("webdav")
    /\ UNCHANGED mountVars

-----------------------------------------------------------------------------
Transfer(u) ==
    /\ GetUploadURLs(u) \/ \E i \in Chunks : Put(u, i) \/ PutFails(u, i)
    /\ UNCHANGED mountVars

DirStep(p) == List(p) \/ ListFails(p) \/ \E n \in Names : Merge(p, n)

FileStep(p) ==
    \/ FromCache(p) \/ Download(p) \/ Assemble(p) \/ DownloadFails(p)
    \/ \E i \in Chunks : Fetch(p, i)
    \/ SaveClean(p) \/ Upload(p) \/ Recorded(p) \/ Saved(p) \/ NotSaved(p) \/ MeetsNil(p)

Request(p) ==
    \/ \E n \in env.names : LookupHit(p, n) \/ \E c \in BOOLEAN : LookupMiss(p, n, c)
    \/ Readdir(p)
    \/ \E k \in Nodes : Read(p, k) \/ Write(p, k) \/ Flush(p, k)

Next ==
    \/ \E p \in env.requests : Request(p) \/ DirStep(p) \/ Create(p) \/ FileStep(p)
    \/ Signal \/ \E p, q \in env.requests : MapFault(p, q)
    \/ \E n \in env.puts : PutFile(n)
    \/ \E u \in Uploads : Transfer(u) \/ Closed(u)
    \/ ServerDies

Spec == Init /\ [][Next]_vars

Fairness == \A p \in Kernel : WF_vars(DirStep(p)) /\ SF_vars(Create(p))

FairSpec == Spec /\ Fairness

-----------------------------------------------------------------------------
(* Properties *)

TypeOK ==
    /\ StoreTypeOK
    /\ entries \in [Names -> 0..made]
    /\ made \in 0..MaxNodes
    /\ node \in [Nodes -> File \union {Nil}]
    /\ \A k \in Nodes : node[k] = Nil <=> k > made
    /\ known \subseteq 1..made
    /\ call \in [Kernel -> Call]
    /\ cache \in [Uploads -> Texts \union {Nil}]

\* t may be what a reader of record r is shown.
Honest(r, t) ==
    /\ records[r] # Nil
    /\ Exclusive(r) /\ Ordered(r) =>
          \E n \in 0..NumChunks : \A i \in Chunks :
             t[i] \in IF i <= n THEN {up[r].text[i], ErrorBody} ELSE {Gone}

\* What a clean file or the disk cache holds for a record is, chunk by chunk,
\* what was uploaded for it, or the body of an error answer, whose status
\* download does not look at; and the end of it may be missing, once a process
\* ended in the middle of a write to the cache or the disk was full (the run
\* cache_torn shows how).  Nothing else: through racing uploads, downloads,
\* Writes, lost answers and restarts, unless the bridge gave its paths away or
\* did not list them in order, each once.  (filesystem.go:495-621, 772-782,
\* cache.go:48-66, 108.)
ReadsAreOwn ==
    /\ \A k \in 1..made : ~node[k].dirty /\ node[k].data # Nil =>
          node[k].id # NoId /\ Honest(node[k].id, node[k].data)
    /\ \A r \in Uploads : cache[r] # Nil => Honest(r, cache[r])

\* No text of another upload is in t, whatever the paths of r hold by now.
NotForeign(r, t) ==
    \A i \in Chunks :
       \/ t[i] \in {up[r].text[j] : j \in Chunks} \union {ErrorBody, Gone}
       \/ t[i].kind = "raw" /\ t[i].of \in granted[records[r].chunks[i]]

\* One text, of any upload, whole or cut off.
OfOneText(t) ==
    \E u \in Uploads, n \in 0..NumChunks : up[u].local /\ t = CutOff(up[u].text, n)

KeptApart(r, t) == NotForeign(r, t) \/ (env.local /\ OfOneText(t))

\* A path that a second upload of the name was given too shows its reader the
\* sealed bytes of the other upload at most, never its text: a chunk opens only
\* with the key of its own record, and what does not open is passed on as it is.
\* The exception is an account with the local encryptor, whose one key opens all:
\* there a reader may be shown the other upload's text, but never a mixture of
\* two.  (filesystem.go:580-612, 653-659, server.go:921-927.)
NothingForeign ==
    /\ \A k \in 1..made : ~node[k].dirty /\ node[k].data # Nil =>
          KeptApart(node[k].id, node[k].data)
    /\ \A r \in Uploads : cache[r] # Nil => KeptApart(r, cache[r])

\* loadDir replaces the inode of a file that is being written.  All the same, a
\* file with unsaved Writes is found under its name, unless the account has a
\* record of that name, which is found instead.  (filesystem.go:150-182,
\* 787-822.)
UnsavedIsReachable ==
    \A k \in known : node[k].dirty /\ entries[node[k].name] # k => RecordsOf(node[k].name) # {}

\* The directory is never locked for longer than its listings take, though a
\* file is locked for a whole upload or download, and these may hang: every
\* Lookup, Readdir and Create is answered.  (filesystem.go:84, 133-182,
\* 208-216, 454-493.)
DirectoryAnswers ==
    \A p \in Kernel : []<>(call[p].pc \notin {"list", "merge", "create"})
=============================================================================
