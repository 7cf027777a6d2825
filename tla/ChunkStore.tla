----------------------------- MODULE ChunkStore -----------------------------
(***************************************************************************)
(* Where the content of files goes: the objects of the storage, the        *)
(* records of the account, and the uploads that make both, of either front *)
(* end.  A step here is one request to the bridge or to the storage; the   *)
(* pool that sends the PUTs of an upload is ChunkTransfer, of which this   *)
(* module uses what AllOrNothing says: it settles every chunk once and     *)
(* answers when all are settled.                                           *)
(*                                                                         *)
(* A text is a function from chunks to pieces.  A piece is a chunk of some *)
(* content, a sealed chunk that nobody could open, the body of an error    *)
(* answer, or gone: its end is missing, or all of it.  A sealed chunk is   *)
(* known by the upload that sealed it, because every upload has a key (or, *)
(* with the local encryptor, an IV) of its own.                            *)
(***************************************************************************)
EXTENDS Integers, Sequences, FiniteSets

CONSTANTS
    Names,        \* base names of files
    NumChunks,    \* chunks of every text
    MaxUploads,   \* bound of the model: uploads
    MaxContents,  \* bound of the model: contents that clients write
    Environments, \* the worlds a behaviour may run in, with
                  \*   faults: what goes wrong, subset of AllFaults
                  \*   places: where the bridge puts chunks, subset of Places
    Nil           \* model value: no object, no record, nothing loaded

AllFaults == {"bridge", "gap", "reorder", "repeat", "storage", "lostReply", "noRecord",
              "errorBody", "disk"}

Places == {"asked", "own"}

Chunks   == 1..NumChunks
Stray    == 0                  \* an index that nobody asked for
Indices  == Chunks \union {Stray}
Uploads  == 1..MaxUploads
Contents == 1..MaxContents

ASSUME ConstantsAssumption ==
    /\ Names # {} /\ NumChunks \in Nat \ {0} /\ MaxUploads \in Nat /\ MaxContents \in Nat
    /\ \A e \in Environments : e.faults \subseteq AllFaults /\ e.places \subseteq Places

VARIABLES
    env,       \* the environment, which does not change
    up,        \* the uploads
    started,   \* how many there are
    store,     \* the object at each path of the storage
    records,   \* the record each upload has made at the bridge
    written,   \* contents that clients have written
    granted    \* history: the uploads that were given an URL for a path

storeVars == <<env, up, started, store, records, written, granted>>

\* The path asked for has the date, the base name and the index in it, so two
\* uploads of a name on one day ask for the same; or the bridge gives its own.
Path == (Names \X Indices) \union (Uploads \X Indices)

\* A path that was asked for is none of the bridge's own.
ASSUME PathAssumption == Names \intersect Uploads = {}

Sealed == [by: Uploads, part: Chunks]

Text(c)  == [i \in Chunks |-> [kind |-> "text", of |-> c, part |-> i]]
Raw(s)   == [kind |-> "raw", of |-> s.by, part |-> s.part]
ErrorBody == [kind |-> "error", of |-> 0, part |-> 0]
Gone      == [kind |-> "gone", of |-> 0, part |-> 0]

Piece == [kind: {"text"}, of: Contents, part: Chunks]
         \union [kind: {"raw"}, of: Uploads, part: Chunks]
         \union {ErrorBody, Gone}

Texts == [Chunks -> Piece]

Record == [name: Names, chunks: [Chunks -> Path]]

ASSUME NilAssumption == Nil \notin Sealed \union Texts \union Record \union {ErrorBody}

\* The URLs of an answer: their indices, in the order the bridge lists them.  (Bounds
\* of the model: no answer is longer than asked for, and one index has one path.)
Answers == UNION {[1..n -> Indices] : n \in 0..NumChunks}

InOrder(a) == \A j, k \in DOMAIN a : j < k => a[j] <= a[k]

\* Each index is one that was asked for, and is there once.
Distinct(a) == \A k \in DOMAIN a : a[k] # Stray /\ \A j \in DOMAIN a : a[j] = a[k] => j = k

Job == [pc: {"none", "urls", "put", "done", "failed"}, front: {"fuse", "webdav"},
        name: Names, text: Texts \union {Nil}, local: BOOLEAN,
        answer: Answers, place: Places,
        todo: SUBSET Chunks, failed: BOOLEAN]

NoJob == [pc |-> "none", front |-> "fuse", name |-> CHOOSE n \in Names : TRUE, text |-> Nil,
          local |-> FALSE, answer |-> <<>>, place |-> "own", todo |-> {}, failed |-> FALSE]

StoreInit ==
    /\ env \in Environments
    /\ up = [u \in Uploads |-> NoJob]
    /\ started = 0 /\ written = 0
    /\ store = [q \in Path |-> Nil]
    /\ records = [u \in Uploads |-> Nil]
    /\ granted = [q \in Path |-> {}]

PathOf(u, i) == IF up[u].place = "asked" THEN <<up[u].name, i>> ELSE <<u, i>>

-----------------------------------------------------------------------------
(* One upload *)

\* A new key (GenerateKeyHex), or the text sealed as a whole and then cut.
Start(front, name, text, local) ==
    /\ started < MaxUploads
    /\ started' = started + 1
    /\ up' = [up EXCEPT ![started + 1] =
                [NoJob EXCEPT !.pc = "urls", !.front = front, !.name = name,
                              !.text = text, !.local = local]]
    /\ UNCHANGED <<env, store, records, granted>>

End(u, pc) ==
    up' = [up EXCEPT ![u].pc = pc, ![u].todo = {}, ![u].failed = FALSE, ![u].answer = <<>>,
                     ![u].place = "own"]

GetUploadURLs(u) ==
    /\ up[u].pc = "urls"
    /\ \E a \in Answers, pl \in env.places :
         LET job   == [up[u] EXCEPT !.pc = "put", !.answer = a, !.place = pl,
                                    !.todo = {a[j] : j \in DOMAIN a} \ {Stray}]
             given == {IF pl = "asked" THEN <<job.name, a[j]>> ELSE <<u, a[j]>> : j \in DOMAIN a}
         IN /\ "gap" \in env.faults \/ Len(a) = NumChunks
            /\ "reorder" \in env.faults \/ InOrder(a)
            /\ "repeat" \in env.faults \/ Distinct(a)
            /\ up' = [up EXCEPT ![u] = job]
            /\ granted' = [q \in Path |-> IF q \in given THEN granted[q] \union {u}
                                                         ELSE granted[q]]
    /\ UNCHANGED <<env, started, store, records, written>>

\* A PUT, in any order with the others; each goes to the URL of its index.
Put(u, i) ==
    /\ up[u].pc = "put" /\ i \in up[u].todo
    /\ store' = [store EXCEPT ![PathOf(u, i)] = [by |-> u, part |-> i]]
    /\ up' = [up EXCEPT ![u].todo = @ \ {i}]
    /\ UNCHANGED <<env, started, records, written, granted>>

\* It fails, or the object is there and the answer is lost.
PutFails(u, i) ==
    /\ up[u].pc = "put" /\ i \in up[u].todo /\ "storage" \in env.faults
    /\ \/ UNCHANGED store
       \/ store' = [store EXCEPT ![PathOf(u, i)] = [by |-> u, part |-> i]]
    /\ up' = [up EXCEPT ![u].todo = @ \ {i}, ![u].failed = TRUE]
    /\ UNCHANGED <<env, started, records, written, granted>>

Listed(u) == {up[u].answer[j] : j \in DOMAIN up[u].answer}

\* No error.  upload also asks for an URL for each chunk.  Close passes over a chunk
\* that has none; its last loop panics at a position that the answer does not have.
Complete(u) ==
    /\ ~up[u].failed
    /\ IF up[u].front = "fuse" THEN Chunks \subseteq Listed(u)
                              ELSE Len(up[u].answer) >= NumChunks

\* Mutant: the record is made without waiting for the PUTs.
AllPutEarly(u) == up[u].pc = "put"

AllPut(u) == up[u].pc = "put" /\ up[u].todo = {}

\* Mutant: upload takes the paths by position, as Close does.
ChunkListByPosition(u) == [i \in Chunks |-> PathOf(u, up[u].answer[i])]

\* upload takes the paths by index, Close by position.
ChunkList(u) ==
    [i \in Chunks |-> PathOf(u, IF up[u].front = "fuse" THEN i ELSE up[u].answer[i])]

\* (The parent folder is left out; List says what becomes of it.)
MakeRecord(u) ==
    records' = [records EXCEPT ![u] = [name |-> up[u].name, chunks |-> ChunkList(u)]]

CreateFileRecord(u) ==
    /\ AllPut(u) /\ Complete(u)
    /\ MakeRecord(u)
    /\ End(u, "done")
    /\ UNCHANGED <<env, started, store, written, granted>>

\* No URLs, a PUT that failed, an URL that is missing, no record, or a record
\* whose answer is lost.
UploadFails(u) ==
    /\ \/ up[u].pc = "urls" /\ "bridge" \in env.faults /\ UNCHANGED records
       \/ AllPut(u) /\ ~Complete(u) /\ UNCHANGED records
       \/ AllPut(u) /\ Complete(u) /\ "bridge" \in env.faults /\ UNCHANGED records
       \/ AllPut(u) /\ Complete(u) /\ "lostReply" \in env.faults /\ MakeRecord(u)
    /\ End(u, "failed")
    /\ UNCHANGED <<env, started, store, written, granted>>

\* An error body without "error" is taken for a success without a record.
NilRecord(u) == AllPut(u) /\ Complete(u) /\ "noRecord" \in env.faults

\* Close meets the nil record: the request ends in a panic.
Abandon(u) == End(u, "failed") /\ UNCHANGED <<env, started, store, records, written, granted>>

\* The process of a front end ends, and its uploads with it.
Cut(front) ==
    /\ up' = [u \in Uploads |->
                IF up[u].front = front /\ up[u].pc \in {"urls", "put"}
                THEN [up[u] EXCEPT !.pc = "failed", !.todo = {}, !.failed = FALSE, !.place = "own", !.answer = <<>>]
                ELSE up[u]]
    /\ UNCHANGED <<env, started, store, records, written, granted>>

-----------------------------------------------------------------------------
(* Reading a record back *)

\* What the storage answers for a path.  The status is not looked at.
Reply(q) == IF store[q] = Nil THEN {ErrorBody}
            ELSE {store[q]} \union (IF "errorBody" \in env.faults THEN {ErrorBody} ELSE {})

AsIs(b) == IF b = ErrorBody THEN ErrorBody ELSE Raw(b)

\* Mutant: one key for the account, so that every sealed chunk opens.
OpenChunkAnyKey(r, b) == IF b # ErrorBody THEN up[b.by].text[b.part] ELSE AsIs(b)

\* A chunk opens with the key of the upload that sealed it, with the key in the
\* record that is; one that does not open is passed on as it is.
OpenChunk(r, b) == IF b # ErrorBody /\ b.by = r THEN up[r].text[b.part] ELSE AsIs(b)

\* What the local encryptor sealed opens as a whole, or Decrypt fails.
OpenWhole(blobs) ==
    {up[u].text : u \in {v \in Uploads : up[v].local
                            /\ blobs = [i \in Chunks |-> [by |-> v, part |-> i]]}}

\* The text, if any, that the blobs of record r give.
Opened(r, blobs) ==
    IF up[r].local THEN OpenWhole(blobs) ELSE {[i \in Chunks |-> OpenChunk(r, blobs[i])]}

-----------------------------------------------------------------------------
(* Properties *)

StoreTypeOK ==
    /\ env \in Environments
    /\ up \in [Uploads -> Job]
    /\ started \in 0..MaxUploads /\ written \in 0..MaxContents
    /\ store \in [Path -> Sealed \union {Nil}]
    /\ records \in [Uploads -> Record \union {Nil}]
    /\ granted \in [Path -> SUBSET Uploads]

\* No other upload was given a path of record r.
Exclusive(r) == \A i \in Chunks : granted[records[r].chunks[i]] = {r}

\* The paths are those of the chunks, in order; upload sees to that itself.
Ordered(r) == up[r].front = "webdav" => \A i \in Chunks : records[r].chunks[i][2] = i

\* A path that a record lists is stored, whichever PUTs failed, were lost or had no
\* URL; and what lies there, in order, is what was uploaded.  Close does not see to
\* it alone: it takes the bridge's word for it that the URLs are listed in order, each
\* index once and no other.  Else a record lists a path that was never written, or
\* lists its chunks in another order, or one of them twice.  A path of the record that
\* the bridge gave to another upload too may hold that upload's chunk.
\* (filesystem.go:690-775, server.go:933-936, 941-1020.)
RecordsReadBack ==
    \A r \in Uploads : records[r] # Nil =>
        \A i \in Chunks :
            LET object == store[records[r].chunks[i]] IN
            /\ object # Nil \/ (up[r].front = "webdav" /\ records[r].chunks[i][2] = Stray)
            /\ Exclusive(r) /\ Ordered(r) => object = [by |-> r, part |-> i]

\* The bridge gave record r places of its own, in order.
Private(r) == records[r] # Nil /\ \A i \in Chunks : records[r].chunks[i] = <<r, i>>

\* What a reader of record r may get, from a storage that does not fail.
Readable(r) ==
    Opened(r, [i \in Chunks |-> LET object == store[records[r].chunks[i]]
                                IN  IF object = Nil THEN ErrorBody ELSE object])

Books == INSTANCE Archive WITH
            given   <- [u \in Uploads |-> up[u].text],
            kept    <- [r \in Uploads |-> IF Private(r) THEN Readable(r) ELSE {}],
            Nothing <- Nil

\* A record whose places are its own reads back as the text that was uploaded, from
\* the moment it is made and for ever: through PUTs that fail or are lost, answers
\* that are lost, processes that end in the middle, and whatever the bridge does to
\* the paths of other uploads.  (filesystem.go:622-800, server.go:876-1036.)
ActsAsArchive == Books!KSpec
=============================================================================
