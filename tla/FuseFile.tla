------------------------------ MODULE FuseFile ------------------------------
(***************************************************************************)
(* One file of the FUSE front end (fs.File): its buffer, its spool, and    *)
(* the calls the kernel makes on it concurrently, from the first Read or   *)
(* Write to the upload a Flush or Release starts, with the account behind  *)
(* it.                                                                     *)
(*                                                                         *)
(* Contents are sequences of blocks.  A block is what a Write put there,   *)
(* Old for the content the account had, or Zero.  The branches on lazy and *)
(* platKeyOK are left out: nothing in the repository sets either field.    *)
(***************************************************************************)
EXTENDS Integers, Sequences, FiniteSets

CONSTANTS
    Procs,          \* kernel requests that can be open at a time
    Blocks,         \* what a Write may write
    SpoolThreshold, \* spoolThreshold, in blocks
    MaxLen,         \* bound of the model: blocks of a file
    MaxWrites,      \* bound of the model: Writes
    MaxRecords,     \* bound of the model: records of the account
    Starts,         \* the file is "new" or "listed", or either
    Faults,         \* what goes wrong: subset of AllFaults
    Old, Zero,      \* model values: blocks
    Nil             \* model value: f.data == nil, no spool, no content

AllFaults == {"bridge", "lostReply", "cache", "spool"}

ASSUME ConstantsAssumption ==
    /\ SpoolThreshold \in Nat /\ MaxLen \in Nat \ {0} /\ MaxWrites \in Nat
    /\ MaxRecords \in Nat \ {0}
    /\ Starts \subseteq {"new", "listed"} /\ Faults \subseteq AllFaults
    /\ Old \notin Blocks /\ Zero \notin Blocks /\ Old # Zero
    /\ \A n \in 0..MaxLen : Nil \notin [1..n -> Blocks \union {Old, Zero}]
    /\ Nil \notin Seq(Blocks \union {Old, Zero})

Ids     == 1..MaxRecords
NoId    == 0         \* f.id == "": a file that Create made
Block   == Blocks \union {Old, Zero}
Content == Seq(Block)

VARIABLES
    data, size, dirty, id,    \* the fields of File
    spool,      \* the content of the file at tmpPath, or Nil when tmpPath == ""
    remote,     \* the records of the account, with the content of their chunks
    cache,      \* what the disk cache holds under the key of each record
    created,    \* records made so far
    pc, off,    \* where each request is, and the offset of each Read
    want,       \* history: what the file should hold
    lost,       \* history: whether the buffer or the spool still holds it
    inside,     \* history: whether the last Write ended before the end of the file
    writes,     \* history: Writes so far
    saved       \* history: how many of them the last acknowledged upload covered

vars == <<data, size, dirty, id, spool, remote, cache, created, pc, off, want, lost,
          inside, writes, saved>>

fields  == <<data, size, dirty, id, spool>>
account == <<remote, cache, created>>
history == <<want, lost, inside, writes, saved>>

\* Dir.Create makes an empty File, loadDir one with the size of the listing.
Init ==
    /\ \E s \in Starts, n \in 1..MaxLen :
         LET old == [i \in 1..n |-> Old] IN
         IF s = "new"
         THEN /\ data = <<>> /\ size = 0 /\ id = NoId /\ created = 0 /\ want = <<>>
              /\ remote = [i \in Ids |-> Nil]
         ELSE /\ data = Nil /\ size = n /\ id = 1 /\ created = 1 /\ want = old
              /\ remote = [i \in Ids |-> IF i = 1 THEN old ELSE Nil]
    /\ dirty = FALSE /\ spool = Nil
    /\ cache = [i \in Ids |-> Nil]
    /\ pc = [p \in Procs |-> "idle"] /\ off = [p \in Procs |-> 0]
    /\ lost = "no" /\ inside = FALSE /\ writes = 0 /\ saved = 0

Reading == {"check", "download", "serve"}

Goto(p, l) ==
    /\ pc' = [pc EXCEPT ![p] = l]
    /\ off' = [off EXCEPT ![p] = IF l \in Reading THEN @ ELSE 0]

Length(s) == IF s = Nil THEN 0 ELSE Len(s)

\* Mutant: the buffer is grown by a block too many.
OverlayLong(s, o, b) ==
    [i \in 1..(IF o + Len(b) >= Length(s) THEN o + Len(b) + 1 ELSE Length(s)) |->
        IF i > o /\ i <= o + Len(b) THEN b[i - o]
        ELSE IF i <= Length(s) THEN s[i] ELSE Zero]

\* Mutant: the new buffer ends with the block written, also inside the file.
OverlayCut(s, o, b) ==
    [i \in 1..(o + Len(b)) |->
        IF i > o THEN b[i - o] ELSE IF i <= Length(s) THEN s[i] ELSE Zero]

\* s with the blocks b written at o; a gap is filled with zeros.
Overlay(s, o, b) ==
    [i \in 1..(IF o + Len(b) > Length(s) THEN o + Len(b) ELSE Length(s)) |->
        IF i > o /\ i <= o + Len(b) THEN b[i - o]
        ELSE IF i <= Length(s) THEN s[i] ELSE Zero]

-----------------------------------------------------------------------------
(* Read *)

\* A Read at or beyond f.size is answered with nothing, at once.
EndOfFile(o) == o >= size

Read(p, o) ==
    /\ pc[p] = "idle" /\ ~EndOfFile(o)
    /\ pc' = [pc EXCEPT ![p] = "check"] /\ off' = [off EXCEPT ![p] = o]
    /\ UNCHANGED <<fields, account, history>>

\* f.data == nil is asked without the lock.
CheckLoaded(p) ==
    /\ pc[p] = "check"
    /\ Goto(p, IF data = Nil THEN "download" ELSE "serve")
    /\ UNCHANGED <<fields, account, history>>

\* A download replaces the buffer whatever was written to it meanwhile.
Overwritten == lost' = IF dirty THEN "yes" ELSE lost

\* download, with the lock held: from the cache, or from the account.
Fetch(p) ==
    /\ pc[p] = "download" /\ id # NoId /\ cache[id] = Nil
    /\ data' = remote[id] /\ size' = Len(remote[id])
    /\ \/ cache' = [cache EXCEPT ![id] = remote[id]]
       \/ "cache" \in Faults /\ UNCHANGED cache
    /\ Overwritten
    /\ Goto(p, "serve")
    /\ UNCHANGED <<dirty, id, spool, remote, created, want, inside, writes, saved>>

FromCache(p) ==
    /\ pc[p] = "download" /\ id # NoId /\ cache[id] # Nil
    /\ data' = cache[id] /\ size' = Len(cache[id])
    /\ Overwritten
    /\ Goto(p, "serve")
    /\ UNCHANGED <<dirty, id, spool, account, want, inside, writes, saved>>

\* A file without a record has nothing to download; the bridge may fail.
DownloadFails(p) ==
    /\ pc[p] = "download"
    /\ id = NoId \/ ("bridge" \in Faults /\ cache[id] = Nil)
    /\ Goto(p, "idle")
    /\ UNCHANGED <<fields, account, history>>

\* The blocks of s from o to its end: none, if there are none.
Rest(s, o) == IF o >= Len(s) THEN <<>> ELSE SubSeq(s, o + 1, Len(s))

\* What a Read that asks for the rest of the file is served: the buffer, which may
\* have become shorter than the offset, and may be longer than f.size.
Served(p) == Rest(data, off[p])

Serve(p) ==
    /\ pc[p] = "serve"
    /\ Goto(p, "idle")
    /\ UNCHANGED <<fields, account, history>>

-----------------------------------------------------------------------------
(* Write *)

\* Mutant: the buffer is grown without the copy.
GrownEmpty(o, b) == data' = Overlay([i \in 1..Length(data) |-> Zero], o, b)

Grown(o, b) == data' = Overlay(data, o, b)

\* Mutant: f.size only grows when the buffer does not.
SizeStays(o, b) == size' = IF o + Len(b) > Length(data) THEN size ELSE o + Len(b)

\* f.size becomes the end of this Write, also inside the file.
Sized(o, b) == size' = o + Len(b)

\* What every Write that reports success does.
Accepted(o, b) ==
    /\ writes < MaxWrites
    /\ Sized(o, b) /\ dirty' = TRUE
    /\ want' = Overlay(want, o, b) /\ writes' = writes + 1
    /\ inside' = (o + Len(b) < Len(want))

\* In memory.
WriteBuffer(p, o, b) ==
    /\ pc[p] = "idle"
    /\ spool = Nil /\ o + Len(b) <= SpoolThreshold
    /\ Grown(o, b)
    /\ Accepted(o, b)
    /\ lost' = IF data = Nil THEN "yes" ELSE lost
    /\ UNCHANGED <<id, spool, account, pc, off, saved>>

\* The spool starts with the buffer.
SpoolBase == IF spool # Nil THEN spool ELSE IF data = Nil THEN <<>> ELSE data

\* The block goes to the spool, and the buffer becomes zeros, or loses its tail.
ToSpool(p, o, b) ==
    LET end == o + Len(b) IN
    /\ pc[p] = "idle"
    /\ spool # Nil \/ end > SpoolThreshold
    /\ data' = IF end > Length(data) THEN [i \in 1..end |-> Zero] ELSE SubSeq(data, 1, end)
    /\ Accepted(o, b)
    /\ UNCHANGED <<id, account, pc, off, saved>>

WriteSpool(p, o, b) ==
    /\ ToSpool(p, o, b)
    /\ spool' = Overlay(SpoolBase, o, b)
    /\ lost' = IF data = Nil \/ lost = "yes" THEN "yes" ELSE "inSpool"

\* What tmp.Write leaves of the buffer when the disk is full; a spool that is
\* there already is not written again.
Bases == IF spool # Nil THEN {spool} ELSE {SubSeq(SpoolBase, 1, n) : n \in 0..Len(SpoolBase)}

\* The errors of tmp.Write and tf.WriteAt are dropped: Write reports success, and
\* some of the buffer, or of the block, is missing in the spool.
WriteShort(p, o, b) ==
    /\ "spool" \in Faults
    /\ ToSpool(p, o, b)
    /\ \E base \in Bases :
          \/ spool' = base
          \/ \E n \in 1..Len(b) : spool' = Overlay(base, o, SubSeq(b, 1, n))
    /\ spool' # Overlay(SpoolBase, o, b)
    /\ lost' = "yes"

\* os.CreateTemp or os.OpenFile fails, the latter after the spool was made: only
\* then does Write report an error.
WriteFails(p, o, b) ==
    /\ pc[p] = "idle" /\ writes < MaxWrites /\ "spool" \in Faults
    /\ spool # Nil \/ o + Len(b) > SpoolThreshold
    /\ spool' \in {spool} \union Bases
    /\ lost' = IF spool' # spool /\ (data = Nil \/ spool' # data) THEN "yes" ELSE lost
    /\ UNCHANGED <<data, size, dirty, id, account, pc, off, want, inside, writes, saved>>

-----------------------------------------------------------------------------
(* Flush, Release and uploadOnce *)

\* Both ask for dirty and let go of the lock.
Flush(p) ==
    /\ pc[p] = "idle" /\ dirty
    /\ Goto(p, "upload")
    /\ UNCHANGED <<fields, account, history>>

UploadClean(p) ==
    /\ pc[p] = "upload" /\ ~dirty
    /\ Goto(p, "idle")
    /\ UNCHANGED <<fields, account, history>>

\* Mutant: the cache key is made before f.id is set.
OldKey == IF id = NoId THEN 1 ELSE id

CacheKey == created + 1

\* The chunks, then the record, its id and the cache.  What is uploaded is the
\* buffer, also when there is a spool.
Uploaded(p) ==
    /\ created < MaxRecords
    /\ created' = created + 1
    /\ remote' = [remote EXCEPT ![created + 1] = data]
    /\ id' = created + 1 /\ dirty' = FALSE /\ spool' = Nil
    /\ \/ cache' = [cache EXCEPT ![CacheKey] = data]
       \/ "cache" \in Faults /\ UNCHANGED cache
    /\ lost' = IF lost = "inSpool" THEN "yes" ELSE lost
    /\ saved' = writes
    /\ Goto(p, "idle")
    /\ UNCHANGED <<data, size, want, inside, writes>>

\* Mutant: uploadOnce relies on the dirty its caller has read.
UploadUnchecked(p) == pc[p] = "upload" /\ spool # <<>> /\ Uploaded(p)

Upload(p) == pc[p] = "upload" /\ dirty /\ spool # <<>> /\ Uploaded(p)

\* An empty spool is taken for an empty file: it is marked clean, not uploaded.
UploadEmpty(p) ==
    /\ pc[p] = "upload" /\ dirty /\ spool = <<>>
    /\ dirty' = FALSE
    /\ Goto(p, "idle")
    /\ UNCHANGED <<data, size, id, spool, account, history>>

\* Mutant: the file is marked clean before the upload has succeeded.
UploadFailsClean(p) ==
    /\ pc[p] = "upload" /\ dirty /\ "bridge" \in Faults
    /\ dirty' = FALSE
    /\ Goto(p, "idle")
    /\ UNCHANGED <<data, size, id, spool, account, history>>

\* The spool cannot be read, the bridge or the storage fails, or the record was
\* made and the answer is lost.  Flush returns EIO, Release only logs it.
UploadFails(p) ==
    /\ pc[p] = "upload" /\ dirty
    /\ \/ "bridge" \in Faults /\ UNCHANGED <<created, remote>>
       \/ /\ "lostReply" \in Faults /\ created < MaxRecords /\ spool # <<>>
          /\ created' = created + 1
          /\ remote' = [remote EXCEPT ![created + 1] = data]
    /\ Goto(p, "idle")
    /\ UNCHANGED <<fields, cache, history>>

-----------------------------------------------------------------------------

\* What a Write may bring: one block or two alike, at any offset.
Pieces == {<<b>> : b \in Blocks} \union {<<b, b>> : b \in Blocks}

Request(p) ==
    \/ \E o \in 0..(MaxLen - 1) : Read(p, o)
    \/ \E o \in 0..(MaxLen - 1), b \in Pieces :
          /\ o + Len(b) <= MaxLen
          /\ WriteBuffer(p, o, b) \/ WriteSpool(p, o, b) \/ WriteShort(p, o, b) \/ WriteFails(p, o, b)
    \/ CheckLoaded(p) \/ Fetch(p) \/ FromCache(p) \/ DownloadFails(p) \/ Serve(p)
    \/ Flush(p) \/ UploadClean(p) \/ Upload(p) \/ UploadEmpty(p) \/ UploadFails(p)

Next == \E p \in Procs : Request(p)

Spec == Init /\ [][Next]_vars

-----------------------------------------------------------------------------
(* Properties *)

Contents == UNION {[1..n -> Block] : n \in 0..MaxLen}

TypeOK ==
    /\ data \in Contents \union {Nil} /\ spool \in Contents \union {Nil}
    /\ size \in 0..MaxLen /\ dirty \in BOOLEAN /\ id \in Ids \union {NoId}
    /\ remote \in [Ids -> Contents \union {Nil}] /\ cache \in [Ids -> Contents \union {Nil}]
    /\ created \in 0..MaxRecords
    /\ pc \in [Procs -> {"idle", "upload"} \union Reading] /\ off \in [Procs -> 0..(MaxLen - 1)]
    /\ want \in Contents /\ lost \in {"no", "inSpool", "yes"} /\ inside \in BOOLEAN
    /\ writes \in 0..MaxWrites /\ saved \in 0..writes

\* A file that is not dirty is what the account holds, however the uploads of
\* concurrent Flushes and Releases went - unless its spool is empty because the disk
\* refused it: uploadOnce takes that for an empty file and marks it clean without an
\* upload (filesystem.go:472-475).  (filesystem.go:425-450, 454-493.)
CleanIsSaved == ~dirty /\ data # Nil /\ id # NoId /\ spool # <<>> => remote[id] = data

\* The cache never answers for a record with another content than the record's,
\* through downloads, uploads and changes of f.id.  (filesystem.go:496-500,
\* 613-616, 777-782.)
CacheIsCoherent == \A i \in Ids : cache[i] # Nil => cache[i] = remote[i]

\* A record is made only for Writes that no acknowledged record covers: one
\* close is one upload, also when Flush and Release run at once.
\* (filesystem.go:452-459, "persists the file exactly once per close cycle".)
NothingSavedTwice == [][created' # created => saved # writes]_vars

\* What was written is in the buffer, or in the spool once there is one.  There are
\* four ways to lose it, and no other: a Write to a file that was not loaded
\* (filesystem.go:376-410), a download after a Write (208-216), a spool given up by an
\* upload (461-493), and a spool the disk took only in part while Write reported
\* success (391, 399).
WrittenIsKept ==
    /\ lost = "no" /\ data # Nil => data = want
    /\ lost # "yes" /\ spool # Nil => spool = want

\* A file that is not dirty is saved as it was written.  (RELEASE-NOTES.md:10-11,
\* "edits buffer locally (RAM <= 32 MB, then spooled to disk) and upload exactly
\* once on close".)
SavedIsWritten == ~dirty /\ id # NoId => remote[id] = want

\* The file is in its buffer: loaded, not spooled, and nothing of it lost.
Plain == data # Nil /\ spool = Nil /\ lost = "no"

\* While a file is in its buffer, a Read that is under way is served the rest of what
\* was written, also where f.size ends before, and a Read is told "end of file" only
\* at the end - unless the last Write ended inside the file: f.size is then the end
\* of that Write, and what lies behind it cannot be read until the file is loaded
\* again.  (filesystem.go:192-224, 415, 496-500, 618-619.)
ReadsReachTheEnd ==
    Plain => /\ \A p \in Procs : pc[p] = "serve" => Served(p) = Rest(want, off[p])
             /\ \A o \in 0..(MaxLen - 1) : EndOfFile(o) => Rest(want, o) = <<>> \/ inside

\* What the record of the file keeps, before it has one: nothing.
Kept == IF id = NoId THEN Nil ELSE remote[id]

File == INSTANCE WriteBack WITH content <- data, visible <- size, kept <- Kept,
                                Blank <- Zero, Nothing <- Nil

\* While a file is in its buffer, the buffer, f.size and the record are those of a
\* WriteBack: requests of the kernel that run at once, downloads that come late,
\* uploads that fail, and uploads whose record was made and whose answer was lost,
\* change neither what a save would keep nor, but for a late download, what a Read
\* may ask for; only a Write changes the content, and only a save what is kept.
\* (RELEASE-NOTES.md:10-11; filesystem.go:376-500.)
BufferIsWriteBack == [][Plain /\ Plain' => [File!WNext]_<<data, size, dirty, Kept>>]_vars

\* The whole behaviour of such a file, from its creation.  (RELEASE-NOTES.md:10-11;
\* filesystem.go:376-500.)
ActsAsWriteBack == File!WSpec
=============================================================================
