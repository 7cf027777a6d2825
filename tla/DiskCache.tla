------------------------------ MODULE DiskCache ------------------------------
(***************************************************************************)
(* cache.Cache: an index in memory over one file per key, shared by the    *)
(* goroutines of both front ends behind an RWMutex, and rebuilt from the   *)
(* directory by NewCache when the process starts again.                    *)
(*                                                                         *)
(* A value is written whole or not: content is a value and the length of   *)
(* the prefix of it that the file holds.  Time is a counter; only its      *)
(* order matters.  The hit and miss counters, which nothing reads but the  *)
(* uncalled Stats, are left out.                                           *)
(***************************************************************************)
EXTENDS Integers, FiniteSets, Functions

CONSTANTS
    Procs,       \* goroutines that use the cache
    Keys, Values,
    SizeOf,      \* the bytes of a value
    MaxSize,     \* c.maxSize
    Faults,      \* what goes wrong: subset of AllFaults
    MaxClock,    \* bound of the model: readings of the clock
    Free,        \* nobody
    None,        \* nothing
    Torn         \* part of a value

AllFaults == {"kill", "read", "remove", "write"}

ASSUME ConstantsAssumption ==
    /\ SizeOf \in [Values -> Nat \ {0}]
    /\ MaxSize \in Nat /\ MaxClock \in Nat
    /\ Faults \subseteq AllFaults
    /\ Free \notin Procs /\ None \notin Keys \union Values /\ Torn \notin Values \union {None}
    /\ None \notin [size : Nat, at : Nat]
    /\ None \notin [val : Values, len : Nat, mtime : Nat] \union [val : Values, len : Nat]

VARIABLES
    entries,    \* c.entries: Size and AccessAt of each key, or None
    files,      \* the cache directory: content and mtime, or None
    writer,     \* who holds mu.Lock
    readers,    \* who hold mu.RLock
    proc,       \* the call each goroutine is in
    hit,        \* content the Get of each goroutine is about to return, or None
    clock,      \* time.Now
    used,       \* history: when each key was last read or written, restarts or not
    refused     \* history: keys whose file could not be removed or written

vars == <<entries, files, writer, readers, proc, hit, clock, used, refused>>

Entry   == [size : Nat, at : Nat]
Content == [val : Values, len : Nat, mtime : Nat]
Data    == [val : Values, len : Nat]

\* Where a goroutine is: in which step of a call, for which key and value, the
\* keys its loop has still to visit, and the time it has read.
At(l, k, v, left, stamp) == [pc |-> l, key |-> k, val |-> v, left |-> left, stamp |-> stamp]

Idle == At("idle", None, None, {}, 0)

Init ==
    /\ entries = [k \in Keys |-> None]
    /\ files = [k \in Keys |-> None]
    /\ writer = Free /\ readers = {}
    /\ proc = [p \in Procs |-> Idle]
    /\ hit = [p \in Procs |-> None]
    /\ clock = 0
    /\ used = [k \in Keys |-> 0]
    /\ refused = {}

Cached    == {k \in Keys : entries[k] # None}
TotalSize == FoldFunctionOnSet(+, 0, [k \in Cached |-> entries[k].size], Cached)
DiskUsage == LET held == {k \in Keys : files[k] # None}
             IN  FoldFunctionOnSet(+, 0, [k \in held |-> files[k].len], held)

Goto(p, l) == proc' = [proc EXCEPT ![p].pc = l]
Unlock(p)  == proc' = [proc EXCEPT ![p] = Idle] /\ writer' = Free /\ UNCHANGED readers
RUnlock(p) == proc' = [proc EXCEPT ![p] = Idle] /\ readers' = readers \ {p} /\ UNCHANGED writer

-----------------------------------------------------------------------------
(* Get and Has *)

Get(p, k) ==
    /\ proc[p].pc = "idle" /\ writer = Free
    /\ readers' = readers \union {p}
    /\ proc' = [proc EXCEPT ![p] = At("get", k, None, {}, 0)]
    /\ UNCHANGED <<entries, files, writer, hit, clock, used, refused>>

\* Mutant: an early return without the unlock.
GetMissLocked(p) ==
    /\ proc[p].pc = "get" /\ entries[proc[p].key] = None
    /\ proc' = [proc EXCEPT ![p] = Idle]
    /\ UNCHANGED <<entries, files, writer, readers, hit, clock, used, refused>>

GetMiss(p) ==
    /\ proc[p].pc = "get"
    /\ \/ entries[proc[p].key] = None
       \/ files[proc[p].key] = None
       \/ "read" \in Faults
    /\ RUnlock(p)
    /\ UNCHANGED <<entries, files, hit, clock, used, refused>>

\* os.ReadFile and time.Now; the entry is stamped in a step of its own, with
\* other readers between.
GetHit(p) ==
    LET k == proc[p].key IN
    /\ proc[p].pc = "get" /\ entries[k] # None /\ files[k] # None
    /\ clock < MaxClock
    /\ hit' = [hit EXCEPT ![p] = [val |-> files[k].val, len |-> files[k].len]]
    /\ clock' = clock + 1
    /\ proc' = [proc EXCEPT ![p] = At("touch", k, None, {}, clock + 1)]
    /\ used' = [used EXCEPT ![k] = clock + 1]
    /\ UNCHANGED <<entries, files, writer, readers, refused>>

Touch(p) ==
    /\ proc[p].pc = "touch"
    /\ entries' = [entries EXCEPT ![proc[p].key].at = proc[p].stamp]
    /\ hit' = [hit EXCEPT ![p] = None]
    /\ RUnlock(p)
    /\ UNCHANGED <<files, clock, used, refused>>

-----------------------------------------------------------------------------
(* Set *)

Set(p, k, v) ==
    /\ proc[p].pc = "idle" /\ writer = Free /\ readers = {}
    /\ clock < MaxClock
    /\ writer' = p
    /\ proc' = [proc EXCEPT ![p] = At("evict", k, v, Cached, 0)]
    /\ UNCHANGED <<entries, files, readers, hit, clock, used, refused>>

\* Mutant: the space check forgets what is about to be written.
FitsWithout(p) == TotalSize <= MaxSize

Fits(p) == TotalSize + SizeOf[proc[p].val] <= MaxSize

\* Mutant: the order of the sort is the other way round.
Newest(k, S) == \A j \in S : entries[j].at <= entries[k].at

Oldest(k, S) == \A j \in S : entries[k].at <= entries[j].at

\* One turn of the loop over the entries, oldest first.
Evict(p) ==
    /\ proc[p].pc = "evict" /\ ~Fits(p)
    /\ \E k \in proc[p].left :
         /\ Oldest(k, proc[p].left)
         /\ proc' = [proc EXCEPT ![p].left = @ \ {k}]
         /\ \/ /\ entries' = [entries EXCEPT ![k] = None]
               /\ files' = [files EXCEPT ![k] = None]
               /\ UNCHANGED refused
            \/ /\ "remove" \in Faults
               /\ refused' = refused \union {k}
               /\ UNCHANGED <<entries, files>>
    /\ UNCHANGED <<writer, readers, hit, clock, used>>

\* os.WriteFile cannot open the file: Set returns the error.
OpenFails(p) ==
    /\ proc[p].pc = "evict" /\ "write" \in Faults
    /\ Fits(p) \/ proc[p].left = {}
    /\ Unlock(p)
    /\ UNCHANGED <<entries, files, hit, clock, used, refused>>

\* Mutant: the lock is let go before the file is written.
TruncateUnlocked(p) ==
    /\ proc[p].pc = "evict"
    /\ Fits(p) \/ proc[p].left = {}
    /\ clock' = clock + 1
    /\ files' = [files EXCEPT ![proc[p].key] = [val |-> proc[p].val, len |-> 0, mtime |-> clock + 1]]
    /\ used' = [used EXCEPT ![proc[p].key] = clock + 1]
    /\ Goto(p, "write")
    /\ writer' = Free
    /\ UNCHANGED <<entries, readers, hit, refused>>

\* os.WriteFile first truncates the file of the key.
Truncate(p) ==
    /\ proc[p].pc = "evict"
    /\ Fits(p) \/ proc[p].left = {}
    /\ clock' = clock + 1
    /\ files' = [files EXCEPT ![proc[p].key] = [val |-> proc[p].val, len |-> 0, mtime |-> clock + 1]]
    /\ used' = [used EXCEPT ![proc[p].key] = clock + 1]
    /\ Goto(p, "write")
    /\ UNCHANGED <<entries, writer, readers, hit, refused>>

Write(p) ==
    /\ proc[p].pc = "write"
    /\ files' = [files EXCEPT ![proc[p].key].len = SizeOf[proc[p].val]]
    /\ Goto(p, "publish")
    /\ UNCHANGED <<entries, writer, readers, hit, clock, used, refused>>

\* The disk is full: Set returns the error, the entry of the key stays as it was.
WriteFails(p) ==
    /\ proc[p].pc = "write" /\ "write" \in Faults
    /\ \E n \in 0..(SizeOf[proc[p].val] - 1) : files' = [files EXCEPT ![proc[p].key].len = n]
    /\ refused' = refused \union {proc[p].key}
    /\ Unlock(p)
    /\ UNCHANGED <<entries, hit, clock, used>>

\* Mutant: the entry of a key that was cached before keeps its size.
PublishOldSize(p) ==
    LET k == proc[p].key IN
    /\ proc[p].pc = "publish"
    /\ entries' = [entries EXCEPT ![k] =
         [size |-> IF @ = None THEN SizeOf[proc[p].val] ELSE @.size, at |-> clock]]
    /\ used' = [used EXCEPT ![k] = clock]
    /\ Unlock(p)
    /\ UNCHANGED <<files, hit, clock, refused>>

Publish(p) ==
    LET k == proc[p].key IN
    /\ proc[p].pc = "publish"
    /\ entries' = [entries EXCEPT ![k] = [size |-> SizeOf[proc[p].val], at |-> clock]]
    /\ used' = [used EXCEPT ![k] = clock]
    /\ Unlock(p)
    /\ UNCHANGED <<files, hit, clock, refused>>

-----------------------------------------------------------------------------
(* Delete and Clear *)

Delete(p, k) ==
    /\ proc[p].pc = "idle" /\ writer = Free /\ readers = {}
    /\ entries[k] # None
    /\ \/ /\ files' = [files EXCEPT ![k] = None]
          /\ entries' = [entries EXCEPT ![k] = None]
          /\ UNCHANGED refused
       \/ /\ "remove" \in Faults
          /\ refused' = refused \union {k}
          /\ UNCHANGED <<entries, files>>
    /\ UNCHANGED <<writer, readers, proc, hit, clock, used>>

Clear(p) ==
    /\ proc[p].pc = "idle" /\ writer = Free /\ readers = {}
    /\ writer' = p
    /\ proc' = [proc EXCEPT ![p] = At("clear", None, None, Cached, 0)]
    /\ UNCHANGED <<entries, files, readers, hit, clock, used, refused>>

\* An os.Remove that fails is ignored.
ClearOne(p) ==
    /\ proc[p].pc = "clear"
    /\ \E k \in proc[p].left :
         /\ proc' = [proc EXCEPT ![p].left = @ \ {k}]
         /\ \/ files' = [files EXCEPT ![k] = None] /\ UNCHANGED refused
            \/ "remove" \in Faults /\ refused' = refused \union {k} /\ UNCHANGED files
    /\ UNCHANGED <<entries, writer, readers, hit, clock, used>>

Cleared(p) ==
    /\ proc[p].pc = "clear" /\ proc[p].left = {}
    /\ entries' = [k \in Keys |-> None]
    /\ Unlock(p)
    /\ UNCHANGED <<files, hit, clock, used, refused>>

-----------------------------------------------------------------------------
(* NewCache, after the process was killed *)

\* What the kill leaves of the directory: a file that was being written holds
\* some of its value.
Remains ==
    LET writing == {p \in Procs : proc[p].pc = "write"}
        Cut(p)  == {[files EXCEPT ![proc[p].key].len = n] : n \in 0..(SizeOf[proc[p].val] - 1)}
    IN  IF writing = {} THEN {files} ELSE UNION {Cut(p) : p \in writing}

\* loadExisting takes every file for an entry, last used when it was last written:
\* what was read since is forgotten.
Restart ==
    /\ "kill" \in Faults
    /\ files' \in Remains
    /\ entries' = [k \in Keys |-> IF files'[k] = None THEN None
                                  ELSE [size |-> files'[k].len, at |-> files'[k].mtime]]
    /\ writer' = Free /\ readers' = {}
    /\ proc' = [p \in Procs |-> Idle]
    /\ hit' = [p \in Procs |-> None]
    /\ UNCHANGED <<clock, used, refused>>

Goroutine(p) ==
    \/ \E k \in Keys : Get(p, k) \/ Delete(p, k) \/ \E v \in Values : Set(p, k, v)
    \/ GetMiss(p) \/ GetHit(p) \/ Touch(p)
    \/ Evict(p) \/ OpenFails(p) \/ Truncate(p) \/ Write(p) \/ WriteFails(p) \/ Publish(p)
    \/ Clear(p) \/ ClearOne(p) \/ Cleared(p)

Next == (\E p \in Procs : Goroutine(p)) \/ Restart

Spec == Init /\ [][Next]_vars

-----------------------------------------------------------------------------
(* Properties *)

Reading == {"get", "touch"}
Writing == {"evict", "write", "publish", "clear"}

\* Types, and that the lock is held exactly by those inside it.
TypeOK ==
    /\ entries \in [Keys -> Entry \union {None}]
    /\ files \in [Keys -> Content \union {None}]
    /\ writer \in Procs \union {Free} /\ readers \subseteq Procs
    /\ proc \in [Procs -> [pc : {"idle"} \union Reading \union Writing,
                           key : Keys \union {None}, val : Values \union {None},
                           left : SUBSET Keys, stamp : Nat]]
    /\ hit \in [Procs -> Data \union {None}]
    /\ clock \in Nat
    /\ used \in [Keys -> Nat]
    /\ refused \subseteq Keys
    /\ readers = {p \in Procs : proc[p].pc \in Reading}
    /\ \A p \in Procs : (proc[p].pc \in Writing) = (p = writer)

\* Whenever a reader may look, an entry has its file and knows its size, unless
\* a write of that file failed; so a Get misses only what is not cached, and the
\* space check counts what is there.  (cache.go:104-118, 132-137, 177-183, 200-209.)
IndexMatchesDisk ==
    writer = Free => \A k \in Cached \ refused :
        files[k] # None /\ files[k].len = entries[k].size

\* The directory stays within maxSize through evictions, overwrites, kills and
\* restarts, as long as the file system does what it is told.  One value larger
\* than maxSize is kept all the same, alone.  (cache.go:104, 141-187.)
DiskBudget ==
    refused = {} => DiskUsage <= MaxSize \/ Cardinality({k \in Keys : files[k] # None}) = 1

\* An eviction takes a key only when space is missing, and takes no key whose
\* AccessAt is true before one that was used longer ago.  AccessAt is not true of
\* a key that two overlapping Gets have set back (cache.go:91), nor of one that was
\* read before the last restart and not since: loadExisting dates it from the
\* writing of its file (cache.go:57-62), so such a key may go first although it was
\* used last.  (cache.go:151-184.)
EvictsLeastRecent ==
    [][\A p \in Procs, k \in Keys :
         /\ proc[p].pc = "evict" /\ proc'[p].pc = "evict"
         /\ entries[k] # None /\ entries'[k] = None /\ entries[k].at = used[k]
         => /\ ~(TotalSize + SizeOf[proc[p].val] <= MaxSize)
            /\ \A j \in Cached \ refused : used[k] <= used[j]]_vars

\* What a Get returns is a value that was set, all of it.
\* (cache.go:68, "Has reports whether a fresh entry exists for key.")
HitIsWhole == \A p \in Procs : hit[p] # None => hit[p].len = SizeOf[hit[p].val]

\* The cache is a LossyMap: torn values come from broken off writes only, and a
\* hit is the value set last under the key that was asked for.  (cache.go:74-121.)
Whole(c) == IF c = None THEN None ELSE IF c.len = SizeOf[c.val] THEN c.val ELSE Torn

Map == INSTANCE LossyMap WITH
           map     <- [k \in Keys |-> Whole(files[k])],
           storing <- IF \E p \in Procs : proc[p].pc = "write"
                      THEN proc[CHOOSE p \in Procs : proc[p].pc = "write"].key ELSE None,
           asked   <- [p \in Procs |-> IF proc[p].pc \in Reading THEN proc[p].key ELSE None],
           answer  <- [p \in Procs |-> Whole(hit[p])]

ActsAsLossyMap == Map!MSpec
=============================================================================
