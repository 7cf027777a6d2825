--------------------------- MODULE DiskCacheProofs ---------------------------
(***************************************************************************)
(* Proofs, for any number of goroutines, keys and values and any maxSize,  *)
(* that DiskCache is type correct and excludes writers, that its index     *)
(* matches the directory, that it evicts the least recently used, that the *)
(* directory keeps to its budget, and that the cache is a LossyMap.        *)
(***************************************************************************)
EXTENDS DiskCache, FiniteSetTheorems, TLAPS

Pcs  == {"idle"} \union Reading \union Writing
Proc == [pc : Pcs, key : Keys \union {None}, val : Values \union {None},
         left : SUBSET Keys, stamp : Nat]

\* The types, one by one.
Types ==
    /\ entries \in [Keys -> Entry \union {None}]
    /\ files \in [Keys -> Content \union {None}]
    /\ writer \in Procs \union {Free} /\ readers \subseteq Procs
    /\ proc \in [Procs -> Proc]
    /\ hit \in [Procs -> Data \union {None}]
    /\ clock \in Nat
    /\ used \in [Keys -> Nat]
    /\ refused \subseteq Keys

\* The lock is held by those inside it, by many readers or by one writer.
LockInv ==
    /\ readers = {p \in Procs : proc[p].pc \in Reading}
    /\ \A p \in Procs : (proc[p].pc \in Writing) = (p = writer)
    /\ writer # Free => readers = {}

\* What a goroutine knows of the key it works on.
CallInv ==
    \A p \in Procs :
       /\ proc[p].pc \in {"get", "touch", "evict", "write", "publish"} => proc[p].key \in Keys
       /\ proc[p].pc \in {"evict", "write", "publish"} => proc[p].val \in Values
       /\ proc[p].pc = "touch" => /\ entries[proc[p].key] # None
                                  /\ proc[p].stamp <= used[proc[p].key]
       /\ proc[p].pc = "evict" => Cached \ refused \subseteq proc[p].left
       /\ proc[p].pc = "write" => /\ files[proc[p].key] # None
                                  /\ files[proc[p].key].val = proc[p].val
                                  /\ files[proc[p].key].len = 0
       /\ proc[p].pc = "publish" => /\ files[proc[p].key] # None
                                    /\ files[proc[p].key].len = SizeOf[proc[p].val]

\* An entry matches its file unless the holder of the lock is about to see to it.
Matches(k) == files[k] # None /\ files[k].len = entries[k].size

IndexInv ==
    \A k \in Cached \ refused :
       \/ Matches(k)
       \/ \E p \in Procs : proc[p].pc \in {"write", "publish"} /\ proc[p].key = k
       \/ \E p \in Procs : proc[p].pc = "clear" /\ k \notin proc[p].left

\* AccessAt is never later than the last use, nor is the writing of the file, from
\* which a restart dates the entry; and no use is later than now.
AgeInv ==
    /\ \A k \in Cached : entries[k].at <= used[k]
    /\ \A k \in Keys : used[k] <= clock
    /\ \A k \in Keys : files[k] # None => files[k].mtime <= used[k]

IInv == Types /\ LockInv /\ CallInv /\ IndexInv /\ AgeInv

-----------------------------------------------------------------------------

LEMMA Basic ==
    /\ Free \notin Procs /\ None \notin Keys /\ None \notin Values
    /\ None \notin Entry /\ None \notin Content /\ None \notin Data
    /\ SizeOf \in [Values -> Nat \ {0}] /\ MaxClock \in Nat
  BY ConstantsAssumption DEF ConstantsAssumption, Entry, Content, Data

LEMMA AtType ==
    \A l \in Pcs, k \in Keys \union {None}, v \in Values \union {None},
       left \in SUBSET Keys, t \in Nat : At(l, k, v, left, t) \in Proc
  BY DEF At, Proc

LEMMA IdleType == Idle \in Proc /\ Idle.pc = "idle"
  BY AtType DEF Idle, At, Pcs

\* A step that gives one goroutine the local state q.
LEMMA Local ==
    ASSUME proc \in [Procs -> Proc], NEW p \in Procs, NEW q \in Proc,
           proc' = [proc EXCEPT ![p] = q]
    PROVE  /\ proc' \in [Procs -> Proc] /\ proc'[p] = q
           /\ \A s \in Procs : s # p => proc'[s] = proc[s]
  OBVIOUS

LEMMA GotoType ==
    ASSUME proc \in [Procs -> Proc], NEW p \in Procs, NEW l \in Pcs, Goto(p, l)
    PROVE  /\ proc' \in [Procs -> Proc]
           /\ proc'[p] = [proc[p] EXCEPT !.pc = l] /\ proc'[p].pc = l
           /\ proc'[p].key = proc[p].key /\ proc'[p].val = proc[p].val /\ proc'[p].left = proc[p].left
           /\ \A s \in Procs : s # p => proc'[s] = proc[s]
  <1>1. [proc[p] EXCEPT !.pc = l] \in Proc
    BY DEF Proc
  <1> QED
    BY <1>1 DEF Goto, Proc

\* With the lock held by p, nobody else is inside it.
LEMMA Alone ==
    ASSUME Types, LockInv, NEW p \in Procs, proc[p].pc \in Writing
    PROVE  /\ writer = p /\ readers = {} /\ p # Free
           /\ \A s \in Procs : s # p => proc[s].pc = "idle"
  BY Basic DEF Types, LockInv, Proc, Pcs, Reading, Writing

\* The lock is free for a writer.
LEMMA Nobody ==
    ASSUME Types, LockInv, writer = Free, readers = {}
    PROVE  \A s \in Procs : proc[s].pc = "idle"
  BY Basic DEF Types, LockInv, Proc, Pcs, Reading, Writing

-----------------------------------------------------------------------------

LEMMA Initially == Init => IInv
  <1> SUFFICES ASSUME Init PROVE IInv
    OBVIOUS
  <1>1. Types
    BY IdleType, Basic DEF Init, Types
  <1>2. LockInv /\ CallInv
    BY IdleType, Basic DEF Init, LockInv, CallInv, Reading, Writing
  <1>3. IndexInv /\ AgeInv
    BY DEF Init, IndexInv, AgeInv, Cached
  <1> QED
    BY <1>1, <1>2, <1>3 DEF IInv

LEMMA GetStep == ASSUME IInv, NEW p \in Procs, NEW k \in Keys, Get(p, k) PROVE IInv'
  <1> DEFINE q == At("get", k, None, {}, 0)
  <1>1. q \in Proc /\ q.pc = "get" /\ q.key = k
    BY AtType DEF At, Pcs, Reading
  <1>2. /\ proc' \in [Procs -> Proc] /\ proc'[p] = q
        /\ \A s \in Procs : s # p => proc'[s] = proc[s]
    BY <1>1, Local DEF Get, IInv, Types
  <1>3. Types'
    BY <1>2 DEF Get, IInv, Types
  <1>4. LockInv'
    BY <1>1, <1>2, Basic DEF Get, IInv, Types, LockInv, Reading, Writing
  <1>5. CallInv'
    BY <1>1, <1>2 DEF Get, IInv, Types, CallInv, Cached
  <1>6. IndexInv' /\ AgeInv'
    BY <1>1, <1>2 DEF Get, IInv, IndexInv, AgeInv, Cached, Matches
  <1> QED
    BY <1>3, <1>4, <1>5, <1>6 DEF IInv

LEMMA GetMissStep == ASSUME IInv, NEW p \in Procs, GetMiss(p) PROVE IInv'
  <1>1. /\ proc' \in [Procs -> Proc] /\ proc'[p] = Idle
        /\ \A s \in Procs : s # p => proc'[s] = proc[s]
    BY IdleType, Local DEF GetMiss, RUnlock, IInv, Types
  <1>2. Types'
    BY <1>1 DEF GetMiss, RUnlock, IInv, Types
  <1>3. LockInv'
    BY <1>1, IdleType DEF GetMiss, RUnlock, IInv, Types, LockInv, Reading, Writing
  <1>4. CallInv'
    BY <1>1, IdleType DEF GetMiss, RUnlock, IInv, Types, CallInv, Cached
  <1>5. IndexInv' /\ AgeInv'
    BY <1>1, IdleType DEF GetMiss, RUnlock, IInv, IndexInv, AgeInv, Cached, Matches
  <1> QED
    BY <1>2, <1>3, <1>4, <1>5 DEF IInv

LEMMA GetHitStep == ASSUME IInv, NEW p \in Procs, GetHit(p) PROVE IInv'
  <1> DEFINE k == proc[p].key
             q == At("touch", k, None, {}, clock + 1)
  <1>0. /\ proc[p].pc = "get" /\ k \in Keys /\ entries[k] # None /\ files[k] # None
        /\ clock \in Nat /\ proc[p] \in Proc
    BY DEF GetHit, IInv, CallInv, Types
  <1>1. q \in Proc /\ q.pc = "touch" /\ q.key = k /\ q.stamp = clock + 1
    <2>1. clock + 1 \in Nat /\ "touch" \in Pcs
      BY <1>0 DEF Pcs, Reading
    <2>2. q \in Proc
      BY <1>0, <2>1, AtType
    <2> QED
      BY <2>2 DEF At
  <1>2. proc' = [proc EXCEPT ![p] = q]
    BY DEF GetHit
  <1>3. /\ proc' \in [Procs -> Proc] /\ proc'[p] = q
        /\ \A s \in Procs : s # p => proc'[s] = proc[s]
    BY <1>1, <1>2, Local DEF IInv, Types
  <1> HIDE DEF q
  <1>4. /\ hit' = [hit EXCEPT ![p] = [val |-> files[k].val, len |-> files[k].len]]
        /\ clock' = clock + 1 /\ used' = [used EXCEPT ![k] = clock + 1]
        /\ UNCHANGED <<entries, files, writer, readers, refused>>
    BY DEF GetHit
  <1>5. Types'
    <2>1. [val |-> files[k].val, len |-> files[k].len] \in Data
      BY <1>0 DEF IInv, Types, Content, Data
    <2> QED
      BY <1>0, <1>3, <1>4, <2>1 DEF IInv, Types
  <1>6. LockInv'
    BY <1>0, <1>1, <1>3, <1>4 DEF IInv, Types, LockInv, Reading, Writing
  <1>7. CallInv'
    <2>1. \A j \in Keys : used[j] <= used'[j] /\ used'[j] \in Nat /\ used[j] \in Nat
      BY <1>0, <1>4 DEF IInv, Types, AgeInv
    <2>2. \A s \in Procs : proc[s].stamp \in Nat
      BY DEF IInv, Types, Proc
    <2> QED
      BY <1>0, <1>1, <1>3, <1>4, <2>1, <2>2 DEF IInv, Types, CallInv, Cached
  <1>8. IndexInv'
    BY <1>0, <1>1, <1>3, <1>4 DEF IInv, IndexInv, Cached, Matches
  <1>9. AgeInv'
    BY <1>0, <1>4 DEF IInv, Types, AgeInv, Cached, Entry, Content
  <1> QED
    BY <1>5, <1>6, <1>7, <1>8, <1>9 DEF IInv

LEMMA TouchStep == ASSUME IInv, NEW p \in Procs, Touch(p) PROVE IInv'
  <1> DEFINE k == proc[p].key
  <1>0. /\ proc[p].pc = "touch" /\ k \in Keys /\ entries[k] \in Entry
        /\ proc[p].stamp <= used[k] /\ proc[p].stamp \in Nat
    BY DEF Touch, IInv, CallInv, Types, Proc
  <1>1. /\ proc' \in [Procs -> Proc] /\ proc'[p] = Idle
        /\ \A s \in Procs : s # p => proc'[s] = proc[s]
    BY IdleType, Local DEF Touch, RUnlock, IInv, Types
  <1> DEFINE e == [entries[k] EXCEPT !.at = proc[p].stamp]
  <1>2. /\ entries' = [entries EXCEPT ![k] = e] /\ e \in Entry
        /\ e.size = entries[k].size /\ e.at = proc[p].stamp
        /\ entries'[k] # None /\ entries[k] # None
        /\ UNCHANGED <<files, writer, clock, used, refused>> /\ readers' = readers \ {p}
    <2>1. e \in Entry /\ e.size = entries[k].size /\ e.at = proc[p].stamp
      BY <1>0 DEF Entry
    <2> QED
      BY <1>0, <2>1, Basic DEF Touch, RUnlock, IInv, Types
  <1>c. Cached' = Cached
    BY <1>0, <1>2 DEF Cached, IInv, Types
  <1>3. Types'
    BY <1>0, <1>1, <1>2 DEF Touch, IInv, Types
  <1>4. LockInv'
    BY <1>0, <1>1, <1>2, IdleType DEF IInv, Types, LockInv, Reading, Writing
  <1>5. CallInv'
    BY <1>0, <1>1, <1>2, <1>c, IdleType DEF IInv, Types, CallInv
  <1>6. IndexInv'
    BY <1>0, <1>1, <1>2, <1>c, IdleType DEF IInv, Types, IndexInv, Matches
  <1>7. AgeInv'
    BY <1>0, <1>2, <1>c DEF IInv, Types, AgeInv
  <1> QED
    BY <1>3, <1>4, <1>5, <1>6, <1>7 DEF IInv

-----------------------------------------------------------------------------

LEMMA SetStep ==
    ASSUME IInv, NEW p \in Procs, NEW k \in Keys, NEW v \in Values, Set(p, k, v)
    PROVE  IInv'
  <1> DEFINE q == At("evict", k, v, Cached, 0)
  <1>0. /\ \A s \in Procs : proc[s].pc = "idle"
        /\ writer = Free /\ readers = {} /\ Cached \subseteq Keys
    BY Nobody DEF Set, IInv, Cached
  <1>1. q \in Proc /\ q.pc = "evict" /\ q.key = k /\ q.val = v /\ q.left = Cached
    <2>1. "evict" \in Pcs
      BY DEF Pcs, Writing
    <2>2. q \in Proc
      BY <1>0, <2>1, AtType
    <2> QED
      BY <2>2 DEF At
  <1>2. proc' = [proc EXCEPT ![p] = q] /\ writer' = p
        /\ UNCHANGED <<entries, files, readers, hit, clock, used, refused>>
    BY DEF Set
  <1>3. /\ proc' \in [Procs -> Proc] /\ proc'[p] = q
        /\ \A s \in Procs : s # p => proc'[s] = proc[s]
    BY <1>1, <1>2, Local DEF IInv, Types
  <1> HIDE DEF q
  <1>4. Types'
    BY <1>2, <1>3 DEF IInv, Types
  <1>5. LockInv'
    BY <1>0, <1>1, <1>2, <1>3, Basic DEF LockInv, Reading, Writing
  <1>6. CallInv'
    BY <1>0, <1>1, <1>2, <1>3 DEF CallInv, Cached
  <1>7. IndexInv' /\ AgeInv'
    BY <1>0, <1>2 DEF IInv, IndexInv, AgeInv, Cached, Matches
  <1> QED
    BY <1>4, <1>5, <1>6, <1>7 DEF IInv

\* The state of the holder of the lock p while it stays in its call.
LEMMA HolderStep ==
    ASSUME IInv, NEW p \in Procs, proc[p].pc \in Writing,
           proc' \in [Procs -> Proc], proc'[p].pc \in Writing,
           \A s \in Procs : s # p => proc'[s] = proc[s],
           UNCHANGED <<writer, readers>>
    PROVE  LockInv'
  BY Alone DEF IInv, LockInv, Reading, Writing

\* The holder of the lock p gives it up.
LEMMA UnlockStep ==
    ASSUME IInv, NEW p \in Procs, proc[p].pc \in Writing, Unlock(p)
    PROVE  /\ LockInv' /\ CallInv'
           /\ proc' \in [Procs -> Proc] /\ \A s \in Procs : proc'[s].pc = "idle"
           /\ writer' \in Procs \union {Free} /\ readers' \subseteq Procs
  <1>1. /\ proc' \in [Procs -> Proc] /\ proc'[p] = Idle
        /\ \A s \in Procs : s # p => proc'[s] = proc[s]
    BY IdleType, Local DEF Unlock, IInv, Types
  <1>2. \A s \in Procs : proc'[s].pc = "idle"
    BY <1>1, IdleType, Alone DEF IInv
  <1>3. writer' = Free /\ readers' = {}
    BY Alone DEF Unlock, IInv
  <1>4. LockInv'
    BY <1>2, <1>3, Basic DEF LockInv, Reading, Writing
  <1>5. CallInv'
    BY <1>2 DEF CallInv
  <1> QED
    BY <1>1, <1>2, <1>3, <1>4, <1>5

LEMMA EvictStep == ASSUME IInv, NEW p \in Procs, Evict(p) PROVE IInv'
  <1>0. proc[p].pc = "evict" /\ proc[p] \in Proc
    BY DEF Evict, IInv, Types
  <1>1. PICK k \in proc[p].left :
          /\ proc' = [proc EXCEPT ![p].left = @ \ {k}]
          /\ \/ /\ entries' = [entries EXCEPT ![k] = None]
                /\ files' = [files EXCEPT ![k] = None]
                /\ UNCHANGED refused
             \/ /\ refused' = refused \union {k}
                /\ UNCHANGED <<entries, files>>
    BY DEF Evict
  <1>2. UNCHANGED <<writer, readers, hit, clock, used>>
    BY DEF Evict
  <1> DEFINE q == [proc[p] EXCEPT !.left = @ \ {k}]
  <1>3. /\ k \in Keys /\ q \in Proc /\ q.left = proc[p].left \ {k}
        /\ q.pc = "evict" /\ q.key = proc[p].key /\ q.val = proc[p].val
    BY <1>0 DEF Proc
  <1>4. /\ proc' \in [Procs -> Proc] /\ proc'[p] = q
        /\ \A s \in Procs : s # p => proc'[s] = proc[s]
    BY <1>1, <1>3, Local DEF IInv, Types
  <1> HIDE DEF q
  <1>5. \A s \in Procs : s # p => proc[s].pc = "idle"
    BY <1>0, Alone DEF IInv, Writing
  <1>6. Types'
    BY <1>1, <1>2, <1>3, <1>4 DEF IInv, Types
  <1>7. LockInv'
    BY <1>0, <1>2, <1>3, <1>4, HolderStep DEF Writing
  <1>8. CallInv'
    <2>1. Cached \ refused \subseteq proc[p].left /\ proc[p].key \in Keys /\ proc[p].val \in Values
      BY <1>0 DEF IInv, CallInv
    <2>2. (Cached \ refused)' \subseteq q.left
      BY <1>1, <1>3, <2>1 DEF IInv, Types, Cached
    <2> QED
      BY <1>3, <1>4, <1>5, <2>1, <2>2 DEF CallInv
  <1>9. IndexInv'
    <2>1. \A j \in Cached \ refused : Matches(j)
      BY <1>0, <1>5 DEF IInv, IndexInv
    <2> QED
      BY <1>1, <1>3, <2>1 DEF IInv, Types, IndexInv, Matches, Cached
  <1>10. AgeInv'
    BY <1>1, <1>2, <1>3 DEF IInv, Types, AgeInv, Cached
  <1> QED
    BY <1>6, <1>7, <1>8, <1>9, <1>10 DEF IInv

LEMMA TruncateStep == ASSUME IInv, NEW p \in Procs, Truncate(p) PROVE IInv'
  <1> DEFINE k == proc[p].key
             c == [val |-> proc[p].val, len |-> 0, mtime |-> clock + 1]
  <1>0. proc[p].pc = "evict" /\ k \in Keys /\ proc[p].val \in Values /\ clock \in Nat
    BY DEF Truncate, IInv, Types, CallInv
  <1>1. /\ proc' \in [Procs -> Proc] /\ proc'[p].pc = "write"
        /\ proc'[p].key = k /\ proc'[p].val = proc[p].val
        /\ \A s \in Procs : s # p => proc'[s] = proc[s]
    BY GotoType DEF Truncate, IInv, Types, Pcs, Writing
  <1>2. c \in Content /\ c.val = proc[p].val /\ c.len = 0 /\ c.mtime = clock + 1 /\ c # None
    BY <1>0, Basic DEF Content
  <1>3. /\ files' = [files EXCEPT ![k] = c] /\ clock' = clock + 1
        /\ used' = [used EXCEPT ![k] = clock + 1]
        /\ UNCHANGED <<entries, writer, readers, hit, refused>>
    BY DEF Truncate
  <1> HIDE DEF c
  <1>4. \A s \in Procs : s # p => proc[s].pc = "idle"
    BY <1>0, Alone DEF IInv, Writing
  <1>5. Types'
    BY <1>0, <1>1, <1>2, <1>3 DEF IInv, Types
  <1>6. LockInv'
    BY <1>0, <1>1, <1>3, HolderStep DEF Writing
  <1>7. CallInv'
    BY <1>0, <1>1, <1>2, <1>3, <1>4 DEF IInv, Types, CallInv
  <1>8. IndexInv'
    <2>1. \A j \in Cached \ refused : Matches(j)
      BY <1>0, <1>4 DEF IInv, IndexInv
    <2> QED
      BY <1>0, <1>1, <1>3, <2>1 DEF IInv, Types, IndexInv, Matches, Cached
  <1>9. AgeInv'
    <2>1. \A j \in Keys : used[j] \in Nat /\ used[j] <= clock
      BY DEF IInv, Types, AgeInv
    <2>2. \A j \in Keys : files[j] # None => files[j].mtime \in Nat /\ files[j].mtime <= used[j]
      BY DEF IInv, Types, AgeInv, Content
    <2>3. \A j \in Keys : files'[j] # None => files'[j].mtime <= used'[j]
      BY <1>0, <1>2, <1>3, <2>1, <2>2 DEF IInv, Types
    <2>4. \A j \in Keys : used[j] <= used'[j] /\ used'[j] \in Nat /\ used'[j] <= clock'
      BY <1>0, <1>3, <2>1 DEF IInv, Types
    <2>5. \A j \in Cached : entries[j].at \in Nat /\ entries[j].at <= used[j]
      BY DEF IInv, Types, AgeInv, Cached, Entry
    <2>6. \A j \in Cached' : entries'[j].at <= used'[j]
      BY <1>3, <2>1, <2>4, <2>5 DEF Cached
    <2> QED
      BY <1>0, <1>3, <2>1, <2>3, <2>4, <2>6 DEF IInv, AgeInv, Cached
  <1> QED
    BY <1>5, <1>6, <1>7, <1>8, <1>9 DEF IInv

LEMMA WriteStep == ASSUME IInv, NEW p \in Procs, Write(p) PROVE IInv'
  <1> DEFINE k == proc[p].key
             c == [files[k] EXCEPT !.len = SizeOf[proc[p].val]]
  <1>0. /\ proc[p].pc = "write" /\ k \in Keys /\ proc[p].val \in Values
        /\ files[k] \in Content /\ SizeOf[proc[p].val] \in Nat
    BY Basic DEF Write, IInv, Types, CallInv
  <1>1. /\ proc' \in [Procs -> Proc] /\ proc'[p].pc = "publish"
        /\ proc'[p].key = k /\ proc'[p].val = proc[p].val
        /\ \A s \in Procs : s # p => proc'[s] = proc[s]
    BY GotoType DEF Write, IInv, Types, Pcs, Writing
  <1>2. /\ c \in Content /\ c.len = SizeOf[proc[p].val] /\ c.mtime = files[k].mtime
        /\ c # None /\ files[k] # None
    BY <1>0, Basic DEF Content
  <1>3. /\ files' = [files EXCEPT ![k] = c]
        /\ UNCHANGED <<entries, writer, readers, hit, clock, used, refused>>
    BY DEF Write
  <1> HIDE DEF c
  <1>4. \A s \in Procs : s # p => proc[s].pc = "idle"
    BY <1>0, Alone DEF IInv, Writing
  <1>5. Types'
    BY <1>0, <1>1, <1>2, <1>3 DEF IInv, Types
  <1>6. LockInv'
    BY <1>0, <1>1, <1>3, HolderStep DEF Writing
  <1>7. CallInv'
    BY <1>0, <1>1, <1>2, <1>3, <1>4 DEF IInv, Types, CallInv
  <1>8. IndexInv'
    <2>1. \A j \in Cached \ refused : Matches(j) \/ j = k
      BY <1>0, <1>4 DEF IInv, IndexInv
    <2> QED
      BY <1>0, <1>1, <1>3, <2>1 DEF IInv, Types, IndexInv, Matches, Cached
  <1>9. AgeInv'
    <2>1. c.mtime <= used[k]
      BY <1>0, <1>2 DEF IInv, AgeInv
    <2>2. \A j \in Keys : files'[j] # None => files'[j].mtime <= used[j]
      BY <1>0, <1>3, <2>1 DEF IInv, Types, AgeInv
    <2> QED
      BY <1>3, <2>2 DEF IInv, AgeInv, Cached
  <1> QED
    BY <1>5, <1>6, <1>7, <1>8, <1>9 DEF IInv

LEMMA WriteFailsStep == ASSUME IInv, NEW p \in Procs, WriteFails(p) PROVE IInv'
  <1> DEFINE k == proc[p].key
  <1>0. /\ proc[p].pc = "write" /\ k \in Keys /\ proc[p].val \in Values
        /\ files[k] \in Content /\ SizeOf[proc[p].val] \in Nat \ {0}
    BY Basic DEF WriteFails, IInv, Types, CallInv
  <1>1. PICK n \in 0..(SizeOf[proc[p].val] - 1) :
          files' = [files EXCEPT ![k] = [files[k] EXCEPT !.len = n]]
    BY DEF WriteFails
  <1> DEFINE c == [files[k] EXCEPT !.len = n]
  <1>2. c \in Content /\ c.mtime = files[k].mtime /\ files[k] # None
    BY <1>0, Basic DEF Content
  <1>3. /\ files' = [files EXCEPT ![k] = c] /\ refused' = refused \union {k}
        /\ Unlock(p) /\ UNCHANGED <<entries, hit, clock, used>>
    BY <1>1 DEF WriteFails
  <1> HIDE DEF c
  <1>4. /\ LockInv' /\ CallInv'
        /\ proc' \in [Procs -> Proc] /\ writer' \in Procs \union {Free} /\ readers' \subseteq Procs
    BY <1>0, <1>3, UnlockStep DEF Writing
  <1>5. Types'
    BY <1>0, <1>2, <1>3, <1>4 DEF IInv, Types
  <1>6. IndexInv'
    <2>1. \A s \in Procs : s # p => proc[s].pc = "idle"
      BY <1>0, Alone DEF IInv, Writing
    <2>2. \A j \in Cached \ refused : Matches(j) \/ j = k
      BY <1>0, <2>1 DEF IInv, IndexInv
    <2> QED
      BY <1>0, <1>3, <2>2 DEF IInv, Types, IndexInv, Matches, Cached
  <1>7. AgeInv'
    BY <1>0, <1>2, <1>3 DEF IInv, Types, AgeInv, Cached
  <1> QED
    BY <1>4, <1>5, <1>6, <1>7 DEF IInv

LEMMA OpenFailsStep == ASSUME IInv, NEW p \in Procs, OpenFails(p) PROVE IInv'
  <1>1. proc[p].pc = "evict" /\ Unlock(p) /\ UNCHANGED <<entries, files, hit, clock, used, refused>>
    BY DEF OpenFails
  <1>2. /\ LockInv' /\ CallInv'
        /\ proc' \in [Procs -> Proc] /\ writer' \in Procs \union {Free} /\ readers' \subseteq Procs
    BY <1>1, UnlockStep DEF Writing
  <1>3. Types'
    BY <1>1, <1>2 DEF IInv, Types
  <1>4. IndexInv'
    <2>1. \A s \in Procs : s # p => proc[s].pc = "idle"
      BY <1>1, Alone DEF IInv, Writing
    <2>2. \A j \in Cached \ refused : Matches(j)
      BY <1>1, <2>1 DEF IInv, IndexInv
    <2> QED
      BY <1>1, <2>2 DEF IndexInv, Matches, Cached
  <1>5. AgeInv'
    BY <1>1 DEF IInv, AgeInv, Cached
  <1> QED
    BY <1>2, <1>3, <1>4, <1>5 DEF IInv

LEMMA PublishStep == ASSUME IInv, NEW p \in Procs, Publish(p) PROVE IInv'
  <1> DEFINE k == proc[p].key
             e == [size |-> SizeOf[proc[p].val], at |-> clock]
  <1>0. /\ proc[p].pc = "publish" /\ k \in Keys /\ proc[p].val \in Values
        /\ files[k] # None /\ files[k].len = SizeOf[proc[p].val]
        /\ SizeOf[proc[p].val] \in Nat /\ clock \in Nat
    BY Basic DEF Publish, IInv, Types, CallInv
  <1>1. e \in Entry /\ e.size = SizeOf[proc[p].val] /\ e.at = clock
    BY <1>0 DEF Entry
  <1>2. /\ entries' = [entries EXCEPT ![k] = e] /\ used' = [used EXCEPT ![k] = clock]
        /\ Unlock(p) /\ UNCHANGED <<files, hit, clock, refused>>
    BY DEF Publish
  <1> HIDE DEF e
  <1>3. /\ LockInv' /\ CallInv'
        /\ proc' \in [Procs -> Proc] /\ writer' \in Procs \union {Free} /\ readers' \subseteq Procs
    BY <1>0, <1>2, UnlockStep DEF Writing
  <1>4. Types'
    BY <1>0, <1>1, <1>2, <1>3 DEF IInv, Types
  <1>5. IndexInv'
    <2>1. \A s \in Procs : s # p => proc[s].pc = "idle"
      BY <1>0, Alone DEF IInv, Writing
    <2>2. \A j \in Cached \ refused : Matches(j) \/ j = k
      BY <1>0, <2>1 DEF IInv, IndexInv
    <2> QED
      BY <1>0, <1>1, <1>2, <2>2 DEF IInv, Types, IndexInv, Matches, Cached
  <1>6. AgeInv'
    <2>1. \A j \in Keys : used[j] \in Nat /\ used'[j] \in Nat /\ used[j] <= used'[j] /\ used'[j] <= clock
      BY <1>0, <1>2 DEF IInv, Types, AgeInv
    <2>2. \A j \in Cached : j # k => entries[j].at <= used'[j]
      BY <1>2 DEF IInv, Types, AgeInv, Cached
    <2>3. used'[k] = clock
      BY <1>0, <1>2 DEF IInv, Types
    <2>4. \A j \in Cached' : entries'[j].at <= used'[j]
      BY <1>0, <1>1, <1>2, <2>2, <2>3 DEF IInv, Types, Cached
    <2>5. \A j \in Keys : files[j] # None => files[j].mtime \in Nat /\ files[j].mtime <= used'[j]
      BY <2>1 DEF IInv, Types, AgeInv, Content
    <2> QED
      BY <1>2, <2>1, <2>4, <2>5 DEF AgeInv
  <1> QED
    BY <1>3, <1>4, <1>5, <1>6 DEF IInv

-----------------------------------------------------------------------------

LEMMA DeleteStep == ASSUME IInv, NEW p \in Procs, NEW k \in Keys, Delete(p, k) PROVE IInv'
  <1>0. \A s \in Procs : proc[s].pc = "idle"
    BY Nobody DEF Delete, IInv
  <1>1. /\ \/ /\ files' = [files EXCEPT ![k] = None]
              /\ entries' = [entries EXCEPT ![k] = None]
              /\ UNCHANGED refused
           \/ /\ refused' = refused \union {k}
              /\ UNCHANGED <<entries, files>>
        /\ UNCHANGED <<writer, readers, proc, hit, clock, used>>
    BY DEF Delete
  <1>2. Types' /\ LockInv'
    BY <1>1 DEF IInv, Types, LockInv
  <1>3. CallInv'
    BY <1>0, <1>1 DEF CallInv
  <1>4. IndexInv'
    <2>1. \A j \in Cached \ refused : Matches(j)
      BY <1>0 DEF IInv, IndexInv
    <2> QED
      BY <1>1, <2>1 DEF IInv, Types, IndexInv, Matches, Cached
  <1>5. AgeInv'
    BY <1>1 DEF IInv, Types, AgeInv, Cached
  <1> QED
    BY <1>2, <1>3, <1>4, <1>5 DEF IInv

LEMMA ClearStep == ASSUME IInv, NEW p \in Procs, Clear(p) PROVE IInv'
  <1> DEFINE q == At("clear", None, None, Cached, 0)
  <1>0. /\ \A s \in Procs : proc[s].pc = "idle"
        /\ writer = Free /\ readers = {} /\ Cached \subseteq Keys
    BY Nobody DEF Clear, IInv, Cached
  <1>1. q \in Proc /\ q.pc = "clear" /\ q.left = Cached
    <2>1. "clear" \in Pcs
      BY DEF Pcs, Writing
    <2>2. q \in Proc
      BY <1>0, <2>1, AtType
    <2> QED
      BY <2>2 DEF At
  <1>2. proc' = [proc EXCEPT ![p] = q] /\ writer' = p
        /\ UNCHANGED <<entries, files, readers, hit, clock, used, refused>>
    BY DEF Clear
  <1>3. /\ proc' \in [Procs -> Proc] /\ proc'[p] = q
        /\ \A s \in Procs : s # p => proc'[s] = proc[s]
    BY <1>1, <1>2, Local DEF IInv, Types
  <1> HIDE DEF q
  <1>4. Types'
    BY <1>2, <1>3 DEF IInv, Types
  <1>5. LockInv'
    BY <1>0, <1>1, <1>2, <1>3, Basic DEF LockInv, Reading, Writing
  <1>6. CallInv'
    BY <1>0, <1>1, <1>2, <1>3 DEF CallInv
  <1>7. IndexInv' /\ AgeInv'
    BY <1>0, <1>2 DEF IInv, IndexInv, AgeInv, Cached, Matches
  <1> QED
    BY <1>4, <1>5, <1>6, <1>7 DEF IInv

LEMMA ClearOneStep == ASSUME IInv, NEW p \in Procs, ClearOne(p) PROVE IInv'
  <1>0. proc[p].pc = "clear" /\ proc[p] \in Proc
    BY DEF ClearOne, IInv, Types
  <1>1. PICK k \in proc[p].left :
          /\ proc' = [proc EXCEPT ![p].left = @ \ {k}]
          /\ \/ files' = [files EXCEPT ![k] = None] /\ UNCHANGED refused
             \/ refused' = refused \union {k} /\ UNCHANGED files
    BY DEF ClearOne
  <1>2. UNCHANGED <<entries, writer, readers, hit, clock, used>>
    BY DEF ClearOne
  <1> DEFINE q == [proc[p] EXCEPT !.left = @ \ {k}]
  <1>3. k \in Keys /\ q \in Proc /\ q.left = proc[p].left \ {k} /\ q.pc = "clear"
    BY <1>0 DEF Proc
  <1>4. /\ proc' \in [Procs -> Proc] /\ proc'[p] = q
        /\ \A s \in Procs : s # p => proc'[s] = proc[s]
    BY <1>1, <1>3, Local DEF IInv, Types
  <1> HIDE DEF q
  <1>5. \A s \in Procs : s # p => proc[s].pc = "idle"
    BY <1>0, Alone DEF IInv, Writing
  <1>6. Types'
    BY <1>1, <1>2, <1>3, <1>4 DEF IInv, Types
  <1>7. LockInv'
    BY <1>0, <1>2, <1>3, <1>4, HolderStep DEF Writing
  <1>8. CallInv'
    BY <1>3, <1>4, <1>5 DEF CallInv
  <1>9. IndexInv'
    <2>1. \A j \in Cached \ refused : Matches(j) \/ j \notin proc[p].left
      BY <1>0, <1>5 DEF IInv, IndexInv
    <2>2. \A j \in (Cached \ refused)' : Matches(j)' \/ j \notin q.left
      BY <1>1, <1>2, <1>3, <2>1 DEF IInv, Types, Matches, Cached
    <2> QED
      BY <1>3, <1>4, <2>2 DEF IndexInv
  <1>10. AgeInv'
    BY <1>1, <1>2, <1>3 DEF IInv, Types, AgeInv, Cached
  <1> QED
    BY <1>6, <1>7, <1>8, <1>9, <1>10 DEF IInv

LEMMA ClearedStep == ASSUME IInv, NEW p \in Procs, Cleared(p) PROVE IInv'
  <1>1. /\ proc[p].pc \in Writing /\ Unlock(p)
        /\ entries' = [k \in Keys |-> None] /\ UNCHANGED <<files, hit, clock, used, refused>>
    BY DEF Cleared, Writing
  <1>2. /\ LockInv' /\ CallInv'
        /\ proc' \in [Procs -> Proc] /\ writer' \in Procs \union {Free} /\ readers' \subseteq Procs
    BY <1>1, UnlockStep
  <1>3. Types'
    BY <1>1, <1>2 DEF IInv, Types
  <1>4. IndexInv' /\ AgeInv'
    BY <1>1 DEF IInv, AgeInv, IndexInv, Cached
  <1> QED
    BY <1>2, <1>3, <1>4 DEF IInv

\* A file that was being written when the process was killed keeps its type.
LEMMA RemainsType ==
    ASSUME IInv, NEW f \in Remains
    PROVE  /\ f \in [Keys -> Content \union {None}]
           /\ \A k \in Keys : f[k] # None => files[k] # None /\ f[k].mtime = files[k].mtime
  <1>1. CASE f = files
    BY <1>1 DEF IInv, Types
  <1>2. CASE f # files
    <2>1. PICK p \in Procs : /\ proc[p].pc = "write"
                            /\ f \in {[files EXCEPT ![proc[p].key].len = n] :
                                         n \in 0..(SizeOf[proc[p].val] - 1)}
      BY <1>2 DEF Remains
    <2> DEFINE k == proc[p].key
    <2>2. PICK n \in 0..(SizeOf[proc[p].val] - 1) :
            f = [files EXCEPT ![k] = [files[k] EXCEPT !.len = n]]
      BY <2>1
    <2>3. k \in Keys /\ files[k] \in Content /\ SizeOf[proc[p].val] \in Nat
      BY <2>1, Basic DEF IInv, Types, CallInv
    <2>4. /\ [files[k] EXCEPT !.len = n] \in Content
          /\ [files[k] EXCEPT !.len = n].mtime = files[k].mtime /\ files[k] # None
      BY <2>2, <2>3, Basic DEF Content
    <2> QED
      BY <2>2, <2>3, <2>4 DEF IInv, Types
  <1> QED
    BY <1>1, <1>2

LEMMA RestartStep == ASSUME IInv, Restart PROVE IInv'
  <1>1. /\ files' \in [Keys -> Content \union {None}]
        /\ \A k \in Keys : files'[k] # None => files[k] # None /\ files'[k].mtime = files[k].mtime
    BY RemainsType DEF Restart
  <1>2. /\ entries' = [k \in Keys |-> IF files'[k] = None THEN None
                                      ELSE [size |-> files'[k].len, at |-> files'[k].mtime]]
        /\ writer' = Free /\ readers' = {} /\ proc' = [p \in Procs |-> Idle]
        /\ hit' = [p \in Procs |-> None] /\ UNCHANGED <<clock, used, refused>>
    BY DEF Restart
  <1>3. \A k \in Keys : files'[k] # None =>
          /\ files'[k].mtime \in Nat
          /\ [size |-> files'[k].len, at |-> files'[k].mtime] \in Entry
    BY <1>1 DEF Content, Entry
  <1>4. entries' \in [Keys -> Entry \union {None}]
    BY <1>2, <1>3
  <1>5. Types'
    BY <1>1, <1>2, <1>4, IdleType DEF IInv, Types
  <1>6. LockInv' /\ CallInv'
    BY <1>2, IdleType, Basic DEF LockInv, CallInv, Reading, Writing
  <1>7. IndexInv'
    BY <1>2 DEF IndexInv, Matches, Cached
  <1>8. AgeInv'
    <2>1. \A k \in Keys : files'[k] # None => files'[k].mtime <= used[k]
      BY <1>1 DEF IInv, AgeInv
    <2>2. \A k \in Cached' : entries'[k].at <= used'[k]
      <3> SUFFICES ASSUME NEW k \in Keys, entries'[k] # None PROVE entries'[k].at <= used'[k]
        BY DEF Cached
      <3>1. files'[k] # None /\ entries'[k].at = files'[k].mtime
        BY <1>2
      <3> QED
        BY <1>2, <2>1, <3>1
    <2> QED
      BY <1>2, <2>1, <2>2 DEF IInv, AgeInv
  <1> QED
    BY <1>5, <1>6, <1>7, <1>8 DEF IInv

LEMMA Step == IInv /\ [Next]_vars => IInv'
  <1> SUFFICES ASSUME IInv, [Next]_vars PROVE IInv'
    OBVIOUS
  <1>1. ASSUME NEW p \in Procs, Goroutine(p) PROVE IInv'
    BY <1>1, GetStep, GetMissStep, GetHitStep, TouchStep, SetStep, EvictStep, OpenFailsStep, TruncateStep,
       WriteStep, WriteFailsStep, PublishStep, DeleteStep, ClearStep, ClearOneStep, ClearedStep
       DEF Goroutine
  <1>2. CASE UNCHANGED vars
    BY <1>2 DEF vars, IInv, Types, LockInv, CallInv, IndexInv, AgeInv, Cached, Matches
  <1> QED
    BY <1>1, <1>2, RestartStep DEF Next

LEMMA Invariant == Spec => []IInv
  BY Initially, Step, PTL DEF Spec

-----------------------------------------------------------------------------

\* The cache keeps its types, and its RWMutex is held by those inside it.
THEOREM TypeCorrect == Spec => []TypeOK
  <1>1. IInv => TypeOK
    BY DEF IInv, Types, LockInv, TypeOK, Proc, Pcs
  <1> QED
    BY <1>1, Invariant, PTL

\* For any number of goroutines, keys and values, whatever is killed: an entry
\* that a reader can see has its file, with the size the entry says.
THEOREM IndexIsRight == Spec => []IndexMatchesDisk
  <1>1. IInv => IndexMatchesDisk
    <2> SUFFICES ASSUME IInv, writer = Free, NEW k \in Cached \ refused PROVE Matches(k)
      BY DEF IndexMatchesDisk, Matches
    <2>1. \A p \in Procs : proc[p].pc \notin Writing
      BY Basic DEF IInv, LockInv
    <2> QED
      BY <2>1 DEF IInv, IndexInv, Writing
  <1> QED
    BY <1>1, Invariant, PTL

\* While p looks for room nobody else changes the index.
LEMMA OnlyEvict ==
    ASSUME IInv, Next, NEW p \in Procs, proc[p].pc = "evict", proc'[p].pc = "evict",
           entries' # entries
    PROVE  Evict(p)
  <1>1. /\ writer = p /\ p # Free
        /\ \A s \in Procs : s # p => proc[s].pc = "idle"
    BY Alone DEF IInv, Writing
  <1>2. ~Restart
    BY IdleType DEF Restart
  <1>3. PICK s \in Procs : Goroutine(s)
    BY <1>2 DEF Next
  <1>4. ~(\E k \in Keys : Get(s, k) \/ Delete(s, k) \/ \E v \in Values : Set(s, k, v)) /\ ~Clear(s)
    BY <1>1 DEF Get, Delete, Set, Clear
  <1>5. s = p
    BY <1>1, <1>3, <1>4 DEF Goroutine, GetMiss, GetHit, Touch, Evict, OpenFails, Truncate, Write,
                            WriteFails, Publish, ClearOne, Cleared
  <1> QED
    BY <1>3, <1>4, <1>5 DEF Goroutine, GetMiss, GetHit, Touch, OpenFails, Truncate, Write,
                            WriteFails, Publish, ClearOne, Cleared

\* An eviction is needed, and a key whose AccessAt is true goes first only if it
\* was used longest ago: overlapping Gets and restarts, which set AccessAt back, are
\* the two ways in which the order of use is lost.
THEOREM EvictionOrder == Spec => EvictsLeastRecent
  <1> DEFINE A == \A p \in Procs, k \in Keys :
         /\ proc[p].pc = "evict" /\ proc'[p].pc = "evict"
         /\ entries[k] # None /\ entries'[k] = None /\ entries[k].at = used[k]
         => /\ ~(TotalSize + SizeOf[proc[p].val] <= MaxSize)
            /\ \A j \in Cached \ refused : used[k] <= used[j]
  <1>1. IInv /\ [Next]_vars => [A]_vars
    <2> SUFFICES ASSUME IInv, Next, NEW p \in Procs, NEW k \in Keys,
                        proc[p].pc = "evict", proc'[p].pc = "evict",
                        entries[k] # None, entries'[k] = None, entries[k].at = used[k]
                 PROVE  /\ ~(TotalSize + SizeOf[proc[p].val] <= MaxSize)
                        /\ \A j \in Cached \ refused : used[k] <= used[j]
      OBVIOUS
    <2>1. Evict(p)
      BY OnlyEvict
    <2>2. ~(TotalSize + SizeOf[proc[p].val] <= MaxSize)
      BY <2>1 DEF Evict, Fits
    <2>3. PICK i \in proc[p].left :
            /\ Oldest(i, proc[p].left)
            /\ entries' = [entries EXCEPT ![i] = None] \/ entries' = entries
      BY <2>1 DEF Evict
    <2>4. i = k /\ Oldest(k, proc[p].left)
      BY <2>3 DEF IInv, Types
    <2>5. ASSUME NEW j \in Cached \ refused PROVE used[k] <= used[j]
      <3>1. j \in proc[p].left /\ j \in Keys
        BY DEF IInv, CallInv, Cached
      <3>2. entries[k].at <= entries[j].at /\ entries[j].at <= used[j]
        BY <2>4, <3>1 DEF Oldest, IInv, AgeInv
      <3>3. entries[k].at \in Nat /\ entries[j].at \in Nat /\ used[j] \in Nat
        BY <3>1 DEF IInv, Types, Entry, Cached
      <3> QED
        BY <3>2, <3>3
    <2> QED
      BY <2>2, <2>5
  <1> QED
    BY <1>1, Invariant, PTL DEF Spec, EvictsLeastRecent

-----------------------------------------------------------------------------
(* The cache is a LossyMap *)

MapNow  == [k \in Keys |-> Whole(files[k])]
Told    == [p \in Procs |-> Whole(hit[p])]
StoringIn(pr) == IF \E p \in Procs : pr[p].pc = "write"
                 THEN pr[CHOOSE p \in Procs : pr[p].pc = "write"].key ELSE None
Storing == StoringIn(proc)
AskedBy(q) == IF q.pc \in Reading THEN q.key ELSE None
Asked   == [p \in Procs |-> AskedBy(proc[p])]

\* One goroutine at most is between Truncate and the last byte.
LEMMA OneWriter ==
    ASSUME IInv, NEW p \in Procs, proc[p].pc = "write"
    PROVE  \A s \in Procs : s # p => proc[s].pc = "idle"
  BY Alone DEF IInv, Writing

LEMMA StoringIs ==
    ASSUME NEW pr, NEW p \in Procs, pr[p].pc = "write",
           \A s \in Procs : s # p => pr[s].pc # "write"
    PROVE  StoringIn(pr) = pr[p].key
  <1>1. (CHOOSE s \in Procs : pr[s].pc = "write") = p
    OBVIOUS
  <1> QED
    BY <1>1 DEF StoringIn

LEMMA NothingStored ==
    ASSUME NEW pr, \A p \in Procs : pr[p].pc # "write"
    PROVE  StoringIn(pr) = None
  BY DEF StoringIn

\* What a kill leaves of a file is torn before and after.
LEMMA RemainsTorn ==
    ASSUME IInv, NEW f \in Remains
    PROVE  [k \in Keys |-> Whole(f[k])] = MapNow
  <1>1. CASE f = files
    BY <1>1 DEF MapNow
  <1>2. CASE f # files
    <2>1. PICK p \in Procs : /\ proc[p].pc = "write"
                            /\ f \in {[files EXCEPT ![proc[p].key].len = n] :
                                         n \in 0..(SizeOf[proc[p].val] - 1)}
      BY <1>2 DEF Remains
    <2> DEFINE k == proc[p].key
    <2>2. PICK n \in 0..(SizeOf[proc[p].val] - 1) :
            f = [files EXCEPT ![k] = [files[k] EXCEPT !.len = n]]
      BY <2>1
    <2>3. /\ k \in Keys /\ files[k] \in Content /\ SizeOf[proc[p].val] \in Nat \ {0}
          /\ files[k].val = proc[p].val /\ files[k].len = 0
      BY <2>1, Basic DEF IInv, Types, CallInv
    <2> DEFINE c == [files[k] EXCEPT !.len = n]
    <2>4. c \in Content /\ c.val = proc[p].val /\ c.len = n /\ c # None /\ files[k] # None
      BY <2>2, <2>3, Basic DEF Content
    <2> HIDE DEF c
    <2>5. Whole(c) = Torn /\ Whole(files[k]) = Torn
      BY <2>2, <2>3, <2>4 DEF Whole
    <2>6. \A j \in Keys : Whole(f[j]) = Whole(files[j])
      BY <2>2, <2>3, <2>5 DEF IInv, Types, c
    <2> QED
      BY <2>6 DEF MapNow
  <1> QED
    BY <1>1, <1>2

\* A step of a goroutine that neither begins nor ends a write.
LEMMA NotWriting ==
    ASSUME IInv, NEW p \in Procs, \A s \in Procs : s # p => proc'[s] = proc[s],
           proc[p].pc # "write", proc'[p].pc # "write"
    PROVE  Storing' = Storing
  <1>1. CASE \E s \in Procs : proc[s].pc = "write"
    <2>1. PICK s \in Procs : proc[s].pc = "write"
      BY <1>1
    <2>2. /\ proc'[s] = proc[s]
          /\ \A t \in Procs : t # s => proc[t].pc # "write" /\ proc'[t].pc # "write"
      BY <2>1, OneWriter
    <2> QED
      BY <2>1, <2>2, StoringIs DEF Storing
  <1>2. CASE \A s \in Procs : proc[s].pc # "write"
    <2>1. \A s \in Procs : proc'[s].pc # "write"
      BY <1>2
    <2> QED
      BY <1>2, <2>1, NothingStored DEF Storing
  <1> QED
    BY <1>1, <1>2

\* A step of a goroutine, seen from outside: nothing, or one of the promised.
Dropped(f, P) == [p \in Procs |-> IF p \in P THEN None ELSE f[p]]
Drops == \E P \in SUBSET Procs : Asked' = Dropped(Asked, P) /\ Told' = Dropped(Told, P)

Silent == UNCHANGED <<MapNow, Storing, Asked, Told>>

Forgets(k) ==
    /\ Storing = None /\ MapNow' = [MapNow EXCEPT ![k] = None]
    /\ UNCHANGED <<Storing, Asked, Told>>

Promised ==
    \/ Silent
    \/ \E k \in Keys : Forgets(k)
    \/ \E k \in Keys : /\ Storing = None /\ Storing' = k
                       /\ MapNow' = [MapNow EXCEPT ![k] = Torn] /\ UNCHANGED <<Asked, Told>>
    \/ \E v \in Values : /\ Storing # None /\ Storing' = None
                         /\ MapNow' = [MapNow EXCEPT ![Storing] = v] /\ UNCHANGED <<Asked, Told>>
    \/ Storing # None /\ Storing' = None /\ Drops /\ UNCHANGED MapNow
    \/ \E p \in Procs, k \in Keys :
          /\ Storing = None /\ Asked[p] = None
          /\ Asked' = [Asked EXCEPT ![p] = k] /\ UNCHANGED <<MapNow, Storing, Told>>
    \/ \E p \in Procs :
          /\ Storing = None /\ Asked[p] # None
          /\ Told' = [Told EXCEPT ![p] = MapNow[Asked[p]]] /\ UNCHANGED <<MapNow, Storing, Asked>>
    \/ Drops /\ UNCHANGED <<MapNow, Storing>>

\* Whoever has the lock, alone.
LEMMA NoneWritten ==
    ASSUME IInv, NEW p \in Procs, proc[p].pc \in Writing \ {"write"} \/ (writer = Free /\ readers = {})
    PROVE  Storing = None
  <1>1. \A s \in Procs : proc[s].pc # "write"
    BY Alone, Nobody DEF IInv
  <1> QED
    BY <1>1, NothingStored DEF Storing

\* Only the reader that stamps its entry has something to return.
HitInv == \A p \in Procs : proc[p].pc # "touch" => hit[p] = None

LEMMA HitStep == IInv /\ HitInv /\ [Next]_vars => HitInv'
  <1> SUFFICES ASSUME IInv, HitInv, [Next]_vars, NEW s \in Procs, proc'[s].pc # "touch"
               PROVE  hit'[s] = None
    BY DEF HitInv
  <1>0. /\ proc \in [Procs -> Proc] /\ hit \in [Procs -> Data \union {None}]
        /\ proc[s].pc # "touch" => hit[s] = None
    BY DEF IInv, Types, HitInv
  <1>1. ASSUME NEW p \in Procs, Goroutine(p) PROVE hit'[s] = None
    <2>1. CASE s # p
      <3>1. proc'[s] = proc[s] /\ hit'[s] = hit[s]
        BY <1>0, <1>1, <2>1 DEF Goroutine, Get, Delete, Set, GetMiss, GetHit, Touch, Evict, OpenFails,
             Truncate, Write, WriteFails, Publish, Clear, ClearOne, Cleared, Goto, Unlock, RUnlock
      <3> QED
        BY <1>0, <3>1
    <2>2. CASE s = p
      <3>1. ~GetHit(p)
        BY <1>0, <2>2 DEF GetHit, At
      <3>2. CASE Touch(p)
        BY <1>0, <2>2, <3>2 DEF Touch
      <3>3. CASE ~Touch(p)
        <4>1. proc[p].pc # "touch" /\ hit' = hit
          BY <1>1, <2>2, <3>1, <3>3 DEF Goroutine, Get, Delete, Set, GetMiss, GetHit, Evict, OpenFails,
               Truncate, Write, WriteFails, Publish, Clear, ClearOne, Cleared
        <4> QED
          BY <1>0, <2>2, <4>1
      <3> QED
        BY <3>2, <3>3
    <2> QED
      BY <2>1, <2>2
  <1>2. CASE Restart
    BY <1>2 DEF Restart
  <1>3. CASE UNCHANGED vars
    BY <1>0, <1>3 DEF vars
  <1> QED
    BY <1>1, <1>2, <1>3 DEF Next

LEMMA HitInvariant == Spec => []HitInv
  <1>1. Init => HitInv
    BY DEF Init, HitInv
  <1> QED
    BY <1>1, HitStep, Invariant, PTL DEF Spec

\* No file is written while p reads.
LEMMA NoneWhileRead ==
    ASSUME IInv, NEW p \in Procs, proc[p].pc \in Reading \/ writer = Free
    PROVE  Storing = None
  <1>1. \A s \in Procs : proc[s].pc # "write"
    BY Basic DEF IInv, LockInv, Reading, Writing
  <1> QED
    BY <1>1, NothingStored DEF Storing

\* The end of a reader's call is the drop of what it asked and was told.
LEMMA ReaderDrops ==
    ASSUME IInv, NEW p \in Procs, proc' = [proc EXCEPT ![p] = Idle],
           (hit' = hit /\ hit[p] = None) \/ hit' = [hit EXCEPT ![p] = None]
    PROVE  Drops
  <1>0. proc \in [Procs -> Proc] /\ hit \in [Procs -> Data \union {None}]
    BY DEF IInv, Types
  <1>1. Asked' = Dropped(Asked, {p})
    BY <1>0 DEF Asked, AskedBy, Dropped, Idle, At, Reading
  <1>2. Told' = Dropped(Told, {p})
    BY <1>0 DEF Told, Whole, Dropped
  <1> QED
    BY <1>1, <1>2 DEF Drops

LEMMA ReaderPromised ==
    ASSUME IInv, HitInv, NEW p \in Procs, (\E k \in Keys : Get(p, k)) \/ GetMiss(p) \/ GetHit(p) \/ Touch(p)
    PROVE  Promised
  <1>0. proc \in [Procs -> Proc] /\ hit \in [Procs -> Data \union {None}]
    BY DEF IInv, Types
  <1>1. /\ \A s \in Procs : s # p => proc'[s] = proc[s]
        /\ proc[p].pc # "write" /\ proc'[p].pc # "write"
    BY <1>0 DEF Get, GetMiss, GetHit, Touch, RUnlock, Idle, At
  <1>2. UNCHANGED <<MapNow, Storing>>
    BY <1>1, NotWriting DEF Get, GetMiss, GetHit, Touch, MapNow
  <1>3. ASSUME NEW k \in Keys, Get(p, k) PROVE Promised
    <2>1. Storing = None
      BY <1>3, NoneWhileRead DEF Get
    <2>2. proc[p].pc = "idle" /\ proc' = [proc EXCEPT ![p] = At("get", k, None, {}, 0)] /\ hit' = hit
      BY <1>3 DEF Get
    <2>3. Asked[p] = None
      BY <2>2 DEF Asked, AskedBy, Reading
    <2>4. Asked' = [Asked EXCEPT ![p] = k]
      BY <1>0, <2>2 DEF Asked, AskedBy, At, Reading
    <2> QED
      BY <1>2, <2>1, <2>2, <2>3, <2>4 DEF Promised, Told
  <1>4. CASE GetHit(p)
    <2> DEFINE k == proc[p].key
               c == [val |-> files[k].val, len |-> files[k].len]
    <2>1. /\ k \in Keys /\ files[k] \in Content /\ files[k] # None
          /\ hit' = [hit EXCEPT ![p] = c] /\ proc[p].pc = "get"
          /\ proc' = [proc EXCEPT ![p] = At("touch", k, None, {}, clock + 1)]
      BY <1>4 DEF GetHit, IInv, Types, CallInv
    <2>2. Whole(c) = Whole(files[k])
      BY <2>1, Basic DEF Whole, Data, Content
    <2>3. Asked[p] = k /\ k # None
      BY <2>1, Basic DEF Asked, AskedBy, Reading
    <2>4. Told' = [Told EXCEPT ![p] = MapNow[Asked[p]]]
      BY <1>0, <2>1, <2>2, <2>3 DEF Told, MapNow
    <2>5. Asked' = Asked
      BY <1>0, <2>1 DEF Asked, AskedBy, At, Reading
    <2>6. Storing = None
      BY <2>1, NoneWhileRead DEF Reading
    <2> QED
      BY <1>2, <2>3, <2>4, <2>5, <2>6 DEF Promised
  <1>5. CASE Touch(p) \/ GetMiss(p)
    <2>1. proc' = [proc EXCEPT ![p] = Idle]
      BY <1>5 DEF Touch, GetMiss, RUnlock
    <2>2. (hit' = hit /\ hit[p] = None) \/ hit' = [hit EXCEPT ![p] = None]
      BY <1>5 DEF Touch, GetMiss, HitInv
    <2> QED
      BY <1>2, <2>1, <2>2, ReaderDrops DEF Promised
  <1> QED
    BY <1>3, <1>4, <1>5

\* A step between calls that do not read leaves what is asked alone.
LEMMA NotReading ==
    ASSUME IInv, NEW p \in Procs, \A s \in Procs : s # p => proc'[s] = proc[s],
           proc[p].pc \notin Reading, proc'[p].pc \notin Reading
    PROVE  UNCHANGED Asked
  BY DEF Asked, AskedBy

LEMMA WriterPromised ==
    ASSUME IInv, NEW p \in Procs,
           \/ \E k \in Keys, v \in Values : Set(p, k, v)
           \/ Evict(p) \/ OpenFails(p) \/ Truncate(p) \/ Write(p) \/ WriteFails(p) \/ Publish(p)
    PROVE  Promised
  <1>0. /\ proc \in [Procs -> Proc] /\ files \in [Keys -> Content \union {None}]
        /\ \A s \in Procs : s # p => proc'[s] = proc[s]
    BY DEF IInv, Types, Set, Evict, OpenFails, Truncate, Write, WriteFails, Publish, Goto, Unlock
  <1>1. UNCHANGED <<Asked, Told>>
    <2>1. proc[p].pc \notin Reading /\ proc'[p].pc \notin Reading
      BY <1>0 DEF Set, Evict, OpenFails, Truncate, Write, WriteFails, Publish, Goto, Unlock, Idle, At,
                  Proc, Reading
    <2>2. UNCHANGED Asked
      BY <1>0, <2>1, NotReading
    <2>3. UNCHANGED Told
      BY DEF Set, Evict, OpenFails, Truncate, Write, WriteFails, Publish, Told
    <2> QED
      BY <2>2, <2>3
  <1>2. CASE files' = files /\ ~Truncate(p) /\ ~Write(p) /\ ~WriteFails(p)
    <2>1. proc[p].pc # "write" /\ proc'[p].pc # "write"
      BY <1>0, <1>2 DEF Set, Evict, OpenFails, Publish, Unlock, Idle, At, Proc
    <2> QED
      BY <1>0, <1>1, <1>2, <2>1, NotWriting DEF Promised, Silent, MapNow
  <1>3. CASE Evict(p)
    <2>1. PICK k \in Keys : files' = [files EXCEPT ![k] = None] \/ files' = files
      BY <1>3 DEF Evict, IInv, Types, Proc
    <2>2. proc[p].pc = "evict" /\ proc'[p].pc = "evict"
      BY <1>0, <1>3 DEF Evict, Proc
    <2>3. CASE files' = [files EXCEPT ![k] = None]
      <3>1. MapNow' = [MapNow EXCEPT ![k] = None]
        BY <1>0, <2>3 DEF MapNow, Whole
      <3>2. Storing = None /\ Storing' = Storing
        BY <1>0, <2>2, NotWriting, NoneWritten DEF Writing
      <3> QED
        BY <1>1, <3>1, <3>2 DEF Promised, Forgets
    <2>4. ~Truncate(p) /\ ~Write(p) /\ ~WriteFails(p)
      BY <1>0, <2>2 DEF Truncate, Write, WriteFails, Goto, Proc
    <2> QED
      BY <1>2, <2>1, <2>3, <2>4
  <1>4. CASE Truncate(p)
    <2> DEFINE k == proc[p].key
               c == [val |-> proc[p].val, len |-> 0, mtime |-> clock + 1]
    <2>1. /\ k \in Keys /\ proc[p].val \in Values /\ proc[p].pc = "evict"
          /\ files' = [files EXCEPT ![k] = c]
      BY <1>4 DEF Truncate, IInv, CallInv
    <2>2. c \in Content /\ clock + 1 \in Nat
      BY <2>1 DEF Content, IInv, Types
    <2>3. Whole(c) = Torn
      BY <2>1, <2>2, Basic DEF Whole
    <2>4. MapNow' = [MapNow EXCEPT ![k] = Torn]
      BY <1>0, <2>1, <2>3 DEF MapNow
    <2>5. Storing = None /\ \A s \in Procs : s # p => proc[s].pc = "idle"
      BY <2>1, NoneWritten, Alone DEF Writing, IInv
    <2>6. proc'[p].pc = "write" /\ proc'[p].key = k
      BY <1>0, <1>4 DEF Truncate, Goto, Proc
    <2>7. Storing' = k
      BY <1>0, <2>5, <2>6, StoringIs DEF Storing
    <2> QED
      BY <1>1, <2>1, <2>4, <2>5, <2>7 DEF Promised
  <1>5. CASE Write(p) \/ WriteFails(p)
    <2> DEFINE k == proc[p].key
    <2>1. /\ k \in Keys /\ proc[p].val \in Values /\ proc[p].pc = "write"
          /\ files[k] \in Content /\ files[k].val = proc[p].val /\ files[k].len = 0
          /\ SizeOf[proc[p].val] \in Nat \ {0}
      BY <1>5, Basic DEF Write, WriteFails, IInv, Types, CallInv
    <2>2. Storing = k /\ k # None
      BY <2>1, OneWriter, StoringIs, Basic DEF Storing
    <2>3. Storing' = None
      <3>1. proc'[p].pc # "write"
        BY <1>0, <1>5 DEF Write, WriteFails, Unlock, Goto, Idle, At, Proc
      <3>2. \A s \in Procs : proc'[s].pc # "write"
        BY <1>0, <2>1, <3>1, OneWriter
      <3> QED
        BY <3>2, NothingStored DEF Storing
    <2>4. ASSUME NEW n \in Nat, files' = [files EXCEPT ![k] = [files[k] EXCEPT !.len = n]]
          PROVE  MapNow' = [MapNow EXCEPT ![k] =
                              IF n = SizeOf[proc[p].val] THEN proc[p].val ELSE Torn]
      <3> DEFINE c == [files[k] EXCEPT !.len = n]
      <3>1. c \in Content /\ c.val = proc[p].val /\ c.len = n /\ c # None
        BY <2>1, Basic DEF Content
      <3>2. files' = [files EXCEPT ![k] = c]
        BY <2>4
      <3> HIDE DEF c
      <3>3. Whole(c) = IF n = SizeOf[proc[p].val] THEN proc[p].val ELSE Torn
        BY <3>1 DEF Whole
      <3> QED
        BY <1>0, <2>1, <3>2, <3>3 DEF MapNow
    <2>5. CASE Write(p)
      <3>1. MapNow' = [MapNow EXCEPT ![Storing] = proc[p].val]
        BY <2>1, <2>2, <2>4, <2>5 DEF Write
      <3> QED
        BY <1>1, <2>1, <2>2, <2>3, <3>1 DEF Promised
    <2>6. CASE WriteFails(p)
      <3>0. PICK n \in 0..(SizeOf[proc[p].val] - 1) :
              files' = [files EXCEPT ![k] = [files[k] EXCEPT !.len = n]]
        BY <2>6 DEF WriteFails
      <3>1. MapNow' = [MapNow EXCEPT ![k] = Torn]
        <4>1. n \in Nat /\ n # SizeOf[proc[p].val]
          BY <2>1, <3>0
        <4> QED
          BY <2>4, <3>0, <4>1
      <3>2. MapNow[k] = Torn
        BY <2>1, Basic DEF MapNow, Whole
      <3>3. MapNow' = MapNow
        BY <3>1, <3>2 DEF MapNow
      <3>4. Drops
        <4>1. Told' = Dropped(Told, {}) /\ Asked' = Dropped(Asked, {})
          BY <1>1 DEF Told, Asked, Dropped
        <4> QED
          BY <4>1 DEF Drops
      <3> QED
        BY <2>2, <2>3, <3>3, <3>4 DEF Promised
    <2> QED
      BY <1>5, <2>5, <2>6
  <1> QED
    BY <1>2, <1>3, <1>4, <1>5 DEF Set, OpenFails, Publish

LEMMA RemoverPromised ==
    ASSUME IInv, NEW p \in Procs,
           (\E k \in Keys : Delete(p, k)) \/ Clear(p) \/ ClearOne(p) \/ Cleared(p)
    PROVE  Promised
  <1>0. /\ proc \in [Procs -> Proc] /\ files \in [Keys -> Content \union {None}]
        /\ \A s \in Procs : s # p => proc'[s] = proc[s]
        /\ UNCHANGED Told
        /\ proc[p].pc \notin Reading /\ proc'[p].pc \notin Reading
    BY DEF IInv, Types, Delete, Clear, ClearOne, Cleared, Unlock, Told, Idle, At, Proc, Reading
  <1>a. UNCHANGED Asked
    BY <1>0, NotReading
  <1>1. Storing = None
    BY NoneWritten DEF Delete, Clear, ClearOne, Cleared, Writing
  <1>2. Storing' = Storing
    <2>1. proc[p].pc # "write" /\ proc'[p].pc # "write"
      BY <1>0 DEF Delete, Clear, ClearOne, Cleared, Unlock, Idle, At, Proc
    <2> QED
      BY <1>0, <2>1, NotWriting
  <1>3. files' = files \/ \E k \in Keys : files' = [files EXCEPT ![k] = None]
    BY <1>0 DEF Delete, Clear, ClearOne, Cleared, Proc
  <1>4. ASSUME NEW k \in Keys, files' = [files EXCEPT ![k] = None]
        PROVE  MapNow' = [MapNow EXCEPT ![k] = None]
    BY <1>0, <1>4 DEF MapNow, Whole
  <1>5. CASE files' = files
    BY <1>0, <1>a, <1>2, <1>5 DEF Promised, Silent, MapNow
  <1> QED
    BY <1>0, <1>a, <1>1, <1>2, <1>3, <1>4, <1>5 DEF Promised, Forgets

LEMMA RestartPromised ==
    ASSUME IInv, Restart
    PROVE  Promised
  <1>1. MapNow' = MapNow
    BY RemainsTorn DEF Restart, MapNow
  <1>2. Drops
    <2>1. Told' = Dropped(Told, Procs)
      BY DEF Restart, Told, Whole, Dropped
    <2>2. Asked' = Dropped(Asked, Procs)
      BY DEF Restart, Asked, AskedBy, Dropped, Idle, At, Reading
    <2> QED
      BY <2>1, <2>2 DEF Drops
  <1>3. Storing' = None
    <2>1. \A p \in Procs : proc'[p].pc # "write"
      BY IdleType DEF Restart
    <2> QED
      BY <2>1, NothingStored DEF Storing
  <1> QED
    BY <1>1, <1>2, <1>3 DEF Promised

\* The cache implements LossyMap, for any number of goroutines, keys and values:
\* an answer is the value stored last under the key asked for, and only a store that
\* was broken off, by a kill or a full disk, leaves a torn value behind.
THEOREM CacheIsLossyMap == Spec => ActsAsLossyMap
  <1>1. Init => Map!MInit
    BY DEF Init, Map!MInit, Whole, Idle, At, Reading
  <1>2. IInv /\ HitInv /\ [Next]_vars => [Map!MNext]_<<MapNow, Storing, Asked, Told>>
    <2>1. UNCHANGED vars => Silent
      BY DEF vars, Silent, MapNow, Storing, Asked, Told
    <2>2. IInv /\ HitInv /\ Next => Promised
      BY ReaderPromised, WriterPromised, RemoverPromised, RestartPromised DEF Next, Goroutine
    <2>3. Promised => [Map!MNext]_<<MapNow, Storing, Asked, Told>>
      BY DEF Promised, Silent, Forgets, Drops, Dropped, MapNow, Storing, StoringIn, Asked, AskedBy, Told, Map!MNext, Map!BreakOff,
             Map!NoAnswer, Map!Drop, Map!Ask, Map!Begin, Map!End, Map!Forget, Map!Answer
    <2> QED
      BY <2>1, <2>2, <2>3 DEF Silent
  <1> QED
    BY <1>1, <1>2, Invariant, HitInvariant, PTL DEF Spec, ActsAsLossyMap, Map!MSpec, Map!mvars, MapNow, Storing,
                                      StoringIn, Asked, AskedBy, Told
-----------------------------------------------------------------------------
(* Sums over finite sets *)

\* The sum the space check computes, and as many pairs as it should count.
Sum(f, S) == FoldFunctionOnSet(+, 0, f, S)
Bytes(f, S) == UNION {{k} \X (1..f[k]) : k \in S}

\* The strict subsets of a finite set are well founded: what holds for the empty
\* set and for one element more has no smallest counterexample.
LEMMA Smallest ==
    ASSUME NEW S, IsFiniteSet(S), NEW C \in SUBSET SUBSET S, C # {}
    PROVE  \E T \in C : \A U \in C : U \subseteq T => U = T
  <1>1. IsWellFoundedOn(StrictSubsetOrdering(S), SUBSET S)
    BY FS_StrictSubsetOrderingWellFounded, FS_FiniteSubsetsOfFinite
  <1>2. PICK T \in C : \A U \in C : <<U, T>> \notin StrictSubsetOrdering(S)
    BY <1>1, WFMin
  <1>3. \A U \in C : U \subseteq T => U = T
    BY <1>2 DEF StrictSubsetOrdering
  <1> QED
    BY <1>3

\* The pairs of a set are those of one element and those of the others.
LEMMA BytesSplit ==
    ASSUME NEW f, NEW T, NEW x \in T
    PROVE  /\ Bytes(f, T) = Bytes(f, T \ {x}) \union ({x} \X (1..f[x]))
           /\ Bytes(f, T \ {x}) \intersect ({x} \X (1..f[x])) = {}
  BY DEF Bytes

LEMMA BytesFinite ==
    ASSUME NEW S, IsFiniteSet(S), NEW f \in [S -> Nat]
    PROVE  \A T \in SUBSET S : IsFiniteSet(Bytes(f, T))
  <1> DEFINE C == {T \in SUBSET S : ~ IsFiniteSet(Bytes(f, T))}
  <1> SUFFICES ASSUME C # {} PROVE FALSE
    OBVIOUS
  <1>1. PICK T \in C : \A U \in C : U \subseteq T => U = T
    <2>1. C \in SUBSET SUBSET S
      OBVIOUS
    <2> HIDE DEF C
    <2> QED
      BY <2>1, Smallest
  <1>2. T # {}
    <2>1. Bytes(f, {}) = {}
      BY DEF Bytes
    <2> QED
      BY <2>1, FS_EmptySet
  <1>3. PICK x \in T : TRUE
    BY <1>2
  <1>4. IsFiniteSet(Bytes(f, T \ {x}))
    BY <1>1
  <1>5. IsFiniteSet({x} \X (1..f[x]))
    <2>1. IsFiniteSet(1..f[x])
      BY FS_Interval
    <2> QED
      BY <2>1, FS_Singleton, FS_Product
  <1>6. IsFiniteSet(Bytes(f, T \ {x}) \union ({x} \X (1..f[x])))
    BY <1>4, <1>5, FS_Union
  <1>7. Bytes(f, T) = Bytes(f, T \ {x}) \union ({x} \X (1..f[x]))
    BY <1>3, BytesSplit
  <1> QED
    BY <1>1, <1>6, <1>7

LEMMA CardSplit ==
    ASSUME NEW S, IsFiniteSet(S), NEW f \in [S -> Nat], NEW T \in SUBSET S, NEW x \in T
    PROVE  Cardinality(Bytes(f, T)) = f[x] + Cardinality(Bytes(f, T \ {x}))
  <1> DEFINE A == Bytes(f, T \ {x})
             B == {x} \X (1..f[x])
  <1>1. IsFiniteSet(A)
    BY BytesFinite
  <1>2. IsFiniteSet(B) /\ Cardinality(B) = f[x]
    <2>1. IsFiniteSet(1..f[x]) /\ Cardinality(1..f[x]) = f[x]
      BY FS_Interval
    <2>2. IsFiniteSet({x}) /\ Cardinality({x}) = 1
      BY FS_Singleton
    <2>3. IsFiniteSet(B) /\ Cardinality(B) = Cardinality({x}) * Cardinality(1..f[x])
      BY <2>1, <2>2, FS_Product
    <2> QED
      BY <2>1, <2>2, <2>3
  <1>3. Bytes(f, T) = A \union B /\ A \intersect B = {}
    BY BytesSplit
  <1>4. Cardinality(A \union B) = Cardinality(A) + Cardinality(B) - Cardinality(A \intersect B)
    BY <1>1, <1>2, FS_Union
  <1>5. Cardinality(A) \in Nat
    BY <1>1, FS_CardinalityType
  <1>6. f[x] \in Nat
    OBVIOUS
  <1> HIDE DEF A, B
  <1>7. Cardinality(A \union B) = Cardinality(A) + f[x]
    BY <1>2, <1>3, <1>4, <1>5, <1>6, FS_EmptySet
  <1>8. Cardinality(Bytes(f, T)) = f[x] + Cardinality(A)
    BY <1>3, <1>5, <1>6, <1>7
  <1> QED
    BY <1>8 DEF A

\* The fold is chosen among the functions that unfold as it should: counting the
\* pairs is one, so the fold unfolds, and the two have no smallest difference.
LEMMA SumIsCount ==
    ASSUME NEW S, IsFiniteSet(S), NEW f \in [S -> Nat]
    PROVE  Sum(f, S) = Cardinality(Bytes(f, S))
  <1> DEFINE Eq(g) == g = [s \in SUBSET S |->
                 IF s = {} THEN 0
                 ELSE f[CHOOSE x \in s : TRUE] + g[s \ {CHOOSE x \in s : TRUE}]]
             h == [s \in SUBSET S |-> Cardinality(Bytes(f, s))]
             iter == CHOOSE g : Eq(g)
  <1>1. Sum(f, S) = iter[S]
    BY DEF Sum, FoldFunctionOnSet, MapThenFoldSet
  <1>2. Eq(h)
    <2>1. ASSUME NEW s \in SUBSET S
          PROVE  h[s] = IF s = {} THEN 0
                        ELSE f[CHOOSE x \in s : TRUE] + h[s \ {CHOOSE x \in s : TRUE}]
      <3>1. CASE s = {}
        BY <3>1, FS_EmptySet DEF Bytes
      <3>2. CASE s # {}
        <4> DEFINE x == CHOOSE x \in s : TRUE
        <4>1. x \in s /\ s \ {x} \in SUBSET S
          BY <3>2
        <4> HIDE DEF x
        <4>2. Cardinality(Bytes(f, s)) = f[x] + Cardinality(Bytes(f, s \ {x}))
          BY <4>1, CardSplit
        <4>3. h[s] = f[x] + h[s \ {x}]
          BY <4>1, <4>2
        <4> QED
          BY <3>2, <4>3 DEF x
      <3> QED
        BY <3>1, <3>2
    <2> QED
      BY <2>1
  <1>3. Eq(iter)
    BY <1>2
  <1>4. \A s \in SUBSET S : iter[s] = h[s]
    <2> DEFINE C == {s \in SUBSET S : iter[s] # h[s]}
    <2> HIDE DEF iter, h
    <2> SUFFICES ASSUME C # {} PROVE FALSE
      OBVIOUS
    <2>1. PICK T \in C : \A U \in C : U \subseteq T => U = T
      <3>1. C \in SUBSET SUBSET S
        OBVIOUS
      <3> HIDE DEF C
      <3> QED
        BY <3>1, Smallest
    <2>2. CASE T = {}
      BY <1>2, <1>3, <2>2
    <2>3. CASE T # {}
      <3> DEFINE x == CHOOSE x \in T : TRUE
      <3>1. x \in T
        BY <2>3
      <3>2. T \ {x} \in SUBSET S /\ T \ {x} # T
        BY <3>1
      <3>3. iter[T \ {x}] = h[T \ {x}]
        BY <2>1, <3>2
      <3>4. iter[T] = f[x] + iter[T \ {x}] /\ h[T] = f[x] + h[T \ {x}]
        BY <1>2, <1>3, <2>3
      <3> QED
        BY <3>3, <3>4
    <2> QED
      BY <2>2, <2>3
  <1> QED
    BY <1>1, <1>4

\* The sum is one element and the sum of the others.
LEMMA SumSplit ==
    ASSUME NEW S, IsFiniteSet(S), NEW f \in [S -> Nat], NEW x \in S
    PROVE  Sum(f, S) = f[x] + Sum([k \in S \ {x} |-> f[k]], S \ {x})
  <1> DEFINE g == [k \in S \ {x} |-> f[k]]
  <1>1. IsFiniteSet(S \ {x}) /\ g \in [S \ {x} -> Nat]
    BY FS_RemoveElement
  <1>2. Bytes(g, S \ {x}) = Bytes(f, S \ {x})
    BY DEF Bytes
  <1>3. Sum(f, S) = Cardinality(Bytes(f, S))
    BY SumIsCount
  <1>4. Sum(g, S \ {x}) = Cardinality(Bytes(g, S \ {x}))
    BY <1>1, SumIsCount
  <1>5. Cardinality(Bytes(f, S)) = f[x] + Cardinality(Bytes(f, S \ {x}))
    BY CardSplit
  <1> QED
    BY <1>2, <1>3, <1>4, <1>5

\* Fewer or smaller elements give no larger a sum.
LEMMA SumMonotone ==
    ASSUME NEW S, IsFiniteSet(S), NEW f \in [S -> Nat],
           NEW T \in SUBSET S, NEW g \in [T -> Nat], \A k \in T : g[k] <= f[k]
    PROVE  Sum(g, T) \in Nat /\ Sum(f, S) \in Nat /\ Sum(g, T) <= Sum(f, S)
  <1>1. IsFiniteSet(T)
    BY FS_Subset
  <1>2. Sum(f, S) = Cardinality(Bytes(f, S)) /\ Sum(g, T) = Cardinality(Bytes(g, T))
    BY <1>1, SumIsCount
  <1>3. IsFiniteSet(Bytes(f, S))
    BY BytesFinite
  <1>4. Bytes(g, T) \subseteq Bytes(f, S)
    <2>1. \A k \in T : 1..g[k] \subseteq 1..f[k]
      OBVIOUS
    <2> QED
      BY <2>1 DEF Bytes
  <1> QED
    BY <1>2, <1>3, <1>4, FS_Subset, FS_CardinalityType
-----------------------------------------------------------------------------
(* The budget *)

Held(fs)  == {k \in Keys : fs[k] # None}
Usage(fs) == Sum([k \in Held(fs) |-> fs[k].len], Held(fs))
Budget(fs) == Usage(fs) <= MaxSize \/ Cardinality(Held(fs)) = 1

Directory == [Keys -> Content \union {None}]

\* What keeps the directory within maxSize: the index knows every file but the one
\* that is being stored, a Clear is to remove all there are, and there is room for
\* what is about to be written.
RoomInv ==
    /\ IsFiniteSet(Held(files))
    /\ refused = {} =>
       /\ Budget(files)
       /\ \A k \in Held(files) :
            \/ entries[k] # None
            \/ \E p \in Procs : proc[p].pc \in {"write", "publish"} /\ proc[p].key = k
       /\ \A p \in Procs :
            /\ proc[p].pc = "clear" => Held(files) \subseteq proc[p].left
            /\ proc[p].pc = "write" => \/ Usage(files) + SizeOf[proc[p].val] <= MaxSize
                                       \/ Held(files) = {proc[p].key}

BInv == IInv /\ RoomInv

LEMMA DiskUsageIsUsage == DiskUsage = Usage(files)
  BY DEF DiskUsage, Usage, Held, Sum

LEMMA LenType ==
    ASSUME NEW fs \in Directory
    PROVE  [k \in Held(fs) |-> fs[k].len] \in [Held(fs) -> Nat]
  BY DEF Directory, Held, Content

LEMMA UsageType ==
    ASSUME NEW fs \in Directory, IsFiniteSet(Held(fs))
    PROVE  Usage(fs) \in Nat
  BY LenType, SumMonotone DEF Usage

\* A directory with fewer or shorter files.
LEMMA UsageShrinks ==
    ASSUME NEW fs \in Directory, NEW gs \in Directory, IsFiniteSet(Held(fs)),
           Held(gs) \subseteq Held(fs), \A k \in Held(gs) : gs[k].len <= fs[k].len
    PROVE  IsFiniteSet(Held(gs)) /\ Usage(gs) <= Usage(fs)
  <1> DEFINE f == [k \in Held(fs) |-> fs[k].len]
             g == [k \in Held(gs) |-> gs[k].len]
  <1>1. f \in [Held(fs) -> Nat] /\ g \in [Held(gs) -> Nat]
    BY LenType
  <1>2. \A k \in Held(gs) : g[k] <= f[k]
    OBVIOUS
  <1> HIDE DEF f, g
  <1>3. Sum(g, Held(gs)) <= Sum(f, Held(fs))
    BY <1>1, <1>2, SumMonotone
  <1> QED
    BY <1>3, FS_Subset DEF Usage, f, g

LEMMA UsageEmpty ==
    ASSUME NEW fs \in Directory, Held(fs) = {}
    PROVE  Usage(fs) = 0
  <1>1. [k \in Held(fs) |-> fs[k].len] \in [Held(fs) -> Nat] /\ IsFiniteSet(Held(fs))
    BY LenType, FS_EmptySet
  <1>2. Usage(fs) = Cardinality(Bytes([k \in Held(fs) |-> fs[k].len], {}))
    BY <1>1, SumIsCount DEF Usage
  <1> QED
    BY <1>2, FS_EmptySet DEF Bytes

LEMMA BudgetShrinks ==
    ASSUME NEW fs \in Directory, NEW gs \in Directory, IsFiniteSet(Held(fs)), Budget(fs),
           Held(gs) \subseteq Held(fs), \A k \in Held(gs) : gs[k].len <= fs[k].len
    PROVE  Budget(gs)
  <1>0. MaxSize \in Nat
    BY ConstantsAssumption
  <1>1. Usage(gs) <= Usage(fs) /\ Usage(gs) \in Nat /\ Usage(fs) \in Nat
    BY UsageShrinks, UsageType
  <1>2. CASE Usage(fs) <= MaxSize
    BY <1>0, <1>1, <1>2 DEF Budget
  <1>3. CASE Cardinality(Held(fs)) = 1
    <2>1. Held(gs) = {} \/ Held(gs) = Held(fs)
      BY <1>3, FS_Singleton
    <2> QED
      BY <1>0, <1>3, <2>1, UsageEmpty DEF Budget
  <1> QED
    BY <1>2, <1>3 DEF Budget

\* One file is written anew.
LEMMA UsageGrows ==
    ASSUME NEW fs \in Directory, IsFiniteSet(Held(fs)), NEW k \in Keys, NEW c \in Content,
           NEW gs, gs = [fs EXCEPT ![k] = c]
    PROVE  /\ gs \in Directory /\ Held(gs) = Held(fs) \union {k} /\ IsFiniteSet(Held(gs))
           /\ Usage(gs) <= Usage(fs) + c.len
  <1> DEFINE g == [j \in Held(gs) |-> gs[j].len]
             f == [j \in Held(fs) |-> fs[j].len]
             r == [j \in Held(gs) \ {k} |-> g[j]]
  <1>1. gs \in Directory /\ Held(gs) = Held(fs) \union {k} /\ gs[k] = c
        /\ \A j \in Keys : j # k => gs[j] = fs[j]
    BY Basic DEF Directory, Held
  <1>2. IsFiniteSet(Held(gs))
    <2>1. IsFiniteSet(Held(fs) \union {k})
      BY FS_AddElement
    <2> QED
      BY <1>1, <2>1
  <1>3. g \in [Held(gs) -> Nat] /\ f \in [Held(fs) -> Nat] /\ k \in Held(gs) /\ g[k] = c.len
    BY <1>1, LenType
  <1>4. Sum(g, Held(gs)) = g[k] + Sum(r, Held(gs) \ {k})
    <2> HIDE DEF g
    <2> QED
      BY <1>2, <1>3, SumSplit
  <1>5. Held(gs) \ {k} \in SUBSET Held(fs) /\ r \in [Held(gs) \ {k} -> Nat]
        /\ \A j \in Held(gs) \ {k} : r[j] <= f[j]
    <2>1. Held(gs) \ {k} \in SUBSET Held(fs) /\ r \in [Held(gs) \ {k} -> Nat]
      BY <1>1, <1>3
    <2>2. ASSUME NEW j \in Held(gs) \ {k} PROVE r[j] <= f[j]
      <3>1. r[j] = g[j] /\ g[j] = gs[j].len /\ f[j] = fs[j].len /\ gs[j] = fs[j]
        BY <1>1, <2>1 DEF Held
      <3>2. r[j] \in Nat
        BY <2>1
      <3> QED
        BY <3>1, <3>2
    <2> QED
      BY <2>1, <2>2
  <1> HIDE DEF r
  <1>6. Sum(r, Held(gs) \ {k}) \in Nat /\ Sum(f, Held(fs)) \in Nat
        /\ Sum(r, Held(gs) \ {k}) <= Sum(f, Held(fs))
    <2> HIDE DEF f, g
    <2> QED
      BY <1>3, <1>5, SumMonotone
  <1>7. c.len \in Nat
    BY DEF Content
  <1>8. Usage(gs) = Sum(g, Held(gs)) /\ Usage(fs) = Sum(f, Held(fs))
    BY DEF Usage
  <1> HIDE DEF f, g
  <1>9. Usage(gs) <= Usage(fs) + c.len
    BY <1>3, <1>4, <1>6, <1>7, <1>8
  <1> QED
    BY <1>1, <1>2, <1>9

\* A removed file frees what it took.
LEMMA Removal ==
    ASSUME BInv, NEW k \in Keys, files' = [files EXCEPT ![k] = None]
    PROVE  /\ Held(files') = Held(files) \ {k} /\ IsFiniteSet(Held(files'))
           /\ Budget(files) => Budget(files')
  <1>1. files \in Directory /\ files' \in Directory /\ IsFiniteSet(Held(files))
    BY DEF BInv, IInv, Types, RoomInv, Directory
  <1>2. Held(files') = Held(files) \ {k}
    BY <1>1 DEF Directory, Held
  <1>3. \A j \in Held(files') : files'[j].len <= files[j].len
    BY <1>1, <1>2 DEF Directory, Held, Content
  <1> QED
    BY <1>1, <1>2, <1>3, BudgetShrinks, FS_Subset

\* A step that leaves the directory and those who write to it alone.
LEMMA RoomQuiet ==
    ASSUME BInv, UNCHANGED <<files, refused>>,
           \A k \in Keys : entries[k] # None => entries'[k] # None,
           \A p \in Procs : proc'[p].pc \in {"write", "clear"} => proc'[p] = proc[p],
           \A p \in Procs : proc[p].pc \in {"write", "publish"} => proc'[p] = proc[p]
    PROVE  RoomInv'
  <1>1. IsFiniteSet(Held(files'))
    BY DEF BInv, RoomInv
  <1>2. SUFFICES ASSUME refused' = {} PROVE RoomInv'
    BY <1>1 DEF RoomInv
  <1>3. Budget(files')
    BY <1>2 DEF BInv, RoomInv
  <1>4. \A k \in Held(files') :
           \/ entries'[k] # None
           \/ \E p \in Procs : proc'[p].pc \in {"write", "publish"} /\ proc'[p].key = k
    <2>1. Held(files') \subseteq Keys
      BY DEF Held
    <2> QED
      BY <1>2, <2>1 DEF BInv, RoomInv
  <1>5. \A p \in Procs :
            /\ proc'[p].pc = "clear" => Held(files') \subseteq proc'[p].left
            /\ proc'[p].pc = "write" => \/ Usage(files') + SizeOf[proc'[p].val] <= MaxSize
                                       \/ Held(files') = {proc'[p].key}
    BY <1>2 DEF BInv, RoomInv
  <1> QED
    BY <1>1, <1>3, <1>4, <1>5 DEF RoomInv

\* When nobody is in the middle of a change, the index counts what the disk holds.
LEMMA AllKnown ==
    ASSUME BInv, refused = {}, \A p \in Procs : proc[p].pc \notin {"write", "publish", "clear"}
    PROVE  Held(files) = Cached /\ TotalSize = Usage(files)
  <1>1. \A k \in Cached : files[k] # None /\ files[k].len = entries[k].size
    BY DEF BInv, IInv, IndexInv, Matches
  <1>2. Held(files) = Cached
    BY <1>1 DEF BInv, RoomInv, Held, Cached
  <1>3. [k \in Held(files) |-> files[k].len] = [k \in Cached |-> entries[k].size]
    BY <1>1, <1>2
  <1> QED
    BY <1>2, <1>3 DEF TotalSize, Usage, Sum

LEMMA RoomEvict == ASSUME BInv, NEW p \in Procs, Evict(p) PROVE RoomInv'
  <1>0. proc[p].pc = "evict" /\ proc[p] \in Proc
    BY DEF Evict, BInv, IInv, Types
  <1>1. PICK k \in proc[p].left :
          /\ proc' = [proc EXCEPT ![p].left = @ \ {k}]
          /\ \/ /\ entries' = [entries EXCEPT ![k] = None]
                /\ files' = [files EXCEPT ![k] = None]
                /\ UNCHANGED refused
             \/ /\ refused' = refused \union {k}
                /\ UNCHANGED <<entries, files>>
    BY DEF Evict
  <1>2. k \in Keys
    BY <1>0 DEF Proc
  <1>3. \A s \in Procs : proc[s].pc \notin {"write", "publish", "clear"}
    BY <1>0, Alone DEF BInv, IInv, Writing
  <1>4. \A s \in Procs : proc'[s].pc = proc[s].pc
    BY <1>0, <1>1 DEF BInv, IInv, Types, Proc
  <1>5. CASE UNCHANGED files /\ refused' = refused \union {k}
    BY <1>5 DEF BInv, RoomInv
  <1>6. CASE /\ entries' = [entries EXCEPT ![k] = None]
             /\ files' = [files EXCEPT ![k] = None]
             /\ UNCHANGED refused
    <2>1. /\ Held(files') = Held(files) \ {k} /\ IsFiniteSet(Held(files'))
          /\ Budget(files) => Budget(files')
      BY <1>2, <1>6, Removal
    <2>2. ASSUME refused = {}, NEW j \in Held(files') PROVE entries'[j] # None
      <3>1. j \in Cached /\ j # k
        BY <1>3, <2>1, <2>2, AllKnown
      <3> QED
        BY <1>6, <3>1 DEF Cached, BInv, IInv, Types
    <2> QED
      BY <1>3, <1>4, <1>6, <2>1, <2>2 DEF BInv, RoomInv
  <1> QED
    BY <1>1, <1>5, <1>6

LEMMA RoomTruncate == ASSUME BInv, NEW p \in Procs, Truncate(p) PROVE RoomInv'
  <1> DEFINE k == proc[p].key
             v == proc[p].val
             c == [val |-> v, len |-> 0, mtime |-> clock + 1]
  <1>0. proc[p].pc = "evict" /\ k \in Keys /\ v \in Values /\ clock \in Nat
    BY DEF Truncate, BInv, IInv, Types, CallInv
  <1>1. /\ proc'[p].pc = "write" /\ proc'[p].key = k /\ proc'[p].val = v
        /\ \A s \in Procs : s # p => proc'[s] = proc[s]
    BY GotoType DEF Truncate, BInv, IInv, Types, Pcs, Writing
  <1>2. c \in Content /\ c.len = 0
    BY <1>0 DEF Content
  <1>3. files' = [files EXCEPT ![k] = c] /\ UNCHANGED <<entries, refused>>
    BY DEF Truncate
  <1>4. files \in Directory /\ files' \in Directory /\ IsFiniteSet(Held(files))
    BY <1>0, <1>2, <1>3 DEF BInv, IInv, Types, RoomInv, Directory
  <1> HIDE DEF c
  <1>5. /\ Held(files') = Held(files) \union {k} /\ IsFiniteSet(Held(files'))
        /\ Usage(files') <= Usage(files) + 0
    BY <1>0, <1>2, <1>3, <1>4, UsageGrows
  <1>6. \A s \in Procs : proc[s].pc \notin {"write", "publish", "clear"}
    BY <1>0, Alone DEF BInv, IInv, Writing
  <1>7. SUFFICES ASSUME refused = {} PROVE RoomInv'
    BY <1>3, <1>5 DEF RoomInv
  <1>8. Held(files) = Cached /\ TotalSize = Usage(files)
    BY <1>6, <1>7, AllKnown
  <1>9. \/ Usage(files') + SizeOf[v] <= MaxSize
        \/ Held(files') = {k}
    <2>1. CASE Fits(p)
      <3>1. Usage(files) + SizeOf[v] <= MaxSize
        BY <1>8, <2>1 DEF Fits
      <3>2. Usage(files) \in Nat /\ Usage(files') \in Nat /\ SizeOf[v] \in Nat /\ MaxSize \in Nat
        BY <1>0, <1>4, <1>5, UsageType, ConstantsAssumption
      <3> QED
        BY <1>5, <3>1, <3>2
    <2>2. CASE proc[p].left = {}
      <3>1. Cached = {}
        BY <1>0, <1>7, <2>2 DEF BInv, IInv, CallInv
      <3> QED
        BY <1>5, <1>8, <3>1
    <2> QED
      BY <2>1, <2>2 DEF Truncate
  <1>10. Budget(files')
    <2>1. Usage(files') \in Nat /\ SizeOf[v] \in Nat /\ MaxSize \in Nat
      BY <1>0, <1>4, <1>5, UsageType, ConstantsAssumption
    <2>2. Cardinality({k}) = 1
      BY FS_Singleton
    <2> HIDE DEF k, v
    <2> QED
      BY <1>9, <2>1, <2>2 DEF Budget
  <1>11. \A j \in Held(files') : entries'[j] # None \/ j = k
    BY <1>3, <1>5, <1>8 DEF Cached
  <1> QED
    BY <1>1, <1>5, <1>6, <1>9, <1>10, <1>11 DEF RoomInv

LEMMA RoomWrite == ASSUME BInv, NEW p \in Procs, Write(p) PROVE RoomInv'
  <1> DEFINE k == proc[p].key
             v == proc[p].val
             c == [files[k] EXCEPT !.len = SizeOf[v]]
  <1>0. /\ proc[p].pc = "write" /\ k \in Keys /\ v \in Values
        /\ files[k] \in Content /\ files[k] # None /\ SizeOf[v] \in Nat /\ MaxSize \in Nat
    BY Basic, ConstantsAssumption DEF Write, BInv, IInv, Types, CallInv
  <1>1. /\ proc'[p].pc = "publish" /\ proc'[p].key = k
        /\ \A s \in Procs : s # p => proc'[s] = proc[s]
    BY GotoType DEF Write, BInv, IInv, Types, Pcs, Writing
  <1>2. c \in Content /\ c.len = SizeOf[v]
    BY <1>0 DEF Content
  <1>3. files' = [files EXCEPT ![k] = c] /\ UNCHANGED <<entries, refused>>
    BY DEF Write
  <1>4. files \in Directory /\ files' \in Directory /\ IsFiniteSet(Held(files)) /\ k \in Held(files)
    BY <1>0, <1>2, <1>3 DEF BInv, IInv, Types, RoomInv, Directory, Held
  <1> HIDE DEF c
  <1>5. /\ Held(files') = Held(files) /\ IsFiniteSet(Held(files'))
        /\ Usage(files') <= Usage(files) + SizeOf[v]
    <2> HIDE DEF k, v
    <2>1. /\ Held(files') = Held(files) \union {k} /\ IsFiniteSet(Held(files'))
          /\ Usage(files') <= Usage(files) + c.len
      BY <1>0, <1>2, <1>3, <1>4, UsageGrows
    <2> QED
      BY <1>2, <1>4, <2>1
  <1>6. \A s \in Procs : s # p => proc[s].pc = "idle"
    BY <1>0, Alone DEF BInv, IInv, Writing
  <1>7. SUFFICES ASSUME refused = {} PROVE RoomInv'
    BY <1>3, <1>5 DEF RoomInv
  <1>8. Budget(files')
    <2>1. Usage(files) + SizeOf[v] <= MaxSize \/ Held(files) = {k}
      BY <1>0, <1>7 DEF BInv, RoomInv
    <2>2. Usage(files) \in Nat /\ Usage(files') \in Nat
      BY <1>4, <1>5, UsageType
    <2> QED
      BY <1>0, <1>5, <2>1, <2>2, FS_Singleton DEF Budget
  <1>9. \A j \in Held(files') : entries'[j] # None \/ j = k
    BY <1>0, <1>3, <1>5, <1>6, <1>7 DEF BInv, RoomInv
  <1> QED
    BY <1>1, <1>5, <1>6, <1>8, <1>9 DEF RoomInv

LEMMA RoomWriteFails == ASSUME BInv, NEW p \in Procs, WriteFails(p) PROVE RoomInv'
  <1> DEFINE k == proc[p].key
  <1>0. /\ proc[p].pc = "write" /\ k \in Keys /\ proc[p].val \in Values
        /\ files[k] \in Content /\ SizeOf[proc[p].val] \in Nat \ {0}
    BY Basic DEF WriteFails, BInv, IInv, Types, CallInv
  <1>1. PICK n \in 0..(SizeOf[proc[p].val] - 1) :
          files' = [files EXCEPT ![k] = [files[k] EXCEPT !.len = n]]
    BY DEF WriteFails
  <1>2. [files[k] EXCEPT !.len = n] \in Content
    BY <1>0 DEF Content
  <1>3. IsFiniteSet(Held(files'))
    BY <1>0, <1>1, <1>2, UsageGrows DEF BInv, IInv, Types, RoomInv, Directory
  <1>4. refused' # {}
    BY DEF WriteFails
  <1> QED
    BY <1>3, <1>4 DEF RoomInv

LEMMA RoomPublish == ASSUME BInv, NEW p \in Procs, Publish(p) PROVE RoomInv'
  <1> DEFINE k == proc[p].key
             e == [size |-> SizeOf[proc[p].val], at |-> clock]
  <1>0. /\ proc[p].pc = "publish" /\ k \in Keys
        /\ SizeOf[proc[p].val] \in Nat /\ clock \in Nat
    BY Basic DEF Publish, BInv, IInv, Types, CallInv
  <1>1. e \in Entry /\ e # None
    BY <1>0, Basic DEF Entry
  <1>2. entries' = [entries EXCEPT ![k] = e] /\ Unlock(p) /\ UNCHANGED <<files, refused>>
    BY DEF Publish
  <1> HIDE DEF e
  <1>3. \A s \in Procs : proc'[s].pc = "idle"
    BY <1>0, <1>2, UnlockStep DEF BInv, Writing
  <1>4. \A s \in Procs : s # p => proc[s].pc = "idle"
    BY <1>0, Alone DEF BInv, IInv, Writing
  <1>5. ASSUME refused = {}, NEW j \in Held(files) PROVE entries'[j] # None
    <2>1. entries[j] # None \/ j = k
      BY <1>4, <1>5 DEF BInv, RoomInv
    <2>2. j \in Keys
      BY DEF Held
    <2> QED
      BY <1>0, <1>1, <1>2, <2>1, <2>2 DEF BInv, IInv, Types
  <1> QED
    BY <1>2, <1>3, <1>5 DEF BInv, RoomInv

LEMMA RoomDelete == ASSUME BInv, NEW p \in Procs, NEW k \in Keys, Delete(p, k) PROVE RoomInv'
  <1>0. \A s \in Procs : proc[s].pc = "idle"
    BY Nobody DEF Delete, BInv, IInv
  <1>1. UNCHANGED proc
    BY DEF Delete
  <1>2. CASE UNCHANGED files /\ refused' = refused \union {k}
    BY <1>2 DEF BInv, RoomInv
  <1>3. CASE /\ files' = [files EXCEPT ![k] = None]
             /\ entries' = [entries EXCEPT ![k] = None]
             /\ UNCHANGED refused
    <2>1. /\ Held(files') = Held(files) \ {k} /\ IsFiniteSet(Held(files'))
          /\ Budget(files) => Budget(files')
      BY <1>3, Removal
    <2>2. ASSUME refused = {}, NEW j \in Held(files') PROVE entries'[j] # None
      <3>1. j \in Cached /\ j # k
        BY <1>0, <2>1, <2>2, AllKnown
      <3> QED
        BY <1>3, <3>1 DEF Cached, BInv, IInv, Types
    <2> QED
      BY <1>0, <1>1, <1>3, <2>1, <2>2 DEF BInv, RoomInv
  <1> QED
    BY <1>2, <1>3 DEF Delete

LEMMA RoomClear == ASSUME BInv, NEW p \in Procs, Clear(p) PROVE RoomInv'
  <1> DEFINE q == At("clear", None, None, Cached, 0)
  <1>0. \A s \in Procs : proc[s].pc = "idle"
    BY Nobody DEF Clear, BInv, IInv
  <1>1. q.pc = "clear" /\ q.left = Cached
    BY DEF At
  <1>2. proc' = [proc EXCEPT ![p] = q] /\ UNCHANGED <<entries, files, refused>>
    BY DEF Clear
  <1> HIDE DEF q
  <1>3. proc'[p] = q /\ \A s \in Procs : s # p => proc'[s] = proc[s]
    BY <1>2 DEF BInv, IInv, Types
  <1>4. refused = {} => Held(files) = Cached
    BY <1>0, AllKnown
  <1>5. \A k \in Held(files) : refused = {} => entries[k] # None
    BY <1>4 DEF Cached
  <1> QED
    BY <1>0, <1>1, <1>2, <1>3, <1>4, <1>5 DEF BInv, RoomInv

LEMMA RoomClearOne == ASSUME BInv, NEW p \in Procs, ClearOne(p) PROVE RoomInv'
  <1>0. proc[p].pc = "clear" /\ proc[p] \in Proc
    BY DEF ClearOne, BInv, IInv, Types
  <1>1. PICK k \in proc[p].left :
          /\ proc' = [proc EXCEPT ![p].left = @ \ {k}]
          /\ \/ files' = [files EXCEPT ![k] = None] /\ UNCHANGED refused
             \/ refused' = refused \union {k} /\ UNCHANGED files
    BY DEF ClearOne
  <1>2. UNCHANGED entries
    BY DEF ClearOne
  <1>3. k \in Keys
    BY <1>0 DEF Proc
  <1>4. /\ proc'[p].left = proc[p].left \ {k}
        /\ \A s \in Procs : s # p => proc'[s] = proc[s] /\ proc[s].pc = "idle"
    BY <1>0, <1>1, Alone DEF BInv, IInv, Types, Proc, Writing
  <1>5. CASE UNCHANGED files /\ refused' = refused \union {k}
    BY <1>5 DEF BInv, RoomInv
  <1>6. CASE files' = [files EXCEPT ![k] = None] /\ UNCHANGED refused
    <2>1. /\ Held(files') = Held(files) \ {k} /\ IsFiniteSet(Held(files'))
          /\ Budget(files) => Budget(files')
      BY <1>3, <1>6, Removal
    <2>2. refused = {} => /\ Held(files) \subseteq proc[p].left
                          /\ \A j \in Held(files) : entries[j] # None
      BY <1>0, <1>4 DEF BInv, RoomInv
    <2>3. proc'[p].pc = "clear"
      BY <1>0, <1>1 DEF BInv, IInv, Types, Proc
    <2> QED
      BY <1>2, <1>4, <1>6, <2>1, <2>2, <2>3 DEF BInv, RoomInv
  <1> QED
    BY <1>1, <1>5, <1>6

LEMMA RoomCleared == ASSUME BInv, NEW p \in Procs, Cleared(p) PROVE RoomInv'
  <1>1. proc[p].pc = "clear" /\ proc[p].left = {} /\ Unlock(p) /\ UNCHANGED <<files, refused>>
    BY DEF Cleared
  <1>2. \A s \in Procs : proc'[s].pc = "idle"
    BY <1>1, UnlockStep DEF BInv, Writing
  <1>3. refused = {} => Held(files) = {}
    BY <1>1 DEF BInv, RoomInv
  <1> QED
    BY <1>1, <1>2, <1>3 DEF BInv, RoomInv

\* What a kill leaves is no more than what was to be written.
LEMMA RoomRemains ==
    ASSUME BInv, NEW f \in Remains
    PROVE  IsFiniteSet(Held(f)) /\ (refused = {} => Budget(f))
  <1>1. CASE f = files
    BY <1>1 DEF BInv, RoomInv
  <1>2. CASE f # files
    <2>1. PICK p \in Procs : /\ proc[p].pc = "write"
                            /\ f \in {[files EXCEPT ![proc[p].key].len = n] :
                                         n \in 0..(SizeOf[proc[p].val] - 1)}
      BY <1>2 DEF Remains
    <2> DEFINE k == proc[p].key
               v == proc[p].val
    <2>2. PICK n \in 0..(SizeOf[v] - 1) :
            f = [files EXCEPT ![k] = [files[k] EXCEPT !.len = n]]
      BY <2>1
    <2> DEFINE c == [files[k] EXCEPT !.len = n]
    <2>3. /\ k \in Keys /\ files[k] \in Content /\ files[k] # None
          /\ SizeOf[v] \in Nat \ {0} /\ MaxSize \in Nat
      BY <2>1, Basic, ConstantsAssumption DEF BInv, IInv, Types, CallInv
    <2>4. c \in Content /\ c.len = n
      BY <2>2, <2>3 DEF Content
    <2> HIDE DEF c
    <2>5. f = [files EXCEPT ![k] = c]
      BY <2>2 DEF c
    <2>6. files \in Directory /\ IsFiniteSet(Held(files)) /\ k \in Held(files)
      BY <2>3 DEF BInv, IInv, Types, RoomInv, Directory, Held
    <2>7. /\ f \in Directory /\ Held(f) = Held(files) /\ IsFiniteSet(Held(f))
          /\ Usage(f) <= Usage(files) + n
      <3> HIDE DEF k
      <3>1. /\ f \in Directory /\ Held(f) = Held(files) \union {k} /\ IsFiniteSet(Held(f))
            /\ Usage(f) <= Usage(files) + c.len
        BY <2>3, <2>4, <2>5, <2>6, UsageGrows
      <3> QED
        BY <2>4, <2>6, <3>1
    <2>8. ASSUME refused = {} PROVE Budget(f)
      <3>1. Usage(files) + SizeOf[v] <= MaxSize \/ Held(files) = {k}
        BY <2>1, <2>8 DEF BInv, RoomInv
      <3>2. Usage(files) \in Nat /\ Usage(f) \in Nat /\ n \in Nat /\ n < SizeOf[v]
        BY <2>3, <2>6, <2>7, UsageType
      <3>3. Cardinality({k}) = 1
        BY FS_Singleton
      <3> HIDE DEF k, v
      <3> QED
        BY <2>3, <2>7, <3>1, <3>2, <3>3 DEF Budget
    <2> QED
      BY <2>7, <2>8
  <1> QED
    BY <1>1, <1>2

LEMMA RoomRestart == ASSUME BInv, Restart PROVE RoomInv'
  <1>1. IsFiniteSet(Held(files')) /\ (refused = {} => Budget(files')) /\ UNCHANGED refused
    BY RoomRemains DEF Restart
  <1>2. \A s \in Procs : proc'[s].pc = "idle"
    BY IdleType DEF Restart
  <1>3. ASSUME NEW k \in Held(files') PROVE entries'[k] # None
    <2>1. k \in Keys /\ files'[k] # None
      BY DEF Held
    <2>2. files'[k] \in Content
      BY <2>1, RemainsType DEF BInv, Restart
    <2>3. /\ entries'[k] = [size |-> files'[k].len, at |-> files'[k].mtime]
          /\ entries'[k] \in Entry
      BY <2>1, <2>2 DEF Restart, Entry, Content
    <2> QED
      BY <2>3, Basic
  <1> QED
    BY <1>1, <1>2, <1>3 DEF RoomInv

LEMMA RoomRead ==
    ASSUME BInv, NEW p \in Procs,
           \/ \E k \in Keys : Get(p, k) \/ \E v \in Values : Set(p, k, v)
           \/ GetMiss(p) \/ GetHit(p) \/ Touch(p) \/ OpenFails(p)
    PROVE  RoomInv'
  <1>1. UNCHANGED <<files, refused>>
    BY DEF Get, Set, GetMiss, GetHit, Touch, OpenFails
  <1>2. \A k \in Keys : entries[k] # None => entries'[k] # None
    <2>1. CASE Touch(p)
      <3>1. entries' = [entries EXCEPT ![proc[p].key].at = proc[p].stamp] /\ entries[proc[p].key] # None
        BY <2>1 DEF Touch, BInv, IInv, CallInv
      <3>2. proc[p].key \in Keys /\ proc[p].stamp \in Nat
        BY <2>1 DEF Touch, BInv, IInv, CallInv, Types, Proc
      <3>3. [entries[proc[p].key] EXCEPT !.at = proc[p].stamp] \in Entry
        BY <3>1, <3>2 DEF BInv, IInv, Types, Entry
      <3> QED
        BY <3>1, <3>2, <3>3, Basic DEF BInv, IInv, Types
    <2>2. CASE ~Touch(p)
      BY <2>2 DEF Get, Set, GetMiss, GetHit, OpenFails
    <2> QED
      BY <2>1, <2>2
  <1>3. /\ proc[p].pc \notin {"write", "publish"} /\ proc'[p].pc \notin {"write", "clear"}
        /\ \A s \in Procs : s # p => proc'[s] = proc[s]
    BY IdleType DEF Get, Set, GetMiss, GetHit, Touch, OpenFails, Unlock, RUnlock, At, BInv, IInv, Types
  <1> QED
    BY <1>1, <1>2, <1>3, RoomQuiet

LEMMA RoomStep == BInv /\ [Next]_vars => BInv'
  <1> SUFFICES ASSUME BInv, [Next]_vars PROVE RoomInv'
    BY Step DEF BInv
  <1>1. ASSUME NEW p \in Procs, Goroutine(p) PROVE RoomInv'
    BY <1>1, RoomRead, RoomEvict, RoomTruncate, RoomWrite, RoomWriteFails, RoomPublish,
       RoomDelete, RoomClear, RoomClearOne, RoomCleared DEF Goroutine
  <1>2. CASE UNCHANGED vars
    BY <1>2, RoomQuiet DEF vars
  <1> QED
    BY <1>1, <1>2, RoomRestart DEF Next

\* The directory stays within maxSize, or holds one file only, through evictions,
\* overwrites, kills and restarts, as long as no removal and no write has failed.
\* (cache.go:104, 141-187.)
THEOREM WithinBudget == Spec => []DiskBudget
  <1>1. Init => BInv
    <2> SUFFICES ASSUME Init PROVE RoomInv
      BY Initially DEF BInv
    <2>1. Held(files) = {} /\ files \in Directory
      BY DEF Init, Held, Directory
    <2>2. Budget(files)
      BY <2>1, UsageEmpty, ConstantsAssumption DEF Budget
    <2> QED
      BY <2>1, <2>2, IdleType, FS_EmptySet DEF Init, RoomInv
  <1>2. BInv => DiskBudget
    BY DiskUsageIsUsage DEF BInv, RoomInv, DiskBudget, Budget, Held
  <1> QED
    BY <1>1, <1>2, RoomStep, PTL DEF Spec

-----------------------------------------------------------------------------
(* Without kills and failing writes *)

NothingBreaksOff == Faults \intersect {"kill", "write"} = {}

\* A file is whole unless the holder of the lock is writing it, and what a reader
\* took is whole.
WholeInv ==
    /\ \A k \in Keys : files[k] # None =>
         \/ files[k].len = SizeOf[files[k].val]
         \/ \E p \in Procs : proc[p].pc = "write" /\ proc[p].key = k
    /\ HitIsWhole

\* A step that leaves the writing of files alone, and takes files away at most.
LEMMA WholeQuiet ==
    ASSUME IInv, WholeInv, UNCHANGED hit,
           \A k \in Keys : files'[k] \in {files[k], None},
           \A p \in Procs : proc[p].pc = "write" => proc'[p] = proc[p]
    PROVE  WholeInv'
  BY DEF WholeInv, HitIsWhole

LEMMA WholeGetHit == ASSUME IInv, WholeInv, NEW p \in Procs, GetHit(p) PROVE WholeInv'
  <1> DEFINE k == proc[p].key
             d == [val |-> files[k].val, len |-> files[k].len]
  <1>0. /\ proc[p].pc = "get" /\ k \in Keys /\ files[k] # None
        /\ hit \in [Procs -> Data \union {None}]
    BY DEF GetHit, IInv, CallInv, Types
  <1>1. \A s \in Procs : proc[s].pc # "write"
    <2>1. writer = Free
      BY <1>0 DEF IInv, LockInv, Reading
    <2> QED
      BY <2>1, Basic DEF IInv, LockInv, Writing
  <1>2. d.len = SizeOf[d.val]
    BY <1>0, <1>1 DEF WholeInv
  <1>3. hit' = [hit EXCEPT ![p] = d] /\ UNCHANGED files
    BY DEF GetHit
  <1> HIDE DEF d
  <1>4. HitIsWhole'
    BY <1>0, <1>2, <1>3 DEF WholeInv, HitIsWhole
  <1> QED
    BY <1>1, <1>3, <1>4 DEF WholeInv

LEMMA WholeTouch == ASSUME IInv, WholeInv, NEW p \in Procs, Touch(p) PROVE WholeInv'
  <1>1. proc[p].pc = "touch" /\ hit' = [hit EXCEPT ![p] = None] /\ UNCHANGED files
    BY DEF Touch
  <1>2. \A s \in Procs : s # p => proc'[s] = proc[s]
    BY IdleType, Local DEF Touch, RUnlock, IInv, Types
  <1>3. HitIsWhole'
    BY <1>1 DEF IInv, Types, WholeInv, HitIsWhole
  <1> QED
    BY <1>1, <1>2, <1>3 DEF WholeInv

LEMMA WholeTruncate == ASSUME IInv, WholeInv, NEW p \in Procs, Truncate(p) PROVE WholeInv'
  <1> DEFINE k == proc[p].key
  <1>0. proc[p].pc = "evict"
    BY DEF Truncate
  <1>1. proc'[p].pc = "write" /\ proc'[p].key = k /\ \A s \in Procs : s # p => proc'[s] = proc[s]
    BY GotoType DEF Truncate, IInv, Types, Pcs, Writing
  <1>2. \A j \in Keys : j # k => files'[j] = files[j]
    BY DEF Truncate, IInv, Types
  <1>3. UNCHANGED hit
    BY DEF Truncate
  <1> QED
    BY <1>0, <1>1, <1>2, <1>3 DEF WholeInv, HitIsWhole

LEMMA WholeWrite == ASSUME IInv, WholeInv, NEW p \in Procs, Write(p) PROVE WholeInv'
  <1> DEFINE k == proc[p].key
             c == [files[k] EXCEPT !.len = SizeOf[proc[p].val]]
  <1>0. /\ proc[p].pc = "write" /\ k \in Keys /\ files[k] \in Content
        /\ files[k].val = proc[p].val
    BY Basic DEF Write, IInv, Types, CallInv
  <1>1. c.len = SizeOf[c.val]
    BY <1>0 DEF Content
  <1>2. files' = [files EXCEPT ![k] = c] /\ UNCHANGED hit
    BY DEF Write
  <1> HIDE DEF c
  <1>3. \A s \in Procs : s # p => proc'[s] = proc[s] /\ proc[s].pc = "idle"
    BY <1>0, Alone, GotoType DEF Write, IInv, Types, Pcs, Writing
  <1>4. ASSUME NEW j \in Keys, files'[j] # None PROVE files'[j].len = SizeOf[files'[j].val]
    <2>1. CASE j = k
      BY <1>0, <1>1, <1>2, <2>1 DEF IInv, Types
    <2>2. CASE j # k
      BY <1>0, <1>2, <1>3, <1>4, <2>2 DEF IInv, Types, WholeInv
    <2> QED
      BY <2>1, <2>2
  <1> QED
    BY <1>2, <1>4 DEF WholeInv, HitIsWhole

\* The steps of the other operations.
LEMMA WholeOthers ==
    ASSUME IInv, WholeInv, NEW p \in Procs, NothingBreaksOff, Goroutine(p),
           ~ GetHit(p), ~ Touch(p), ~ Truncate(p), ~ Write(p)
    PROVE  WholeInv'
  <1> DEFINE Other == \/ \E k \in Keys : Get(p, k) \/ Delete(p, k) \/ \E v \in Values : Set(p, k, v)
                      \/ GetMiss(p) \/ Evict(p) \/ Publish(p)
                      \/ Clear(p) \/ ClearOne(p) \/ Cleared(p)
  <1>1. Other
    BY DEF Goroutine, NothingBreaksOff, OpenFails, WriteFails
  <1>2. UNCHANGED hit
    BY <1>1 DEF Get, Delete, Set, GetMiss, Evict, Publish, Clear, ClearOne, Cleared
  <1>3. \A k \in Keys : files'[k] \in {files[k], None}
    BY <1>1 DEF Get, Delete, Set, GetMiss, Evict, Publish, Clear, ClearOne, Cleared, IInv, Types
  <1>4. proc[p].pc # "write" /\ \A s \in Procs : s # p => proc'[s] = proc[s]
    BY <1>1 DEF Get, Delete, Set, GetMiss, Evict, Publish, Clear, ClearOne, Cleared, Unlock, RUnlock,
                IInv, Types
  <1> QED
    BY <1>2, <1>3, <1>4, WholeQuiet

\* Where no kill and no full disk breaks a write off, a hit is a value that was
\* set, all of it, for any number of goroutines and whatever removes and reads fail:
\* the lock alone is enough.  A kill is enough to lose it, as the run cache_torn
\* shows.  (cache.go:74-121.)
THEOREM HitsAreWhole == NothingBreaksOff => (Spec => []HitIsWhole)
  <1> SUFFICES ASSUME NothingBreaksOff PROVE Spec => []HitIsWhole
    OBVIOUS
  <1>1. Init => IInv /\ WholeInv
    BY Initially DEF Init, WholeInv, HitIsWhole
  <1>2. IInv /\ WholeInv /\ [Next]_vars => IInv' /\ WholeInv'
    <2> SUFFICES ASSUME IInv, WholeInv, [Next]_vars PROVE WholeInv'
      BY Step
    <2>1. ASSUME NEW p \in Procs, Goroutine(p) PROVE WholeInv'
      BY <2>1, WholeGetHit, WholeTouch, WholeTruncate, WholeWrite, WholeOthers
    <2>2. CASE UNCHANGED vars
      BY <2>2, WholeQuiet DEF vars
    <2>3. ~ Restart
      BY DEF Restart, NothingBreaksOff
    <2> QED
      BY <2>1, <2>2, <2>3 DEF Next
  <1>3. WholeInv => HitIsWhole
    BY DEF WholeInv
  <1> QED
    BY <1>1, <1>2, <1>3, PTL DEF Spec
=============================================================================
