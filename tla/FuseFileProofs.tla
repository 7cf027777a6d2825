--------------------------- MODULE FuseFileProofs ---------------------------
(***************************************************************************)
(* Proofs, for any number of kernel requests, blocks, Writes and records,  *)
(* of the type correctness of FuseFile and of its other properties; and    *)
(* that the files which are new and stay small are saved as written.       *)
(***************************************************************************)
EXTENDS FuseFile, SequenceTheorems, TLAPS

Pcs == {"idle", "check", "download", "serve", "upload"}

\* The requests of the kernel.
Waiting == pc \in [Procs -> Pcs] /\ off \in [Procs -> 0..(MaxLen - 1)]

\* The types, one by one.
Types ==
    /\ data \in Contents \union {Nil} /\ spool \in Contents \union {Nil}
    /\ size \in 0..MaxLen /\ dirty \in BOOLEAN /\ id \in Ids \union {NoId}
    /\ remote \in [Ids -> Contents \union {Nil}] /\ cache \in [Ids -> Contents \union {Nil}]
    /\ created \in 0..MaxRecords
    /\ Waiting
    /\ want \in Contents /\ lost \in {"no", "inSpool", "yes"} /\ inside \in BOOLEAN
    /\ writes \in 0..MaxWrites /\ saved \in 0..writes

\* The records made so far have a content, and no other is known to the file or
\* to the cache.
RecordInv ==
    /\ id <= created
    /\ \A i \in Ids : i <= created => remote[i] # Nil
    /\ \A i \in Ids : cache[i] # Nil => i <= created

\* A dirty file has a buffer, and Writes that no upload has covered.
DirtyInv == dirty => data # Nil /\ saved < writes

\* Where the content is while it is not lost.
KeptInv ==
    /\ WrittenIsKept
    /\ lost = "inSpool" => spool # Nil
    /\ ~dirty /\ id # NoId /\ lost = "no" => remote[id] = want

\* Something was written once something was, and a spool the disk left empty is not
\* what was written.
SpoolInv ==
    /\ writes = 0 \/ want # <<>>
    /\ dirty /\ spool = <<>> => lost = "yes"

\* As long as nothing is lost, f.size is the end of the file, or of a Write inside.
SizeInv == lost = "no" /\ data # Nil => size >= Len(want) \/ inside

IInv == Types /\ RecordInv /\ DirtyInv /\ CleanIsSaved /\ CacheIsCoherent /\ KeptInv
        /\ SpoolInv /\ SizeInv

-----------------------------------------------------------------------------
(* Contents *)

LEMMA Basic ==
    /\ MaxLen \in Nat \ {0} /\ MaxRecords \in Nat \ {0} /\ MaxWrites \in Nat
    /\ Ids \subseteq Nat /\ NoId \notin Ids /\ NoId \in Nat
    /\ Old \in Block /\ Zero \in Block /\ Blocks \subseteq Block
    /\ Nil \notin Contents
    /\ Nil # <<>> /\ 0 \in 0..(MaxLen - 1)
  <1>1. Nil # <<>>
    <2>1. <<>> \in Seq(Blocks \union {Old, Zero})
      OBVIOUS
    <2> QED
      BY <2>1, ConstantsAssumption DEF ConstantsAssumption
  <1>2. Nil \notin Contents
    BY ConstantsAssumption DEF ConstantsAssumption, Contents, Block
  <1>3. MaxLen \in Nat \ {0} /\ MaxRecords \in Nat \ {0} /\ MaxWrites \in Nat
    BY ConstantsAssumption DEF ConstantsAssumption
  <1>4. 0 \in 0..(MaxLen - 1)
    BY <1>3
  <1>5. Ids \subseteq Nat /\ NoId \notin Ids /\ NoId \in Nat
    BY <1>3 DEF Ids, NoId
  <1> QED
    BY <1>1, <1>2, <1>3, <1>4, <1>5 DEF Block

\* A content is a sequence of at most MaxLen blocks.
LEMMA ContentIsSeq ==
    ASSUME NEW s \in Contents
    PROVE  s \in Seq(Block) /\ Len(s) \in 0..MaxLen /\ s \in [1..Len(s) -> Block]
  <1>1. PICK n \in 0..MaxLen : s \in [1..n -> Block]
    BY DEF Contents
  <1>2. n \in Nat
    BY Basic
  <1>3. s \in Seq(Block)
    BY <1>1, <1>2, SeqDef
  <1>4. Len(s) = n
    BY <1>1, <1>2, <1>3, LenProperties
  <1> QED
    BY <1>1, <1>3, <1>4

\* A function on 1..n to blocks is one.
LEMMA FunIsContent ==
    ASSUME NEW n \in 0..MaxLen, NEW s \in [1..n -> Block]
    PROVE  s \in Contents
  BY DEF Contents

LEMMA LengthBound ==
    ASSUME NEW s \in Contents \union {Nil}
    PROVE  Length(s) \in 0..MaxLen
  BY ContentIsSeq, Basic DEF Length

\* What a Write brings.
LEMMA PieceIsSeq ==
    ASSUME NEW b \in Pieces
    PROVE  Len(b) \in 1..2 /\ \A i \in 1..Len(b) : b[i] \in Block
  BY Basic DEF Pieces

LEMMA OverlayIsContent ==
    ASSUME NEW s \in Contents \union {Nil}, NEW o \in Nat, NEW b \in Pieces,
           o + Len(b) <= MaxLen
    PROVE  Overlay(s, o, b) \in Contents
  <1> DEFINE n == IF o + Len(b) > Length(s) THEN o + Len(b) ELSE Length(s)
             e(i) == IF i > o /\ i <= o + Len(b) THEN b[i - o]
                     ELSE IF i <= Length(s) THEN s[i] ELSE Zero
  <1>1. Len(b) \in 1..2 /\ \A i \in 1..Len(b) : b[i] \in Block
    BY PieceIsSeq
  <1>2. Length(s) \in 0..MaxLen
    BY LengthBound
  <1>3. n \in 0..MaxLen
    BY <1>1, <1>2, Basic
  <1>4. ASSUME NEW i \in 1..n PROVE e(i) \in Block
    <2>1. CASE i > o /\ i <= o + Len(b)
      <3>1. i - o \in 1..Len(b)
        BY <2>1, <1>1, <1>3
      <3> QED
        BY <3>1, <2>1, <1>1
    <2>2. CASE ~(i > o /\ i <= o + Len(b)) /\ i <= Length(s)
      <3>1. s # Nil
        BY <2>2 DEF Length
      <3>2. i \in 1..Len(s) /\ s \in [1..Len(s) -> Block]
        BY <2>2, <3>1, <1>3, ContentIsSeq DEF Length
      <3>3. s[i] \in Block
        BY <3>2
      <3>4. e(i) = s[i]
        BY <2>2
      <3> QED
        BY <3>3, <3>4
    <2>3. CASE ~(i > o /\ i <= o + Len(b)) /\ ~(i <= Length(s))
      BY <2>3, Basic
    <2> QED
      BY <2>1, <2>2, <2>3
  <1>5. [i \in 1..n |-> e(i)] \in [1..n -> Block]
    BY <1>4
  <1>6. [i \in 1..n |-> e(i)] \in Contents
    BY <1>3, <1>5, FunIsContent
  <1> QED
    BY <1>6 DEF Overlay

\* The length of what a Write leaves.
LEMMA OverlayLength ==
    ASSUME NEW s \in Contents \union {Nil}, NEW o \in Nat, NEW b \in Pieces,
           o + Len(b) <= MaxLen
    PROVE  /\ Len(Overlay(s, o, b)) = IF o + Len(b) > Length(s) THEN o + Len(b) ELSE Length(s)
           /\ Overlay(s, o, b) # <<>>
  <1> DEFINE n == IF o + Len(b) > Length(s) THEN o + Len(b) ELSE Length(s)
             e(i) == IF i > o /\ i <= o + Len(b) THEN b[i - o]
                     ELSE IF i <= Length(s) THEN s[i] ELSE Zero
             t == [i \in 1..n |-> e(i)]
  <1>1. n \in Nat /\ n >= 1
    BY PieceIsSeq, LengthBound, Basic
  <1>2. Overlay(s, o, b) = t
    BY DEF Overlay
  <1> HIDE DEF n, e
  <1>3. DOMAIN t = 1..n
    OBVIOUS
  <1>4. t \in Seq(Block)
    BY <1>2, OverlayIsContent, ContentIsSeq
  <1>5. Len(t) = n
    BY <1>1, <1>3, <1>4, LenProperties
  <1> QED
    BY <1>1, <1>2, <1>5 DEF n

LEMMA ZerosIsContent ==
    ASSUME NEW n \in 0..MaxLen
    PROVE  [i \in 1..n |-> Zero] \in Contents
  BY Basic, FunIsContent

LEMMA PrefixIsContent ==
    ASSUME NEW s \in Contents, NEW n \in 0..MaxLen, n <= Len(s)
    PROVE  SubSeq(s, 1, n) \in Contents
  <1>1. s \in Seq(Block) /\ Len(s) \in 0..MaxLen /\ s \in [1..Len(s) -> Block]
    BY ContentIsSeq
  <1>2. SubSeq(s, 1, n) = [i \in 1..n |-> s[i]]
    BY <1>1
  <1>3. [i \in 1..n |-> s[i]] \in [1..n -> Block]
    BY <1>1
  <1> QED
    BY <1>2, <1>3, FunIsContent

-----------------------------------------------------------------------------
LEMMA InitOK == Init => IInv
  <1> SUFFICES ASSUME Init PROVE IInv
    OBVIOUS
  <1>1. PICK s \in Starts, n \in 1..MaxLen :
           LET old == [i \in 1..n |-> Old] IN
           IF s = "new"
           THEN /\ data = <<>> /\ size = 0 /\ id = NoId /\ created = 0 /\ want = <<>>
                /\ remote = [i \in Ids |-> Nil]
           ELSE /\ data = Nil /\ size = n /\ id = 1 /\ created = 1 /\ want = old
                /\ remote = [i \in Ids |-> IF i = 1 THEN old ELSE Nil]
    BY DEF Init
  <1>2. /\ dirty = FALSE /\ spool = Nil /\ cache = [i \in Ids |-> Nil]
        /\ pc = [p \in Procs |-> "idle"] /\ off = [p \in Procs |-> 0]
        /\ lost = "no" /\ inside = FALSE /\ writes = 0 /\ saved = 0
    BY DEF Init
  <1> DEFINE old == [i \in 1..n |-> Old]
  <1>3. old \in Contents /\ <<>> \in Contents
    <2>1. old \in [1..n -> Block] /\ n \in 0..MaxLen
      BY Basic
    <2>2. <<>> \in [1..0 -> Block] /\ 0 \in 0..MaxLen
      BY Basic
    <2> QED
      BY <2>1, <2>2, FunIsContent
  <1>4. 1 \in Ids /\ n \in 0..MaxLen /\ 0 \in 0..MaxLen
    BY Basic DEF Ids
  <1>5. Waiting /\ writes \in 0..MaxWrites /\ saved \in 0..writes
    BY <1>2, Basic DEF Waiting, Pcs
  <1>6. CASE s = "new"
    <2>1. /\ data = <<>> /\ size = 0 /\ id = NoId /\ created = 0 /\ want = <<>>
          /\ remote = [i \in Ids |-> Nil]
      BY <1>1, <1>6
    <2>2. Types
      <3>1. id = NoId /\ created \in 0..MaxRecords
        BY <2>1, Basic
      <3>2. remote \in [Ids -> Contents \union {Nil}] /\ cache \in [Ids -> Contents \union {Nil}]
        BY <2>1, <1>2
      <3> QED
        BY <2>1, <3>1, <3>2, <1>2, <1>3, <1>4, <1>5 DEF Types
    <2>3. RecordInv
      BY <2>1, <1>2, Basic DEF RecordInv, Ids, NoId
    <2>4. DirtyInv /\ CleanIsSaved /\ CacheIsCoherent
      BY <2>1, <1>2 DEF DirtyInv, CleanIsSaved, CacheIsCoherent
    <2>5. KeptInv /\ SpoolInv /\ SizeInv
      BY <2>1, <1>2 DEF KeptInv, WrittenIsKept, SpoolInv, SizeInv
    <2> QED
      BY <2>2, <2>3, <2>4, <2>5 DEF IInv
  <1>7. CASE s # "new"
    <2>1. /\ data = Nil /\ size = n /\ id = 1 /\ created = 1 /\ want = old
          /\ remote = [i \in Ids |-> IF i = 1 THEN old ELSE Nil]
      BY <1>1, <1>7
    <2>2. remote \in [Ids -> Contents \union {Nil}] /\ remote[1] = want /\ remote[1] # Nil
      BY <2>1, <1>3, <1>4, Basic
    <2>3. Types
      <3>1. id \in Ids /\ created \in 0..MaxRecords
        BY <2>1, <1>4, Basic
      <3>2. cache \in [Ids -> Contents \union {Nil}]
        BY <1>2
      <3> QED
        BY <2>1, <2>2, <3>1, <3>2, <1>2, <1>3, <1>4, <1>5 DEF Types
    <2>4. RecordInv
      <3>1. ASSUME NEW i \in Ids, i <= created PROVE remote[i] # Nil
        <4>1. i = 1
          BY <3>1, <2>1 DEF Ids
        <4> QED
          BY <4>1, <2>2
      <3> QED
        BY <2>1, <3>1, <1>2 DEF RecordInv
    <2>5. DirtyInv /\ CleanIsSaved /\ CacheIsCoherent
      BY <2>1, <1>2 DEF DirtyInv, CleanIsSaved, CacheIsCoherent
    <2>6. KeptInv /\ SpoolInv /\ SizeInv
      BY <2>1, <2>2, <1>2 DEF KeptInv, WrittenIsKept, SpoolInv, SizeInv
    <2> QED
      BY <2>3, <2>4, <2>5, <2>6 DEF IInv
  <1> QED
    BY <1>6, <1>7

\* A step that moves a request and changes nothing else.
LEMMA Elsewhere ==
    ASSUME IInv, UNCHANGED <<fields, account, history>>, Waiting'
    PROVE  IInv'
  BY DEF IInv, Types, RecordInv, DirtyInv, CleanIsSaved, CacheIsCoherent, KeptInv,
         WrittenIsKept, SpoolInv, SizeInv, fields, account, history

LEMMA GotoType ==
    ASSUME Types, NEW p \in Procs, NEW l \in Pcs, Goto(p, l)
    PROVE  Waiting'
  BY Basic DEF Types, Waiting, Goto

LEMMA ReadType ==
    ASSUME Types, NEW p \in Procs, NEW o \in 0..(MaxLen - 1), Read(p, o)
    PROVE  Waiting'
  BY DEF Types, Waiting, Read, Pcs

-----------------------------------------------------------------------------
(* A download *)

LEMMA LoadStep ==
    ASSUME IInv, NEW p \in Procs, Fetch(p) \/ FromCache(p)
    PROVE  IInv'
  <1> USE DEF IInv
  <1>1. /\ id \in Ids /\ id <= created /\ remote[id] \in Contents
        /\ data' = remote[id] /\ size' = Len(remote[id])
    <2>1. id \in Ids /\ id <= created
      BY DEF Fetch, FromCache, Types, RecordInv
    <2>2. remote[id] \in Contents
      BY <2>1 DEF Types, RecordInv
    <2>3. data' = remote[id] /\ size' = Len(remote[id])
      BY <2>1 DEF Fetch, FromCache, CacheIsCoherent
    <2> QED
      BY <2>1, <2>2, <2>3
  <1>2. /\ UNCHANGED <<dirty, id, spool, remote, created, want, inside, writes, saved>>
        /\ lost' = IF dirty THEN "yes" ELSE lost
        /\ Waiting'
    BY GotoType DEF Fetch, FromCache, account, Overwritten, Pcs
  <1>3. cache' = cache \/ cache' = [cache EXCEPT ![id] = remote[id]]
    BY DEF Fetch, FromCache, account
  <1>4. cache' \in [Ids -> Contents \union {Nil}] /\ \A i \in Ids : cache'[i] # cache[i] => i = id /\ cache'[i] = remote[i]
    BY <1>1, <1>3 DEF Types
  <1>5. Len(remote[id]) \in 0..MaxLen /\ remote[id] # Nil
    BY <1>1, ContentIsSeq, Basic
  <1>6. Types'
    BY <1>1, <1>2, <1>4, <1>5 DEF Types
  <1>7. RecordInv'
    BY <1>1, <1>2, <1>4 DEF RecordInv, Types
  <1>8. DirtyInv' /\ CleanIsSaved'
    BY <1>1, <1>2, <1>5 DEF DirtyInv, CleanIsSaved
  <1>9. CacheIsCoherent'
    BY <1>1, <1>2, <1>4 DEF CacheIsCoherent, Types
  <1>10. KeptInv'
    BY <1>1, <1>2, <1>5, Basic DEF KeptInv, WrittenIsKept, Types, NoId
  <1>11. SpoolInv' /\ SizeInv'
    <2>1. SpoolInv'
      BY <1>2 DEF SpoolInv
    <2>2. lost' = "no" => Len(want') = size'
      BY <1>1, <1>2, <1>5, <1>10 DEF KeptInv, WrittenIsKept
    <2>3. size' \in 0..MaxLen
      BY <1>6 DEF Types
    <2> QED
      BY <2>1, <2>2, <2>3 DEF SizeInv
  <1> QED
    BY <1>6, <1>7, <1>8, <1>9, <1>10, <1>11

-----------------------------------------------------------------------------
(* Writes *)

\* What a Write makes of the history, and of f.size.
LEMMA WantGrows ==
    ASSUME Types, NEW o \in 0..(MaxLen - 1), NEW b \in Pieces, o + Len(b) <= MaxLen
    PROVE  /\ Overlay(want, o, b) \in Contents /\ Overlay(want, o, b) # <<>>
           /\ o + Len(b) >= Len(Overlay(want, o, b)) \/ o + Len(b) < Len(want)
  <1>1. want \in Contents /\ o \in Nat /\ Len(b) \in Nat
    BY PieceIsSeq, Basic DEF Types
  <1>2. Length(want) = Len(want) /\ Len(want) \in Nat
    BY <1>1, ContentIsSeq, Basic DEF Length
  <1> QED
    BY <1>1, <1>2, OverlayIsContent, OverlayLength

LEMMA WriteBufferStep ==
    ASSUME IInv, NEW p \in Procs, NEW o \in 0..(MaxLen - 1), NEW b \in Pieces,
           o + Len(b) <= MaxLen, WriteBuffer(p, o, b)
    PROVE  IInv'
  <1> USE DEF IInv
  <1>1. /\ data' = Overlay(data, o, b) /\ want' = Overlay(want, o, b)
        /\ size' = o + Len(b) /\ dirty' = TRUE /\ writes' = writes + 1
        /\ spool = Nil /\ writes < MaxWrites
        /\ lost' = IF data = Nil THEN "yes" ELSE lost
        /\ inside' = (o + Len(b) < Len(want))
        /\ UNCHANGED <<id, spool, remote, cache, created, pc, off, saved>>
    BY DEF WriteBuffer, Grown, Accepted, Sized, account
  <1>2. data' \in Contents /\ want' \in Contents /\ o + Len(b) \in 0..MaxLen
    BY <1>1, OverlayIsContent, PieceIsSeq, Basic DEF Types
  <1>3. data' # Nil
    BY <1>2, Basic
  <1>4. Types'
    BY <1>1, <1>2, Basic DEF Types, Waiting
  <1>5. RecordInv' /\ DirtyInv' /\ CleanIsSaved' /\ CacheIsCoherent'
    BY <1>1, <1>3, Basic DEF RecordInv, DirtyInv, CleanIsSaved, CacheIsCoherent, Types
  <1>6. KeptInv'
    BY <1>1 DEF KeptInv, WrittenIsKept
  <1>7. SpoolInv' /\ SizeInv'
    BY <1>1, <1>2, WantGrows, Basic DEF SpoolInv, SizeInv
  <1> QED
    BY <1>4, <1>5, <1>6, <1>7

LEMMA SpoolBaseIsContent == ASSUME Types PROVE SpoolBase \in Contents
  <1>1. <<>> \in [1..0 -> Block] /\ 0 \in 0..MaxLen
    BY Basic
  <1>2. <<>> \in Contents
    BY <1>1, FunIsContent
  <1> QED
    BY <1>2 DEF Types, SpoolBase

\* The spool starts with what is not lost.
LEMMA SpoolBaseIsWanted ==
    ASSUME IInv, lost # "yes", data # Nil
    PROVE  SpoolBase = want
  BY DEF IInv, Types, KeptInv, WrittenIsKept, SpoolBase

\* What the disk takes of the buffer and of the block is a content.
LEMMA BasesAreContents ==
    ASSUME Types, NEW s \in Bases
    PROVE  s \in Contents
  <1>1. CASE spool # Nil
    BY <1>1 DEF Bases, Types
  <1>2. CASE spool = Nil
    <2>1. SpoolBase \in Contents
      BY SpoolBaseIsContent
    <2>2. PICK n \in 0..Len(SpoolBase) : s = SubSeq(SpoolBase, 1, n)
      BY <1>2 DEF Bases
    <2>3. Len(SpoolBase) \in 0..MaxLen
      BY <2>1, ContentIsSeq
    <2>4. n \in 0..MaxLen /\ n <= Len(SpoolBase)
      BY <2>2, <2>3, Basic
    <2> QED
      BY <2>1, <2>2, <2>4, PrefixIsContent
  <1> QED
    BY <1>1, <1>2

LEMMA PieceStart ==
    ASSUME NEW b \in Pieces, NEW n \in 1..Len(b)
    PROVE  SubSeq(b, 1, n) \in Pieces /\ Len(SubSeq(b, 1, n)) = n /\ Len(b) \in Nat
  <1>1. PICK x \in Blocks : b = <<x>> \/ b = <<x, x>>
    BY DEF Pieces
  <1>2. Len(b) \in 1..2 /\ \A i \in 1..Len(b) : b[i] = x
    <2>1. CASE b = <<x>>
      BY <2>1
    <2>2. CASE b = <<x, x>>
      BY <2>2
    <2> QED
      BY <1>1, <2>1, <2>2
  <1>3. n \in Int /\ n \in 1..2 /\ n <= Len(b) /\ \A i \in 1..n : b[i] \in Blocks /\ b[i] = x
    BY <1>2
  <1>4. /\ SubSeq(b, 1, n) \in Seq(Blocks) /\ Len(SubSeq(b, 1, n)) = n
        /\ \A i \in 1..n : SubSeq(b, 1, n)[i] = b[i]
    BY <1>3, SubSeqProperties
  <1> DEFINE s == SubSeq(b, 1, n)
  <1>5. s \in Seq(Blocks) /\ Len(s) = n /\ \A i \in 1..n : s[i] = x
    BY <1>3, <1>4
  <1> HIDE DEF s
  <1>6. n = 1 => s = <<x>>
    BY <1>5
  <1>7. n = 2 => s = <<x, x>>
    BY <1>5
  <1>8. s \in Pieces
    BY <1>3, <1>6, <1>7 DEF Pieces
  <1> QED
    BY <1>2, <1>5, <1>8 DEF s

LEMMA WriteSpoolStep ==
    ASSUME IInv, NEW p \in Procs, NEW o \in 0..(MaxLen - 1), NEW b \in Pieces,
           o + Len(b) <= MaxLen, WriteSpool(p, o, b) \/ WriteShort(p, o, b)
    PROVE  IInv'
  <1> USE DEF IInv
  <1> DEFINE end == o + Len(b)
  <1>0. ToSpool(p, o, b)
    BY DEF WriteSpool, WriteShort
  <1>1. /\ want' = Overlay(want, o, b)
        /\ data' = IF end > Length(data) THEN [i \in 1..end |-> Zero] ELSE SubSeq(data, 1, end)
        /\ size' = end /\ dirty' = TRUE /\ writes' = writes + 1 /\ writes < MaxWrites
        /\ inside' = (end < Len(want))
        /\ UNCHANGED <<id, remote, cache, created, pc, off, saved>>
    BY <1>0 DEF ToSpool, Accepted, Sized, account
  <1>a. /\ lost' \in {"yes", "inSpool"}
        /\ lost' = "inSpool" => /\ spool' = Overlay(SpoolBase, o, b)
                               /\ data # Nil /\ lost # "yes"
    BY DEF WriteSpool, WriteShort, Types
  <1>2. end \in 1..MaxLen
    BY PieceIsSeq, Basic
  <1>3. spool' \in Contents /\ want' \in Contents
    <2>1. want' \in Contents
      BY <1>1, OverlayIsContent, Basic DEF Types
    <2>2. CASE WriteSpool(p, o, b)
      <3>1. spool' = Overlay(SpoolBase, o, b) /\ o \in Nat
        BY <2>2, Basic DEF WriteSpool
      <3>2. SpoolBase \in Contents \union {Nil}
        BY SpoolBaseIsContent
      <3>3. Overlay(SpoolBase, o, b) \in Contents
        BY <3>1, <3>2, OverlayIsContent
      <3> QED
        BY <2>1, <3>1, <3>3
    <2>3. CASE WriteShort(p, o, b)
      <3>1. PICK base \in Bases :
               \/ spool' = base
               \/ \E n \in 1..Len(b) : spool' = Overlay(base, o, SubSeq(b, 1, n))
        BY <2>3 DEF WriteShort
      <3>2. base \in Contents
        BY BasesAreContents
      <3>3. ASSUME NEW n \in 1..Len(b), spool' = Overlay(base, o, SubSeq(b, 1, n))
            PROVE  spool' \in Contents
        <4>1. SubSeq(b, 1, n) \in Pieces /\ Len(SubSeq(b, 1, n)) = n /\ n \in Nat /\ o \in Nat
              /\ o + n <= MaxLen
          BY <1>2, PieceStart, Basic
        <4> QED
          BY <3>2, <3>3, <4>1, OverlayIsContent
      <3>4. spool' \in Contents
        BY <3>1, <3>2, <3>3
      <3> QED
        BY <2>1, <3>4
    <2>4. WriteSpool(p, o, b) \/ WriteShort(p, o, b)
      OBVIOUS
    <2> QED
      BY <2>2, <2>3, <2>4
  <1>4. data' \in Contents
    <2>1. CASE end > Length(data)
      BY <2>1, <1>1, <1>2, ZerosIsContent
    <2>2. CASE ~(end > Length(data))
      <3>1. data \in Contents /\ end <= Len(data)
        BY <2>2, <1>2, LengthBound, ContentIsSeq DEF Types, Length
      <3>2. SubSeq(data, 1, end) \in Contents
        BY <3>1, <1>2, PrefixIsContent
      <3> QED
        BY <3>2, <2>2, <1>1
    <2> QED
      BY <2>1, <2>2
  <1>5. data' # Nil /\ spool' # Nil
    BY <1>3, <1>4, Basic
  <1>6. Types'
    BY <1>1, <1>a, <1>2, <1>3, <1>4, Basic DEF Types, Waiting
  <1>7. RecordInv' /\ DirtyInv' /\ CleanIsSaved' /\ CacheIsCoherent'
    BY <1>1, <1>5, Basic DEF RecordInv, DirtyInv, CleanIsSaved, CacheIsCoherent, Types
  <1>8. KeptInv'
    BY <1>1, <1>a, <1>5, SpoolBaseIsWanted DEF KeptInv, WrittenIsKept
  <1>9. SpoolInv' /\ SizeInv'
    <2>1. want' # <<>>
      BY <1>1, WantGrows
    <2>2. lost' = "inSpool" => spool' # <<>>
      <3>1. SpoolBase \in Contents \union {Nil} /\ o \in Nat
        BY SpoolBaseIsContent, Basic
      <3>2. Overlay(SpoolBase, o, b) # <<>>
        BY <3>1, OverlayLength
      <3> QED
        BY <1>a, <3>2
    <2> QED
      BY <1>a, <2>1, <2>2 DEF SpoolInv, SizeInv
  <1> QED
    BY <1>6, <1>7, <1>8, <1>9

LEMMA WriteFailsStep ==
    ASSUME IInv, NEW p \in Procs, NEW o \in 0..(MaxLen - 1), NEW b \in Pieces,
           WriteFails(p, o, b)
    PROVE  IInv'
  <1> USE DEF IInv
  <1>1. /\ spool' \in {spool} \union Bases
        /\ lost' = IF spool' # spool /\ (data = Nil \/ spool' # data) THEN "yes" ELSE lost
        /\ UNCHANGED <<data, size, dirty, id, remote, cache, created, pc, off, want, inside,
                       writes, saved>>
    BY DEF WriteFails, account
  <1>2. spool' \in Contents \union {Nil}
    BY <1>1, BasesAreContents DEF Types
  <1>3. CASE spool' = spool
    <2>1. UNCHANGED <<fields, account, history>> /\ Waiting'
      BY <1>1, <1>3 DEF fields, account, history, Types, Waiting
    <2> QED
      BY <2>1, Elsewhere
  <1>4. CASE spool' # spool
    <2>1. spool = Nil
      BY <1>1, <1>4 DEF Bases
    <2>2. lost' = "yes" \/ (lost' = lost /\ data # Nil /\ spool' = data)
      BY <1>1, <1>4
    <2>3. lost # "inSpool" /\ lost' # "inSpool"
      BY <2>1, <2>2 DEF KeptInv
    <2>4. Types'
      BY <1>1, <1>2, <2>2 DEF Types, Waiting
    <2>5. RecordInv' /\ DirtyInv' /\ CacheIsCoherent'
      BY <1>1 DEF RecordInv, DirtyInv, CacheIsCoherent
    <2>6. CleanIsSaved'
      BY <1>1, <2>1, Basic DEF CleanIsSaved
    <2>7. KeptInv'
      BY <1>1, <2>2, <2>3 DEF KeptInv, WrittenIsKept, Types
    <2>8. SpoolInv' /\ SizeInv'
      <3>1. CASE lost' = "yes"
        BY <1>1, <3>1 DEF SpoolInv, SizeInv
      <3>2. CASE lost' # "yes"
        <4>1. lost = "no" /\ lost' = "no" /\ data # Nil /\ spool' = data /\ data = want
          BY <2>2, <2>3, <3>2 DEF KeptInv, WrittenIsKept, Types
        <4>2. dirty => want # <<>>
          BY DEF DirtyInv, SpoolInv, Types
        <4> QED
          BY <1>1, <4>1, <4>2 DEF SpoolInv, SizeInv
      <3> QED
        BY <3>1, <3>2
    <2> QED
      BY <2>4, <2>5, <2>6, <2>7, <2>8
  <1> QED
    BY <1>3, <1>4

-----------------------------------------------------------------------------
(* Uploads *)

LEMMA UploadStep ==
    ASSUME IInv, NEW p \in Procs, Upload(p)
    PROVE  IInv'
  <1> USE DEF IInv
  <1> DEFINE new == created + 1
  <1>1. /\ dirty /\ created < MaxRecords /\ created' = new
        /\ remote' = [remote EXCEPT ![new] = data]
        /\ id' = new /\ dirty' = FALSE /\ spool' = Nil
        /\ cache' = cache \/ cache' = [cache EXCEPT ![new] = data]
        /\ lost' = IF lost = "inSpool" THEN "yes" ELSE lost
        /\ saved' = writes /\ UNCHANGED <<data, size, want, inside, writes>>
    BY DEF Upload, Uploaded, CacheKey
  <1>2. new \in Ids /\ new \notin 0..created /\ created \in Nat /\ new # NoId
    BY <1>1, Basic DEF Types, Ids, NoId
  <1>3. data \in Contents /\ data # Nil
    BY <1>1, Basic DEF Types, DirtyInv
  <1>4. remote' \in [Ids -> Contents \union {Nil}] /\ remote'[new] = data
        /\ \A i \in Ids : i # new => remote'[i] = remote[i]
    BY <1>1, <1>2, <1>3 DEF Types
  <1>5. cache' \in [Ids -> Contents \union {Nil}]
        /\ \A i \in Ids : cache'[i] # cache[i] => i = new /\ cache'[i] = data
    BY <1>1, <1>2, <1>3 DEF Types
  <1>6. cache[new] = Nil
    BY <1>2 DEF RecordInv, Types
  <1>7. Waiting'
    BY GotoType DEF Upload, Uploaded, Pcs
  <1>8. Types'
    <2>1. id' \in Ids /\ created' \in 0..MaxRecords /\ dirty' \in BOOLEAN
      <3>1. id' = new /\ created' = new /\ dirty' = FALSE
        BY <1>1
      <3>2. new \in 0..MaxRecords
        BY <1>2, Basic DEF Ids
      <3> QED
        BY <3>1, <3>2, <1>2
    <2>2. data' \in Contents /\ size' \in 0..MaxLen /\ want' \in Contents /\ spool' = Nil
      BY <1>1, <1>3 DEF Types
    <2>3. lost' \in {"no", "inSpool", "yes"} /\ inside' \in BOOLEAN
      BY <1>1 DEF Types
    <2>4. writes' \in 0..MaxWrites /\ saved' \in 0..writes'
      BY <1>1, Basic DEF Types
    <2> QED
      BY <1>4, <1>5, <1>7, <2>1, <2>2, <2>3, <2>4 DEF Types
  <1>9. RecordInv'
    <2>1. id' <= created'
      BY <1>1, <1>2
    <2>2. ASSUME NEW i \in Ids, i <= created' PROVE remote'[i] # Nil
      <3>1. i = new \/ i <= created
        BY <2>2, <1>1, <1>2, Basic
      <3> QED
        BY <3>1, <1>2, <1>3, <1>4 DEF RecordInv
    <2>3. ASSUME NEW i \in Ids, cache'[i] # Nil PROVE i <= created'
      <3>1. i = new \/ i <= created
        BY <2>3, <1>5 DEF RecordInv
      <3> QED
        BY <3>1, <1>1, <1>2, Basic
    <2> QED
      BY <2>1, <2>2, <2>3 DEF RecordInv
  <1>10. DirtyInv' /\ CleanIsSaved'
    BY <1>1, <1>4 DEF DirtyInv, CleanIsSaved
  <1>11. CacheIsCoherent'
    BY <1>4, <1>5, <1>6 DEF CacheIsCoherent
  <1>12. KeptInv'
    BY <1>1, <1>3, <1>4 DEF KeptInv, WrittenIsKept
  <1>13. SpoolInv' /\ SizeInv'
    BY <1>1 DEF SpoolInv, SizeInv, Types
  <1> QED
    BY <1>8, <1>9, <1>10, <1>11, <1>12, <1>13

LEMMA UploadEmptyStep ==
    ASSUME IInv, NEW p \in Procs, UploadEmpty(p)
    PROVE  IInv'
  <1> USE DEF IInv
  <1>1. /\ dirty /\ spool = <<>> /\ dirty' = FALSE
        /\ UNCHANGED <<data, size, id, spool, remote, cache, created, want, lost, inside, writes, saved>>
    BY DEF UploadEmpty, account, history
  <1>2. Waiting'
    BY GotoType DEF UploadEmpty, Pcs
  <1>3. lost = "yes"
    BY <1>1 DEF SpoolInv
  <1>4. Types'
    BY <1>1, <1>2 DEF Types
  <1>5. RecordInv' /\ DirtyInv' /\ CleanIsSaved' /\ CacheIsCoherent'
    BY <1>1 DEF RecordInv, DirtyInv, CleanIsSaved, CacheIsCoherent
  <1>6. KeptInv' /\ SpoolInv' /\ SizeInv'
    BY <1>1, <1>3 DEF KeptInv, WrittenIsKept, SpoolInv, SizeInv
  <1> QED
    BY <1>4, <1>5, <1>6

LEMMA UploadFailsStep ==
    ASSUME IInv, NEW p \in Procs, UploadFails(p)
    PROVE  IInv'
  <1> USE DEF IInv
  <1> DEFINE new == created + 1
  <1>1. /\ dirty /\ UNCHANGED <<fields, cache, history>>
        /\ Waiting'
    BY GotoType DEF UploadFails, Pcs
  <1>2. CASE UNCHANGED <<created, remote>>
    BY <1>1, <1>2, Elsewhere DEF account
  <1>3. CASE created < MaxRecords /\ created' = new /\ remote' = [remote EXCEPT ![new] = data]
    <2>1. new \in Ids /\ new \notin 0..created /\ created \in Nat
      BY <1>3, Basic DEF Types, Ids
    <2>2. data \in Contents /\ data # Nil
      BY <1>1, Basic DEF Types, DirtyInv
    <2>3. remote' \in [Ids -> Contents \union {Nil}] /\ remote'[new] = data
          /\ \A i \in Ids : i # new => remote'[i] = remote[i]
      BY <1>3, <2>1, <2>2 DEF Types
    <2>4. id # new /\ cache[new] = Nil
      BY <2>1, Basic DEF RecordInv, Types
    <2>5. Types'
      BY <1>1, <1>3, <2>1, <2>3, Basic DEF Types, fields, history
    <2>6. RecordInv'
      <3>1. id' <= created'
        BY <1>1, <1>3, <2>1, Basic DEF RecordInv, Types, fields
      <3>2. ASSUME NEW i \in Ids, i <= created' PROVE remote'[i] # Nil
        <4>1. i = new \/ i <= created
          BY <3>2, <1>3, <2>1, Basic
        <4> QED
          BY <4>1, <2>1, <2>2, <2>3 DEF RecordInv
      <3>3. ASSUME NEW i \in Ids, cache'[i] # Nil PROVE i <= created'
        <4>1. i <= created
          BY <3>3, <1>1 DEF RecordInv
        <4> QED
          BY <4>1, <1>3, <2>1, Basic
      <3> QED
        BY <3>1, <3>2, <3>3 DEF RecordInv
    <2>7. DirtyInv' /\ CleanIsSaved' /\ KeptInv' /\ SpoolInv' /\ SizeInv'
      BY <1>1 DEF DirtyInv, CleanIsSaved, KeptInv, WrittenIsKept, SpoolInv, SizeInv, fields, history
    <2>8. CacheIsCoherent'
      BY <1>1, <2>3, <2>4 DEF CacheIsCoherent
    <2> QED
      BY <2>5, <2>6, <2>7, <2>8
  <1> QED
    BY <1>2, <1>3 DEF UploadFails

-----------------------------------------------------------------------------

LEMMA StepOK == IInv /\ [Next]_vars => IInv'
  <1> SUFFICES ASSUME IInv, [Next]_vars PROVE IInv'
    OBVIOUS
  <1>1. CASE UNCHANGED vars
    BY <1>1, Elsewhere DEF IInv, Types, Waiting, vars, fields, account, history
  <1>2. ASSUME NEW p \in Procs, Request(p) PROVE IInv'
    <2>0. ASSUME NEW o \in 0..(MaxLen - 1), Read(p, o) PROVE IInv'
      <3>1. UNCHANGED <<fields, account, history>>
        BY <2>0 DEF Read
      <3> QED
        BY <2>0, <3>1, ReadType, Elsewhere DEF IInv
    <2>1. CASE CheckLoaded(p) \/ DownloadFails(p) \/ Serve(p) \/ Flush(p) \/ UploadClean(p)
      <3>1. UNCHANGED <<fields, account, history>>
        BY <2>1 DEF CheckLoaded, DownloadFails, Serve, Flush, UploadClean
      <3>2. \E l \in Pcs : Goto(p, l)
        BY <2>1 DEF CheckLoaded, DownloadFails, Serve, Flush, UploadClean, Pcs
      <3>3. Waiting'
        BY <3>2, GotoType DEF IInv
      <3> QED
        BY <3>1, <3>3, Elsewhere
    <2>2. CASE Fetch(p) \/ FromCache(p)
      BY <2>2, LoadStep
    <2>3. CASE \E o \in 0..(MaxLen - 1), b \in Pieces :
                 /\ o + Len(b) <= MaxLen
                 /\ \/ WriteBuffer(p, o, b) \/ WriteSpool(p, o, b)
                    \/ WriteShort(p, o, b) \/ WriteFails(p, o, b)
      BY <2>3, WriteBufferStep, WriteSpoolStep, WriteFailsStep
    <2>4. CASE Upload(p)
      BY <2>4, UploadStep
    <2>5. CASE UploadFails(p)
      BY <2>5, UploadFailsStep
    <2>6. CASE UploadEmpty(p)
      BY <2>6, UploadEmptyStep
    <2> QED
      BY <1>2, <2>0, <2>1, <2>2, <2>3, <2>4, <2>5, <2>6 DEF Request
  <1> QED
    BY <1>1, <1>2 DEF Next

LEMMA Inductive == Spec => []IInv
  BY InitOK, StepOK, PTL DEF Spec

\* The types of the file, its spool, its account and its cache.
THEOREM TypeCorrect == Spec => []TypeOK
  <1>1. IInv => TypeOK
    BY DEF IInv, Types, Waiting, Pcs, Reading, TypeOK
  <1> QED
    BY <1>1, Inductive, PTL

\* A file that is not dirty is what the account holds, unless the disk has left its
\* spool empty.  (filesystem.go:425-493.)
THEOREM CleanSaved == Spec => []CleanIsSaved
  <1>1. IInv => CleanIsSaved
    BY DEF IInv
  <1> QED
    BY <1>1, Inductive, PTL

\* The disk cache never answers for a record with another content than the
\* record's.  (filesystem.go:496-500, 613-616, 777-782.)
THEOREM CacheCoherent == Spec => []CacheIsCoherent
  <1>1. IInv => CacheIsCoherent
    BY DEF IInv
  <1> QED
    BY <1>1, Inductive, PTL

\* What was written is in the buffer or in the spool, but for the four ways of losing
\* it that the model has: no other interleaving of the requests, failure of the
\* bridge or of the disk, or repeated upload loses any.  (filesystem.go:376-493.)
THEOREM WritesKept == Spec => []WrittenIsKept
  <1>1. IInv => WrittenIsKept
    BY DEF IInv, KeptInv
  <1> QED
    BY <1>1, Inductive, PTL

\* Records are made only for Writes no acknowledged record covers.
\* (filesystem.go:452-459.)
THEOREM SavedOnce == Spec => NothingSavedTwice
  <1>1. IInv /\ [Next]_vars => [created' # created => saved # writes]_vars
    <2> SUFFICES ASSUME IInv, Next, created' # created PROVE saved # writes
      BY DEF vars
    <2>1. PICK p \in Procs : Request(p)
      BY DEF Next
    <2>2. dirty
      BY <2>1 DEF Request, Read, CheckLoaded, Fetch, FromCache, DownloadFails, Serve,
                  WriteBuffer, ToSpool, WriteSpool, WriteShort, WriteFails, Flush, UploadClean,
                  Upload, UploadEmpty, UploadFails, account
    <2>3. saved < writes /\ saved \in Nat
      BY <2>2 DEF IInv, DirtyInv, Types
    <2> QED
      BY <2>3 DEF IInv, Types
  <1> QED
    BY <1>1, Inductive, PTL DEF Spec, NothingSavedTwice

\* While a file is in its buffer, Reads get what was written up to its end, unless
\* the last Write ended inside the file.  (filesystem.go:192-224, 415.)
THEOREM ReadsToTheEnd == Spec => []ReadsReachTheEnd
  <1>1. IInv => ReadsReachTheEnd
    <2> SUFFICES ASSUME IInv, Plain PROVE ReadsReachTheEnd
      BY DEF ReadsReachTheEnd
    <2>1. data = want /\ (size >= Len(want) \/ inside) /\ size \in Nat /\ Len(want) \in Nat
      BY ContentIsSeq, Basic DEF Plain, IInv, KeptInv, WrittenIsKept, SizeInv, Types
    <2>2. \A p \in Procs : Served(p) = Rest(want, off[p])
      BY <2>1 DEF Served
    <2>3. ASSUME NEW o \in 0..(MaxLen - 1), EndOfFile(o) PROVE Rest(want, o) = <<>> \/ inside
      <3>1. o \in Nat /\ o >= size
        BY <2>3, Basic DEF EndOfFile
      <3> QED
        BY <2>1, <3>1 DEF Rest
    <2> QED
      BY <2>2, <2>3 DEF ReadsReachTheEnd
  <1> QED
    BY <1>1, Inductive, PTL

-----------------------------------------------------------------------------
(* Files that are new and never reach the spool *)

SmallAndNew == MaxLen <= SpoolThreshold /\ Starts = {"new"}

\* Their buffer is there from the beginning, so nothing is downloaded over it.
SmallInv == /\ data # Nil /\ spool = Nil /\ lost = "no"
            /\ \A p \in Procs : pc[p] # "download"

LEMMA SmallStart == ASSUME SmallAndNew, Init PROVE SmallInv
  <1>1. data = <<>>
    BY DEF SmallAndNew, Init
  <1>2. <<>> \in Contents
    <2>1. <<>> \in [1..0 -> Block] /\ 0 \in 0..MaxLen
      BY Basic
    <2> QED
      BY <2>1, FunIsContent
  <1> QED
    BY <1>1, <1>2, Basic DEF Init, SmallInv

LEMMA SmallStep == ASSUME SmallAndNew, IInv, SmallInv, [Next]_vars PROVE SmallInv'
  <1>0. /\ pc \in [Procs -> Pcs]
        /\ MaxLen \in Nat /\ SpoolThreshold \in Nat /\ MaxLen <= SpoolThreshold
    BY ConstantsAssumption DEF IInv, Types, Waiting, SmallAndNew
  <1>1. CASE UNCHANGED vars
    BY <1>1 DEF vars, SmallInv
  <1>2. ASSUME NEW p \in Procs, Request(p) PROVE SmallInv'
    <2>1. CASE \/ \E o \in 0..(MaxLen - 1) : Read(p, o)
               \/ CheckLoaded(p) \/ Serve(p) \/ Flush(p) \/ UploadClean(p) \/ UploadFails(p)
      BY <1>0, <2>1 DEF Read, CheckLoaded, Serve, Flush, UploadClean, UploadFails, Goto, SmallInv,
                        fields, account, history
    <2>2. CASE Fetch(p) \/ FromCache(p) \/ DownloadFails(p)
      BY <2>2 DEF Fetch, FromCache, DownloadFails, SmallInv
    <2>3. ASSUME NEW o \in 0..(MaxLen - 1), NEW b \in Pieces, o + Len(b) <= MaxLen,
                 \/ WriteBuffer(p, o, b) \/ WriteSpool(p, o, b)
                 \/ WriteShort(p, o, b) \/ WriteFails(p, o, b)
          PROVE  SmallInv'
      <3>1. o + Len(b) \in Nat /\ ~ (o + Len(b) > SpoolThreshold)
        BY <1>0, <2>3, PieceIsSeq
      <3>2. WriteBuffer(p, o, b)
        BY <2>3, <3>1 DEF WriteSpool, WriteShort, ToSpool, WriteFails, SmallInv
      <3>3. Overlay(data, o, b) # Nil
        <4>1. Overlay(data, o, b) \in Contents
          BY <2>3, OverlayIsContent DEF IInv, Types
        <4> QED
          BY <4>1, Basic
      <3> QED
        BY <3>2, <3>3 DEF WriteBuffer, Grown, SmallInv
    <2>5. ~UploadEmpty(p)
      BY Basic DEF UploadEmpty, SmallInv
    <2>4. CASE Upload(p)
      BY <1>0, <2>4 DEF Upload, Uploaded, Goto, SmallInv
    <2> QED
      BY <1>2, <2>1, <2>2, <2>3, <2>4, <2>5 DEF Request
  <1> QED
    BY <1>1, <1>2 DEF Next

\* A file made through the mount that stays within the spool threshold is saved as
\* it was written whenever it is not dirty: through any number of requests at once,
\* uploads that fail or lose their answer, and repeated uploads.  The threshold is
\* needed: without it the run fuse_spool shows zeros saved in place of what was
\* written.  (filesystem.go:376-493, 622-793.)
THEOREM SmallFilesAreSaved == SmallAndNew => (Spec => []SavedIsWritten)
  <1> SUFFICES ASSUME SmallAndNew PROVE Spec => []SavedIsWritten
    OBVIOUS
  <1>1. Init => IInv /\ SmallInv
    BY InitOK, SmallStart
  <1>2. IInv /\ SmallInv /\ [Next]_vars => IInv' /\ SmallInv'
    BY StepOK, SmallStep
  <1>3. IInv /\ SmallInv => SavedIsWritten
    BY DEF IInv, KeptInv, SmallInv, SavedIsWritten
  <1> QED
    BY <1>1, <1>2, <1>3, PTL DEF Spec

-----------------------------------------------------------------------------
(* The write-back file they implement *)

LEMMA OverlayIsPatched ==
    ASSUME NEW s \in Contents, NEW o \in Nat, NEW b \in Pieces
    PROVE  LET t == Overlay(s, o, b) IN
           /\ DOMAIN t = DOMAIN s \union 1..(o + Len(b))
           /\ \A i \in DOMAIN t : t[i] = File!Patched(s, o, b, i)
  <1> DEFINE t == Overlay(s, o, b)
             n == IF o + Len(b) > Len(s) THEN o + Len(b) ELSE Len(s)
  <1>1. Len(b) \in 1..2 /\ DOMAIN b = 1..Len(b)
    BY DEF Pieces
  <1>2. s # Nil /\ Length(s) = Len(s) /\ Len(s) \in Nat /\ DOMAIN s = 1..Len(s)
    BY ContentIsSeq, Basic DEF Length
  <1>3. DOMAIN t = 1..n
    BY <1>2 DEF Overlay
  <1>4. 1..n = DOMAIN s \union 1..(o + Len(b))
    BY <1>1, <1>2
  <1>5. ASSUME NEW i \in 1..n PROVE t[i] = File!Patched(s, o, b, i)
    <2>1. t[i] = IF i > o /\ i <= o + Len(b) THEN b[i - o]
                 ELSE IF i <= Len(s) THEN s[i] ELSE Zero
      BY <1>2 DEF Overlay
    <2>2. (i - o \in DOMAIN b <=> i > o /\ i <= o + Len(b)) /\ (i \in DOMAIN s <=> i <= Len(s))
      BY <1>1, <1>2
    <2> QED
      BY <2>1, <2>2 DEF File!Patched
  <1> QED
    BY <1>3, <1>4, <1>5

LEMMA WriteBackStart == ASSUME SmallAndNew, Init PROVE File!WInit
  BY DEF SmallAndNew, Init, File!WInit, Kept

\* A request that leaves the buffer, f.size, dirty, the id and the record of the file.
LEMMA WriteBackStutter ==
    ASSUME UNCHANGED <<data, size, dirty, id>>, id = NoId \/ remote'[id] = remote[id]
    PROVE  UNCHANGED <<data, size, dirty, Kept>>
  BY DEF Kept

\* A download that loses nothing brings back what the buffer holds.
LEMMA LateDownload ==
    ASSUME NEW p \in Procs, IInv, IInv', Plain, Plain', Fetch(p) \/ FromCache(p)
    PROVE  File!WNext
  <1>1. /\ UNCHANGED <<dirty, id, remote, want>> /\ lost' = IF dirty THEN "yes" ELSE lost
        /\ size' = Len(data')
    BY DEF Fetch, FromCache, account, Overwritten
  <1>2. data = want /\ data' = want' /\ ~dirty
    BY <1>1 DEF IInv, KeptInv, WrittenIsKept, Plain
  <1>3. UNCHANGED <<data, dirty, Kept>> /\ size' = Len(data)
    BY <1>1, <1>2 DEF Kept
  <1> QED
    BY <1>2, <1>3 DEF File!WLoad, File!WNext

\* In the buffer, a Write replaces the blocks it covers and no others.
LEMMA WriteBackWrite ==
    ASSUME IInv, Plain, NEW p \in Procs,
           NEW o \in 0..(MaxLen - 1), NEW b \in Pieces, o + Len(b) <= MaxLen,
           WriteBuffer(p, o, b)
    PROVE  File!WNext
  <1>1. o \in Nat
    BY ConstantsAssumption
  <1>2. /\ data' = Overlay(data, o, b) /\ dirty' = TRUE /\ size' = o + Len(b)
        /\ UNCHANGED <<id, remote>>
    BY DEF WriteBuffer, Grown, Accepted, Sized, account
  <1>3. data \in Contents
    BY DEF IInv, Types, Plain
  <1>4. /\ DOMAIN data' = DOMAIN data \union 1..(o + Len(b))
        /\ \A i \in DOMAIN data' : data'[i] = File!Patched(data, o, b, i)
    BY <1>1, <1>2, <1>3, OverlayIsPatched
  <1>5. Kept' = Kept
    BY <1>2 DEF Kept
  <1> QED
    BY <1>2, <1>4, <1>5 DEF File!WWrite, File!WNext

\* A request that would use the spool leaves one behind, or changes nothing.
LEMMA WriteBackSpool ==
    ASSUME IInv, Plain, Plain', NEW p \in Procs,
           NEW o \in 0..(MaxLen - 1), NEW b \in Pieces, o + Len(b) <= MaxLen,
           WriteSpool(p, o, b) \/ WriteShort(p, o, b) \/ WriteFails(p, o, b)
    PROVE  UNCHANGED <<data, size, dirty, Kept>>
  <1>1. CASE WriteSpool(p, o, b)
    <2>1. Overlay(SpoolBase, o, b) \in Contents
      BY OverlayIsContent, SpoolBaseIsContent DEF IInv
    <2>2. spool' # Nil
      BY <1>1, <2>1, Basic DEF WriteSpool
    <2> QED
      BY <2>2 DEF Plain
  <1>2. CASE WriteFails(p, o, b)
    BY <1>2, WriteBackStutter DEF WriteFails, account
  <1>3. ~WriteShort(p, o, b)
    BY DEF WriteShort, Plain
  <1> QED
    BY <1>1, <1>2, <1>3

LEMMA WriteBackStep ==
    ASSUME IInv, IInv', Plain, Plain', Next
    PROVE  [File!WNext]_<<data, size, dirty, Kept>>
  <1>1. PICK p \in Procs : Request(p)
    BY DEF Next
  <1>2. CASE \/ \E o \in 0..(MaxLen - 1) : Read(p, o)
             \/ CheckLoaded(p) \/ DownloadFails(p) \/ Serve(p) \/ Flush(p) \/ UploadClean(p)
    BY <1>2, WriteBackStutter DEF Read, CheckLoaded, DownloadFails, Serve, Flush, UploadClean,
                                  fields, account
  <1>3. CASE Fetch(p) \/ FromCache(p)
    BY <1>3, LateDownload
  <1>4. ASSUME NEW o \in 0..(MaxLen - 1), NEW b \in Pieces, o + Len(b) <= MaxLen,
               \/ WriteBuffer(p, o, b) \/ WriteSpool(p, o, b)
               \/ WriteShort(p, o, b) \/ WriteFails(p, o, b)
        PROVE  [File!WNext]_<<data, size, dirty, Kept>>
    BY <1>4, WriteBackWrite, WriteBackSpool
  <1>5. CASE Upload(p)
    <2>1. /\ dirty /\ dirty' = FALSE /\ id' = created + 1 /\ created < MaxRecords
          /\ remote' = [remote EXCEPT ![created + 1] = data] /\ UNCHANGED <<data, size>>
      BY <1>5 DEF Upload, Uploaded
    <2>2. created + 1 \in Ids /\ created + 1 # NoId
      BY <2>1, Basic DEF IInv, Types, Ids, NoId
    <2>3. Kept' = data
      BY <2>1, <2>2 DEF Kept, IInv, Types
    <2> QED
      BY <2>1, <2>3 DEF File!WSave, File!WNext
  <1>6. CASE UploadFails(p)
    <2>1. UNCHANGED <<data, size, dirty, id>>
      BY <1>6 DEF UploadFails, fields
    <2>2. remote' = remote \/ remote' = [remote EXCEPT ![created + 1] = data]
      BY <1>6 DEF UploadFails
    <2>3. id <= created /\ created \in Nat /\ id \in Ids \union {NoId} /\ id \in Nat
      BY Basic DEF IInv, RecordInv, Types
    <2>4. id # created + 1
      BY <2>3
    <2>5. id = NoId \/ remote'[id] = remote[id]
      BY <2>2, <2>3, <2>4 DEF IInv, Types
    <2> QED
      BY <2>1, <2>5, WriteBackStutter
  <1>7. ~UploadEmpty(p)
    BY Basic DEF UploadEmpty, Plain
  <1> QED
    BY <1>1, <1>2, <1>3, <1>4, <1>5, <1>6, <1>7 DEF Request

\* As long as a file is in its buffer, its buffer, f.size and record go step by step
\* as those of a WriteBack, whatever the requests of the kernel, the bridge, the cache
\* and the account do, and whether it was new or listed.  Of the buffer, a Read may
\* ask only for what begins below f.size: WriteBack says how that moves.
\* (RELEASE-NOTES.md:10-11; filesystem.go:376-500.)
THEOREM BufferWritesBack == Spec => BufferIsWriteBack
  <1>1. IInv /\ IInv' /\ [Next]_vars => (Plain /\ Plain' => [File!WNext]_<<data, size, dirty, Kept>>)
    <2> SUFFICES ASSUME IInv, IInv', [Next]_vars, Plain, Plain'
                 PROVE  [File!WNext]_<<data, size, dirty, Kept>>
      OBVIOUS
    <2>1. CASE UNCHANGED vars
      BY <2>1 DEF vars, Kept
    <2> QED
      BY <2>1, WriteBackStep
  <1> QED
    BY <1>1, Inductive, PTL DEF Spec, BufferIsWriteBack

\* A file made through the mount that stays below the threshold is in its buffer for
\* good, so the whole behaviour of its buffer, f.size and record is that of a
\* WriteBack.  (RELEASE-NOTES.md:10-11; filesystem.go:376-500.)
THEOREM SmallFilesWriteBack == SmallAndNew => (Spec => ActsAsWriteBack)
  <1> SUFFICES ASSUME SmallAndNew PROVE Spec => ActsAsWriteBack
    OBVIOUS
  <1>1. Init => IInv /\ SmallInv /\ File!WInit
    BY InitOK, SmallStart, WriteBackStart
  <1>2. IInv /\ SmallInv /\ [Next]_vars => IInv' /\ SmallInv'
    BY StepOK, SmallStep
  <1>3. (SmallInv => Plain) /\ (SmallInv' => Plain')
    BY DEF SmallInv, Plain
  <1>4. IInv /\ SmallInv /\ [Next]_vars => [File!WNext]_<<data, size, dirty, Kept>>
    <2>1. CASE UNCHANGED vars
      BY <2>1 DEF vars, Kept
    <2> QED
      BY <1>2, <1>3, <2>1, WriteBackStep
  <1> QED
    BY <1>1, <1>2, <1>4, PTL DEF Spec, ActsAsWriteBack, File!WSpec
=============================================================================
