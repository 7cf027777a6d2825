--------------------------- MODULE FuseMountProofs ---------------------------
(***************************************************************************)
(* The safety of FuseMount for all values of its constants.  Every step of *)
(* the mount or of the WebDAV server is a step of the store or leaves it   *)
(* alone, so ChunkStoreProofs says what it keeps; the rest is about the    *)
(* files and the calls, one at a time.                                     *)
(***************************************************************************)
EXTENDS FuseMount, ChunkStoreProofs

Genuine(r, t) == Honest(r, t) /\ KeptApart(r, t)

\* A file that has a record has one that exists; a dirty one has data, and only
\* a dirty one or one with a record has; another file takes its name in the map
\* only if the account has a record of it.
FileInv ==
    \A k \in Nodes : k <= made =>
        /\ node[k].id # NoId => records[node[k].id] # Nil
        /\ node[k].dirty => node[k].data # Nil
        /\ node[k].id = NoId /\ ~node[k].dirty => node[k].data = Nil
        /\ \/ entries[node[k].name] = k
           \/ \E r \in Uploads : records[r] # Nil /\ records[r].name = node[k].name

Held ==
    \A k \in Nodes, r \in Uploads, t \in Texts :
        k <= made /\ ~node[k].dirty /\ node[k].id = r /\ node[k].data = t => Genuine(r, t)

Cached == \A r \in Uploads, t \in Texts : cache[r] = t => Genuine(r, t)

\* What a call remembers between its steps: the names that loadDir has left are
\* those of records; what download has is of the record, each chunk from where
\* the record says; the upload that runs has the data of the file.
CallOK(p) ==
    /\ call[p].pc = "merge" => \A n \in Names : call[p].left[n] # NoId =>
          records[call[p].left[n]] # Nil /\ records[call[p].left[n]].name = n
    /\ call[p].pc = "create" => call[p].name # Nil
    /\ call[p].pc \in {"wait", "fetch", "save", "upload", "store"} =>
          call[p].node # NoId /\ call[p].node <= made
    /\ call[p].pc \in {"wait", "fetch"} => node[call[p].node].id # NoId
    /\ call[p].pc # "fetch" => \A i \in Chunks : call[p].got[i] = Nil
    /\ call[p].pc = "fetch" => \A i \in Chunks, r \in Uploads, b \in Sealed :
          node[call[p].node].id = r /\ call[p].got[i] = b =>
             b.by \in granted[records[r].chunks[i]] /\ b.part = records[r].chunks[i][2]
    /\ call[p].pc = "upload" =>
          /\ call[p].up # NoId /\ up[call[p].up].pc # "none"
          /\ up[call[p].up].text = node[call[p].node].data
    /\ call[p].pc = "store" =>
          /\ node[call[p].node].id # NoId /\ node[call[p].node].data # Nil
          /\ Genuine(node[call[p].node].id, node[call[p].node].data)

CallInv == \A p \in Kernel : CallOK(p)

Busy(c) == c.pc \in {"fetch", "upload", "store"}

\* The lock of a file.
Exclusion ==
    \A p, q \in Kernel :
        p # q /\ Busy(call[p]) /\ Busy(call[q]) => call[p].node # call[q].node

IInv == TypeOK /\ StoreInv /\ FileInv /\ Held /\ Cached /\ CallInv /\ Exclusion

-----------------------------------------------------------------------------
(* The constants *)

LEMMA Environment ==
    ASSUME env \in Environments
    PROVE  /\ env.requests \subseteq Kernel /\ env.names \subseteq Names
           /\ env.puts \subseteq Names /\ env.local \in BOOLEAN
BY MountAssumption

LEMMA Bounds == MaxNodes \in Nat /\ MaxUploads \in Nat /\ MaxContents \in Nat
BY MountAssumption, ConstantsAssumption

LEMMA TextType == \A c \in Contents : Text(c) \in Texts
BY DEF Text, Texts, Piece

LEMMA SealedIsNotError == \A b \in Sealed : b # ErrorBody
<1>1. "by" \notin DOMAIN ErrorBody
  BY DEF ErrorBody
<1>2. \A b \in Sealed : "by" \in DOMAIN b
  BY DEF Sealed
<1> QED BY <1>1, <1>2

LEMMA IdleType ==
    /\ Idle \in Call /\ Idle.pc = "idle" /\ Idle.name = Nil /\ Idle.left = Nothing
    /\ \A i \in Chunks : Idle.got[i] = Nil
BY DEF Idle, Call, Nothing

-----------------------------------------------------------------------------
(* What a reader of a record may be shown stays what he may be shown. *)

LEMMA GenuineKept ==
    ASSUME StoreInv, Kept, NEW r \in Uploads, NEW t \in Texts, Genuine(r, t)
    PROVE  Genuine(r, t)'
<1>1. /\ records[r] # Nil /\ records'[r] = records[r]
      /\ \A i \in Chunks : records[r].chunks[i] \in Path
  BY DEF Genuine, Honest, Kept, StoreInv, StoreTypes, Record
<1>2. up[r].pc # "none" /\ up'[r].text = up[r].text /\ up'[r].front = up[r].front
  BY <1>1 DEF StoreInv, UploadInv, Kept
<1>3. Ordered(r)' => Ordered(r)
  BY <1>1, <1>2 DEF Ordered
<1>4. Exclusive(r)' /\ Ordered(r) => Exclusive(r)
  <2> SUFFICES ASSUME Exclusive(r)', Ordered(r), NEW i \in Chunks
               PROVE  granted[records[r].chunks[i]] = {r}
    BY DEF Exclusive
  <2> DEFINE q == records[r].chunks[i]
  <2>1. q \in Path /\ granted[q] \subseteq granted'[q] /\ granted'[q] = {r}
    BY <1>1 DEF Exclusive, Kept
  <2>2. store[q] # Nil
    <3>1. up[r].front \in {"fuse", "webdav"}
      BY DEF StoreInv, StoreTypes, Job
    <3>2. q[2] \in Chunks
      BY <1>1, <3>1 DEF Ordered, StoreInv, RecordInv
    <3> QED BY <1>1, <3>2 DEF StoreInv, RecordInv
  <2>3. store[q].by \in granted[q]
    BY <2>1, <2>2 DEF StoreInv, ObjectInv
  <2> QED BY <2>1, <2>3
<1>5. Honest(r, t)'
  BY <1>1, <1>2, <1>3, <1>4 DEF Genuine, Honest
<1>6. KeptApart(r, t)'
  <2>1. CASE env.local /\ OfOneText(t)
    <3>1. PICK u \in Uploads, n \in 0..NumChunks : up[u].local /\ t = CutOff(up[u].text, n)
      BY <2>1 DEF OfOneText
    <3>2. up'[u].local /\ up'[u].text = up[u].text /\ env'.local
      BY <2>1, <3>1 DEF StoreInv, UploadInv, Kept
    <3> QED BY <3>1, <3>2 DEF KeptApart, OfOneText
  <2>2. CASE NotForeign(r, t)
    <3>1. \A i \in Chunks : granted[records[r].chunks[i]] \subseteq granted'[records'[r].chunks[i]]
      BY <1>1 DEF Kept
    <3> QED BY <2>2, <3>1, <1>2 DEF NotForeign, KeptApart
  <2> QED BY <2>1, <2>2 DEF Genuine, KeptApart
<1> QED BY <1>5, <1>6 DEF Genuine

LEMMA SameFiles ==
    ASSUME StoreInv, TypeOK, FileInv, Held, Kept, UNCHANGED <<node, made, entries>>
    PROVE  FileInv' /\ Held'
<1>1. Held'
  <2> SUFFICES ASSUME NEW k \in Nodes, NEW r \in Uploads, NEW t \in Texts, k <= made,
                      ~node[k].dirty, node[k].id = r, node[k].data = t
               PROVE  Genuine(r, t)'
    BY DEF Held
  <2> QED BY GenuineKept DEF Held
<1>2. FileInv'
  <2> SUFFICES ASSUME NEW k \in Nodes, k <= made
               PROVE  /\ node[k].id # NoId => records'[node[k].id] # Nil
                      /\ node[k].dirty => node[k].data # Nil
                      /\ node[k].id = NoId /\ ~node[k].dirty => node[k].data = Nil
                      /\ \/ entries[node[k].name] = k
                         \/ \E r \in Uploads : records'[r] # Nil /\ records'[r].name = node[k].name
    BY DEF FileInv
  <2>1. node[k] \in File
    BY DEF TypeOK, Nodes
  <2> QED BY <2>1 DEF FileInv, Kept, File
<1> QED BY <1>1, <1>2

LEMMA SameCache ==
    ASSUME StoreInv, Cached, Kept, UNCHANGED cache
    PROVE  Cached'
<1> SUFFICES ASSUME NEW r \in Uploads, NEW t \in Texts, cache[r] = t PROVE Genuine(r, t)'
  BY DEF Cached
<1> QED BY GenuineKept DEF Cached

-----------------------------------------------------------------------------
(* One file or one call changes *)

LEMMA OneFile ==
    ASSUME StoreInv, TypeOK, FileInv, Held, Kept, UNCHANGED <<made, entries>>,
           NEW k \in Nodes, k <= made, NEW f \in File, node' = [node EXCEPT ![k] = f],
           f.name = node[k].name,
           f.id # NoId => records'[f.id] # Nil,
           f.dirty => f.data # Nil,
           f.id = NoId /\ ~f.dirty => f.data = Nil,
           \A r \in Uploads, t \in Texts : ~f.dirty /\ f.id = r /\ f.data = t => Genuine(r, t)'
    PROVE  /\ FileInv' /\ Held' /\ node' \in [Nodes -> File \union {Nil}]
           /\ \A j \in Nodes : node'[j] = Nil <=> j > made
<1>1. /\ node'[k] = f /\ \A j \in Nodes : j # k => node'[j] = node[j]
      /\ node' \in [Nodes -> File \union {Nil}]
  BY DEF TypeOK
<1>2. Held'
  <2> SUFFICES ASSUME NEW j \in Nodes, NEW r \in Uploads, NEW t \in Texts, j <= made,
                      ~node'[j].dirty, node'[j].id = r, node'[j].data = t
               PROVE  Genuine(r, t)'
    BY DEF Held
  <2>1. CASE j = k
    BY <2>1, <1>1
  <2>2. CASE j # k
    BY <2>2, <1>1, GenuineKept DEF Held
  <2> QED BY <2>1, <2>2
<1>3. FileInv'
  <2> SUFFICES ASSUME NEW j \in Nodes, j <= made
               PROVE  /\ node'[j].id # NoId => records'[node'[j].id] # Nil
                      /\ node'[j].dirty => node'[j].data # Nil
                      /\ node'[j].id = NoId /\ ~node'[j].dirty => node'[j].data = Nil
                      /\ \/ entries[node'[j].name] = j
                         \/ \E r \in Uploads : records'[r] # Nil /\ records'[r].name = node'[j].name
    BY DEF FileInv
  <2>1. node[j] \in File /\ node'[j].name = node[j].name
    BY <1>1 DEF TypeOK, Nodes
  <2>2. \/ entries[node[j].name] = j
        \/ \E r \in Uploads : records'[r] # Nil /\ records'[r].name = node[j].name
    BY DEF FileInv, Kept
  <2>3. CASE j = k
    BY <2>1, <2>2, <2>3, <1>1
  <2>4. CASE j # k
    BY <2>1, <2>2, <2>4, <1>1 DEF FileInv, Kept, File
  <2> QED BY <2>3, <2>4
<1>4. \A j \in Nodes : node'[j] = Nil <=> j > made
  BY <1>1, FileAssumption, Bounds DEF TypeOK, Nodes
<1> QED BY <1>1, <1>2, <1>3, <1>4

LEMMA NewFile ==
    ASSUME StoreInv, TypeOK, FileInv, Held, Kept, made < MaxNodes, made' = made + 1,
           NEW n \in Names, NEW f \in File, f.name = n, f.data = Nil, ~f.dirty,
           f.id # NoId => records'[f.id] # Nil,
           node' = [node EXCEPT ![made + 1] = f],
           entries' = [entries EXCEPT ![n] = made + 1],
           \/ entries[n] = NoId
           \/ \E r \in Uploads : records[r] # Nil /\ records[r].name = n
    PROVE  /\ FileInv' /\ Held' /\ node' \in [Nodes -> File \union {Nil}]
           /\ \A j \in Nodes : node'[j] = Nil <=> j > made'
           /\ entries' \in [Names -> 0..made'] /\ made' \in 0..MaxNodes
<1> USE Bounds
<1>1. made \in 0..MaxNodes /\ made + 1 \in Nodes
  BY DEF TypeOK, Nodes
<1>2. /\ node'[made + 1] = f /\ \A j \in Nodes : j # made + 1 => node'[j] = node[j]
      /\ node' \in [Nodes -> File \union {Nil}]
  BY <1>1 DEF TypeOK
<1>3. Held'
  <2> SUFFICES ASSUME NEW j \in Nodes, NEW r \in Uploads, NEW t \in Texts, j <= made',
                      ~node'[j].dirty, node'[j].id = r, node'[j].data = t
               PROVE  Genuine(r, t)'
    BY DEF Held
  <2>1. j # made + 1
    BY <1>2, Constants
  <2> QED BY <2>1, <1>1, <1>2, GenuineKept DEF Held, Nodes
<1>4. FileInv'
  <2> SUFFICES ASSUME NEW j \in Nodes, j <= made'
               PROVE  /\ node'[j].id # NoId => records'[node'[j].id] # Nil
                      /\ node'[j].dirty => node'[j].data # Nil
                      /\ node'[j].id = NoId /\ ~node'[j].dirty => node'[j].data = Nil
                      /\ \/ entries'[node'[j].name] = j
                         \/ \E r \in Uploads : records'[r] # Nil /\ records'[r].name = node'[j].name
    BY DEF FileInv
  <2>1. CASE j = made + 1
    BY <2>1, <1>2 DEF TypeOK
  <2>2. CASE j # made + 1
    <3>1. j <= made /\ j # 0 /\ node'[j] = node[j] /\ node[j] \in File
      BY <2>2, <1>1, <1>2 DEF TypeOK, Nodes
    <3>2. \/ entries[node[j].name] = j
          \/ \E r \in Uploads : records'[r] # Nil /\ records'[r].name = node[j].name
      BY <3>1 DEF FileInv, Kept
    <3>3. CASE node[j].name = n
      <4>1. \E r \in Uploads : records'[r] # Nil /\ records'[r].name = n
        BY <3>1, <3>2, <3>3 DEF NoId, Kept
      <4> QED BY <4>1, <3>1, <3>3 DEF FileInv, Kept, File
    <3>4. CASE node[j].name # n
      <4>1. entries'[node[j].name] = entries[node[j].name]
        BY <3>1, <3>4 DEF TypeOK, File
      <4> QED BY <4>1, <3>1, <3>2 DEF FileInv, Kept, File
    <3> QED BY <3>3, <3>4
  <2> QED BY <2>1, <2>2
<1>5. \A j \in Nodes : node'[j] = Nil <=> j > made'
  BY <1>1, <1>2, FileAssumption DEF TypeOK, Nodes
<1>6. entries' \in [Names -> 0..made'] /\ made' \in 0..MaxNodes
  BY <1>1 DEF TypeOK
<1> QED BY <1>2, <1>3, <1>4, <1>5, <1>6

\* A step of a call leaves the files alone that others have locked.
Frame(p) ==
    /\ made <= made' /\ made' \in Nat
    /\ \A k \in Nodes : k <= made =>
          /\ node[k].id # NoId => node'[k].id # NoId
          /\ \/ node'[k] = node[k]
             \/ \A q \in Kernel \ {p} : ~(Busy(call[q]) /\ call[q].node = k)

LEMMA OtherCall ==
    ASSUME StoreInv, TypeOK, FileInv, CallInv, Kept, NEW p, Frame(p), NEW q \in Kernel, q # p,
           call'[q] = call[q]
    PROVE  CallOK(q)'
<1>1. call[q] \in Call /\ CallOK(q) /\ made \in Nat
  BY Bounds DEF TypeOK, CallInv
<1>2. CASE call[q].pc = "merge"
  BY <1>1, <1>2 DEF CallOK, Kept, Call
<1>3. CASE call[q].pc \in {"idle", "list", "create"}
  BY <1>1, <1>3 DEF CallOK
<1>4. CASE call[q].pc \in {"wait", "save", "fetch", "upload", "store"}
  <2>1. call[q].node \in Nodes /\ call[q].node <= made /\ call[q].node <= made'
    BY <1>1, <1>4, Bounds DEF CallOK, Call, Frame, Nodes, NoId
  <2>2. Busy(call[q]) => node'[call[q].node] = node[call[q].node]
    BY <2>1 DEF Frame
  <2>3. CASE call[q].pc \in {"wait", "save"}
    BY <1>1, <2>1, <2>3 DEF CallOK, Frame
  <2>4. CASE call[q].pc = "fetch"
    <3>1. node'[call[q].node] = node[call[q].node] /\ node[call[q].node].id # NoId
      BY <1>1, <2>2, <2>4 DEF Busy, CallOK
    <3>2. ASSUME NEW i \in Chunks, NEW r \in Uploads, NEW b \in Sealed,
                 node[call[q].node].id = r, call[q].got[i] = b
          PROVE  b.by \in granted'[records'[r].chunks[i]] /\ b.part = records'[r].chunks[i][2]
      <4>1. /\ b.by \in granted[records[r].chunks[i]]
            /\ b.part = records[r].chunks[i][2]
        BY <1>1, <2>4, <3>2 DEF CallOK
      <4>2. records[r] # Nil
        BY <2>1, <3>1, <3>2 DEF FileInv
      <4> QED BY <4>1, <4>2 DEF Kept, StoreInv, StoreTypes, Record
    <3> QED BY <1>1, <2>1, <2>4, <3>1, <3>2 DEF CallOK
  <2>5. CASE call[q].pc = "upload"
    <3>1. node'[call[q].node] = node[call[q].node] /\ call[q].up \in Uploads
      BY <1>1, <2>2, <2>5 DEF Busy, CallOK, Call
    <3> QED BY <1>1, <2>1, <2>5, <3>1 DEF CallOK, Kept
  <2>6. CASE call[q].pc = "store"
    <3> DEFINE f == node[call[q].node]
    <3>1. node'[call[q].node] = f
      BY <1>1, <2>2, <2>6 DEF Busy, CallOK
    <3>2. f.id # NoId /\ f.data # Nil /\ f \in File /\ Genuine(f.id, f.data)
      BY <1>1, <2>1, <2>6, Bounds DEF CallOK, TypeOK, Nodes
    <3>3. f.id \in Uploads /\ f.data \in Texts
      BY <3>2 DEF File
    <3>4. \A r \in Uploads, t \in Texts : Genuine(r, t) => Genuine(r, t)'
      BY GenuineKept
    <3>5. Genuine(f.id, f.data)'
      BY <3>1, <3>2, <3>3, <3>4
    <3> QED BY <1>1, <2>1, <2>6, <3>1, <3>2, <3>5 DEF CallOK
  <2> QED BY <1>4, <2>3, <2>4, <2>5, <2>6
<1> QED BY <1>1, <1>2, <1>3, <1>4 DEF Call

LEMMA OneCall ==
    ASSUME StoreInv, TypeOK, FileInv, CallInv, Exclusion, Kept, NEW p \in Kernel, Frame(p),
           NEW c \in Call, call' = [call EXCEPT ![p] = c], CallOK(p)',
           Busy(c) => (Busy(call[p]) /\ c.node = call[p].node) \/ ~Locked(c.node)
    PROVE  CallInv' /\ Exclusion' /\ call' \in [Kernel -> Call]
<1>1. call'[p] = c /\ (\A q \in Kernel : q # p => call'[q] = call[q]) /\ call' \in [Kernel -> Call]
  BY DEF TypeOK
<1>2. CallInv'
  BY <1>1, OtherCall DEF CallInv
<1>3. Exclusion'
  BY <1>1 DEF Exclusion, Busy, Locked
<1> QED BY <1>1, <1>2, <1>3

-----------------------------------------------------------------------------
(* The steps that change one call and no file *)

LEMMA CallOnly ==
    ASSUME IInv, StoreInv', Kept, written' \in 0..MaxContents,
           UNCHANGED <<node, made, entries, cache>>, known' \subseteq 1..made,
           NEW p \in Kernel, NEW c \in Call, call' = [call EXCEPT ![p] = c], CallOK(p)',
           Busy(c) => (Busy(call[p]) /\ c.node = call[p].node) \/ ~Locked(c.node)
    PROVE  IInv'
<1>1. FileInv' /\ Held' /\ Cached'
  BY SameFiles, SameCache DEF IInv
<1>2. Frame(p)
  BY Bounds DEF Frame, IInv, TypeOK
<1>3. CallInv' /\ Exclusion' /\ call' \in [Kernel -> Call]
  BY <1>2, OneCall DEF IInv
<1> QED BY <1>1, <1>3 DEF IInv, TypeOK, StoreTypeOK, StoreInv, StoreTypes

\* A call that has ended, or waits for the lock of the directory.
Resting(c) ==
    /\ c \in Call /\ c.pc \in {"idle", "create", "list"} /\ (c.pc = "create" => c.name # Nil)
    /\ \A i \in Chunks : c.got[i] = Nil

LEMMA Rests ==
    ASSUME IInv, NEW p \in Kernel, NEW c, Resting(c), call' = [call EXCEPT ![p] = c]
    PROVE  CallOK(p)' /\ ~Busy(c) /\ c \in Call
<1>1. call'[p] = c
  BY DEF IInv, TypeOK
<1> QED BY <1>1 DEF CallOK, Resting, Busy

LEMMA IdleRests == Resting(Idle)
BY IdleType DEF Resting

LEMMA Returned ==
    ASSUME IInv, StoreInv', Kept, written' \in 0..MaxContents,
           UNCHANGED <<node, made, entries, cache>>, known' \subseteq 1..made,
           NEW p \in Kernel, Return(p)
    PROVE  IInv'
BY IdleRests, Rests, CallOnly DEF Return

LEMMA Answered ==
    ASSUME IInv, NEW p \in Kernel, call[p].pc # "fetch", NEW m \in Nat, known \subseteq 1..m,
           NEW ents \in [Names -> 0..m], Answer(p, ents)
    PROVE  /\ known' \subseteq 1..m
           /\ \E c : Resting(c) /\ call' = [call EXCEPT ![p] = c]
<1>1. call[p] \in Call /\ call \in [Kernel -> Call] /\ \A i \in Chunks : call[p].got[i] = Nil
  BY DEF IInv, TypeOK, CallInv, CallOK
<1>2. known' \subseteq 1..m
  <2> DEFINE n == call[p].name
  <2>1. n = Nil \/ n \in Names
    BY <1>1 DEF Call
  <2>2. CASE n = Nil \/ ents[n] = NoId
    BY <2>2 DEF Answer
  <2>3. CASE n # Nil /\ ents[n] # NoId
    <3>1. ents[n] \in 1..m
      BY <2>1, <2>3 DEF NoId
    <3>2. known' = known \union {ents[n]}
      BY <2>3 DEF Answer
    <3> QED BY <3>1, <3>2
  <2> QED BY <2>2, <2>3
<1>3. CASE Return(p)
  <2>1. call' = [call EXCEPT ![p] = Idle]
    BY <1>3 DEF Return
  <2> QED BY <2>1, <1>2, IdleRests
<1>4. CASE Goto(p, "create") /\ call[p].name # Nil
  <2> DEFINE c == [call[p] EXCEPT !.pc = "create"]
  <2>1. Resting(c)
    BY <1>1, <1>4 DEF Resting, Call
  <2>2. call' = [call EXCEPT ![p] = c]
    BY <1>1, <1>4 DEF Goto
  <2> HIDE DEF c
  <2> QED BY <2>1, <2>2, <1>2
<1> QED BY <1>2, <1>3, <1>4 DEF Answer

LEMMA LookupHitInv ==
    ASSUME IInv, StoreInv', Kept, NEW p \in Kernel, NEW n \in Names, LookupHit(p, n)
    PROVE  IInv'
<1>1. known' \subseteq 1..made
  <2>1. entries[n] \in 0..made /\ entries[n] # 0 /\ made \in Nat /\ known \subseteq 1..made
    BY Bounds DEF LookupHit, IInv, TypeOK, NoId
  <2>2. entries[n] \in 1..made /\ known' = known \union {entries[n]}
    BY <2>1 DEF LookupHit
  <2> QED BY <2>1, <2>2
<1>2. FileInv' /\ Held' /\ Cached'
  BY SameFiles, SameCache DEF IInv, LookupHit
<1>3. Frame(p) /\ call' = [call EXCEPT ![p] = call[p]] /\ call[p] \in Call
  BY Bounds DEF Frame, IInv, TypeOK, LookupHit
<1>4. CallOK(p)' /\ ~Busy(call[p])
  BY DEF LookupHit, At, CallOK, Busy, storeVars, IInv, CallInv
<1>5. CallInv' /\ Exclusion' /\ call' \in [Kernel -> Call]
  BY <1>3, <1>4, OneCall DEF IInv
<1> QED BY <1>1, <1>2, <1>5 DEF IInv, TypeOK, StoreTypeOK, LookupHit, storeVars

LEMMA BeginInv ==
    ASSUME IInv, StoreInv', Kept, NEW p \in Kernel,
           Readdir(p) \/ \E n \in Names, b \in BOOLEAN : LookupMiss(p, n, b)
    PROVE  IInv'
<1>3. /\ UNCHANGED <<node, made, entries, cache, known, written>> /\ written' \in 0..MaxContents
      /\ known' \subseteq 1..made
  BY DEF Readdir, LookupMiss, storeVars, IInv, TypeOK, StoreTypeOK
<1>1. CASE Readdir(p)
  <2>1. Resting([Idle EXCEPT !.pc = "list"])
    BY IdleType DEF Resting, Call
  <2>2. call' = [call EXCEPT ![p] = [Idle EXCEPT !.pc = "list"]]
    BY <1>1 DEF Readdir
  <2> QED BY <2>1, <2>2, <1>3, Rests, CallOnly
<1>2. ASSUME NEW n \in Names, NEW b \in BOOLEAN, LookupMiss(p, n, b) PROVE IInv'
  <2> DEFINE c == [Idle EXCEPT !.pc = "list", !.name = n, !.creates = b]
  <2>1. Resting(c)
    BY IdleType DEF Resting, Call
  <2>2. call' = [call EXCEPT ![p] = c]
    BY <1>2 DEF LookupMiss
  <2> QED BY <2>1, <2>2, <1>3, Rests, CallOnly
<1> QED BY <1>1, <1>2

LEMMA ListInv ==
    ASSUME IInv, StoreInv', Kept, NEW p \in Kernel, List(p) \/ ListFails(p)
    PROVE  IInv'
<1>1. /\ UNCHANGED <<storeVars, entries, node, made, cache>> /\ written' \in 0..MaxContents
      /\ call[p].pc = "list" /\ call[p] \in Call /\ call \in [Kernel -> Call]
      /\ made \in Nat /\ entries \in [Names -> 0..made] /\ known \subseteq 1..made
  BY Bounds DEF List, ListFails, At, storeVars, IInv, TypeOK, StoreTypeOK
<1>2. CASE Answer(p, entries)
  BY <1>1, <1>2, Answered, Rests, CallOnly
<1>3. ASSUME NEW l \in [Names -> Uploads \union {NoId}],
             \/ \A n \in Names : l[n] \in RecordsOf(n) \/ (MayBeElsewhere(n) /\ l[n] = NoId)
             \/ l = Nothing,
             call' = [call EXCEPT ![p].pc = "merge", ![p].left = l], UNCHANGED known
      PROVE  IInv'
  <2> DEFINE c == [call[p] EXCEPT !.pc = "merge", !.left = l]
  <2>1. c \in Call /\ c.pc = "merge" /\ c.left = l /\ c.got = call[p].got
    BY <1>1 DEF Call
  <2>2. call' = [call EXCEPT ![p] = c] /\ call'[p] = c
    BY <1>1, <1>3
  <2>3. \A i \in Chunks : call[p].got[i] = Nil
    BY <1>1 DEF IInv, CallInv, CallOK
  <2>4. \A n \in Names : l[n] # NoId => records[l[n]] # Nil /\ records[l[n]].name = n
    BY <1>3 DEF RecordsOf, Nothing
  <2> HIDE DEF c
  <2>5. CallOK(p)'
    BY <1>1, <2>1, <2>2, <2>3, <2>4 DEF CallOK, storeVars
  <2> QED BY <1>1, <1>3, <2>1, <2>2, <2>5, CallOnly DEF Busy
<1> QED BY <1>2, <1>3 DEF List, ListFails

\* The steps before a transfer and after one that failed.
LEMMA WaitInv ==
    ASSUME IInv, StoreInv', Kept, NEW p \in Kernel, NEW k \in Nodes, Read(p, k) \/ Flush(p, k)
    PROVE  IInv'
<1>1. /\ UNCHANGED <<storeVars, entries, node, made, known, cache>> /\ k <= made
      /\ written' \in 0..MaxContents /\ known' \subseteq 1..made
  BY Bounds DEF Read, Flush, storeVars, IInv, TypeOK, StoreTypeOK
<1>2. PICK pc \in {"wait", "save"} :
         /\ call' = [call EXCEPT ![p] = [Idle EXCEPT !.pc = pc, !.node = k]]
         /\ pc = "wait" => node[k].id # NoId
  BY DEF Read, Flush
<1> DEFINE c == [Idle EXCEPT !.pc = pc, !.node = k]
<1>3. c \in Call /\ c.pc = pc /\ c.node = k /\ \A i \in Chunks : c.got[i] = Nil
  BY IdleType DEF Call
<1>4. call' = [call EXCEPT ![p] = c] /\ call'[p] = c
  BY <1>2 DEF IInv, TypeOK
<1> HIDE DEF c
<1>5. CallOK(p)'
  <2>1. k # NoId /\ k <= made' /\ (pc = "wait" => node'[k].id # NoId)
    BY <1>1, <1>2 DEF Nodes, NoId
  <2>2. CASE pc = "wait"
    BY <2>1, <2>2, <1>3, <1>4 DEF CallOK
  <2>3. CASE pc = "save"
    BY <2>1, <2>3, <1>3, <1>4 DEF CallOK
  <2> QED BY <2>2, <2>3
<1> QED BY <1>1, <1>3, <1>4, <1>5, CallOnly DEF Busy

LEMMA DownloadInv ==
    ASSUME IInv, StoreInv', Kept, NEW p \in Kernel, Download(p)
    PROVE  IInv'
<1>1. /\ UNCHANGED <<storeVars, entries, node, made, known, cache>>
      /\ call[p] \in Call /\ call \in [Kernel -> Call] /\ call[p].pc = "wait" /\ CallOK(p)
      /\ written' \in 0..MaxContents /\ known' \subseteq 1..made
  BY DEF Download, At, storeVars, IInv, TypeOK, StoreTypeOK, CallInv
<1> DEFINE c == [call[p] EXCEPT !.pc = "fetch"]
<1>2. c \in Call /\ c.pc = "fetch" /\ c.node = call[p].node /\ c.got = call[p].got
  BY <1>1 DEF Call
<1>3. call' = [call EXCEPT ![p] = c] /\ call'[p] = c
  BY <1>1 DEF Download, Goto
<1> HIDE DEF c
<1>4. \A i \in Chunks : c.got[i] \notin Sealed
  BY <1>1, <1>2, Constants DEF CallOK
<1>5. CallOK(p)'
  BY <1>1, <1>2, <1>3, <1>4 DEF CallOK
<1> QED BY <1>1, <1>2, <1>3, <1>5, CallOnly DEF Download

\* What the storage answers for a chunk of a record.
LEMMA FetchInv ==
    ASSUME IInv, StoreInv', Kept, NEW p \in Kernel, NEW i \in Chunks, Fetch(p, i)
    PROVE  IInv'
<1>1. /\ UNCHANGED <<storeVars, entries, node, made, known, cache>>
      /\ call[p] \in Call /\ call \in [Kernel -> Call] /\ call[p].pc = "fetch" /\ CallOK(p)
      /\ written' \in 0..MaxContents /\ known' \subseteq 1..made
  BY DEF Fetch, At, storeVars, IInv, TypeOK, StoreTypeOK, CallInv
<1> DEFINE k == call[p].node
           r == node[k].id
           q == records[r].chunks[i]
<1>2. k \in Nodes /\ k <= made /\ r # NoId /\ node[k] \in File
  BY <1>1 DEF CallOK, Call, IInv, TypeOK, Nodes
<1>3. r \in Uploads /\ records[r] # Nil /\ q \in Path
  BY <1>2 DEF File, IInv, FileInv, StoreInv, StoreTypes, Record
<1>4. PICK b \in Reply(q) : call' = [call EXCEPT ![p].got[i] = b]
  BY DEF Fetch
<1>5. store[q] = Nil \/ store[q] \in Sealed
  BY <1>3 DEF IInv, StoreInv, StoreTypes
<1>6. (store[q] # Nil /\ b = store[q]) \/ b = ErrorBody
  BY <1>5 DEF Reply
<1>7. b \in Sealed => b.by \in granted[q] /\ b.part = q[2]
  BY <1>3, <1>5, <1>6, SealedIsNotError DEF IInv, StoreInv, ObjectInv
<1> DEFINE c == [call[p] EXCEPT !.got[i] = b]
<1>8. /\ c \in Call /\ c.pc = "fetch" /\ c.node = k /\ c.got[i] = b
      /\ \A j \in Chunks : j # i => c.got[j] = call[p].got[j]
  BY <1>1, <1>5, <1>6 DEF Call
<1>9. call' = [call EXCEPT ![p] = c] /\ call'[p] = c
  BY <1>1, <1>4
<1> HIDE DEF c
<1>10. CallOK(p)'
  <2>1. ASSUME NEW j \in Chunks, NEW s \in Uploads, NEW d \in Sealed, r = s, c.got[j] = d
        PROVE  d.by \in granted[records[s].chunks[j]] /\ d.part = records[s].chunks[j][2]
    BY <1>1, <1>7, <1>8, <2>1 DEF CallOK
  <2>2. UNCHANGED <<node, made, records, granted>>
    BY <1>1 DEF storeVars
  <2>3. k # NoId
    BY <1>1 DEF CallOK
  <2> HIDE DEF k, q
  <2> QED BY <1>2, <1>8, <1>9, <2>1, <2>2, <2>3 DEF CallOK
<1> QED BY <1>1, <1>8, <1>9, <1>10, CallOnly DEF Busy

LEMMA ReturnInv ==
    ASSUME IInv, StoreInv', Kept, NEW p \in Kernel, DownloadFails(p) \/ SaveClean(p) \/ NotSaved(p)
    PROVE  IInv'
<1>1. /\ UNCHANGED <<written, entries, node, made, known, cache>> /\ Return(p)
      /\ written' \in 0..MaxContents /\ known' \subseteq 1..made
  BY DEF DownloadFails, SaveClean, NotSaved, UploadFails, storeVars, IInv, TypeOK, StoreTypeOK
<1> QED BY <1>1, Returned

LEMMA UploadsInv ==
    ASSUME IInv, StoreInv', Kept, NEW p \in Kernel, Upload(p)
    PROVE  IInv'
<1> DEFINE k == call[p].node
           u == started + 1
           c == [call[p] EXCEPT !.pc = "upload", !.up = u]
<1>1. /\ UNCHANGED <<written, entries, node, made, known, cache>>
      /\ call[p] \in Call /\ call \in [Kernel -> Call] /\ call[p].pc = "save" /\ CallOK(p)
      /\ written' \in 0..MaxContents /\ known' \subseteq 1..made
  BY DEF Upload, At, storeVars, IInv, TypeOK, StoreTypeOK, CallInv
<1>2. /\ u \in Uploads
      /\ up' = [up EXCEPT ![u] = [NoJob EXCEPT !.pc = "urls", !.front = "fuse",
                                     !.name = node[k].name, !.text = node[k].data,
                                     !.local = env.local]]
  BY Bounds DEF Upload, Start, Uploads, IInv, StoreInv, StoreTypes
<1>3. up'[u].pc = "urls" /\ up'[u].text = node[k].data
  <2>1. up'[u] = [NoJob EXCEPT !.pc = "urls", !.front = "fuse", !.name = node[k].name,
                               !.text = node[k].data, !.local = env.local]
    BY <1>2 DEF IInv, StoreInv, StoreTypes
  <2> QED BY <2>1, NoJobType DEF Job
<1>4. c \in Call /\ c.pc = "upload" /\ c.node = k /\ c.got = call[p].got /\ c.up = u
  BY <1>1, <1>2 DEF Call
<1>5. call' = [call EXCEPT ![p] = c] /\ call'[p] = c
  BY <1>1 DEF Upload
<1>6. u # NoId /\ ~Locked(k)
  BY <1>2 DEF Uploads, NoId, Upload
<1> HIDE DEF c, u
<1>7. CallOK(p)'
  BY <1>1, <1>3, <1>4, <1>5, <1>6 DEF CallOK
<1> QED BY <1>1, <1>4, <1>5, <1>6, <1>7, CallOnly

-----------------------------------------------------------------------------
(* New inodes *)

\* loadDir takes the first name it has left, or another; the rest waits.
LEMMA MergeInv ==
    ASSUME IInv, StoreInv', Kept, NEW p \in Kernel, NEW n \in Names, Merge(p, n)
    PROVE  IInv'
<1> DEFINE r == call[p].left[n]
           l == [call[p].left EXCEPT ![n] = NoId]
<1>1. /\ UNCHANGED <<storeVars, cache>> /\ written' \in 0..MaxContents
      /\ call[p] \in Call /\ call \in [Kernel -> Call] /\ call[p].pc = "merge" /\ CallOK(p)
      /\ made \in 0..MaxNodes /\ made \in Nat /\ entries \in [Names -> 0..made]
      /\ known \subseteq 1..made
  BY Bounds DEF Merge, At, storeVars, IInv, TypeOK, StoreTypeOK, CallInv
<1>2. r \in Uploads /\ records[r] # Nil /\ records[r].name = n /\ l \in [Names -> Uploads \union {NoId}]
  BY <1>1 DEF Merge, CallOK, Call
<1>3. /\ FileInv' /\ Held' /\ node' \in [Nodes -> File \union {Nil}]
      /\ \A j \in Nodes : node'[j] = Nil <=> j > made'
      /\ entries' \in [Names -> 0..made'] /\ made' \in 0..MaxNodes /\ made <= made' /\ made' \in Nat
      /\ \A j \in Nodes : j <= made => node'[j] = node[j]
  <2>1. CASE made < MaxNodes
    <3> DEFINE f == [name |-> n, id |-> r, data |-> Nil, dirty |-> FALSE]
    <3>1. /\ made' = made + 1 /\ node' = [node EXCEPT ![made + 1] = f]
          /\ entries' = [entries EXCEPT ![n] = made + 1]
      BY <2>1 DEF Merge, Merged
    <3>2. f \in File /\ f.name = n /\ f.data = Nil /\ ~f.dirty /\ records'[f.id] # Nil
      BY <1>1, <1>2 DEF File, storeVars
    <3>3. \A j \in Nodes : j <= made => node'[j] = node[j]
      BY <3>1, <1>1 DEF IInv, TypeOK, Nodes
    <3>4. made <= made' /\ made' \in Nat
      BY <3>1, <1>1
    <3> HIDE DEF f
    <3>5. \E s \in Uploads : records[s] # Nil /\ records[s].name = n
      BY <1>2
    <3> QED BY <2>1, <3>1, <3>2, <3>3, <3>4, <3>5, NewFile DEF IInv
  <2>2. CASE ~(made < MaxNodes)
    <3>1. UNCHANGED <<made, node, entries>>
      BY <2>2 DEF Merge
    <3> QED BY <3>1, <1>1, SameFiles DEF IInv, TypeOK
  <2> QED BY <2>1, <2>2
<1>4. /\ known' \subseteq 1..made'
      /\ \E c \in Call : call' = [call EXCEPT ![p] = c] /\ CallOK(p)' /\ ~Busy(c)
  <2>1. CASE ToMake(l) = {}
    <3>1. Answer(p, entries') /\ known \subseteq 1..made' /\ call[p].pc # "fetch"
      BY <2>1, <1>1, <1>3 DEF Merge
    <3>2. PICK c : known' \subseteq 1..made' /\ Resting(c) /\ call' = [call EXCEPT ![p] = c]
      BY <3>1, <1>3, Answered
    <3> QED BY <3>2, Rests
  <2>2. CASE ToMake(l) # {}
    <3> DEFINE c == [call[p] EXCEPT !.left = l]
    <3>1. c \in Call /\ c.pc = "merge" /\ c.left = l /\ c.got = call[p].got
      BY <1>1, <1>2 DEF Call
    <3>2. call' = [call EXCEPT ![p] = c] /\ call'[p] = c /\ UNCHANGED known
      BY <2>2, <1>1 DEF Merge
    <3>3. \A m \in Names : l[m] # NoId => records[l[m]] # Nil /\ records[l[m]].name = m
      BY <1>1 DEF CallOK, Call
    <3> HIDE DEF c, l
    <3>4. CallOK(p)'
      BY <1>1, <3>1, <3>2, <3>3 DEF CallOK, storeVars
    <3>5. ~Busy(c) /\ known' \subseteq 1..made'
      BY <1>1, <1>3, <3>1, <3>2 DEF Busy
    <3> QED BY <3>1, <3>2, <3>4, <3>5
  <2> QED BY <2>1, <2>2
<1>5. Frame(p)
  BY <1>3 DEF Frame
<1>6. CallInv' /\ Exclusion' /\ call' \in [Kernel -> Call]
  BY <1>4, <1>5, OneCall DEF IInv
<1>7. Cached'
  BY <1>1, SameCache DEF IInv
<1> QED BY <1>1, <1>3, <1>4, <1>6, <1>7 DEF IInv, TypeOK, StoreTypeOK, storeVars

LEMMA CreateInv ==
    ASSUME IInv, StoreInv', Kept, NEW p \in Kernel, Create(p)
    PROVE  IInv'
<1> DEFINE n == call[p].name
<1>1. /\ UNCHANGED <<storeVars, cache>> /\ written' \in 0..MaxContents
      /\ call[p] \in Call /\ call \in [Kernel -> Call] /\ n \in Names /\ Return(p)
      /\ made \in 0..MaxNodes /\ made \in Nat /\ entries \in [Names -> 0..made]
      /\ known \subseteq 1..made
  BY Bounds DEF Create, At, storeVars, IInv, TypeOK, StoreTypeOK, CallInv, CallOK, Call
<1>2. CASE ~(entries[n] = NoId /\ made < MaxNodes)
  <2>1. UNCHANGED <<made, node, entries, known>>
    BY <1>2 DEF Create
  <2> QED BY <2>1, <1>1, Returned
<1>3. CASE entries[n] = NoId /\ made < MaxNodes
  <2> DEFINE f == [name |-> n, id |-> NoId, data |-> Nil, dirty |-> FALSE]
  <2>1. /\ made' = made + 1 /\ node' = [node EXCEPT ![made + 1] = f]
        /\ entries' = [entries EXCEPT ![n] = made + 1] /\ known' = known \union {made + 1}
    BY <1>3 DEF Create
  <2>2. f \in File /\ f.name = n /\ f.data = Nil /\ ~f.dirty /\ f.id = NoId
    BY <1>1 DEF File
  <2>3. Frame(p) /\ known' \subseteq 1..made'
    BY <2>1, <1>1 DEF Frame, IInv, TypeOK, Nodes
  <2> HIDE DEF f
  <2>4. /\ FileInv' /\ Held' /\ node' \in [Nodes -> File \union {Nil}]
        /\ \A j \in Nodes : node'[j] = Nil <=> j > made'
        /\ entries' \in [Names -> 0..made'] /\ made' \in 0..MaxNodes
    BY <1>1, <1>3, <2>1, <2>2, NewFile DEF IInv
  <2>5. CallInv' /\ Exclusion' /\ call' \in [Kernel -> Call]
    BY <1>1, <2>3, IdleRests, Rests, OneCall DEF IInv, Return
  <2>6. Cached'
    BY <1>1, SameCache DEF IInv
  <2> QED BY <1>1, <2>3, <2>4, <2>5, <2>6 DEF IInv, TypeOK, StoreTypeOK, storeVars
<1> QED BY <1>2, <1>3

-----------------------------------------------------------------------------
(* The data of a file *)

\* The call p ends, or was none, or its upload is now stored in the cache.
GoesOn(p) ==
    \/ Return(p)
    \/ UNCHANGED call /\ call[p].pc = "idle"
    \/ /\ call[p].pc = "upload" /\ Goto(p, "store") /\ CallOK(p)'
       /\ call'[p] = [call[p] EXCEPT !.pc = "store"]

\* A step that gives file k other data or another record.
NewData(p, k, f) ==
    /\ written' \in 0..MaxContents /\ UNCHANGED <<made, entries, known>>
    /\ k \in Nodes /\ k <= made /\ f \in File
    /\ node' = [node EXCEPT ![k] = f] /\ f.name = node[k].name
    /\ node[k].id # NoId => f.id # NoId
    /\ f.id # NoId => records'[f.id] # Nil
    /\ f.dirty => f.data # Nil
    /\ f.id = NoId /\ ~f.dirty => f.data = Nil
    /\ \A r \in Uploads, t \in Texts : ~f.dirty /\ f.id = r /\ f.data = t => Genuine(r, t)'
    /\ cache' \in [Uploads -> Texts \union {Nil}] /\ Cached'
    /\ \A q \in Kernel \ {p} : ~(Busy(call[q]) /\ call[q].node = k)
    /\ GoesOn(p)

LEMMA DataInv ==
    ASSUME IInv, StoreInv', Kept, NEW p \in Kernel, NEW k, NEW f, NewData(p, k, f)
    PROVE  IInv'
<1> USE DEF NewData
<1>1. /\ FileInv' /\ Held' /\ node' \in [Nodes -> File \union {Nil}]
      /\ \A j \in Nodes : node'[j] = Nil <=> j > made
  BY OneFile DEF IInv
<1>2. Frame(p)
  <2>1. \A j \in Nodes : node'[j] = IF j = k THEN f ELSE node[j]
    BY DEF IInv, TypeOK
  <2> QED BY <2>1, Bounds DEF Frame, IInv, TypeOK
<1>3. CallInv' /\ Exclusion' /\ call' \in [Kernel -> Call]
  <2>1. CASE Return(p)
    BY <2>1, <1>2, IdleRests, Rests, OneCall DEF IInv, Return
  <2>2. CASE UNCHANGED call /\ call[p].pc = "idle"
    <3>1. call' = [call EXCEPT ![p] = call[p]] /\ call[p] \in Call /\ Resting(call[p])
      BY <2>2 DEF IInv, TypeOK, CallInv, CallOK, Resting
    <3> QED BY <3>1, <1>2, Rests, OneCall DEF IInv
  <2>3. CASE call[p].pc = "upload" /\ Goto(p, "store") /\ CallOK(p)'
    <3> DEFINE c == [call[p] EXCEPT !.pc = "store"]
    <3>1. c \in Call /\ c.node = call[p].node /\ Busy(call[p])
      BY <2>3 DEF IInv, TypeOK, Call, Busy
    <3>2. call' = [call EXCEPT ![p] = c]
      BY <2>3 DEF Goto, IInv, TypeOK
    <3> HIDE DEF c
    <3> QED BY <2>3, <3>1, <3>2, <1>2, OneCall DEF IInv
  <2> QED BY <2>1, <2>2, <2>3 DEF GoesOn
<1> QED BY <1>1, <1>3 DEF IInv, TypeOK, StoreTypeOK, StoreInv, StoreTypes

\* The beginning of what may be shown to a reader may be shown to him.
LEMMA CutIsGenuine ==
    ASSUME NEW r \in Uploads, NEW t \in Texts, Genuine(r, t), NEW m \in 0..NumChunks
    PROVE  Genuine(r, CutOff(t, m)) /\ CutOff(t, m) \in Texts
<1>1. CutOff(t, m) \in Texts
  BY DEF CutOff, Texts, Piece
<1>2. \A i \in Chunks : CutOff(t, m)[i] = IF i <= m THEN t[i] ELSE Gone
  BY DEF CutOff
<1>3. \A n \in 0..NumChunks : \E l \in 0..NumChunks : \A i \in Chunks : i <= l <=> i <= n /\ i <= m
  <2> SUFFICES ASSUME NEW n \in 0..NumChunks
               PROVE  \E l \in 0..NumChunks : \A i \in Chunks : i <= l <=> i <= n /\ i <= m
    OBVIOUS
  <2>1. CASE n <= m
    BY <2>1, Constants DEF Chunks
  <2>2. CASE m <= n
    BY <2>2, Constants DEF Chunks
  <2> QED BY <2>1, <2>2, Constants
<1>4. Honest(r, CutOff(t, m))
  <2> SUFFICES ASSUME Exclusive(r), Ordered(r)
               PROVE  \E l \in 0..NumChunks : \A i \in Chunks :
                         CutOff(t, m)[i] \in IF i <= l THEN {up[r].text[i], ErrorBody} ELSE {Gone}
    BY DEF Genuine, Honest
  <2>1. PICK n \in 0..NumChunks : \A i \in Chunks :
                 t[i] \in IF i <= n THEN {up[r].text[i], ErrorBody} ELSE {Gone}
    BY DEF Genuine, Honest
  <2>2. PICK l \in 0..NumChunks : \A i \in Chunks : i <= l <=> i <= n /\ i <= m
    BY <1>3
  <2> QED BY <1>2, <2>1, <2>2
<1>5. KeptApart(r, CutOff(t, m))
  <2>1. CASE NotForeign(r, t)
    BY <1>2, <2>1 DEF NotForeign, KeptApart
  <2>2. CASE env.local /\ OfOneText(t)
    <3>1. PICK u \in Uploads, n \in 0..NumChunks : up[u].local /\ t = CutOff(up[u].text, n)
      BY <2>2 DEF OfOneText
    <3>2. PICK l \in 0..NumChunks : \A i \in Chunks : i <= l <=> i <= n /\ i <= m
      BY <1>3
    <3>3. CutOff(t, m) = CutOff(up[u].text, l)
      BY <3>1, <3>2 DEF CutOff
    <3> QED BY <2>2, <3>1, <3>3 DEF KeptApart, OfOneText
  <2> QED BY <2>1, <2>2 DEF Genuine, KeptApart
<1> QED BY <1>1, <1>4, <1>5 DEF Genuine

LEMMA CacheSetInv ==
    ASSUME IInv, StoreInv', Kept, NEW r \in Uploads, NEW t \in Texts, Genuine(r, t),
           CacheSet(r, t) \/ CutShort(r, t)
    PROVE  Cached' /\ cache' \in [Uploads -> Texts \union {Nil}]
<1>1. CASE UNCHANGED cache
  BY <1>1, SameCache DEF IInv, TypeOK
<1>2. ASSUME NEW d \in Texts, Genuine(r, d), cache' = [cache EXCEPT ![r] = d]
      PROVE  Cached' /\ cache' \in [Uploads -> Texts \union {Nil}]
  <2>1. /\ cache' \in [Uploads -> Texts \union {Nil}] /\ cache'[r] = d
        /\ \A s \in Uploads : s # r => cache'[s] = cache[s]
    BY <1>2 DEF IInv, TypeOK
  <2>2. ASSUME NEW s \in Uploads, NEW e \in Texts, cache'[s] = e PROVE Genuine(s, e)'
    <3>1. Genuine(s, e)
      BY <1>2, <2>1, <2>2 DEF IInv, Cached
    <3> QED BY <3>1, GenuineKept DEF IInv
  <2> QED BY <2>1, <2>2 DEF Cached
<1>3. CASE CutShort(r, t)
  <2>1. PICK n \in 0..NumChunks : cache' = [cache EXCEPT ![r] = CutOff(t, n)]
    BY <1>3 DEF CutShort
  <2>2. Genuine(r, CutOff(t, n)) /\ CutOff(t, n) \in Texts
    BY CutIsGenuine
  <2> QED BY <2>1, <2>2, <1>2
<1> QED BY <1>1, <1>2, <1>3 DEF CacheSet

LEMMA FromCacheInv ==
    ASSUME IInv, StoreInv', Kept, NEW p \in Kernel, FromCache(p)
    PROVE  IInv'
<1> DEFINE k == call[p].node
           r == node[k].id
           f == [node[k] EXCEPT !.data = cache[r]]
<1>1. /\ UNCHANGED <<storeVars, entries, made, known, cache>> /\ written' \in 0..MaxContents
      /\ call[p] \in Call /\ call[p].pc = "wait" /\ CallOK(p) /\ ~Locked(k) /\ cache[r] # Nil
      /\ node' = [node EXCEPT ![k].data = cache[r]] /\ Return(p)
  BY DEF FromCache, At, storeVars, IInv, TypeOK, StoreTypeOK, CallInv
<1>2. k \in Nodes /\ k <= made /\ r # NoId /\ node[k] \in File
  BY <1>1 DEF CallOK, Call, IInv, TypeOK, Nodes
<1>3. r \in Uploads /\ records[r] # Nil /\ cache[r] \in Texts
  BY <1>1, <1>2 DEF File, IInv, FileInv, TypeOK
<1>4. /\ f \in File /\ f.name = node[k].name /\ f.id = r /\ f.data = cache[r]
      /\ f.dirty = node[k].dirty
  BY <1>2, <1>3 DEF File
<1> QED
  <2>1. node' = [node EXCEPT ![k] = f]
    BY <1>1, <1>2 DEF IInv, TypeOK
  <2>2. Cached' /\ cache' \in [Uploads -> Texts \union {Nil}]
    BY <1>1, SameCache DEF IInv, TypeOK
  <2>3. \A q \in Kernel \ {p} : ~(Busy(call[q]) /\ call[q].node = k)
    BY <1>1 DEF Locked, Busy
  <2>4. records'[f.id] # Nil /\ f.data # Nil
    BY <1>1, <1>3, <1>4 DEF storeVars
  <2>5. \A s \in Uploads, t \in Texts : ~f.dirty /\ f.id = s /\ f.data = t => Genuine(s, t)'
    <3> SUFFICES ASSUME NEW s \in Uploads, NEW t \in Texts, r = s, cache[r] = t
                 PROVE  Genuine(s, t)'
      BY <1>4
    <3>1. Genuine(s, t)
      BY <1>3 DEF IInv, Cached
    <3> QED BY <3>1, GenuineKept DEF IInv
  <2>6. /\ UNCHANGED <<made, entries, known>> /\ written' \in 0..MaxContents
        /\ GoesOn(p)
    BY <1>1 DEF GoesOn
  <2>7. /\ f \in File /\ f.name = node[k].name /\ k \in Nodes /\ k <= made
        /\ (node[k].id # NoId => f.id # NoId) /\ (f.id # NoId => records'[f.id] # Nil)
        /\ (f.dirty => f.data # Nil) /\ (f.id = NoId /\ ~f.dirty => f.data = Nil)
    BY <1>2, <1>4, <2>4
  <2> HIDE DEF f, k
  <2>8. NewData(p, k, f)
    BY <2>1, <2>2, <2>3, <2>5, <2>6, <2>7 DEF NewData
  <2> QED BY <2>8, DataInv

\* What the answers for the chunks of a record open to.
LEMMA OpenedIsGenuine ==
    ASSUME IInv, NEW p \in Kernel, NEW r \in Uploads, node[call[p].node].id = r,
           NEW t \in Downloaded(p)
    PROVE  Genuine(r, t) /\ t \in Texts
<1> DEFINE got == call[p].got
<1>1. /\ call[p] \in Call /\ CallOK(p) /\ call[p].pc = "fetch" /\ t \in Opened(r, call[p].got)
      /\ \A i \in Chunks : call[p].got[i] # Nil
  BY DEF Downloaded, At, IInv, TypeOK, CallInv
<1>2. \A i \in Chunks : got[i] \in Sealed \/ got[i] = ErrorBody
  BY <1>1 DEF Call
<1>3. records[r] # Nil
  <2>1. call[p].node \in Nodes /\ call[p].node <= made
    BY <1>1 DEF CallOK, Call
  <2> QED BY <2>1, Constants DEF IInv, FileInv, Uploads, NoId
<1>4. \A i \in Chunks : records[r].chunks[i] \in Path
  BY <1>3 DEF IInv, StoreInv, StoreTypes, Record
<1>5. \A i \in Chunks, b \in Sealed : got[i] = b =>
         b.by \in granted[records[r].chunks[i]] /\ b.part = records[r].chunks[i][2]
  BY <1>1 DEF CallOK
<1>6. up[r].front \in {"fuse", "webdav"} /\ up[r].pc # "none"
  BY <1>3 DEF IInv, StoreInv, StoreTypes, UploadInv, Job
<1>7. Ordered(r) => \A i \in Chunks : records[r].chunks[i][2] = i
  BY <1>3, <1>6 DEF Ordered, IInv, StoreInv, RecordInv
<1>8. Exclusive(r) /\ Ordered(r) => \A i \in Chunks, b \in Sealed : got[i] = b =>
         b.by = r /\ b.part = i
  BY <1>5, <1>7 DEF Exclusive
<1>9. up[r].text \in Texts
  BY <1>6 DEF IInv, StoreInv, UploadInv
<1> HIDE DEF got
<1>10. CASE ~up[r].local
  <2>1. t = [i \in Chunks |-> OpenChunk(r, got[i])]
    BY <1>1, <1>10 DEF Opened, got
  <2>2. ASSUME NEW i \in Chunks
        PROVE  /\ t[i] \in Piece
               /\ Exclusive(r) /\ Ordered(r) => t[i] \in {up[r].text[i], ErrorBody}
               /\ \/ t[i] \in {up[r].text[j] : j \in Chunks} \union {ErrorBody, Gone}
                  \/ t[i].kind = "raw" /\ t[i].of \in granted[records[r].chunks[i]]
    <3>1. CASE got[i] = ErrorBody
      BY <2>1, <3>1 DEF OpenChunk, AsIs, Piece
    <3>2. CASE got[i] \in Sealed /\ got[i].by = r
      <4>1. got[i] # ErrorBody /\ got[i].part \in Chunks
        BY <3>2, SealedIsNotError DEF Sealed
      <4>2. t[i] = up[r].text[got[i].part]
        BY <2>1, <3>2, <4>1 DEF OpenChunk
      <4> QED BY <1>8, <1>9, <3>2, <4>1, <4>2 DEF Texts
    <3>3. CASE got[i] \in Sealed /\ got[i].by # r
      <4>1. got[i] # ErrorBody
        BY <3>3, SealedIsNotError
      <4>2. t[i] = Raw(got[i])
        BY <2>1, <3>3, <4>1 DEF OpenChunk, AsIs
      <4> QED BY <1>5, <1>8, <3>3, <4>2 DEF Raw, Piece, Sealed
    <3> QED BY <1>2, <3>1, <3>2, <3>3
  <2>3. t \in Texts
    BY <2>1, <2>2 DEF Texts
  <2>4. NumChunks \in 0..NumChunks /\ \A i \in Chunks : i <= NumChunks
    BY Constants DEF Chunks
  <2>5. Honest(r, t)
    BY <1>3, <2>2, <2>4 DEF Honest
  <2>6. NotForeign(r, t)
    BY <2>2 DEF NotForeign
  <2> QED BY <2>3, <2>5, <2>6 DEF Genuine, KeptApart
<1>11. CASE up[r].local
  <2>1. PICK v \in Uploads : /\ up[v].local /\ t = up[v].text
                             /\ got = [i \in Chunks |-> [by |-> v, part |-> i]]
    BY <1>1, <1>11 DEF Opened, OpenWhole, got
  <2>2. env.local /\ t \in Texts
    BY <2>1 DEF IInv, StoreInv, UploadInv
  <2>6. NumChunks \in 0..NumChunks /\ \A i \in Chunks : i <= NumChunks
    BY Constants DEF Chunks
  <2>3. KeptApart(r, t)
    <3>1. t = CutOff(up[v].text, NumChunks)
      BY <2>1, <2>2, <2>6 DEF CutOff, Texts
    <3> QED BY <2>1, <2>2, <2>6, <3>1 DEF KeptApart, OfOneText
  <2>4. Exclusive(r) /\ Ordered(r) => v = r
    <3>1. PICK i : i \in Chunks
      BY Constants DEF Chunks
    <3>2. [by |-> v, part |-> i] \in Sealed /\ got[i] = [by |-> v, part |-> i]
      BY <2>1, <3>1 DEF Sealed
    <3> QED BY <1>8, <3>1, <3>2
  <2>5. Honest(r, t)
    BY <1>3, <2>1, <2>4, <2>6 DEF Honest
  <2> QED BY <2>2, <2>3, <2>5 DEF Genuine
<1> QED BY <1>10, <1>11

LEMMA AssembleInv ==
    ASSUME IInv, StoreInv', Kept, NEW p \in Kernel, Assemble(p)
    PROVE  IInv'
<1> DEFINE k == call[p].node
           r == node[k].id
<1>1. /\ UNCHANGED <<storeVars, entries, made, known>> /\ written' \in 0..MaxContents
      /\ call[p] \in Call /\ call[p].pc = "fetch" /\ CallOK(p) /\ Return(p)
  BY DEF Assemble, Downloaded, At, storeVars, IInv, TypeOK, StoreTypeOK, CallInv
<1>2. k \in Nodes /\ k <= made /\ r # NoId /\ node[k] \in File
  <2>1. k \in Nodes /\ k <= made
    BY <1>1 DEF CallOK, Call
  <2>2. node[k] \in File
    BY <2>1, Bounds DEF IInv, TypeOK, Nodes
  <2> QED BY <1>1, <2>1, <2>2 DEF CallOK
<1>3. r \in Uploads /\ records[r] # Nil
  BY <1>2 DEF File, IInv, FileInv
<1>4. PICK t \in Downloaded(p) : node' = [node EXCEPT ![k].data = t] /\ CacheSet(r, t)
  BY DEF Assemble
<1>5. Genuine(r, t) /\ t \in Texts
  BY <1>1, <1>3, <1>4, OpenedIsGenuine
<1> DEFINE f == [node[k] EXCEPT !.data = t]
<1>6. f \in File /\ f.name = node[k].name /\ f.id = r /\ f.data = t /\ t # Nil
  BY <1>2, <1>5, Constants DEF File
<1>7. \A s \in Uploads : s = r => Genuine(s, t)'
  BY <1>5, GenuineKept DEF IInv
<1>8. Cached' /\ cache' \in [Uploads -> Texts \union {Nil}]
  BY <1>3, <1>4, <1>5, CacheSetInv
<1> QED
  <2>1. node' = [node EXCEPT ![k] = f]
    BY <1>2, <1>4 DEF IInv, TypeOK
  <2>2. Cached' /\ cache' \in [Uploads -> Texts \union {Nil}]
    BY <1>8
  <2>3. \A q \in Kernel \ {p} : ~(Busy(call[q]) /\ call[q].node = k)
    BY <1>1 DEF IInv, Exclusion, Busy
  <2>4. records'[f.id] # Nil /\ f.data # Nil
    BY <1>1, <1>3, <1>6 DEF storeVars
  <2>5. \A s \in Uploads, d \in Texts : ~f.dirty /\ f.id = s /\ f.data = d => Genuine(s, d)'
    BY <1>6, <1>7
  <2>6. /\ UNCHANGED <<made, entries, known>> /\ written' \in 0..MaxContents
        /\ GoesOn(p)
    BY <1>1 DEF GoesOn
  <2>7. /\ f \in File /\ f.name = node[k].name /\ k \in Nodes /\ k <= made
        /\ (node[k].id # NoId => f.id # NoId) /\ (f.id # NoId => records'[f.id] # Nil)
        /\ (f.dirty => f.data # Nil) /\ (f.id = NoId /\ ~f.dirty => f.data = Nil)
    BY <1>2, <1>6, <2>4
  <2> HIDE DEF f, k
  <2>8. NewData(p, k, f)
    BY <2>1, <2>2, <2>3, <2>5, <2>6, <2>7 DEF NewData
  <2> QED BY <2>8, DataInv

LEMMA WriteInv ==
    ASSUME IInv, StoreInv', Kept, NEW p \in Kernel, NEW k \in Nodes, Write(p, k)
    PROVE  IInv'
<1> DEFINE t == Text(written + 1)
           f == [node[k] EXCEPT !.data = t, !.dirty = TRUE]
<1>1. /\ UNCHANGED <<entries, made, known, call, cache>> /\ call[p].pc = "idle"
      /\ written' = written + 1 /\ written' \in 0..MaxContents /\ written + 1 \in Contents
      /\ k <= made /\ ~Locked(k)
  BY Bounds DEF Write, At, IInv, TypeOK, StoreTypeOK, Contents
<1>2. node[k] \in File /\ t \in Texts /\ t # Nil
  BY <1>1, TextType, Constants DEF IInv, TypeOK, Nodes
<1>3. f \in File /\ f.name = node[k].name /\ f.id = node[k].id /\ f.data = t /\ f.dirty
  BY <1>2 DEF File
<1>4. records[f.id] # Nil => records'[f.id] # Nil
  BY DEF Write
<1>5. node' = [node EXCEPT ![k] = f]
  BY <1>2 DEF Write, IInv, TypeOK
<1>6. Cached' /\ cache' \in [Uploads -> Texts \union {Nil}]
  BY <1>1, SameCache DEF IInv, TypeOK
<1>7. \A q \in Kernel \ {p} : ~(Busy(call[q]) /\ call[q].node = k)
  BY <1>1 DEF Locked, Busy
<1>8. \A s \in Uploads, d \in Texts : ~f.dirty /\ f.id = s /\ f.data = d => Genuine(s, d)'
  BY <1>3
<1>9. /\ UNCHANGED <<made, entries, known>> /\ written' \in 0..MaxContents
      /\ GoesOn(p)
  BY <1>1 DEF GoesOn
<1>10. /\ f \in File /\ f.name = node[k].name /\ k \in Nodes /\ k <= made
       /\ (node[k].id # NoId => f.id # NoId) /\ (f.id # NoId => records'[f.id] # Nil)
       /\ (f.dirty => f.data # Nil) /\ (f.id = NoId /\ ~f.dirty => f.data = Nil)
  BY <1>1, <1>2, <1>3, <1>4 DEF IInv, FileInv
<1> HIDE DEF f
<1>11. NewData(p, k, f)
  BY <1>5, <1>6, <1>7, <1>8, <1>9, <1>10 DEF NewData
<1> QED BY <1>11, DataInv

LEMMA RecordedInv ==
    ASSUME IInv, StoreInv', Kept, NEW p \in Kernel, Recorded(p)
    PROVE  IInv'
<1> DEFINE k == call[p].node
           u == call[p].up
           t == node[k].data
           f == [node[k] EXCEPT !.id = u]
<1>1. /\ UNCHANGED <<entries, made, known, written, cache>> /\ written' \in 0..MaxContents
      /\ call[p] \in Call /\ call \in [Kernel -> Call] /\ call[p].pc = "upload" /\ CallOK(p)
      /\ CreateFileRecord(u) /\ Goto(p, "store")
  BY DEF Recorded, CreateFileRecord, At, IInv, TypeOK, StoreTypeOK, CallInv
<1>2. k \in Nodes /\ k <= made /\ k # NoId /\ u \in Uploads /\ u # NoId /\ node[k] \in File
  <2>1. k \in Nodes /\ k <= made /\ k # NoId /\ u \in Uploads /\ u # NoId
    BY <1>1 DEF CallOK, Call
  <2> QED BY <2>1, Bounds DEF IInv, TypeOK, Nodes
<1>3. up[u].pc # "none" /\ up[u].text = t /\ t \in Texts /\ up'[u].text = t
  BY <1>1, <1>2 DEF CallOK, IInv, StoreInv, UploadInv, Kept
<1>4. records'[u] # Nil
  BY <1>1, <1>2, RecordMade, Constants DEF IInv, CreateFileRecord
<1>6. f \in File /\ f.name = node[k].name /\ f.id = u /\ f.data = t /\ t # Nil
  BY <1>2, <1>3, Constants DEF File
<1>7. \A s \in Uploads, d \in Texts : s = u /\ d = t => Genuine(s, d)'
  <2> SUFFICES ASSUME NEW s \in Uploads, NEW d \in Texts, s = u, d = t PROVE Genuine(s, d)'
    OBVIOUS
  <2>1. records'[s] # Nil /\ up'[s].text = d
    BY <1>3, <1>4
  <2>2. NumChunks \in 0..NumChunks /\ \A i \in Chunks : i <= NumChunks
    BY Constants DEF Chunks
  <2>3. Honest(s, d)'
    BY <2>1, <2>2 DEF Honest
  <2>4. NotForeign(s, d)'
    BY <2>1 DEF NotForeign
  <2> QED BY <2>3, <2>4 DEF Genuine, KeptApart
<1>8. node' = [node EXCEPT ![k] = f] /\ node'[k] = f
  BY <1>2 DEF Recorded, IInv, TypeOK
<1>9. CallOK(p)' /\ call'[p] = [call[p] EXCEPT !.pc = "store"]
  <2> DEFINE c == [call[p] EXCEPT !.pc = "store"]
  <2>1. call'[p] = c /\ c.pc = "store" /\ c.node = k /\ c.got = call[p].got
    BY <1>1 DEF Goto, Call
  <2>2. \A i \in Chunks : c.got[i] = Nil
    BY <1>1, <2>1 DEF CallOK
  <2>3. /\ k # NoId /\ k <= made' /\ node'[k].id # NoId /\ node'[k].data # Nil
        /\ node'[k].id = u /\ node'[k].data = t
    BY <1>1, <1>2, <1>6, <1>8
  <2>5. node'[call'[p].node].id = u /\ node'[call'[p].node].data = t
    BY <2>1, <2>3
  <2>6. call'[p] = [call[p] EXCEPT !.pc = "store"]
    BY <2>1
  <2> HIDE DEF c, k, u, t, f
  <2>4. Genuine(node[call[p].node].id, node[call[p].node].data)'
    BY <1>2, <1>3, <1>7, <2>5
  <2> QED BY <2>1, <2>2, <2>3, <2>4, <2>6 DEF CallOK
<1> QED
  <2>1. Cached' /\ cache' \in [Uploads -> Texts \union {Nil}]
    BY <1>1, SameCache DEF IInv, TypeOK
  <2>2. \A q \in Kernel \ {p} : ~(Busy(call[q]) /\ call[q].node = k)
    BY <1>1 DEF IInv, Exclusion, Busy
  <2>3. \A s \in Uploads, d \in Texts : ~f.dirty /\ f.id = s /\ f.data = d => Genuine(s, d)'
    BY <1>6, <1>7
  <2>4. /\ UNCHANGED <<made, entries, known>> /\ written' \in 0..MaxContents
        /\ GoesOn(p)
    BY <1>1, <1>9 DEF GoesOn
  <2>5. /\ f \in File /\ f.name = node[k].name /\ k \in Nodes /\ k <= made
        /\ (node[k].id # NoId => f.id # NoId) /\ (f.id # NoId => records'[f.id] # Nil)
        /\ (f.dirty => f.data # Nil) /\ (f.id = NoId /\ ~f.dirty => f.data = Nil)
    BY <1>2, <1>4, <1>6
  <2> HIDE DEF f, k
  <2>6. NewData(p, k, f)
    BY <2>1, <1>8, <2>2, <2>3, <2>4, <2>5 DEF NewData
  <2> QED BY <2>6, DataInv

LEMMA SavedInv ==
    ASSUME IInv, StoreInv', Kept, NEW p \in Kernel, Saved(p)
    PROVE  IInv'
<1> DEFINE k == call[p].node
           r == node[k].id
           t == node[k].data
           f == [node[k] EXCEPT !.dirty = FALSE]
<1>1. /\ UNCHANGED <<storeVars, entries, made, known>> /\ written' \in 0..MaxContents
      /\ call[p] \in Call /\ call[p].pc = "store" /\ CallOK(p) /\ Return(p) /\ CacheSet(r, t)
  BY DEF Saved, At, storeVars, IInv, TypeOK, StoreTypeOK, CallInv
<1>2. k \in Nodes /\ k <= made /\ node[k] \in File
  <2>1. k \in Nodes /\ k <= made
    BY <1>1 DEF CallOK, Call
  <2> QED BY <2>1, Bounds DEF IInv, TypeOK, Nodes
<1>3. r \in Uploads /\ r # NoId /\ records[r] # Nil /\ t \in Texts /\ t # Nil /\ Genuine(r, t)
  BY <1>1, <1>2 DEF CallOK, File, IInv, FileInv
<1>4. f \in File /\ f.name = node[k].name /\ f.id = r /\ f.data = t /\ ~f.dirty
  BY <1>2 DEF File
<1> QED
  <2>1. node' = [node EXCEPT ![k] = f]
    BY <1>2 DEF Saved, IInv, TypeOK
  <2>2. Cached' /\ cache' \in [Uploads -> Texts \union {Nil}]
    BY <1>1, <1>3, CacheSetInv
  <2>3. \A q \in Kernel \ {p} : ~(Busy(call[q]) /\ call[q].node = k)
    BY <1>1 DEF IInv, Exclusion, Busy
  <2>4. records'[f.id] # Nil /\ f.data # Nil
    BY <1>1, <1>3, <1>4 DEF storeVars
  <2>5. \A s \in Uploads, d \in Texts : ~f.dirty /\ f.id = s /\ f.data = d => Genuine(s, d)'
    <3> SUFFICES ASSUME NEW s \in Uploads, NEW d \in Texts, r = s, t = d PROVE Genuine(s, d)'
      BY <1>4
    <3>1. Genuine(s, d)
      BY <1>3
    <3> QED BY <3>1, GenuineKept DEF IInv
  <2>6. /\ UNCHANGED <<made, entries, known>> /\ written' \in 0..MaxContents
        /\ GoesOn(p)
    BY <1>1 DEF GoesOn
  <2>7. /\ f \in File /\ f.name = node[k].name /\ k \in Nodes /\ k <= made
        /\ (node[k].id # NoId => f.id # NoId) /\ (f.id # NoId => records'[f.id] # Nil)
        /\ (f.dirty => f.data # Nil) /\ (f.id = NoId /\ ~f.dirty => f.data = Nil)
    BY <1>2, <1>3, <1>4, <2>4
  <2> HIDE DEF f, k
  <2>8. NewData(p, k, f)
    BY <2>1, <2>2, <2>3, <2>5, <2>6, <2>7 DEF NewData
  <2> QED BY <2>8, DataInv

-----------------------------------------------------------------------------
(* The ends of a process, and the WebDAV server *)

LEMMA DiesInv ==
    ASSUME IInv, StoreInv', Kept, Dies
    PROVE  IInv'
<1>1. /\ entries' = Nothing /\ node' = [k \in Nodes |-> Nil] /\ made' = 0 /\ known' = {}
      /\ call' = [p \in Kernel |-> Idle] /\ UNCHANGED written
  BY DEF Dies, Cut
<1>4. Cached' /\ cache' \in [Uploads -> Texts \union {Nil}]
  <2>1. CASE UNCHANGED cache
    BY <2>1, SameCache DEF IInv, TypeOK
  <2>2. ASSUME NEW p \in Kernel, NEW t \in Storing(p), CutShort(node[call[p].node].id, t)
        PROVE  Cached' /\ cache' \in [Uploads -> Texts \union {Nil}]
    <3> DEFINE k == call[p].node
               r == node[k].id
    <3>1. call[p] \in Call /\ CallOK(p) /\ call[p].pc \in {"fetch", "store"}
      BY <2>2 DEF Storing, Downloaded, At, IInv, TypeOK, CallInv
    <3>2. k \in Nodes /\ k <= made /\ r # NoId
      BY <3>1 DEF CallOK, Call
    <3>3. r \in Uploads /\ node[k] \in File
      BY <3>2, Bounds DEF IInv, TypeOK, Nodes, File
    <3>4. Genuine(r, t) /\ t \in Texts
      <4>1. CASE call[p].pc = "store"
        BY <4>1, <3>1, <3>3 DEF Storing, At, CallOK, File
      <4>2. CASE call[p].pc = "fetch"
        BY <4>2, <3>3, <2>2, OpenedIsGenuine DEF Storing, At
      <4> QED BY <3>1, <4>1, <4>2
    <3> QED BY <2>2, <3>3, <3>4, CacheSetInv
  <2> QED BY <2>1, <2>2 DEF Dies
<1>2. TypeOK'
  <2>1. Nothing \in [Names -> 0..0] /\ \A k \in Nodes : k > 0
    BY Bounds DEF Nothing, NoId, Nodes
  <2> QED BY <1>1, <1>4, <2>1, IdleType, Bounds
         DEF TypeOK, StoreTypeOK, StoreInv, StoreTypes, IInv
<1>3. FileInv' /\ Held'
  BY <1>1, Bounds DEF FileInv, Held, Nodes
<1>5. CallInv' /\ Exclusion'
  BY <1>1, IdleType DEF CallInv, CallOK, Exclusion, Busy
<1> QED BY <1>2, <1>3, <1>4, <1>5 DEF IInv

LEMMA StoreOnly ==
    ASSUME IInv, StoreInv', Kept, written' \in 0..MaxContents, UNCHANGED mountVars
    PROVE  IInv'
<1>1. UNCHANGED <<entries, node, made, known, call, cache>>
  BY DEF mountVars
<1>2. TypeOK'
  BY <1>1 DEF IInv, TypeOK, StoreTypeOK, StoreInv, StoreTypes
<1>3. FileInv' /\ Held' /\ Cached'
  BY <1>1, SameFiles, SameCache DEF IInv
<1>4. CallInv'
  <2>1. \A p : Frame(p)
    BY <1>1, Bounds DEF Frame, IInv, TypeOK
  <2>2. ASSUME NEW p \in Kernel PROVE CallOK(p)'
    <3>1. \E q : q \notin {p}
      BY NoSetContainsEverything
    <3> QED BY <1>1, <2>1, <3>1, OtherCall DEF IInv
  <2> QED BY <2>2 DEF CallInv
<1>5. Exclusion'
  BY <1>1 DEF IInv, Exclusion
<1> QED BY <1>2, <1>3, <1>4, <1>5 DEF IInv

\* Every step of the mount and of the server is one of the store's.
LEMMA StepOfStore ==
    ASSUME IInv, Next
    PROVE  StoreStep /\ written' \in 0..MaxContents
<1>1. /\ \A p \in env.requests : p \in Kernel
      /\ written \in 0..MaxContents /\ MaxContents \in Nat /\ env.local \in BOOLEAN
  BY Environment, Bounds DEF IInv, TypeOK, StoreTypeOK
<1>2. ASSUME NEW p \in Kernel, Request(p)
      PROVE  StoreStep /\ written' \in 0..MaxContents
  <2>1. UNCHANGED <<env, up, started, store, records, granted>>
    BY <1>2 DEF Request, LookupHit, LookupMiss, Readdir, Read, Write, Flush, storeVars
  <2>2. written' = written \/ (written < MaxContents /\ written' = written + 1)
    BY <1>2 DEF Request, LookupHit, LookupMiss, Readdir, Read, Write, Flush, storeVars
  <2> QED BY <1>1, <2>1, <2>2 DEF StoreStep
<1>3. ASSUME NEW p \in Kernel, DirStep(p) \/ Create(p)
      PROVE  StoreStep /\ written' \in 0..MaxContents
  BY <1>1, <1>3 DEF DirStep, List, ListFails, Merge, Create, storeVars, StoreStep
<1>4. ASSUME Dies
      PROVE  StoreStep /\ written' \in 0..MaxContents
  BY <1>1, <1>4 DEF Dies, Cut, StoreStep
<1>5. ASSUME NEW p \in Kernel, FileStep(p)
      PROVE  StoreStep /\ written' \in 0..MaxContents
  <2>1. CASE FromCache(p) \/ Download(p) \/ Assemble(p) \/ DownloadFails(p) \/ SaveClean(p)
             \/ Saved(p) \/ \E i \in Chunks : Fetch(p, i)
    BY <1>1, <2>1 DEF FromCache, Download, Assemble, DownloadFails, SaveClean, Saved, Fetch,
                      storeVars, StoreStep
  <2>2. CASE Upload(p)
    <3> DEFINE f == node[call[p].node]
    <3>1. Start("fuse", f.name, f.data, env.local) /\ UNCHANGED written /\ f.dirty
      BY <2>2 DEF Upload
    <3>2. f.name \in Names /\ f.data \in Texts
      <4>1. call[p] \in Call /\ CallOK(p) /\ call[p].pc = "save"
        BY <2>2 DEF Upload, At, IInv, TypeOK, CallInv
      <4>2. call[p].node \in Nodes /\ call[p].node <= made
        BY <4>1 DEF CallOK, Call
      <4>3. f \in File
        BY <4>2, Bounds DEF IInv, TypeOK, Nodes
      <4> QED BY <3>1, <4>2, <4>3 DEF File, IInv, FileInv
    <3> QED BY <1>1, <3>1, <3>2 DEF StoreStep
  <2>3. CASE Recorded(p) \/ NotSaved(p)
    <3>1. call[p].up \in Uploads
      BY <2>3 DEF Recorded, NotSaved, At, IInv, TypeOK, CallInv, CallOK, Call
    <3> QED BY <1>1, <2>3, <3>1 DEF Recorded, NotSaved, StoreStep, CreateFileRecord, UploadFails
  <2>4. CASE MeetsNil(p)
    BY <2>4, <1>4 DEF MeetsNil
  <2> QED BY <1>5, <2>1, <2>2, <2>3, <2>4 DEF FileStep
<1>6. ASSUME NEW n \in env.puts, PutFile(n)
      PROVE  StoreStep /\ written' \in 0..MaxContents
  <2>1. n \in Names
    BY Environment DEF IInv, TypeOK, StoreTypeOK
  <2>2. Text(written + 1) \in Texts /\ written' \in 0..MaxContents
    BY <1>1, <1>6, TextType DEF PutFile, Contents
  <2> QED BY <1>6, <2>1, <2>2 DEF PutFile, StoreStep
<1>7. ASSUME NEW u \in Uploads, Transfer(u) \/ Closed(u)
      PROVE  StoreStep /\ written' \in 0..MaxContents
  <2>1. UNCHANGED written
    BY <1>7 DEF Transfer, Closed, GetUploadURLs, Put, PutFails, CreateFileRecord, UploadFails,
                Abandon
  <2> QED BY <1>1, <1>7, <2>1 DEF Transfer, Closed, StoreStep
<1>8. ASSUME ServerDies
      PROVE  StoreStep /\ written' \in 0..MaxContents
  BY <1>1, <1>8 DEF ServerDies, Cut, StoreStep
<1> QED BY <1>1, <1>2, <1>3, <1>4, <1>5, <1>6, <1>7, <1>8 DEF Next, Signal, MapFault

LEMMA StepInv == IInv /\ [Next]_vars => IInv'
<1> SUFFICES ASSUME IInv, [Next]_vars PROVE IInv'
  OBVIOUS
<1>1. CASE UNCHANGED vars
  <2>1. UNCHANGED storeVars /\ UNCHANGED mountVars
    BY <1>1 DEF vars
  <2>2. StoreStep /\ written' \in 0..MaxContents
    BY <2>1 DEF storeVars, StoreStep, IInv, TypeOK, StoreTypeOK
  <2> QED BY <2>1, <2>2, StoreKeepsInv, StoreOnly DEF IInv
<1>2. CASE Next
  <2>1. StoreInv' /\ Kept /\ written' \in 0..MaxContents
    BY <1>2, StepOfStore, StoreKeepsInv DEF IInv
  <2>2. env.requests \subseteq Kernel /\ env.names \subseteq Names
    BY Environment DEF IInv, TypeOK, StoreTypeOK
  <2>3. ASSUME NEW p \in Kernel, Request(p) /\ p \in env.requests PROVE IInv'
    <3>1. ASSUME NEW n \in env.names, LookupHit(p, n) \/ \E c \in BOOLEAN : LookupMiss(p, n, c)
          PROVE  IInv'
      BY <2>1, <2>2, <3>1, LookupHitInv, BeginInv
    <3>2. CASE Readdir(p)
      BY <2>1, <3>2, BeginInv
    <3>3. ASSUME NEW k \in Nodes, Read(p, k) \/ Write(p, k) \/ Flush(p, k) PROVE IInv'
      BY <2>1, <3>3, WaitInv, WriteInv
    <3> QED BY <2>3, <3>1, <3>2, <3>3 DEF Request
  <2>4. ASSUME NEW p \in Kernel, DirStep(p) \/ Create(p) PROVE IInv'
    BY <2>1, <2>4, ListInv, MergeInv, CreateInv DEF DirStep
  <2>5. ASSUME NEW p \in Kernel, FileStep(p) PROVE IInv'
    <3>1. CASE FromCache(p) \/ Assemble(p) \/ Recorded(p) \/ Saved(p)
      BY <2>1, <3>1, FromCacheInv, AssembleInv, RecordedInv, SavedInv
    <3>2. CASE Download(p) \/ Upload(p) \/ \E i \in Chunks : Fetch(p, i)
      BY <2>1, <3>2, DownloadInv, UploadsInv, FetchInv
    <3>3. CASE DownloadFails(p) \/ SaveClean(p) \/ NotSaved(p)
      BY <2>1, <3>3, ReturnInv
    <3>4. CASE MeetsNil(p)
      BY <2>1, <3>4, DiesInv DEF MeetsNil
    <3> QED BY <2>5, <3>1, <3>2, <3>3, <3>4 DEF FileStep
  <2>6. CASE Signal \/ \E p, q \in env.requests : MapFault(p, q)
    BY <2>1, <2>6, DiesInv DEF Signal, MapFault
  <2>7. CASE UNCHANGED mountVars
    BY <2>1, <2>7, StoreOnly
  <2>8. \/ \E p \in Kernel : (Request(p) /\ p \in env.requests) \/ DirStep(p) \/ Create(p) \/ FileStep(p)
        \/ Signal \/ \E p, q \in env.requests : MapFault(p, q)
        \/ UNCHANGED mountVars
    BY <1>2, <2>2 DEF Next, PutFile, Transfer, Closed, ServerDies
  <2> QED BY <2>3, <2>4, <2>5, <2>6, <2>7, <2>8
<1> QED BY <1>1, <1>2

LEMMA InitInv == Init => IInv
<1> SUFFICES ASSUME Init PROVE IInv
  OBVIOUS
<1>1. StoreInv
  BY Initially DEF Init
<1>2. /\ entries = Nothing /\ node = [k \in Nodes |-> Nil] /\ made = 0 /\ known = {}
      /\ call = [p \in Kernel |-> Idle] /\ cache = [r \in Uploads |-> Nil] /\ written = 0
  BY DEF Init, MountInit, StoreInit
<1>3. TypeOK
  <2>1. Nothing \in [Names -> 0..0] /\ \A k \in Nodes : k > 0
    BY Bounds DEF Nothing, NoId, Nodes
  <2> QED BY <1>1, <1>2, <2>1, IdleType, Bounds
         DEF TypeOK, StoreTypeOK, StoreInv, StoreTypes
<1>4. FileInv /\ Held
  BY <1>2, Bounds DEF FileInv, Held, Nodes
<1>5. Cached
  BY <1>2, Constants DEF Cached
<1>6. CallInv /\ Exclusion
  BY <1>2, IdleType DEF CallInv, CallOK, Exclusion, Busy
<1> QED BY <1>1, <1>3, <1>4, <1>5, <1>6 DEF IInv

\* The inductive invariant holds: the store, the files, the cache and the calls under
\* way agree with one another, as the properties below need it.  (filesystem.go:133-825.)
THEOREM Inductive == Spec => []IInv
<1> QED BY InitInv, StepInv, PTL DEF Spec

-----------------------------------------------------------------------------
(* The properties *)

LEMMA Implied ==
    ASSUME IInv
    PROVE  RecordsReadBack /\ ReadsAreOwn /\ NothingForeign /\ UnsavedIsReachable
<1>1. RecordsReadBack
  BY ReadsBack DEF IInv
<1>2. ASSUME NEW k \in 1..made, ~node[k].dirty, node[k].data # Nil
      PROVE  node[k].id # NoId /\ Honest(node[k].id, node[k].data)
             /\ KeptApart(node[k].id, node[k].data)
  <2>1. k \in Nodes /\ k <= made /\ node[k] \in File
    BY Bounds DEF IInv, TypeOK, Nodes
  <2>2. node[k].id # NoId /\ node[k].id \in Uploads /\ node[k].data \in Texts
    BY <1>2, <2>1 DEF IInv, FileInv, File
  <2> QED BY <1>2, <2>1, <2>2 DEF IInv, Held, Genuine
<1>3. ASSUME NEW r \in Uploads, cache[r] # Nil
      PROVE  Honest(r, cache[r]) /\ KeptApart(r, cache[r])
  BY <1>3 DEF IInv, TypeOK, Cached, Genuine
<1>4. UnsavedIsReachable
  <2> SUFFICES ASSUME NEW k \in known, entries[node[k].name] # k
               PROVE  RecordsOf(node[k].name) # {}
    BY DEF UnsavedIsReachable
  <2>1. k \in Nodes /\ k <= made
    BY Bounds DEF IInv, TypeOK, Nodes
  <2> QED BY <2>1 DEF IInv, FileInv, RecordsOf
<1> QED BY <1>1, <1>2, <1>3, <1>4 DEF ReadsAreOwn, NothingForeign

\* All variables keep their types, at any number of requests, inodes, uploads
\* and chunks.
THEOREM TypeCorrect == Spec => []TypeOK
<1>1. IInv => TypeOK
  BY DEF IInv
<1> QED BY <1>1, Inductive, PTL

\* What a record lists is stored, but for what Close took from an answer with an
\* index that nobody asked for; and it is what was uploaded for it, while no other
\* upload was given its paths and the URLs were in order, each once.
THEOREM RecordsAreComplete == Spec => []RecordsReadBack
<1>1. IInv => RecordsReadBack
  BY Implied
<1> QED BY <1>1, Inductive, PTL

\* A clean file and the disk cache hold what was uploaded for their record, chunk
\* by chunk, or the body of an error answer; and the end may be missing of what a
\* kill or a full disk cut short.
THEOREM ReadsAreHonest == Spec => []ReadsAreOwn
<1>1. IInv => ReadsAreOwn
  BY Implied
<1> QED BY <1>1, Inductive, PTL

\* Without the local encryptor no reader of one record is shown the text of
\* another, whatever paths they share; with it, one whole text or its beginning.
THEOREM NoForeignText == Spec => []NothingForeign
<1>1. IInv => NothingForeign
  BY Implied
<1> QED BY <1>1, Inductive, PTL

\* A file with unsaved Writes keeps its name, unless a record has it.
THEOREM UnsavedKeepsItsName == Spec => []UnsavedIsReachable
<1>1. IInv => UnsavedIsReachable
  BY Implied
<1> QED BY <1>1, Inductive, PTL

-----------------------------------------------------------------------------
(* The archive *)

LEMMA AnyStepOfStore == IInv /\ [Next]_vars => StoreStep
<1> SUFFICES ASSUME IInv, [Next]_vars PROVE StoreStep
  OBVIOUS
<1>1. CASE UNCHANGED vars
  BY <1>1 DEF vars, storeVars, StoreStep
<1>2. CASE Next
  BY <1>2, StepOfStore
<1> QED BY <1>1, <1>2

LEMMA OwnInvStep == IInv /\ OwnInv /\ [Next]_vars => OwnInv'
<1> SUFFICES ASSUME IInv, OwnInv, [Next]_vars PROVE OwnInv'
  OBVIOUS
<1>1. StoreInv /\ StoreStep
  BY AnyStepOfStore DEF IInv
<1>2. Kept
  BY <1>1, StoreKeepsInv
<1> QED BY <1>1, <1>2, OwnKept

\* A record at places of its own reads back as what was uploaded for it, from
\* the moment it is made and for ever.
THEOREM KeepsTexts == Spec => ActsAsArchive
<1>1. Init => OwnInv /\ Books!KInit
  BY OwnInit, ArchiveInit DEF Init
<1>2. IInv /\ OwnInv /\ [Next]_vars => OwnInv'
  BY OwnInvStep
<1>3. IInv /\ OwnInv /\ [Next]_vars =>
         [Books!KNext]_<<[u \in Uploads |-> up[u].text],
                         [r \in Uploads |-> IF Private(r) THEN Readable(r) ELSE {}]>>
  <2> SUFFICES ASSUME IInv, OwnInv, [Next]_vars
               PROVE  [Books!KNext]_<<[u \in Uploads |-> up[u].text],
                                      [r \in Uploads |-> IF Private(r) THEN Readable(r) ELSE {}]>>
    OBVIOUS
  <2>1. StoreInv /\ StoreStep
    BY AnyStepOfStore DEF IInv
  <2> QED BY <2>1, ArchiveStep
<1> QED BY <1>1, <1>2, <1>3, Inductive, PTL DEF Spec, ActsAsArchive, Books!KSpec

=============================================================================
