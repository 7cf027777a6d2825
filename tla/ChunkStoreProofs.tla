-------------------------- MODULE ChunkStoreProofs --------------------------
(***************************************************************************)
(* What any steps of any number of uploads keep of the storage and of the  *)
(* records, for all values of the constants, and that RecordsReadBack      *)
(* follows from it.                                                        *)
(***************************************************************************)
EXTENDS ChunkStore, TLAPS

\* The types, without the contents of the clients.
StoreTypes ==
    /\ env \in Environments
    /\ up \in [Uploads -> Job]
    /\ started \in 0..MaxUploads
    /\ store \in [Path -> Sealed \union {Nil}]
    /\ records \in [Uploads -> Record \union {Nil}]
    /\ granted \in [Path -> SUBSET Uploads]

\* An upload that has not begun has no text; one that has not ended no record;
\* with the local encryptor all of the mount's are sealed as a whole.
UploadInv ==
    \A u \in Uploads :
        /\ u > started => up[u].pc = "none"
        /\ up[u].local => up[u].pc # "none" /\ env.local
        /\ up[u].pc # "none" => up[u].text \in Texts
        /\ up[u].pc \in {"none", "urls", "put"} => records[u] = Nil

\* While the PUTs run: the URLs are granted, and where a PUT is over and none
\* has failed there is an object.
PutInv ==
    \A u \in Uploads : up[u].pc = "put" =>
        /\ up[u].todo \subseteq Listed(u)
        /\ \A i \in Listed(u) :
              /\ u \in granted[PathOf(u, i)]
              /\ ~up[u].failed /\ i \in Chunks \ up[u].todo => store[PathOf(u, i)] # Nil

\* An object was put by an upload that was given its path, and is the chunk
\* that the path is for.
ObjectInv ==
    \A q \in Path : store[q] # Nil => store[q].by \in granted[q] /\ store[q].part = q[2]

\* What is recorded is stored, but for an index that nobody asked for; upload keeps
\* the order.
RecordInv ==
    \A r \in Uploads : records[r] # Nil =>
        \A i \in Chunks : /\ records[r].chunks[i][2] \in Chunks =>
                                store[records[r].chunks[i]] # Nil
                          /\ up[r].front = "fuse" => records[r].chunks[i][2] = i

StoreInv == StoreTypes /\ UploadInv /\ PutInv /\ ObjectInv /\ RecordInv

-----------------------------------------------------------------------------
(* Uploads and paths *)

LEMMA Constants ==
    /\ MaxUploads \in Nat /\ NumChunks \in Nat \ {0}
    /\ Nil \notin Sealed /\ Nil \notin Texts /\ Nil \notin Record /\ Nil # ErrorBody
BY ConstantsAssumption, NilAssumption

LEMMA NoJobType == NoJob \in Job /\ NoJob.pc = "none" /\ NoJob.local = FALSE
<1>1. (CHOOSE n \in Names : TRUE) \in Names
  BY ConstantsAssumption
<1>2. <<>> \in Answers
  <2>1. <<>> \in [1..0 -> Indices] /\ 0 \in 0..NumChunks
    BY Constants
  <2> QED BY <2>1 DEF Answers
<1> QED BY <1>1, <1>2 DEF NoJob, Job, Places

LEMMA ListedType ==
    ASSUME StoreTypes, NEW u \in Uploads
    PROVE  Listed(u) \subseteq Indices
<1>1. up[u].answer \in Answers
  BY DEF StoreTypes, Job
<1>2. PICK n \in 0..NumChunks : up[u].answer \in [1..n -> Indices]
  BY <1>1 DEF Answers
<1> QED BY <1>2 DEF Listed

LEMMA PathType ==
    ASSUME StoreTypes, NEW u \in Uploads, NEW i \in Indices
    PROVE  PathOf(u, i) \in Path /\ PathOf(u, i)[2] = i
<1>1. up[u].name \in Names
  BY DEF StoreTypes, Job
<1> QED BY <1>1 DEF PathOf, Path

LEMMA Initially == StoreInit => StoreInv
<1> SUFFICES ASSUME StoreInit PROVE StoreInv
  OBVIOUS
<1>1. StoreTypes
  BY NoJobType, Constants DEF StoreInit, StoreTypes
<1>2. UploadInv
  BY NoJobType DEF StoreInit, UploadInv
<1>3. PutInv
  BY NoJobType DEF StoreInit, PutInv
<1>4. ObjectInv /\ RecordInv
  BY DEF StoreInit, ObjectInv, RecordInv
<1> QED BY <1>1, <1>2, <1>3, <1>4 DEF StoreInv

-----------------------------------------------------------------------------
(* What no step takes back *)

Kept ==
    /\ env' = env
    /\ \A q \in Path : granted[q] \subseteq granted'[q] /\ (store[q] # Nil => store'[q] # Nil)
    /\ \A r \in Uploads : records[r] # Nil => records'[r] = records[r]
    /\ \A u \in Uploads : up[u].pc # "none" =>
          /\ up'[u].pc # "none" /\ up'[u].text = up[u].text /\ up'[u].name = up[u].name
          /\ up'[u].front = up[u].front /\ up'[u].local = up[u].local

LEMMA OldRecord ==
    ASSUME StoreInv, Kept, NEW r \in Uploads, records[r] # Nil, NEW i \in Chunks
    PROVE  /\ records'[r].chunks[i][2] \in Chunks => store'[records'[r].chunks[i]] # Nil
           /\ up'[r].front = "fuse" => records'[r].chunks[i][2] = i
<1>1. records[r] \in Record /\ records[r].chunks[i] \in Path
  BY DEF StoreInv, StoreTypes, Record
<1>2. up[r].pc # "none"
  BY DEF StoreInv, UploadInv
<1> QED BY <1>1, <1>2 DEF Kept, StoreInv, RecordInv

\* An upload that a step does not touch.
LEMMA OtherPut ==
    ASSUME StoreInv, Kept, NEW u \in Uploads, up'[u] = up[u], up[u].pc = "put"
    PROVE  /\ up'[u].todo \subseteq Listed(u)'
           /\ \A i \in Listed(u)' :
                 /\ u \in granted'[PathOf(u, i)']
                 /\ ~up'[u].failed /\ i \in Chunks \ up'[u].todo => store'[PathOf(u, i)'] # Nil
<1>1. Listed(u)' = Listed(u) /\ \A i : PathOf(u, i)' = PathOf(u, i)
  BY DEF Listed, PathOf
<1>2. \A i \in Listed(u) : PathOf(u, i) \in Path
  BY ListedType, PathType DEF StoreInv
<1> QED BY <1>1, <1>2 DEF StoreInv, PutInv, Kept

\* What a complete upload lists.
LEMMA RecordMade ==
    ASSUME StoreInv, NEW u \in Uploads, AllPut(u), Complete(u), MakeRecord(u)
    PROVE  /\ records' = [records EXCEPT ![u] = records'[u]] /\ records'[u] \in Record
           /\ \A i \in Chunks : /\ records'[u].chunks[i][2] \in Chunks => store[records'[u].chunks[i]] # Nil
                                /\ up[u].front = "fuse" => records'[u].chunks[i][2] = i
<1>1. \A i \in Chunks :
         LET j == IF up[u].front = "fuse" THEN i ELSE up[u].answer[i] IN
         j \in Listed(u) /\ j \in Indices
  <2> TAKE i \in Chunks
  <2>1. CASE up[u].front = "fuse"
    BY <2>1 DEF Complete, Indices
  <2>2. CASE up[u].front # "fuse"
    <3>0. up[u].answer \in Answers
      BY DEF StoreInv, StoreTypes, Job
    <3>1. PICK n \in 0..NumChunks : up[u].answer \in [1..n -> Indices]
      BY <3>0 DEF Answers
    <3>2. n = NumChunks
      BY <2>2, <3>1, Constants DEF Complete
    <3> QED BY <2>2, <3>1, <3>2 DEF Listed, Chunks
  <2> QED BY <2>1, <2>2
<1>2. \A i \in Chunks : /\ ChunkList(u)[i] \in Path
                        /\ ChunkList(u)[i][2] \in Chunks => store[ChunkList(u)[i]] # Nil
                        /\ up[u].front = "fuse" => ChunkList(u)[i][2] = i
  BY <1>1, PathType DEF ChunkList, AllPut, Complete, StoreInv, PutInv
<1>3. up[u].name \in Names /\ ChunkList(u) \in [Chunks -> Path]
  BY <1>2 DEF ChunkList, StoreInv, StoreTypes, Job
<1> QED BY <1>2, <1>3 DEF MakeRecord, Record, StoreInv, StoreTypes

\* The ends of an upload.
LEMMA Ends ==
    ASSUME StoreInv, NEW u \in Uploads, NEW pc \in {"done", "failed"}, End(u, pc),
           up[u].pc \in {"urls", "put"},
           env' = env, started' = started, store' = store, granted' = granted,
           records' = records \/ (MakeRecord(u) /\ AllPut(u) /\ Complete(u))
    PROVE  StoreInv' /\ Kept
<1> USE Constants
<1>a. up \in [Uploads -> Job] /\ up[u] \in Job
  BY DEF StoreInv, StoreTypes
<1>b. up' = [up EXCEPT ![u] = [up[u] EXCEPT !.pc = pc, !.todo = {}, !.failed = FALSE,
                                        !.answer = <<>>, !.place = "own"]]
  BY <1>a DEF End
<1>c. up'[u] = [up[u] EXCEPT !.pc = pc, !.todo = {}, !.failed = FALSE,
                         !.answer = <<>>, !.place = "own"]
  BY <1>a, <1>b
<1>1. /\ up' = [up EXCEPT ![u] = up'[u]] /\ up'[u].pc = pc /\ up'[u].text = up[u].text
      /\ up'[u].name = up[u].name /\ up'[u].front = up[u].front /\ up'[u].local = up[u].local
  BY <1>a, <1>b, <1>c DEF Job
<1>2. up'[u] \in Job
  <2>1. <<>> \in Answers
    BY NoJobType DEF NoJob, Job
  <2> QED BY <2>1, <1>a, <1>c DEF Job, Places
<1>3. records[u] = Nil
  BY DEF StoreInv, UploadInv
<1>4. ASSUME records' # records
      PROVE  /\ records' = [records EXCEPT ![u] = records'[u]] /\ records'[u] \in Record
             /\ \A i \in Chunks : /\ records'[u].chunks[i][2] \in Chunks => store[records'[u].chunks[i]] # Nil
                                  /\ up[u].front = "fuse" => records'[u].chunks[i][2] = i
  BY <1>4, RecordMade
<1>5. Kept
  BY <1>1, <1>3, <1>4 DEF Kept, StoreInv, StoreTypes
<1>6. StoreTypes'
  BY <1>1, <1>2, <1>4 DEF StoreInv, StoreTypes
<1>7. UploadInv'
  BY <1>1, <1>4, <1>5 DEF StoreInv, StoreTypes, UploadInv
<1>8. PutInv'
  BY <1>1, <1>5, OtherPut DEF PutInv, StoreInv, StoreTypes
<1>9. ObjectInv'
  BY DEF StoreInv, ObjectInv
<1>10. RecordInv'
  <2> SUFFICES ASSUME NEW r \in Uploads, records'[r] # Nil, NEW i \in Chunks
               PROVE  /\ records'[r].chunks[i][2] \in Chunks => store'[records'[r].chunks[i]] # Nil
                      /\ up'[r].front = "fuse" => records'[r].chunks[i][2] = i
    BY DEF RecordInv
  <2>1. CASE records[r] # Nil
    BY <2>1, <1>5, OldRecord
  <2>2. CASE records[r] = Nil
    <3>1. r = u /\ records' # records
      BY <2>2, <1>4 DEF StoreInv, StoreTypes
    <3>2. up'[r].front = up[u].front
      BY <3>1, <1>1
    <3>3. \A j \in Chunks : /\ records'[u].chunks[j][2] \in Chunks => store[records'[u].chunks[j]] # Nil
                            /\ up[u].front = "fuse" => records'[u].chunks[j][2] = j
      BY <3>1, <1>4
    <3> QED BY <3>1, <3>2, <3>3
  <2> QED BY <2>1, <2>2
<1> QED BY <1>5, <1>6, <1>7, <1>8, <1>9, <1>10 DEF StoreInv

\* A step that touches one upload and no record.
LEMMA OneUpload ==
    ASSUME StoreInv, NEW u \in Uploads, NEW job \in Job, up' = [up EXCEPT ![u] = job],
           job.pc # "none", started' \in 0..MaxUploads, started' >= started, u <= started',
           up[u].pc # "none" => /\ job.text = up[u].text /\ job.name = up[u].name
                                /\ job.front = up[u].front /\ job.local = up[u].local,
           up[u].pc = "none" => (job.local => env.local),
           job.text \in Texts, records[u] = Nil, records' = records, env' = env,
           store' \in [Path -> Sealed \union {Nil}], granted' \in [Path -> SUBSET Uploads],
           \A q \in Path : granted[q] \subseteq granted'[q] /\ (store[q] # Nil => store'[q] # Nil)
    PROVE  Kept /\ StoreTypes' /\ UploadInv' /\ RecordInv'
<1> USE Constants
<1>1. up'[u] = job /\ \A v \in Uploads : v # u => up'[v] = up[v]
  BY DEF StoreInv, StoreTypes
<1>2. Kept
  BY <1>1 DEF Kept
<1>3. StoreTypes'
  BY DEF StoreInv, StoreTypes
<1>4. UploadInv'
  BY <1>1 DEF StoreInv, StoreTypes, UploadInv, Uploads
<1>5. RecordInv'
  <2> SUFFICES ASSUME NEW r \in Uploads, records'[r] # Nil, NEW i \in Chunks
               PROVE  /\ records'[r].chunks[i][2] \in Chunks => store'[records'[r].chunks[i]] # Nil
                      /\ up'[r].front = "fuse" => records'[r].chunks[i][2] = i
    BY DEF RecordInv
  <2> QED BY <1>2, OldRecord
<1> QED BY <1>2, <1>3, <1>4, <1>5

LEMMA Starts ==
    ASSUME StoreInv, NEW front \in {"fuse", "webdav"}, NEW name \in Names, NEW text \in Texts,
           NEW local \in BOOLEAN, local => env.local, Start(front, name, text, local)
    PROVE  StoreInv' /\ Kept
<1> DEFINE u == started + 1
           job == [NoJob EXCEPT !.pc = "urls", !.front = front, !.name = name,
                                !.text = text, !.local = local]
<1>1. started \in 0..MaxUploads /\ u \in Uploads /\ up' = [up EXCEPT ![u] = job]
  BY Constants DEF Start, StoreInv, StoreTypes, Uploads
<1>2. job \in Job /\ job.pc = "urls" /\ job.text = text /\ job.local = local
  BY NoJobType DEF Job
<1>3. up[u].pc = "none" /\ records[u] = Nil
  BY <1>1 DEF StoreInv, UploadInv
<1>4. started' = u /\ started' \in 0..MaxUploads /\ started' >= started
  BY <1>1, Constants DEF Start, Uploads
<1>5. UNCHANGED <<env, store, records, granted>>
  BY DEF Start
<1> HIDE DEF job
<1>6. Kept /\ StoreTypes' /\ UploadInv' /\ RecordInv'
  BY <1>1, <1>2, <1>3, <1>4, <1>5, OneUpload, u <= u DEF StoreInv, StoreTypes
<1>7. PutInv'
  BY <1>1, <1>2, <1>6, OtherPut DEF PutInv, StoreInv, StoreTypes
<1>8. ObjectInv'
  BY <1>5 DEF StoreInv, ObjectInv
<1> QED BY <1>6, <1>7, <1>8 DEF StoreInv

\* A PUT that is over, with or without a trace.
LEMMA OnePut ==
    ASSUME StoreInv, NEW u \in Uploads, NEW i \in up[u].todo, up[u].pc = "put",
           NEW failed \in BOOLEAN, up[u].failed => failed,
           up' = [up EXCEPT ![u] = [up[u] EXCEPT !.todo = @ \ {i}, !.failed = failed]],
           \/ store' = [store EXCEPT ![PathOf(u, i)] = [by |-> u, part |-> i]]
           \/ failed /\ store' = store,
           UNCHANGED <<env, started, records, granted>>
    PROVE  StoreInv' /\ Kept
<1> DEFINE job == [up[u] EXCEPT !.todo = @ \ {i}, !.failed = failed]
<1> USE Constants
<1>1. up[u] \in Job /\ i \in Listed(u) /\ i \in Chunks /\ i \in Indices
  BY ListedType DEF Job, Indices, StoreInv, StoreTypes, PutInv
<1>2. /\ job \in Job /\ job.pc = "put" /\ job.text = up[u].text /\ job.name = up[u].name
      /\ job.front = up[u].front /\ job.local = up[u].local /\ job.answer = up[u].answer
      /\ job.place = up[u].place /\ job.todo = up[u].todo \ {i} /\ job.failed = failed
  BY <1>1 DEF Job
<1>3. PathOf(u, i) \in Path /\ PathOf(u, i)[2] = i /\ u \in granted[PathOf(u, i)]
  BY <1>1, PathType DEF StoreInv, PutInv
<1>4. [by |-> u, part |-> i] \in Sealed
  BY <1>1 DEF Sealed
<1>5. /\ store' \in [Path -> Sealed \union {Nil}]
      /\ \A q \in Path : store[q] # Nil => store'[q] # Nil
  BY <1>3, <1>4 DEF StoreInv, StoreTypes
<1>6. records[u] = Nil /\ up[u].text \in Texts /\ u <= started
  BY DEF StoreInv, UploadInv, StoreTypes, Uploads
<1> HIDE DEF job
<1>7. Kept /\ StoreTypes' /\ UploadInv' /\ RecordInv'
  <2>1. started' \in 0..MaxUploads /\ started' >= started /\ u <= started'
    BY <1>6 DEF StoreInv, StoreTypes
  <2> QED BY <2>1, <1>2, <1>5, <1>6, OneUpload DEF StoreInv, StoreTypes, job
<1>8. PutInv'
  <2>1. ASSUME NEW v \in Uploads, v # u, up'[v].pc = "put"
        PROVE  /\ up'[v].todo \subseteq Listed(v)'
               /\ \A k \in Listed(v)' :
                     /\ v \in granted'[PathOf(v, k)']
                     /\ ~up'[v].failed /\ k \in Chunks \ up'[v].todo => store'[PathOf(v, k)'] # Nil
    <3>1. up'[v] = up[v]
      BY <2>1 DEF StoreInv, StoreTypes
    <3> QED BY <2>1, <3>1, <1>7, OtherPut
  <2>2. up'[u] = job
    BY DEF StoreInv, StoreTypes, job
  <2>3. Listed(u)' = Listed(u) /\ \A k : PathOf(u, k)' = PathOf(u, k)
    BY <2>2, <1>2 DEF Listed, PathOf
  <2>4. \A k \in Listed(u) : PathOf(u, k) \in Path
    BY ListedType, PathType DEF StoreInv
  <2>5. ~failed => store' = [store EXCEPT ![PathOf(u, i)] = [by |-> u, part |-> i]]
    OBVIOUS
  <2>6. ~failed => store'[PathOf(u, i)] # Nil
    BY <2>5, <1>3, <1>4 DEF StoreInv, StoreTypes
  <2>7. /\ up'[u].todo \subseteq Listed(u)'
        /\ \A k \in Listed(u)' :
              /\ u \in granted'[PathOf(u, k)']
              /\ ~up'[u].failed /\ k \in Chunks \ up'[u].todo => store'[PathOf(u, k)'] # Nil
    BY <2>2, <2>3, <2>4, <2>6, <1>2, <1>5 DEF StoreInv, PutInv
  <2> QED BY <2>1, <2>7 DEF PutInv
<1>9. ObjectInv'
  BY <1>1, <1>3 DEF StoreInv, StoreTypes, ObjectInv
<1> QED BY <1>7, <1>8, <1>9 DEF StoreInv

LEMMA Grants ==
    ASSUME StoreInv, NEW u \in Uploads, GetUploadURLs(u)
    PROVE  StoreInv' /\ Kept
<1> USE Constants
<1>1. up[u] \in Job /\ up[u].pc = "urls"
  BY DEF GetUploadURLs, StoreInv, StoreTypes
<1>2. PICK a \in Answers, pl \in env.places :
         LET job   == [up[u] EXCEPT !.pc = "put", !.answer = a, !.place = pl,
                                    !.todo = {a[j] : j \in DOMAIN a} \ {Stray}]
             given == {IF pl = "asked" THEN <<job.name, a[j]>> ELSE <<u, a[j]>> : j \in DOMAIN a}
         IN /\ up' = [up EXCEPT ![u] = job]
            /\ granted' = [q \in Path |-> IF q \in given THEN granted[q] \union {u}
                                                          ELSE granted[q]]
  BY DEF GetUploadURLs
<1> DEFINE all  == {a[j] : j \in DOMAIN a}
           todo == all \ {Stray}
           job  == [up[u] EXCEPT !.pc = "put", !.answer = a, !.place = pl, !.todo = todo]
           given == {IF pl = "asked" THEN <<job.name, a[j]>> ELSE <<u, a[j]>> : j \in DOMAIN a}
<1>3. all \subseteq Indices /\ todo \subseteq Chunks
  <2>1. PICK n \in 0..NumChunks : a \in [1..n -> Indices]
    BY DEF Answers
  <2> QED BY <2>1 DEF Indices
<1>4. pl \in Places
  BY ConstantsAssumption DEF StoreInv, StoreTypes
<1>5. /\ job \in Job /\ job.pc = "put" /\ job.text = up[u].text /\ job.name = up[u].name
      /\ job.front = up[u].front /\ job.local = up[u].local /\ job.answer = a
      /\ job.place = pl /\ job.todo = todo /\ job.failed = up[u].failed
  BY <1>1, <1>3, <1>4 DEF Job
<1>6. /\ granted' = [q \in Path |-> IF q \in given THEN granted[q] \union {u} ELSE granted[q]]
      /\ up' = [up EXCEPT ![u] = job]
  BY <1>2
<1>7. UNCHANGED <<env, started, store, records>>
  BY DEF GetUploadURLs
<1>8. records[u] = Nil /\ up[u].text \in Texts /\ u <= started
  BY <1>1 DEF StoreInv, UploadInv, StoreTypes, Uploads
<1>9. /\ granted' \in [Path -> SUBSET Uploads]
      /\ \A q \in Path : granted[q] \subseteq granted'[q]
  BY <1>6 DEF StoreInv, StoreTypes
<1>10. up'[u] = job
  BY <1>6 DEF StoreInv, StoreTypes
<1>11. \A i \in all : PathOf(u, i)' \in given /\ PathOf(u, i)' \in Path
  <2> TAKE i \in all
  <2>1. up'[u].place = pl /\ up'[u].name = job.name /\ job.name \in Names
    BY <1>1, <1>5, <1>10 DEF Job
  <2>2. PathOf(u, i)' = IF pl = "asked" THEN <<job.name, i>> ELSE <<u, i>>
    BY <2>1 DEF PathOf
  <2> HIDE DEF job
  <2>3. PathOf(u, i)' \in given
    BY <2>1, <2>2
  <2> QED BY <2>1, <2>2, <2>3, <1>3 DEF Path
<1>12. Listed(u)' = all /\ todo \subseteq all /\ all \ todo \subseteq {Stray} /\ Stray \notin Chunks
  BY <1>5, <1>10 DEF Listed, Stray, Chunks
<1> HIDE DEF job, given, todo, all
<1>13. Kept /\ StoreTypes' /\ UploadInv' /\ RecordInv'
  <2>1. started' \in 0..MaxUploads /\ started' >= started /\ u <= started'
    BY <1>7, <1>8 DEF StoreInv, StoreTypes
  <2> QED BY <2>1, <1>1, <1>5, <1>6, <1>7, <1>8, <1>9, OneUpload DEF StoreInv, StoreTypes
<1>14. PutInv'
  <2>1. ASSUME NEW v \in Uploads, v # u, up'[v].pc = "put"
        PROVE  /\ up'[v].todo \subseteq Listed(v)'
               /\ \A k \in Listed(v)' :
                     /\ v \in granted'[PathOf(v, k)']
                     /\ ~up'[v].failed /\ k \in Chunks \ up'[v].todo => store'[PathOf(v, k)'] # Nil
    <3>1. up'[v] = up[v]
      BY <2>1, <1>6 DEF StoreInv, StoreTypes
    <3> QED BY <2>1, <3>1, <1>13, OtherPut
  <2>2. /\ up'[u].todo \subseteq Listed(u)'
        /\ \A k \in Listed(u)' :
              /\ u \in granted'[PathOf(u, k)']
              /\ ~up'[u].failed /\ k \in Chunks \ up'[u].todo => store'[PathOf(u, k)'] # Nil
    BY <1>5, <1>6, <1>10, <1>11, <1>12
  <2> QED BY <2>1, <2>2 DEF PutInv
<1>15. ObjectInv'
  BY <1>7, <1>9 DEF StoreInv, StoreTypes, ObjectInv
<1> QED BY <1>13, <1>14, <1>15 DEF StoreInv

LEMMA CutJob ==
    ASSUME NEW j \in Job, NEW k,
           k = [j EXCEPT !.pc = "failed", !.todo = {}, !.failed = FALSE,
                         !.place = "own", !.answer = <<>>]
    PROVE  /\ k \in Job /\ k.pc = "failed" /\ k.text = j.text /\ k.name = j.name
           /\ k.front = j.front /\ k.local = j.local
<1>1. <<>> \in Answers
  BY NoJobType DEF NoJob, Job
<1> QED BY <1>1 DEF Job, Places

LEMMA Cuts ==
    ASSUME StoreInv, NEW front, Cut(front)
    PROVE  StoreInv' /\ Kept
<1> USE Constants
<1>2. UNCHANGED <<env, started, store, records, granted>>
  BY DEF Cut
<1>3. up' \in [Uploads -> Job] /\ \A u \in Uploads :
         \/ up'[u] = up[u]
         \/ /\ up[u].pc \in {"urls", "put"} /\ up'[u].pc = "failed"
            /\ up'[u].text = up[u].text /\ up'[u].name = up[u].name
            /\ up'[u].front = up[u].front /\ up'[u].local = up[u].local
  <2>1. \A u \in Uploads : up[u] \in Job
    BY DEF StoreInv, StoreTypes
  <2>2. ASSUME NEW u \in Uploads, up'[u] # up[u]
        PROVE  /\ up[u].pc \in {"urls", "put"}
               /\ up'[u] = [up[u] EXCEPT !.pc = "failed", !.todo = {}, !.failed = FALSE,
                                         !.place = "own", !.answer = <<>>]
    BY <2>2 DEF Cut
  <2>3. ASSUME NEW u \in Uploads, up'[u] # up[u]
        PROVE  /\ up'[u] \in Job
               /\ up[u].pc \in {"urls", "put"} /\ up'[u].pc = "failed"
               /\ up'[u].text = up[u].text /\ up'[u].name = up[u].name
               /\ up'[u].front = up[u].front /\ up'[u].local = up[u].local
    <3>1. up[u] \in Job
      BY <2>1
    <3>2. up'[u] = [up[u] EXCEPT !.pc = "failed", !.todo = {}, !.failed = FALSE,
                                !.place = "own", !.answer = <<>>]
      BY <2>2, <2>3
    <3>3. /\ up'[u] \in Job /\ up'[u].pc = "failed" /\ up'[u].text = up[u].text
          /\ up'[u].name = up[u].name /\ up'[u].front = up[u].front
          /\ up'[u].local = up[u].local
      BY <3>1, <3>2, CutJob
    <3> QED BY <3>3, <2>2, <2>3
  <2>4. \A u \in Uploads : up'[u] \in Job
    BY <2>1, <2>3
  <2>5. up' \in [Uploads -> Job]
    BY <2>4 DEF Cut
  <2> QED BY <2>3, <2>5
<1>4. Kept
  BY <1>2, <1>3 DEF Kept
<1>5. StoreTypes'
  BY <1>2, <1>3 DEF StoreInv, StoreTypes
<1>6. UploadInv'
  BY <1>2, <1>3 DEF StoreInv, UploadInv
<1>7. PutInv'
  BY <1>3, <1>4, OtherPut DEF PutInv
<1>8. ObjectInv'
  BY <1>2 DEF StoreInv, ObjectInv
<1>9. RecordInv'
  <2> SUFFICES ASSUME NEW r \in Uploads, records'[r] # Nil, NEW i \in Chunks
               PROVE  /\ records'[r].chunks[i][2] \in Chunks => store'[records'[r].chunks[i]] # Nil
                      /\ up'[r].front = "fuse" => records'[r].chunks[i][2] = i
    BY DEF RecordInv
  <2> QED BY <1>2, <1>4, OldRecord
<1> QED BY <1>4, <1>5, <1>6, <1>7, <1>8, <1>9 DEF StoreInv

-----------------------------------------------------------------------------
(* All steps *)

\* All that happens to the store, whoever uploads.
StoreStep ==
    \/ UNCHANGED <<env, up, started, store, records, granted>>
    \/ \E front \in {"fuse", "webdav"}, name \in Names, text \in Texts, local \in BOOLEAN :
          (local => env.local) /\ Start(front, name, text, local)
    \/ \E u \in Uploads : \/ GetUploadURLs(u)
                          \/ \E i \in Chunks : Put(u, i) \/ PutFails(u, i)
                          \/ CreateFileRecord(u) \/ UploadFails(u)
                          \/ NilRecord(u) /\ Abandon(u)
    \/ \E front \in {"fuse", "webdav"} : Cut(front)

LEMMA Puts ==
    ASSUME StoreInv, NEW u \in Uploads, NEW i \in Chunks, Put(u, i) \/ PutFails(u, i)
    PROVE  StoreInv' /\ Kept
<1>1. up[u] \in Job /\ up \in [Uploads -> Job] /\ i \in up[u].todo /\ up[u].pc = "put"
  BY DEF StoreInv, StoreTypes, Put, PutFails
<1>2. UNCHANGED <<env, started, records, granted>>
  BY DEF Put, PutFails
<1>3. CASE Put(u, i)
  <2>1. up' = [up EXCEPT ![u] = [up[u] EXCEPT !.todo = @ \ {i}, !.failed = up[u].failed]]
    BY <1>1, <1>3 DEF Put, Job
  <2> QED BY <1>1, <1>2, <1>3, <2>1, OnePut DEF Put, Job
<1>4. CASE PutFails(u, i)
  <2>1. up' = [up EXCEPT ![u] = [up[u] EXCEPT !.todo = @ \ {i}, !.failed = TRUE]]
    BY <1>1, <1>4 DEF PutFails, Job
  <2> QED BY <1>1, <1>2, <1>4, <2>1, OnePut DEF PutFails
<1> QED BY <1>3, <1>4

LEMMA Finishes ==
    ASSUME StoreInv, NEW u \in Uploads,
           CreateFileRecord(u) \/ UploadFails(u) \/ (NilRecord(u) /\ Abandon(u))
    PROVE  StoreInv' /\ Kept
<1>1. CASE CreateFileRecord(u)
  BY <1>1, Ends DEF CreateFileRecord, AllPut
<1>2. CASE UploadFails(u)
  BY <1>2, Ends DEF UploadFails, AllPut
<1>3. CASE NilRecord(u) /\ Abandon(u)
  BY <1>3, Ends DEF NilRecord, Abandon, AllPut
<1> QED BY <1>1, <1>2, <1>3

\* The storage and the records: an object lies only where its upload was given
\* a path, a record lists only objects - but for an index that nobody asked for,
\* which only Close takes - and nothing is taken back by a step.
THEOREM StoreKeepsInv == StoreInv /\ StoreStep => StoreInv' /\ Kept
<1> SUFFICES ASSUME StoreInv, StoreStep PROVE StoreInv' /\ Kept
  OBVIOUS
<1>1. CASE UNCHANGED <<env, up, started, store, records, granted>>
  BY <1>1 DEF StoreInv, StoreTypes, UploadInv, PutInv, ObjectInv, RecordInv, Kept, Listed, PathOf
<1>2. CASE \E front \in {"fuse", "webdav"}, name \in Names, text \in Texts, local \in BOOLEAN :
             (local => env.local) /\ Start(front, name, text, local)
  BY <1>2, Starts
<1>3. CASE \E u \in Uploads : GetUploadURLs(u)
  BY <1>3, Grants
<1>4. CASE \E u \in Uploads, i \in Chunks : Put(u, i) \/ PutFails(u, i)
  BY <1>4, Puts
<1>5. CASE \E u \in Uploads :
             CreateFileRecord(u) \/ UploadFails(u) \/ (NilRecord(u) /\ Abandon(u))
  BY <1>5, Finishes
<1>6. CASE \E front \in {"fuse", "webdav"} : Cut(front)
  BY <1>6, Cuts
<1> QED BY <1>1, <1>2, <1>3, <1>4, <1>5, <1>6 DEF StoreStep

\* The object at an exclusive path of a record is a chunk of that record.
LEMMA ReadsBack == StoreInv => RecordsReadBack
<1> SUFFICES ASSUME StoreInv, NEW r \in Uploads, records[r] # Nil, NEW i \in Chunks
             PROVE  /\ \/ store[records[r].chunks[i]] # Nil
                       \/ up[r].front = "webdav" /\ records[r].chunks[i][2] = Stray
                    /\ Exclusive(r) /\ Ordered(r) =>
                           store[records[r].chunks[i]] = [by |-> r, part |-> i]
  BY DEF RecordsReadBack
<1> DEFINE q == records[r].chunks[i]
<1>1. q \in Path
  BY DEF StoreInv, StoreTypes, Record
<1>2. q[2] \in Indices /\ up[r].front \in {"fuse", "webdav"}
  BY <1>1 DEF Path, StoreInv, StoreTypes, Job
<1>3. q[2] \in Chunks => store[q] # Nil /\ store[q] \in Sealed
                         /\ store[q].by \in granted[q] /\ store[q].part = q[2]
  BY <1>1 DEF StoreInv, StoreTypes, RecordInv, ObjectInv
<1>4. up[r].front = "fuse" => q[2] = i
  BY DEF StoreInv, RecordInv
<1>5. ASSUME Exclusive(r), Ordered(r)
      PROVE  store[q] = [by |-> r, part |-> i]
  <2>1. q[2] = i
    BY <1>2, <1>4, <1>5 DEF Ordered
  <2>2. store[q] \in Sealed /\ store[q].by = r /\ store[q].part = i
    BY <1>3, <1>5, <2>1 DEF Exclusive
  <2> QED BY <2>2 DEF Sealed
<1> QED BY <1>2, <1>3, <1>4, <1>5 DEF Indices

-----------------------------------------------------------------------------
(* The archive *)

\* The bridge gives no upload the place of another; and what has not begun has
\* no text.
OwnInv ==
    /\ \A u, v \in Uploads, i \in Chunks : v \in granted[<<u, i>>] => v = u
    /\ \A u \in Uploads : up[u].pc = "none" => up[u].text = Nil

\* What a step does to the texts and to the records.
TextsStay == \A r \in Uploads : up'[r].text = up[r].text

HandsIn(u) ==
    /\ up[u].pc = "none" /\ up'[u].pc # "none" /\ up'[u].text \in Texts
    /\ \A r \in Uploads : r # u => up'[r].text = up[r].text

Records(u) ==
    /\ records[u] = Nil /\ up[u].pc # "none"
    /\ \A r \in Uploads : r # u => records'[r] = records[r]

LEMMA OwnInit == StoreInit => OwnInv
<1> SUFFICES ASSUME StoreInit PROVE OwnInv
  OBVIOUS
<1>1. \A u \in Uploads, i \in Chunks : <<u, i>> \in Path
  BY DEF Path, Indices
<1>2. \A u \in Uploads : up[u].text = Nil
  BY DEF StoreInit, NoJob
<1> QED BY <1>1, <1>2 DEF OwnInv, StoreInit

\* A step on one upload, whose text stays, and that makes no record.
LEMMA TextStays ==
    ASSUME StoreInv, NEW u \in Uploads, NEW job, up' = [up EXCEPT ![u] = job],
           job.text = up[u].text
    PROVE  TextsStay
BY DEF TextsStay, StoreInv, StoreTypes

LEMMA EndTexts ==
    ASSUME StoreInv, NEW u \in Uploads, NEW pc, End(u, pc)
    PROVE  TextsStay
<1>1. up \in [Uploads -> Job] /\ up[u] \in Job
  BY DEF StoreInv, StoreTypes
<1> DEFINE job == [up[u] EXCEPT !.pc = pc, !.todo = {}, !.failed = FALSE,
                                !.answer = <<>>, !.place = "own"]
<1>2. up' = [up EXCEPT ![u] = job]
  BY <1>1 DEF End
<1>3. job.text = up[u].text
  BY <1>1 DEF Job
<1> QED BY <1>2, <1>3, TextStays

LEMMA StepIs ==
    ASSUME StoreInv, StoreStep
    PROVE  \/ records' = records /\ TextsStay
           \/ records' = records /\ \E u \in Uploads : HandsIn(u)
           \/ TextsStay /\ \E u \in Uploads : Records(u)
<1>1. CASE UNCHANGED <<env, up, started, store, records, granted>>
  BY <1>1 DEF TextsStay
<1>2. ASSUME NEW front \in {"fuse", "webdav"}, NEW name \in Names, NEW text \in Texts,
             NEW local \in BOOLEAN, Start(front, name, text, local)
      PROVE  records' = records /\ \E u \in Uploads : HandsIn(u)
  <2> DEFINE job == [NoJob EXCEPT !.pc = "urls", !.front = front, !.name = name,
                                  !.text = text, !.local = local]
  <2>1. started + 1 \in Uploads /\ started + 1 > started
        /\ up' = [up EXCEPT ![started + 1] = job]
    BY <1>2, Constants DEF Start, StoreInv, StoreTypes, Uploads
  <2>2. job.pc = "urls" /\ job.text = text
    BY DEF NoJob
  <2> HIDE DEF job
  <2>3. up[started + 1].pc = "none"
    BY <2>1 DEF StoreInv, UploadInv
  <2>4. HandsIn(started + 1)
    BY <2>1, <2>2, <2>3 DEF HandsIn, StoreInv, StoreTypes
  <2> QED BY <1>2, <2>1, <2>4 DEF Start
<1>3. ASSUME NEW u \in Uploads, GetUploadURLs(u)
      PROVE  records' = records /\ TextsStay
  <2>1. up \in [Uploads -> Job] /\ up[u] \in Job
    BY DEF StoreInv, StoreTypes
  <2>2. PICK a \in Answers, pl \in env.places :
           up' = [up EXCEPT ![u] = [up[u] EXCEPT !.pc = "put", !.answer = a, !.place = pl,
                                                 !.todo = {a[j] : j \in DOMAIN a} \ {Stray}]]
    BY <1>3 DEF GetUploadURLs
  <2> DEFINE job == [up[u] EXCEPT !.pc = "put", !.answer = a, !.place = pl,
                                  !.todo = {a[j] : j \in DOMAIN a} \ {Stray}]
  <2>3. job.text = up[u].text /\ up' = [up EXCEPT ![u] = job]
    BY <2>1, <2>2 DEF Job
  <2> HIDE DEF job
  <2> QED BY <1>3, <2>3, TextStays DEF GetUploadURLs
<1>4. ASSUME NEW u \in Uploads, NEW i \in Chunks, Put(u, i) \/ PutFails(u, i)
      PROVE  records' = records /\ TextsStay
  <2>1. up \in [Uploads -> Job] /\ up[u] \in Job
    BY DEF StoreInv, StoreTypes
  <2>2. \/ up' = [up EXCEPT ![u] = [up[u] EXCEPT !.todo = @ \ {i}]]
        \/ up' = [up EXCEPT ![u] = [up[u] EXCEPT !.todo = @ \ {i}, !.failed = TRUE]]
    BY <1>4, <2>1 DEF Put, PutFails
  <2>3. /\ [up[u] EXCEPT !.todo = @ \ {i}].text = up[u].text
        /\ [up[u] EXCEPT !.todo = @ \ {i}, !.failed = TRUE].text = up[u].text
    BY <2>1 DEF Job
  <2>4. TextsStay
    BY <2>2, <2>3, TextStays
  <2> QED BY <1>4, <2>4 DEF Put, PutFails
<1>5. ASSUME NEW u \in Uploads,
             CreateFileRecord(u) \/ UploadFails(u) \/ (NilRecord(u) /\ Abandon(u))
      PROVE  TextsStay /\ (records' = records \/ Records(u))
  <2>1. TextsStay
    BY <1>5, EndTexts DEF CreateFileRecord, UploadFails, Abandon
  <2>2. records' = records \/ (MakeRecord(u) /\ up[u].pc = "put")
    BY <1>5 DEF CreateFileRecord, UploadFails, Abandon, AllPut
  <2>3. ASSUME MakeRecord(u), up[u].pc = "put" PROVE Records(u)
    <3>1. records[u] = Nil
      BY <2>3 DEF StoreInv, UploadInv
    <3> QED BY <2>3, <3>1 DEF Records, MakeRecord, StoreInv, StoreTypes
  <2> QED BY <2>1, <2>2, <2>3
<1>6. ASSUME NEW front, Cut(front)
      PROVE  records' = records /\ TextsStay
  <2>1. \A u \in Uploads : up'[u].text = up[u].text
    <3> TAKE u \in Uploads
    <3>1. up[u] \in Job
      BY DEF StoreInv, StoreTypes
    <3>2. \/ up'[u] = up[u]
          \/ up'[u] = [up[u] EXCEPT !.pc = "failed", !.todo = {}, !.failed = FALSE,
                                    !.place = "own", !.answer = <<>>]
      BY <1>6 DEF Cut
    <3> QED BY <3>1, <3>2, CutJob
  <2> QED BY <1>6, <2>1 DEF Cut, TextsStay
<1> QED BY <1>1, <1>2, <1>3, <1>4, <1>5, <1>6, StoreStep, Zenon DEF StoreStep

LEMMA OwnKept ==
    ASSUME StoreInv, OwnInv, StoreStep, Kept
    PROVE  OwnInv'
<1>1. \A u \in Uploads : up'[u].pc = "none" => up'[u].text = Nil
  <2> SUFFICES ASSUME NEW u \in Uploads, up'[u].pc = "none" PROVE up'[u].text = Nil
    OBVIOUS
  <2>1. up[u].pc = "none" /\ up[u].text = Nil
    BY DEF Kept, OwnInv
  <2>2. up'[u].text = up[u].text
    BY StepIs DEF TextsStay, HandsIn
  <2> QED BY <2>1, <2>2
<1>2. ASSUME NEW w \in Uploads, GetUploadURLs(w),
             NEW u \in Uploads, NEW v \in Uploads, NEW i \in Chunks, v \in granted'[<<u, i>>]
      PROVE  v = u
  <2>1. PICK a \in Answers, pl \in env.places :
         LET job   == [up[w] EXCEPT !.pc = "put", !.answer = a, !.place = pl,
                                    !.todo = {a[j] : j \in DOMAIN a} \ {Stray}]
             given == {IF pl = "asked" THEN <<job.name, a[j]>> ELSE <<w, a[j]>> : j \in DOMAIN a}
         IN granted' = [q \in Path |-> IF q \in given THEN granted[q] \union {w}
                                                       ELSE granted[q]]
    BY <1>2 DEF GetUploadURLs
  <2> DEFINE job   == [up[w] EXCEPT !.pc = "put", !.answer = a, !.place = pl,
                                    !.todo = {a[j] : j \in DOMAIN a} \ {Stray}]
             given == {IF pl = "asked" THEN <<job.name, a[j]>> ELSE <<w, a[j]>> : j \in DOMAIN a}
  <2>2. up[w] \in Job /\ job.name = up[w].name /\ up[w].name \in Names
    BY DEF StoreInv, StoreTypes, Job
  <2>3. granted' = [q \in Path |-> IF q \in given THEN granted[q] \union {w} ELSE granted[q]]
    BY <2>1
  <2>4. <<u, i>> \in given => u = w
    BY <2>2, PathAssumption
  <2> HIDE DEF given, job
  <2>5. <<u, i>> \in Path
    BY DEF Path, Indices
  <2> QED BY <1>2, <2>3, <2>4, <2>5 DEF OwnInv
<1>3. granted' = granted \/ \E w \in Uploads : GetUploadURLs(w)
  BY DEF StoreStep, Start, Put, PutFails, CreateFileRecord, UploadFails, Abandon, Cut
<1> QED BY <1>1, <1>2, <1>3 DEF OwnInv

\* At places of its own, the objects are the chunks of the record's upload.
LEMMA OwnObjects ==
    ASSUME StoreInv, OwnInv, NEW r \in Uploads, Private(r), NEW i \in Chunks
    PROVE  store[records[r].chunks[i]] = [by |-> r, part |-> i]
<1> DEFINE q == <<r, i>>
<1>1. records[r].chunks[i] = q /\ q \in Path /\ q[2] = i /\ records[r] # Nil
  BY DEF Private, Path, Indices
<1>2. store[q] # Nil /\ store[q] \in Sealed
  BY <1>1 DEF StoreInv, StoreTypes, RecordInv
<1>3. store[q].by \in granted[q] /\ store[q].part = i
  BY <1>1, <1>2 DEF StoreInv, ObjectInv
<1>4. store[q].by = r
  BY <1>2, <1>3 DEF OwnInv, Sealed
<1> QED BY <1>1, <1>2, <1>3, <1>4 DEF Sealed

LEMMA OwnText ==
    ASSUME StoreInv, OwnInv, NEW r \in Uploads, Private(r)
    PROVE  up[r].text \in Texts /\ Readable(r) = {up[r].text}
<1> DEFINE blobs == [i \in Chunks |-> [by |-> r, part |-> i]]
<1>1. up[r].text \in Texts
  <2>1. records[r] # Nil
    BY DEF Private
  <2> QED BY <2>1 DEF StoreInv, UploadInv
<1>2. \A i \in Chunks : /\ store[records[r].chunks[i]] = [by |-> r, part |-> i]
                        /\ [by |-> r, part |-> i] \in Sealed
                        /\ [by |-> r, part |-> i] # Nil
  BY OwnObjects, Constants DEF Sealed
<1>3. Readable(r) = Opened(r, blobs)
  <2>1. [i \in Chunks |-> LET object == store[records[r].chunks[i]]
                          IN  IF object = Nil THEN ErrorBody ELSE object] = blobs
    BY <1>2
  <2> QED BY <2>1 DEF Readable
<1>4. CASE up[r].local
  <2>1. r \in {v \in Uploads : up[v].local
                     /\ blobs = [i \in Chunks |-> [by |-> v, part |-> i]]}
    BY <1>4
  <2>2. 1 \in Chunks
    BY Constants DEF Chunks
  <2>3. ASSUME NEW v \in Uploads, blobs = [i \in Chunks |-> [by |-> v, part |-> i]]
        PROVE  v = r
    <3>1. blobs[1].by = r /\ [i \in Chunks |-> [by |-> v, part |-> i]][1].by = v
      BY <2>2
    <3> QED BY <2>3, <3>1
  <2> HIDE DEF blobs
  <2>4. OpenWhole(blobs) = {up[r].text}
    BY <2>1, <2>3 DEF OpenWhole
  <2> QED BY <1>1, <1>3, <1>4, <2>4 DEF Opened
<1>5. CASE ~up[r].local
  <2>1. \A i \in Chunks : OpenChunk(r, blobs[i]) = up[r].text[i]
    <3> TAKE i \in Chunks
    <3>1. blobs[i] = [by |-> r, part |-> i] /\ blobs[i].by = r /\ blobs[i].part = i
      OBVIOUS
    <3>2. "by" \in DOMAIN blobs[i] /\ "by" \notin DOMAIN ErrorBody
      BY DEF ErrorBody
    <3>3. blobs[i] # ErrorBody
      BY <3>2
    <3> QED BY <3>1, <3>3 DEF OpenChunk
  <2> HIDE DEF blobs
  <2>2. [i \in Chunks |-> OpenChunk(r, blobs[i])] = up[r].text
    BY <1>1, <2>1 DEF Texts
  <2> QED BY <1>1, <1>3, <1>5, <2>2 DEF Opened
<1> QED BY <1>4, <1>5

\* What the archive has kept, told without the objects.
LEMMA KeptTexts ==
    ASSUME StoreInv, OwnInv, NEW r \in Uploads
    PROVE  (IF Private(r) THEN Readable(r) ELSE {}) = IF Private(r) THEN {up[r].text} ELSE {}
BY OwnText

\* The archive as the texts and the records show it.
Given == [u \in Uploads |-> up[u].text]
Safe  == [r \in Uploads |-> IF Private(r) THEN {up[r].text} ELSE {}]

LEMMA BooksAre ==
    StoreInv /\ OwnInv =>
        [r \in Uploads |-> IF Private(r) THEN Readable(r) ELSE {}] = Safe
<1> SUFFICES ASSUME StoreInv, OwnInv
             PROVE  [r \in Uploads |-> IF Private(r) THEN Readable(r) ELSE {}] = Safe
  OBVIOUS
<1>1. \A r \in Uploads : (IF Private(r) THEN Readable(r) ELSE {})
                         = IF Private(r) THEN {up[r].text} ELSE {}
  BY KeptTexts
<1> QED BY <1>1 DEF Safe

LEMMA ArchiveInit == StoreInit => Books!KInit
<1> SUFFICES ASSUME StoreInit PROVE Books!KInit
  OBVIOUS
<1>1. \A u \in Uploads : up[u].text = Nil /\ ~Private(u)
  BY DEF StoreInit, NoJob, Private
<1> QED BY <1>1 DEF Books!KInit

\* What was kept is still kept.
LEMMA SafeStays ==
    ASSUME StoreInv, Kept, NEW r \in Uploads, Private(r)
    PROVE  Private(r)' /\ Safe'[r] = Safe[r]
<1>1. records[r] # Nil /\ up[r].pc # "none"
  BY DEF Private, StoreInv, UploadInv
<1>2. records'[r] = records[r] /\ up'[r].text = up[r].text
  BY <1>1 DEF Kept
<1>3. Private(r)'
  BY <1>2 DEF Private
<1> QED BY <1>2, <1>3 DEF Safe

LEMMA SafeSame ==
    ASSUME StoreInv, Kept, NEW r \in Uploads, records'[r] = records[r]
    PROVE  Safe'[r] = Safe[r]
<1>1. CASE Private(r)
  BY <1>1, SafeStays
<1>2. CASE ~Private(r)
  <2>1. ~Private(r)'
    BY <1>2 DEF Private
  <2> QED BY <1>2, <2>1 DEF Safe
<1> QED BY <1>1, <1>2

\* A step hands in one text, or keeps one that was, or shows the archive nothing.
LEMMA ArchiveStep ==
    ASSUME StoreInv, OwnInv, StoreStep
    PROVE  [Books!KNext]_<<[u \in Uploads |-> up[u].text],
                           [r \in Uploads |-> IF Private(r) THEN Readable(r) ELSE {}]>>
<1>1. StoreInv' /\ Kept
  BY StoreKeepsInv
<1>2. OwnInv'
  BY <1>1, OwnKept
<1>3. [r \in Uploads |-> IF Private(r) THEN Readable(r) ELSE {}] = Safe
  BY BooksAre
<1>4. [r \in Uploads |-> IF Private(r) THEN Readable(r) ELSE {}]' = Safe'
  <2>1. (StoreInv /\ OwnInv =>
           [r \in Uploads |-> IF Private(r) THEN Readable(r) ELSE {}] = Safe)'
    BY BooksAre, PTL
  <2> QED BY <1>1, <1>2, <2>1
<1>5. \A u \in Uploads : Given[u] = up[u].text /\ Given'[u] = up'[u].text
  BY DEF Given
<1>6. /\ Given = [u \in Uploads |-> up[u].text] /\ Given' = [u \in Uploads |-> up'[u].text]
      /\ DOMAIN Safe = Uploads /\ DOMAIN Safe' = Uploads
  BY DEF Given, Safe
<1>7. CASE records' = records /\ TextsStay
  <2>1. Given' = Given
    BY <1>6, <1>7 DEF TextsStay
  <2>2. Safe' = Safe
    <3>1. \A r \in Uploads : Safe'[r] = Safe[r]
      BY <1>1, <1>7, SafeSame
    <3> QED BY <3>1 DEF Safe
  <2> QED BY <1>3, <1>4, <1>6, <2>1, <2>2
<1>8. ASSUME records' = records, NEW u \in Uploads, HandsIn(u)
      PROVE  Books!KNext
  <2>1. Safe' = Safe
    <3>1. \A r \in Uploads : Safe'[r] = Safe[r]
      BY <1>1, <1>8, SafeSame
    <3> QED BY <3>1 DEF Safe
  <2>2. Given[u] = Nil /\ Given'[u] \in Texts /\ Given' = [Given EXCEPT ![u] = Given'[u]]
    BY <1>5, <1>6, <1>8 DEF HandsIn, OwnInv, Given
  <2>3. Books!HandIn(u)
    BY <1>3, <1>4, <1>6, <2>1, <2>2 DEF Books!HandIn
  <2> QED BY <2>3 DEF Books!KNext
<1>9. ASSUME TextsStay, NEW u \in Uploads, Records(u)
      PROVE  [Books!KNext]_<<[v \in Uploads |-> up[v].text],
                             [r \in Uploads |-> IF Private(r) THEN Readable(r) ELSE {}]>>
  <2>1. Given' = Given
    BY <1>6, <1>9 DEF TextsStay
  <2>2. \A r \in Uploads : r # u => Safe'[r] = Safe[r]
    BY <1>1, <1>9, SafeSame DEF Records
  <2>3. ~Private(u) /\ Safe[u] = {}
    BY <1>9 DEF Records, Private, Safe
  <2>4. CASE ~Private(u)'
    <3>1. Safe'[u] = {}
      BY <2>4 DEF Safe
    <3>2. Safe' = Safe
      BY <2>2, <2>3, <3>1 DEF Safe
    <3> QED BY <1>3, <1>4, <1>6, <2>1, <3>2
  <2>5. CASE Private(u)'
    <3>1. Safe'[u] = {Given[u]}
      BY <2>5, <1>5, <1>9 DEF Safe, TextsStay
    <3>2. Safe' = [Safe EXCEPT ![u] = {Given[u]}]
      BY <2>2, <3>1, <1>6 DEF Safe
    <3>3. Given[u] # Nil
      BY <1>5, <1>9, Constants DEF Records, StoreInv, UploadInv
    <3>4. Books!Keep(u)
      BY <1>3, <1>4, <1>6, <2>1, <2>3, <3>2, <3>3 DEF Books!Keep
    <3> QED BY <3>4 DEF Books!KNext
  <2> QED BY <2>4, <2>5
<1> QED BY <1>7, <1>8, <1>9, StepIs

=============================================================================
