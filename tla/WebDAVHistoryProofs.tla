------------------------- MODULE WebDAVHistoryProofs -------------------------
(***************************************************************************)
(* For any number of requests, paths and records: what a GET answers with  *)
(* has had the path asked for, and a record is removed or renamed only     *)
(* through a path it has had.                                              *)
(***************************************************************************)
EXTENDS WebDAVHistory, WebDAVServerProofs

\* By the names N, the record i has had the path p.
Had(N, i, p) == i \in Ids /\ p \in N[i]

BridgeOK ==
    /\ named \in [Ids -> SUBSET Paths]
    /\ \A i \in Ids : home[i] # Gone => home[i] \in named[i]
    /\ \A i \in Ids : i > created => home[i] = Gone

\* Both maps give a path only to records that have had it.
MapOK(map, N) == \A p \in Paths : map[p] \in Ids => Had(N, map[p], p)

\* So do the listing and the record that a request has in hand.
ReplyOK(q, N) == \A n \in Names : q.last[n] \in Ids => Had(N, q.last[n], <<q.path[1], n>>)

HandOK(q, N) ==
    /\ q.pc = "fetch" => Had(N, q.rec, q.path)
    /\ q.pc \in {"publish", "getFile"} /\ q.rec \in Ids => Had(N, q.rec, q.path)
    /\ q.pc = "delete" => Had(N, q.rec, q.dst)
    /\ q.pc = "rename" => Had(N, q.rec, q.path)

\* A GET writes nothing, and fills its handle with a record of its path.
ReaderOK(q, N) ==
    q.op = "get" =>
       /\ ~q.written /\ q.cont # "dir"
       /\ q.filled => q.pc = "close" /\ Had(N, q.rec, q.path)
       /\ q.pc = "idle" /\ q.status = "ok" => Had(N, q.body, q.path)
       /\ q.pc \notin {"mkcol", "davStat", "remove", "delete", "lookOld", "rename"}

Good(q, N) == ReplyOK(q, N) /\ HandOK(q, N) /\ ReaderOK(q, N)

HInv ==
    /\ IInv /\ BridgeOK
    /\ MapOK(fileInfo, named) /\ MapOK(nameToID, named)
    /\ \A r \in Requests : Good(req[r], named)

-----------------------------------------------------------------------------
(* What no step takes back *)

Grows == \A i \in Ids : named[i] \subseteq named'[i]

LEMMA GoodGrows ==
    ASSUME Grows, NEW q \in Request, Good(q, named)
    PROVE  Good(q, named')
<1>1. \A i, p : Had(named, i, p) => Had(named', i, p)
  BY DEF Had, Grows
<1>2. ReplyOK(q, named')
  BY <1>1 DEF Good, ReplyOK
<1>3. HandOK(q, named')
  BY <1>1 DEF Good, HandOK, Grows, Request
<1>4. ReaderOK(q, named')
  BY <1>1 DEF Good, ReaderOK
<1> QED BY <1>2, <1>3, <1>4 DEF Good

\* What the observer adds.
LEMMA Observed ==
    ASSUME HInv, IInv', Observe, \A i \in Ids : i > created' => home'[i] = Gone
    PROVE  /\ BridgeOK'
           /\ \A i \in Ids : named[i] \subseteq named'[i]
           /\ \A r \in Requests : Uploads(r) /\ created' \in Ids => Had(named', created', req[r].path)
<1>1. /\ \A r \in Requests : req[r].path \in Paths
      /\ \A i \in Ids : home'[i] \in Paths \union {Gone}
  BY DEF HInv, IInv, TypeOK, Request
<1>2. \A i \in Ids : named'[i] =
         named[i] \union ({home'[i]} \ {Gone})
                  \union {req[r].path : r \in {s \in Requests : Uploads(s) /\ i = created'}}
  BY DEF Observe
<1>3. named' \in [Ids -> SUBSET Paths]
  BY <1>1, <1>2 DEF Observe, HInv, BridgeOK
<1>4. \A i \in Ids : home'[i] # Gone => home'[i] \in named'[i]
  BY <1>2
<1>5. ASSUME NEW r \in Requests, Uploads(r), created' \in Ids
      PROVE  Had(named', created', req[r].path)
  BY <1>2, <1>5 DEF Had
<1> QED BY <1>2, <1>3, <1>4, <1>5 DEF BridgeOK

-----------------------------------------------------------------------------
(* What a step gives the request that takes it.  The others are as they were. *)

\* The request r, and no other, is moved by the step, and rightly.
Moved(r) ==
    /\ \A s \in Requests : s # r => req'[s] = req[s]
    /\ Good(req'[r], named')

LEMMA Sound ==
    ASSUME HInv, Grows, NEW r \in Requests
    PROVE  /\ req \in [Requests -> Request] /\ req[r] \in Request
           /\ Good(req[r], named) /\ Good(req[r], named')
<1>1. req \in [Requests -> Request] /\ req[r] \in Request
  BY DEF HInv, IInv, TypeOK
<1> QED BY <1>1, GoodGrows DEF HInv

LEMMA FinishMoves ==
    ASSUME HInv, Grows, NEW r \in Requests, NEW st, NEW b, Finish(r, st, b),
           req[r].op = "get" /\ st = "ok" => Had(named', b, req[r].path)
    PROVE  Moved(r)
<1>1. req[r].path \in Paths /\ req \in [Requests -> Request]
  BY Sound DEF Request
<1> DEFINE q == [Idle(req[r].path) EXCEPT !.op = req[r].op, !.status = st, !.body = b]
<1>2. /\ q.pc = "idle" /\ q.path = req[r].path /\ q.op = req[r].op /\ q.status = st /\ q.body = b
      /\ q.last = NoReply /\ q.cont = "stat" /\ q.filled = FALSE /\ q.written = FALSE
  BY DEF Idle
<1>3. req'[r] = q /\ \A s \in Requests : s # r => req'[s] = req[s]
  BY <1>1 DEF Finish
<1> HIDE DEF q
<1>4. ReplyOK(q, named')
  BY <1>2, Basic DEF ReplyOK, NoReply
<1>5. HandOK(q, named') /\ ReaderOK(q, named')
  BY <1>2 DEF HandOK, ReaderOK
<1> QED BY <1>3, <1>4, <1>5 DEF Moved, Good

\* The points at which a request has nothing in hand.
Plain == {"stat", "statAgain", "lookup", "open", "openEntry", "listNil", "listMake", "listCheck",
          "listCall", "listMerge", "listStore", "resolve", "blobs", "create"}

\* A move that keeps the operation and its paths.
LEMMA ChangeMoves ==
    ASSUME HInv, Grows, NEW r \in Requests, NEW q, req' = [req EXCEPT ![r] = q],
           q.op = req[r].op, q.path = req[r].path, q.dst = req[r].dst,
           q.last \in {req[r].last, NoReply} \/ ReplyOK(q, named'),
           HandOK(q, named') \/ q.pc \in Plain \union {"close"},
           q.op = "get" =>
              /\ q.cont # "dir" /\ q.written = req[r].written
              /\ q.pc \in Plain \union {"fetch", "close", "publish", "getFile"}
              /\ q.filled => q.pc = "close" /\ Had(named', q.rec, q.path)
    PROVE  Moved(r)
<1>1. Good(req[r], named') /\ req \in [Requests -> Request]
  BY Sound
<1>2. ReplyOK(q, named')
  BY <1>1, Basic DEF Good, ReplyOK, NoReply
<1>3. HandOK(q, named')
  BY DEF HandOK, Plain
<1>4. ReaderOK(q, named')
  BY <1>1 DEF Good, ReaderOK, Plain
<1> QED BY <1>1, <1>2, <1>3, <1>4 DEF Moved, Good

LEMMA GotoMoves ==
    ASSUME HInv, Grows, NEW r \in Requests, NEW l \in Plain, Goto(r, l),
           req[r].pc # "close" \/ req[r].op # "get"
    PROVE  Moved(r)
<1>1. /\ req \in [Requests -> Request] /\ req[r] \in Request
      /\ Good(req[r], named')
  BY Sound
<1> DEFINE q == [req[r] EXCEPT !.pc = l]
<1>2. /\ q.pc = l /\ q.op = req[r].op /\ q.path = req[r].path /\ q.dst = req[r].dst
      /\ q.last = req[r].last /\ q.cont = req[r].cont /\ q.written = req[r].written
      /\ q.filled = req[r].filled /\ q.rec = req[r].rec
  BY <1>1 DEF Request
<1>3. req' = [req EXCEPT ![r] = q]
  BY <1>1 DEF Goto
<1> HIDE DEF q
<1>4. q.op = "get" => q.cont # "dir" /\ ~q.filled
  BY <1>1, <1>2 DEF Good, ReaderOK
<1> QED BY <1>2, <1>3, <1>4, ChangeMoves

-----------------------------------------------------------------------------
(* What the steps change at the bridge and in the maps *)

Steps(r) == Arrives(r) \/ LockStep(r) \/ PlainStep(r) \/ StorageStep(r)

LEMMA Frames ==
    ASSUME NEW r \in Requests, Steps(r)
    PROVE  /\ ListMerge(r) \/ Publish(r) \/ GetFile(r) \/ UNCHANGED <<fileInfo, nameToID>>
           /\ Create(r) \/ DeleteFile(r) \/ RenameFile(r) \/ UNCHANGED <<home, created>>
<1> USE DEF bridge, index
<1>1. CASE Arrives(r)
  BY <1>1 DEF Arrives, Get, Propfind, Put, Delete, Move, Mkcol, Begin
<1>2. CASE ListDirStep(r)
  BY <1>2 DEF ListDirStep, ListSeesNil, ListMake, ListCheck, ListCall, ListStore
<1>3. CASE LockStep(r)
  BY <1>3 DEF LockStep, ListMerge, Stat, StatAgain, Lookup, OpenTopLevel, OpenInFolder, OpenEntry,
              OpenDir, Resolve, Publish, DavStat, Remove, LookOld
<1>4. CASE PlainStep(r) /\ ~ListDirStep(r)
  BY <1>4 DEF PlainStep, Close, Create, GetFile, DeleteFile, RenameFile, CreateFolder
<1>5. CASE StorageStep(r)
  BY <1>5 DEF StorageStep, Fetch, Blobs
<1> QED BY <1>1, <1>2, <1>3, <1>4, <1>5 DEF Steps, PlainStep

LEMMA HomeStep ==
    ASSUME HInv, NEW r \in Requests, Steps(r)
    PROVE  \A i \in Ids : i > created' => home'[i] = Gone
<1>1. /\ \A i \in Ids : i > created => home[i] = Gone
      /\ home \in [Ids -> Paths \union {Gone}] /\ created \in Nat /\ Ids \subseteq Nat
  BY Basic, ConstantsAssumption DEF HInv, BridgeOK, IInv, TypeOK
<1>2. CASE Create(r)
  <2>1. \/ UNCHANGED <<home, created>>
        \/ /\ created' = created + 1
           /\ home' = [home EXCEPT ![created + 1] = <<req[r].parent, req[r].path[2]>>]
    BY <1>2 DEF Create
  <2>2. ASSUME created' = created + 1,
               home' = [home EXCEPT ![created + 1] = <<req[r].parent, req[r].path[2]>>],
               NEW i \in Ids, i > created'
        PROVE  home'[i] = Gone
    <3>1. i # created + 1 /\ i > created
      BY <1>1, <2>2
    <3> QED BY <1>1, <2>2, <3>1
  <2>3. CASE UNCHANGED <<home, created>>
    BY <1>1, <2>3
  <2> QED BY <2>1, <2>2, <2>3
<1>3. CASE DeleteFile(r)
  <2>1. created' = created /\ (home' = home \/ home' = [home EXCEPT ![req[r].rec] = Gone])
    BY <1>3 DEF DeleteFile
  <2> QED BY <1>1, <2>1
<1>4. CASE RenameFile(r)
  <2>1. created' = created
    BY <1>4 DEF RenameFile
  <2>2. home' = home \/ (home[req[r].rec] # Gone
                          /\ home' = [home EXCEPT ![req[r].rec] = <<@[1], req[r].dst[2]>>])
    BY <1>4 DEF RenameFile
  <2> QED BY <1>1, <2>1, <2>2
<1> QED BY <1>1, <1>2, <1>3, <1>4, Frames

LEMMA MapStep ==
    ASSUME HInv, IInv', NEW r \in Requests, Steps(r),
           Grows
    PROVE  MapOK(fileInfo', named') /\ MapOK(nameToID', named')
<1>1. /\ req[r] \in Request /\ Good(req[r], named) /\ req[r].path \in Paths
      /\ fileInfo \in [Paths -> Ids \union {Absent, NilPtr}]
      /\ nameToID \in [Paths -> Ids \union {Absent}]
      /\ MapOK(fileInfo, named) /\ MapOK(nameToID, named)
  BY DEF HInv, IInv, TypeOK, Request
<1>2. \A i, p : Had(named, i, p) => Had(named', i, p)
  BY DEF Had, Grows
<1>3. MapOK(fileInfo, named') /\ MapOK(nameToID, named')
  BY <1>1, <1>2 DEF MapOK
<1>4. CASE UNCHANGED <<fileInfo, nameToID>>
  BY <1>3, <1>4
<1>5. CASE ListMerge(r)
  <2>1. ASSUME NEW map \in [Paths -> Ids \union {Absent, NilPtr}], MapOK(map, named')
        PROVE  MapOK(Merged(map, r), named')
    <3> SUFFICES ASSUME NEW p \in Paths
                 PROVE  Merged(map, r)[p] \in Ids => Had(named', Merged(map, r)[p], p)
      BY DEF MapOK
    <3>1. CASE p[1] = Dir(r) /\ req[r].last[p[2]] # Absent
      <4>1. p = <<req[r].path[1], p[2]>> /\ p[2] \in Names
        BY <3>1, Basic DEF Dir
      <4>2. Merged(map, r)[p] = req[r].last[p[2]]
        BY <3>1 DEF Merged
      <4> QED BY <1>1, <1>2, <3>1, <4>1, <4>2 DEF Good, ReplyOK
    <3>2. CASE ~(p[1] = Dir(r) /\ req[r].last[p[2]] # Absent)
      <4>1. Merged(map, r)[p] = map[p]
        BY <3>2 DEF Merged
      <4> QED BY <2>1, <4>1 DEF MapOK
    <3> QED BY <3>1, <3>2
  <2>2. fileInfo' = Merged(fileInfo, r) /\ nameToID' = Merged(nameToID, r)
    BY <1>5 DEF ListMerge
  <2>3. nameToID \in [Paths -> Ids \union {Absent, NilPtr}]
    BY <1>1
  <2> QED BY <1>1, <1>3, <2>1, <2>2, <2>3
<1>6. CASE Publish(r)
  <2>1. UNCHANGED fileInfo /\ (UNCHANGED nameToID \/ (req[r].rec # NilPtr
          /\ req[r].pc = "publish" /\ nameToID' = [nameToID EXCEPT ![req[r].path] = req[r].rec]))
    BY <1>6 DEF Publish, At
  <2>2. req[r].pc = "publish" => req[r].rec \in Ids \union {NilPtr}
    BY DEF HInv, IInv, ReqInv
  <2>3. req[r].pc = "publish" /\ req[r].rec # NilPtr => Had(named', req[r].rec, req[r].path)
    BY <1>1, <1>2, <2>2 DEF Good, HandOK
  <2> QED BY <1>1, <1>3, <2>1, <2>2, <2>3, Basic DEF Grows, MapOK
<1>7. CASE GetFile(r)
  <2>1. UNCHANGED nameToID /\ req[r].pc = "getFile"
    BY <1>7 DEF GetFile, At
  <2>2. \/ UNCHANGED fileInfo
        \/ fileInfo' = [fileInfo EXCEPT ![req[r].path] = req[r].rec]
        \/ fileInfo' = [fileInfo EXCEPT ![req[r].path] = NilPtr]
    BY <1>7 DEF GetFile
  <2>3. req[r].rec \in Ids /\ Had(named', req[r].rec, req[r].path)
    BY <1>1, <1>2, <2>1 DEF Good, HandOK, HInv, IInv, ReqInv
  <2> QED BY <1>1, <1>3, <2>1, <2>2, <2>3, Basic DEF Grows, MapOK
<1> QED BY <1>4, <1>5, <1>6, <1>7, Frames

-----------------------------------------------------------------------------
(* Where the steps leave their request *)

LEMMA BeginMoves ==
    ASSUME HInv, Grows, NEW r \in Requests, NEW op, NEW p, NEW d,
           NEW first \in {"stat", "open", "davStat", "mkcol"}, NEW full,
           op = "get" => first = "stat" /\ full = FALSE,
           Begin(r, op, p, d, first, full)
    PROVE  Moved(r)
<1> DEFINE q == [Idle(p) EXCEPT !.pc = first, !.op = op, !.dst = d, !.filled = full,
                                !.written = full]
<1>1. /\ q.pc = first /\ q.op = op /\ q.last = NoReply /\ q.cont = "stat" /\ q.filled = full
      /\ q.written = full
  BY DEF Idle
<1>2. req'[r] = q /\ \A s \in Requests : s # r => req'[s] = req[s]
  BY Sound DEF Begin
<1> HIDE DEF q
<1>3. ReplyOK(q, named')
  BY <1>1, Basic DEF ReplyOK, NoReply
<1>4. HandOK(q, named')
  BY <1>1 DEF HandOK
<1>5. ReaderOK(q, named')
  BY <1>1 DEF ReaderOK
<1> QED BY <1>2, <1>3, <1>4, <1>5 DEF Moved, Good

LEMMA ArrivesMoves ==
    ASSUME HInv, Grows, NEW r \in Requests, Arrives(r)
    PROVE  Moved(r)
<1>1. ASSUME NEW p, Get(r, p) PROVE Moved(r)
  BY <1>1, BeginMoves DEF Get
<1>2. ASSUME NEW p, Propfind(r, p) PROVE Moved(r)
  BY <1>2, BeginMoves DEF Propfind
<1>3. ASSUME NEW p, NEW full, Put(r, p, full) PROVE Moved(r)
  BY <1>3, BeginMoves DEF Put
<1>4. ASSUME NEW p, Delete(r, p) PROVE Moved(r)
  BY <1>4, BeginMoves DEF Delete
<1>5. ASSUME NEW p, NEW d, Move(r, p, d) PROVE Moved(r)
  BY <1>5, BeginMoves DEF Move
<1>6. ASSUME NEW p, Mkcol(r, p) PROVE Moved(r)
  BY <1>6, BeginMoves DEF Mkcol
<1> QED BY <1>1, <1>2, <1>3, <1>4, <1>5, <1>6 DEF Arrives

LEMMA ReturnsMoves ==
    ASSUME HInv, Grows, NEW r \in Requests, req[r].pc # "close",
           (\E ents : ListDirReturns(r, ents)) \/ ListDirFails(r)
    PROVE  Moved(r)
<1>1. ASSUME NEW l \in Plain, Goto(r, l) PROVE Moved(r)
  BY <1>1, GotoMoves
<1>2. ASSUME NEW st, Finish(r, st, Absent), st # "ok" \/ req[r].cont = "dir" PROVE Moved(r)
  <2>1. req[r].cont = "dir" => req[r].op # "get"
    BY Sound DEF Good, ReaderOK
  <2> QED BY <1>2, <2>1, FinishMoves
<1> QED BY <1>1, <1>2 DEF ListDirReturns, ListDirFails, Plain

LEMMA ListDirMoves ==
    ASSUME HInv, Grows, NEW r \in Requests, ListDirStep(r) \/ ListMerge(r)
    PROVE  Moved(r)
<1> USE DEF At
<1>1. CASE ListSeesNil(r) \/ ListMake(r) \/ ListMerge(r)
  <2>1. \E l \in Plain : Goto(r, l) /\ req[r].pc # "close"
    BY <1>1 DEF ListSeesNil, ListMake, ListMerge, Plain
  <2> QED BY <2>1, GotoMoves
<1>2. CASE ListCheck(r)
  <2>1. (ListDirReturns(r, listing[Dir(r)]) \/ Goto(r, "listCall")) /\ req[r].pc # "close"
    BY <1>2 DEF ListCheck
  <2> QED BY <2>1, ReturnsMoves, GotoMoves DEF Plain
<1>3. CASE ListCall(r)
  <2>1. CASE ListDirFails(r)
    BY <1>3, <2>1, ReturnsMoves DEF ListCall
  <2>2. CASE Goto(r, "listMerge")
    BY <1>3, <2>2, GotoMoves DEF ListCall, Plain
  <2>3. ASSUME NEW last \in ListReplies(Dir(r)), NEW subs,
               req' = [req EXCEPT ![r].pc = "listMerge", ![r].last = last, ![r].subs = subs]
        PROVE  Moved(r)
    <3> DEFINE q == [req[r] EXCEPT !.pc = "listMerge", !.last = last, !.subs = subs]
    <3>1. /\ req \in [Requests -> Request] /\ req[r] \in Request /\ Good(req[r], named')
          /\ req[r].path \in Paths
      BY Sound DEF Request
    <3>2. /\ q.pc = "listMerge" /\ q.op = req[r].op /\ q.path = req[r].path /\ q.dst = req[r].dst
          /\ q.last = last /\ q.cont = req[r].cont /\ q.written = req[r].written
          /\ q.filled = req[r].filled
      BY <3>1 DEF Request
    <3>3. req' = [req EXCEPT ![r] = q]
      BY <2>3, <3>1
    <3>4. ASSUME NEW n \in Names, last[n] \in Ids
          PROVE  Had(named', last[n], <<Dir(r), n>>)
      <4>1. home[last[n]] = <<Dir(r), n>>
        BY <2>3, <3>4, Basic DEF ListReplies
      <4>2. home[last[n]] # Gone
        <5>1. DOMAIN <<Dir(r), n>> = {1, 2} /\ DOMAIN Gone = {}
          BY DEF Gone
        <5> QED BY <4>1, <5>1
      <4> QED BY <3>4, <4>1, <4>2 DEF Had, HInv, BridgeOK, Grows
    <3> HIDE DEF q
    <3>5. ReplyOK(q, named')
      BY <3>2, <3>4 DEF ReplyOK, Dir
    <3>6. q.op = "get" => q.cont # "dir" /\ ~q.filled
      BY <1>3, <3>1, <3>2 DEF Good, ReaderOK, ListCall
    <3> QED BY <3>2, <3>3, <3>5, <3>6, ChangeMoves DEF Plain
  <2> QED BY <1>3, <2>1, <2>2, <2>3 DEF ListCall
<1>4. CASE ListStore(r)
  <2>1. /\ req \in [Requests -> Request] /\ req[r] \in Request /\ Good(req[r], named')
        /\ req[r].pc = "listStore"
    BY <1>4, Sound DEF ListStore
  <2> DEFINE q(l) == [[req[r] EXCEPT !.last = NoReply, !.subs = {}] EXCEPT !.pc = l]
  <2>2. ASSUME NEW l \in Plain, req' = [req EXCEPT ![r] = q(l)] PROVE Moved(r)
    <3>1. /\ q(l).pc = l /\ q(l).op = req[r].op /\ q(l).path = req[r].path
          /\ q(l).dst = req[r].dst /\ q(l).last = NoReply /\ q(l).cont = req[r].cont
          /\ q(l).written = req[r].written /\ q(l).filled = req[r].filled
      BY <2>1 DEF Request
    <3>2. PICK new : new = q(l)
      OBVIOUS
    <3> HIDE DEF q
    <3>3. new.op = "get" => new.cont # "dir" /\ ~new.filled
      BY <2>1, <3>1, <3>2 DEF Good, ReaderOK
    <3> QED BY <2>2, <3>1, <3>2, <3>3, ChangeMoves
  <2>3. ASSUME NEW st, Finish(r, st, Absent), st # "ok" \/ req[r].cont = "dir" PROVE Moved(r)
    <3>1. req[r].cont = "dir" => req[r].op # "get"
      BY <2>1 DEF Good, ReaderOK
    <3> QED BY <2>3, <3>1, FinishMoves
  <2>4. [req[r] EXCEPT !.last = NoReply, !.subs = {}].cont = req[r].cont
    BY <2>1 DEF Request
  <2> QED BY <1>4, <2>2, <2>3, <2>4 DEF ListStore, Plain
<1> QED BY <1>1, <1>2, <1>3, <1>4 DEF ListDirStep

\* A request that keeps its operation and its reply.
Same(q, old) ==
    /\ q.op = old.op /\ q.path = old.path /\ q.dst = old.dst /\ q.last = old.last
    /\ q.written = old.written

LEMMA EditMoves ==
    ASSUME HInv, Grows, NEW r \in Requests, NEW q, req' = [req EXCEPT ![r] = q], Same(q, req[r]),
           \/ q.pc \in Plain \union {"close"}
           \/ /\ q.pc \in {"fetch", "publish", "getFile"}
              /\ q.rec \in Ids => Had(named', q.rec, req[r].path)
              /\ q.pc = "fetch" => q.rec \in Ids,
           req[r].op = "get" =>
              /\ q.cont # "dir"
              /\ q.filled => q.pc = "close" /\ Had(named', q.rec, req[r].path)
    PROVE  Moved(r)
<1>1. HandOK(q, named') \/ q.pc \in Plain \union {"close"}
  BY DEF HandOK, Same
<1> QED BY <1>1, ChangeMoves DEF Same

LEMMA ServeMoves ==
    ASSUME HInv, Grows, NEW r \in Requests, NEW id, Serve(r, id), Had(named', id, req[r].path)
    PROVE  Moved(r)
<1>1. req \in [Requests -> Request] /\ req[r] \in Request /\ Good(req[r], named')
  BY Sound
<1>2. CASE req[r].cont = "handle"
  <2> DEFINE q == [req[r] EXCEPT !.pc = "close", !.filled = TRUE, !.rec = id]
  <2>1. req' = [req EXCEPT ![r] = q]
    BY <1>1, <1>2 DEF Serve
  <2>2. /\ Same(q, req[r]) /\ q.pc = "close" /\ q.cont = req[r].cont /\ q.rec = id
    BY <1>1 DEF Request, Same
  <2> HIDE DEF q
  <2> QED BY <1>1, <1>2, <2>1, <2>2, EditMoves
<1>3. CASE req[r].cont # "handle"
  BY <1>3, FinishMoves DEF Serve
<1> QED BY <1>2, <1>3

LEMMA GetMoves ==
    ASSUME HInv, Grows, NEW r \in Requests, Stat(r) \/ StatAgain(r) \/ Lookup(r) \/ Fetch(r)
    PROVE  Moved(r)
<1> USE DEF At
<1>1. /\ req \in [Requests -> Request] /\ req[r] \in Request /\ Good(req[r], named')
      /\ req[r].path \in Paths
  BY Sound DEF Request
<1>2. req[r].op = "get" /\ req[r].pc # "close" => ~req[r].filled /\ req[r].cont # "dir"
  BY <1>1 DEF Good, ReaderOK
<1>3. ASSUME NEW next \in Plain, UseMeta(r, next), req[r].pc # "close" PROVE Moved(r)
  BY <1>3, GotoMoves, FinishMoves DEF UseMeta
<1>4. CASE Stat(r)
  <2>1. CASE CallListDir(r, "stat")
    <3> DEFINE q == [req[r] EXCEPT !.pc = "listNil", !.cont = "stat"]
    <3>1. req' = [req EXCEPT ![r] = q]
      BY <2>1, <1>1 DEF CallListDir
    <3>2. req[r].pc = "stat"
      BY <1>4 DEF Stat
    <3>3. /\ Same(q, req[r]) /\ q.pc = "listNil" /\ q.cont = "stat"
          /\ q.filled = req[r].filled /\ q.rec = req[r].rec
      BY <1>1 DEF Request, Same
    <3> HIDE DEF q
    <3> QED BY <1>1, <1>2, <3>1, <3>2, <3>3, EditMoves DEF Plain
  <2> QED BY <1>3, <1>4, <2>1 DEF Stat, Plain
<1>5. CASE StatAgain(r)
  BY <1>3, <1>5, GotoMoves DEF StatAgain, Plain
<1>6. CASE Lookup(r)
  <2> DEFINE id == fileInfo[req[r].path]
  <2>1. /\ id \in Ids \union {NilPtr} /\ (id \in Ids => Had(named', id, req[r].path))
        /\ req[r].pc = "lookup" /\ cached \subseteq Ids
    <3>1. req[r].pc = "lookup" /\ id # Absent
      BY <1>6 DEF Lookup, HInv, IInv, ReqInv
    <3>2. id \in Ids => Had(named, id, req[r].path)
      BY <1>1 DEF HInv, MapOK
    <3> QED BY <1>1, <3>1, <3>2 DEF HInv, IInv, TypeOK, Grows, Had
  <2>2. CASE Finish(r, "error", Absent)
    BY <2>2, FinishMoves
  <2>3. CASE id \in cached /\ Serve(r, id)
    BY <2>1, <2>3, ServeMoves
  <2>4. CASE id \in Ids /\ req' = [req EXCEPT ![r].pc = "fetch", ![r].rec = id]
    <3> DEFINE q == [req[r] EXCEPT !.pc = "fetch", !.rec = id]
    <3>1. req' = [req EXCEPT ![r] = q]
      BY <2>4, <1>1
    <3>3. /\ Same(q, req[r]) /\ q.pc = "fetch" /\ q.cont = req[r].cont
          /\ q.filled = req[r].filled /\ q.rec = id
      BY <1>1 DEF Request, Same
    <3> HIDE DEF q
    <3> QED BY <1>1, <1>2, <2>1, <2>4, <3>1, <3>3, EditMoves
  <2> QED BY <1>6, <2>1, <2>2, <2>3, <2>4 DEF Lookup
<1>7. CASE Fetch(r)
  <2>1. Had(named', req[r].rec, req[r].path)
    BY <1>1, <1>7 DEF Fetch, Good, HandOK
  <2> QED BY <1>7, <2>1, ServeMoves, FinishMoves DEF Fetch
<1> QED BY <1>4, <1>5, <1>6, <1>7

LEMMA OpenMoves ==
    ASSUME HInv, Grows, NEW r \in Requests,
           OpenTopLevel(r) \/ OpenInFolder(r) \/ OpenEntry(r) \/ OpenDir(r)
    PROVE  Moved(r)
<1> USE DEF At
<1>1. /\ req \in [Requests -> Request] /\ req[r] \in Request /\ Good(req[r], named')
      /\ req[r].pc # "close"
  BY Sound DEF OpenTopLevel, OpenInFolder, OpenEntry, OpenDir
<1>2. req[r].op = "get" => ~req[r].filled /\ req[r].cont # "dir"
  BY <1>1 DEF Good, ReaderOK
<1>3. ASSUME OpensHandle(r) PROVE Moved(r)
  <2>1. CASE Goto(r, "close")
    <3> DEFINE q == [req[r] EXCEPT !.pc = "close"]
    <3>1. req' = [req EXCEPT ![r] = q]
      BY <2>1, <1>1 DEF Goto
    <3>3. /\ Same(q, req[r]) /\ q.pc = "close" /\ q.cont = req[r].cont
          /\ q.filled = req[r].filled /\ q.rec = req[r].rec
      BY <1>1 DEF Request, Same
    <3> HIDE DEF q
    <3> QED BY <1>1, <1>2, <3>1, <3>3, EditMoves
  <2>2. CASE req' = [req EXCEPT ![r].pc = "lookup", ![r].cont = "handle"]
    <3> DEFINE q == [req[r] EXCEPT !.pc = "lookup", !.cont = "handle"]
    <3>1. req' = [req EXCEPT ![r] = q]
      BY <2>2, <1>1
    <3>3. /\ Same(q, req[r]) /\ q.pc = "lookup" /\ q.cont = "handle"
          /\ q.filled = req[r].filled /\ q.rec = req[r].rec
      BY <1>1 DEF Request, Same
    <3> HIDE DEF q
    <3> QED BY <1>1, <1>2, <3>1, <3>3, EditMoves DEF Plain
  <2> QED BY <1>3, <2>1, <2>2 DEF OpensHandle
<1>4. ASSUME NEW c, CallListDir(r, c), c = "dir" => req[r].op # "get" PROVE Moved(r)
  <2> DEFINE q == [req[r] EXCEPT !.pc = "listNil", !.cont = c]
  <2>1. req' = [req EXCEPT ![r] = q]
    BY <1>4, <1>1 DEF CallListDir
  <2>2. Same(q, req[r]) /\ q.pc = "listNil" /\ q.cont = c /\ q.filled = req[r].filled
    BY <1>1 DEF Request, Same
  <2> HIDE DEF q
  <2> QED BY <1>1, <1>2, <1>4, <2>1, <2>2, EditMoves DEF Plain
<1>5. ASSUME NEW st, Finish(r, st, Absent), st # "ok" PROVE Moved(r)
  BY <1>5, FinishMoves
<1>6. CASE OpenTopLevel(r)
  BY <1>3, <1>5, <1>6 DEF OpenTopLevel
<1>7. CASE OpenInFolder(r)
  <2>1. CASE req' = [req EXCEPT ![r].pc = "close", ![r].parent = Dir(r)]
    <3> DEFINE q == [req[r] EXCEPT !.pc = "close", !.parent = Dir(r)]
    <3>1. req' = [req EXCEPT ![r] = q]
      BY <2>1, <1>1
    <3>3. /\ Same(q, req[r]) /\ q.pc = "close" /\ q.cont = req[r].cont
          /\ q.filled = req[r].filled /\ q.rec = req[r].rec
      BY <1>1 DEF Request, Same
    <3> HIDE DEF q
    <3> QED BY <1>1, <1>2, <3>1, <3>3, EditMoves
  <2> QED BY <1>4, <1>5, <1>7, <2>1 DEF OpenInFolder
<1>8. CASE OpenEntry(r)
  BY <1>3, <1>5, <1>8 DEF OpenEntry
<1>9. CASE OpenDir(r)
  BY <1>4, <1>5, <1>9 DEF OpenDir
<1> QED BY <1>6, <1>7, <1>8, <1>9

LEMMA UploadMoves ==
    ASSUME HInv, Grows, NEW r \in Requests,
           Close(r) \/ Resolve(r) \/ Blobs(r) \/ Create(r) \/ Publish(r) \/ GetFile(r),
           Uploads(r) /\ created' \in Ids => Had(named', created', req[r].path)
    PROVE  Moved(r)
<1> USE DEF At
<1>1. /\ req \in [Requests -> Request] /\ req[r] \in Request /\ Good(req[r], named')
      /\ req[r].path \in Paths
  BY Sound DEF Request
<1>2. req[r].op = "get" => req[r].cont # "dir" /\ (req[r].pc # "close" => ~req[r].filled)
  BY <1>1 DEF Good, ReaderOK
<1>3. ASSUME NEW st, NEW b, Finish(r, st, b), st # "ok" PROVE Moved(r)
  BY <1>3, FinishMoves
<1>4. CASE Close(r)
  <2>1. ASSUME req[r].op = "get", NEW st, Finish(r, st, req[r].rec), ~req[r].filled => st # "ok"
        PROVE  Moved(r)
    BY <1>1, <2>1, FinishMoves DEF Good, ReaderOK
  <2>2. CASE req[r].op = "get"
    <3>1. ~req[r].written
      BY <1>1, <2>2 DEF Good, ReaderOK
    <3> QED BY <1>4, <2>1, <2>2, <3>1 DEF Close
  <2>3. CASE req[r].op # "get"
    BY <1>4, <2>3, GotoMoves, FinishMoves DEF Close, Plain
  <2> QED BY <2>2, <2>3
<1>5. CASE Resolve(r)
  <2> DEFINE q == [req[r] EXCEPT !.pc = "blobs",
                     !.parent = IF @ \in folderInfo THEN @ ELSE Root]
  <2>1. req' = [req EXCEPT ![r] = q] /\ req[r].pc = "resolve"
    BY <1>1, <1>5 DEF Resolve
  <2>2. Same(q, req[r]) /\ q.pc = "blobs" /\ q.cont = req[r].cont /\ q.filled = req[r].filled
    BY <1>1 DEF Request, Same
  <2> HIDE DEF q
  <2> QED BY <1>2, <2>1, <2>2, EditMoves DEF Plain
<1>6. CASE Blobs(r)
  BY <1>3, <1>6, GotoMoves DEF Blobs, Plain
<1>7. CASE Create(r)
  <2>1. ASSUME NEW id \in Ids \union {NilPtr},
               req' = [req EXCEPT ![r].pc = "publish", ![r].rec = id],
               id \in Ids => Had(named', id, req[r].path)
        PROVE  Moved(r)
    <3> DEFINE q == [req[r] EXCEPT !.pc = "publish", !.rec = id]
    <3>1. req' = [req EXCEPT ![r] = q] /\ req[r].pc = "create"
      BY <1>1, <1>7, <2>1 DEF Create
    <3>2. /\ Same(q, req[r]) /\ q.pc = "publish" /\ q.cont = req[r].cont
          /\ q.filled = req[r].filled /\ q.rec = id
      BY <1>1 DEF Request, Same
    <3> HIDE DEF q
    <3> QED BY <1>2, <2>1, <3>1, <3>2, EditMoves
  <2>2. CASE /\ created < env.records /\ created' = created + 1
             /\ req' = [req EXCEPT ![r].pc = "publish", ![r].rec = created + 1]
    <3>1. created + 1 \in Ids /\ created' # created
      BY <2>2, EnvIs, ConstantsAssumption DEF ConstantsAssumption, Ids, HInv, IInv, TypeOK
    <3>2. req'[r] # req[r]
      <4>1. req'[r].pc = "publish"
        BY <1>1, <2>2 DEF Request
      <4> QED BY <1>7, <4>1 DEF Create
    <3>3. Had(named', created + 1, req[r].path)
      BY <1>7, <2>2, <3>1, <3>2 DEF Uploads, Create
    <3> QED BY <2>1, <2>2, <3>1, <3>3
  <2>3. CASE req' = [req EXCEPT ![r].pc = "publish", ![r].rec = NilPtr]
    BY <2>1, <2>3, Basic
  <2> QED BY <1>3, <1>7, <2>2, <2>3 DEF Create
<1>8. CASE Publish(r)
  <2>1. CASE Goto(r, "getFile")
    <3> DEFINE q == [req[r] EXCEPT !.pc = "getFile"]
    <3>1. req' = [req EXCEPT ![r] = q] /\ req[r].pc = "publish"
      BY <1>1, <1>8, <2>1 DEF Goto, Publish
    <3>2. /\ Same(q, req[r]) /\ q.pc = "getFile" /\ q.cont = req[r].cont
          /\ q.filled = req[r].filled /\ q.rec = req[r].rec
      BY <1>1 DEF Request, Same
    <3>3. req[r].rec \in Ids => Had(named', req[r].rec, req[r].path)
      BY <1>1, <3>1 DEF Good, HandOK
    <3> HIDE DEF q
    <3> QED BY <1>2, <3>1, <3>2, <3>3, EditMoves
  <2> QED BY <1>3, <1>8, <2>1 DEF Publish
<1>9. CASE GetFile(r)
  <2>1. req[r].pc = "getFile" /\ Finish(r, "ok", req[r].rec)
    BY <1>9 DEF GetFile
  <2>2. Had(named', req[r].rec, req[r].path)
    BY <1>1, <2>1 DEF Good, HandOK, HInv, IInv, ReqInv
  <2> QED BY <2>1, <2>2, FinishMoves
<1> QED BY <1>4, <1>5, <1>6, <1>7, <1>8, <1>9

LEMMA RemoveMoves ==
    ASSUME HInv, Grows, NEW r \in Requests,
           \/ DavStat(r) \/ Remove(r) \/ DeleteFile(r) \/ LookOld(r) \/ RenameFile(r)
           \/ CreateFolder(r)
    PROVE  Moved(r)
<1> USE DEF At
<1>1. /\ req \in [Requests -> Request] /\ req[r] \in Request /\ Good(req[r], named')
      /\ Good(req[r], named) /\ req[r].path \in Paths /\ req[r].dst \in Paths
  BY Sound DEF Request
<1>2. req[r].op # "get"
  BY <1>1 DEF Good, ReaderOK, DavStat, Remove, DeleteFile, LookOld, RenameFile, CreateFolder
<1>3. ASSUME NEW st, NEW b, Finish(r, st, b) PROVE Moved(r)
  BY <1>2, <1>3, FinishMoves
<1>4. ASSUME NEW l \in {"remove", "lookOld"}, Goto(r, l)
      PROVE  Moved(r)
  <2> DEFINE q == [req[r] EXCEPT !.pc = l]
  <2>1. req' = [req EXCEPT ![r] = q]
    BY <1>1, <1>4 DEF Goto
  <2>2. /\ q.pc = l /\ q.op = req[r].op /\ q.path = req[r].path /\ q.dst = req[r].dst
        /\ q.last = req[r].last
    BY <1>1 DEF Request
  <2> HIDE DEF q
  <2>3. HandOK(q, named')
    BY <1>4, <2>2 DEF HandOK
  <2> QED BY <1>2, <2>1, <2>2, <2>3, ChangeMoves
<1>5. ASSUME NEW p \in {req[r].path, req[r].dst}, NEW l \in {"delete", "rename"},
             Resolves(r, p, l), p = IF l = "delete" THEN req[r].dst ELSE req[r].path
      PROVE  Moved(r)
  <2>1. CASE nameToID[p] = Absent
    BY <1>3, <1>5, <2>1 DEF Resolves
  <2>2. CASE nameToID[p] # Absent
    <3> DEFINE q == [req[r] EXCEPT !.pc = l, !.rec = nameToID[p]]
    <3>1. req' = [req EXCEPT ![r] = q]
      BY <1>1, <1>5, <2>2 DEF Resolves
    <3>2. /\ q.pc = l /\ q.op = req[r].op /\ q.path = req[r].path /\ q.dst = req[r].dst
          /\ q.last = req[r].last /\ q.rec = nameToID[p]
      BY <1>1 DEF Request
    <3>3. nameToID[p] \in Ids /\ Had(named', nameToID[p], p)
      <4>1. nameToID[p] \in Ids /\ Had(named, nameToID[p], p)
        BY <1>1, <2>2 DEF HInv, IInv, TypeOK, MapOK
      <4> QED BY <4>1 DEF Had, Grows
    <3> HIDE DEF q
    <3>4. HandOK(q, named')
      BY <1>5, <3>2, <3>3 DEF HandOK
    <3> QED BY <1>2, <1>5, <3>1, <3>2, <3>4, ChangeMoves
  <2> QED BY <2>1, <2>2
<1>6. CASE DavStat(r)
  BY <1>3, <1>4, <1>6 DEF DavStat
<1>7. CASE Remove(r)
  BY <1>5, <1>7 DEF Remove
<1>8. CASE DeleteFile(r)
  BY <1>3, <1>4, <1>8 DEF DeleteFile, Deleted
<1>9. CASE LookOld(r)
  BY <1>5, <1>9 DEF LookOld
<1>10. CASE RenameFile(r)
  BY <1>3, <1>10 DEF RenameFile
<1>11. CASE CreateFolder(r)
  BY <1>3, <1>11 DEF CreateFolder
<1> QED BY <1>6, <1>7, <1>8, <1>9, <1>10, <1>11

-----------------------------------------------------------------------------
(* The invariant *)

LEMMA StepMoves ==
    ASSUME HInv, Grows, NEW r \in Requests, Steps(r),
           Uploads(r) /\ created' \in Ids => Had(named', created', req[r].path)
    PROVE  Moved(r)
<1>1. CASE Arrives(r)
  BY <1>1, ArrivesMoves
<1>2. CASE LockStep(r)
  BY <1>2, ListDirMoves, GetMoves, OpenMoves, UploadMoves, RemoveMoves DEF LockStep
<1>3. CASE PlainStep(r)
  BY <1>3, ListDirMoves, UploadMoves, RemoveMoves DEF PlainStep
<1>4. CASE StorageStep(r)
  BY <1>4, GetMoves, UploadMoves DEF StorageStep
<1> QED BY <1>1, <1>2, <1>3, <1>4 DEF Steps

LEMMA StepHInv ==
    ASSUME HInv, [HNext]_hvars
    PROVE  HInv'
<1>1. CASE UNCHANGED hvars
  BY <1>1, NextStep DEF hvars, vars, bridge, index, HInv, BridgeOK, MapOK, Good, ReplyOK, HandOK,
                        ReaderOK, Had
<1>2. CASE HNext
  <2>1. IInv'
    BY <1>2, NextStep DEF HInv, HNext
  <2>2. ASSUME NEW r \in Requests, Steps(r) PROVE HInv'
    <3>1. /\ BridgeOK' /\ \A i \in Ids : named[i] \subseteq named'[i]
          /\ Uploads(r) /\ created' \in Ids => Had(named', created', req[r].path)
      BY <1>2, <2>1, <2>2, HomeStep, Observed DEF HNext
    <3>2. Grows /\ MapOK(fileInfo', named') /\ MapOK(nameToID', named')
      BY <2>1, <2>2, <3>1, MapStep DEF Grows
    <3>3. Moved(r)
      BY <2>2, <3>1, <3>2, StepMoves
    <3>4. ASSUME NEW s \in Requests PROVE Good(req'[s], named')
      BY <3>2, <3>3, Sound DEF Moved
    <3> QED BY <2>1, <3>1, <3>2, <3>4 DEF HInv
  <2>3. ASSUME UNCHANGED <<bridge, index, req>> PROVE HInv'
    <3>1. \A i \in Ids : i > created' => home'[i] = Gone
      BY <2>3 DEF HInv, BridgeOK, bridge
    <3>2. BridgeOK' /\ \A i \in Ids : named[i] \subseteq named'[i]
      BY <1>2, <2>1, <3>1, Observed DEF HNext
    <3>3. Grows
      BY <3>2 DEF Grows
    <3>4. MapOK(fileInfo', named') /\ MapOK(nameToID', named')
      BY <2>3, <3>2 DEF HInv, MapOK, Had, index
    <3>5. ASSUME NEW s \in Requests PROVE Good(req'[s], named')
      BY <2>3, <3>3, Sound
    <3> QED BY <2>1, <3>2, <3>4, <3>5 DEF HInv
  <2> QED BY <1>2, <2>2, <2>3 DEF HNext, Next, Steps, Expire, Evict
<1> QED BY <1>1, <1>2

LEMMA InitHInv == HInit => HInv
<1> SUFFICES ASSUME HInit PROVE HInv
  OBVIOUS
<1>1. IInv /\ Init
  BY InitIInv DEF HInit
<1>2. PICK s \in env.seeds : /\ home = [i \in Ids |-> IF i <= Len(s) THEN s[i] ELSE Gone]
                             /\ created = Len(s)
  BY <1>1 DEF Init
<1>3. BridgeOK
  <2>1. \A i \in Ids : home[i] \in Paths \union {Gone}
    BY <1>1 DEF IInv, TypeOK
  <2>2. \A i \in Ids : i > created => home[i] = Gone
    <3>1. s \in Seq(env.paths) /\ Len(s) \in Nat /\ Ids \subseteq Nat
      BY <1>1, Basic, EnvIs DEF IInv
    <3> QED BY <1>2, <3>1
  <2>3. named = [i \in Ids |-> {home[i]} \ {Gone}]
    BY DEF HInit
  <2> QED BY <2>1, <2>2, <2>3 DEF BridgeOK
<1>4. MapOK(fileInfo, named) /\ MapOK(nameToID, named)
  BY <1>1, Basic DEF Init, MapOK
<1>5. ASSUME NEW r \in Requests PROVE Good(req[r], named)
  <2>1. PICK p : req[r] = Idle(p)
    BY <1>1 DEF Init
  <2>2. /\ req[r].pc = "idle" /\ req[r].op = "get" /\ req[r].last = NoReply
        /\ req[r].cont = "stat" /\ req[r].filled = FALSE /\ req[r].written = FALSE
        /\ req[r].status = "none"
    BY <2>1 DEF Idle
  <2> QED BY <2>2, Basic DEF Good, ReplyOK, HandOK, ReaderOK, NoReply
<1> QED BY <1>1, <1>3, <1>4, <1>5 DEF HInv

\* HInv holds in every state.
LEMMA HistoryInv == HSpec => []HInv
  BY InitHInv, StepHInv, PTL DEF HSpec

-----------------------------------------------------------------------------

\* Whatever browses, uploads, renames and deletes run meanwhile, and whatever the
\* bridge and the storage do, a GET is answered with a record of its own path.
\* (server.go:357-388, 687-693.)
THEOREM NeverAnothersContent == HSpec => []ServedWasNamed
<1>1. HInv => ServedWasNamed
  BY DEF HInv, Good, ReaderOK, Had, ServedWasNamed
<1> QED BY <1>1, HistoryInv, PTL

\* A DELETE or MOVE, however late it reaches the bridge, removes or renames only
\* a record that has had the path it names.  (server.go:478-503.)
THEOREM ChangesOnlyTheNamed == HSpec => ChangedWasNamed
<1> DEFINE Change == \A i \in Ids : home[i] # Gone /\ home'[i] # home[i] =>
         \E r \in Requests :
            /\ req[r].rec = i
            /\ \/ At(r, "delete") /\ home'[i] = Gone /\ req[r].dst \in named[i]
               \/ At(r, "rename") /\ home'[i] # Gone /\ req[r].path \in named[i]
<1>1. ASSUME HInv, HNext PROVE Change
  <2> SUFFICES ASSUME NEW i \in Ids, home[i] # Gone, home'[i] # home[i]
               PROVE  \E r \in Requests :
                        /\ req[r].rec = i
                        /\ \/ At(r, "delete") /\ home'[i] = Gone /\ req[r].dst \in named[i]
                           \/ At(r, "rename") /\ home'[i] # Gone /\ req[r].path \in named[i]
    OBVIOUS
  <2>1. PICK r \in Requests : Create(r) \/ DeleteFile(r) \/ RenameFile(r)
    BY <1>1, Frames DEF HNext, Next, Steps, Expire, Evict, bridge
  <2>2. /\ home \in [Ids -> Paths \union {Gone}] /\ created \in Nat /\ Ids \subseteq Nat
        /\ \A j \in Ids : j > created => home[j] = Gone
        /\ HandOK(req[r], named)
    BY <1>1, Basic DEF HInv, IInv, TypeOK, BridgeOK, Good
  <2>3. CASE Create(r)
    <3>1. \/ home' = home
          \/ home' = [home EXCEPT ![created + 1] = <<req[r].parent, req[r].path[2]>>]
      BY <2>3 DEF Create
    <3> QED BY <2>2, <3>1
  <2>4. CASE DeleteFile(r)
    <3>1. At(r, "delete") /\ home' = [home EXCEPT ![req[r].rec] = Gone]
      BY <2>4 DEF DeleteFile
    <3>2. req[r].rec = i /\ home'[i] = Gone
      BY <2>2, <3>1
    <3> QED BY <2>2, <3>1, <3>2 DEF HandOK, Had, At
  <2>5. CASE RenameFile(r)
    <3>1. At(r, "rename") /\ home' = [home EXCEPT ![req[r].rec] = <<@[1], req[r].dst[2]>>]
      BY <2>5 DEF RenameFile
    <3>2. req[r].rec = i /\ home'[i] = <<home[i][1], req[r].dst[2]>>
      BY <2>2, <3>1
    <3>3. home'[i] # Gone
      <4>1. DOMAIN <<home[i][1], req[r].dst[2]>> = {1, 2} /\ DOMAIN Gone = {}
        BY DEF Gone
      <4> QED BY <3>2, <4>1
    <3> QED BY <2>2, <3>1, <3>2, <3>3 DEF HandOK, Had, At
  <2> QED BY <2>1, <2>3, <2>4, <2>5
<1>2. ASSUME HInv, [HNext]_hvars PROVE [Change]_hvars
  BY <1>1, <1>2
<1> QED BY <1>2, HistoryInv, PTL DEF HSpec, ChangedWasNamed

=============================================================================
