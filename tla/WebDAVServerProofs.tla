------------------------- MODULE WebDAVServerProofs -------------------------
(***************************************************************************)
(* Proofs, for any number of requests, paths and records, of the type      *)
(* correctness of WebDAVServer, of ListedIsResolvable and of NamesAgree;   *)
(* that only writers upload, that s.mu is let go of, and that no handler   *)
(* goes round.                                                             *)
(***************************************************************************)
EXTENDS WebDAVServer, TLAPS

\* DELETE and MOVE find the record of p, and so does GET, unless GetFile left a
\* nil entry in its place.
Known(p) ==
    /\ nameToID[p] \in Ids
    /\ \/ fileInfo[p] \in Ids
       \/ fileInfo[p] = NilPtr /\ Fails("noRecord")

\* What a request may rely on between two of its steps.
ReqInv ==
    \A r \in Requests :
       /\ req[r].pc \in {"fetch", "getFile"} => req[r].rec \in Ids
       /\ req[r].pc = "publish" => req[r].rec \in Ids \union {NilPtr}
       /\ req[r].pc = "mkcol" => req[r].path[1] # Root
       /\ req[r].pc = "lookup" => fileInfo[req[r].path] # Absent
       /\ req[r].pc = "listStore" =>
            \A n \in Names : req[r].last[n] # Absent => Known(<<req[r].path[1], n>>)

IInv == TypeOK /\ ReqInv /\ ListedIsResolvable

-----------------------------------------------------------------------------

\* Facts about the constants and the helpers.
LEMMA Basic ==
    /\ Ids \subseteq Nat /\ Absent \notin Ids /\ NilPtr \notin Ids /\ NilPtr # Absent
    /\ Free \notin Requests /\ Orphan \notin Requests /\ Free # Orphan
    /\ Root \in Dirs /\ Root \notin Names /\ Folders \subseteq Dirs
    /\ \A p \in Paths : p[1] \in Dirs /\ p[2] \in Names /\ p = <<p[1], p[2]>>
    /\ Folders \intersect Names = {}
  BY ConstantsAssumption DEF ConstantsAssumption, Ids, Absent, NilPtr, Free, Orphan, Dirs, Paths

\* What a world may be.
LEMMA EnvIs ==
    ASSUME TypeOK
    PROVE  /\ env.records \in 0..MaxRecords /\ env.paths \subseteq Paths
           /\ UsedDirs \subseteq Dirs
           /\ env.seeds \subseteq {s \in Seq(env.paths) : Len(s) <= env.records}
  BY Basic, ConstantsAssumption DEF TypeOK, ConstantsAssumption, UsedDirs

LEMMA IdleType == ASSUME NEW p \in Paths PROVE Idle(p) \in Request
  BY Basic DEF Idle, Request, Pcs, AllOps, Statuses, NoReply, Dirs

LEMMA GotoType ==
    ASSUME req \in [Requests -> Request], NEW r \in Requests, NEW l \in Pcs, Goto(r, l)
    PROVE  /\ req' \in [Requests -> Request]
           /\ \A s \in Requests : s # r => req'[s] = req[s]
           /\ req'[r] = [req[r] EXCEPT !.pc = l]
           /\ req'[r].pc = l
  <1>1. req[r] \in Request
    OBVIOUS
  <1>2. [req[r] EXCEPT !.pc = l] \in Request /\ [req[r] EXCEPT !.pc = l].pc = l
    BY <1>1 DEF Request
  <1>3. req' = [req EXCEPT ![r] = [req[r] EXCEPT !.pc = l]]
    BY DEF Goto
  <1> QED
    BY <1>2, <1>3

LEMMA FinishType ==
    ASSUME req \in [Requests -> Request], NEW r \in Requests,
           NEW st \in Statuses, NEW b \in Ids \union {Absent, NilPtr}, Finish(r, st, b)
    PROVE  /\ req' \in [Requests -> Request]
           /\ \A s \in Requests : s # r => req'[s] = req[s]
           /\ req'[r].pc = "idle"
  <1>1. req[r] \in Request
    OBVIOUS
  <1>2. req[r].path \in Paths /\ req[r].op \in AllOps
    BY <1>1 DEF Request
  <1>3. Idle(req[r].path) \in Request /\ Idle(req[r].path).pc = "idle"
    BY <1>2, IdleType DEF Idle
  <1> DEFINE q == [Idle(req[r].path) EXCEPT !.op = req[r].op, !.status = st, !.body = b]
  <1>4. q \in Request /\ q.pc = "idle"
    BY <1>2, <1>3 DEF Request
  <1>5. req' = [req EXCEPT ![r] = q]
    BY DEF Finish
  <1> QED
    BY <1>4, <1>5

LEMMA CallListDirType ==
    ASSUME req \in [Requests -> Request], NEW r \in Requests,
           NEW c \in {"stat", "open", "dir"}, CallListDir(r, c)
    PROVE  /\ req' \in [Requests -> Request]
           /\ \A s \in Requests : s # r => req'[s] = req[s]
           /\ req'[r].pc = "listNil"
  <1> DEFINE q == [req[r] EXCEPT !.pc = "listNil", !.cont = c]
  <1>1. req[r] \in Request
    OBVIOUS
  <1>2. q \in Request /\ q.pc = "listNil"
    BY <1>1 DEF Request, Pcs
  <1>3. req' = [req EXCEPT ![r] = q]
    BY DEF CallListDir
  <1> QED
    BY <1>2, <1>3

LEMMA OpensType ==
    ASSUME req \in [Requests -> Request], NEW r \in Requests, OpensHandle(r)
    PROVE  /\ req' \in [Requests -> Request]
           /\ \A s \in Requests : s # r => req'[s] = req[s]
           /\ \/ req'[r].pc = "close"
              \/ req'[r].pc = "lookup" /\ fileInfo[req'[r].path] # Absent
  BY DEF OpensHandle, Goto, Request, Pcs

LEMMA ServeType ==
    ASSUME req \in [Requests -> Request], NEW r \in Requests, NEW i \in Ids, Serve(r, i)
    PROVE  /\ req' \in [Requests -> Request]
           /\ \A s \in Requests : s # r => req'[s] = req[s]
           /\ req'[r].pc \in {"close", "idle"}
  <1>1. CASE req[r].cont = "handle"
    BY <1>1 DEF Serve, Request, Pcs
  <1>2. CASE req[r].cont # "handle"
    BY <1>2, FinishType DEF Serve, Statuses
  <1> QED
    BY <1>1, <1>2

\* A step that only moves one request, to a point that relies on nothing,
\* preserves the invariant.
LEMMA ReqStep ==
    ASSUME IInv, NEW r \in Requests,
           req' \in [Requests -> Request],
           \A s \in Requests : s # r => req'[s] = req[s],
           \/ req'[r].pc \notin {"fetch", "getFile", "publish", "mkcol", "lookup", "listStore"}
           \/ req'[r].pc = "mkcol" /\ req'[r].path[1] # Root
           \/ req'[r].pc = "lookup" /\ fileInfo[req'[r].path] # Absent
           \/ req'[r].pc \in {"fetch", "getFile"} /\ req'[r].rec \in Ids
           \/ req'[r].pc = "publish" /\ req'[r].rec \in Ids \union {NilPtr},
           UNCHANGED <<bridge, index, mu, lists, cached>>
    PROVE  IInv'
  <1>1. TypeOK'
    BY DEF IInv, TypeOK, bridge, index, lists
  <1>2. ReqInv'
    BY DEF IInv, ReqInv, index, bridge, Known, Fails
  <1>3. ListedIsResolvable'
    BY DEF IInv, ListedIsResolvable, index, lists, bridge, Fails
  <1> QED
    BY <1>1, <1>2, <1>3 DEF IInv


-----------------------------------------------------------------------------
(* One lemma per group of actions. *)

LEMMA BeginStep ==
    ASSUME IInv, NEW r \in Requests, NEW op \in AllOps, NEW p \in Paths, NEW q \in Paths,
           NEW first \in {"stat", "open", "davStat", "mkcol"}, NEW full \in BOOLEAN,
           first = "mkcol" => p[1] # Root,
           Begin(r, op, p, q, first, full)
    PROVE  IInv'
  <1> DEFINE new == [Idle(p) EXCEPT !.pc = first, !.op = op, !.dst = q,
                                    !.filled = full, !.written = full]
  <1>1. Idle(p) \in Request
    BY IdleType
  <1>2. new \in Request /\ new.pc = first /\ new.path = p
    BY <1>1, ZenonT(60) DEF Request, Pcs, Idle
  <1>3. req' = [req EXCEPT ![r] = new]
    BY DEF Begin
  <1>4. req \in [Requests -> Request]
    BY DEF IInv, TypeOK
  <1>5. /\ req' \in [Requests -> Request]
        /\ \A s \in Requests : s # r => req'[s] = req[s]
        /\ req'[r].pc = first /\ req'[r].path = p
    BY <1>2, <1>3, <1>4
  <1> QED
    BY <1>5, ReqStep DEF Begin

LEMMA ArrivesStep ==
    ASSUME IInv, NEW r \in Requests, Arrives(r)
    PROVE  IInv'
  <1>0. env.paths \subseteq Paths /\ UsedDirs \subseteq Dirs
    BY EnvIs DEF IInv
  <1>1. ASSUME NEW p \in Paths, Get(r, p) PROVE IInv'
    BY <1>1, BeginStep DEF Get, AllOps
  <1>2. ASSUME NEW p \in Paths, Delete(r, p) PROVE IInv'
    BY <1>2, BeginStep DEF Delete, AllOps
  <1>3. ASSUME NEW p \in Paths, NEW full \in BOOLEAN, Put(r, p, full) PROVE IInv'
    BY <1>3, BeginStep DEF Put, AllOps
  <1>4. ASSUME NEW p \in Paths, NEW q \in Paths, Move(r, p, q) PROVE IInv'
    BY <1>4, BeginStep DEF Move, AllOps
  <1>5. ASSUME NEW d \in Dirs, Propfind(r, <<d, CHOOSE n \in Names : TRUE>>) PROVE IInv'
    <2>1. <<d, CHOOSE n \in Names : TRUE>> \in Paths
      BY ConstantsAssumption DEF ConstantsAssumption, Paths
    <2> QED
      BY <1>5, <2>1, BeginStep DEF Propfind, AllOps
  <1>6. ASSUME NEW d \in Dirs, Mkcol(r, <<d, CHOOSE n \in Names : TRUE>>) PROVE IInv'
    <2>1. <<d, CHOOSE n \in Names : TRUE>> \in Paths
      BY ConstantsAssumption DEF ConstantsAssumption, Paths
    <2> QED
      BY <1>6, <2>1, BeginStep DEF Mkcol, AllOps
  <1> QED
    BY <1>0, <1>1, <1>2, <1>3, <1>4, <1>5, <1>6 DEF Arrives

LEMMA ReturnsType ==
    ASSUME req \in [Requests -> Request], NEW r \in Requests,
           \/ \E ents : ListDirReturns(r, ents)
           \/ ListDirFails(r)
    PROVE  /\ req' \in [Requests -> Request]
           /\ \A s \in Requests : s # r => req'[s] = req[s]
           /\ req'[r].pc \in {"statAgain", "openEntry", "open", "idle"}
  <1>1. ASSUME NEW l \in {"statAgain", "openEntry", "open"}, Goto(r, l)
        PROVE  req' \in [Requests -> Request] /\ (\A s \in Requests : s # r => req'[s] = req[s])
               /\ req'[r].pc = l
    BY <1>1 DEF Goto, Request, Pcs
  <1>2. ASSUME NEW st \in {"ok", "notfound", "error"}, Finish(r, st, Absent)
        PROVE  req' \in [Requests -> Request] /\ (\A s \in Requests : s # r => req'[s] = req[s])
               /\ req'[r].pc = "idle"
    BY <1>2, FinishType DEF Statuses
  <1>3. req[r].cont \in {"stat", "open", "dir", "handle"}
    BY DEF Request
  <1>4. ASSUME NEW ents, ListDirReturns(r, ents)
        PROVE  \/ Goto(r, "statAgain") \/ Goto(r, "openEntry")
               \/ Finish(r, "ok", Absent) \/ Finish(r, "notfound", Absent)
    BY <1>3, <1>4 DEF ListDirReturns
  <1>5. ASSUME ListDirFails(r)
        PROVE  Goto(r, "open") \/ Finish(r, "error", Absent) \/ Finish(r, "notfound", Absent)
    BY <1>3, <1>5 DEF ListDirFails
  <1> QED
    BY <1>1, <1>2, <1>4, <1>5

\* Answering the request, or moving it to a point that relies on nothing.
LEMMA FinishStep ==
    ASSUME IInv, NEW r \in Requests,
           NEW st \in Statuses, NEW b \in Ids \union {Absent, NilPtr}, Finish(r, st, b),
           UNCHANGED <<bridge, index, mu, lists, cached>>
    PROVE  IInv'
  BY FinishType, ReqStep DEF IInv, TypeOK

LEMMA GotoStep ==
    ASSUME IInv, NEW r \in Requests,
           NEW l \in Pcs \ {"fetch", "getFile", "publish", "mkcol", "lookup", "listStore"}, Goto(r, l),
           UNCHANGED <<bridge, index, mu, lists, cached>>
    PROVE  IInv'
  <1>1. req \in [Requests -> Request]
    BY DEF IInv, TypeOK
  <1>2. /\ req' \in [Requests -> Request]
        /\ \A s \in Requests : s # r => req'[s] = req[s]
        /\ req'[r].pc = l
    BY <1>1, GotoType
  <1> QED
    BY <1>2, ReqStep

LEMMA ListDirSteps ==
    ASSUME IInv, NEW r \in Requests, ListDirStep(r)
    PROVE  IInv'
  <1> USE DEF At
  <1>t. req \in [Requests -> Request] /\ req[r] \in Request /\ Dir(r) \in Dirs
    BY Basic DEF IInv, TypeOK, Dir, Request
  <1>1. CASE ListSeesNil(r)
    BY <1>1, GotoStep DEF ListSeesNil, Pcs
  <1>2. CASE ListMake(r)
    <2>1. Goto(r, "listCheck") /\ listNil' = FALSE /\ listing' = [d \in Dirs |-> Unlisted]
          /\ UNCHANGED <<bridge, index, mu, fresh, cached>>
      BY <1>2 DEF ListMake
    <2>2. /\ req' \in [Requests -> Request]
          /\ \A s \in Requests : s # r => req'[s] = req[s]
          /\ req'[r].pc = "listCheck"
      BY <1>t, <2>1, GotoType DEF Pcs, Request
    <2>3. TypeOK'
      BY <2>1, <2>2 DEF IInv, TypeOK, bridge, index, Unlisted
    <2>4. ReqInv'
      BY <2>1, <2>2 DEF IInv, ReqInv, index, bridge, Known, Fails
    <2>5. ListedIsResolvable'
      BY <2>1, Basic DEF ListedIsResolvable, Unlisted
    <2> QED
      BY <2>3, <2>4, <2>5 DEF IInv
  <1>3. CASE ListCheck(r)
    <2>1. CASE ListDirReturns(r, listing[Dir(r)])
      BY <1>3, <2>1, <1>t, ReturnsType, ReqStep DEF ListCheck
    <2>2. CASE Goto(r, "listCall")
      BY <1>3, <2>2, GotoStep DEF ListCheck, Pcs
    <2> QED
      BY <1>3, <2>1, <2>2 DEF ListCheck
  <1>4. CASE ListCall(r)
    <2>1. ASSUME NEW last \in ListReplies(Dir(r)),
                 req' = [req EXCEPT ![r].pc = "listMerge", ![r].last = last,
                                    ![r].subs = IF Dir(r) = Root THEN folders ELSE {}]
          PROVE  IInv'
      <3> DEFINE q == [req[r] EXCEPT !.pc = "listMerge", !.last = last,
                                     !.subs = IF Dir(r) = Root THEN folders ELSE {}]
      <3>1. last \in [Names -> Ids \union {Absent}]
        BY DEF ListReplies
      <3>2. q \in Request /\ q.pc = "listMerge"
        BY <1>t, <3>1, ZenonT(60) DEF Request, Pcs, IInv, TypeOK
      <3>3. req' = [req EXCEPT ![r] = q]
        BY <2>1
      <3> QED
        BY <1>4, <1>t, <3>2, <3>3, ReqStep DEF ListCall
    <2>2. CASE ListDirFails(r)
      BY <1>4, <2>2, <1>t, ReturnsType, ReqStep DEF ListCall
    <2>3. CASE Goto(r, "listMerge")
      BY <1>4, <2>3, GotoStep DEF ListCall, Pcs
    <2> QED
      BY <1>4, <2>1, <2>2, <2>3 DEF ListCall
  <1>5. CASE ListStore(r)
    <2>1. /\ At(r, "listStore")
          /\ listing' = [listing EXCEPT ![Dir(r)] = Shown(r)]
          /\ fresh' = fresh \union {Dir(r)}
          /\ UNCHANGED <<bridge, index, mu, listNil, cached>>
      BY <1>5 DEF ListStore
    <2> DEFINE q == [req[r] EXCEPT !.last = NoReply, !.subs = {}]
    <2>2. q \in Request /\ q.cont = req[r].cont
      BY <1>t DEF Request, NoReply
    <2>3. /\ req' \in [Requests -> Request]
          /\ \A s \in Requests : s # r => req'[s] = req[s]
          /\ req'[r].pc \in {"statAgain", "openEntry", "idle"}
      <3>1. ASSUME NEW l \in {"statAgain", "openEntry"},
                   req' = [req EXCEPT ![r] = [q EXCEPT !.pc = l]]
            PROVE  /\ req' \in [Requests -> Request]
                   /\ \A s \in Requests : s # r => req'[s] = req[s]
                   /\ req'[r].pc = l
        <4>1. [q EXCEPT !.pc = l] \in Request /\ [q EXCEPT !.pc = l].pc = l
          BY <2>2 DEF Request, Pcs
        <4> QED
          BY <1>t, <3>1, <4>1
      <3>2. ASSUME NEW st \in {"ok", "notfound"}, Finish(r, st, Absent)
            PROVE  /\ req' \in [Requests -> Request]
                   /\ \A s \in Requests : s # r => req'[s] = req[s]
                   /\ req'[r].pc = "idle"
        BY <1>t, <3>2, FinishType DEF Statuses
      <3>3. \/ req' = [req EXCEPT ![r] = [q EXCEPT !.pc = "statAgain"]]
            \/ req' = [req EXCEPT ![r] = [q EXCEPT !.pc = "openEntry"]]
            \/ Finish(r, "ok", Absent)
            \/ Finish(r, "notfound", Absent)
        BY <1>5 DEF ListStore
      <3> QED
        BY <3>1, <3>2, <3>3
    <2>4. Shown(r) \subseteq Names \union Folders
      BY <1>t DEF Shown, Request
    <2>5. TypeOK'
      BY <2>1, <2>3, <2>4, <1>t DEF IInv, TypeOK, bridge, index
    <2>6. ReqInv'
      BY <2>1, <2>3 DEF IInv, ReqInv, index, bridge, Known, Fails
    <2>7. ListedIsResolvable'
      <3> SUFFICES ASSUME NEW d \in Dirs, NEW n \in Names, n \in listing'[d]
                   PROVE  Known(<<d, n>>)
        BY <2>1 DEF ListedIsResolvable, index, bridge, Known, Fails
      <3>1. CASE d = Dir(r)
        <4>1. n \in Shown(r)
          BY <2>1, <3>1 DEF IInv, TypeOK
        <4>2. req[r].subs \subseteq Folders
          BY <1>t DEF Request
        <4>3. req[r].last[n] # Absent
          BY <4>1, <4>2, Basic DEF Shown
        <4> QED
          BY <2>1, <3>1, <4>3 DEF IInv, ReqInv, Dir
      <3>2. CASE d # Dir(r)
        BY <2>1, <3>2 DEF IInv, TypeOK, ListedIsResolvable, Known
      <3> QED
        BY <3>1, <3>2
    <2> QED
      BY <2>5, <2>6, <2>7 DEF IInv
  <1> QED
    BY <1>1, <1>2, <1>3, <1>4, <1>5 DEF ListDirStep

LEMMA ListMergeStep ==
    ASSUME IInv, NEW r \in Requests, ListMerge(r)
    PROVE  IInv'
  <1>t. req \in [Requests -> Request] /\ req[r] \in Request /\ Dir(r) \in Dirs
    BY Basic DEF IInv, TypeOK, Dir, Request
  <1>1. /\ fileInfo' = Merged(fileInfo, r)
        /\ nameToID' = Merged(nameToID, r)
        /\ folderInfo' = folderInfo \union req[r].subs
        /\ UNCHANGED <<bridge, mu, lists, cached>>
    BY DEF ListMerge
  <1>2. /\ req' \in [Requests -> Request]
        /\ \A s \in Requests : s # r => req'[s] = req[s]
        /\ req'[r] = [req[r] EXCEPT !.pc = "listStore"]
    BY <1>t, GotoType DEF ListMerge, Pcs
  <1>3. req[r].last \in [Names -> Ids \union {Absent}] /\ req[r].subs \subseteq Folders
    BY <1>t DEF Request
  <1>4. \A p \in Paths : /\ fileInfo'[p] \in Ids \union {Absent, NilPtr}
                         /\ nameToID'[p] \in Ids \union {Absent}
                         /\ fileInfo[p] # Absent => fileInfo'[p] # Absent
                         /\ Known(p) => Known(p)'
    BY <1>1, <1>3, Basic DEF Merged, IInv, TypeOK, Known, Fails, bridge
  <1>5. \A n \in Names, p \in Paths :
           req[r].last[n] # Absent /\ p = <<Dir(r), n>> => Known(p)'
    BY <1>1, <1>3, <1>t DEF Merged, Paths, Known
  <1>6. TypeOK'
    BY <1>1, <1>2, <1>3, <1>4 DEF IInv, TypeOK, bridge, lists, Merged
  <1>7. ReqInv'
    <2> SUFFICES ASSUME NEW s \in Requests
                 PROVE  /\ req'[s].pc \in {"fetch", "getFile"} => req'[s].rec \in Ids
                        /\ req'[s].pc = "publish" => req'[s].rec \in Ids \union {NilPtr}
                        /\ req'[s].pc = "mkcol" => req'[s].path[1] # Root
                        /\ req'[s].pc = "lookup" => fileInfo'[req'[s].path] # Absent
                        /\ req'[s].pc = "listStore" =>
                             \A n \in Names, p \in Paths :
                                req'[s].last[n] # Absent /\ p = <<req'[s].path[1], n>> => Known(p)'
      <3>1. \A q \in Requests, n \in Names : <<req'[q].path[1], n>> \in Paths
        BY <1>6, Basic DEF TypeOK, Request, Paths
      <3> QED
        BY <3>1 DEF ReqInv, Known
    <2>1. CASE s = r
      <3>1. req'[s].pc = "listStore" /\ req'[s].last = req[r].last /\ req'[s].path = req[r].path
        BY <1>2, <1>t, <2>1 DEF Request
      <3> QED
        BY <3>1, <1>5 DEF Dir
    <2>2. CASE s # r
      <3>1. req'[s] = req[s] /\ req[s] \in Request
        BY <1>2, <1>t, <2>2
      <3>2. req[s].path \in Paths /\ \A n \in Names : <<req[s].path[1], n>> \in Paths
        BY <3>1, Basic DEF Request, Paths
      <3> QED
        BY <1>4, <3>1, <3>2 DEF IInv, ReqInv, Known
    <2> QED
      BY <2>1, <2>2
  <1>8. ListedIsResolvable'
    BY <1>1, <1>4 DEF IInv, ListedIsResolvable, lists, Paths, Known
  <1> QED
    BY <1>6, <1>7, <1>8 DEF IInv

LEMMA GetSteps ==
    ASSUME IInv, NEW r \in Requests,
           Stat(r) \/ StatAgain(r) \/ Lookup(r) \/ Fetch(r)
    PROVE  IInv'
  <1>t. /\ req \in [Requests -> Request] /\ req[r] \in Request
        /\ req[r].path \in Paths
        /\ fileInfo[req[r].path] \in Ids \union {Absent, NilPtr}
    BY DEF IInv, TypeOK, Request
  <1>1. ASSUME fileInfo[req[r].path] # Absent, UseMeta(r, "lookup"),
               UNCHANGED <<bridge, index, mu, lists, cached>>
        PROVE  IInv'
    <2>1. CASE Finish(r, "panic", Absent)
      BY <1>1, <2>1, FinishStep DEF Statuses
    <2>2. CASE Goto(r, "lookup")
      <3>1. /\ req' \in [Requests -> Request]
            /\ \A s \in Requests : s # r => req'[s] = req[s]
            /\ req'[r] = [req[r] EXCEPT !.pc = "lookup"] /\ req'[r].pc = "lookup"
        BY <1>t, <2>2, GotoType DEF Pcs
      <3>2. req'[r].path = req[r].path
        BY <1>t, <3>1 DEF Request
      <3> QED
        BY <1>1, <3>1, <3>2, ReqStep
    <2> QED
      BY <1>1, <2>1, <2>2 DEF UseMeta
  <1>2. CASE Stat(r)
    <2>1. CASE CallListDir(r, "stat")
      BY <1>2, <1>t, <2>1, CallListDirType, ReqStep DEF Stat
    <2> QED
      BY <1>1, <1>2, <2>1 DEF Stat
  <1>3. CASE StatAgain(r)
    <2>1. CASE Goto(r, "open")
      BY <1>3, <2>1, GotoStep DEF StatAgain, Pcs
    <2> QED
      BY <1>1, <1>3, <2>1 DEF StatAgain
  <1>4. CASE Lookup(r)
    <2> DEFINE id == fileInfo[req[r].path]
    <2>1. id # Absent
      BY <1>4 DEF IInv, ReqInv, Lookup, At
    <2>2. CASE Finish(r, "error", Absent)
      BY <1>4, <2>2, FinishStep DEF Lookup, Statuses
    <2>3. CASE id \in cached /\ Serve(r, id)
      <3>1. id \in Ids
        BY <2>3 DEF IInv, TypeOK
      <3> QED
        BY <1>4, <1>t, <2>3, <3>1, ServeType, ReqStep DEF Lookup
    <2>4. CASE id # NilPtr /\ req' = [req EXCEPT ![r].pc = "fetch", ![r].rec = id]
      <3> DEFINE q == [req[r] EXCEPT !.pc = "fetch", !.rec = id]
      <3>1. id \in Ids
        BY <1>t, <2>1, <2>4
      <3>2. q \in Request /\ q.pc = "fetch" /\ q.rec = id
        BY <1>t, <3>1 DEF Request, Pcs
      <3>3. req' = [req EXCEPT ![r] = q]
        BY <2>4
      <3> QED
        BY <1>4, <1>t, <3>1, <3>2, <3>3, ReqStep DEF Lookup
    <2> QED
      BY <1>4, <2>2, <2>3, <2>4 DEF Lookup
  <1>5. CASE Fetch(r)
    <2>1. req[r].rec \in Ids
      BY <1>5 DEF IInv, ReqInv, Fetch, At
    <2>2. CASE cached' = cached \union {req[r].rec} /\ Serve(r, req[r].rec)
      <3>1. /\ req' \in [Requests -> Request]
            /\ \A s \in Requests : s # r => req'[s] = req[s]
            /\ req'[r].pc \in {"close", "idle"}
        BY <1>t, <2>1, <2>2, ServeType
      <3>2. UNCHANGED <<bridge, index, mu, lists>>
        BY <1>5 DEF Fetch
      <3>3. TypeOK'
        BY <2>1, <2>2, <3>1, <3>2 DEF IInv, TypeOK, bridge, index, lists
      <3>4. ReqInv'
        BY <3>1, <3>2 DEF IInv, ReqInv, index, bridge, Known, Fails
      <3>5. ListedIsResolvable'
        BY <3>2 DEF IInv, ListedIsResolvable, index, lists, bridge, Fails
      <3> QED
        BY <3>3, <3>4, <3>5 DEF IInv
    <2>3. CASE Finish(r, "error", Absent) /\ UNCHANGED cached
      BY <1>5, <2>3, FinishStep DEF Fetch, Statuses
    <2> QED
      BY <1>5, <2>2, <2>3 DEF Fetch
  <1> QED
    BY <1>2, <1>3, <1>4, <1>5

LEMMA OpenSteps ==
    ASSUME IInv, NEW r \in Requests,
           OpenTopLevel(r) \/ OpenInFolder(r) \/ OpenEntry(r) \/ OpenDir(r)
    PROVE  IInv'
  <1>t. req \in [Requests -> Request] /\ req[r] \in Request /\ Dir(r) \in Dirs
    BY Basic DEF IInv, TypeOK, Dir, Request
  <1>u. UNCHANGED <<bridge, index, mu, lists, cached>>
    BY DEF OpenTopLevel, OpenInFolder, OpenEntry, OpenDir
  <1>1. CASE OpensHandle(r)
    <2>1. /\ req' \in [Requests -> Request]
          /\ \A s \in Requests : s # r => req'[s] = req[s]
          /\ \/ req'[r].pc = "close"
             \/ req'[r].pc = "lookup" /\ fileInfo[req'[r].path] # Absent
      BY <1>1, <1>t, OpensType
    <2> QED
      BY <1>u, <2>1, ReqStep
  <1>2. ASSUME NEW st \in {"notfound", "panic"}, Finish(r, st, Absent) PROVE IInv'
    BY <1>u, <1>2, FinishStep DEF Statuses
  <1>3. ASSUME NEW c \in {"open", "dir"}, CallListDir(r, c) PROVE IInv'
    BY <1>u, <1>3, <1>t, CallListDirType, ReqStep
  <1>4. CASE req' = [req EXCEPT ![r].pc = "close", ![r].parent = Dir(r)]
    <2> DEFINE q == [req[r] EXCEPT !.pc = "close", !.parent = Dir(r)]
    <2>1. q \in Request /\ q.pc = "close"
      BY <1>t DEF Request, Pcs
    <2>2. req' = [req EXCEPT ![r] = q]
      BY <1>4
    <2> QED
      BY <1>u, <1>t, <2>1, <2>2, ReqStep
  <1> QED
    BY <1>1, <1>2, <1>3, <1>4 DEF OpenTopLevel, OpenInFolder, OpenEntry, OpenDir

LEMMA UploadSteps ==
    ASSUME IInv, NEW r \in Requests,
           Close(r) \/ Resolve(r) \/ Blobs(r) \/ Create(r) \/ Publish(r) \/ GetFile(r)
    PROVE  IInv'
  <1> USE DEF At
  <1>t. /\ req \in [Requests -> Request] /\ req[r] \in Request
        /\ req[r].path \in Paths /\ req[r].path[2] \in Names /\ req[r].parent \in Dirs
        /\ req[r].rec \in Ids \union {Absent, NilPtr}
    BY Basic DEF IInv, TypeOK, Request
  <1>1. CASE Close(r)
    <2>1. CASE Goto(r, "resolve")
      BY <1>1, <2>1, GotoStep DEF Close, Pcs
    <2>2. ASSUME NEW st \in {"ok", "empty"}, Finish(r, st, req[r].rec) PROVE IInv'
      BY <1>1, <1>t, <2>2, FinishStep DEF Close, Statuses
    <2> QED
      BY <1>1, <2>1, <2>2 DEF Close
  <1>2. CASE Resolve(r)
    <2> DEFINE q == [req[r] EXCEPT !.pc = "blobs",
                                   !.parent = IF @ \in folderInfo THEN @ ELSE Root]
    <2>1. q \in Request /\ q.pc = "blobs"
      BY <1>t, Basic, ZenonT(60) DEF Request, Pcs
    <2>2. req' = [req EXCEPT ![r] = q]
      BY <1>2 DEF Resolve
    <2> QED
      BY <1>2, <1>t, <2>1, <2>2, ReqStep DEF Resolve
  <1>3. CASE Blobs(r)
    BY <1>3, GotoStep, FinishStep DEF Blobs, Pcs, Statuses
  <1>4. CASE Create(r)
    <2>0. env.records \in 0..MaxRecords
      BY EnvIs DEF IInv
    <2>1. ASSUME created < env.records, created' = created + 1,
                 home' = [home EXCEPT ![created + 1] = <<req[r].parent, req[r].path[2]>>],
                 req' \in [Requests -> Request],
                 \A s \in Requests : s # r => req'[s] = req[s],
                 \/ req'[r].pc = "publish" /\ req'[r].rec \in Ids \union {NilPtr}
                 \/ req'[r].pc = "idle"
          PROVE  IInv'
      <3>1. UNCHANGED <<env, folders, index, mu, lists, cached>>
        BY <1>4 DEF Create
      <3>2. <<req[r].parent, req[r].path[2]>> \in Paths
        BY <1>t DEF Paths
      <3>5. home' \in [Ids -> Paths \union {Gone}]
        BY <2>1, <3>2 DEF IInv, TypeOK
      <3>6. created' \in 0..MaxRecords
        BY <2>0, <2>1, ConstantsAssumption DEF IInv, TypeOK, ConstantsAssumption
      <3>3. TypeOK'
        BY <2>1, <3>1, <3>5, <3>6 DEF IInv, TypeOK, index, lists
      <3>4. ReqInv'
        BY <2>1, <3>1 DEF IInv, ReqInv, index, Known, Fails
      <3>7. ListedIsResolvable'
        BY <3>1 DEF IInv, ListedIsResolvable, index, lists, Fails
      <3> QED
        BY <3>3, <3>4, <3>7 DEF IInv
    <2>2. ASSUME NEW i \in Ids \union {NilPtr},
                 req' = [req EXCEPT ![r].pc = "publish", ![r].rec = i]
          PROVE  /\ req' \in [Requests -> Request]
                 /\ \A s \in Requests : s # r => req'[s] = req[s]
                 /\ req'[r].pc = "publish" /\ req'[r].rec = i
      <3> DEFINE q == [req[r] EXCEPT !.pc = "publish", !.rec = i]
      <3>1. q \in Request /\ q.pc = "publish" /\ q.rec = i
        BY <1>t DEF Request, Pcs
      <3>2. req' = [req EXCEPT ![r] = q]
        BY <2>2
      <3> QED
        BY <1>t, <3>1, <3>2
    <2>3. CASE /\ created < env.records /\ created' = created + 1
               /\ home' = [home EXCEPT ![created + 1] = <<req[r].parent, req[r].path[2]>>]
               /\ req' = [req EXCEPT ![r].pc = "publish", ![r].rec = created + 1]
      <3>1. created + 1 \in Ids
        BY <2>0, <2>3, ConstantsAssumption DEF Ids, IInv, TypeOK, ConstantsAssumption
      <3> QED
        BY <2>1, <2>2, <2>3, <3>1
    <2>4. CASE /\ created < env.records /\ created' = created + 1
               /\ home' = [home EXCEPT ![created + 1] = <<req[r].parent, req[r].path[2]>>]
               /\ Finish(r, "error", Absent)
      BY <1>t, <2>1, <2>4, FinishType DEF Statuses
    <2>5. CASE Finish(r, "error", Absent) /\ UNCHANGED <<home, created>>
      BY <1>4, <2>5, FinishStep DEF Create, Statuses, bridge
    <2>6. CASE /\ req' = [req EXCEPT ![r].pc = "publish", ![r].rec = NilPtr]
               /\ UNCHANGED <<home, created>>
      BY <1>4, <2>2, <2>6, ReqStep DEF Create, bridge
    <2> QED
      BY <1>4, <2>3, <2>4, <2>5, <2>6 DEF Create
  <1>5. CASE Publish(r)
    <2>1. UNCHANGED <<bridge, fileInfo, folderInfo, lists, cached>>
      BY <1>5 DEF Publish
    <2>2. CASE mu' = Orphan /\ Finish(r, "panic", Absent) /\ UNCHANGED nameToID
      <3>1. /\ req' \in [Requests -> Request]
            /\ \A s \in Requests : s # r => req'[s] = req[s]
            /\ req'[r].pc = "idle"
        BY <1>t, <2>2, FinishType DEF Statuses
      <3>2. TypeOK'
        BY <2>1, <2>2, <3>1 DEF IInv, TypeOK, bridge, lists
      <3>3. ReqInv'
        BY <2>1, <2>2, <3>1 DEF IInv, ReqInv, bridge, Known, Fails
      <3> QED
        BY <2>1, <2>2, <3>2, <3>3 DEF IInv, ListedIsResolvable, lists, bridge, Fails
    <2>3. CASE /\ req[r].rec # NilPtr
               /\ mu' = r
               /\ nameToID' = [nameToID EXCEPT ![req[r].path] = req[r].rec]
               /\ Goto(r, "getFile")
      <3>1. /\ req' \in [Requests -> Request]
            /\ \A s \in Requests : s # r => req'[s] = req[s]
            /\ req'[r] = [req[r] EXCEPT !.pc = "getFile"] /\ req'[r].pc = "getFile"
        BY <1>t, <2>3, GotoType DEF Pcs
      <3>2. req'[r].rec = req[r].rec /\ req[r].rec \in Ids
        BY <1>5, <1>t, <2>3, <3>1 DEF Request, IInv, ReqInv, Publish
      <3>3. TypeOK'
        BY <1>t, <2>1, <2>3, <3>1, <3>2 DEF IInv, TypeOK, bridge, lists
      <3>5. \A s \in Requests : s # r => req'[s] = req[s]
        BY <3>1
      <3>6. req'[r].pc = "getFile" /\ req'[r].rec \in Ids /\ UNCHANGED fileInfo
        BY <2>1, <3>1, <3>2
      <3>7. \A p \in Paths : Known(p) => Known(p)'
        BY <1>t, <2>1, <2>3, <3>2 DEF IInv, TypeOK, Known, Fails, bridge
      <3>8. \A s \in Requests : \A n \in Names : <<req[s].path[1], n>> \in Paths
        BY <1>t, Basic DEF Request, Paths
      <3>4. ReqInv'
        BY <3>5, <3>6, <3>7, <3>8 DEF IInv, ReqInv, Known
      <3>9. ListedIsResolvable'
        BY <2>1, <3>7 DEF IInv, ListedIsResolvable, lists, Paths, Known
      <3> QED
        BY <3>3, <3>4, <3>9 DEF IInv
    <2> QED
      BY <1>5, <2>2, <2>3 DEF Publish
  <1>6. CASE GetFile(r)
    <2>1. mu' = Free /\ UNCHANGED <<bridge, nameToID, folderInfo, lists, cached>>
      BY <1>6 DEF GetFile
    <2>2. req[r].rec \in Ids
      BY <1>6 DEF GetFile, IInv, ReqInv
    <2>3. /\ req' \in [Requests -> Request]
          /\ \A s \in Requests : s # r => req'[s] = req[s]
          /\ req'[r].pc = "idle"
      BY <1>6, <1>t, <2>2, FinishType DEF GetFile, Statuses
    <2>4. /\ fileInfo' \in [Paths -> Ids \union {Absent, NilPtr}]
          /\ \A p \in Paths : /\ fileInfo[p] # Absent => fileInfo'[p] # Absent
                              /\ Known(p) => Known(p)'
      BY <1>6, <1>t, <2>2, Basic DEF GetFile, IInv, TypeOK, Known, Fails, bridge
    <2>5. TypeOK'
      BY <2>1, <2>3, <2>4 DEF IInv, TypeOK, bridge, lists
    <2>6. \A s \in Requests : req[s].path \in Paths /\
                              \A n \in Names : <<req[s].path[1], n>> \in Paths
      BY <1>t, Basic DEF Request, Paths
    <2>7. ReqInv'
      BY <2>3, <2>4, <2>6 DEF IInv, ReqInv, Known
    <2>8. ListedIsResolvable'
      BY <2>1, <2>4 DEF IInv, ListedIsResolvable, lists, Paths, Known
    <2> QED
      BY <2>5, <2>7, <2>8 DEF IInv
  <1> QED
    BY <1>1, <1>2, <1>3, <1>4, <1>5, <1>6

LEMMA RemoveSteps ==
    ASSUME IInv, NEW r \in Requests,
           \/ DavStat(r) \/ Remove(r) \/ DeleteFile(r)
           \/ LookOld(r) \/ RenameFile(r) \/ CreateFolder(r)
    PROVE  IInv'
  <1>t. /\ req \in [Requests -> Request] /\ req[r] \in Request
        /\ req[r].path \in Paths /\ req[r].dst \in Paths
        /\ req[r].rec \in Ids \union {Absent, NilPtr}
    BY DEF IInv, TypeOK, Request
  <1>1. ASSUME NEW st \in Statuses, NEW b \in Ids \union {Absent, NilPtr}, Finish(r, st, b)
        PROVE  /\ req' \in [Requests -> Request]
               /\ \A s \in Requests : s # r => req'[s] = req[s]
               /\ req'[r].pc = "idle"
    BY <1>1, <1>t, FinishType
  <1>2. ASSUME NEW p \in Paths, NEW next \in {"delete", "rename"}, Resolves(r, p, next),
               UNCHANGED <<bridge, index, mu, lists, cached>>
        PROVE  IInv'
    <2>1. CASE nameToID[p] = Absent
      BY <1>2, <2>1, FinishStep DEF Resolves, Statuses
    <2>2. CASE nameToID[p] # Absent
      <3> DEFINE q == [req[r] EXCEPT !.pc = next, !.rec = nameToID[p]]
      <3>1. nameToID[p] \in Ids
        BY <2>2 DEF IInv, TypeOK
      <3>2. q \in Request /\ q.pc = next
        BY <1>t, <3>1 DEF Request, Pcs
      <3>3. req' = [req EXCEPT ![r] = q]
        BY <1>2, <2>2 DEF Resolves
      <3> QED
        BY <1>2, <1>t, <3>2, <3>3, ReqStep
    <2> QED
      BY <2>1, <2>2
  \* A step that changes only what the bridge holds, and answers or goes on.
  <1>3. ASSUME req' \in [Requests -> Request],
               \A s \in Requests : s # r => req'[s] = req[s],
               req'[r].pc \in {"idle", "lookOld"},
               home' \in [Ids -> Paths \union {Gone}], folders' \subseteq Folders,
               UNCHANGED <<env, created, index, mu, lists, cached>>
        PROVE  IInv'
    <2>1. TypeOK'
      BY <1>3 DEF IInv, TypeOK, index, lists
    <2>2. ReqInv'
      BY <1>3 DEF IInv, ReqInv, index, Known, Fails
    <2>3. ListedIsResolvable'
      BY <1>3 DEF IInv, ListedIsResolvable, index, lists, Fails
    <2> QED
      BY <2>1, <2>2, <2>3 DEF IInv
  <1>4. CASE DavStat(r)
    <2>1. CASE Finish(r, "panic", Absent)
      BY <1>4, <2>1, FinishStep DEF DavStat, Statuses
    <2>2. CASE Goto(r, "remove")
      BY <1>4, <2>2, GotoStep DEF DavStat, Pcs
    <2> QED
      BY <1>4, <2>1, <2>2 DEF DavStat
  <1>5. CASE Remove(r)
    BY <1>5, <1>2, <1>t DEF Remove
  <1>6. CASE LookOld(r)
    BY <1>6, <1>2, <1>t DEF LookOld
  <1>7. CASE DeleteFile(r)
    <2>1. UNCHANGED <<env, created, folders, index, mu, lists, cached>>
      BY <1>7 DEF DeleteFile
    <2>2. home' \in [Ids -> Paths \union {Gone}]
      BY <1>7 DEF DeleteFile, IInv, TypeOK
    <2>3. \/ Goto(r, "lookOld")
          \/ \E st \in {"ok", "error"}, b \in {req[r].rec, Absent} : Finish(r, st, b)
      BY <1>7 DEF DeleteFile, Deleted
    <2>4. /\ req' \in [Requests -> Request]
          /\ \A s \in Requests : s # r => req'[s] = req[s]
          /\ req'[r].pc \in {"idle", "lookOld"}
      BY <2>3, <1>1, <1>t, GotoType DEF Pcs, Statuses
    <2> QED
      BY <2>1, <2>2, <2>4, <1>3 DEF IInv, TypeOK
  <1>8. CASE RenameFile(r)
    <2>1. UNCHANGED <<env, created, folders, index, mu, lists, cached>>
      BY <1>8 DEF RenameFile
    <2>2. home' \in [Ids -> Paths \union {Gone}]
      <3>1. CASE UNCHANGED home
        BY <3>1 DEF IInv, TypeOK
      <3>2. CASE /\ home[req[r].rec] # Gone
                 /\ home' = [home EXCEPT ![req[r].rec] = <<@[1], req[r].dst[2]>>]
        <4>1. ASSUME req[r].rec \in Ids
              PROVE  <<home[req[r].rec][1], req[r].dst[2]>> \in Paths
          BY <3>2, <4>1, <1>t, Basic DEF IInv, TypeOK, Paths
        <4> QED
          BY <3>2, <4>1 DEF IInv, TypeOK
      <3> QED
        BY <1>8, <3>1, <3>2 DEF RenameFile
    <2>3. \E st \in {"ok", "error"}, b \in {req[r].rec, Absent} : Finish(r, st, b)
      BY <1>8 DEF RenameFile
    <2>4. /\ req' \in [Requests -> Request]
          /\ \A s \in Requests : s # r => req'[s] = req[s]
          /\ req'[r].pc = "idle"
      BY <2>3, <1>1, <1>t DEF Statuses
    <2> QED
      BY <2>1, <2>2, <2>4, <1>3 DEF IInv, TypeOK
  <1>9. CASE CreateFolder(r)
    <2>1. UNCHANGED <<env, home, created, index, mu, lists, cached>>
      BY <1>9 DEF CreateFolder
    <2>2. \E st \in {"ok", "error"} : Finish(r, st, Absent)
      BY <1>9 DEF CreateFolder
    <2>3. Dir(r) \in Folders
      BY <1>9, <1>t, Basic DEF CreateFolder, At, IInv, ReqInv, Dir, Dirs
    <2>4. folders' \subseteq Folders
      BY <1>9, <2>3 DEF CreateFolder, IInv, TypeOK
    <2>5. /\ req' \in [Requests -> Request]
          /\ \A s \in Requests : s # r => req'[s] = req[s]
          /\ req'[r].pc = "idle"
      BY <2>2, <1>1 DEF Statuses
    <2> QED
      BY <2>1, <2>4, <2>5, <1>3 DEF IInv, TypeOK
  <1> QED
    BY <1>4, <1>5, <1>6, <1>7, <1>8, <1>9

LEMMA NextStep ==
    ASSUME IInv, [Next]_vars
    PROVE  IInv'
  <1>1. CASE UNCHANGED vars
    BY <1>1 DEF IInv, TypeOK, ReqInv, ListedIsResolvable, vars, bridge, index, lists, Known, Fails
  <1>2. ASSUME NEW r \in Requests, Arrives(r) \/ LockStep(r) \/ PlainStep(r) \/ StorageStep(r)
        PROVE  IInv'
    BY <1>2, ArrivesStep, ListDirSteps, ListMergeStep, GetSteps, OpenSteps, UploadSteps,
       RemoveSteps DEF LockStep, PlainStep, StorageStep
  <1>3. ASSUME NEW d \in Dirs, Expire(d) PROVE IInv'
    BY <1>3 DEF Expire, IInv, TypeOK, ReqInv, ListedIsResolvable, bridge, index, Known, Fails
  <1>4. ASSUME NEW i \in Ids, Evict(i) PROVE IInv'
    BY <1>4 DEF Evict, IInv, TypeOK, ReqInv, ListedIsResolvable, bridge, index, lists, Known, Fails
  <1> QED
    BY <1>1, <1>2, <1>3, <1>4 DEF Next

LEMMA InitIInv == Init => IInv
  <1> SUFFICES ASSUME Init PROVE IInv
    OBVIOUS
  <1>0. env \in Environments
    BY DEF Init
  <1>1. PICK s \in env.seeds : /\ home = [i \in Ids |-> IF i <= Len(s) THEN s[i] ELSE Gone]
                               /\ created = Len(s)
    BY DEF Init
  <1>a. /\ s \in Seq(env.paths) /\ Len(s) \in 0..MaxRecords
        /\ env.paths \subseteq Paths
    BY <1>0, ConstantsAssumption DEF ConstantsAssumption
  <1>2. Len(s) \in 0..MaxRecords
    BY <1>a
  <1>3. \A i \in Ids : i <= Len(s) => s[i] \in Paths
    BY <1>a DEF Ids
  <1>b. folders \subseteq Folders
    BY <1>a, Basic DEF Init, UsedDirs, Dirs
  <1>4. home \in [Ids -> Paths \union {Gone}] /\ created \in 0..MaxRecords
    BY <1>1, <1>2, <1>3
  <1>5. (CHOOSE p \in Paths : TRUE) \in Paths
    <2>1. PICK n \in Names : TRUE
      BY ConstantsAssumption DEF ConstantsAssumption
    <2>2. <<Root, n>> \in Paths
      BY Basic DEF Paths
    <2> QED
      BY <2>2
  <1>6. /\ req \in [Requests -> Request]
        /\ \A r \in Requests : req[r].pc = "idle"
    BY <1>5, IdleType DEF Init, Idle
  <1>7. TypeOK
    BY <1>0, <1>b, <1>4, <1>6 DEF Init, TypeOK, Unlisted
  <1>8. ReqInv
    BY <1>6 DEF ReqInv
  <1>9. ListedIsResolvable
    BY Basic DEF Init, ListedIsResolvable, Unlisted
  <1> QED
    BY <1>7, <1>8, <1>9 DEF IInv

LEMMA Invariance == Spec => []IInv
  BY InitIInv, NextStep, PTL DEF Spec

-----------------------------------------------------------------------------
(* The two maps that name the records. *)

Reliable == ~Fails("bridge") /\ ~Fails("noRecord")

\* While a request is between Publish and GetFile it holds s.mu, and the maps
\* differ in its own entry only.
AgreeInv ==
    Reliable =>
      /\ mu # Orphan
      /\ \A r \in Requests :
           /\ req[r].pc = "getFile" <=> mu = r
           /\ req[r].pc = "publish" => req[r].rec # NilPtr
           /\ mu = r => nameToID = [fileInfo EXCEPT ![req[r].path] = req[r].rec]
      /\ mu = Free => nameToID = fileInfo

\* The steps of a request that neither take nor release s.mu for longer than
\* the step, nor write the maps.
Elsewhere(r) ==
    \/ Arrives(r) \/ ListDirStep(r) \/ Stat(r) \/ StatAgain(r) \/ Lookup(r) \/ StorageStep(r)
    \/ OpenTopLevel(r) \/ OpenInFolder(r) \/ OpenEntry(r) \/ OpenDir(r)
    \/ Close(r) \/ Resolve(r)
    \/ DavStat(r) \/ Remove(r) \/ DeleteFile(r) \/ LookOld(r) \/ RenameFile(r) \/ CreateFolder(r)

LEMMA EnvKept == [Next]_vars => UNCHANGED env
  <1> SUFFICES ASSUME [Next]_vars PROVE UNCHANGED env
    OBVIOUS
  <1> USE DEF bridge
  <1>1. CASE UNCHANGED vars \/ (\E d \in Dirs : Expire(d)) \/ (\E i \in Ids : Evict(i))
    BY <1>1 DEF vars, Expire, Evict
  <1>2. ASSUME NEW r \in Requests, Arrives(r) PROVE UNCHANGED env
    BY <1>2 DEF Arrives, Get, Propfind, Put, Delete, Move, Mkcol, Begin
  <1>3. ASSUME NEW r \in Requests, LockStep(r) PROVE UNCHANGED env
    BY <1>3 DEF LockStep, ListMerge, Stat, StatAgain, Lookup, OpenTopLevel, OpenInFolder,
             OpenEntry, OpenDir, Resolve, Publish, DavStat, Remove, LookOld
  <1>4. ASSUME NEW r \in Requests, ListDirStep(r) PROVE UNCHANGED env
    BY <1>4 DEF ListDirStep, ListSeesNil, ListMake, ListCheck, ListCall, ListStore
  <1>5. ASSUME NEW r \in Requests, PlainStep(r), ~ListDirStep(r) PROVE UNCHANGED env
    BY <1>5 DEF PlainStep, Close, Create, GetFile, DeleteFile, RenameFile, CreateFolder
  <1>6. ASSUME NEW r \in Requests, StorageStep(r) PROVE UNCHANGED env
    BY <1>6 DEF StorageStep, Fetch, Blobs
  <1> QED
    BY <1>1, <1>2, <1>3, <1>4, <1>5, <1>6 DEF Next

LEMMA ElsewhereFrame ==
    ASSUME IInv, NEW r \in Requests, Elsewhere(r)
    PROVE  /\ UNCHANGED <<fileInfo, nameToID, mu>>
           /\ req[r].pc \notin {"getFile", "publish"}
           /\ req'[r].pc \notin {"getFile", "publish"}
           /\ \A s \in Requests : s # r => req'[s] = req[s]
  <1> USE DEF At, index
  <1>t. req \in [Requests -> Request] /\ req[r] \in Request
    BY DEF IInv, TypeOK
  <1>1. ASSUME NEW l \in Pcs, Goto(r, l)
        PROVE  req'[r].pc = l /\ \A s \in Requests : s # r => req'[s] = req[s]
    BY <1>1, <1>t, GotoType
  <1>2. ASSUME NEW st, NEW b, Finish(r, st, b)
        PROVE  req'[r].pc = "idle" /\ \A s \in Requests : s # r => req'[s] = req[s]
    BY <1>2, <1>t DEF Finish, Idle
  <1>3. ASSUME Arrives(r)
        PROVE  \E op, p, q, full : \E first \in {"stat", "open", "davStat", "mkcol"} :
                  Begin(r, op, p, q, first, full)
    BY <1>3 DEF Arrives, Get, Put, Delete, Move, Propfind, Mkcol
  <1>4. CASE Arrives(r)
    <2>0. PICK op, p, q, full : \E first \in {"stat", "open", "davStat", "mkcol"} :
                  Begin(r, op, p, q, first, full)
      BY <1>3, <1>4
    <2>1. PICK first \in {"stat", "open", "davStat", "mkcol"} : Begin(r, op, p, q, first, full)
      BY <2>0
    <2> DEFINE new == [Idle(p) EXCEPT !.pc = first, !.op = op, !.dst = q,
                                      !.filled = full, !.written = full]
    <2>2. new.pc = first
      BY DEF Idle
    <2>3. req' = [req EXCEPT ![r] = new]
      BY <2>1 DEF Begin
    <2> QED
      BY <2>1, <2>2, <2>3, <1>t DEF Begin
  <1>5. CASE ListDirStep(r)
    <2>1. CASE ListSeesNil(r)
      BY <2>1, <1>1 DEF ListSeesNil, Pcs
    <2>2. CASE ListMake(r)
      BY <2>2, <1>1 DEF ListMake, Pcs
    <2>3. CASE ListCheck(r)
      BY <2>3, <1>1, <1>t, ReturnsType DEF ListCheck, Pcs
    <2>4. CASE ListCall(r)
      <3>1. CASE ListDirFails(r)
        BY <2>4, <3>1, <1>t, ReturnsType DEF ListCall
      <3>2. CASE Goto(r, "listMerge")
        BY <2>4, <3>2, <1>1 DEF ListCall, Pcs
      <3>3. CASE \E last : req' = [req EXCEPT ![r].pc = "listMerge", ![r].last = last,
                                              ![r].subs = IF Dir(r) = Root THEN folders ELSE {}]
        <4>1. req'[r].pc = "listMerge"
          BY <3>3, <1>t DEF Request
        <4> QED
          BY <2>4, <3>3, <4>1, <1>t DEF ListCall
      <3> QED
        BY <2>4, <3>1, <3>2, <3>3 DEF ListCall
    <2>5. CASE ListStore(r)
      <3> DEFINE q == [req[r] EXCEPT !.last = NoReply, !.subs = {}]
      <3>1. CASE \E l \in {"statAgain", "openEntry"} : req' = [req EXCEPT ![r] = [q EXCEPT !.pc = l]]
        <4>1. q \in Request
          BY <1>t DEF Request, NoReply
        <4>2. \A l \in {"statAgain", "openEntry"} : [q EXCEPT !.pc = l].pc = l
          BY <4>1 DEF Request
        <4>3. req'[r].pc \in {"statAgain", "openEntry"}
          BY <3>1, <4>2, <1>t
        <4> QED
          BY <2>5, <3>1, <4>3, <1>t DEF ListStore
      <3>2. CASE \E st : Finish(r, st, Absent)
        BY <2>5, <3>2, <1>2 DEF ListStore
      <3> QED
        BY <2>5, <3>1, <3>2 DEF ListStore
    <2> QED
      BY <1>5, <2>1, <2>2, <2>3, <2>4, <2>5 DEF ListDirStep
  <1>6. CASE Stat(r) \/ StatAgain(r)
    <2>1. ASSUME CallListDir(r, "stat")
          PROVE  req'[r].pc = "listNil" /\ \A s \in Requests : s # r => req'[s] = req[s]
      BY <2>1, <1>t, CallListDirType
    <2> QED
      BY <1>1, <1>2, <1>6, <2>1 DEF Stat, StatAgain, UseMeta, Pcs
  <1>7. ASSUME NEW i, Serve(r, i)
        PROVE  /\ req'[r].pc \in {"close", "idle"}
               /\ \A s \in Requests : s # r => req'[s] = req[s]
    <2>1. CASE req[r].cont = "handle"
      <3> DEFINE q == [req[r] EXCEPT !.pc = "close", !.filled = TRUE, !.rec = i]
      <3>1. q.pc = "close"
        BY <1>t DEF Request
      <3>2. req' = [req EXCEPT ![r] = q]
        BY <1>7, <2>1 DEF Serve
      <3> QED
        BY <3>1, <3>2, <1>t
    <2>2. CASE req[r].cont # "handle"
      BY <1>2, <1>7, <2>2 DEF Serve
    <2> QED
      BY <2>1, <2>2
  <1>8. CASE Lookup(r)
    <2>1. CASE req' = [req EXCEPT ![r].pc = "fetch", ![r].rec = fileInfo[req[r].path]]
      <3> DEFINE q == [req[r] EXCEPT !.pc = "fetch", !.rec = fileInfo[req[r].path]]
      <3>1. q.pc = "fetch"
        BY <1>t DEF Request
      <3>2. req' = [req EXCEPT ![r] = q]
        BY <2>1
      <3> QED
        BY <1>8, <3>1, <3>2, <1>t DEF Lookup
    <2> QED
      BY <1>2, <1>7, <1>8, <2>1 DEF Lookup
  <1>9. CASE StorageStep(r)
    BY <1>1, <1>2, <1>7, <1>9 DEF StorageStep, Fetch, Blobs, Pcs
  <1>10. CASE OpenTopLevel(r) \/ OpenInFolder(r) \/ OpenEntry(r) \/ OpenDir(r)
    <2>1. ASSUME OpensHandle(r)
          PROVE  /\ req'[r].pc \in {"close", "lookup"}
                 /\ \A s \in Requests : s # r => req'[s] = req[s]
      BY <2>1, <1>t, OpensType
    <2>2. ASSUME NEW c \in {"open", "dir"}, CallListDir(r, c)
          PROVE  req'[r].pc = "listNil" /\ \A s \in Requests : s # r => req'[s] = req[s]
      BY <2>2, <1>t, CallListDirType
    <2>3. ASSUME req' = [req EXCEPT ![r].pc = "close", ![r].parent = Dir(r)]
          PROVE  req'[r].pc = "close" /\ \A s \in Requests : s # r => req'[s] = req[s]
      <3> DEFINE q == [req[r] EXCEPT !.pc = "close", !.parent = Dir(r)]
      <3>1. q.pc = "close"
        BY <1>t DEF Request
      <3>2. req' = [req EXCEPT ![r] = q]
        BY <2>3
      <3> QED
        BY <3>1, <3>2, <1>t
    <2> QED
      BY <1>2, <1>10, <2>1, <2>2, <2>3 DEF OpenTopLevel, OpenInFolder, OpenEntry, OpenDir
  <1>11. CASE Close(r)
    BY <1>1, <1>2, <1>11 DEF Close, Pcs
  <1>12. CASE Resolve(r)
    <2> DEFINE q == [req[r] EXCEPT !.pc = "blobs",
                                   !.parent = IF @ \in folderInfo THEN @ ELSE Root]
    <2>1. q.pc = "blobs"
      BY <1>t DEF Request
    <2>2. req' = [req EXCEPT ![r] = q]
      BY <1>12 DEF Resolve
    <2> QED
      BY <1>12, <2>1, <2>2, <1>t DEF Resolve
  <1>13. ASSUME NEW path, NEW next \in {"delete", "rename"}, Resolves(r, path, next)
         PROVE  /\ req'[r].pc \in {"idle", "delete", "rename"}
                /\ \A s \in Requests : s # r => req'[s] = req[s]
    <2>1. CASE req' = [req EXCEPT ![r].pc = next, ![r].rec = nameToID[path]]
      <3> DEFINE q == [req[r] EXCEPT !.pc = next, !.rec = nameToID[path]]
      <3>1. q.pc = next
        BY <1>t DEF Request
      <3>2. req' = [req EXCEPT ![r] = q]
        BY <2>1
      <3> QED
        BY <3>1, <3>2, <1>t
    <2> QED
      BY <1>2, <1>13, <2>1 DEF Resolves
  <1>14. CASE Remove(r) \/ LookOld(r)
    BY <1>13, <1>14 DEF Remove, LookOld
  <1>15. CASE DavStat(r) \/ DeleteFile(r) \/ RenameFile(r) \/ CreateFolder(r)
    BY <1>1, <1>2, <1>15 DEF DavStat, DeleteFile, Deleted, RenameFile, CreateFolder, Pcs
  <1> QED
    BY <1>4, <1>5, <1>6, <1>8, <1>9, <1>10, <1>11, <1>12, <1>14, <1>15 DEF Elsewhere

LEMMA AgreeStep ==
    ASSUME IInv, AgreeInv, [Next]_vars
    PROVE  AgreeInv'
  <1> SUFFICES ASSUME Reliable PROVE AgreeInv'
    BY EnvKept DEF AgreeInv, Reliable, Fails
  <1> USE DEF At
  <1>t. req \in [Requests -> Request]
    BY DEF IInv, TypeOK
  <1>1. CASE UNCHANGED vars
    BY <1>1 DEF AgreeInv, vars, index
  <1>2. ASSUME NEW d \in Dirs, Expire(d) PROVE AgreeInv'
    BY <1>2 DEF Expire, AgreeInv, index
  <1>3. ASSUME NEW i \in Ids, Evict(i) PROVE AgreeInv'
    BY <1>3 DEF Evict, AgreeInv, index
  <1>4. ASSUME NEW r \in Requests, Elsewhere(r) PROVE AgreeInv'
    <2>1. /\ UNCHANGED <<fileInfo, nameToID, mu>>
          /\ req[r].pc \notin {"getFile", "publish"}
          /\ req'[r].pc \notin {"getFile", "publish"}
          /\ \A s \in Requests : s # r => req'[s] = req[s]
      BY <1>4, ElsewhereFrame
    <2> QED
      BY <2>1 DEF AgreeInv
  <1>5. ASSUME NEW r \in Requests, ListMerge(r) PROVE AgreeInv'
    <2>1. /\ mu = Free /\ mu' = Free
          /\ fileInfo' = Merged(fileInfo, r) /\ nameToID' = Merged(nameToID, r)
          /\ req[r].pc = "listMerge"
      BY <1>5 DEF ListMerge
    <2>2. /\ req'[r].pc = "listStore"
          /\ \A s \in Requests : s # r => req'[s] = req[s]
      BY <1>5, <1>t, GotoType DEF ListMerge, Pcs
    <2> QED
      BY <2>1, <2>2, Basic DEF AgreeInv, Merged
  <1>6. ASSUME NEW r \in Requests, Create(r) PROVE AgreeInv'
    <2>1. UNCHANGED <<fileInfo, nameToID, mu>> /\ req[r].pc = "create"
      BY <1>6 DEF Create, index
    <2>2. \A s \in Requests : s # r => req'[s] = req[s]
      BY <1>6, <1>t DEF Create, Finish
    <2>3. \/ req'[r].pc = "publish" /\ req'[r].rec # NilPtr
          \/ req'[r].pc = "idle"
      <3>1. CASE \E st : Finish(r, st, Absent)
        BY <3>1, <1>t DEF Finish, Idle
      <3>2. CASE created < env.records
                 /\ req' = [req EXCEPT ![r].pc = "publish", ![r].rec = created + 1]
        <4> DEFINE q == [req[r] EXCEPT !.pc = "publish", !.rec = created + 1]
        <4>1. q.pc = "publish" /\ q.rec = created + 1
          BY <1>t DEF Request
        <4>2. created + 1 # NilPtr
          BY <3>2, EnvIs, ConstantsAssumption DEF IInv, TypeOK, NilPtr, ConstantsAssumption
        <4>3. req' = [req EXCEPT ![r] = q]
          BY <3>2
        <4> QED
          BY <4>1, <4>2, <4>3, <1>t
      <3> QED
        BY <1>6, <3>1, <3>2 DEF Create, Fails, Reliable
    <2> QED
      BY <2>1, <2>2, <2>3 DEF AgreeInv
  <1>7. ASSUME NEW r \in Requests, Publish(r) PROVE AgreeInv'
    <2>1. req[r].pc = "publish" /\ mu = Free /\ req[r].rec # NilPtr
      BY <1>7 DEF Publish, AgreeInv
    <2>2. /\ mu' = r /\ UNCHANGED fileInfo
          /\ nameToID' = [nameToID EXCEPT ![req[r].path] = req[r].rec]
          /\ Goto(r, "getFile")
      BY <1>7, <2>1 DEF Publish
    <2>3. /\ \A s \in Requests : s # r => req'[s] = req[s]
          /\ req'[r] = [req[r] EXCEPT !.pc = "getFile"] /\ req'[r].pc = "getFile"
      BY <2>2, <1>t, GotoType DEF Pcs
    <2>4. req'[r].path = req[r].path /\ req'[r].rec = req[r].rec
      BY <2>3, <1>t DEF Request
    <2>5. nameToID = fileInfo /\ \A s \in Requests : req[s].pc # "getFile"
      BY <2>1, Basic DEF AgreeInv
    <2> QED
      BY <2>1, <2>2, <2>3, <2>4, <2>5, Basic DEF AgreeInv
  <1>8. ASSUME NEW r \in Requests, GetFile(r) PROVE AgreeInv'
    <2>1. req[r].pc = "getFile" /\ mu' = Free /\ UNCHANGED nameToID
          /\ fileInfo' = [fileInfo EXCEPT ![req[r].path] = req[r].rec]
      BY <1>8 DEF GetFile, Fails, Reliable
    <2>2. nameToID' = fileInfo' /\ \A s \in Requests : s # r => req[s].pc # "getFile"
      BY <2>1 DEF AgreeInv
    <2>3. /\ \A s \in Requests : s # r => req'[s] = req[s]
          /\ req'[r].pc = "idle"
      BY <1>8, <1>t DEF GetFile, Finish, Idle
    <2> QED
      BY <2>1, <2>2, <2>3, Basic DEF AgreeInv
  <1> QED
    BY <1>1, <1>2, <1>3, <1>4, <1>5, <1>6, <1>7, <1>8
       DEF Next, LockStep, PlainStep, StorageStep, Elsewhere

-----------------------------------------------------------------------------
(* The theorems. *)

\* Every variable keeps its type, whatever the requests, paths and faults.
\* (The maps of server.go:31-57 and the locals of its handlers.)
THEOREM TypeCorrect == Spec => []TypeOK
  BY Invariance, PTL DEF IInv

\* Every file a cached listing shows has a record in nameToID, and one in fileInfo
\* too unless the bridge may answer GetFile with an error body without "error",
\* for any number of concurrent requests, uploads and listings and under every
\* fault.  (server.go:559-603, 1025-1030.)
THEOREM Resolvable == Spec => []ListedIsResolvable
  BY Invariance, PTL DEF IInv

\* As long as the bridge answers with records, DELETE and MOVE act on the record
\* GET would serve, for any number of concurrent uploads and listings: s.mu is
\* held from the write of nameToID to that of fileInfo.  (server.go:1025-1030.)
THEOREM MapsAgree == Spec => []NamesAgree
  <1>1. Init => AgreeInv
    <2> SUFFICES ASSUME Init PROVE AgreeInv
      OBVIOUS
    <2>1. \A r \in Requests : req[r].pc = "idle"
      BY DEF Init, Idle
    <2> QED
      BY <2>1, Basic DEF Init, AgreeInv
  <1>2. IInv /\ AgreeInv /\ [Next]_vars => AgreeInv'
    BY AgreeStep
  <1>3. AgreeInv => NamesAgree
    BY DEF AgreeInv, NamesAgree, Reliable
  <1> QED
    BY <1>1, <1>2, <1>3, Invariance, PTL DEF Spec

-----------------------------------------------------------------------------
(* Only writers upload. *)

\* Between Close and the record a request has written, and only a PUT writes.
Writer(q) ==
    /\ q.written => q.op = "put"
    /\ q.pc \in {"resolve", "blobs", "create"} => q.written

WriterInv == \A r \in Requests : Writer(req[r])

LEMMA WriterGoes ==
    ASSUME req \in [Requests -> Request], NEW r \in Requests, NEW l \in Pcs, Goto(r, l),
           Writer(req[r]), l \in {"resolve", "blobs", "create"} => req[r].written
    PROVE  Writer(req'[r]) /\ \A s \in Requests : s # r => req'[s] = req[s]
  <1>1. /\ req'[r].written = req[r].written /\ req'[r].op = req[r].op /\ req'[r].pc = l
        /\ \A s \in Requests : s # r => req'[s] = req[s]
    BY DEF Goto, Request
  <1> QED
    BY <1>1 DEF Writer

LEMMA WriterEnds ==
    ASSUME req \in [Requests -> Request], NEW r \in Requests, NEW st, NEW b, Finish(r, st, b)
    PROVE  Writer(req'[r]) /\ \A s \in Requests : s # r => req'[s] = req[s]
  <1>1. /\ req'[r].written = FALSE /\ req'[r].pc = "idle"
        /\ \A s \in Requests : s # r => req'[s] = req[s]
    BY DEF Finish, Idle
  <1> QED
    BY <1>1 DEF Writer

LEMMA WriterStep ==
    ASSUME IInv, WriterInv, NEW r \in Requests,
           Arrives(r) \/ LockStep(r) \/ PlainStep(r) \/ StorageStep(r)
    PROVE  Writer(req'[r]) /\ \A s \in Requests : s # r => req'[s] = req[s]
  <1> USE DEF At
  <1> DEFINE Goal == Writer(req'[r]) /\ \A s \in Requests : s # r => req'[s] = req[s]
  <1>0. req \in [Requests -> Request] /\ req[r] \in Request /\ Writer(req[r])
    BY DEF IInv, TypeOK, WriterInv
  <1>1. ASSUME NEW l \in Pcs \ {"resolve", "blobs", "create"}, Goto(r, l) PROVE Goal
    BY <1>0, <1>1, WriterGoes
  <1>2. ASSUME NEW st, NEW b, Finish(r, st, b) PROVE Goal
    BY <1>0, <1>2, WriterEnds
  <1>3. ASSUME NEW q, req' = [req EXCEPT ![r] = q], q.written = req[r].written,
               q.op = req[r].op, q.pc \in {"resolve", "blobs", "create"} => q.written
        PROVE  Goal
    BY <1>0, <1>3 DEF Writer
  <1>4. ASSUME NEW op, NEW p, NEW q, NEW first \in {"stat", "open", "davStat", "mkcol"},
               NEW full, full = TRUE => op = "put", full \in BOOLEAN, Begin(r, op, p, q, first, full)
        PROVE  Goal
    <2>1. /\ req'[r].written = full /\ req'[r].op = op /\ req'[r].pc = first
          /\ \A s \in Requests : s # r => req'[s] = req[s]
      BY <1>0, <1>4 DEF Begin, Idle
    <2> QED
      BY <1>4, <2>1 DEF Writer
  <1>5. CASE Arrives(r)
    BY <1>4, <1>5 DEF Arrives, Get, Propfind, Put, Delete, Move, Mkcol
  <1>6. ASSUME NEW c, CallListDir(r, c) PROVE Goal
    <2> DEFINE q == [req[r] EXCEPT !.pc = "listNil", !.cont = c]
    <2>1. q.written = req[r].written /\ q.op = req[r].op /\ q.pc = "listNil"
      BY <1>0 DEF Request
    <2> QED
      BY <1>0, <1>3, <1>6, <2>1 DEF CallListDir
  <1>7. ASSUME NEW id, Serve(r, id) PROVE Goal
    <2> DEFINE q == [req[r] EXCEPT !.pc = "close", !.filled = TRUE, !.rec = id]
    <2>1. q.written = req[r].written /\ q.op = req[r].op /\ q.pc = "close"
      BY <1>0 DEF Request
    <2> QED
      BY <1>0, <1>2, <1>3, <1>7, <2>1 DEF Serve
  <1>8. ASSUME OpensHandle(r) PROVE Goal
    <2> DEFINE q == [req[r] EXCEPT !.pc = "lookup", !.cont = "handle"]
    <2>1. q.written = req[r].written /\ q.op = req[r].op /\ q.pc = "lookup"
      BY <1>0 DEF Request
    <2> QED
      BY <1>0, <1>1, <1>3, <1>8, <2>1 DEF OpensHandle, Pcs
  <1>9. CASE ListDirStep(r) \/ ListMerge(r)
    <2>1. CASE ListSeesNil(r) \/ ListMake(r) \/ ListCheck(r) \/ ListMerge(r)
      BY <1>1, <1>2, <2>1 DEF ListSeesNil, ListMake, ListCheck, ListDirReturns, ListMerge, Pcs
    <2>2. CASE ListCall(r)
      <3>1. ASSUME NEW last, NEW subs,
                   req' = [req EXCEPT ![r].pc = "listMerge", ![r].last = last, ![r].subs = subs]
            PROVE  Goal
        <4> DEFINE q == [req[r] EXCEPT !.pc = "listMerge", !.last = last, !.subs = subs]
        <4>1. q.written = req[r].written /\ q.op = req[r].op /\ q.pc = "listMerge"
          BY <1>0 DEF Request
        <4> QED
          BY <1>0, <1>3, <3>1, <4>1
      <3> QED
        BY <1>1, <1>2, <2>2, <3>1 DEF ListCall, ListDirFails, Pcs
    <2>3. CASE ListStore(r)
      <3> DEFINE q(l) == [[req[r] EXCEPT !.last = NoReply, !.subs = {}] EXCEPT !.pc = l]
      <3>1. ASSUME NEW l \in {"statAgain", "openEntry"}, req' = [req EXCEPT ![r] = q(l)]
            PROVE  Goal
        <4>1. q(l).written = req[r].written /\ q(l).op = req[r].op /\ q(l).pc = l
          BY <1>0 DEF Request
        <4> QED
          BY <1>3, <3>1, <4>1
      <3> QED
        BY <1>2, <2>3, <3>1 DEF ListStore
    <2> QED
      BY <1>9, <2>1, <2>2, <2>3 DEF ListDirStep
  <1>10. CASE Stat(r) \/ StatAgain(r)
    BY <1>1, <1>2, <1>6, <1>10 DEF Stat, StatAgain, UseMeta, Pcs
  <1>11. CASE Lookup(r)
    <2> DEFINE q == [req[r] EXCEPT !.pc = "fetch", !.rec = fileInfo[req[r].path]]
    <2>1. q.written = req[r].written /\ q.op = req[r].op /\ q.pc = "fetch"
      BY <1>0 DEF Request
    <2>2. CASE req' = [req EXCEPT ![r].pc = "fetch", ![r].rec = fileInfo[req[r].path]]
      BY <1>0, <1>3, <2>1, <2>2
    <2> QED
      BY <1>2, <1>7, <1>11, <2>2 DEF Lookup
  <1>12. CASE OpenTopLevel(r) \/ OpenEntry(r) \/ OpenDir(r)
    BY <1>2, <1>6, <1>8, <1>12 DEF OpenTopLevel, OpenEntry, OpenDir
  <1>13. CASE OpenInFolder(r)
    <2> DEFINE q == [req[r] EXCEPT !.pc = "close", !.parent = Dir(r)]
    <2>1. q.written = req[r].written /\ q.op = req[r].op /\ q.pc = "close"
      BY <1>0 DEF Request
    <2>2. CASE req' = [req EXCEPT ![r].pc = "close", ![r].parent = Dir(r)]
      BY <1>0, <1>3, <2>1, <2>2
    <2> QED
      BY <1>2, <1>6, <1>13, <2>2 DEF OpenInFolder
  <1>14. CASE Close(r) \/ Blobs(r)
    BY <1>0, <1>2, <1>14, WriterGoes DEF Close, Blobs, Writer, Pcs
  <1>15. CASE Resolve(r)
    <2> DEFINE q == [req[r] EXCEPT !.pc = "blobs",
                       !.parent = IF @ \in folderInfo THEN @ ELSE Root]
    <2>1. q.written = req[r].written /\ q.op = req[r].op /\ q.written
      BY <1>0, <1>15 DEF Request, Resolve, Writer
    <2> QED
      BY <1>0, <1>3, <1>15, <2>1 DEF Resolve
  <1>16. CASE Create(r)
    <2>1. ASSUME NEW id, req' = [req EXCEPT ![r].pc = "publish", ![r].rec = id] PROVE Goal
      <3> DEFINE q == [req[r] EXCEPT !.pc = "publish", !.rec = id]
      <3>1. q.written = req[r].written /\ q.op = req[r].op /\ q.pc = "publish"
        BY <1>0 DEF Request
      <3> QED
        BY <1>0, <1>3, <2>1, <3>1
    <2> QED
      BY <1>2, <1>16, <2>1 DEF Create
  <1>17. CASE Publish(r) \/ GetFile(r)
    BY <1>1, <1>2, <1>17 DEF Publish, GetFile, Pcs
  <1>18. ASSUME NEW p, NEW l \in {"delete", "rename"}, Resolves(r, p, l) PROVE Goal
    <2> DEFINE q == [req[r] EXCEPT !.pc = l, !.rec = nameToID[p]]
    <2>1. q.written = req[r].written /\ q.op = req[r].op /\ q.pc = l
      BY <1>0 DEF Request
    <2>2. CASE req' = [req EXCEPT ![r].pc = l, ![r].rec = nameToID[p]]
      BY <1>0, <1>3, <2>1, <2>2
    <2> QED
      BY <1>2, <1>18, <2>2 DEF Resolves
  <1>19. CASE DavStat(r) \/ Remove(r) \/ DeleteFile(r) \/ LookOld(r) \/ RenameFile(r) \/ CreateFolder(r)
    BY <1>1, <1>2, <1>18, <1>19 DEF DavStat, Remove, DeleteFile, Deleted, LookOld, RenameFile,
                                    CreateFolder, Pcs
  <1>20. CASE Fetch(r)
    BY <1>2, <1>7, <1>20 DEF Fetch
  <1> QED
    BY <1>5, <1>9, <1>10, <1>11, <1>12, <1>13, <1>14, <1>15, <1>16, <1>17, <1>19, <1>20
       DEF LockStep, PlainStep, StorageStep

LEMMA WriterInvStep ==
    ASSUME IInv, WriterInv, [Next]_vars
    PROVE  WriterInv'
  <1>1. CASE UNCHANGED req
    BY <1>1 DEF WriterInv
  <1> QED
    BY <1>1, WriterStep DEF Next, Expire, Evict, vars, WriterInv

\* Whatever fails, and whoever browses or reads meanwhile, a record is made only
\* by a PUT that wrote.  (server.go:882-890.)
THEOREM ReadersNeverUpload == Spec => OnlyWritersUpload
  <1>1. Init => WriterInv
    <2> SUFFICES ASSUME Init, NEW r \in Requests PROVE Writer(req[r])
      BY DEF WriterInv
    <2>1. req[r].pc = "idle" /\ req[r].written = FALSE
      BY DEF Init, Idle
    <2> QED
      BY <2>1 DEF Writer
  <1>2. IInv /\ WriterInv /\ [Next]_vars =>
          [created' # created =>
             \E r \in Requests : req[r].op = "put" /\ req[r].written /\ req[r] # req'[r]]_vars
    <2> SUFFICES ASSUME IInv, WriterInv, Next, created' # created
                 PROVE  \E r \in Requests : req[r].op = "put" /\ req[r].written /\ req[r] # req'[r]
      OBVIOUS
    <2>1. PICK r \in Requests : Arrives(r) \/ LockStep(r) \/ PlainStep(r) \/ StorageStep(r)
      BY DEF Next, Expire, Evict, bridge
    <2> USE DEF bridge, index
    <2>2. ~Arrives(r)
      BY DEF Arrives, Get, Propfind, Put, Delete, Move, Mkcol, Begin
    <2>3. ~ListDirStep(r)
      BY DEF ListDirStep, ListSeesNil, ListMake, ListCheck, ListCall, ListStore
    <2>4. ~LockStep(r)
      BY DEF LockStep, ListMerge, Stat, StatAgain, Lookup, OpenTopLevel, OpenInFolder,
             OpenEntry, OpenDir, Resolve, Publish, DavStat, Remove, LookOld
    <2>5. ~StorageStep(r)
      BY DEF StorageStep, Fetch, Blobs
    <2>6. Create(r)
      BY <2>1, <2>2, <2>3, <2>4, <2>5 DEF PlainStep, Close, GetFile, DeleteFile, RenameFile,
                                          CreateFolder
    <2>7. req[r].pc = "create" /\ req[r].op = "put" /\ req[r].written
      BY <2>6 DEF Create, At, WriterInv, Writer
    <2>8. req'[r].pc # "create"
      <3>1. req \in [Requests -> Request]
        BY DEF IInv, TypeOK
      <3>2. ASSUME NEW st, NEW b, Finish(r, st, b) PROVE req'[r].pc # "create"
        BY <3>1, <3>2 DEF Finish, Idle
      <3>3. ASSUME NEW id, req' = [req EXCEPT ![r].pc = "publish", ![r].rec = id]
            PROVE  req'[r].pc # "create"
        BY <3>1, <3>3 DEF Request
      <3> QED
        BY <2>6, <3>2, <3>3 DEF Create
    <2> QED
      BY <2>7, <2>8
  <1> QED
    BY <1>1, <1>2, WriterInvStep, Invariance, PTL DEF Spec, OnlyWritersUpload

-----------------------------------------------------------------------------
(* The lock is let go of, and no handler goes round. *)

\* A request comes to Publish without a record only after a reply that has none.
LockInv ==
    /\ LockIsBrief
    /\ \A r \in Requests : At(r, "publish") /\ req[r].rec = NilPtr => Fails("noRecord")

LEMMA LockStart == ASSUME Init PROVE LockInv
  <1>1. mu = Free /\ \A r \in Requests : req[r].pc = "idle"
    <2>1. mu = Free
      BY DEF Init
    <2>2. \A r \in Requests : req[r].pc = "idle"
      BY DEF Init, Idle
    <2> QED
      BY <2>1, <2>2
  <1> QED
    BY <1>1, Basic DEF LockInv, LockIsBrief, At

LEMMA LockKept ==
    ASSUME IInv, LockInv, [Next]_vars
    PROVE  LockInv'
  <1> USE DEF At, LockInv, LockIsBrief
  <1>t. req \in [Requests -> Request]
    BY DEF IInv, TypeOK
  <1>0. \A r \in Requests : r # Free /\ r # Orphan
    BY ConstantsAssumption DEF ConstantsAssumption
  <1>e. Fails("noRecord")' = Fails("noRecord")
    BY EnvKept DEF Fails
  <1>1. ASSUME UNCHANGED <<mu, req>> PROVE LockInv'
    BY <1>1, <1>e
  <1>2. ASSUME NEW r \in Requests, mu' = mu, req[r].pc # "getFile", req'[r].pc # "getFile",
               req'[r].pc = "publish" /\ req'[r].rec = NilPtr => Fails("noRecord"),
               \A s \in Requests : s # r => req'[s] = req[s]
        PROVE  LockInv'
    BY <1>2, <1>e
  <1>3. ASSUME NEW r \in Requests, Elsewhere(r) PROVE LockInv'
    BY <1>2, <1>3, ElsewhereFrame
  <1>4. ASSUME NEW r \in Requests, ListMerge(r) PROVE LockInv'
    <2>1. req'[r].pc = "listStore" /\ \A s \in Requests : s # r => req'[s] = req[s]
      BY <1>4, <1>t, GotoType DEF ListMerge, Pcs
    <2> QED
      BY <1>2, <1>4, <2>1 DEF ListMerge
  <1>5. ASSUME NEW r \in Requests, Create(r) PROVE LockInv'
    <2>1. ASSUME NEW st, NEW b, Finish(r, st, b)
          PROVE  req'[r].pc = "idle" /\ \A s \in Requests : s # r => req'[s] = req[s]
      BY <2>1, <1>t DEF Finish, Idle
    <2>2. ASSUME NEW i, req' = [req EXCEPT ![r].pc = "publish", ![r].rec = i]
          PROVE  req'[r].pc = "publish" /\ req'[r].rec = i /\ \A s \in Requests : s # r => req'[s] = req[s]
      <3> DEFINE q == [req[r] EXCEPT !.pc = "publish", !.rec = i]
      <3>1. q.pc = "publish" /\ q.rec = i /\ req' = [req EXCEPT ![r] = q]
        BY <2>2, <1>t DEF Request
      <3> QED
        BY <3>1, <1>t
    <2>3. req[r].pc = "create" /\ mu' = mu
      BY <1>5 DEF Create
    <2>4. req'[r].pc # "getFile" /\ \A s \in Requests : s # r => req'[s] = req[s]
      BY <1>5, <2>1, <2>2 DEF Create
    <2>5. ASSUME req'[r].pc = "publish", req'[r].rec = NilPtr PROVE Fails("noRecord")
      <3>1. created < env.records => created + 1 # NilPtr
        BY EnvIs, ConstantsAssumption DEF ConstantsAssumption, IInv, TypeOK, NilPtr
      <3> QED
        BY <1>5, <2>1, <2>2, <2>5, <3>1 DEF Create
    <2> QED
      BY <1>2, <2>3, <2>4, <2>5
  <1>6. ASSUME NEW r \in Requests, Publish(r) PROVE LockInv'
    <2>1. req[r].pc = "publish" /\ mu = Free /\ \A s \in Requests : req[s].pc # "getFile"
      BY <1>0, <1>6 DEF Publish
    <2>2. CASE req[r].rec = NilPtr
      <3>1. mu' = Orphan /\ Finish(r, "panic", Absent)
        BY <1>6, <2>2 DEF Publish
      <3>2. req'[r].pc = "idle" /\ \A s \in Requests : s # r => req'[s] = req[s]
        BY <3>1, <1>t DEF Finish, Idle
      <3>3. Fails("noRecord")
        BY <2>1, <2>2
      <3> QED
        BY <1>0, <1>e, <2>1, <3>1, <3>2, <3>3
    <2>3. CASE req[r].rec # NilPtr
      <3>1. mu' = r /\ Goto(r, "getFile")
        BY <1>6, <2>3 DEF Publish
      <3>2. req'[r].pc = "getFile" /\ \A s \in Requests : s # r => req'[s] = req[s]
        BY <3>1, <1>t, GotoType DEF Pcs
      <3> QED
        BY <1>0, <1>e, <2>1, <3>1, <3>2
    <2> QED
      BY <2>2, <2>3
  <1>7. ASSUME NEW r \in Requests, GetFile(r) PROVE LockInv'
    <2>1. mu = r /\ mu' = Free /\ \A s \in Requests : s # r => req[s].pc # "getFile"
      BY <1>7 DEF GetFile
    <2>2. req'[r].pc = "idle" /\ \A s \in Requests : s # r => req'[s] = req[s]
      BY <1>7, <1>t DEF GetFile, Finish, Idle
    <2> QED
      BY <1>0, <1>e, <2>1, <2>2, Basic
  <1>8. CASE UNCHANGED vars \/ (\E d \in Dirs : Expire(d)) \/ (\E i \in Ids : Evict(i))
    BY <1>1, <1>8 DEF vars, Expire, Evict
  <1> QED
    BY <1>3, <1>4, <1>5, <1>6, <1>7, <1>8 DEF Next, LockStep, PlainStep, StorageStep, Elsewhere

\* s.mu is held from one step to the next for a GetFile only, for any number of
\* requests and under every fault; it is lost only to a reply without a record.
\* (server.go:1025-1030.)
THEOREM LockReleased == Spec => []LockIsBrief
  <1>1. Init => LockInv
    BY LockStart
  <1>2. IInv /\ LockInv /\ [Next]_vars => LockInv'
    BY LockKept
  <1>3. LockInv => LockIsBrief
    BY DEF LockInv
  <1> QED
    BY <1>1, <1>2, <1>3, Invariance, PTL DEF Spec

\* StepsLeft as a table.
LEMMA StepsLeftIs ==
    ASSUME NEW q
    PROVE  /\ q.pc = "idle" => StepsLeft(q) = 0
           /\ q.pc \in {"getFile", "rename", "mkcol"} => StepsLeft(q) = 1
           /\ q.pc \in {"publish", "lookOld"} => StepsLeft(q) = 2
           /\ q.pc \in {"create", "delete"} => StepsLeft(q) = 3
           /\ q.pc \in {"blobs", "remove"} => StepsLeft(q) = 4
           /\ q.pc \in {"resolve", "davStat"} => StepsLeft(q) = 5
           /\ q.pc = "close" => StepsLeft(q) = 6
           /\ q.pc = "fetch" => StepsLeft(q) = 7
           /\ q.pc = "lookup" => StepsLeft(q) = 8
           /\ q.pc = "openEntry" => StepsLeft(q) = 9
           /\ q.pc = "open" => StepsLeft(q) = 16
           /\ q.pc = "statAgain" => StepsLeft(q) = 17
           /\ q.pc = "stat" => StepsLeft(q) = 24
           /\ q.cont = "stat" =>
                /\ q.pc = "listStore" => StepsLeft(q) = 18
                /\ q.pc = "listMerge" => StepsLeft(q) = 19
                /\ q.pc = "listCall" => StepsLeft(q) = 20
                /\ q.pc = "listCheck" => StepsLeft(q) = 21
                /\ q.pc = "listMake" => StepsLeft(q) = 22
                /\ q.pc = "listNil" => StepsLeft(q) = 23
           /\ q.cont # "stat" =>
                /\ q.pc = "listStore" => StepsLeft(q) = 10
                /\ q.pc = "listMerge" => StepsLeft(q) = 11
                /\ q.pc = "listCall" => StepsLeft(q) = 12
                /\ q.pc = "listCheck" => StepsLeft(q) = 13
                /\ q.pc = "listMake" => StepsLeft(q) = 14
                /\ q.pc = "listNil" => StepsLeft(q) = 15
  BY DEF StepsLeft, ListDirLeft

\* Only r moves, and it comes nearer to its answer.
Nearer(r) ==
    /\ \A s \in Requests : s # r => req'[s] = req[s]
    /\ req[r].pc # "idle"
    /\ StepsLeft(req'[r]) < StepsLeft(req[r])

LEMMA MoveIs ==
    ASSUME req \in [Requests -> Request], NEW r \in Requests, NEW q,
           req' = [req EXCEPT ![r] = q]
    PROVE  req'[r] = q /\ \A s \in Requests : s # r => req'[s] = req[s]
  OBVIOUS

LEMMA GotoIs ==
    ASSUME req \in [Requests -> Request], NEW r \in Requests, NEW l, Goto(r, l)
    PROVE  /\ req'[r].pc = l /\ req'[r].cont = req[r].cont
           /\ \A s \in Requests : s # r => req'[s] = req[s]
  <1> DEFINE q == [req[r] EXCEPT !.pc = l]
  <1>1. q.pc = l /\ q.cont = req[r].cont
    BY DEF Request
  <1>2. req' = [req EXCEPT ![r] = q]
    BY DEF Goto
  <1> QED
    BY <1>1, <1>2, MoveIs

LEMMA FinishNears ==
    ASSUME req \in [Requests -> Request], NEW r \in Requests, NEW st, NEW b, Finish(r, st, b),
           req[r].pc \in Pcs \ {"idle"}
    PROVE  Nearer(r)
  <1>1. req'[r].pc = "idle" /\ \A s \in Requests : s # r => req'[s] = req[s]
    BY DEF Finish, Idle
  <1>2. StepsLeft(req'[r]) = 0
    BY <1>1, StepsLeftIs
  <1>3. StepsLeft(req[r]) \in Nat /\ StepsLeft(req[r]) > 0
    BY StepsLeftIs DEF Pcs
  <1> QED
    BY <1>1, <1>2, <1>3 DEF Nearer

LEMMA ListDirNears ==
    ASSUME IInv, NEW r \in Requests, ListDirStep(r) \/ ListMerge(r)
    PROVE  Nearer(r)
  <1> USE DEF At, Nearer
  <1>t. req \in [Requests -> Request] /\ req[r] \in Request
    BY DEF IInv, TypeOK
  <1>1. CASE ListSeesNil(r) \/ ListMake(r) \/ ListMerge(r)
    BY <1>1, <1>t, GotoIs, StepsLeftIs DEF ListSeesNil, ListMake, ListMerge
  <1>2. CASE ListCheck(r)
    BY <1>2, <1>t, GotoIs, FinishNears, StepsLeftIs DEF ListCheck, ListDirReturns, Pcs
  <1>3. CASE ListCall(r)
    <2>1. ASSUME NEW last, NEW subs,
                 req' = [req EXCEPT ![r].pc = "listMerge", ![r].last = last, ![r].subs = subs]
          PROVE  /\ req'[r].pc = "listMerge" /\ req'[r].cont = req[r].cont
                 /\ \A s \in Requests : s # r => req'[s] = req[s]
      <3> DEFINE q == [req[r] EXCEPT !.pc = "listMerge", !.last = last, !.subs = subs]
      <3>1. q.pc = "listMerge" /\ q.cont = req[r].cont
        BY <1>t DEF Request
      <3>2. req' = [req EXCEPT ![r] = q]
        BY <2>1
      <3> QED
        BY <1>t, <3>1, <3>2, MoveIs
    <2>2. req[r].pc = "listCall"
      BY <1>3 DEF ListCall
    <2>3. CASE ListDirFails(r)
      BY <1>t, <2>2, <2>3, GotoIs, FinishNears, StepsLeftIs DEF ListDirFails, Pcs
    <2>4. ASSUME req'[r].pc = "listMerge", req'[r].cont = req[r].cont,
                 \A s \in Requests : s # r => req'[s] = req[s]
          PROVE  Nearer(r)
      BY <2>2, <2>4, StepsLeftIs
    <2>5. CASE Goto(r, "listMerge")
      BY <1>t, <2>4, <2>5, GotoIs
    <2>6. CASE \E last, subs :
                 req' = [req EXCEPT ![r].pc = "listMerge", ![r].last = last, ![r].subs = subs]
      BY <2>1, <2>4, <2>6
    <2>7. \/ ListDirFails(r) \/ Goto(r, "listMerge")
          \/ \E last, subs :
               req' = [req EXCEPT ![r].pc = "listMerge", ![r].last = last, ![r].subs = subs]
      BY <1>3, Zenon DEF ListCall
    <2> QED
      BY <2>3, <2>5, <2>6, <2>7
  <1>4. CASE ListStore(r)
    <2> DEFINE q(l) == [[req[r] EXCEPT !.last = NoReply, !.subs = {}] EXCEPT !.pc = l]
    <2>1. ASSUME NEW l \in {"statAgain", "openEntry"}, req' = [req EXCEPT ![r] = q(l)]
          PROVE  req'[r].pc = l /\ \A s \in Requests : s # r => req'[s] = req[s]
      <3>1. q(l).pc = l
        BY <1>t DEF Request
      <3> QED
        BY <1>t, <2>1, <3>1, MoveIs
    <2>2. req[r].pc = "listStore"
      BY <1>4 DEF ListStore
    <2>3. CASE \E st : Finish(r, st, Absent)
      BY <1>t, <2>2, <2>3, FinishNears DEF Pcs
    <2>4. CASE req[r].cont = "stat" /\ req' = [req EXCEPT ![r] = q("statAgain")]
      <3>1. req'[r].pc = "statAgain" /\ \A s \in Requests : s # r => req'[s] = req[s]
        BY <2>1, <2>4
      <3>2. req[r].cont = "stat"
        BY <2>4
      <3> QED
        BY <2>2, <3>1, <3>2, StepsLeftIs
    <2>5. CASE req[r].cont = "open" /\ req' = [req EXCEPT ![r] = q("openEntry")]
      <3>1. req'[r].pc = "openEntry" /\ \A s \in Requests : s # r => req'[s] = req[s]
        BY <2>1, <2>5
      <3>2. req[r].cont = "open"
        BY <2>5
      <3> QED
        BY <2>2, <3>1, <3>2, StepsLeftIs
    <2>6. \/ req[r].cont = "stat" /\ req' = [req EXCEPT ![r] = q("statAgain")]
          \/ req[r].cont = "open" /\ req' = [req EXCEPT ![r] = q("openEntry")]
          \/ \E st : Finish(r, st, Absent)
      <3>1. q("statAgain") = [[req[r] EXCEPT !.last = NoReply, !.subs = {}] EXCEPT !.pc = "statAgain"]
            /\ q("openEntry") = [[req[r] EXCEPT !.last = NoReply, !.subs = {}] EXCEPT !.pc = "openEntry"]
            /\ req[r].cont \in {"stat", "open", "dir", "handle"}
        BY <1>t DEF Request
      <3> QED
        BY <1>4 DEF ListStore
    <2> QED
      BY <2>3, <2>4, <2>5, <2>6
  <1> QED
    BY <1>1, <1>2, <1>3, <1>4 DEF ListDirStep

LEMMA CallListDirIs ==
    ASSUME req \in [Requests -> Request], NEW r \in Requests, NEW c, CallListDir(r, c)
    PROVE  /\ req'[r].pc = "listNil" /\ req'[r].cont = c
           /\ \A s \in Requests : s # r => req'[s] = req[s]
  <1> DEFINE q == [req[r] EXCEPT !.pc = "listNil", !.cont = c]
  <1>1. q.pc = "listNil" /\ q.cont = c
    BY DEF Request
  <1>2. req' = [req EXCEPT ![r] = q]
    BY DEF CallListDir
  <1> QED
    BY <1>1, <1>2, MoveIs

LEMMA HandlerNears ==
    ASSUME IInv, NEW r \in Requests, LockStep(r) \/ PlainStep(r) \/ StorageStep(r)
    PROVE  Nearer(r)
  <1> USE DEF At
  <1>t. req \in [Requests -> Request] /\ req[r] \in Request
    BY DEF IInv, TypeOK
  <1>1. ASSUME NEW l, Goto(r, l), req[r].pc # "idle",
               \A q : q.pc = l => StepsLeft(q) < StepsLeft(req[r])
        PROVE  Nearer(r)
    BY <1>t, <1>1, GotoIs DEF Nearer
  <1>2. ASSUME NEW st, NEW b, Finish(r, st, b), req[r].pc \in Pcs \ {"idle"} PROVE Nearer(r)
    BY <1>t, <1>2, FinishNears
  <1>3. ASSUME NEW q, NEW l, q.pc = l, req' = [req EXCEPT ![r] = q], req[r].pc # "idle",
               \A w : w.pc = l => StepsLeft(w) < StepsLeft(req[r])
        PROVE  Nearer(r)
    <2>1. req'[r].pc = l /\ \A s \in Requests : s # r => req'[s] = req[s]
      BY <1>t, <1>3, MoveIs
    <2> QED
      BY <1>3, <2>1 DEF Nearer
  <1>4. ASSUME NEW c \in {"stat", "open", "dir"}, CallListDir(r, c),
               req[r].pc \in {"stat", "open"}, req[r].pc = "open" => c # "stat"
        PROVE  Nearer(r)
    BY <1>t, <1>4, CallListDirIs, StepsLeftIs DEF Nearer
  <1>5. CASE ListDirStep(r) \/ ListMerge(r)
    BY <1>5, ListDirNears
  <1>6. ASSUME NEW l \in {"open", "lookup"}, Goto(r, l), req[r].pc \in {"stat", "statAgain"}
        PROVE  Nearer(r)
    BY <1>1, <1>6, StepsLeftIs
  <1>7. CASE Stat(r) \/ StatAgain(r)
    BY <1>2, <1>4, <1>6, <1>7 DEF Stat, StatAgain, UseMeta, Pcs
  <1>8. ASSUME NEW id, Serve(r, id), req[r].pc \in {"lookup", "fetch"} PROVE Nearer(r)
    <2>1. CASE req[r].cont = "handle"
      <3> DEFINE q == [req[r] EXCEPT !.pc = "close", !.filled = TRUE, !.rec = id]
      <3>1. q.pc = "close"
        BY <1>t DEF Request
      <3>2. req' = [req EXCEPT ![r] = q]
        BY <1>8, <2>1 DEF Serve
      <3>3. \A w : w.pc = "close" => StepsLeft(w) < StepsLeft(req[r])
        BY <1>8, StepsLeftIs
      <3> QED
        BY <1>3, <3>1, <1>8, <3>2, <3>3
    <2>2. CASE req[r].cont # "handle"
      BY <1>2, <1>8, <2>2 DEF Serve, Pcs
    <2> QED
      BY <2>1, <2>2
  <1>9. CASE Lookup(r)
    <2>1. CASE req' = [req EXCEPT ![r].pc = "fetch", ![r].rec = fileInfo[req[r].path]]
      <3> DEFINE q == [req[r] EXCEPT !.pc = "fetch", !.rec = fileInfo[req[r].path]]
      <3>1. q.pc = "fetch"
        BY <1>t DEF Request
      <3>2. req' = [req EXCEPT ![r] = q]
        BY <2>1
      <3>3. req[r].pc = "lookup"
        BY <1>9 DEF Lookup
      <3>4. \A w : w.pc = "fetch" => StepsLeft(w) < StepsLeft(req[r])
        BY <3>3, StepsLeftIs
      <3> QED
        BY <1>3, <3>1, <3>2, <3>3, <3>4
    <2> QED
      BY <1>2, <1>8, <1>9, <2>1 DEF Lookup, Pcs
  <1>10. CASE Fetch(r)
    BY <1>2, <1>8, <1>10 DEF Fetch, Pcs
  <1>11. ASSUME OpensHandle(r), req[r].pc \in {"open", "openEntry"} PROVE Nearer(r)
    <2>1. CASE Goto(r, "close")
      BY <1>1, <1>11, <2>1, StepsLeftIs
    <2>2. CASE req' = [req EXCEPT ![r].pc = "lookup", ![r].cont = "handle"]
      <3> DEFINE q == [req[r] EXCEPT !.pc = "lookup", !.cont = "handle"]
      <3>1. q.pc = "lookup"
        BY <1>t DEF Request
      <3>2. req' = [req EXCEPT ![r] = q]
        BY <2>2
      <3>3. \A w : w.pc = "lookup" => StepsLeft(w) < StepsLeft(req[r])
        BY <1>11, StepsLeftIs
      <3> QED
        BY <1>3, <3>1, <1>11, <3>2, <3>3
    <2> QED
      BY <1>11, <2>1, <2>2 DEF OpensHandle
  <1>12. CASE OpenTopLevel(r) \/ OpenEntry(r) \/ OpenDir(r)
    BY <1>2, <1>4, <1>11, <1>12 DEF OpenTopLevel, OpenEntry, OpenDir, Pcs
  <1>13. CASE OpenInFolder(r)
    <2>1. CASE req' = [req EXCEPT ![r].pc = "close", ![r].parent = Dir(r)]
      <3> DEFINE q == [req[r] EXCEPT !.pc = "close", !.parent = Dir(r)]
      <3>1. q.pc = "close"
        BY <1>t DEF Request
      <3>2. req' = [req EXCEPT ![r] = q]
        BY <2>1
      <3>3. req[r].pc = "open"
        BY <1>13 DEF OpenInFolder
      <3>4. \A w : w.pc = "close" => StepsLeft(w) < StepsLeft(req[r])
        BY <3>3, StepsLeftIs
      <3> QED
        BY <1>3, <3>1, <3>2, <3>3, <3>4
    <2> QED
      BY <1>2, <1>4, <1>13, <2>1 DEF OpenInFolder, Pcs
  <1>14. ASSUME Close(r) \/ Blobs(r) PROVE Nearer(r)
    <2>1. CASE Goto(r, "resolve") /\ req[r].pc = "close"
      BY <1>1, <2>1, StepsLeftIs
    <2>2. CASE Goto(r, "create") /\ req[r].pc = "blobs"
      BY <1>1, <2>2, StepsLeftIs
    <2> QED
      BY <1>2, <1>14, <2>1, <2>2 DEF Close, Blobs, Pcs
  <1>15. CASE Resolve(r)
    <2> DEFINE q == [req[r] EXCEPT !.pc = "blobs",
                       !.parent = IF @ \in folderInfo THEN @ ELSE Root]
    <2>1. q.pc = "blobs"
      BY <1>t DEF Request
    <2>2. req' = [req EXCEPT ![r] = q] /\ req[r].pc = "resolve"
      BY <1>15 DEF Resolve
    <2>3. \A w : w.pc = "blobs" => StepsLeft(w) < StepsLeft(req[r])
      BY <2>2, StepsLeftIs
    <2> QED
      BY <1>3, <2>1, <2>2, <2>3
  <1>16. CASE Create(r)
    <2>0. req[r].pc = "create"
      BY <1>16 DEF Create
    <2>1. ASSUME NEW id, req' = [req EXCEPT ![r].pc = "publish", ![r].rec = id] PROVE Nearer(r)
      <3> DEFINE q == [req[r] EXCEPT !.pc = "publish", !.rec = id]
      <3>1. q.pc = "publish"
        BY <1>t DEF Request
      <3>2. req' = [req EXCEPT ![r] = q]
        BY <2>1
      <3>3. \A w : w.pc = "publish" => StepsLeft(w) < StepsLeft(req[r])
        BY <2>0, StepsLeftIs
      <3> QED
        BY <1>3, <3>1, <2>0, <3>2, <3>3
    <2> QED
      BY <1>2, <1>16, <2>0, <2>1 DEF Create, Pcs
  <1>17. CASE Publish(r)
    <2>1. CASE Goto(r, "getFile") /\ req[r].pc = "publish"
      BY <1>1, <2>1, StepsLeftIs
    <2> QED
      BY <1>2, <1>17, <2>1 DEF Publish, Pcs
  <1>18. CASE GetFile(r) \/ RenameFile(r) \/ CreateFolder(r)
    BY <1>2, <1>18 DEF GetFile, RenameFile, CreateFolder, Pcs
  <1>19. ASSUME NEW p, NEW l \in {"delete", "rename"}, Resolves(r, p, l),
                req[r].pc = (IF l = "delete" THEN "remove" ELSE "lookOld")
         PROVE  Nearer(r)
    <2>1. CASE req' = [req EXCEPT ![r].pc = l, ![r].rec = nameToID[p]]
      <3> DEFINE q == [req[r] EXCEPT !.pc = l, !.rec = nameToID[p]]
      <3>1. q.pc = l
        BY <1>t DEF Request
      <3>2. req' = [req EXCEPT ![r] = q]
        BY <2>1
      <3>3. \A w : w.pc = l => StepsLeft(w) < StepsLeft(req[r])
        BY <1>19, StepsLeftIs
      <3>4. req[r].pc # "idle"
        BY <1>19
      <3> QED
        BY <1>3, <3>1, <3>2, <3>3, <3>4
    <2> QED
      BY <1>2, <1>19, <2>1 DEF Resolves, Pcs
  <1>20. CASE Remove(r) \/ LookOld(r)
    BY <1>19, <1>20 DEF Remove, LookOld
  <1>21. CASE DavStat(r) \/ DeleteFile(r)
    <2>1. CASE Goto(r, "remove") /\ req[r].pc = "davStat"
      BY <1>1, <2>1, StepsLeftIs
    <2>2. CASE Goto(r, "lookOld") /\ req[r].pc = "delete"
      BY <1>1, <2>2, StepsLeftIs
    <2> QED
      BY <1>2, <1>21, <2>1, <2>2 DEF DavStat, DeleteFile, Deleted, Pcs
  <1> QED
    BY <1>5, <1>7, <1>9, <1>10, <1>12, <1>13, <1>14, <1>15, <1>16, <1>17, <1>18, <1>20, <1>21
       DEF LockStep, PlainStep, StorageStep

LEMMA Arriving ==
    ASSUME IInv, NEW r \in Requests, Arrives(r)
    PROVE  /\ req[r].pc = "idle" /\ req'[r].pc # "idle"
           /\ \A s \in Requests : s # r => req'[s] = req[s]
  <1>t. req \in [Requests -> Request]
    BY DEF IInv, TypeOK
  <1>1. PICK op, p, q, full : \E first \in {"stat", "open", "davStat", "mkcol"} :
                Begin(r, op, p, q, first, full)
    BY DEF Arrives, Get, Put, Delete, Move, Propfind, Mkcol
  <1>2. PICK first \in {"stat", "open", "davStat", "mkcol"} : Begin(r, op, p, q, first, full)
    BY <1>1
  <1> DEFINE new == [Idle(p) EXCEPT !.pc = first, !.op = op, !.dst = q,
                                    !.filled = full, !.written = full]
  <1>3. new.pc = first
    BY DEF Idle
  <1>4. req' = [req EXCEPT ![r] = new] /\ req[r].pc = "idle"
    BY <1>2 DEF Begin, At
  <1> QED
    BY <1>3, <1>4, <1>t, MoveIs

\* No handler goes round: every request is answered after at most 24 steps of its
\* own, whatever the others, the bridge, the clock and the cache do.  With
\* LockReleased this is the safety half of HungTransferBlocksNobody: what is left
\* to the fairness is that a step which can be taken is.
\* (server.go:225-349, 402-603, 742-762, 876-1036.)
THEOREM AnswersNear == Spec => AnswersComeNearer
  <1> DEFINE Step == \/ UNCHANGED <<home, created, folders, index, mu, req>>
                     \/ \E r \in Requests :
                          /\ \A s \in Requests : s # r => req'[s] = req[s]
                          /\ IF At(r, "idle") THEN req'[r].pc # "idle"
                                            ELSE StepsLeft(req'[r]) < StepsLeft(req[r])
  <1>1. ASSUME IInv, [Next]_vars PROVE [Step]_vars
    <2>1. CASE UNCHANGED vars \/ (\E d \in Dirs : Expire(d)) \/ (\E i \in Ids : Evict(i))
      BY <2>1 DEF vars, Expire, Evict, bridge
    <2>2. ASSUME NEW r \in Requests, Arrives(r) PROVE Step
      BY <1>1, <2>2, Arriving DEF At
    <2>3. ASSUME NEW r \in Requests, LockStep(r) \/ PlainStep(r) \/ StorageStep(r) PROVE Step
      <3>1. Nearer(r)
        BY <1>1, <2>3, HandlerNears
      <3> QED
        BY <3>1 DEF Nearer, At
    <2> QED
      BY <1>1, <2>1, <2>2, <2>3 DEF Next
  <1> QED
    BY <1>1, Invariance, PTL DEF Spec, AnswersComeNearer
=============================================================================
