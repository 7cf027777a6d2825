---------------------------- MODULE WebDAVHistory ----------------------------
(***************************************************************************)
(* WebDAVServer with what a client of it can remember: which record has    *)
(* ever carried which path, and which paths it was told are deleted.  The  *)
(* variables of this module only observe; every step is a step of          *)
(* WebDAVServer.                                                           *)
(***************************************************************************)
EXTENDS WebDAVServer

VARIABLES
    named,     \* record -> the paths it has had at the bridge or was uploaded to
    deleted    \* paths whose last answered change is a successful DELETE

hvars == <<vars, named, deleted>>

HInit ==
    /\ Init
    /\ named = [i \in Ids |-> {home[i]} \ {Gone}]
    /\ deleted = {}

\* The request whose upload the bridge has just recorded.
Uploads(r) == created' # created /\ At(r, "create") /\ req'[r] # req[r]

\* The request was just answered as a successful op.
Answered(r, op) == ~At(r, "idle") /\ req'[r].pc = "idle" /\ req[r].op = op /\ req'[r].status = "ok"

\* A PUT or MOVE of these paths has just begun.
Begun(op) == {req'[r].path : r \in {s \in Requests :
                  At(s, "idle") /\ req'[s].pc # "idle" /\ req'[s].op = op}}
             \union {req'[r].dst : r \in {s \in Requests :
                  At(s, "idle") /\ req'[s].pc # "idle" /\ req'[s].op = op}}

Observe ==
    /\ named' = [i \in Ids |->
         named[i] \union ({home'[i]} \ {Gone})
                  \union {req[r].path : r \in {s \in Requests : Uploads(s) /\ i = created'}}]
    /\ deleted' = (deleted \ (Begun("put") \union Begun("move")))
                  \union {req[r].path : r \in {s \in Requests : Answered(s, "delete")}}

HNext == Next /\ Observe

HSpec == HInit /\ [][HNext]_hvars

HFairSpec == HSpec /\ Fairness

-----------------------------------------------------------------------------

\* The content a GET answers with is that of a record which has had the path
\* asked for, at the bridge or by an upload to it: stale perhaps, another file's
\* never.  (server.go:357-388, 687-693: the maps are keyed by full path.)
ServedWasNamed ==
    \A r \in Requests :
       (req[r].op = "get" /\ req[r].pc = "idle" /\ req[r].status = "ok")
          => req[r].path \in named[req[r].body]

\* A record is removed or renamed only by a DELETE or MOVE of a path that it has
\* had: never that of another file, however listings, uploads and changes of other
\* clients run meanwhile.  This is the most that the code keeps, and less than its
\* users are told: it need not be the path that the record has by now, see
\* DeleteRemovesItsName.  (server.go:365-388, 478-503.)
ChangedWasNamed ==
    [][\A i \in Ids : home[i] # Gone /\ home'[i] # home[i] =>
         \E r \in Requests :
            /\ req[r].rec = i
            /\ \/ At(r, "delete") /\ home'[i] = Gone /\ req[r].dst \in named[i]
               \/ At(r, "rename") /\ home'[i] # Gone /\ req[r].path \in named[i]]_hvars

\* What a DELETE or a MOVE removes is the file that has the path it gives.
\* (README.md:20, "Copy, move, delete files using standard OS commands".)
DeleteRemovesItsName ==
    [][\A i \in Ids : home[i] # Gone /\ home'[i] = Gone =>
         \E r \in Requests : At(r, "delete") /\ req[r].rec = i /\ req[r].dst = home[i]]_hvars

\* What one client, alone, is told is deleted is not served to it afterwards.
\* (README.md:20, "Copy, move, delete files using standard OS commands".)
DeletedIsGone ==
    \A r \in Requests :
       (req[r].op = "get" /\ req[r].pc = "idle" /\ req[r].status = "ok")
          => req[r].path \notin deleted

\* The record of a PUT that succeeded lies in the folder the PUT named, when
\* there is one.
\* (README.md:20, the same line.)
PutLandsInItsFolder ==
    \A r \in Requests :
       (/\ req[r].op = "put" /\ req[r].pc = "idle" /\ req[r].status = "ok"
        /\ req[r].body # Absent /\ req[r].path[1] \in folders \union {Root})
          => home[req[r].body] \in {req[r].path, Gone}
=============================================================================
