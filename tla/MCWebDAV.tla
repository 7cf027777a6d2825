------------------------------ MODULE MCWebDAV ------------------------------
(* Small instances of WebDAVHistory for TLC. *)
EXTENDS WebDAVHistory, TLC

CONSTANTS r1, r2, root, d, a, b

TwoClients == {r1, r2}
OneClient  == {r1}
Symmetric  == Permutations(TwoClients)

OneFile    == {a}
TwoFiles   == {a, b}
NoFolder   == {}
OneFolder  == {d}

RootA == <<root, a>>
RootB == <<root, b>>
SubA  == <<d, a>>

World(paths, seeds, ops, faults, records) ==
    [paths |-> paths, seeds |-> seeds, ops |-> ops, faults |-> faults, records |-> records]

\* Two clients on a name in the root and in a folder, with replies that hold no
\* record; two clients that replace, move and delete two names of the root.
Sharing ==
    {World({RootA, SubA}, {<<>>, <<SubA>>}, {"get", "put", "list", "mkcol"}, {"noRecord"}, 1),
     World({RootA, RootB}, {<<>>, <<RootA>>}, {"put", "delete", "move", "list"},
           {"lostReply", "storage"}, 2)}

\* One file, with every failure after which a bridge that answers is left.
Timely == {World({RootA}, {<<RootA>>}, AllOps, {"bridge", "lostReply", "storage"}, 2)}

\* One client, and nothing fails.
Alone    == {World({RootA}, {<<>>, <<RootA>>}, AllOps, {}, 1)}
InFolder == {World({RootA, SubA}, {<<>>}, AllOps, {}, 1)}
Moving   == {World({RootA, RootB}, {<<RootA, RootB>>}, AllOps, {}, 2)}
=============================================================================
