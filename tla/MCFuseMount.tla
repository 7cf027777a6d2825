----------------------------- MODULE MCFuseMount -----------------------------
(* An instance of FuseMount for TLC. *)
EXTENDS FuseMount

CONSTANTS p1, p2, a, b

World(requests, names, puts, faults, places, local) ==
    [requests |-> requests, names |-> names, puts |-> puts, faults |-> faults,
     places |-> places, local |-> local]

\* One question each: concurrent requests on the directory and the files; two
\* names; paths that are used again, with the local encryptor and with a key for
\* each file; what the storage, the disk and the bridge get wrong; two uploads of
\* the server with everything going wrong.
Worlds ==
    {World({p1, p2}, {a}, {a}, {}, {"own"}, FALSE),
     World({p1}, {a, b}, {b}, {}, {"own"}, FALSE),
     World({p1}, {a}, {a}, {}, Places, TRUE),
     World({p1}, {a}, {}, {"errorBody"}, {"asked"}, FALSE),
     World({p1}, {a}, {}, {"disk"}, {"asked"}, FALSE),
     World({p1}, {a}, {}, {"disk"}, {"asked"}, TRUE),
     World({p1}, {a}, {}, {"lostReply", "noRecord", "gap"}, {"asked"}, FALSE),
     World({p1}, {a}, {a}, {"reorder"}, {"own"}, FALSE),
     World({p1}, {a}, {a}, {"storage", "bridge"}, {"asked"}, FALSE),
     World({}, {}, {a}, AllFaults, Places, FALSE)}
=============================================================================
