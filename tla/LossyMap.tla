------------------------------ MODULE LossyMap ------------------------------
(***************************************************************************)
(* What a cache of values promises the goroutines that share it: it may    *)
(* forget a key at any time and may answer "not here" to any question, but *)
(* an answer is the value stored last, and never a store half done.  Only  *)
(* a store that was broken off - its process killed, its disk full - may   *)
(* leave a torn value behind.                                              *)
(***************************************************************************)
CONSTANTS Keys, Values, Procs, None, Torn

VARIABLES map,       \* what the cache holds for each key
          storing,   \* the key being stored, or None
          asked,     \* the key each goroutine asks for, or None
          answer     \* what each goroutine was last told

mvars == <<map, storing, asked, answer>>

MInit ==
    /\ map = [k \in Keys |-> None]
    /\ storing = None
    /\ asked = [p \in Procs |-> None]
    /\ answer = [p \in Procs |-> None]

Begin(k) ==
    /\ storing = None
    /\ storing' = k /\ map' = [map EXCEPT ![k] = Torn]
    /\ UNCHANGED <<asked, answer>>

End(v) ==
    /\ storing # None
    /\ storing' = None /\ map' = [map EXCEPT ![storing] = v]
    /\ UNCHANGED <<asked, answer>>

\* The goroutines in P lose what they asked and were told.
Drop(P) ==
    /\ asked' = [p \in Procs |-> IF p \in P THEN None ELSE asked[p]]
    /\ answer' = [p \in Procs |-> IF p \in P THEN None ELSE answer[p]]

BreakOff ==
    /\ storing # None
    /\ storing' = None
    /\ \E P \in SUBSET Procs : Drop(P)
    /\ UNCHANGED map

Forget(k) ==
    /\ storing = None
    /\ map' = [map EXCEPT ![k] = None]
    /\ UNCHANGED <<storing, asked, answer>>

Ask(p, k) ==
    /\ storing = None /\ asked[p] = None
    /\ asked' = [asked EXCEPT ![p] = k]
    /\ UNCHANGED <<map, storing, answer>>

\* The answer is the value of the key that was asked for.
Answer(p) ==
    /\ storing = None /\ asked[p] # None
    /\ answer' = [answer EXCEPT ![p] = map[asked[p]]]
    /\ UNCHANGED <<map, storing, asked>>

NoAnswer ==
    /\ \E P \in SUBSET Procs : Drop(P)
    /\ UNCHANGED <<map, storing>>

MNext ==
    \/ BreakOff \/ NoAnswer
    \/ \E k \in Keys : Begin(k) \/ Forget(k) \/ \E p \in Procs : Ask(p, k)
    \/ \E p \in Procs : Answer(p)
    \/ \E v \in Values : End(v)

MSpec == MInit /\ [][MNext]_mvars
=============================================================================
