------------------------------ MODULE Archive ------------------------------
(***************************************************************************)
(* What the storage and the account together promise those who upload: a   *)
(* text that was handed in may be kept, and from then on it is what a       *)
(* reader gets, this text and no other, for ever.                           *)
(***************************************************************************)
CONSTANTS Uploads,  \* each hands in one text
          Texts,
          Nothing   \* not handed in

VARIABLES given,    \* the text of each upload
          kept      \* the texts a reader of its record may get

KInit == given = [u \in Uploads |-> Nothing] /\ kept = [u \in Uploads |-> {}]

HandIn(u) ==
    /\ given[u] = Nothing /\ given'[u] \in Texts
    /\ given' = [given EXCEPT ![u] = given'[u]]
    /\ UNCHANGED kept

Keep(u) ==
    /\ given[u] # Nothing /\ kept[u] = {}
    /\ kept' = [kept EXCEPT ![u] = {given[u]}]
    /\ UNCHANGED given

KNext == \E u \in Uploads : HandIn(u) \/ Keep(u)

KSpec == KInit /\ [][KNext]_<<given, kept>>
=============================================================================
