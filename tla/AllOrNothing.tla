---------------------------- MODULE AllOrNothing ----------------------------
(***************************************************************************)
(* What a parallel transfer of the chunks of a file promises its caller:   *)
(* each chunk is settled once, handed over, lost, or - by a lenient        *)
(* transfer - passed over; the transfer answers only when all are settled, *)
(* never with success when one is lost, never with an error when all were  *)
(* handed over; and nothing happens after it has answered.                 *)
(***************************************************************************)
CONSTANT Chunks

VARIABLES got,      \* chunks transferred and handed over
          lost,     \* chunks given up
          passed,   \* chunks passed over
          lenient,  \* whether the transfer may pass over a chunk
          outcome   \* "none" until the transfer returns

AInit ==
    /\ got = {} /\ lost = {} /\ passed = {} /\ outcome = "none"
    /\ lenient \in BOOLEAN

Open(i) == outcome = "none" /\ i \notin got \union lost \union passed

HandOver(i) ==
    /\ Open(i)
    /\ got' = got \union {i}
    /\ UNCHANGED <<lost, passed, lenient, outcome>>

Lose(i) ==
    /\ Open(i)
    /\ lost' = lost \union {i}
    /\ UNCHANGED <<got, passed, lenient, outcome>>

PassOver(i) ==
    /\ Open(i) /\ lenient
    /\ passed' = passed \union {i}
    /\ UNCHANGED <<got, lost, lenient, outcome>>

Succeed ==
    /\ outcome = "none" /\ got \union passed = Chunks
    /\ outcome' = "ok"
    /\ UNCHANGED <<got, lost, passed, lenient>>

Fail ==
    /\ outcome = "none" /\ lost \union passed # {}
    /\ got \union lost \union passed = Chunks
    /\ outcome' = "error"
    /\ UNCHANGED <<got, lost, passed, lenient>>

ANext == (\E i \in Chunks : HandOver(i) \/ Lose(i) \/ PassOver(i)) \/ Succeed \/ Fail

ASpec == AInit /\ [][ANext]_<<got, lost, passed, lenient, outcome>>
=============================================================================
