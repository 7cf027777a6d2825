------------------------------ MODULE RangeRead ------------------------------
(***************************************************************************)
(* How WebDAV serves a part of a file.  The GET handler takes the whole    *)
(* plaintext from downloadFile, parses the Range header and cuts the part  *)
(* out.  A byte is its position in the file, so what is served is a        *)
(* sequence of positions.                                                  *)
(*                                                                         *)
(* FUSE serves the part [off, off+len) of the buffer of the file: FuseFile *)
(* has that read.  The slicing of chunks in readRange, ChunksCovering and  *)
(* sliceFor is reached by nothing (no function sets lazy) and is left out. *)
(***************************************************************************)
EXTENDS Integers, Sequences

CONSTANTS
    MaxBytes,    \* bound of the model: the size of the file and the header's numbers
    Empty, Bad   \* model values: what stands for a number in a header

ASSUME ConstantsAssumption ==
    MaxBytes \in Nat /\ Empty \notin Int /\ Bad \notin Int /\ Empty # Bad

VARIABLES
    actual,   \* bytes of the plaintext
    first, last,    \* the two parts of the header around the dash
    out,      \* the bytes served
    status    \* "asked", then the status of the answer

vars == <<actual, first, last, out, status>>
inputs == <<actual, first, last>>

Least(a, b) == IF a < b THEN a ELSE b

\* The bytes from a up to b.
Bytes(a, b) == [k \in 1..(b - a) |-> a + k - 1]

Init ==
    /\ actual \in 0..MaxBytes
    /\ first \in (0..MaxBytes) \union {Empty, Bad}
    /\ last \in (-1..MaxBytes) \union {Empty, Bad}
    /\ out = <<>> /\ status = "asked"

-----------------------------------------------------------------------------
(* GET with a Range header: parseByteRange, and the slice of the handler *)

\* bytes=-N
IsSuffix == first = Empty /\ last \in Int /\ last > 0

\* bytes=N- and bytes=N-M
IsSpan == /\ first \in Int /\ first < actual
          /\ last = Empty \/ (last \in Int /\ last >= first)

\* What parseByteRange returns as its second result.
ParseOK == actual > 0 /\ (IsSuffix \/ IsSpan)

\* br.start, and br.start + br.length.
Start == IF IsSuffix THEN actual - Least(last, actual) ELSE first

\* Mutant: the end of the header is taken for exclusive.
StopExclusive == IF IsSuffix \/ last = Empty THEN actual ELSE Least(last, actual - 1)

\* Mutant: the end of the header is not cut at the end of the file.
StopUnclamped == IF IsSuffix \/ last = Empty THEN actual ELSE last + 1

Stop == IF IsSuffix \/ last = Empty THEN actual ELSE Least(last, actual - 1) + 1

\* Without a range that parses the whole file is served.
Partial ==
    /\ status = "asked" /\ ParseOK
    /\ out' = Bytes(Start, Stop) /\ status' = "206"
    /\ UNCHANGED inputs

Whole ==
    /\ status = "asked" /\ ~ParseOK
    /\ out' = Bytes(0, actual) /\ status' = "200"
    /\ UNCHANGED inputs

Next == Partial \/ Whole

Spec == Init /\ [][Next]_vars

-----------------------------------------------------------------------------
(* Properties *)

TypeOK ==
    /\ actual \in Nat
    /\ first \in Nat \union {Empty, Bad} /\ last \in Int \union {Empty, Bad}
    /\ out \in Seq(Nat) /\ Len(out) <= actual
    /\ status \in {"asked", "200", "206"}

\* A 206 carries exactly the bytes of the file that the header names, in order,
\* and at least one: the slice of the handler is never out of range.
\* (server.go:297-301, 765-794.)
Named(b) ==
    IF first = Empty THEN b >= actual - last
    ELSE b >= first /\ (last = Empty \/ b <= last)

RangeIsServed ==
    status = "206" =>
        /\ Len(out) > 0
        /\ \A k \in 1..Len(out) : out[k] = out[1] + k - 1
        /\ \A b \in 0..(actual - 1) : Named(b) <=> (b >= out[1] /\ b < out[1] + Len(out))
        /\ out[1] >= 0 /\ out[1] + Len(out) <= actual
=============================================================================
