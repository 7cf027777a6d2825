------------------------------ MODULE WriteBack ------------------------------
(***************************************************************************)
(* A file with a write-back buffer: it starts empty, a Write replaces the  *)
(* blocks it covers and no others, a save keeps the whole content of a     *)
(* file that has changed, and nothing else touches the content, what was   *)
(* kept, or whether the two may differ.                                    *)
(*                                                                         *)
(* Content is what a save takes.  An application cannot ask for all of it: *)
(* a Read has to start below visible, which is where the last Write ended, *)
(* also if that was inside the file, until the file is loaded anew.        *)
(***************************************************************************)
EXTENDS Integers, Sequences

CONSTANTS Pieces,   \* what a Write may bring: non-empty sequences of blocks
          MaxLen,   \* blocks a file may have
          Blank,    \* the block of a gap
          Nothing   \* kept before the first save

VARIABLES content,  \* what a save would keep
          visible,  \* where a Read may start: below this block
          dirty,    \* content has changed since it was last kept
          kept      \* the content of the last save

WInit == content = <<>> /\ visible = 0 /\ dirty = FALSE /\ kept = Nothing

\* The block i after b was written over s at o.
Patched(s, o, b, i) ==
    IF i - o \in DOMAIN b THEN b[i - o] ELSE IF i \in DOMAIN s THEN s[i] ELSE Blank

WWrite(o, b) ==
    /\ DOMAIN content' = DOMAIN content \union 1..(o + Len(b))
    /\ \A i \in DOMAIN content' : content'[i] = Patched(content, o, b, i)
    /\ visible' = o + Len(b)
    /\ dirty' = TRUE
    /\ UNCHANGED kept

WSave ==
    /\ dirty
    /\ kept' = content /\ dirty' = FALSE
    /\ UNCHANGED <<content, visible>>

\* What was kept is loaded anew: all of it can be read.
WLoad ==
    /\ ~dirty
    /\ visible' = Len(content)
    /\ UNCHANGED <<content, dirty, kept>>

WNext ==
    \/ \E o \in 0..(MaxLen - 1), b \in Pieces : o + Len(b) <= MaxLen /\ WWrite(o, b)
    \/ WSave \/ WLoad

WSpec == WInit /\ [][WNext]_<<content, visible, dirty, kept>>
=============================================================================
