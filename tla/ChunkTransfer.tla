---------------------------- MODULE ChunkTransfer ----------------------------
(***************************************************************************)
(* The worker pools that move the chunks of one file.  Four loops of the   *)
(* repository share one design - a goroutine per chunk, a semaphore that   *)
(* the caller fills before it starts one, a mutex over firstErr, a         *)
(* WaitGroup - and differ in what a goroutine does:                        *)
(*   "fetch"   stream.FetchChunksParallel: retries, onChunk under the mutex *)
(*   "put"     stream.PutChunksParallel: retries, metas under the mutex,   *)
(*             onDone after it                                             *)
(*   "upload"  the loop of File.upload (FUSE): one attempt                 *)
(*   "close"   the loop of WebDAVFile.Close: one attempt, and a chunk      *)
(*             without an URL is passed over                               *)
(* A chunk is its index; its content is left out.                          *)
(***************************************************************************)
EXTENDS Integers, FiniteSets

CONSTANTS
    NumChunks,   \* chunks of the file
    Workers,     \* stream.Workers
    Retries      \* stream.Retries

ASSUME SizesAssumption ==
    /\ NumChunks \in Nat \ {0}
    /\ Workers \in Nat \ {0}
    /\ Retries \in Nat

Chunks == 1..NumChunks
Kinds  == {"fetch", "put", "upload", "close"}
None   == 0       \* firstErr == nil; else the chunk the error is about
Free   == 0       \* nobody holds mu; else the chunk whose goroutine does

VARIABLES
    kind,       \* which of the four loops runs
    urls,       \* the chunks the bridge gave an URL for
    short,      \* its answer has fewer entries than there are chunks
    next,       \* the chunk the caller starts next
    sem,        \* len(sem)
    mu,
    firstErr,
    pc,         \* where the goroutine of each chunk is
    attempt,    \* its attempts that failed
    moved,      \* how often the chunk was handed over
    result      \* what the caller got

vars == <<kind, urls, short, next, sem, mu, firstErr, pc, attempt, moved, result>>

Init ==
    /\ kind \in Kinds
    /\ urls \in SUBSET Chunks
    \* an answer of full length may lack a chunk: an index twice, or out of range
    /\ short \in BOOLEAN /\ (short => urls # Chunks)
    /\ next = 1
    /\ sem = 0
    /\ mu = Free
    /\ firstErr = None
    /\ pc = [i \in Chunks |-> "unstarted"]
    /\ attempt = [i \in Chunks |-> 0]
    /\ moved = [i \in Chunks |-> 0]
    /\ result = "none"

Goto(i, l) == pc' = [pc EXCEPT ![i] = l]

\* The deferred calls of the goroutine: release the semaphore, then wg.Done.
Leave(i) == Goto(i, "done") /\ sem' = sem - 1

\* Mutant: the goroutine takes the semaphore itself, after it was started.
LaunchAll ==
    /\ result = "none" /\ next <= NumChunks
    /\ sem' = sem + 1
    /\ next' = next + 1
    /\ Goto(next, "check")
    /\ UNCHANGED <<kind, urls, short, mu, firstErr, attempt, moved, result>>

Launch ==
    /\ result = "none" /\ next <= NumChunks
    /\ sem < Workers
    /\ sem' = sem + 1
    /\ next' = next + 1
    /\ Goto(next, "check")
    /\ UNCHANGED <<kind, urls, short, mu, firstErr, attempt, moved, result>>

FirstError(i) == firstErr' = IF firstErr = None THEN i ELSE firstErr

HasURL(i) ==
    /\ pc[i] = "check" /\ i \in urls
    /\ kind \in {"fetch", "put"} => mu = Free
    /\ Goto(i, "try")
    /\ UNCHANGED <<kind, urls, short, next, sem, mu, firstErr, attempt, moved, result>>

\* Mutant: the early return keeps the slot of the semaphore.
NoURLKeepingSlot(i) ==
    /\ pc[i] = "check" /\ i \notin urls
    /\ mu = Free
    /\ FirstError(i)
    /\ Goto(i, "done")
    /\ UNCHANGED <<kind, urls, short, next, sem, mu, attempt, moved, result>>

NoURL(i) ==
    /\ pc[i] = "check" /\ i \notin urls
    /\ \/ kind = "close" /\ UNCHANGED firstErr
       \/ kind # "close" /\ mu = Free /\ FirstError(i)
    /\ Leave(i)
    /\ UNCHANGED <<kind, urls, short, next, mu, attempt, moved, result>>

\* The request for the chunk, GET or PUT, ends in one of two ways.
Succeed(i) ==
    /\ pc[i] = "try"
    /\ \/ kind = "fetch" /\ Goto(i, "deliver") /\ UNCHANGED <<sem, moved>>
       \/ kind = "put"   /\ Goto(i, "record")  /\ UNCHANGED <<sem, moved>>
       \/ /\ kind \in {"upload", "close"}
          /\ moved' = [moved EXCEPT ![i] = @ + 1]
          /\ Leave(i)
    /\ UNCHANGED <<kind, urls, short, next, mu, firstErr, attempt, result>>

Fail(i) ==
    /\ pc[i] = "try"
    /\ \/ kind = "fetch" /\ Goto(i, "failed") /\ UNCHANGED attempt
       \/ /\ kind = "put"
          /\ attempt' = [attempt EXCEPT ![i] = @ + 1]
          /\ Goto(i, IF attempt[i] = Retries THEN "giveUp" ELSE "try")
       \* a request that cannot be made is not tried again
       \/ kind \in {"put", "upload", "close"} /\ Goto(i, "giveUp") /\ UNCHANGED attempt
    /\ UNCHANGED <<kind, urls, short, next, sem, mu, firstErr, moved, result>>

\* Mutant: the error of any attempt is kept.
FetchFailedEagerly(i) ==
    /\ pc[i] = "failed" /\ mu = Free
    /\ FirstError(i)
    /\ attempt' = [attempt EXCEPT ![i] = @ + 1]
    /\ \/ attempt[i] = Retries /\ Leave(i)
       \/ attempt[i] < Retries /\ Goto(i, "try") /\ UNCHANGED sem
    /\ UNCHANGED <<kind, urls, short, next, mu, moved, result>>

\* Mutant: "attempt < Retries" in the loop, "attempt == Retries" at the error.
FetchFailedOffByOne(i) ==
    /\ pc[i] = "failed" /\ mu = Free
    /\ attempt' = [attempt EXCEPT ![i] = @ + 1]
    /\ \/ attempt[i] + 1 >= Retries /\ Leave(i)
       \/ attempt[i] + 1 < Retries /\ Goto(i, "try") /\ UNCHANGED sem
    /\ UNCHANGED <<kind, urls, short, next, mu, firstErr, moved, result>>

\* Mutant: "continue" passes over the count of attempts.
FetchFailedUncounted(i) ==
    /\ pc[i] = "failed" /\ mu = Free
    /\ \/ attempt[i] = Retries /\ FirstError(i) /\ Leave(i)
       \/ attempt[i] < Retries /\ Goto(i, "try") /\ UNCHANGED <<firstErr, sem>>
    /\ UNCHANGED <<kind, urls, short, next, mu, attempt, moved, result>>

\* Mutant: the loop runs to Retries + 1.
FetchFailedOnceMore(i) ==
    /\ pc[i] = "failed" /\ mu = Free
    /\ attempt' = [attempt EXCEPT ![i] = @ + 1]
    /\ \/ attempt[i] = Retries + 1 /\ FirstError(i) /\ Leave(i)
       \/ attempt[i] < Retries + 1 /\ Goto(i, "try") /\ UNCHANGED <<firstErr, sem>>
    /\ UNCHANGED <<kind, urls, short, next, mu, moved, result>>

\* A failed attempt of "fetch" is counted, and the last one is the error.
FetchFailed(i) ==
    /\ pc[i] = "failed" /\ mu = Free
    /\ attempt' = [attempt EXCEPT ![i] = @ + 1]
    /\ \/ attempt[i] = Retries /\ FirstError(i) /\ Leave(i)
       \/ attempt[i] < Retries /\ Goto(i, "try") /\ UNCHANGED <<firstErr, sem>>
    /\ UNCHANGED <<kind, urls, short, next, mu, moved, result>>

GiveUp(i) ==
    /\ pc[i] = "giveUp" /\ mu = Free
    /\ FirstError(i)
    /\ Leave(i)
    /\ UNCHANGED <<kind, urls, short, next, mu, attempt, moved, result>>

\* Mutant: onChunk is called after the unlock.
DeliverUnlocked(i) ==
    /\ pc[i] = "deliver" /\ mu = Free
    /\ Goto(i, "callback")
    /\ UNCHANGED <<kind, urls, short, next, sem, mu, firstErr, attempt, moved, result>>

\* "fetch": onChunk runs with mu held.
Deliver(i) ==
    /\ pc[i] = "deliver" /\ mu = Free
    /\ mu' = i
    /\ Goto(i, "callback")
    /\ UNCHANGED <<kind, urls, short, next, sem, firstErr, attempt, moved, result>>

Delivered(i) ==
    /\ pc[i] = "callback"
    /\ mu' = Free
    /\ moved' = [moved EXCEPT ![i] = @ + 1]
    /\ Leave(i)
    /\ UNCHANGED <<kind, urls, short, next, firstErr, attempt, result>>

\* "put": metas[i] is written with mu held, onDone runs without it.
Record(i) ==
    /\ pc[i] = "record" /\ mu = Free
    /\ moved' = [moved EXCEPT ![i] = @ + 1]
    /\ Goto(i, "notify")
    /\ UNCHANGED <<kind, urls, short, next, sem, mu, firstErr, attempt, result>>

Notify(i) ==
    /\ pc[i] = "notify"
    /\ Leave(i)
    /\ UNCHANGED <<kind, urls, short, next, mu, firstErr, attempt, moved, result>>

\* Mutant: wg.Add is in the goroutine, so wg.Wait may see none of them.
ReturnEarly ==
    /\ result = "none" /\ next > NumChunks
    /\ result' = IF firstErr = None THEN "ok" ELSE "error"
    /\ UNCHANGED <<kind, urls, short, next, sem, mu, firstErr, pc, attempt, moved>>

\* wg.Wait.  After it "close" reads urls[i] for every chunk and panics when the
\* answer is too short.  It does not look which chunks had an URL: an answer of full
\* length that lacks one ends in success, and the chunk was never sent.
Return ==
    /\ result = "none" /\ next > NumChunks
    /\ \A i \in Chunks : pc[i] = "done"
    /\ result' = IF firstErr = None /\ (kind = "close" => ~short) THEN "ok" ELSE "error"
    /\ UNCHANGED <<kind, urls, short, next, sem, mu, firstErr, pc, attempt, moved>>

Goroutine(i) ==
    \/ HasURL(i) \/ NoURL(i) \/ Succeed(i) \/ Fail(i) \/ FetchFailed(i) \/ GiveUp(i)
    \/ Deliver(i) \/ Delivered(i) \/ Record(i) \/ Notify(i)

Next == Launch \/ (\E i \in Chunks : Goroutine(i)) \/ Return

Spec == Init /\ [][Next]_vars

\* Every request for a chunk ends.  The code counts on the network for it: the
\* clients it makes for chunks set no overall timeout (server.go:91, fs.go:84).
Fairness == WF_vars(Launch) /\ WF_vars(Return) /\ \A i \in Chunks : WF_vars(Goroutine(i))

FairSpec == Spec /\ Fairness

-----------------------------------------------------------------------------
(* Properties *)

Running == {i \in Chunks : pc[i] \notin {"unstarted", "done"}}

Pcs == {"unstarted", "check", "try", "failed", "giveUp", "deliver", "callback",
        "record", "notify", "done"}

TypeOK ==
    /\ kind \in Kinds
    /\ urls \subseteq Chunks /\ short \in BOOLEAN
    /\ next \in 1..(NumChunks + 1)
    /\ sem \in Nat
    /\ mu \in Chunks \union {Free}
    /\ firstErr \in Chunks \union {None}
    /\ pc \in [Chunks -> Pcs]
    /\ attempt \in [Chunks -> 0..(Retries + 1)]
    /\ moved \in [Chunks -> Nat]
    /\ result \in {"none", "ok", "error"}

\* No more than Workers chunks are in transfer, whichever way goroutines leave.
\* (stream.go:65-74, 159-168; "up to 8 concurrent chunk PUTs/GETs".)
BoundedWorkers == Cardinality(Running) <= Workers

\* onChunk is never entered by two goroutines, so it may write a cache or a
\* slice without a lock of its own.  (stream.go:55-56, "already locked - safe
\* for cache writes".)
CallbackExclusive ==
    \A i, j \in Chunks : pc[i] = "callback" /\ pc[j] = "callback" => i = j

\* The error a transfer reports is about a chunk that was given up, never about
\* one that a retry brought in.  (stream.go:91, 103, 112, 216-220.)
ErrorHasCause == firstErr # None => pc[firstErr] = "done" /\ moved[firstErr] = 0

\* Once the caller has its answer no goroutine is left that could touch the
\* caller's data.  (stream.go:129, 223.)
QuietAfterReturn == [][result = "none"]_vars

\* The pool never waits for itself: until the caller has its answer there is room
\* for the next goroutine, or one that runs can go on, or all have ended.  A slot
\* of the semaphore that is lost, or the mutex kept at an early return, would stop
\* it for good.  (stream.go:65-129, 159-223.)
GoesOn(i) ==
    \/ pc[i] \in {"try", "callback", "notify"}
    \/ pc[i] = "check" /\ (kind = "upload" => i \in urls) /\ kind \in {"upload", "close"}
    \/ pc[i] \in {"check", "failed", "giveUp", "deliver", "record"} /\ mu = Free

NeverStuck ==
    result = "none" =>
      \/ next <= NumChunks /\ sem < Workers
      \/ \E i \in Chunks : GoesOn(i)
      \/ next > NumChunks /\ \A i \in Chunks : pc[i] = "done"

\* How far the goroutine of a chunk is from its end, retries included.
Ahead(i) ==
    LET retries == 2 * (Retries - attempt[i]) IN
    CASE pc[i] = "done"                             -> 0
      [] pc[i] \in {"giveUp", "callback", "notify"} -> 1
      [] pc[i] \in {"deliver", "record"}            -> 2
      [] pc[i] = "failed"                           -> 3 + retries
      [] pc[i] = "try"                              -> 4 + retries
      [] pc[i] = "check"                            -> 5 + 2 * Retries
      [] pc[i] = "unstarted"                        -> 6 + 2 * Retries

\* No transfer runs for ever: a step is the caller's answer or brings one chunk
\* nearer to its end and none farther, however requests fail and are retried.
\* (stream.go:87-107, 177-214.)
AlwaysNearer ==
    [][\/ result' # result
       \/ \E i \in Chunks : /\ Ahead(i)' < Ahead(i)
                            /\ \A j \in Chunks \ {i} : Ahead(j)' = Ahead(j)]_vars

Passed == {i \in Chunks : pc[i] = "done" /\ kind = "close" /\ i \notin urls}
Got    == {i \in Chunks : moved[i] > 0}
Lost   == {i \in Chunks : pc[i] = "done" /\ moved[i] = 0} \ Passed

\* A transfer answers when every chunk is settled, with success when none was given
\* up and with an error only when one is missing: all or nothing - but for the
\* loop of Close, which may answer with success though it passed over a chunk for
\* which it had no URL, and only over such a chunk.  Of this ChunkStore makes its
\* PUT phase.  (stream.go:57-131, 149-229; filesystem.go:690-735; server.go:939-998.)
Promise == INSTANCE AllOrNothing WITH got <- Got, lost <- Lost, passed <- Passed,
                                      lenient <- (kind = "close"), outcome <- result

Transfers == Promise!ASpec

\* Every transfer returns: no slot of the semaphore is lost, no lock is kept.
Terminates == <>(result # "none")
=============================================================================
