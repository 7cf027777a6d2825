------------------------ MODULE ChunkTransferProofs ------------------------
(***************************************************************************)
(* Proofs, for any number of chunks, workers and retries, that a transfer  *)
(* is type correct, keeps to its bound of workers, calls back one chunk at *)
(* a time, blames a chunk it gave up, leaves nothing running behind, and   *)
(* implements AllOrNothing; and, what of its termination is safety, that   *)
(* it is never stuck and that every step is one of finitely many.          *)
(***************************************************************************)
EXTENDS ChunkTransfer, FiniteSetTheorems, TLAPS

\* The semaphore counts the goroutines that run.
SemInv == sem = Cardinality(Running) /\ sem <= Workers

\* The mutex is held across steps by the callback only.
MuInv == \A i \in Chunks : pc[i] = "callback" <=> mu = i

\* Where each chunk stands, as its own goroutine knows it; a short answer lacks one.
ChunkInv ==
    /\ short => urls # Chunks
    /\ \A i \in Chunks :
       /\ pc[i] = "unstarted" <=> i >= next
       /\ pc[i] \in {"unstarted", "check", "try", "failed"} => attempt[i] <= Retries
       /\ moved[i] > 0 => pc[i] \in {"notify", "done"}
       /\ pc[i] = "notify" => moved[i] > 0
       /\ i \notin urls => pc[i] \in {"unstarted", "check", "done"} /\ moved[i] = 0

\* What the caller will conclude from firstErr.
VerdictInv ==
    /\ \A i \in Chunks : pc[i] = "done" =>
         \/ moved[i] > 0 \/ firstErr # None
         \/ kind = "close" /\ i \notin urls
    /\ ErrorHasCause
    /\ result # "none" => \A i \in Chunks : pc[i] = "done"

IInv == TypeOK /\ SemInv /\ MuInv /\ ChunkInv /\ VerdictInv

-----------------------------------------------------------------------------

LEMMA Basic ==
    /\ NumChunks \in Nat \ {0} /\ Workers \in Nat \ {0} /\ Retries \in Nat
    /\ Chunks \subseteq Nat /\ None \notin Chunks /\ Free \notin Chunks
    /\ IsFiniteSet(Chunks)
  <1>1. NumChunks \in Nat \ {0} /\ Workers \in Nat \ {0} /\ Retries \in Nat
    BY SizesAssumption DEF SizesAssumption
  <1>2. IsFiniteSet(1..NumChunks)
    BY <1>1, FS_Interval
  <1> QED
    BY <1>1, <1>2 DEF Chunks, None, Free

\* A goroutine that starts, goes on or ends changes the number of those that
\* run by one, none and minus one.
LEMMA RunningSize ==
    ASSUME pc \in [Chunks -> Pcs], NEW i \in Chunks, NEW l \in Pcs, Goto(i, l)
    PROVE  /\ IsFiniteSet(Running) /\ Cardinality(Running) \in Nat
           /\ pc[i] = "unstarted" /\ l \notin {"unstarted", "done"} =>
                Cardinality(Running)' = Cardinality(Running) + 1
           /\ i \in Running /\ l \notin {"unstarted", "done"} =>
                Cardinality(Running)' = Cardinality(Running)
           /\ i \in Running /\ l = "done" =>
                Cardinality(Running)' = Cardinality(Running) - 1
  <1>1. pc' = [pc EXCEPT ![i] = l]
    BY DEF Goto
  <1>2. IsFiniteSet(Running)
    BY Basic, FS_Subset DEF Running
  <1>3. Cardinality(Running) \in Nat
    BY <1>2, FS_CardinalityType
  <1>4. ASSUME pc[i] = "unstarted", l \notin {"unstarted", "done"}
        PROVE  Cardinality(Running)' = Cardinality(Running) + 1
    <2>1. Running' = Running \union {i} /\ i \notin Running
      BY <1>1, <1>4 DEF Running
    <2>2. Cardinality(Running \union {i}) = Cardinality(Running) + 1
      BY <1>2, <2>1, FS_AddElement
    <2> QED
      BY <2>1, <2>2
  <1>5. ASSUME i \in Running, l \notin {"unstarted", "done"}
        PROVE  Cardinality(Running)' = Cardinality(Running)
    <2>1. Running' = Running
      BY <1>1, <1>5 DEF Running
    <2> QED
      BY <2>1
  <1>6. ASSUME i \in Running, l = "done"
        PROVE  Cardinality(Running)' = Cardinality(Running) - 1
    <2>1. Running' = Running \ {i}
      BY <1>1, <1>6 DEF Running
    <2>2. Cardinality(Running \ {i}) = Cardinality(Running) - 1
      BY <1>2, <1>6, FS_RemoveElement
    <2> QED
      BY <2>1, <2>2
  <1> QED
    BY <1>2, <1>3, <1>4, <1>5, <1>6

\* The semaphore follows the goroutines.
LEMMA SemStep == ASSUME IInv, Next PROVE SemInv'
  <1> USE DEF IInv, SemInv
  <1>0. pc \in [Chunks -> Pcs] /\ next \in 1..(NumChunks + 1) /\ sem \in Nat
    BY DEF TypeOK
  <1>1. ASSUME NEW i \in Chunks, NEW l \in Pcs \ {"unstarted", "done"},
               i \in Running, Goto(i, l), sem' = sem
        PROVE  SemInv'
    BY <1>0, <1>1, RunningSize
  <1>2. ASSUME NEW i \in Chunks, i \in Running, Leave(i)
        PROVE  SemInv'
    <2>1. Goto(i, "done") /\ sem' = sem - 1
      BY <1>2 DEF Leave
    <2>2. Cardinality(Running)' = Cardinality(Running) - 1
      BY <1>0, <1>2, <2>1, RunningSize DEF Pcs
    <2> QED
      BY <1>0, <2>1, <2>2, Basic
  <1>3. CASE Launch
    <2>1. next \in Chunks /\ pc[next] = "unstarted"
      BY <1>0, <1>3, Basic DEF Launch, Chunks, ChunkInv
    <2>2. Goto(next, "check") /\ sem' = sem + 1 /\ sem < Workers
      BY <1>3 DEF Launch
    <2>3. Cardinality(Running)' = Cardinality(Running) + 1
      BY <1>0, <2>1, <2>2, RunningSize DEF Pcs
    <2> QED
      BY <1>0, <2>2, <2>3, Basic
  <1>4. ASSUME NEW i \in Chunks, Goroutine(i) PROVE SemInv'
    <2>1. i \in Running
      BY <1>4, Zenon DEF Running, Goroutine, HasURL, NoURL, Succeed, Fail, FetchFailed, GiveUp,
                  Deliver, Delivered, Record, Notify
    <2>2. \/ Leave(i)
          \/ \E l \in Pcs \ {"unstarted", "done"} : Goto(i, l) /\ sem' = sem
      BY <1>4 DEF Goroutine, HasURL, NoURL, Succeed, Fail, FetchFailed, GiveUp,
                  Deliver, Delivered, Record, Notify, Pcs
    <2> QED
      BY <1>1, <1>2, <2>1, <2>2
  <1>5. CASE Return
    BY <1>5 DEF Return, Running
  <1> QED
    BY <1>3, <1>4, <1>5 DEF Next

-----------------------------------------------------------------------------

\* What an action of the goroutine of chunk i leaves to the other chunks.
LEMMA GoroutineFrame ==
    ASSUME IInv, NEW i \in Chunks, Goroutine(i)
    PROVE  /\ UNCHANGED <<kind, urls, short, next, result>>
           /\ pc' \in [Chunks -> Pcs] /\ pc'[i] \notin {"unstarted"}
           /\ pc[i] \notin {"unstarted", "done"} /\ result = "none"
           /\ \A j \in Chunks : j # i => pc'[j] = pc[j] /\ moved'[j] = moved[j] /\ attempt'[j] = attempt[j]
           /\ firstErr' \in {firstErr, i} /\ (firstErr # None => firstErr' = firstErr)
           /\ mu' = (IF pc'[i] = "callback" THEN i ELSE IF pc[i] = "callback" THEN Free ELSE mu)
           /\ pc'[i] = "callback" => mu = Free
           /\ pc[i] # "callback" /\ pc'[i] # "callback" => mu' = mu
  <1> USE DEF IInv, TypeOK, Goto, Leave, Pcs
  <1>1. UNCHANGED <<kind, urls, short, next, result>>
    BY DEF Goroutine, HasURL, NoURL, Succeed, Fail, FetchFailed, GiveUp,
           Deliver, Delivered, Record, Notify
  <1>2. pc[i] \notin {"unstarted", "done"}
    BY DEF Goroutine, HasURL, NoURL, Succeed, Fail, FetchFailed, GiveUp,
           Deliver, Delivered, Record, Notify
  <1>3. result = "none"
    BY <1>2 DEF VerdictInv
  <1>4. \E l \in Pcs \ {"unstarted"} : pc' = [pc EXCEPT ![i] = l]
    BY DEF Goroutine, HasURL, NoURL, Succeed, Fail, FetchFailed, GiveUp,
           Deliver, Delivered, Record, Notify
  <1>5. \A j \in Chunks : j # i => moved'[j] = moved[j] /\ attempt'[j] = attempt[j]
    BY DEF Goroutine, HasURL, NoURL, Succeed, Fail, FetchFailed, GiveUp,
           Deliver, Delivered, Record, Notify
  <1>6. firstErr' \in {firstErr, i} /\ (firstErr # None => firstErr' = firstErr)
    BY DEF Goroutine, HasURL, NoURL, Succeed, Fail, FetchFailed, GiveUp,
           Deliver, Delivered, Record, Notify, FirstError
  <1>7. /\ mu' = (IF pc'[i] = "callback" THEN i ELSE IF pc[i] = "callback" THEN Free ELSE mu)
        /\ pc'[i] = "callback" => mu = Free
    BY DEF Goroutine, HasURL, NoURL, Succeed, Fail, FetchFailed, GiveUp,
           Deliver, Delivered, Record, Notify
  <1> QED
    BY <1>1, <1>2, <1>3, <1>4, <1>5, <1>6, <1>7

\* What it does to its own chunk.
LEMMA GoroutineOwn ==
    ASSUME IInv, NEW i \in Chunks, Goroutine(i)
    PROVE  /\ moved' \in [Chunks -> Nat] /\ attempt' \in [Chunks -> 0..(Retries + 1)]
           /\ sem' \in {sem, sem - 1}
           /\ moved'[i] > 0 => pc'[i] \in {"notify", "done"}
           /\ pc'[i] = "notify" => moved'[i] > 0
           /\ pc'[i] \in {"check", "try", "failed"} => attempt'[i] <= Retries
           /\ i \notin urls => pc'[i] = "done" /\ moved'[i] = 0
           /\ firstErr' # firstErr => pc'[i] = "done" /\ moved'[i] = 0 /\ firstErr' = i
           /\ pc'[i] = "done" =>
                \/ moved'[i] > 0 \/ firstErr' # None
                \/ kind = "close" /\ i \notin urls
           /\ moved'[i] = moved[i] \/ (moved[i] = 0 /\ moved'[i] = 1)
  <1> USE DEF IInv, TypeOK, Goto, Leave, Pcs, ChunkInv, FirstError
  <1>0. None \notin Chunks /\ Retries \in Nat
    BY Basic
  <1>1. CASE HasURL(i)
    BY <1>0, <1>1 DEF HasURL
  <1>2. CASE NoURL(i)
    BY <1>0, <1>2 DEF NoURL
  <1>3. CASE Succeed(i)
    BY <1>0, <1>3 DEF Succeed
  <1>4. CASE Fail(i)
    BY <1>0, <1>4 DEF Fail
  <1>5. CASE FetchFailed(i)
    BY <1>0, <1>5 DEF FetchFailed
  <1>6. CASE GiveUp(i)
    BY <1>0, <1>6 DEF GiveUp
  <1>7. CASE Deliver(i)
    BY <1>0, <1>7 DEF Deliver
  <1>8. CASE Delivered(i)
    BY <1>0, <1>8 DEF Delivered
  <1>9. CASE Record(i)
    BY <1>0, <1>9 DEF Record
  <1>10. CASE Notify(i)
    BY <1>0, <1>10 DEF Notify
  <1> QED
    BY <1>1, <1>2, <1>3, <1>4, <1>5, <1>6, <1>7, <1>8, <1>9, <1>10 DEF Goroutine

-----------------------------------------------------------------------------

\* The caller starts a goroutine.
LEMMA LaunchStep ==
    ASSUME IInv, Launch
    PROVE  TypeOK' /\ MuInv' /\ ChunkInv' /\ VerdictInv'
  <1> USE DEF IInv, TypeOK, Launch, Goto
  <1>0. /\ next \in Chunks /\ next + 1 \in 1..(NumChunks + 1) /\ pc[next] = "unstarted"
        /\ None \notin Chunks /\ Free \notin Chunks /\ Chunks \subseteq Nat
    BY Basic DEF Chunks, ChunkInv
  <1>1. /\ pc' = [pc EXCEPT ![next] = "check"] /\ next' = next + 1
        /\ UNCHANGED <<kind, urls, short, mu, firstErr, attempt, moved, result>>
    OBVIOUS
  <1>2. TypeOK'
    BY <1>0, <1>1 DEF Pcs
  <1>3. MuInv'
    BY <1>0, <1>1 DEF MuInv
  <1>4. ChunkInv'
    BY <1>0, <1>1 DEF ChunkInv
  <1>5. VerdictInv'
    BY <1>0, <1>1 DEF VerdictInv, ErrorHasCause
  <1> QED
    BY <1>2, <1>3, <1>4, <1>5

\* A goroutine takes a step.
LEMMA GoroutineStep ==
    ASSUME IInv, NEW i \in Chunks, Goroutine(i), SemInv'
    PROVE  TypeOK' /\ MuInv' /\ ChunkInv' /\ VerdictInv'
  <1>0. TypeOK /\ MuInv /\ ChunkInv /\ VerdictInv
    BY DEF IInv
  <1>a. /\ UNCHANGED <<kind, urls, short, next, result>>
        /\ pc' \in [Chunks -> Pcs] /\ pc'[i] # "unstarted"
        /\ pc[i] \notin {"unstarted", "done"} /\ result = "none"
        /\ \A j \in Chunks : j # i => pc'[j] = pc[j] /\ moved'[j] = moved[j] /\ attempt'[j] = attempt[j]
        /\ firstErr' \in {firstErr, i} /\ (firstErr # None => firstErr' = firstErr)
        /\ mu' = (IF pc'[i] = "callback" THEN i ELSE IF pc[i] = "callback" THEN Free ELSE mu)
        /\ pc'[i] = "callback" => mu = Free
    BY GoroutineFrame
  <1>b. None \notin Chunks /\ Free \notin Chunks
    BY Basic
  <1>1. TypeOK'
    <2>1. sem' \in Nat
      <3>1. pc' \in [Chunks -> Pcs] /\ IsFiniteSet(Running')
        BY <1>a, Basic, FS_Subset DEF Running
      <3> QED
        BY <3>1, FS_CardinalityType DEF SemInv
    <2> QED
      BY <1>0, <1>a, <2>1, GoroutineOwn DEF TypeOK
  <1>2. MuInv'
    BY <1>0, <1>a, <1>b DEF MuInv
  <1>3. ChunkInv'
    <2>1. /\ moved'[i] > 0 => pc'[i] \in {"notify", "done"}
          /\ pc'[i] = "notify" => moved'[i] > 0
          /\ pc'[i] \in {"check", "try", "failed"} => attempt'[i] <= Retries
          /\ i \notin urls => pc'[i] = "done" /\ moved'[i] = 0
      BY GoroutineOwn
    <2> QED
      BY <1>0, <1>a, <2>1 DEF ChunkInv
  <1>4. VerdictInv'
    <2>1. /\ firstErr' # firstErr => pc'[i] = "done" /\ moved'[i] = 0 /\ firstErr' = i
          /\ pc'[i] = "done" =>
                \/ moved'[i] > 0 \/ firstErr' # None
                \/ kind = "close" /\ i \notin urls
      BY GoroutineOwn
    <2>2. ErrorHasCause'
      <3>1. CASE firstErr' # firstErr
        BY <2>1, <3>1 DEF ErrorHasCause
      <3>2. CASE firstErr' = firstErr /\ firstErr # None
        <4>1. firstErr \in Chunks /\ pc[firstErr] = "done" /\ moved[firstErr] = 0
          BY <1>0, <3>2 DEF VerdictInv, ErrorHasCause, TypeOK
        <4>2. firstErr # i
          BY <1>a, <4>1
        <4> QED
          BY <1>a, <3>2, <4>1, <4>2 DEF ErrorHasCause
      <3>3. CASE firstErr' = None
        BY <3>3 DEF ErrorHasCause
      <3> QED
        BY <3>1, <3>2, <3>3
    <2> QED
      BY <1>0, <1>a, <1>b, <2>1, <2>2 DEF VerdictInv
  <1> QED
    BY <1>1, <1>2, <1>3, <1>4

LEMMA ReturnStep ==
    ASSUME IInv, Return
    PROVE  TypeOK' /\ MuInv' /\ ChunkInv' /\ VerdictInv'
  BY DEF IInv, Return, TypeOK, MuInv, ChunkInv, VerdictInv, ErrorHasCause

LEMMA Inductive == Init => IInv
  <1> SUFFICES ASSUME Init PROVE IInv
    OBVIOUS
  <1>1. TypeOK
    BY Basic DEF Init, TypeOK, Pcs
  <1>2. SemInv
    <2>1. Running = {}
      BY DEF Init, Running
    <2> QED
      BY <2>1, FS_EmptySet, Basic DEF SemInv, Init
  <1>3. MuInv /\ ChunkInv /\ VerdictInv
    BY Basic DEF Init, MuInv, ChunkInv, VerdictInv, ErrorHasCause, Chunks
  <1> QED
    BY <1>1, <1>2, <1>3 DEF IInv

LEMMA Step == IInv /\ [Next]_vars => IInv'
  <1> SUFFICES ASSUME IInv, [Next]_vars PROVE IInv'
    OBVIOUS
  <1>1. CASE Launch
    BY <1>1, SemStep, LaunchStep DEF Next, IInv
  <1>2. ASSUME NEW i \in Chunks, Goroutine(i) PROVE IInv'
    BY <1>2, SemStep, GoroutineStep DEF Next, IInv
  <1>3. CASE Return
    BY <1>3, SemStep, ReturnStep DEF Next, IInv
  <1>4. CASE UNCHANGED vars
    BY <1>4 DEF vars, IInv, TypeOK, SemInv, MuInv, ChunkInv, VerdictInv, ErrorHasCause, Running
  <1> QED
    BY <1>1, <1>2, <1>3, <1>4 DEF Next

LEMMA Invariant == Spec => []IInv
  BY Inductive, Step, PTL DEF Spec

-----------------------------------------------------------------------------

\* The state of the pool keeps its types (stream.go:57-129, 149-223,
\* filesystem.go:690-731, server.go:939-983).
THEOREM TypeCorrect == Spec => []TypeOK
  BY Invariant, PTL DEF IInv

\* For any number of chunks at most Workers of them are in transfer.
THEOREM PoolIsBounded == Spec => []BoundedWorkers
  <1>1. IInv => BoundedWorkers
    BY DEF IInv, SemInv, BoundedWorkers
  <1> QED
    BY <1>1, Invariant, PTL

\* onChunk is never entered twice at a time.
THEOREM OneCallback == Spec => []CallbackExclusive
  <1>1. IInv => CallbackExclusive
    BY DEF IInv, MuInv, CallbackExclusive
  <1> QED
    BY <1>1, Invariant, PTL

\* firstErr never blames a chunk that was transferred in the end.
THEOREM BlameIsDeserved == Spec => []ErrorHasCause
  <1>1. IInv => ErrorHasCause
    BY DEF IInv, VerdictInv
  <1> QED
    BY <1>1, Invariant, PTL

\* No goroutine of the pool runs once the caller has its answer.
THEOREM NothingLeftBehind == Spec => QuietAfterReturn
  <1>1. IInv /\ [Next]_vars => [result = "none"]_vars
    <2> SUFFICES ASSUME IInv, Next PROVE result = "none"
      BY DEF vars
    <2> QED
      BY GoroutineFrame DEF Next, Launch, Return
  <1> QED
    BY <1>1, Invariant, PTL DEF Spec, QuietAfterReturn

\* Until the caller has its answer something of the pool can go on: the semaphore
\* counts goroutines that run, and the mutex is kept by one that needs no lock.
THEOREM PoolNeverStuck == Spec => []NeverStuck
  <1>1. ASSUME IInv PROVE NeverStuck
    <2> SUFFICES ASSUME ~ (next <= NumChunks /\ sem < Workers),
                        ~ (next > NumChunks /\ \A i \in Chunks : pc[i] = "done")
                 PROVE  \E i \in Chunks : GoesOn(i)
      BY DEF NeverStuck
    <2>0. /\ pc \in [Chunks -> Pcs] /\ mu \in Chunks \union {Free} /\ kind \in Kinds
          /\ next \in Nat /\ sem \in Nat /\ NumChunks \in Nat /\ Workers \in Nat \ {0}
      BY <1>1, Basic DEF IInv, TypeOK
    <2>1. Running # {}
      <3>1. CASE next <= NumChunks
        <4>1. Cardinality(Running) # 0
          BY <1>1, <2>0, <3>1 DEF IInv, SemInv
        <4> QED
          BY <4>1, FS_EmptySet
      <3>2. CASE next > NumChunks
        <4>1. PICK i \in Chunks : pc[i] # "done"
          BY <3>2
        <4>2. pc[i] # "unstarted"
          BY <1>1, <2>0, <3>2 DEF IInv, ChunkInv, Chunks
        <4> QED
          BY <4>1, <4>2 DEF Running
      <3> QED
        BY <2>0, <3>1, <3>2
    <2>2. PICK i \in Chunks : i \in Running
      BY <2>1 DEF Running
    <2>3. CASE mu = Free
      BY <2>0, <2>2, <2>3 DEF Running, GoesOn, Pcs
    <2>4. CASE mu \in Chunks
      BY <1>1, <2>4 DEF IInv, MuInv, GoesOn
    <2> QED
      BY <2>0, <2>3, <2>4
  <1> QED
    BY <1>1, Invariant, PTL

\* The distance of a chunk is a number, and depends on its own state only.
LEMMA AheadIs ==
    ASSUME IInv, NEW i \in Chunks
    PROVE  /\ Ahead(i) \in Nat
           /\ pc'[i] = pc[i] /\ attempt'[i] = attempt[i] => Ahead(i)' = Ahead(i)
  <1>1. pc[i] \in Pcs /\ attempt[i] \in 0..(Retries + 1) /\ Retries \in Nat
    BY Basic DEF IInv, TypeOK
  <1>2. pc[i] \in {"try", "failed"} => attempt[i] <= Retries
    BY DEF IInv, ChunkInv
  <1> QED
    BY <1>1, <1>2 DEF Ahead, Pcs

\* A goroutine that takes a step is nearer to its end.
LEMMA Nearer ==
    ASSUME IInv, NEW i \in Chunks, Goroutine(i)
    PROVE  Ahead(i)' < Ahead(i)
  <1> USE DEF IInv, TypeOK, Goto, Leave, Ahead
  <1>0. /\ pc \in [Chunks -> Pcs] /\ attempt \in [Chunks -> 0..(Retries + 1)] /\ Retries \in Nat
        /\ pc[i] \in {"try", "failed"} => attempt[i] <= Retries
    BY Basic DEF ChunkInv
  <1>1. CASE HasURL(i)
    BY <1>0, <1>1 DEF HasURL
  <1>2. CASE NoURL(i)
    BY <1>0, <1>2 DEF NoURL
  <1>3. CASE Succeed(i)
    BY <1>0, <1>3 DEF Succeed
  <1>4. CASE Fail(i)
    BY <1>0, <1>4 DEF Fail
  <1>5. CASE FetchFailed(i)
    BY <1>0, <1>5 DEF FetchFailed
  <1>6. CASE GiveUp(i)
    BY <1>0, <1>6 DEF GiveUp
  <1>7. CASE Deliver(i)
    BY <1>0, <1>7 DEF Deliver
  <1>8. CASE Delivered(i)
    BY <1>0, <1>8 DEF Delivered
  <1>9. CASE Record(i)
    BY <1>0, <1>9 DEF Record
  <1>10. CASE Notify(i)
    BY <1>0, <1>10 DEF Notify
  <1> QED
    BY <1>1, <1>2, <1>3, <1>4, <1>5, <1>6, <1>7, <1>8, <1>9, <1>10 DEF Goroutine

\* Every step is the answer or brings one chunk nearer to its end: each chunk has
\* at most 6 + 2 * Retries steps to go, so a transfer takes finitely many.
THEOREM StepsRunOut == Spec => AlwaysNearer
  <1> DEFINE Forward == \/ result' # result
                        \/ \E i \in Chunks : /\ Ahead(i)' < Ahead(i)
                                             /\ \A j \in Chunks \ {i} : Ahead(j)' = Ahead(j)
  <1>1. ASSUME IInv, Next PROVE Forward
    <2>1. ASSUME NEW i \in Chunks, Goroutine(i) PROVE Forward
      <3>1. \A j \in Chunks \ {i} : Ahead(j)' = Ahead(j)
        BY <1>1, <2>1, GoroutineFrame, AheadIs
      <3> QED
        BY <1>1, <2>1, <3>1, Nearer
    <2>2. CASE Launch
      <3>1. next \in Chunks /\ pc[next] = "unstarted" /\ pc' = [pc EXCEPT ![next] = "check"]
            /\ attempt' = attempt /\ pc \in [Chunks -> Pcs] /\ Retries \in Nat
        BY <1>1, <2>2, Basic DEF Launch, Goto, IInv, TypeOK, Chunks, ChunkInv
      <3>2. PICK n \in Chunks : n = next
        BY <3>1
      <3>3. pc[n] = "unstarted" /\ pc'[n] = "check" /\ \A j \in Chunks \ {n} : pc'[j] = pc[j]
        BY <3>1, <3>2
      <3>4. Ahead(n)' < Ahead(n)
        <4>1. Ahead(n) = 6 + 2 * Retries /\ Ahead(n)' = 5 + 2 * Retries
          BY <3>3 DEF Ahead
        <4> QED
          BY <3>1, <4>1
      <3>5. \A j \in Chunks \ {n} : Ahead(j)' = Ahead(j)
        BY <1>1, <3>1, <3>3, AheadIs
      <3> QED
        BY <3>4, <3>5
    <2>3. CASE Return
      BY <2>3 DEF Return
    <2> QED
      BY <1>1, <2>1, <2>2, <2>3 DEF Next
  <1>2. IInv /\ [Next]_vars => [Forward]_vars
    BY <1>1
  <1> QED
    BY <1>2, Invariant, PTL DEF Spec, AlwaysNearer

\* Every step of the pool is a step of AllOrNothing or leaves it alone.
LEMMA Refines ==
    ASSUME IInv, Next
    PROVE  [Promise!ANext]_<<Got, Lost, Passed, kind = "close", result>>
  <1>0. /\ moved \in [Chunks -> Nat] /\ firstErr \in Chunks \union {None}
        /\ pc \in [Chunks -> Pcs] /\ urls \subseteq Chunks
        /\ \A i \in Chunks : i \notin urls => moved[i] = 0
    BY DEF IInv, TypeOK, ChunkInv
  <1> DEFINE Still == UNCHANGED <<Got, Lost, Passed, kind = "close", result>>
  <1>1. CASE Launch
    <2>1. /\ next \in Chunks /\ pc[next] = "unstarted" /\ pc' = [pc EXCEPT ![next] = "check"]
          /\ UNCHANGED <<moved, result, kind, urls>>
      BY <1>1, Basic DEF Launch, Goto, IInv, TypeOK, ChunkInv, Chunks
    <2>2. Got' = Got /\ Passed' = Passed
      BY <1>0, <2>1 DEF Got, Passed
    <2>3. {i \in Chunks : pc[i] = "done" /\ moved[i] = 0}'
          = {i \in Chunks : pc[i] = "done" /\ moved[i] = 0}
      BY <1>0, <2>1
    <2> QED
      BY <2>1, <2>2, <2>3 DEF Lost
  <1>2. ASSUME NEW i \in Chunks, Goroutine(i)
        PROVE  Promise!HandOver(i) \/ Promise!Lose(i) \/ Promise!PassOver(i) \/ Still
    <2>1. /\ result = "none" /\ result' = result /\ UNCHANGED <<kind, urls>>
          /\ \A j \in Chunks : j # i => pc'[j] = pc[j] /\ moved'[j] = moved[j]
          /\ pc[i] # "done"
      BY <1>2, GoroutineFrame
    <2>2. moved'[i] = moved[i] \/ (moved[i] = 0 /\ moved'[i] = 1)
      BY <1>2, GoroutineOwn
    <2>3. i \notin urls => moved'[i] = 0
      BY <1>2, GoroutineOwn
    <2>4. CASE moved'[i] = moved[i] /\ (pc'[i] = "done" => moved[i] # 0)
      <3>1. Got' = Got /\ Passed' = Passed
        BY <1>0, <2>1, <2>4 DEF Got, Passed
      <3>2. {j \in Chunks : pc[j] = "done" /\ moved[j] = 0}'
            = {j \in Chunks : pc[j] = "done" /\ moved[j] = 0}
        BY <2>1, <2>4
      <3> QED
        BY <2>1, <3>1, <3>2 DEF Lost
    <2>5. CASE moved'[i] = moved[i] /\ pc'[i] = "done" /\ moved[i] = 0
      <3>1. i \notin Got \union Lost \union Passed /\ Got' = Got
        BY <2>1, <2>5 DEF Got, Lost, Passed
      <3>2. CASE kind = "close" /\ i \notin urls
        <4>1. Passed' = Passed \union {i}
          BY <2>1, <2>5, <3>2 DEF Passed
        <4>2. Lost' = Lost
          BY <2>1, <2>5, <3>2 DEF Lost, Passed
        <4> QED
          BY <2>1, <3>1, <3>2, <4>1, <4>2 DEF Promise!PassOver, Promise!Open
      <3>3. CASE ~(kind = "close" /\ i \notin urls)
        <4>1. Passed' = Passed
          BY <2>1, <2>5, <3>3 DEF Passed
        <4>2. Lost' = Lost \union {i}
          BY <2>1, <2>5, <3>3 DEF Lost, Passed
        <4> QED
          BY <2>1, <3>1, <4>1, <4>2 DEF Promise!Lose, Promise!Open
      <3> QED
        BY <3>2, <3>3
    <2>6. CASE moved[i] = 0 /\ moved'[i] = 1
      <3>1. i \notin Got \union Lost \union Passed /\ Got' = Got \union {i}
        BY <2>1, <2>6 DEF Got, Lost, Passed
      <3>2. Passed' = Passed
        BY <2>1, <2>3, <2>6 DEF Passed
      <3>3. Lost' = Lost
        BY <2>1, <2>6, <3>2 DEF Lost
      <3> QED
        BY <2>1, <3>1, <3>2, <3>3 DEF Promise!HandOver, Promise!Open
    <2> QED
      BY <2>2, <2>4, <2>5, <2>6
  <1>3. CASE Return
    <2>1. /\ result = "none" /\ \A i \in Chunks : pc[i] = "done"
          /\ UNCHANGED <<Got, Lost, Passed, kind, urls>>
      BY <1>3 DEF Return, Got, Lost, Passed
    <2>2. Got \union Lost \union Passed = Chunks
      BY <1>0, <2>1 DEF Got, Lost, Passed
    <2>3. CASE firstErr = None /\ (kind = "close" => ~short)
      <3>1. \A i \in Chunks : moved[i] > 0 \/ (kind = "close" /\ i \notin urls)
        BY <2>1, <2>3 DEF IInv, VerdictInv
      <3>2. Got \union Passed = Chunks
        BY <2>1, <3>1 DEF Got, Passed
      <3> QED
        BY <1>3, <2>1, <2>3, <3>2 DEF Return, Promise!ANext, Promise!Succeed
    <2>4. CASE ~(firstErr = None /\ (kind = "close" => ~short))
      <3>1. Lost \union Passed # {}
        <4>1. CASE firstErr # None
          <5>1. firstErr \in Lost \union Passed
            BY <1>0, <4>1 DEF IInv, VerdictInv, ErrorHasCause, Lost
          <5> QED
            BY <5>1
        <4>2. CASE kind = "close" /\ short
          <5>1. PICK i \in Chunks : i \notin urls
            BY <4>2, <1>0 DEF IInv, ChunkInv, TypeOK
          <5>2. i \in Passed
            BY <2>1, <4>2, <5>1 DEF Passed
          <5> QED
            BY <5>2
        <4> QED
          BY <2>4, <4>1, <4>2
      <3> QED
        BY <1>3, <2>1, <2>2, <2>4, <3>1 DEF Return, Promise!ANext, Promise!Fail
    <2> QED
      BY <2>3, <2>4
  <1> QED
    BY <1>1, <1>2, <1>3 DEF Next, Promise!ANext

\* A transfer answers when every chunk is settled: never ok when one was given up,
\* and with an error only when one is missing; a chunk is missing in an ok answer
\* only when Close had no URL for it.  (stream.go:57-131, 149-229;
\* filesystem.go:690-735; server.go:939-998.)
THEOREM AllOrNothingHolds == Spec => Transfers
  <1>1. Init => Promise!AInit
    BY DEF Init, Promise!AInit, Got, Lost, Passed
  <1>2. IInv /\ [Next]_vars => [Promise!ANext]_<<Got, Lost, Passed, kind = "close", result>>
    <2>1. UNCHANGED vars => UNCHANGED <<Got, Lost, Passed, kind = "close", result>>
      BY DEF vars, Got, Lost, Passed
    <2> QED
      BY <2>1, Refines
  <1> QED
    BY <1>1, <1>2, Invariant, PTL DEF Spec, Transfers, Promise!ASpec
=============================================================================
