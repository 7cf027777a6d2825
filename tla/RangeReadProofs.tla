--------------------------- MODULE RangeReadProofs ---------------------------
(***************************************************************************)
(* Proofs, for any size of the file and any header, that a 206 carries     *)
(* what its header names.                                                  *)
(***************************************************************************)
EXTENDS RangeRead, SequenceTheorems, TLAPS

Types ==
    /\ actual \in Nat
    /\ first \in Nat \union {Empty, Bad} /\ last \in Int \union {Empty, Bad}
    /\ status \in {"asked", "200", "206"}

OutInv == out \in Seq(Nat) /\ Len(out) <= actual

IInv == Types /\ OutInv /\ RangeIsServed

LEMMA Constants == MaxBytes \in Nat /\ Empty \notin Int /\ Bad \notin Int /\ Empty # Bad
  BY ConstantsAssumption DEF ConstantsAssumption

LEMMA BytesSeq ==
    \A a \in Nat, b \in Int : b >= a =>
        /\ Bytes(a, b) \in Seq(Nat) /\ Len(Bytes(a, b)) = b - a
        /\ \A k \in 1..(b - a) : Bytes(a, b)[k] = a + k - 1
  <1> SUFFICES ASSUME NEW a \in Nat, NEW b \in Int, b >= a
               PROVE  /\ Bytes(a, b) \in Seq(Nat) /\ Len(Bytes(a, b)) = b - a
                      /\ \A k \in 1..(b - a) : Bytes(a, b)[k] = a + k - 1
    OBVIOUS
  <1> DEFINE n == b - a
  <1>1. n \in Nat /\ \A k \in 1..n : a + k - 1 \in Nat
    OBVIOUS
  <1>2. Bytes(a, b) = [k \in 1..n |-> a + k - 1]
    BY DEF Bytes
  <1> HIDE DEF n
  <1>3. Bytes(a, b) \in [1..n -> Nat]
    BY <1>1, <1>2
  <1>4. Bytes(a, b) \in Seq(Nat) /\ Len(Bytes(a, b)) = n
    BY <1>1, <1>3
  <1>5. \A k \in 1..n : Bytes(a, b)[k] = a + k - 1
    BY <1>2
  <1> QED
    BY <1>4, <1>5 DEF n

-----------------------------------------------------------------------------
(* Steps *)

LEMMA InitIInv == Init => IInv
  <1> SUFFICES ASSUME Init PROVE IInv
    OBVIOUS
  <1>1. Types
    BY Constants DEF Init, Types
  <1>2. OutInv /\ RangeIsServed
    BY <1>1, EmptySeq DEF Init, Types, OutInv, RangeIsServed
  <1> QED
    BY <1>1, <1>2 DEF IInv

\* What a header that parses names is a run of bytes of the file.
LEMMA SpanInFile ==
    ASSUME Types, ParseOK
    PROVE  /\ Start \in Nat /\ Stop \in Nat /\ Start < Stop /\ Stop <= actual
           /\ \A b \in 0..(actual - 1) : Named(b) <=> (b >= Start /\ b < Stop)
  <1>0. actual \in Nat /\ actual > 0
    BY DEF Types, ParseOK
  <1>1. CASE IsSuffix
    <2>1. first = Empty /\ last \in Int /\ last > 0
      BY <1>1 DEF IsSuffix
    <2>2. Start = actual - Least(last, actual) /\ Stop = actual
      BY <1>1 DEF Start, Stop
    <2>3. \A b : Named(b) <=> b >= actual - last
      BY <2>1 DEF Named
    <2> QED
      BY <1>0, <2>1, <2>2, <2>3 DEF Least
  <1>2. CASE ~IsSuffix
    <2>1. first \in Int /\ first < actual /\ (last = Empty \/ (last \in Int /\ last >= first))
      BY <1>2 DEF ParseOK, IsSpan
    <2>2. first \in Nat /\ first # Empty
      BY <2>1, Constants DEF Types
    <2>3. Start = first /\ \A b : Named(b) <=> (b >= first /\ (last = Empty \/ b <= last))
      BY <1>2, <2>2 DEF Start, Named
    <2>4. CASE last = Empty
      <3>1. Stop = actual
        BY <2>4 DEF Stop
      <3> QED
        BY <1>0, <2>1, <2>2, <2>3, <2>4, <3>1
    <2>5. CASE last # Empty
      <3>1. Stop = Least(last, actual - 1) + 1
        BY <1>2, <2>5 DEF Stop
      <3> QED
        BY <1>0, <2>1, <2>2, <2>3, <2>5, <3>1 DEF Least
    <2> QED
      BY <2>4, <2>5
  <1> QED
    BY <1>1, <1>2

LEMMA PartialStep == IInv /\ Partial => IInv'
  <1> SUFFICES ASSUME IInv, Partial PROVE IInv'
    OBVIOUS
  <1> DEFINE a == Start
             b == Stop
  <1>1. /\ ParseOK /\ out' = Bytes(a, b) /\ status' = "206"
        /\ actual' = actual /\ first' = first
        /\ last' = last
    BY DEF Partial, inputs
  <1>2. Types'
    BY <1>1 DEF IInv, Types
  <1>3. /\ a \in Nat /\ b \in Nat /\ a < b /\ b <= actual
        /\ \A x \in 0..(actual - 1) : Named(x) <=> (x >= a /\ x < b)
    BY <1>1, SpanInFile DEF IInv
  <1>a. actual \in Nat
    BY DEF IInv, Types
  <1>b. \A x : Named(x)' <=> Named(x)
    BY <1>1 DEF Named
  <1> HIDE DEF a, b
  <1>4. /\ out' \in Seq(Nat) /\ Len(out') = b - a
        /\ \A k \in 1..(b - a) : out'[k] = a + k - 1
    <2>1. b >= a /\ b \in Int
      BY <1>3
    <2> QED
      BY <1>1, <1>3, <2>1, BytesSeq
  <1>5. OutInv'
    BY <1>1, <1>3, <1>4, <1>a DEF OutInv
  <1>6. RangeIsServed'
    <2>1. out'[1] = a /\ Len(out') > 0 /\ out'[1] + Len(out') = b
      BY <1>3, <1>4
    <2>2. \A k \in 1..Len(out') : out'[k] = out'[1] + k - 1
      BY <1>3, <1>4, <2>1
    <2>3. \A x \in 0..(actual - 1) : Named(x)' <=> (x >= out'[1] /\ x < out'[1] + Len(out'))
      BY <1>3, <1>b, <2>1
    <2>4. out'[1] >= 0 /\ out'[1] + Len(out') <= actual'
      BY <1>1, <1>3, <2>1
    <2> QED
      BY <1>1, <2>1, <2>2, <2>3, <2>4 DEF RangeIsServed
  <1> QED
    BY <1>2, <1>5, <1>6 DEF IInv

LEMMA WholeStep == IInv /\ Whole => IInv'
  <1> SUFFICES ASSUME IInv, Whole PROVE IInv'
    OBVIOUS
  <1>1. /\ out' = Bytes(0, actual) /\ status' = "200"
        /\ actual' = actual /\ first' = first
        /\ last' = last
    BY DEF Whole, inputs
  <1>2. Types' /\ actual \in Nat
    BY <1>1 DEF IInv, Types
  <1>3. out' \in Seq(Nat) /\ Len(out') = actual
    <2>1. 0 \in Nat /\ actual \in Int /\ actual >= 0 /\ actual - 0 = actual
      BY <1>2
    <2> QED
      BY <1>1, <2>1, BytesSeq
  <1>4. OutInv'
    BY <1>1, <1>2, <1>3 DEF OutInv
  <1> QED
    BY <1>1, <1>2, <1>4 DEF IInv, RangeIsServed

LEMMA NextIInv == IInv /\ [Next]_vars => IInv'
  <1> SUFFICES ASSUME IInv, [Next]_vars PROVE IInv'
    OBVIOUS
  <1>1. CASE UNCHANGED vars
    BY <1>1 DEF vars, IInv, Types, OutInv, RangeIsServed, Named
  <1> QED
    BY <1>1, PartialStep, WholeStep DEF Next

LEMMA Invariance == Spec => []IInv
  <1> QED
    BY InitIInv, NextIInv, PTL DEF Spec

-----------------------------------------------------------------------------
(* Theorems *)

\* What is served is made of bytes of the file and never longer than it.
THEOREM TypeCorrect == Spec => []TypeOK
  <1>1. IInv => TypeOK
    BY DEF IInv, Types, OutInv, TypeOK
  <1> QED
    BY <1>1, Invariance, PTL

\* GET with a range: a 206 carries exactly the bytes its header names, for
\* every size of the file and every header that parses.
THEOREM RangeServed == Spec => []RangeIsServed
  <1>1. IInv => RangeIsServed
    BY DEF IInv
  <1> QED
    BY <1>1, Invariance, PTL
=============================================================================
