----------------------------- MODULE ChildProofs -----------------------------
(***************************************************************************)
(* Proofs about ChildProcess, for any pipes, order of draining, capacity   *)
(* and child: types, and that a function that returns has captured all.    *)
(***************************************************************************)
EXTENDS ChildProcess, FiniteSetTheorems, SequenceTheorems, TLAPS

USE DEF Streams, Writers, Unit, Pipes, PipeOf, Drain, stops

(* Reading one element moves it from the pipe to the captured text.        *)
LEMMA Moved ==
  ASSUME NEW S, NEW a \in Seq(S), NEW b \in Seq(S), b # <<>>
  PROVE  /\ Append(a, Head(b)) \o Tail(b) = a \o b
         /\ Append(a, Head(b)) \in Seq(S) /\ Tail(b) \in Seq(S)
<1>1. Head(b) \in S /\ Tail(b) \in Seq(S) /\ b = <<Head(b)>> \o Tail(b)
  BY HeadTailProperties, ConcatProperties
<1>2. Append(a, Head(b)) = a \o <<Head(b)>>
  BY <1>1, AppendIsConcat
<1>3. (a \o <<Head(b)>>) \o Tail(b) = a \o (<<Head(b)>> \o Tail(b))
  BY <1>1, ConcatAssociative
<1> QED BY <1>1, <1>2, <1>3

(* A write that appends to the pipe appends to what was written.           *)
LEMMA Appended ==
  \A a, b \in Seq(Unit), u \in Unit : Append(a \o b, u) = a \o Append(b, u)
<1> HIDE DEF Unit
<1> SUFFICES ASSUME NEW a \in Seq(Unit), NEW b \in Seq(Unit), NEW u \in Unit
             PROVE  Append(a \o b, u) = a \o Append(b, u)
  OBVIOUS
<1>1. Append(a \o b, u) = (a \o b) \o <<u>> /\ Append(b, u) = b \o <<u>>
  BY AppendIsConcat, ConcatProperties
<1>2. (a \o b) \o <<u>> = a \o (b \o <<u>>)
  BY ConcatAssociative
<1> QED BY <1>1, <1>2

(* The assumptions, one by one, of the function that was called.           *)
LEMMA Assumed ==
  ASSUME mode \in Modes
  PROVE  /\ \A t \in Streams : PipeOf[t] # Inherited => PipeOf[t] \in Pipes
         /\ Drain \in Seq(Pipes)
         /\ \A x \in Pipes : \E i \in 1..Len(Drain) : Drain[i] = x
         /\ MaxStops \in Nat
         /\ \A t \in Scripts : t \in Seq(Streams)
<1>1. \A t \in Streams : PipeOf[t] # Inherited => PipeOf[t] \in Pipes
  <2>1. PipeOf \in [Streams -> (Pipes \cup {Inherited})]
    BY ChildAssumption DEF ChildAssumption
  <2> QED BY <2>1
<1> QED BY <1>1, ChildAssumption DEF ChildAssumption

-----------------------------------------------------------------------------
(* Every value stays in its type, whatever is run.                         *)
THEOREM ChildTypeCorrect == Spec => []TypeOK
<1>1. Init => TypeOK
  <2> SUFFICES ASSUME Init PROVE TypeOK
    OBVIOUS
  <2> mode \in Modes
    BY DEF Init
  <2>1. /\ pipe \in [Pipes -> Seq(Unit)] /\ captured \in [Pipes -> Seq(Unit)]
        /\ written \in [Pipes -> Seq(Unit)]
    BY DEF Init
  <2>2. script \in [Writers -> Seq(Streams)]
    BY Assumed DEF Init
  <2> QED BY <2>1, <2>2, Assumed DEF Init, TypeOK
<1>2. TypeOK /\ [Next]_vars => TypeOK'
  <2> SUFFICES ASSUME TypeOK, [Next]_vars PROVE TypeOK'
    OBVIOUS
  <2> mode \in Modes
    BY DEF TypeOK
  <2> USE DEF TypeOK
  <2>1. CASE Fork
    BY <2>1, Assumed DEF Fork
  <2>2. CASE CannotFork
    BY <2>2 DEF CannotFork
  <2>3. CASE CloseWriteEnds
    BY <2>3 DEF CloseWriteEnds
  <2>4. CASE Read
    <3> DEFINE x == Drain[next]
    <3>1. CASE x \in Pipes
      <4>1. pipe[x] \in Seq(Unit) /\ captured[x] \in Seq(Unit) /\ pipe[x] # <<>>
        BY <2>4, <3>1 DEF Read
      <4>2. Append(captured[x], Head(pipe[x])) \in Seq(Unit) /\ Tail(pipe[x]) \in Seq(Unit)
        BY <4>1, Moved
      <4>3. captured' \in [Pipes -> Seq(Unit)] /\ pipe' \in [Pipes -> Seq(Unit)]
        BY <2>4, <3>1, <4>2 DEF Read
      <4> QED BY <2>4, <4>3 DEF Read
    <3>2. CASE x \notin Pipes
      <4>1. captured' = captured /\ pipe' = pipe
        BY <2>4, <3>2 DEF Read
      <4> QED BY <2>4, <4>1 DEF Read
    <3> QED BY <3>1, <3>2
  <2>5. CASE Eof
    BY <2>5 DEF Eof
  <2>6. CASE Wait
    BY <2>6 DEF Wait
  <2>7. ASSUME NEW w \in Writers, Write(w) PROVE TypeOK'
    <3>1. script[w] \in Seq(Streams) /\ script[w] # <<>>
      BY <2>7 DEF Write
    <3>2. Tail(script[w]) \in Seq(Streams) /\ Head(script[w]) \in Streams /\ Len(script[w]) \in Nat
      BY <3>1, HeadTailProperties, LenProperties
    <3>3. script' \in [Writers -> Seq(Streams)]
      BY <2>7, <3>2 DEF Write
    <3> DEFINE x == PipeOf[Head(script[w])]
               u == <<w, Head(script[w]), Len(script[w])>>
    <3>4. u \in Unit
      BY <3>2
    <3>5. CASE x = Inherited
      BY <2>7, <3>3, <3>5 DEF Write
    <3>6. CASE x # Inherited
      <4>1. x \in Pipes
        BY <3>2, <3>6, Assumed
      <4>2. Append(pipe[x], u) \in Seq(Unit) /\ Append(written[x], u) \in Seq(Unit)
        <5> HIDE DEF x, u
        <5> QED BY <3>4, <4>1, AppendProperties
      <4>3. pipe' = [pipe EXCEPT ![x] = Append(@, u)] /\ written' = [written EXCEPT ![x] = Append(@, u)]
        BY <2>7, <3>6 DEF Write
      <4>4. pipe' \in [Pipes -> Seq(Unit)] /\ written' \in [Pipes -> Seq(Unit)]
        <5> HIDE DEF x, u
        <5> QED BY <4>1, <4>2, <4>3
      <4> QED BY <2>7, <3>3, <4>4 DEF Write
    <3> QED BY <3>5, <3>6
  <2>8. CASE Spawn
    BY <2>8 DEF Spawn
  <2>9. CASE ExitChild
    BY <2>9 DEF ExitChild
  <2>10. CASE ExitGrand
    BY <2>10 DEF ExitGrand
  <2>11. CASE Kill
    BY <2>11 DEF Kill
  <2>12. CASE KillGrand
    BY <2>12 DEF KillGrand
  <2>13. CASE Stop
    BY <2>13, Assumed DEF Stop
  <2>14. CASE Continue
    BY <2>14 DEF Continue
  <2>15. CASE UNCHANGED vars
    BY <2>15 DEF vars
  <2> QED BY <2>1, <2>2, <2>3, <2>4, <2>5, <2>6, <2>7, <2>8, <2>9, <2>10, <2>11,
             <2>12, <2>13, <2>14, <2>15 DEF Next, Parent, Programs
<1> QED BY <1>1, <1>2, PTL DEF Spec

-----------------------------------------------------------------------------
(* Nothing is lost between a write and the captured text.                  *)
Kept == \A x \in Pipes : written[x] = captured[x] \o pipe[x]

(* A pipe that was read to its end stays empty: the end was seen when the  *)
(* last holder of the write ends was gone, and a write end is only got     *)
(* from a process that has one.                                            *)
Started == pc # "fork" /\ child[1] # "none"
Drained == Started => \A i \in 1..Len(Drain) : i < next => pipe[Drain[i]] = <<>>

Phase ==
  /\ pc = "fork" => open = {} /\ child[1] = "none" /\ next = 1
  /\ pc = "close" => next = 1
  /\ pc = "drain" => next <= Len(Drain)
  /\ pc \notin {"fork", "done"} => child[1] # "none"
  /\ child[1] = "none" => open = {}
  /\ "child" \in open => child[1] \in {"running", "stopped"}
  /\ Started /\ next > 1 => open = {}
  /\ pc \in {"wait", "done"} /\ Started => next > Len(Drain)
  /\ pc = "done" /\ Started =>
       child[1] = "exited" /\ (result = "true" <=> code = "zero")

Inv == Kept /\ Drained /\ Phase

LEMMA Complete == TypeOK /\ Inv => ReturnsEverything
<1> SUFFICES ASSUME TypeOK, Inv, pc = "done", child[1] # "none"
             PROVE  /\ \A x \in Pipes : captured[x] = written[x]
                    /\ Pipes # {} => open = {}
                    /\ child[1] = "exited" /\ (result = "true" <=> code = "zero")
  BY DEF ReturnsEverything
<1> mode \in Modes
  BY DEF TypeOK
<1>1. next > Len(Drain) /\ Started
  BY DEF Inv, Phase, Started
<1>2. ASSUME NEW x \in Pipes PROVE captured[x] = written[x] /\ open = {}
  <2>1. PICK i \in 1..Len(Drain) : Drain[i] = x
    BY Assumed
  <2>2. Len(Drain) \in Nat /\ next \in Nat
    BY Assumed, LenProperties DEF TypeOK
  <2>3. i < next /\ next > 1
    BY <1>1, <2>1, <2>2
  <2>4. pipe[x] = <<>>
    BY <1>1, <2>1, <2>3 DEF Inv, Drained
  <2>5. open = {}
    BY <1>1, <2>3 DEF Inv, Phase
  <2>6. written[x] = captured[x] \o pipe[x] /\ captured[x] \in Seq(Unit)
    BY DEF Inv, Kept, TypeOK
  <2>7. captured[x] \o <<>> = captured[x]
    BY <2>6, ConcatEmptySeq
  <2> QED BY <2>4, <2>5, <2>6, <2>7
<1> QED BY <1>1, <1>2 DEF Inv, Phase

LEMMA InitInv == Init => Inv
<1> SUFFICES ASSUME Init PROVE Inv
  OBVIOUS
<1>1. Kept
  <2>1. <<>> \o <<>> = <<>>
    OBVIOUS
  <2> QED BY <2>1 DEF Init, Kept
<1>2. Phase /\ Drained
  BY DEF Init, Phase, Drained, Started
<1> QED BY <1>1, <1>2 DEF Inv

LEMMA NextInv == TypeOK /\ Inv /\ [Next]_vars => Inv'
<1> SUFFICES ASSUME TypeOK, Inv, [Next]_vars PROVE Inv'
  OBVIOUS
<1> mode \in Modes
  BY DEF TypeOK
<1>0. Len(Drain) \in Nat /\ next \in Nat \ {0}
  BY Assumed, LenProperties DEF TypeOK
<1> USE DEF Inv, Started
<1>1. CASE Fork
  <2>1. Kept'
    BY <1>1 DEF Fork, Kept
  <2>2. next' = 1 /\ pc' = "close" /\ child'[1] = "running"
    BY <1>1 DEF Fork, Phase
  <2>3. Drained'
    BY <2>2 DEF Drained
  <2>4. Phase'
    BY <1>1, <2>2 DEF Fork, Phase
  <2> QED BY <2>1, <2>3, <2>4
<1>2. CASE CannotFork
  BY <1>0, <1>2 DEF CannotFork, Kept, Drained, Phase
<1>3. CASE CloseWriteEnds
  <2>1. Kept' /\ Drained'
    BY <1>0, <1>3 DEF CloseWriteEnds, Kept, Drained, Phase
  <2>2. Drain = <<>> => Len(Drain) = 0
    OBVIOUS
  <2>3. Drain # <<>> => Len(Drain) >= 1
    BY <1>0, Assumed, EmptySeq
  <2> QED BY <1>0, <1>3, <2>1, <2>2, <2>3 DEF CloseWriteEnds, Phase
<1>4. CASE Read
  <2> DEFINE x == Drain[next]
  <2>1. next <= Len(Drain) /\ child[1] # "none" /\ Drain \in Seq(Pipes)
    BY <1>4, Assumed DEF Read, Phase
  <2>2. x \in Pipes
    BY <1>0, <2>1, ElementOfSeq
  <2>3. /\ pipe[x] \in Seq(Unit) /\ captured[x] \in Seq(Unit) /\ pipe[x] # <<>>
        /\ captured' = [captured EXCEPT ![x] = Append(captured[x], Head(pipe[x]))]
        /\ pipe' = [pipe EXCEPT ![x] = Tail(pipe[x])]
    BY <1>4, <2>2 DEF Read, TypeOK
  <2>4. Append(captured[x], Head(pipe[x])) \o Tail(pipe[x]) = captured[x] \o pipe[x]
    BY <2>3, Moved
  <2>5. Kept'
    <3>1. mode' = mode /\ written' = written /\ pipe \in [Pipes -> Seq(Unit)] /\ captured \in [Pipes -> Seq(Unit)]
      BY <1>4 DEF Read, TypeOK
    <3> SUFFICES ASSUME NEW y \in Pipes PROVE written'[y] = captured'[y] \o pipe'[y]
      BY <3>1 DEF Kept
    <3>2. written[y] = captured[y] \o pipe[y]
      BY DEF Kept
    <3> HIDE DEF x
    <3>3. CASE y = x
      BY <2>2, <2>3, <2>4, <3>1, <3>2, <3>3
    <3>4. CASE y # x
      BY <2>2, <2>3, <3>1, <3>2, <3>4
    <3> QED BY <3>3, <3>4
  <2>6. Drained'
    <3> SUFFICES ASSUME NEW i \in 1..Len(Drain), i < next PROVE pipe'[Drain[i]] = <<>>
      BY <1>4 DEF Read, Drained
    <3>1. pipe[Drain[i]] = <<>>
      BY <1>4, <2>1 DEF Read, Drained
    <3>2. Drain[i] # x
      BY <2>3, <3>1
    <3> HIDE DEF x
    <3>3. pipe'[Drain[i]] = pipe[Drain[i]]
      <4>1. Drain[i] \in Pipes
        BY <2>1, ElementOfSeq
      <4> QED BY <2>3, <3>2, <4>1 DEF TypeOK
    <3> QED BY <3>1, <3>3
  <2>7. Phase'
    BY <1>4 DEF Read, Phase
  <2> QED BY <2>5, <2>6, <2>7
<1>5. CASE Eof
  <2>1. Kept'
    BY <1>5 DEF Eof, Kept
  <2>2. Drained'
    <3> SUFFICES ASSUME NEW i \in 1..Len(Drain), i < next + 1 PROVE pipe[Drain[i]] = <<>>
      BY <1>5 DEF Eof, Drained
    <3>1. CASE i = next
      BY <1>5, <3>1 DEF Eof
    <3>2. CASE i < next
      BY <1>5, <3>2 DEF Eof, Drained, Phase
    <3> QED BY <1>0, <3>1, <3>2
  <2>3. Phase'
    BY <1>0, <1>5 DEF Eof, Phase
  <2> QED BY <2>1, <2>2, <2>3
<1>6. CASE Wait
  <2>1. Kept' /\ Drained'
    BY <1>6 DEF Wait, Kept, Drained
  <2>2. Phase'
    BY <1>6 DEF Wait, Phase
  <2> QED BY <2>1, <2>2
<1>7. ASSUME NEW w \in Writers, Write(w) PROVE Inv'
  <2>1. w \in open /\ UNCHANGED <<mode, pc, next, captured, open, child, code, result>>
    BY <1>7 DEF Write, Running
  <2>2. Phase'
    BY <2>1 DEF Phase
  <2>3. Drained'
    <3>1. ~(next > 1)
      BY <2>1 DEF Phase
    <3>2. \A i \in 1..Len(Drain) : ~(i < next)
      BY <1>0, <3>1
    <3> QED BY <2>1, <3>2 DEF Drained
  <2>4. Kept'
    <3> DEFINE x == PipeOf[Head(script[w])]
               u == <<w, Head(script[w]), Len(script[w])>>
    <3>1. CASE x = Inherited
      <4>1. pipe' = pipe /\ written' = written /\ captured' = captured
        BY <1>7, <3>1 DEF Write
      <4> QED BY <2>1, <4>1 DEF Kept
    <3>2. CASE x # Inherited
      <4>1. /\ pipe' = [pipe EXCEPT ![x] = Append(pipe[x], u)]
            /\ written' = [written EXCEPT ![x] = Append(written[x], u)]
            /\ captured' = captured
        BY <1>7, <3>2 DEF Write
      <4>2. u \in Unit /\ x \in Pipes
        <5>1. script[w] \in Seq(Streams) /\ script[w] # <<>>
          BY <1>7 DEF Write, TypeOK
        <5>2. Head(script[w]) \in Streams /\ Len(script[w]) \in Nat
          BY <5>1, HeadTailProperties, LenProperties
        <5> QED BY <3>2, <5>2, Assumed
      <4>3. /\ pipe \in [Pipes -> Seq(Unit)] /\ captured \in [Pipes -> Seq(Unit)]
            /\ written \in [Pipes -> Seq(Unit)]
        BY DEF TypeOK
      <4> SUFFICES ASSUME NEW y \in Pipes PROVE written'[y] = captured'[y] \o pipe'[y]
        BY <2>1 DEF Kept
      <4>4. written[y] = captured[y] \o pipe[y]
        BY DEF Kept
      <4> HIDE DEF x, u
      <4>5. Append(captured[y] \o pipe[y], u) = captured[y] \o Append(pipe[y], u)
        <5>1. captured[y] \in Seq(Unit) /\ pipe[y] \in Seq(Unit)
          BY <4>3
        <5> HIDE DEF Unit
        <5> QED BY <4>2, <5>1, Appended
      <4>6. CASE y = x
        BY <4>1, <4>2, <4>3, <4>4, <4>5, <4>6
      <4>7. CASE y # x
        BY <4>1, <4>2, <4>3, <4>4, <4>7
      <4> QED BY <4>6, <4>7
    <3> QED BY <3>1, <3>2
  <2> QED BY <2>2, <2>3, <2>4
<1>8. CASE Spawn
  BY <1>8 DEF Spawn, Running, Kept, Drained, Phase
<1>9. CASE ExitChild
  BY <1>9 DEF ExitChild, Running, Kept, Drained, Phase
<1>10. CASE ExitGrand
  BY <1>10 DEF ExitGrand, Running, Kept, Drained, Phase
<1>11. CASE Kill
  BY <1>11 DEF Kill, Kept, Drained, Phase
<1>12. CASE KillGrand
  BY <1>12 DEF KillGrand, Kept, Drained, Phase
<1>13. CASE Stop
  BY <1>13 DEF Stop, Running, Kept, Drained, Phase
<1>14. CASE Continue
  BY <1>14 DEF Continue, Kept, Drained, Phase
<1>15. CASE UNCHANGED vars
  BY <1>15 DEF vars, Kept, Drained, Phase
<1> QED BY <1>1, <1>2, <1>3, <1>4, <1>5, <1>6, <1>7, <1>8, <1>9, <1>10, <1>11,
           <1>12, <1>13, <1>14, <1>15 DEF Next, Parent, Programs

(* When run, runCaptureLog or runNoCapture returns, everything that was    *)
(* ever written to its pipes has been captured, nobody can write any more, *)
(* and the result says whether the child exited with 0: for every order of *)
(* draining, capacity, and whatever the child and its own processes do.    *)
THEOREM CapturesEverything == Spec => []ReturnsEverything
<1>1. Spec => []Inv
  <2>1. Init => Inv
    BY InitInv
  <2>2. TypeOK /\ Inv /\ [Next]_vars => Inv'
    BY NextInv
  <2> QED BY <2>1, <2>2, ChildTypeCorrect, PTL DEF Spec
<1> QED BY <1>1, Complete, ChildTypeCorrect, PTL

-----------------------------------------------------------------------------
(* Nobody waits for somebody who waits for him.                            *)

(* A write takes one element from what is meant for its pipe.              *)
Elements(s, S) == {k \in 1..Len(s) : s[k] \in S}

LEMMA ElementsFinite ==
  ASSUME NEW s \in Seq(Streams), NEW S
  PROVE  /\ IsFiniteSet(Elements(s, S)) /\ Cardinality(Elements(s, S)) \in Nat
         /\ s # <<>> /\ Head(s) \in S => Cardinality(Elements(s, S)) > 0
<1>1. IsFiniteSet(1..Len(s))
  BY FS_Interval
<1>2. IsFiniteSet(Elements(s, S))
  BY <1>1, FS_Subset DEF Elements
<1>3. ASSUME s # <<>>, Head(s) \in S PROVE Elements(s, S) # {}
  <2>1. 1 \in 1..Len(s) /\ Head(s) = s[1]
    BY <1>3
  <2> QED BY <1>3, <2>1 DEF Elements
<1>4. Cardinality(Elements(s, S)) \in Nat
  BY <1>2, FS_CardinalityType
<1>5. Cardinality(Elements(s, S)) = 0 => Elements(s, S) = {}
  BY <1>2, FS_EmptySet
<1> QED BY <1>2, <1>3, <1>4, <1>5

LEMMA TailElements ==
  ASSUME NEW s \in Seq(Streams), s # <<>>, NEW S
  PROVE  Cardinality(Elements(Tail(s), S)) =
           Cardinality(Elements(s, S)) - (IF Head(s) \in S THEN 1 ELSE 0)
<1> DEFINE A == Elements(s, S) \ {1}  B == Elements(Tail(s), S)
           g == [k \in B |-> k + 1]
<1>1. /\ Len(s) \in Nat /\ Len(s) > 0 /\ Head(s) = s[1] /\ Tail(s) \in Seq(Streams)
      /\ Len(Tail(s)) = Len(s) - 1 /\ \A k \in 1..(Len(s) - 1) : Tail(s)[k] = s[k + 1]
  OBVIOUS
<1>2. IsFiniteSet(Elements(s, S)) /\ IsFiniteSet(B)
  BY <1>1, ElementsFinite
<1>3. \A k \in B : k + 1 \in A
  BY <1>1 DEF Elements
<1>4. \A j \in A : j - 1 \in B /\ (j - 1) + 1 = j
  BY <1>1 DEF Elements
<1>5. B \subseteq Nat
  BY <1>1 DEF Elements
<1> HIDE DEF A, B
<1>6. g \in Bijection(B, A)
  <2>1. g \in [B -> A]
    BY <1>3
  <2>2. \A i, j \in B : g[i] = g[j] => i = j
    BY <1>5
  <2>3. \A j \in A : \E i \in B : g[i] = j
    BY <1>4
  <2> HIDE DEF g
  <2> QED BY <2>1, <2>2, <2>3, Zenon DEF Bijection, Injection, Surjection, IsInjective
<1>7. Cardinality(A) = Cardinality(B)
  <2>1. ExistsBijection(B, A)
    BY <1>6 DEF ExistsBijection
  <2> QED BY <1>2, <2>1, FS_Bijection
<1>8. 1 \in Elements(s, S) <=> Head(s) \in S
  BY <1>1 DEF Elements
<1>9. Cardinality(A) = IF 1 \in Elements(s, S) THEN Cardinality(Elements(s, S)) - 1
                       ELSE Cardinality(Elements(s, S))
  BY <1>2, FS_RemoveElement DEF A
<1>10. Cardinality(Elements(s, S)) \in Nat
  BY ElementsFinite
<1> QED BY <1>7, <1>8, <1>9, <1>10 DEF B

StreamsTo(x) == {t \in Streams : PipeOf[t] = x}
LEMMA MeantIs ==
  ASSUME TypeOK, NEW w \in Writers, NEW x
  PROVE  MeantFor(w, x) = Elements(script[w], StreamsTo(x))
<1>1. script[w] \in Seq(Streams)
  BY DEF TypeOK
<1>2. \A k \in 1..Len(script[w]) : script[w][k] \in Streams
  BY <1>1
<1> QED BY <1>2 DEF MeantFor, Elements, StreamsTo

(* The parent has closed its write ends before it waits, and a child that  *)
(* is alive holds its own.                                                 *)
Company ==
  /\ pc \in {"drain", "wait"} => "parent" \notin open
  /\ child[1] \in {"running", "stopped"} => "child" \in open
  /\ open \subseteq {"parent", "child", "grand"}

(* While the first pipe is read the others have room for what is coming.   *)
Room ==
  next = 1 =>
    \A i \in 2..Len(Drain) : Len(pipe[Drain[i]]) + Volume(Drain[i]) <= Capacity

LEMMA CompanyInv == TypeOK /\ Phase /\ Company /\ [Next]_vars => Company'
<1> SUFFICES ASSUME TypeOK, Phase, Company, [Next]_vars PROVE Company'
  OBVIOUS
<1> USE DEF Company
<1>1. CASE Fork \/ CannotFork \/ CloseWriteEnds
  BY <1>1 DEF Fork, CannotFork, CloseWriteEnds, Phase
<1>2. CASE Read \/ Eof \/ Wait
  BY <1>2 DEF Read, Eof, Wait
<1>3. ASSUME NEW w \in Writers, Write(w) PROVE Company'
  BY <1>3 DEF Write
<1>4. CASE Spawn
  BY <1>4 DEF Spawn
<1>5. CASE ExitChild \/ Kill
  <2>1. open' = open \ {"child"} /\ child' = <<"exited", child[2]>> /\ pc' = pc
    BY <1>5 DEF ExitChild, Kill
  <2>2. child'[1] = "exited"
    BY <2>1
  <2> QED BY <2>1, <2>2
<1>6. CASE ExitGrand \/ KillGrand
  BY <1>6 DEF ExitGrand, KillGrand
<1>7. CASE Stop \/ Continue
  BY <1>7 DEF Stop, Continue, Running, Phase
<1>8. CASE UNCHANGED vars
  BY <1>8 DEF vars
<1> QED BY <1>1, <1>2, <1>3, <1>4, <1>5, <1>6, <1>7, <1>8 DEF Next, Parent, Programs

LEMMA NobodyWaits ==
  TypeOK /\ Inv /\ Company /\ Room => (pc # "done" => SomebodyGoesOn)
<1> SUFFICES ASSUME TypeOK, Inv, Company, Room, pc # "done", ~SomebodyGoesOn PROVE FALSE
  OBVIOUS
<1> mode \in Modes
  BY DEF TypeOK
<1>1. /\ ~ParentGoesOn /\ child[1] # "stopped" /\ \A w \in Writers : ~WriterGoesOn(w)
      /\ pc \in {"drain", "wait"}
  BY DEF SomebodyGoesOn, ParentGoesOn, TypeOK
<1>2. Len(Drain) \in Nat /\ next \in Nat \ {0} /\ Capacity \in Nat \ {0} /\ Drain \in Seq(Pipes)
  BY Assumed, LenProperties, ChildAssumption DEF TypeOK
<1>3. child[1] # "none" /\ Started
  BY <1>1 DEF Inv, Phase, Started
<1>4. PICK w \in Writers : Running(w)
  <2>1. CASE pc = "drain"
    <3>1. open # {} /\ "parent" \notin open
      BY <1>1, <2>1 DEF ParentGoesOn, Company
    <3>2. PICK w \in Writers : w \in open
      BY <3>1 DEF Company
    <3>3. w = "child" => child[1] = "running"
      BY <1>1, <3>2 DEF Inv, Phase
    <3> QED BY <3>2, <3>3 DEF Running
  <2>2. CASE pc = "wait"
    <3>1. child[1] = "running"
      <4>1. child[1] # "exited"
        BY <1>1, <2>2 DEF ParentGoesOn
      <4>2. child[1] \in {"none", "running", "stopped", "exited"}
        BY DEF TypeOK
      <4> QED BY <1>1, <1>3, <4>1, <4>2
    <3> QED BY <3>1 DEF Running, Company
  <2> QED BY <1>1, <2>1, <2>2
<1> DEFINE s == script[w]  y == PipeOf[Head(s)]
<1>5. s \in Seq(Streams) /\ s # <<>> /\ y # Inherited /\ ~(Len(pipe[y]) < Capacity)
  BY <1>1, <1>4 DEF WriterGoesOn, TypeOK
<1>6. Head(s) \in Streams
  BY <1>5, HeadTailProperties
<1> HIDE DEF s
<1>7. y \in Pipes
  BY <1>5, <1>6, Assumed
<1>8. pipe[y] \in Seq(Unit) /\ Len(pipe[y]) \in Nat
  BY <1>7, LenProperties DEF TypeOK
<1>9. PICK i \in 1..Len(Drain) : Drain[i] = y
  BY <1>7, Assumed
<1>10. w \in open
  BY <1>4 DEF Running
<1>11. next = 1
  BY <1>2, <1>3, <1>10 DEF Inv, Phase
<1>12. pc = "drain" /\ pipe[Drain[1]] = <<>>
  <2>1. pc = "drain"
    BY <1>1, <1>2, <1>3, <1>9, <1>11 DEF Inv, Phase
  <2> QED BY <1>1, <1>11, <2>1 DEF ParentGoesOn
<1>13. i # 1
  <2>1. Len(<<>>) < Capacity
    BY <1>2
  <2> QED BY <1>5, <1>9, <1>12, <2>1
<1>14. Len(pipe[y]) + Volume(y) <= Capacity
  <2>1. i \in 2..Len(Drain)
    BY <1>2, <1>9, <1>13
  <2> QED BY <1>9, <1>11, <2>1 DEF Room
<1>15. Volume(y) \in Nat /\ Volume(y) > 0
  <2>1. \A v \in Writers : script[v] \in Seq(Streams)
    BY DEF TypeOK
  <2>2. \A v \in Writers : Cardinality(MeantFor(v, y)) \in Nat
    BY <2>1, ElementsFinite, MeantIs
  <2>3. Cardinality(MeantFor(w, y)) > 0
    <3>1. Head(s) \in StreamsTo(y)
      BY <1>6 DEF StreamsTo
    <3>2. Cardinality(Elements(s, StreamsTo(y))) > 0
      BY <1>5, <3>1, ElementsFinite
    <3> QED BY <3>2, MeantIs DEF s
  <2> QED BY <2>2, <2>3 DEF Volume
<1> QED BY <1>2, <1>5, <1>8, <1>14, <1>15

(* Only a write fills a pipe, and what it adds was meant for it.           *)
VolumeAsCounted ==
  \A x : Volume(x) = Cardinality(Elements(script["child"], StreamsTo(x)))
                     + Cardinality(Elements(script["grand"], StreamsTo(x)))
LEMMA VolumeIs == TypeOK => VolumeAsCounted
BY MeantIs DEF Volume, VolumeAsCounted
LEMMA VolumeStays == TypeOK' => VolumeAsCounted'
BY VolumeIs, PTL

LEMMA RoomInv == TypeOK /\ TypeOK' /\ Inv /\ Room /\ [Next]_vars => Room'
<1> SUFFICES ASSUME TypeOK, TypeOK', Inv, Room, [Next]_vars, next' = 1,
                    NEW i \in 2..Len(Drain')
             PROVE  Len(pipe'[Drain'[i]]) + Volume(Drain[i])' <= Capacity
  BY DEF Room
<1> mode \in Modes
  BY DEF TypeOK
<1> DEFINE x == Drain[i]  S == StreamsTo(x)
           c(w) == Cardinality(Elements(script[w], S))
<1>1. mode' = mode /\ next = 1
  <2>1. CASE Eof
    BY <2>1 DEF Eof, TypeOK
  <2>2. CASE ~Eof
    BY <2>2 DEF Next, Parent, Programs, Fork, CannotFork, CloseWriteEnds, Read, Wait,
         Write, Spawn, ExitChild, ExitGrand, Kill, KillGrand, Stop, Continue, vars
  <2> QED BY <2>1, <2>2
<1>2. Drain' = Drain /\ i \in 1..Len(Drain) /\ i \in 2..Len(Drain) /\ StreamsTo(x)' = StreamsTo(x)
  <2>1. Len(Drain) \in Nat
    BY Assumed, LenProperties
  <2> QED BY <1>1, <2>1 DEF StreamsTo
<1>3. x \in Pipes /\ Capacity \in Nat /\ Len(pipe[x]) \in Nat
      /\ pipe \in [Pipes -> Seq(Unit)] /\ pipe[x] \in Seq(Unit)
  <2>1. x \in Pipes
    BY <1>2, Assumed, ElementOfSeq
  <2> QED BY <2>1, ChildAssumption, LenProperties DEF TypeOK
<1>4. \A w \in Writers : script[w] \in Seq(Streams) /\ c(w) \in Nat
  BY ElementsFinite DEF TypeOK
<1>5. Len(pipe[x]) + (c("child") + c("grand")) <= Capacity
  BY <1>1, <1>2, VolumeIs DEF Room, VolumeAsCounted
<1>6. Volume(Drain[i])' = Cardinality(Elements(script'["child"], S))
                          + Cardinality(Elements(script'["grand"], S))
  <2>1. VolumeAsCounted'
    BY VolumeStays
  <2> QED BY <1>2, <2>1 DEF VolumeAsCounted
<1> SUFFICES Len(pipe'[x]) + (Cardinality(Elements(script'["child"], S))
                              + Cardinality(Elements(script'["grand"], S))) <= Capacity
  BY <1>1, <1>2, <1>6
<1> HIDE DEF x, S
<1>7. CASE Read
  <2>1. /\ script' = script /\ Drain[next] \in Pipes /\ pipe[Drain[next]] # <<>>
        /\ pipe' = [pipe EXCEPT ![Drain[next]] = Tail(@)]
    <3>1. next \in 1..Len(Drain)
      BY <1>1, <1>2
    <3> QED BY <1>7, <3>1, Assumed, ElementOfSeq DEF Read
  <2>2. CASE Drain[next] = x
    <3>1. Len(pipe'[x]) \in Nat /\ Len(pipe'[x]) <= Len(pipe[x])
      <4>1. pipe'[x] = Tail(pipe[x]) /\ pipe[x] # <<>>
        BY <1>3, <2>1, <2>2
      <4> QED BY <1>3, <4>1, HeadTailProperties
    <3> QED BY <1>3, <1>4, <1>5, <2>1, <3>1
  <2>3. CASE Drain[next] # x
    BY <1>3, <1>5, <2>1, <2>3
  <2> QED BY <2>2, <2>3
<1>8. ASSUME NEW w \in Writers, Write(w)
      PROVE  Len(pipe'[x]) + (Cardinality(Elements(script'["child"], S))
                              + Cardinality(Elements(script'["grand"], S))) <= Capacity
  <2> DEFINE s == script[w]  y == PipeOf[Head(s)]  u == <<w, Head(s), Len(s)>>
             d == IF Head(s) \in S THEN 1 ELSE 0
  <2>1. s \in Seq(Streams) /\ s # <<>> /\ script' = [script EXCEPT ![w] = Tail(s)]
        /\ Head(s) \in Streams
    BY <1>4, <1>8, HeadTailProperties DEF Write
  <2>2. script \in [Writers -> Seq(Streams)]
    BY DEF TypeOK
  <2>3. Cardinality(Elements(Tail(s), S)) = Cardinality(Elements(s, S)) - d
    BY <2>1, TailElements
  <2> HIDE DEF d
  <2>4. \A v \in Writers :
          Cardinality(Elements(script'[v], S)) = IF v = w THEN c(v) - d ELSE c(v)
    BY <2>1, <2>2, <2>3
  <2>5. Cardinality(Elements(script'["child"], S)) + Cardinality(Elements(script'["grand"], S))
          = (c("child") + c("grand")) - d
    <3>1. d \in {0, 1}
      BY DEF d
    <3> HIDE DEF c
    <3> QED BY <1>4, <2>4, <3>1
  <2>6. Len(pipe'[x]) \in Nat /\ Len(pipe'[x]) <= Len(pipe[x]) + d
    <3>0. d \in {0, 1}
      BY DEF d
    <3>1. CASE pipe' = pipe
      BY <1>3, <3>0, <3>1
    <3>2. CASE pipe' = [pipe EXCEPT ![y] = Append(@, u)] /\ y # x
      <4>1. pipe'[x] = pipe[x]
        BY <1>3, <3>2
      <4> QED BY <1>3, <3>0, <4>1
    <3>3. CASE pipe' = [pipe EXCEPT ![y] = Append(@, u)] /\ y = x
      <4>1. d = 1
        BY <2>1, <3>3 DEF d, S, StreamsTo
      <4>2. pipe'[x] = Append(pipe[x], u)
        BY <1>3, <3>3
      <4>3. Len(Append(pipe[x], u)) = Len(pipe[x]) + 1
        BY <1>3
      <4> QED BY <1>3, <4>1, <4>2, <4>3
    <3> QED BY <1>8, <3>1, <3>2, <3>3 DEF Write
  <2>7. d \in {0, 1} /\ c("child") \in Nat /\ c("grand") \in Nat
    BY <1>4 DEF d
  <2> HIDE DEF c
  <2> QED BY <1>3, <1>5, <2>5, <2>6, <2>7
<1>9. CASE UNCHANGED <<pipe, script>>
  BY <1>5, <1>9
<1> QED BY <1>7, <1>8, <1>9 DEF Next, Parent, Programs, Fork, CannotFork, CloseWriteEnds,
           Eof, Wait, Spawn, ExitChild, ExitGrand, Kill, KillGrand, Stop, Continue, vars

(* For run, when what goes to stderr fits into its pipe, and always for    *)
(* runCaptureLog and runNoCapture: until the function returns, the parent, *)
(* the child or a process of the child goes on, whatever pipes and drain   *)
(* order there are and whoever is killed or stopped.                       *)
THEOREM NobodyIsStuck == Spec => NeverStuck
<1>1. Init => Inv /\ Company
  BY InitInv DEF Init, Company
<1>2. Init /\ TypeOK /\ Fits => Room
  <2> SUFFICES ASSUME Init, TypeOK, Fits, NEW i \in 2..Len(Drain)
               PROVE  Len(pipe[Drain[i]]) + Volume(Drain[i]) <= Capacity
    BY DEF Room
  <2> mode \in Modes
    BY DEF TypeOK
  <2>1. Drain[i] \in Pipes
    <3>1. Len(Drain) \in Nat
      BY Assumed, LenProperties
    <3>2. i \in 1..Len(Drain)
      BY <3>1
    <3> QED BY <3>2, Assumed, ElementOfSeq
  <2>2. Len(pipe[Drain[i]]) = 0
    BY <2>1 DEF Init
  <2>3. Volume(Drain[i]) \in Nat
    <3>1. \A w \in Writers : script[w] \in Seq(Streams)
      BY DEF TypeOK
    <3> QED BY <3>1, VolumeIs, ElementsFinite DEF VolumeAsCounted
  <2> QED BY <2>2, <2>3 DEF Fits
<1>3. TypeOK /\ TypeOK' /\ Inv /\ Company /\ Room /\ [Next]_vars => (Inv /\ Company /\ Room)'
  BY NextInv, CompanyInv, RoomInv DEF Inv
<1>4. TypeOK /\ Inv /\ Company /\ Room => (pc # "done" => SomebodyGoesOn)
  BY NobodyWaits
<1> QED BY <1>1, <1>2, <1>3, <1>4, ChildTypeCorrect, PTL DEF Spec, NeverStuck
==============================================================================
