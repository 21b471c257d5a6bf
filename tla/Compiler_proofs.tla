---------------------------- MODULE Compiler_proofs ----------------------------
(***************************************************************************)
(* The compiler, for any contracts and any builds. First its dependency    *)
(* graph: the search finds a cycle if there is one because it finishes a   *)
(* contract only after all it requires, so that as long as no cycle was    *)
(* found, the finished ones can be numbered, each after what it requires.  *)
(* Then its verdict: what the four passes make of the source is worked out *)
(* pass by pass, and the last check is compared with the rules of a sound  *)
(* build on that.                                                          *)
(***************************************************************************)
EXTENDS Compiler, FiniteSetTheorems, Induction, TLAPS

(***************************************************************************)
(* The search. Frames that were entered are the path; at most one more,    *)
(* which was not, is on top of them and required by the last of the path.  *)
(***************************************************************************)
PathIsSound ==
  /\ path \in Seq(Contract)
  /\ visited \subseteq Contract /\ Elements(path) \subseteq visited
  /\ \A i, j \in 1..Len(path) : path[i] = path[j] => i = j
  /\ \A i \in 1..Len(path) - 1 : path[i + 1] \in Deps(path[i])

StackIsSound ==
  /\ stack \in Seq(Frame)
  /\ Len(stack) \in {Len(path), Len(path) + 1}
  /\ \A i \in 1..Len(path) : stack[i].fqn = path[i] /\ stack[i].left \subseteq Deps(path[i])
  /\ Len(stack) = Len(path) + 1 =>
       Top.left = Unentered /\ (path # <<>> => Top.fqn \in Deps(path[Len(path)]))

Finished == visited \ Elements(path)

\* What a contract on the path requires is finished, left to follow, or next on the path.
PathIsFollowed ==
  \A i \in 1..Len(path) : \A d \in Deps(path[i]) \ stack[i].left :
    d \in Finished \/ (i < Len(stack) /\ d = stack[i + 1].fqn)

Numbered(rank, high) ==
  /\ rank \in [Contract -> Nat] /\ high \in Nat
  /\ \A n \in Finished :
       /\ rank[n] < high
       /\ \A d \in Deps(n) : d \in Finished /\ rank[d] < rank[n]

FinishedInOrder == \E rank, high : Numbered(rank, high)

IsCycle(c) ==
  /\ c \in Seq(Contract) /\ 1 < Len(c) /\ Len(c) <= Cardinality(Contract) + 1
  /\ c[1] = c[Len(c)]
  /\ \A i \in 1..Len(c) - 1 : c[i + 1] \in Deps(c[i])

SearchInv ==
  /\ PathIsSound /\ StackIsSound
  /\ cycles = {} => PathIsFollowed /\ FinishedInOrder
  /\ \A c \in cycles : IsCycle(c)

LEMMA DepsAreContracts == \A n : Deps(n) \subseteq Contract
BY DEF Deps

LEMMA PathIsShort ==
  ASSUME PathIsSound
  PROVE  Len(path) \in Nat /\ Len(path) <= Cardinality(Contract)
<1>1. path \in [1..Len(path) -> Contract] /\ Len(path) \in Nat
  BY DEF PathIsSound
<1>2. path \in Injection(1..Len(path), Contract)
  BY <1>1 DEF PathIsSound, Injection, IsInjective
<1>3. Cardinality(1..Len(path)) <= Cardinality(Contract)
  BY <1>2, FS_Injection, GraphAssumption
<1>4. Cardinality(1..Len(path)) = IF 1 > Len(path) THEN 0 ELSE Len(path) - 1 + 1
  <2>1. 1 \in Int /\ Len(path) \in Int
    BY <1>1
  <2>2. QED
    BY <2>1, FS_Interval
<1>5. QED
  BY <1>1, <1>3, <1>4

\* A step of the search leaves the requirements alone.
LEMMA RequirementsStay ==
  ASSUME UNCHANGED requires
  PROVE  (\A n : Deps(n)' = Deps(n)) /\ (\A c : IsCycle(c)' = IsCycle(c))
<1>1. \A n : Deps(n)' = Deps(n)
  BY DEF Deps, Edges
<1>2. QED
  BY <1>1 DEF IsCycle

LEMMA SearchStarts == GraphStart => SearchInv
<1> SUFFICES ASSUME GraphStart PROVE SearchInv
  OBVIOUS
<1>1. path = <<>> /\ stack = <<>> /\ visited = {} /\ cycles = {} /\ Len(path) = 0 /\ Len(stack) = 0
  BY DEF GraphStart
<1>2. PathIsSound /\ StackIsSound /\ PathIsFollowed
  BY <1>1 DEF PathIsSound, StackIsSound, PathIsFollowed, Elements
<1>3. FinishedInOrder
  <2> DEFINE rank == [n \in Contract |-> 0]
  <2>1. Numbered(rank, 0)
    BY <1>1 DEF Numbered, Finished
  <2>2. QED
    BY <2>1 DEF FinishedInOrder
<1>4. QED
  BY <1>1, <1>2, <1>3 DEF SearchInv

LEMMA RootKeeps ==
  ASSUME SearchInv, Root
  PROVE  SearchInv'
<1>1. PICK n \in Contract : stack' = <<[fqn |-> n, left |-> Unentered]>>
  BY DEF Root
<1>2. UNCHANGED <<requires, path, visited, cycles>> /\ stack = <<>>
  BY DEF Root
<1>3. Len(stack) = 0 /\ Len(path) \in Nat
  BY <1>2 DEF SearchInv, PathIsSound
<1>4. Len(path) = 0 /\ path = <<>>
  BY <1>3 DEF SearchInv, StackIsSound, PathIsSound
<1>5. Len(stack') = 1 /\ stack' \in Seq(Frame) /\ stack'[1].left = Unentered
  <2>1. [fqn |-> n, left |-> Unentered] \in Frame
    BY DEF Frame
  <2>2. QED
    BY <1>1, <2>1
<1>6. PathIsSound'
  BY <1>2, RequirementsStay DEF SearchInv, PathIsSound, Elements
<1>7. StackIsSound'
  BY <1>2, <1>4, <1>5 DEF StackIsSound, Top
<1>8. (cycles = {} => PathIsFollowed /\ FinishedInOrder)'
  <2>1. PathIsFollowed'
    BY <1>2, <1>4 DEF PathIsFollowed
  <2>2. Finished' = Finished
    BY <1>2 DEF Finished, Elements
  <2>3. ASSUME FinishedInOrder PROVE FinishedInOrder'
    <3>1. \A rank, high : Numbered(rank, high)' <=> Numbered(rank, high)
      BY <1>2, <2>2, RequirementsStay DEF Numbered
    <3>2. QED
      BY <2>2, <2>3, <3>1 DEF FinishedInOrder
  <2>4. QED
    BY <1>2, <2>1, <2>3 DEF SearchInv
<1>9. QED
  BY <1>2, <1>6, <1>7, <1>8, RequirementsStay DEF SearchInv

LEMMA TopIsNew ==
  ASSUME SearchInv, stack # <<>>, Top.left = Unentered
  PROVE  /\ Len(path) \in Nat /\ Len(stack) = Len(path) + 1 /\ Top \in Frame /\ Top = stack[Len(path) + 1]
         /\ Below \in Seq(Frame) /\ Len(Below) = Len(path)
         /\ \A i \in 1..Len(path) : Below[i] = stack[i]
         /\ path # <<>> => Top.fqn \in Deps(path[Len(path)])
<1>1. /\ stack \in Seq(Frame) /\ Len(stack) \in Nat /\ Len(stack) >= 1
      /\ Len(path) \in Nat /\ Len(stack) \in {Len(path), Len(path) + 1}
  BY DEF SearchInv, StackIsSound, PathIsSound
<1>2. Len(stack) # Len(path)
  <2>1. SUFFICES ASSUME Len(stack) = Len(path) PROVE FALSE
    OBVIOUS
  <2>2. Top.left \subseteq Deps(path[Len(path)])
    BY <1>1, <2>1 DEF SearchInv, StackIsSound, Top
  <2>3. Top.left \in SUBSET Contract
    BY <2>2, DepsAreContracts
  <2>4. QED
    BY <2>3, FrameAssumption
<1>3. Len(stack) = Len(path) + 1
  BY <1>1, <1>2
<1>4. Below \in Seq(Frame) /\ Len(Below) = Len(path) /\ \A i \in 1..Len(path) : Below[i] = stack[i]
  BY <1>1, <1>3 DEF Below
<1>5. Top \in Frame /\ Top = stack[Len(path) + 1]
  BY <1>1, <1>3 DEF Top
<1>6. QED
  BY <1>1, <1>3, <1>4, <1>5 DEF SearchInv, StackIsSound

LEMMA TopIsEntered ==
  ASSUME SearchInv, stack # <<>>, Top.left # Unentered
  PROVE  /\ Len(path) \in Nat /\ Len(path) >= 1 /\ Len(stack) = Len(path)
         /\ Top \in Frame /\ Top = stack[Len(path)]
         /\ Top.fqn = path[Len(path)] /\ Top.left \subseteq Deps(Top.fqn)
         /\ Below \in Seq(Frame) /\ Len(Below) = Len(path) - 1
         /\ \A i \in 1..Len(path) - 1 : Below[i] = stack[i]
<1>1. /\ stack \in Seq(Frame) /\ Len(stack) \in Nat /\ Len(stack) >= 1
      /\ Len(path) \in Nat /\ Len(stack) = Len(path)
  BY DEF SearchInv, StackIsSound, PathIsSound
<1>2. Below \in Seq(Frame) /\ Len(Below) = Len(path) - 1 /\ \A i \in 1..Len(path) - 1 : Below[i] = stack[i]
  BY <1>1 DEF Below
<1>3. Top \in Frame /\ Top = stack[Len(path)]
  BY <1>1 DEF Top
<1>4. QED
  BY <1>1, <1>2, <1>3 DEF SearchInv, StackIsSound

(***************************************************************************)
(* A contract that is done with, or that closes a cycle, is taken off.     *)
(***************************************************************************)
LEMMA SkipVisitedKeeps ==
  ASSUME SearchInv, SkipVisited
  PROVE  SearchInv'
<1>1. /\ stack # <<>> /\ Top.left = Unentered /\ Top.fqn \in Finished
      /\ stack' = Below /\ UNCHANGED <<requires, path, visited, cycles>>
  BY DEF SkipVisited, Finished
<1>2. /\ Len(path) \in Nat /\ Len(stack) = Len(path) + 1 /\ Top = stack[Len(path) + 1]
      /\ stack' \in Seq(Frame) /\ Len(stack') = Len(path)
      /\ \A i \in 1..Len(path) : stack'[i] = stack[i]
  BY <1>1, TopIsNew
<1>3. \A n : Deps(n)' = Deps(n)
  BY <1>1, RequirementsStay
<1>4. PathIsSound'
  BY <1>1, <1>3 DEF SearchInv, PathIsSound, Elements
<1>5. StackIsSound'
  BY <1>1, <1>2, <1>3 DEF SearchInv, StackIsSound
<1>6. Finished' = Finished
  BY <1>1 DEF Finished, Elements
<1>7. (cycles = {} => PathIsFollowed /\ FinishedInOrder)'
  <2> SUFFICES ASSUME cycles = {} PROVE PathIsFollowed' /\ FinishedInOrder'
    BY <1>1
  <2>1. ASSUME NEW i \in 1..Len(path), NEW d \in Deps(path[i]) \ stack[i].left
        PROVE  d \in Finished \/ (i < Len(stack') /\ d = stack'[i + 1].fqn)
    <3>1. d \in Finished \/ (i < Len(stack) /\ d = stack[i + 1].fqn)
      BY DEF SearchInv, PathIsFollowed
    <3>2. CASE i = Len(path)
      BY <1>1, <1>2, <3>1, <3>2
    <3>3. CASE i < Len(path)
      <4>1. i + 1 \in 1..Len(path)
        BY <1>2, <3>3
      <4>2. QED
        BY <1>2, <3>1, <3>3, <4>1
    <3>4. QED
      BY <1>2, <3>2, <3>3
  <2>2. PathIsFollowed'
    BY <1>1, <1>2, <1>3, <1>6, <2>1 DEF PathIsFollowed
  <2>3. FinishedInOrder'
    BY <1>3, <1>6 DEF SearchInv, FinishedInOrder, Numbered
  <2>4. QED
    BY <2>2, <2>3
<1>8. QED
  BY <1>1, <1>4, <1>5, <1>7, RequirementsStay DEF SearchInv

LEMMA CloseCycleKeeps ==
  ASSUME SearchInv, CloseCycle
  PROVE  SearchInv'
<1> DEFINE i == CHOOSE i \in DOMAIN path : path[i] = Top.fqn
           c == Append(SubSeq(path, i, Len(path)), Top.fqn)
<1>1. /\ stack # <<>> /\ Top.left = Unentered /\ Top.fqn \in Elements(path)
      /\ cycles' = cycles \cup {c}
      /\ stack' = Below /\ UNCHANGED <<requires, path, visited>>
  BY DEF CloseCycle
<1>2. /\ Len(path) \in Nat /\ Len(stack) = Len(path) + 1 /\ Top \in Frame
      /\ stack' \in Seq(Frame) /\ Len(stack') = Len(path)
      /\ \A j \in 1..Len(path) : stack'[j] = stack[j]
      /\ path # <<>> => Top.fqn \in Deps(path[Len(path)])
  BY <1>1, TopIsNew
<1>3. path \in Seq(Contract) /\ DOMAIN path = 1..Len(path)
  BY DEF SearchInv, PathIsSound
<1>4. i \in 1..Len(path) /\ path[i] = Top.fqn
  <2>1. \E j \in DOMAIN path : path[j] = Top.fqn
    BY <1>1 DEF Elements
  <2>2. QED
    BY <1>3, <2>1
<1> HIDE DEF i
<1>5. IsCycle(c)
  <2> DEFINE s == SubSeq(path, i, Len(path))
  <2>1. /\ s \in Seq(Contract) /\ Len(s) = Len(path) - i + 1
        /\ \A j \in 1..Len(s) : s[j] = path[i + j - 1]
    BY <1>2, <1>3, <1>4
  <2>2. Top.fqn \in Contract
    BY <1>2 DEF Frame
  <2>3. Len(s) \in Nat /\ Len(s) >= 1 /\ Len(s) <= Len(path)
    BY <1>2, <1>4, <2>1
  <2> HIDE DEF s
  <2>4. /\ c \in Seq(Contract) /\ Len(c) = Len(s) + 1 /\ c[Len(c)] = Top.fqn
        /\ \A j \in 1..Len(s) : c[j] = s[j]
    <3>1. c = Append(s, Top.fqn)
      BY DEF s
    <3>2. QED
      BY <2>1, <2>2, <2>3, <3>1
  <2> HIDE DEF c
  <2>5. c[1] = c[Len(c)]
    <3>1. 1 \in 1..Len(s) /\ i + 1 - 1 = i
      BY <1>4, <2>3
    <3>2. c[1] = s[1] /\ s[1] = path[i]
      BY <2>1, <2>4, <3>1
    <3>3. QED
      BY <1>4, <2>4, <3>2
  <2>6. ASSUME NEW j \in 1..Len(c) - 1
        PROVE  c[j + 1] \in Deps(c[j])
    <3>1. j \in 1..Len(s)
      BY <2>3, <2>4
    <3>2. CASE j = Len(s)
      <4>1. c[j] = path[Len(path)] /\ c[j + 1] = Top.fqn
        <5>1. i + j - 1 = Len(path) /\ j + 1 = Len(c)
          BY <1>2, <1>4, <2>1, <2>4, <3>2
        <5>2. QED
          BY <2>1, <2>4, <3>1, <5>1
      <4>2. path # <<>>
        BY <1>4
      <4>3. QED
        BY <1>2, <4>1, <4>2
    <3>3. CASE j < Len(s)
      <4>1. j + 1 \in 1..Len(s) /\ i + j - 1 \in 1..Len(path) - 1 /\ i + (j + 1) - 1 = (i + j - 1) + 1
        BY <1>2, <1>4, <2>1, <2>3, <3>1, <3>3
      <4>2. c[j] = path[i + j - 1] /\ c[j + 1] = path[(i + j - 1) + 1]
        <5>1. c[j] = s[j] /\ s[j] = path[i + j - 1]
          BY <2>1, <2>4, <3>1
        <5>2. c[j + 1] = s[j + 1] /\ s[j + 1] = path[i + (j + 1) - 1]
          BY <2>1, <2>4, <4>1
        <5>3. QED
          BY <4>1, <5>1, <5>2
      <4>3. QED
        BY <4>1, <4>2 DEF SearchInv, PathIsSound
    <3>4. QED
      BY <2>3, <3>1, <3>2, <3>3
  <2>7. Len(path) <= Cardinality(Contract)
    BY PathIsShort DEF SearchInv
  <2>8. Cardinality(Contract) \in Nat
    BY GraphAssumption, FS_CardinalityType
  <2>9. 1 < Len(c) /\ Len(c) <= Cardinality(Contract) + 1
    BY <1>2, <2>3, <2>4, <2>7, <2>8
  <2>10. QED
    BY <2>4, <2>5, <2>6, <2>9 DEF IsCycle
<1> HIDE DEF c
<1>6. \A n : Deps(n)' = Deps(n)
  BY <1>1, RequirementsStay
<1>7. PathIsSound'
  BY <1>1, <1>6 DEF SearchInv, PathIsSound, Elements
<1>8. StackIsSound'
  BY <1>1, <1>2, <1>6 DEF SearchInv, StackIsSound
<1>9. \A e \in cycles' : IsCycle(e)'
  BY <1>1, <1>5, RequirementsStay DEF SearchInv
<1>10. cycles' # {}
  BY <1>1
<1>11. QED
  BY <1>7, <1>8, <1>9, <1>10 DEF SearchInv

(***************************************************************************)
(* Entering puts a contract on the path that was not there.                *)
(***************************************************************************)
LEMMA EnterKeeps ==
  ASSUME SearchInv, Enter
  PROVE  SearchInv'
<1> DEFINE m == Len(path)
           frame == [Top EXCEPT !.left = Deps(Top.fqn)]
<1>1. /\ stack # <<>> /\ Top.left = Unentered /\ Top.fqn \notin visited
      /\ visited' = visited \cup {Top.fqn} /\ path' = Append(path, Top.fqn)
      /\ stack' = Append(Below, frame)
      /\ UNCHANGED <<requires, cycles>>
  BY DEF Enter
<1>2. /\ m \in Nat /\ Len(stack) = m + 1 /\ Top \in Frame /\ Top = stack[m + 1]
      /\ Below \in Seq(Frame) /\ Len(Below) = m
      /\ \A i \in 1..m : Below[i] = stack[i]
      /\ path # <<>> => Top.fqn \in Deps(path[m])
  BY <1>1, TopIsNew
<1>3. path \in Seq(Contract) /\ Top.fqn \in Contract
  BY <1>2 DEF SearchInv, PathIsSound, Frame
<1>4. /\ path' \in Seq(Contract) /\ Len(path') = m + 1 /\ path'[m + 1] = Top.fqn
      /\ \A i \in 1..m : path'[i] = path[i]
  BY <1>1, <1>3
<1>5. frame \in Frame /\ frame.fqn = Top.fqn /\ frame.left = Deps(Top.fqn)
  BY <1>2, DepsAreContracts DEF Frame
<1>6. /\ stack' \in Seq(Frame) /\ Len(stack') = m + 1 /\ stack'[m + 1] = frame
      /\ \A i \in 1..m : stack'[i] = stack[i]
  BY <1>1, <1>2, <1>5
<1> HIDE DEF frame
<1>7. Elements(path') = Elements(path) \cup {Top.fqn}
  <2>1. Elements(path) = {path[i] : i \in 1..m} /\ Elements(path') = {path'[i] : i \in 1..m + 1}
    BY <1>3, <1>4 DEF Elements
  <2>2. QED
    BY <1>2, <1>4, <2>1
<1>8. Top.fqn \notin Elements(path) /\ \A i \in 1..m : path[i] # Top.fqn
  <2>1. Top.fqn \notin Elements(path)
    BY <1>1 DEF SearchInv, PathIsSound
  <2>2. QED
    BY <1>3, <2>1 DEF Elements
<1>9. \A n : Deps(n)' = Deps(n)
  BY <1>1, RequirementsStay
<1>10. PathIsSound'
  <2>1. visited' \subseteq Contract /\ Elements(path') \subseteq visited'
    BY <1>1, <1>3, <1>7 DEF SearchInv, PathIsSound
  <2>2. ASSUME NEW i \in 1..m + 1, NEW j \in 1..m + 1, path'[i] = path'[j]
        PROVE  i = j
    <3>1. CASE i \in 1..m /\ j \in 1..m
      BY <1>4, <2>2, <3>1 DEF SearchInv, PathIsSound
    <3>2. CASE i = m + 1 \/ j = m + 1
      BY <1>2, <1>4, <1>8, <2>2, <3>2
    <3>3. QED
      BY <1>2, <3>1, <3>2
  <2>3. ASSUME NEW i \in 1..(m + 1) - 1
        PROVE  path'[i + 1] \in Deps(path'[i])
    <3>1. i \in 1..m /\ path'[i] = path[i]
      BY <1>2, <1>4
    <3>2. CASE i = m
      <4>1. path # <<>>
        BY <1>2, <3>1
      <4>2. QED
        BY <1>2, <1>4, <3>1, <3>2, <4>1
    <3>3. CASE i < m
      <4>1. i \in 1..m - 1 /\ path'[i + 1] = path[i + 1]
        BY <1>2, <1>4, <3>1, <3>3
      <4>2. QED
        BY <3>1, <4>1 DEF SearchInv, PathIsSound
    <3>4. QED
      BY <1>2, <3>1, <3>2, <3>3
  <2>4. QED
    BY <1>4, <1>9, <2>1, <2>2, <2>3 DEF PathIsSound
<1>11. StackIsSound'
  <2>1. ASSUME NEW i \in 1..m + 1
        PROVE  stack'[i].fqn = path'[i] /\ stack'[i].left \subseteq Deps(path'[i])
    <3>1. CASE i = m + 1
      BY <1>4, <1>5, <1>6, <3>1
    <3>2. CASE i \in 1..m
      BY <1>4, <1>6, <3>2 DEF SearchInv, StackIsSound
    <3>3. QED
      BY <1>2, <3>1, <3>2
  <2>2. Len(stack') = Len(path') /\ ~(Len(stack') = Len(path') + 1)
    BY <1>2, <1>4, <1>6
  <2>3. QED
    BY <1>4, <1>6, <1>9, <2>1, <2>2 DEF StackIsSound
<1>12. Finished' = Finished
  BY <1>1, <1>7, <1>8 DEF Finished
<1>13. (cycles = {} => PathIsFollowed /\ FinishedInOrder)'
  <2> SUFFICES ASSUME cycles = {} PROVE PathIsFollowed' /\ FinishedInOrder'
    BY <1>1
  <2>1. ASSUME NEW i \in 1..m + 1, NEW d \in Deps(path'[i]) \ stack'[i].left
        PROVE  d \in Finished \/ (i < Len(stack') /\ d = stack'[i + 1].fqn)
    <3>1. CASE i = m + 1
      BY <1>4, <1>5, <1>6, <3>1
    <3>2. CASE i \in 1..m
      <4>1. d \in Finished \/ (i < Len(stack) /\ d = stack[i + 1].fqn)
        BY <1>4, <1>6, <3>2 DEF SearchInv, PathIsFollowed
      <4>2. i = m => stack'[i + 1].fqn = stack[i + 1].fqn
        BY <1>2, <1>5, <1>6
      <4>3. i < m => stack'[i + 1] = stack[i + 1]
        <5>1. i < m => i + 1 \in 1..m
          BY <1>2, <3>2
        <5>2. QED
          BY <1>6, <5>1
      <4>4. QED
        BY <1>2, <1>6, <3>2, <4>1, <4>2, <4>3
    <3>3. QED
      BY <1>2, <3>1, <3>2
  <2>2. PathIsFollowed'
    BY <1>4, <1>9, <1>12, <2>1 DEF PathIsFollowed
  <2>3. FinishedInOrder'
    BY <1>9, <1>12 DEF SearchInv, FinishedInOrder, Numbered
  <2>4. QED
    BY <2>2, <2>3
<1>14. QED
  BY <1>1, <1>10, <1>11, <1>13, RequirementsStay DEF SearchInv

(***************************************************************************)
(* Following takes a requirement from the frame and puts it on top.        *)
(***************************************************************************)
LEMMA FollowKeeps ==
  ASSUME SearchInv, Follow
  PROVE  SearchInv'
<1> DEFINE m == Len(path)
<1>1. /\ stack # <<>> /\ Top.left # Unentered
      /\ UNCHANGED <<requires, path, visited, cycles>>
  BY DEF Follow
<1>2. PICK d \in Top.left :
        stack' = Append(Append(Below, [Top EXCEPT !.left = @ \ {d}]), [fqn |-> d, left |-> Unentered])
  BY DEF Follow
<1>3. /\ m \in Nat /\ m >= 1 /\ Len(stack) = m
      /\ Top \in Frame /\ Top = stack[m] /\ Top.fqn = path[m] /\ Top.left \subseteq Deps(Top.fqn)
      /\ Below \in Seq(Frame) /\ Len(Below) = m - 1
      /\ \A i \in 1..m - 1 : Below[i] = stack[i]
  BY <1>1, TopIsEntered
<1>4. PICK old, new : old = [Top EXCEPT !.left = @ \ {d}] /\ new = [fqn |-> d, left |-> Unentered]
  OBVIOUS
<1>5. /\ old \in Frame /\ old.fqn = path[m] /\ old.left = Top.left \ {d}
      /\ new \in Frame /\ new.fqn = d /\ new.left = Unentered
      /\ d \in Deps(path[m])
  <2>1. Top.left \in SUBSET Contract /\ d \in Contract
    BY <1>3, DepsAreContracts
  <2>2. QED
    BY <1>3, <1>4, <2>1 DEF Frame
<1>6. /\ stack' \in Seq(Frame) /\ Len(stack') = m + 1 /\ stack'[m] = old /\ stack'[m + 1] = new
      /\ \A i \in 1..m - 1 : stack'[i] = stack[i]
  BY <1>2, <1>3, <1>4, <1>5
<1>7. \A n : Deps(n)' = Deps(n)
  BY <1>1, RequirementsStay
<1>8. PathIsSound'
  BY <1>1, <1>7 DEF SearchInv, PathIsSound, Elements
<1>9. StackIsSound'
  <2>1. ASSUME NEW i \in 1..m
        PROVE  stack'[i].fqn = path[i] /\ stack'[i].left \subseteq Deps(path[i])
    <3>1. CASE i = m
      BY <1>3, <1>5, <1>6, <3>1
    <3>2. CASE i \in 1..m - 1
      BY <1>3, <1>6, <3>2 DEF SearchInv, StackIsSound
    <3>3. QED
      BY <1>3, <3>1, <3>2
  <2>2. Top' = new
    BY <1>3, <1>6 DEF Top
  <2>3. QED
    BY <1>1, <1>3, <1>5, <1>6, <1>7, <2>1, <2>2 DEF StackIsSound
<1>10. Finished' = Finished
  BY <1>1 DEF Finished, Elements
<1>11. (cycles = {} => PathIsFollowed /\ FinishedInOrder)'
  <2> SUFFICES ASSUME cycles = {} PROVE PathIsFollowed' /\ FinishedInOrder'
    BY <1>1
  <2>1. ASSUME NEW i \in 1..m, NEW e \in Deps(path[i]) \ stack'[i].left
        PROVE  e \in Finished \/ (i < Len(stack') /\ e = stack'[i + 1].fqn)
    <3>1. CASE i = m
      <4>1. e \in Deps(path[m]) \ stack[m].left => e \in Finished
        BY <1>3 DEF SearchInv, PathIsFollowed
      <4>2. e = d \/ e \in Deps(path[m]) \ stack[m].left
        BY <1>3, <1>5, <1>6, <3>1
      <4>3. QED
        BY <1>3, <1>5, <1>6, <3>1, <4>1, <4>2
    <3>2. CASE i \in 1..m - 1
      <4>1. e \in Finished \/ (i < Len(stack) /\ e = stack[i + 1].fqn)
        BY <1>6, <3>2 DEF SearchInv, PathIsFollowed
      <4>2. stack'[i + 1].fqn = stack[i + 1].fqn
        <5>1. CASE i + 1 = m
          BY <1>3, <1>5, <1>6, <5>1
        <5>2. CASE i + 1 # m
          <6>1. i + 1 \in 1..m - 1
            BY <1>3, <3>2, <5>2
          <6>2. QED
            BY <1>6, <6>1
        <5>3. QED
          BY <5>1, <5>2
      <4>3. QED
        BY <1>3, <1>6, <3>2, <4>1, <4>2
    <3>3. QED
      BY <1>3, <3>1, <3>2
  <2>2. PathIsFollowed'
    BY <1>1, <1>7, <1>10, <2>1 DEF PathIsFollowed
  <2>3. FinishedInOrder'
    BY <1>7, <1>10 DEF SearchInv, FinishedInOrder, Numbered
  <2>4. QED
    BY <2>2, <2>3
<1>12. QED
  BY <1>1, <1>8, <1>9, <1>11, RequirementsStay DEF SearchInv

(***************************************************************************)
(* A contract is left when all it requires is finished: it gets the next   *)
(* number.                                                                 *)
(***************************************************************************)
LEMMA LeaveKeeps ==
  ASSUME SearchInv, Leave
  PROVE  SearchInv'
<1> DEFINE m == Len(path)
           n == path[m]
<1>1. /\ stack # <<>> /\ Top.left = {}
      /\ path' = SubSeq(path, 1, m - 1) /\ stack' = Below
      /\ UNCHANGED <<requires, visited, cycles>>
  BY DEF Leave
<1>2. Top.left # Unentered
  BY <1>1, FrameAssumption
<1>3. /\ m \in Nat /\ m >= 1 /\ Len(stack) = m /\ Top = stack[m]
      /\ stack' \in Seq(Frame) /\ Len(stack') = m - 1
      /\ \A i \in 1..m - 1 : stack'[i] = stack[i]
  BY <1>1, <1>2, TopIsEntered
<1>4. path \in Seq(Contract) /\ n \in Contract
  BY <1>3 DEF SearchInv, PathIsSound
<1>5. /\ path' \in Seq(Contract) /\ Len(path') = m - 1
      /\ \A i \in 1..m - 1 : path'[i] = path[i]
  BY <1>1, <1>3, <1>4
<1>6. Elements(path') = Elements(path) \ {n} /\ n \in Elements(path)
  <2>1. Elements(path) = {path[i] : i \in 1..m} /\ Elements(path') = {path[i] : i \in 1..m - 1}
    BY <1>4, <1>5 DEF Elements
  <2>2. \A i \in 1..m - 1 : path[i] # n
    BY <1>3 DEF SearchInv, PathIsSound
  <2>3. m \in 1..m /\ 1..m = (1..m - 1) \cup {m}
    BY <1>3
  <2>4. QED
    BY <2>1, <2>2, <2>3
<1>7. n \in visited /\ n \notin Finished
  BY <1>6 DEF Finished, SearchInv, PathIsSound
<1>8. Finished' = Finished \cup {n}
  BY <1>1, <1>6, <1>7 DEF Finished
<1>9. \A k : Deps(k)' = Deps(k)
  BY <1>1, RequirementsStay
<1>10. PathIsSound'
  <2>1. Elements(path') \subseteq visited
    BY <1>6 DEF SearchInv, PathIsSound
  <2>2. \A i, j \in 1..m - 1 : path'[i] = path'[j] => i = j
    BY <1>3, <1>5 DEF SearchInv, PathIsSound
  <2>3. ASSUME NEW i \in 1..(m - 1) - 1
        PROVE  path'[i + 1] \in Deps(path'[i])
    <3>1. i \in 1..m - 1 /\ i + 1 \in 1..m - 1
      BY <1>3
    <3>2. QED
      BY <1>5, <3>1 DEF SearchInv, PathIsSound
  <2>4. QED
    BY <1>1, <1>5, <1>9, <2>1, <2>2, <2>3 DEF SearchInv, PathIsSound
<1>11. StackIsSound'
  <2>1. ASSUME NEW i \in 1..m - 1
        PROVE  stack'[i].fqn = path'[i] /\ stack'[i].left \subseteq Deps(path'[i])
    <3>1. i \in 1..Len(path) /\ stack'[i] = stack[i] /\ path'[i] = path[i]
      BY <1>3, <1>5
    <3>2. stack[i].fqn = path[i] /\ stack[i].left \subseteq Deps(path[i])
      BY <3>1 DEF SearchInv, StackIsSound
    <3>3. QED
      BY <3>1, <3>2
  <2>2. Len(stack') = Len(path') /\ ~(Len(stack') = Len(path') + 1)
    BY <1>3, <1>5
  <2>3. QED
    BY <1>3, <1>5, <1>9, <2>1, <2>2 DEF StackIsSound
<1>12. (cycles = {} => PathIsFollowed /\ FinishedInOrder)'
  <2> SUFFICES ASSUME cycles = {} PROVE PathIsFollowed' /\ FinishedInOrder'
    BY <1>1
  <2>1. Deps(n) \subseteq Finished
    BY <1>1, <1>3 DEF SearchInv, PathIsFollowed
  <2>2. ASSUME NEW i \in 1..m - 1, NEW d \in Deps(path[i]) \ stack[i].left
        PROVE  d \in Finished \cup {n} \/ (i < Len(stack') /\ d = stack'[i + 1].fqn)
    <3>1. d \in Finished \/ d = stack[i + 1].fqn
      BY <1>3 DEF SearchInv, PathIsFollowed
    <3>2. CASE i + 1 = m
      BY <1>3, <3>1, <3>2 DEF SearchInv, StackIsSound
    <3>3. CASE i + 1 # m
      <4>1. i + 1 \in 1..m - 1
        BY <1>3, <3>3
      <4>2. QED
        BY <1>3, <3>1, <4>1
    <3>4. QED
      BY <3>2, <3>3
  <2>3. PathIsFollowed'
    BY <1>3, <1>5, <1>8, <1>9, <2>2 DEF PathIsFollowed
  <2>4. PICK rank, high : Numbered(rank, high)
    BY DEF SearchInv, FinishedInOrder
  <2> DEFINE next == [rank EXCEPT ![n] = high]
  <2>5. PICK longer : longer = next
    OBVIOUS
  <2>6. /\ longer \in [Contract -> Nat] /\ longer[n] = high /\ high \in Nat
        /\ \A k \in Contract : k # n => longer[k] = rank[k]
    BY <1>4, <2>4, <2>5 DEF Numbered
  <2>7. ASSUME NEW k \in Finished \cup {n}
        PROVE  /\ longer[k] < high + 1
               /\ \A d \in Deps(k) : d \in Finished \cup {n} /\ longer[d] < longer[k]
    <3>1. Finished \subseteq Contract /\ rank \in [Contract -> Nat]
      BY <2>4 DEF Finished, SearchInv, PathIsSound, Numbered
    <3>2. \A d \in Finished : longer[d] = rank[d] /\ rank[d] < high
      BY <1>7, <2>4, <2>6, <3>1 DEF Numbered
    <3>3. CASE k = n
      BY <2>1, <2>6, <3>2, <3>3
    <3>4. CASE k \in Finished
      <4>1. \A d \in Deps(k) : d \in Finished /\ rank[d] < rank[k]
        BY <2>4, <3>4 DEF Numbered
      <4>2. QED
        BY <2>6, <3>1, <3>2, <3>4, <4>1
    <3>5. QED
      BY <3>3, <3>4
  <2>8. Numbered(longer, high + 1)'
    BY <1>8, <1>9, <2>6, <2>7 DEF Numbered
  <2>9. QED
    BY <2>3, <2>8 DEF FinishedInOrder
<1>13. QED
  BY <1>1, <1>10, <1>11, <1>12, RequirementsStay DEF SearchInv

-------------------------------------------------------------------------------
(***************************************************************************)
(* The order. What waits in the heap is what is not in the order and       *)
(* requires nothing but what is; the numbers count what is missing.        *)
(***************************************************************************)
OrderIsSound ==
  /\ order \in Seq(Contract)
  /\ Cardinality(Elements(order)) = Len(order)
  /\ DependenciesFirst

HeapIsSound ==
  /\ \A n \in Contract : pending[n] = Cardinality(Deps(n) \ Elements(order))
  /\ ready = {n \in Contract \ Elements(order) : pending[n] = 0}

GraphInv ==
  /\ SearchInv /\ OrderIsSound
  /\ stage \in {"search", "order", "ordered", "refused"}
  /\ stage = "search" => order = <<>>
  /\ stage # "search" => stack = <<>> /\ visited = Contract
  /\ stage \in {"order", "ordered"} => Faultless
  /\ stage = "order" => HeapIsSound
  /\ stage = "ordered" => Len(order) = Cardinality(Contract)
  /\ stage = "refused" => ~Faultless

LEMMA OrderIsOfContracts ==
  ASSUME OrderIsSound
  PROVE  /\ Elements(order) \in SUBSET Contract /\ IsFiniteSet(Elements(order))
         /\ Elements(order) = {order[i] : i \in 1..Len(order)}
         /\ \A n \in Elements(order) : Deps(n) \subseteq Elements(order)
<1>1. Elements(order) = {order[i] : i \in 1..Len(order)} /\ Elements(order) \in SUBSET Contract
  BY DEF OrderIsSound, Elements
<1>2. IsFiniteSet(Elements(order))
  BY <1>1, GraphAssumption, FS_Subset
<1>3. ASSUME NEW n \in Elements(order), NEW d \in Deps(n)
      PROVE  d \in Elements(order)
  <2>1. PICK i \in 1..Len(order) : order[i] = n
    BY <1>1
  <2>2. PICK j \in 1..(i - 1) : order[j] = d
    BY <2>1 DEF OrderIsSound, DependenciesFirst
  <2>3. j \in 1..Len(order)
    BY <2>1, <2>2 DEF OrderIsSound
  <2>4. QED
    BY <1>1, <2>2, <2>3
<1>4. QED
  BY <1>1, <1>2, <1>3

LEMMA GraphStarts == GraphStart => GraphInv
<1> SUFFICES ASSUME GraphStart PROVE GraphInv
  OBVIOUS
<1>1. order = <<>> /\ stage = "search"
  BY DEF GraphStart
<1>2. Elements(order) = {} /\ Len(order) = 0
  BY <1>1 DEF Elements
<1>3. OrderIsSound
  BY <1>1, <1>2, FS_EmptySet DEF OrderIsSound, DependenciesFirst
<1>4. QED
  BY <1>1, <1>3, SearchStarts DEF GraphInv

LEMMA SearchStep ==
  ASSUME GraphInv, Root \/ CloseCycle \/ SkipVisited \/ Enter \/ Follow \/ Leave
  PROVE  GraphInv'
<1>1. stage = "search" /\ UNCHANGED <<requires, stage, order>>
  BY DEF Root, CloseCycle, SkipVisited, Enter, Follow, Leave, kahnVars
<1>2. SearchInv'
  BY RootKeeps, CloseCycleKeeps, SkipVisitedKeeps, EnterKeeps, FollowKeeps, LeaveKeeps DEF GraphInv
<1>3. \A n : Deps(n)' = Deps(n)
  BY <1>1, RequirementsStay
<1>4. OrderIsSound'
  BY <1>1, <1>3 DEF GraphInv, OrderIsSound, Elements, DependenciesFirst
<1>5. QED
  BY <1>1, <1>2, <1>4 DEF GraphInv

LEMMA StillSearched ==
  ASSUME SearchInv, UNCHANGED <<requires, searchVars>>
  PROVE  SearchInv' /\ (\A n : Deps(n)' = Deps(n))
<1>1. UNCHANGED <<stack, path, visited, cycles>>
  BY DEF searchVars
<1>2. (\A n : Deps(n)' = Deps(n)) /\ (\A c : IsCycle(c)' = IsCycle(c))
  BY RequirementsStay
<1>3. Finished' = Finished /\ Top' = Top
  BY <1>1 DEF Finished, Elements, Top
<1>4. PathIsSound' /\ StackIsSound'
  BY <1>1, <1>2, <1>3 DEF SearchInv, PathIsSound, StackIsSound, Elements
<1>5. cycles = {} => PathIsFollowed' /\ FinishedInOrder'
  BY <1>1, <1>2, <1>3 DEF SearchInv, PathIsFollowed, FinishedInOrder, Numbered
<1>6. QED
  BY <1>1, <1>2, <1>4, <1>5 DEF SearchInv

LEMMA JudgeStep ==
  ASSUME GraphInv, Judge
  PROVE  GraphInv'
<1>1. /\ stage = "search" /\ stack = <<>> /\ visited = Contract
      /\ UNCHANGED <<requires, declared, searchVars, order>>
  BY DEF Judge
<1>2. UNCHANGED <<stack, visited, cycles>>
  BY <1>1 DEF searchVars
<1>3. SearchInv' /\ (\A n : Deps(n)' = Deps(n))
  BY <1>1, StillSearched DEF GraphInv
<1>4. order = <<>> /\ Elements(order) = {}
  BY <1>1 DEF GraphInv, Elements
<1>5. OrderIsSound'
  BY <1>1, <1>3 DEF GraphInv, OrderIsSound, Elements, DependenciesFirst
<1>6. Faultless' = Faultless
  BY <1>1, <1>2 DEF Faultless, Unresolved, Edges
<1>7. CASE Faultless
  <2>1. /\ stage' = "order"
        /\ pending' = [n \in Contract |-> Cardinality(Deps(n))]
        /\ ready' = {n \in Contract : Deps(n) = {}}
    BY <1>7 DEF Judge
  <2>2. \A n \in Contract : IsFiniteSet(Deps(n)) /\ (Cardinality(Deps(n)) = 0 <=> Deps(n) = {})
    BY DepsAreContracts, GraphAssumption, FS_Subset, FS_EmptySet
  <2>3. HeapIsSound'
    <3>1. Elements(order') = {}
      BY <1>1, <1>4
    <3>2. \A n \in Contract : pending'[n] = Cardinality(Deps(n) \ {})
      BY <2>1
    <3>3. ready' = {n \in Contract \ {} : pending'[n] = 0}
      BY <2>1, <2>2
    <3>4. QED
      BY <1>3, <3>1, <3>2, <3>3 DEF HeapIsSound
  <2>4. QED
    BY <1>1, <1>2, <1>3, <1>5, <1>6, <1>7, <2>1, <2>3 DEF GraphInv
<1>8. CASE ~Faultless
  <2>1. stage' = "refused"
    BY <1>8 DEF Judge
  <2>2. QED
    BY <1>1, <1>2, <1>3, <1>5, <1>6, <1>8, <2>1 DEF GraphInv
<1>9. QED
  BY <1>7, <1>8

LEMMA TakeStep ==
  ASSUME GraphInv, Take
  PROVE  GraphInv'
<1> DEFINE E == Elements(order)
<1>1. /\ stage = "order" /\ UNCHANGED <<requires, declared, stage, searchVars>>
  BY DEF Take
<1>2. PICK n \in ready :
        /\ order' = Append(order, n)
        /\ pending' = [m \in Contract |-> IF m \in Dependents(n) THEN pending[m] - 1 ELSE pending[m]]
        /\ ready' = (ready \ {n}) \cup {m \in Dependents(n) : pending[m] = 1}
  BY DEF Take
<1>3. UNCHANGED <<stack, visited, cycles>> /\ SearchInv' /\ (\A m : Deps(m)' = Deps(m))
  BY <1>1, StillSearched DEF GraphInv, searchVars
<1>4. /\ OrderIsSound /\ order \in Seq(Contract)
      /\ \A m \in Contract : pending[m] = Cardinality(Deps(m) \ E)
      /\ ready = {m \in Contract \ E : pending[m] = 0}
  BY <1>1 DEF GraphInv, HeapIsSound, OrderIsSound
<1>5. /\ E \in SUBSET Contract /\ IsFiniteSet(E) /\ E = {order[i] : i \in 1..Len(order)}
      /\ \A m \in E : Deps(m) \subseteq E
  BY <1>4, OrderIsOfContracts
<1>6. n \in Contract /\ n \notin E /\ pending[n] = 0
  BY <1>4
<1>7. \A m \in Contract : IsFiniteSet(Deps(m) \ E) /\ Cardinality(Deps(m) \ E) \in Nat
  <2>1. \A m \in Contract : Deps(m) \ E \in SUBSET Contract
    BY DepsAreContracts
  <2>2. QED
    BY <2>1, GraphAssumption, FS_Subset, FS_CardinalityType
<1>8. Deps(n) \subseteq E
  <2>1. Cardinality(Deps(n) \ E) = 0
    BY <1>4, <1>6
  <2>2. Deps(n) \ E = {}
    BY <1>6, <1>7, <2>1, FS_EmptySet
  <2>3. QED
    BY <2>2
<1>9. \A m : m \in Dependents(n) <=> m \in Contract /\ n \in Deps(m)
  BY <1>6 DEF Dependents, Deps
<1>10. n \notin Deps(n)
  BY DEF Deps, Edges
<1>11. /\ order' \in Seq(Contract) /\ Len(order') = Len(order) + 1 /\ Len(order) \in Nat
       /\ order'[Len(order) + 1] = n /\ \A i \in 1..Len(order) : order'[i] = order[i]
  BY <1>2, <1>4, <1>6
<1>12. Elements(order') = E \cup {n}
  <2>1. Elements(order') = {order'[i] : i \in 1..Len(order) + 1}
    BY <1>11 DEF Elements
  <2>2. QED
    BY <1>5, <1>11, <2>1
<1>13. OrderIsSound'
  <2>1. Cardinality(E \cup {n}) = Cardinality(E) + 1
    BY <1>5, <1>6, FS_AddElement
  <2>2. Cardinality(E) = Len(order)
    BY <1>4 DEF OrderIsSound
  <2>3. ASSUME NEW i \in 1..Len(order) + 1, NEW d \in Deps(order'[i])
        PROVE  \E j \in 1..(i - 1) : order'[j] = d
    <3>1. CASE i \in 1..Len(order)
      <4>1. PICK j \in 1..(i - 1) : order[j] = d
        BY <1>4, <1>11, <3>1 DEF OrderIsSound, DependenciesFirst
      <4>2. j \in 1..Len(order)
        BY <1>11, <3>1, <4>1
      <4>3. QED
        BY <1>11, <4>1, <4>2
    <3>2. CASE i = Len(order) + 1
      <4>1. d \in E
        BY <1>8, <1>11, <3>2
      <4>2. PICK j \in 1..Len(order) : order[j] = d
        BY <1>5, <4>1
      <4>3. QED
        BY <1>11, <3>2, <4>2
    <3>3. QED
      BY <1>11, <3>1, <3>2
  <2>4. DependenciesFirst'
    BY <1>3, <1>11, <2>3 DEF DependenciesFirst
  <2>5. QED
    BY <1>11, <1>12, <2>1, <2>2, <2>4 DEF OrderIsSound
<1>14. ASSUME NEW m \in Contract
       PROVE  pending'[m] = Cardinality(Deps(m) \ (E \cup {n}))
  <2>1. Deps(m) \ (E \cup {n}) = (Deps(m) \ E) \ {n}
    OBVIOUS
  <2>2. Cardinality((Deps(m) \ E) \ {n}) =
          IF n \in Deps(m) \ E THEN Cardinality(Deps(m) \ E) - 1 ELSE Cardinality(Deps(m) \ E)
    BY <1>7, FS_RemoveElement
  <2>3. n \in Deps(m) \ E <=> m \in Dependents(n)
    BY <1>6, <1>9
  <2>4. pending'[m] = IF m \in Dependents(n) THEN pending[m] - 1 ELSE pending[m]
    BY <1>2
  <2>5. QED
    BY <1>4, <2>1, <2>2, <2>3, <2>4
<1>15. ASSUME NEW m \in Contract
       PROVE  m \in ready' <=> m \notin E \cup {n} /\ pending'[m] = 0
  <2>1. pending[m] \in Nat
    BY <1>4, <1>7
  <2>2. m \in Dependents(n) => m \notin E /\ m # n
    BY <1>5, <1>6, <1>9, <1>10
  <2>3. CASE m \in Dependents(n)
    <3>1. pending'[m] = pending[m] - 1
      BY <1>2, <2>3
    <3>2. pending[m] # 0
      <4>1. n \in Deps(m) \ E
        BY <1>6, <1>9, <2>3
      <4>2. Cardinality(Deps(m) \ E) # 0
        BY <1>7, <4>1, FS_EmptySet
      <4>3. QED
        BY <1>4, <4>2
    <3>3. m \notin ready
      BY <1>4, <3>2
    <3>4. QED
      BY <1>2, <2>1, <2>2, <2>3, <3>1, <3>3
  <2>4. CASE m \notin Dependents(n)
    <3>1. pending'[m] = pending[m]
      BY <1>2, <2>4
    <3>2. QED
      BY <1>2, <1>4, <2>4, <3>1
  <2>5. QED
    BY <2>3, <2>4
<1>16. HeapIsSound'
  <2>1. ready' \subseteq Contract
    BY <1>2, <1>4, <1>9
  <2>2. ready' = {m \in Contract \ (E \cup {n}) : pending'[m] = 0}
    BY <1>15, <2>1
  <2>3. QED
    BY <1>3, <1>12, <1>14, <2>2 DEF HeapIsSound
<1>17. Faultless'
  BY <1>1, <1>3 DEF GraphInv, Faultless, Unresolved, Edges
<1>18. QED
  BY <1>1, <1>3, <1>13, <1>16, <1>17 DEF GraphInv

(***************************************************************************)
(* After the search every contract is finished.                            *)
(***************************************************************************)
LEMMA AllAreFinished ==
  ASSUME GraphInv, stack = <<>>, visited = Contract
  PROVE  Finished = Contract
<1>1. Len(stack) = 0 /\ Len(path) \in Nat /\ path \in Seq(Contract)
  BY DEF GraphInv, SearchInv, PathIsSound
<1>2. path = <<>>
  BY <1>1 DEF GraphInv, SearchInv, StackIsSound
<1>3. Elements(path) = {}
  BY <1>2 DEF Elements
<1>4. QED
  BY <1>3 DEF Finished

(***************************************************************************)
(* When the heap is empty all contracts are in the order: of those left    *)
(* over, the one finished first would require nothing that is left over.   *)
(***************************************************************************)
LEMMA NothingIsLeftOver ==
  ASSUME GraphInv, stage = "order", ready = {}
  PROVE  Len(order) = Cardinality(Contract)
<1> DEFINE E == Elements(order)
           L == Contract \ E
<1>1. /\ Faultless /\ \A m \in Contract : pending[m] = Cardinality(Deps(m) \ E)
      /\ {m \in L : pending[m] = 0} = {}
      /\ stack = <<>> /\ visited = Contract
  BY DEF GraphInv, HeapIsSound
<1>2. Finished = Contract
  BY <1>1, AllAreFinished
<1>3. PICK rank, high : Numbered(rank, high)
  BY <1>1 DEF GraphInv, SearchInv, Faultless, FinishedInOrder
<1>4. /\ rank \in [Contract -> Nat]
      /\ \A n \in Contract : \A d \in Deps(n) : d \in Contract /\ rank[d] < rank[n]
  BY <1>2, <1>3 DEF Numbered
<1>5. ASSUME NEW n \in L
      PROVE  \E d \in L : rank[d] < rank[n]
  <2>1. Cardinality(Deps(n) \ E) # 0
    BY <1>1
  <2>2. Deps(n) \ E # {}
    BY <2>1, FS_EmptySet
  <2>3. QED
    BY <1>4, <2>2
<1>6. L = {}
  <2>1. SUFFICES ASSUME L # {} PROVE FALSE
    OBVIOUS
  <2> DEFINE T == {rank[n] : n \in L}
  <2>2. T \in SUBSET Nat /\ T # {}
    BY <1>4, <2>1
  <2> HIDE DEF T
  <2>3. PICK x \in T : \A y \in T : x <= y
    BY <2>2, Least
  <2>4. PICK n \in L : x = rank[n]
    BY <2>3 DEF T
  <2>5. PICK d \in L : rank[d] < rank[n]
    BY <1>5
  <2>6. rank[d] \in T
    BY DEF T
  <2>7. rank[d] \in Nat /\ rank[n] \in Nat
    BY <1>4
  <2>8. QED
    BY <2>3, <2>4, <2>5, <2>6, <2>7
<1>7. E = Contract /\ Cardinality(E) = Len(order)
  BY <1>6, OrderIsOfContracts DEF GraphInv, OrderIsSound
<1>8. QED
  BY <1>7

LEMMA EndOrderStep ==
  ASSUME GraphInv, EndOrder
  PROVE  GraphInv'
<1>1. /\ stage = "order" /\ UNCHANGED <<requires, declared, searchVars, order>>
      /\ stage' = IF Len(order) = Cardinality(Contract) THEN "ordered" ELSE "refused"
      /\ ready = {}
  BY DEF EndOrder, kahnVars
<1>2. stage' = "ordered" /\ Len(order) = Cardinality(Contract)
  BY <1>1, NothingIsLeftOver
<1>3. UNCHANGED <<stack, visited, cycles>> /\ SearchInv' /\ (\A m : Deps(m)' = Deps(m))
  BY <1>1, StillSearched DEF GraphInv, searchVars
<1>4. OrderIsSound'
  BY <1>1, <1>3 DEF GraphInv, OrderIsSound, Elements, DependenciesFirst
<1>5. Faultless /\ Faultless' = Faultless
  BY <1>1, <1>3 DEF GraphInv, Faultless, Unresolved, Edges
<1>6. QED
  BY <1>1, <1>2, <1>3, <1>4, <1>5 DEF GraphInv

LEMMA GraphStutters ==
  ASSUME GraphInv, UNCHANGED graphVars
  PROVE  GraphInv'
<1>1. UNCHANGED <<requires, declared, stage, searchVars, stack, visited, cycles, pending, ready, order>>
  BY DEF graphVars, searchVars, kahnVars
<1>2. SearchInv' /\ (\A m : Deps(m)' = Deps(m))
  BY <1>1, StillSearched DEF GraphInv
<1>3. OrderIsSound'
  BY <1>1, <1>2 DEF GraphInv, OrderIsSound, Elements, DependenciesFirst
<1>4. Faultless' = Faultless
  BY <1>1 DEF Faultless, Unresolved, Edges
<1>5. HeapIsSound => HeapIsSound'
  <2>1. Elements(order') = Elements(order)
    BY <1>1
  <2>2. QED
    BY <1>1, <1>2, <2>1 DEF HeapIsSound
<1>6. QED
  BY <1>1, <1>2, <1>3, <1>4, <1>5 DEF GraphInv

LEMMA GraphStep ==
  ASSUME GraphInv, GraphNext
  PROVE  GraphInv'
BY SearchStep, JudgeStep, TakeStep, EndOrderStep DEF GraphNext

(***************************************************************************)
(* The search and the order stay sound.                                    *)
(***************************************************************************)
THEOREM GraphHolds == GraphSpec => []GraphInv
<1>1. GraphInit => GraphInv
  BY GraphStarts DEF GraphInit
<1>2. GraphInv /\ [GraphNext]_graphVars => GraphInv'
  BY GraphStep, GraphStutters
<1>3. QED
  BY <1>1, <1>2, PTL DEF GraphSpec

(***************************************************************************)
(* A contract is compiled after all it requires (topological_order).       *)
(***************************************************************************)
THEOREM RequirementsComeFirst == GraphSpec => []DependenciesFirst
<1>1. GraphInv => DependenciesFirst
  BY DEF GraphInv, OrderIsSound
<1>2. QED
  BY <1>1, GraphHolds, PTL

-------------------------------------------------------------------------------
(***************************************************************************)
(* Who is reached from whom. A cycle is as many steps long as there are    *)
(* contracts, at most; and no step leads to a contract finished later.     *)
(***************************************************************************)
Pairs == Contract \X Contract

Required == {e \in Pairs : e[2] \in Deps(e[1])}

Wider(R) == R \cup {e \in Pairs : \E b \in Contract : <<e[1], b>> \in R /\ <<b, e[2]>> \in R}

LEMMA ReachUnfolds ==
  /\ Reach \in [Nat -> SUBSET Pairs] /\ Reach[0] = Required
  /\ \A k \in Nat : Reach[k + 1] = Wider(Reach[k])
<1> DEFINE D == SUBSET Pairs
           g == [k \in Nat |-> [R \in D |-> Wider(R)]]
<1>1. Required \in D /\ \A R \in D : Wider(R) \in D
  BY DEF Required, Wider
<1>2. g \in [Nat -> [D -> D]] /\ \A k \in Nat : \A R \in D : g[k][R] = Wider(R)
  BY <1>1
<1> HIDE DEF g, D
<1>3. PICK f : f \in [Nat -> D] /\ f[0] = Required /\ \A k \in Nat : f[k + 1] = g[k][f[k]]
  <2>1. PICK base : base = Required
    OBVIOUS
  <2>2. \E f : Iterates(f, D, base, g)
    BY <1>1, <1>2, <2>1, Iteration
  <2>3. QED
    BY <2>1, <2>2 DEF Iterates
<1>4. \A k \in Nat : f[k + 1] = Wider(f[k])
  BY <1>2, <1>3
<1>5. \A k \in Nat : f[k] = IF k = 0 THEN Required ELSE Wider(f[k - 1])
  <2> TAKE k \in Nat
  <2>1. CASE k = 0
    BY <1>3, <2>1
  <2>2. CASE k # 0
    <3>1. k - 1 \in Nat /\ (k - 1) + 1 = k
      BY <2>2
    <3>2. f[(k - 1) + 1] = Wider(f[k - 1])
      BY <1>4, <3>1
    <3>3. QED
      BY <2>2, <3>1, <3>2
  <2>3. QED
    BY <2>1, <2>2
<1>6. f = [k \in Nat |-> IF k = 0 THEN Required ELSE Wider(f[k - 1])]
  BY <1>3, <1>5
<1>7. Reach = CHOOSE h : h = [k \in Nat |-> IF k = 0 THEN Required ELSE Wider(h[k - 1])]
  BY DEF Reach, Required, Wider, Pairs
<1>8. Reach = [k \in Nat |-> IF k = 0 THEN Required ELSE Wider(Reach[k - 1])]
  BY <1>6, <1>7
<1>9. \A k \in Nat : Reach[k] = IF k = 0 THEN Required ELSE Wider(Reach[k - 1])
  BY <1>8
<1>10. Reach[0] = Required
  BY <1>9
<1>11. \A k \in Nat : Reach[k + 1] = Wider(Reach[k])
  <2> TAKE k \in Nat
  <2>1. k + 1 \in Nat /\ k + 1 # 0 /\ (k + 1) - 1 = k
    OBVIOUS
  <2>2. QED
    BY <1>9, <2>1
<1> DEFINE S == {k \in Nat : Reach[k] \in D}
<1>12. 0 \in S /\ \A k \in Nat : k \in S => k + 1 \in S
  BY <1>1, <1>10, <1>11
<1>13. \A k \in Nat : Reach[k] \in D
  <2> HIDE DEF S
  <2>1. Nat \subseteq S
    BY <1>12, SetInduction
  <2>2. QED
    BY <2>1 DEF S
<1>14. Reach \in [Nat -> D]
  BY <1>8, <1>13
<1>15. QED
  BY <1>10, <1>11, <1>14 DEF D

LEMMA CyclesAreReached ==
  ASSUME NEW c, IsCycle(c)
  PROVE  HasCycle
<1> DEFINE S == {k \in Nat : /\ Required \subseteq Reach[k]
                             /\ \A i \in 2..Len(c) : i <= k + 2 => <<c[1], c[i]>> \in Reach[k]}
<1>1. /\ c \in Seq(Contract) /\ Len(c) \in Nat /\ 1 < Len(c) /\ c[1] = c[Len(c)]
      /\ \A i \in 1..Len(c) : c[i] \in Contract
      /\ \A i \in 1..Len(c) - 1 : <<c[i], c[i + 1]>> \in Required
  BY DEF IsCycle, Required, Pairs
<1>2. 0 \in S
  <2>1. ASSUME NEW i \in 2..Len(c), i <= 0 + 2 PROVE <<c[1], c[i]>> \in Required
    BY <1>1, <2>1
  <2>2. QED
    BY <2>1, ReachUnfolds
<1>3. ASSUME NEW k \in Nat, k \in S
      PROVE  k + 1 \in S
  <2>1. Reach[k + 1] = Wider(Reach[k]) /\ Reach[k] \subseteq Reach[k + 1]
    BY ReachUnfolds DEF Wider
  <2>2. ASSUME NEW i \in 2..Len(c), i <= (k + 1) + 2
        PROVE  <<c[1], c[i]>> \in Reach[k + 1]
    <3>1. CASE i <= k + 2
      BY <1>3, <2>1, <3>1
    <3>2. CASE i = k + 3
      <4>1. k + 2 \in 2..Len(c) /\ k + 2 \in 1..Len(c) - 1 /\ (k + 2) + 1 = i
        BY <1>1, <3>2
      <4>2. <<c[1], c[k + 2]>> \in Reach[k] /\ <<c[k + 2], c[i]>> \in Reach[k]
        BY <1>1, <1>3, <4>1
      <4>3. c[1] \in Contract /\ c[k + 2] \in Contract /\ c[i] \in Contract
        BY <1>1, <4>1
      <4>4. QED
        BY <2>1, <4>2, <4>3 DEF Wider, Pairs
    <3>3. QED
      BY <1>1, <2>2, <3>1, <3>2
  <2>3. k + 1 \in Nat /\ Required \subseteq Reach[k + 1]
    BY <1>3, <2>1
  <2>4. \A i \in 2..Len(c) : i <= (k + 1) + 2 => <<c[1], c[i]>> \in Reach[k + 1]
    BY <2>2
  <2>5. QED
    BY <2>3, <2>4
<1> HIDE DEF S
<1>4. Nat \subseteq S
  BY <1>2, <1>3, SetInduction
<1>5. Cardinality(Contract) \in Nat /\ Len(c) <= Cardinality(Contract) + 2
  BY <1>1, GraphAssumption, FS_CardinalityType DEF IsCycle
<1>6. <<c[1], c[Len(c)]>> \in Reach[Cardinality(Contract)]
  BY <1>1, <1>4, <1>5 DEF S
<1>7. 1 \in 1..Len(c)
  BY <1>1
<1>8. c[1] \in Contract /\ <<c[1], c[1]>> \in Reach[Cardinality(Contract)]
  BY <1>1, <1>6, <1>7
<1>9. QED
  BY <1>8 DEF HasCycle

LEMMA NumberedHasNoCycle ==
  ASSUME NEW rank, NEW high, Numbered(rank, high), Finished = Contract
  PROVE  ~HasCycle
<1> DEFINE S == {k \in Nat : \A e \in Reach[k] : rank[e[2]] < rank[e[1]]}
<1>1. /\ \A n \in Contract : rank[n] \in Nat
      /\ \A e \in Required : rank[e[2]] < rank[e[1]]
  BY DEF Numbered, Required, Pairs
<1>2. 0 \in S
  BY <1>1, ReachUnfolds
<1>3. ASSUME NEW k \in Nat, k \in S
      PROVE  k + 1 \in S
  <2>1. Reach[k + 1] = Wider(Reach[k])
    BY ReachUnfolds
  <2>2. ASSUME NEW e \in Pairs, NEW b \in Contract, <<e[1], b>> \in Reach[k], <<b, e[2]>> \in Reach[k]
        PROVE  rank[e[2]] < rank[e[1]]
    <3>1. rank[b] < rank[e[1]] /\ rank[e[2]] < rank[b]
      BY <1>3, <2>2
    <3>2. e[1] \in Contract /\ e[2] \in Contract
      BY DEF Pairs
    <3>3. QED
      BY <1>1, <3>1, <3>2
  <2>3. ASSUME NEW e \in Reach[k + 1]
        PROVE  rank[e[2]] < rank[e[1]]
    BY <1>3, <2>1, <2>2 DEF Wider
  <2>4. QED
    BY <2>3
<1> HIDE DEF S
<1>4. Nat \subseteq S
  BY <1>2, <1>3, SetInduction
<1>5. Cardinality(Contract) \in Nat
  BY GraphAssumption, FS_CardinalityType
<1>6. ASSUME NEW n \in Contract, <<n, n>> \in Reach[Cardinality(Contract)]
      PROVE  FALSE
  <2>1. rank[n] < rank[n]
    BY <1>4, <1>5, <1>6 DEF S
  <2>2. QED
    BY <1>1, <2>1
<1>7. QED
  BY <1>6 DEF HasCycle

LEMMA GraphIsOrdered ==
  ASSUME GraphInv
  PROVE  OrderIsComplete
<1>1. ASSUME NEW c \in cycles
      PROVE  IsCycle(c)
  BY DEF GraphInv, SearchInv
<1>2. cycles # {} => HasCycle
  BY <1>1, CyclesAreReached
<1>3. ASSUME stage # "search", cycles = {} PROVE ~HasCycle
  <2>1. PICK rank, high : Numbered(rank, high)
    BY <1>3 DEF GraphInv, SearchInv, FinishedInOrder
  <2>2. Finished = Contract
    BY <1>3, AllAreFinished DEF GraphInv
  <2>3. QED
    BY <2>1, <2>2, NumberedHasNoCycle
<1>4. CyclesAreFound
  BY <1>1, <1>2, <1>3 DEF CyclesAreFound, IsCycle
<1>5. ASSUME stage = "ordered"
      PROVE  Elements(order) = Contract /\ Len(order) = Cardinality(Contract)
  <2>1. Len(order) = Cardinality(Contract) /\ Cardinality(Elements(order)) = Len(order)
    BY <1>5 DEF GraphInv, OrderIsSound
  <2>2. Elements(order) \in SUBSET Contract
    BY OrderIsOfContracts DEF GraphInv
  <2>3. QED
    BY <2>1, <2>2, GraphAssumption, FS_Subset
<1>6. QED
  BY <1>4, <1>5 DEF OrderIsComplete, GraphInv

(***************************************************************************)
(* detect_cycles finds a cycle exactly when there is one, each cycle it    *)
(* reports is one, and topological_order then gets to the last contract.   *)
(***************************************************************************)
THEOREM AcyclicIsOrdered == GraphSpec => []OrderIsComplete
<1>1. GraphInv => OrderIsComplete
  BY GraphIsOrdered
<1>2. QED
  BY <1>1, GraphHolds, PTL

-------------------------------------------------------------------------------
(***************************************************************************)
(* The compiler, for any builds. A build that is not refused on the way    *)
(* arrives at the last check as what the four passes make of its source,   *)
(* so it is enough to compare that with the source.                        *)
(***************************************************************************)
LEMMA SourceIsBuild ==
  ASSUME source \in Builds
  PROVE  /\ source = [n \in Contract |-> source[n]] /\ DOMAIN source = Contract
         /\ \A n \in Contract : IsContract(source[n])
<1>1. source = [n \in Contract |-> source[n]] /\ \A n \in Contract : IsContract(source[n])
  BY BuildAssumption
<1>2. QED
  BY <1>1

\* What all contracts have, and what those of a kind have.
LEMMA ContractIsRecord ==
  ASSUME NEW c, IsContract(c)
  PROVE  /\ {"kind", "domain", "name", "requires", "shaped"} \subseteq DOMAIN c
         /\ c.kind \in {"Entity", "Mixin", "Workflow", "Route", "Page", "Agent"}
         /\ c.kind = "Entity" =>
              {"table", "fields", "mixins", "machine", "agents", "bound"} \subseteq DOMAIN c
         /\ c.kind = "Mixin" => "fields" \in DOMAIN c
         /\ c.kind = "Workflow" => "guards" \in DOMAIN c
         /\ c.kind = "Route" => {"entity", "path", "required"} \subseteq DOMAIN c
         /\ c.kind = "Page" => "entity" \in DOMAIN c
BY DEF IsContract, Attributes

-------------------------------------------------------------------------------
(***************************************************************************)
(* A name in a sequence of functions is given by the first that has it.    *)
(***************************************************************************)
Gives(M, i, a) == a \in DOMAIN M[i] /\ \A j \in 1..(i - 1) : a \notin DOMAIN M[j]

LEMMA FirstGives ==
  ASSUME NEW M, NEW k \in Nat, NEW i \in 1..k, NEW a, a \in DOMAIN M[i]
  PROVE  \E j \in 1..k : j <= i /\ Gives(M, j, a)
<1> DEFINE T == {j \in 1..k : a \in DOMAIN M[j]}
<1>1. T \in SUBSET Nat /\ i \in T
  OBVIOUS
<1> HIDE DEF T
<1>2. PICK j \in T : \A h \in T : j <= h
  BY <1>1, Least
<1>3. j \in 1..k /\ a \in DOMAIN M[j] /\ j <= i
  BY <1>1, <1>2 DEF T
<1>4. \A h \in 1..(j - 1) : a \notin DOMAIN M[h]
  BY <1>2, <1>3 DEF T
<1>5. QED
  BY <1>3, <1>4 DEF Gives

LEMMA OneGives ==
  ASSUME NEW M, NEW i \in Nat \ {0}, NEW j \in Nat \ {0}, NEW a, Gives(M, i, a), Gives(M, j, a)
  PROVE  i = j
<1>1. ~(i < j)
  <2> SUFFICES ASSUME i < j PROVE FALSE
    OBVIOUS
  <2>1. i \in 1..(j - 1)
    OBVIOUS
  <2>2. QED
    BY <2>1 DEF Gives
<1>2. ~(j < i)
  <2> SUFFICES ASSUME j < i PROVE FALSE
    OBVIOUS
  <2>1. j \in 1..(i - 1)
    OBVIOUS
  <2>2. QED
    BY <2>1 DEF Gives
<1>3. QED
  BY <1>1, <1>2

-------------------------------------------------------------------------------
(***************************************************************************)
(* The loop over the mixins of an entity: its own fields, and of the other *)
(* fields those of the first mixin that has one.                           *)
(***************************************************************************)
NamesUpTo(b, M, k) == DOMAIN b \cup UNION {DOMAIN M[i] : i \in 1..k}

AllUpTo(b, M, k) ==
  [a \in NamesUpTo(b, M, k) |->
     IF a \in DOMAIN b THEN b[a] ELSE M[CHOOSE i \in Nat \ {0} : Gives(M, i, a)][a]]

LEMMA GivenByTheFirst ==
  ASSUME NEW b, NEW M, NEW k \in Nat, NEW i \in 1..k, NEW a, a \notin DOMAIN b, Gives(M, i, a)
  PROVE  a \in NamesUpTo(b, M, k) /\ AllUpTo(b, M, k)[a] = M[i][a]
<1>1. a \in DOMAIN M[i]
  BY DEF Gives
<1>2. a \in NamesUpTo(b, M, k)
  BY <1>1 DEF NamesUpTo
<1>3. i \in Nat \ {0}
  OBVIOUS
<1> DEFINE first == CHOOSE j \in Nat \ {0} : Gives(M, j, a)
<1>4. first \in Nat \ {0} /\ Gives(M, first, a)
  BY <1>3
<1> HIDE DEF first
<1>5. first = i
  BY <1>3, <1>4, OneGives
<1>6. QED
  BY <1>2, <1>5 DEF AllUpTo, first

LEMMA NextExtends ==
  ASSUME NEW b, NEW M, NEW k \in Nat
  PROVE  AllUpTo(b, M, k + 1) = Extended(AllUpTo(b, M, k), M[k + 1])
<1> DEFINE old == AllUpTo(b, M, k)
           new == AllUpTo(b, M, k + 1)
<1>1. DOMAIN old = NamesUpTo(b, M, k) /\ DOMAIN new = NamesUpTo(b, M, k + 1)
  BY DEF AllUpTo
<1>2. NamesUpTo(b, M, k + 1) = NamesUpTo(b, M, k) \cup DOMAIN M[k + 1]
  <2>1. 1..(k + 1) = (1..k) \cup {k + 1}
    OBVIOUS
  <2>2. QED
    BY <2>1 DEF NamesUpTo
<1>3. \A a \in NamesUpTo(b, M, k) : new[a] = old[a]
  BY <1>2 DEF AllUpTo
<1>4. ASSUME NEW a \in DOMAIN M[k + 1], a \notin NamesUpTo(b, M, k)
      PROVE  new[a] = M[k + 1][a]
  <2>1. a \notin DOMAIN b /\ \A j \in 1..k : a \notin DOMAIN M[j]
    BY <1>4 DEF NamesUpTo
  <2>2. (k + 1) - 1 = k /\ k + 1 \in 1..(k + 1) /\ k + 1 \in Nat
    OBVIOUS
  <2>3. Gives(M, k + 1, a)
    BY <1>4, <2>1, <2>2 DEF Gives
  <2>4. QED
    BY <2>1, <2>2, <2>3, GivenByTheFirst
<1>5. new = [a \in NamesUpTo(b, M, k + 1) |-> new[a]]
  BY DEF AllUpTo
<1>6. Extended(old, M[k + 1]) =
        [a \in NamesUpTo(b, M, k + 1) |-> IF a \in NamesUpTo(b, M, k) THEN old[a] ELSE M[k + 1][a]]
  BY <1>1, <1>2 DEF Extended
<1>7. \A a \in NamesUpTo(b, M, k + 1) :
        new[a] = IF a \in NamesUpTo(b, M, k) THEN old[a] ELSE M[k + 1][a]
  BY <1>2, <1>3, <1>4
<1> HIDE DEF old, new
<1>8. QED
  BY <1>5, <1>6, <1>7 DEF old, new

LEMMA EachExtends == \A b, M : \A k \in Nat \ {0} : AllUpTo(b, M, k) = Extended(AllUpTo(b, M, k - 1), M[k])
<1>1. ASSUME NEW b, NEW M, NEW k \in Nat \ {0}
      PROVE  AllUpTo(b, M, k) = Extended(AllUpTo(b, M, k - 1), M[k])
  <2>1. k - 1 \in Nat /\ (k - 1) + 1 = k
    OBVIOUS
  <2>2. AllUpTo(b, M, (k - 1) + 1) = Extended(AllUpTo(b, M, k - 1), M[(k - 1) + 1])
    BY <2>1, NextExtends
  <2>3. QED
    BY <2>1, <2>2
<1>2. QED
  BY <1>1

Applied(x, e) ==
  CHOOSE applied :
    applied = [k \in 0..Len(e.mixins) |->
                 IF k = 0 THEN e.fields
                 ELSE Extended(applied[k - 1], MixinFields(x, e.mixins[k]))]

LEMMA AppliedInOrder ==
  ASSUME NEW x, NEW e, NEW M
  PROVE  /\ Len(e.mixins) \in Nat /\ e.fields = [a \in DOMAIN e.fields |-> e.fields[a]]
         /\ M = [k \in 1..Len(e.mixins) |-> MixinFields(x, e.mixins[k])]
         => Applied(x, e)[Len(e.mixins)] = AllUpTo(e.fields, M, Len(e.mixins))
<1> DEFINE m == Len(e.mixins)
           h == [k \in 0..m |-> AllUpTo(e.fields, M, k)]
           A == Applied(x, e)
<1>0. SUFFICES ASSUME /\ m \in Nat /\ e.fields = [a \in DOMAIN e.fields |-> e.fields[a]]
                      /\ M = [k \in 1..m |-> MixinFields(x, e.mixins[k])]
               PROVE  A[m] = AllUpTo(e.fields, M, m)
  OBVIOUS
<1>1. m \in Nat /\ \A k \in 1..m : M[k] = MixinFields(x, e.mixins[k])
  BY <1>0
<1>2. AllUpTo(e.fields, M, 0) = e.fields
  <2>1. NamesUpTo(e.fields, M, 0) = DOMAIN e.fields
    BY DEF NamesUpTo
  <2>2. AllUpTo(e.fields, M, 0) = [a \in DOMAIN e.fields |-> e.fields[a]]
    BY <2>1 DEF AllUpTo
  <2>3. QED
    BY <1>0, <2>2
<1>3. \A k \in 0..m : h[k] = IF k = 0 THEN e.fields
                             ELSE Extended(h[k - 1], MixinFields(x, e.mixins[k]))
  <2> TAKE k \in 0..m
  <2>1. CASE k = 0
    BY <1>2, <2>1
  <2>2. CASE k # 0
    <3>1. k - 1 \in 0..m /\ k \in 1..m /\ k \in Nat \ {0}
      BY <1>1, <2>2
    <3>2. AllUpTo(e.fields, M, k) = Extended(AllUpTo(e.fields, M, k - 1), M[k])
      BY <3>1, EachExtends
    <3>3. h[k] = AllUpTo(e.fields, M, k) /\ h[k - 1] = AllUpTo(e.fields, M, k - 1)
      BY <3>1
    <3>5. h[k] = Extended(h[k - 1], M[k])
      BY <3>1, <3>2, <3>3
    <3>4. QED
      BY <1>1, <2>2, <3>1, <3>5
  <2>3. QED
    BY <2>1, <2>2
<1>4. h = [k \in 0..m |-> h[k]]
  OBVIOUS
<1> HIDE DEF h
<1>5. h = [k \in 0..m |-> IF k = 0 THEN e.fields
                          ELSE Extended(h[k - 1], MixinFields(x, e.mixins[k]))]
  BY <1>3, <1>4
<1>6. A = [k \in 0..m |-> IF k = 0 THEN e.fields
                          ELSE Extended(A[k - 1], MixinFields(x, e.mixins[k]))]
  BY <1>5 DEF Applied
<1> HIDE DEF A
<1>7. \A k \in 0..m : A[k] = IF k = 0 THEN e.fields
                             ELSE Extended(A[k - 1], MixinFields(x, e.mixins[k]))
  BY <1>6
<1> DEFINE S == {k \in Nat : k <= m => A[k] = h[k]}
<1>8. 0 \in S
  BY <1>1, <1>3, <1>7
<1>9. ASSUME NEW k \in Nat, k \in S
      PROVE  k + 1 \in S
  <2>1. SUFFICES ASSUME k + 1 <= m PROVE A[k + 1] = h[k + 1]
    OBVIOUS
  <2>2. k + 1 \in 0..m /\ k + 1 # 0 /\ (k + 1) - 1 = k /\ A[k] = h[k]
    BY <1>1, <1>9, <2>1
  <2>3. QED
    BY <1>3, <1>7, <2>2
<1> HIDE DEF S
<1>10. Nat \subseteq S
  BY <1>8, <1>9, SetInduction
<1>11. A[m] = h[m]
  BY <1>1, <1>10 DEF S
<1>12. QED
  BY <1>1, <1>11 DEF h

-------------------------------------------------------------------------------
(***************************************************************************)
(* The fields of an entity once the mixins are expanded.                   *)
(***************************************************************************)
MixedFields(n) == Applied(source, source[n])[Len(source[n].mixins)]

Mixed == ExpandMixins(source)

GivenNames(n) == UNION {DOMAIN source[d].fields : d \in Declares(n)}

EntityAt(n) == source \in Builds /\ n \in Contract /\ source[n].kind = "Entity"

LEMMA MixinsOfEntity ==
  ASSUME NEW n, EntityAt(n)
  PROVE  /\ Len(source[n].mixins) \in Nat /\ DOMAIN source[n].mixins = 1..Len(source[n].mixins)
         /\ source[n].mixins \in Seq(ToSet(source[n].mixins))
         /\ ToSet(source[n].mixins) = {source[n].mixins[i] : i \in 1..Len(source[n].mixins)}
         /\ source[n].fields = [f \in DOMAIN source[n].fields |-> source[n].fields[f]]
<1>1. IsContract(source[n]) /\ source[n].kind = "Entity"
  BY SourceIsBuild DEF EntityAt
<1>2. source[n].mixins \in Seq(ToSet(source[n].mixins))
  BY <1>1 DEF IsContract
<1>3. source[n].fields = [f \in DOMAIN source[n].fields |-> source[n].fields[f]]
  BY <1>1 DEF IsContract
<1>4. Len(source[n].mixins) \in Nat /\ DOMAIN source[n].mixins = 1..Len(source[n].mixins)
  BY <1>2
<1>5. QED
  BY <1>2, <1>3, <1>4 DEF ToSet

LEMMA MixinIsFound ==
  ASSUME source \in Builds, NEW ref
  PROVE  /\ MixinOf(source, ref) <=> Is(ref, "Mixin")
         /\ EntityOf(source, ref) <=> Is(ref, "Entity")
         /\ WorkflowOf(source, ref) <=> Is(ref, "Workflow")
BY SourceIsBuild DEF MixinOf, EntityOf, WorkflowOf, Named, Is

LEMMA MixedIs ==
  ASSUME source \in Builds
  PROVE  /\ DOMAIN Mixed = Contract
         /\ \A n \in Contract :
              Mixed[n] = IF source[n].kind = "Entity"
                         THEN [source[n] EXCEPT !.fields = MixedFields(n)] ELSE source[n]
BY SourceIsBuild DEF Mixed, ExpandMixins, OnKind, MixedFields, Applied

LEMMA GiversInOrder ==
  ASSUME NEW n, EntityAt(n), NEW givers, givers = <<n>> \o source[n].mixins
  PROVE  /\ DOMAIN givers = 1..(Len(source[n].mixins) + 1)
         /\ givers[1] = n
         /\ \A i \in 1..Len(source[n].mixins) : givers[i + 1] = source[n].mixins[i]
<1> DEFINE s == source[n].mixins
           T == ToSet(s) \cup {n}
<1>1. s \in Seq(T) /\ <<n>> \in Seq(T) /\ Len(s) \in Nat
  <2>1. s \in Seq(ToSet(s)) /\ Len(s) \in Nat
    BY MixinsOfEntity
  <2> HIDE DEF s
  <2>2. QED
    BY <2>1
<1> HIDE DEF s, T
<1>2. Len(<<n>>) = 1 /\ <<n>>[1] = n
  OBVIOUS
<1>3. givers = <<n>> \o s
  BY DEF s
<1>4. Len(givers) = Len(s) + 1 /\ DOMAIN givers = 1..Len(givers)
  BY <1>1, <1>2, <1>3
<1>5. givers[1] = n
  BY <1>1, <1>2, <1>3
<1>6. \A i \in 1..Len(s) : givers[i + 1] = s[i]
  BY <1>1, <1>2, <1>3
<1>7. QED
  BY <1>4, <1>5, <1>6 DEF s

LEMMA GiverIs ==
  ASSUME NEW n, EntityAt(n), NEW f, NEW g,
         NEW k \in 1..(Len(source[n].mixins) + 1),
         g = (IF k = 1 THEN n ELSE source[n].mixins[k - 1]),
         g \in GivenBy(n, f),
         k # 1 => n \notin GivenBy(n, f),
         \A j \in 1..(k - 2) : source[n].mixins[j] \notin GivenBy(n, f)
  PROVE  Giver(n, f) = g
<1> DEFINE m == Len(source[n].mixins)
           givers == <<n>> \o source[n].mixins
           IsFirst(i) == /\ givers[i] \in GivenBy(n, f)
                         /\ \A j \in 1..(i - 1) : givers[j] \notin GivenBy(n, f)
           first == CHOOSE i \in DOMAIN givers : IsFirst(i)
<1>1. /\ DOMAIN givers = 1..(m + 1) /\ givers[1] = n
      /\ \A i \in 1..m : givers[i + 1] = source[n].mixins[i]
  BY GiversInOrder
<1>2. m \in Nat
  BY MixinsOfEntity
<1>3. Giver(n, f) = givers[first]
  BY DEF Giver
<1> HIDE DEF givers, m
<1>4. \A i \in 2..(m + 1) : givers[i] = source[n].mixins[i - 1]
  <2> TAKE i \in 2..(m + 1)
  <2>1. i - 1 \in 1..m /\ (i - 1) + 1 = i
    BY <1>2
  <2>2. QED
    BY <1>1, <2>1
<1>5. k \in 1..(m + 1)
  BY DEF m
<1>6. givers[k] = g
  <2>1. CASE k = 1
    BY <1>1, <2>1
  <2>2. CASE k # 1
    BY <1>2, <1>4, <1>5, <2>2
  <2>3. QED
    BY <2>1, <2>2
<1>7. ASSUME NEW j \in 1..(k - 1) PROVE givers[j] \notin GivenBy(n, f)
  <2>1. CASE j = 1
    BY <1>1, <1>2, <1>5, <2>1
  <2>2. CASE j # 1
    <3>1. j \in 2..(m + 1) /\ j - 1 \in 1..(k - 2)
      BY <1>2, <1>5, <2>2
    <3>2. QED
      BY <1>4, <3>1
  <2>3. QED
    BY <2>1, <2>2
<1>8. k \in DOMAIN givers /\ IsFirst(k)
  BY <1>1, <1>5, <1>6, <1>7
<1>9. first \in DOMAIN givers /\ IsFirst(first)
  BY <1>8
<1> HIDE DEF first
<1>10. ~(first < k)
  <2> SUFFICES ASSUME first < k PROVE FALSE
    OBVIOUS
  <2>1. first \in 1..(k - 1)
    BY <1>1, <1>2, <1>5, <1>9
  <2>2. QED
    BY <1>7, <1>9, <2>1
<1>11. ~(k < first)
  <2> SUFFICES ASSUME k < first PROVE FALSE
    OBVIOUS
  <2>1. k \in 1..(first - 1)
    BY <1>1, <1>2, <1>5, <1>9
  <2>2. QED
    BY <1>8, <1>9, <2>1
<1>12. first = k
  BY <1>1, <1>2, <1>5, <1>9, <1>10, <1>11
<1>13. QED
  BY <1>3, <1>6, <1>12

LEMMA FieldsAreMixed ==
  ASSUME NEW n, EntityAt(n)
  PROVE  /\ DOMAIN MixedFields(n) = GivenNames(n)
         /\ \A f \in GivenNames(n) :
              /\ Giver(n, f) \in GivenBy(n, f)
              /\ MixedFields(n)[f] = source[Giver(n, f)].fields[f]
<1> DEFINE e == source[n]
           m == Len(e.mixins)
           M == [k \in 1..m |-> MixinFields(source, e.mixins[k])]
<1>1. /\ m \in Nat /\ DOMAIN e.mixins = 1..m
      /\ ToSet(e.mixins) = {e.mixins[i] : i \in 1..m}
      /\ e.fields = [f \in DOMAIN e.fields |-> e.fields[f]]
  BY MixinsOfEntity
<1>2. MixedFields(n) = AllUpTo(e.fields, M, m)
  BY <1>1, AppliedInOrder DEF MixedFields
<1>3. \A i \in 1..m : M[i] = IF Is(e.mixins[i], "Mixin") THEN source[e.mixins[i]].fields ELSE <<>>
  BY MixinIsFound DEF MixinFields, EntityAt
<1>4. \A i \in 1..m : \A f : f \in DOMAIN M[i] <=>
        Is(e.mixins[i], "Mixin") /\ f \in DOMAIN source[e.mixins[i]].fields
  <2>1. DOMAIN <<>> = {}
    OBVIOUS
  <2>2. QED
    BY <1>3, <2>1
<1>5. Declares(n) = {n} \cup {e.mixins[i] : i \in {j \in 1..m : Is(e.mixins[j], "Mixin")}}
  BY <1>1 DEF Declares
<1>6. GivenNames(n) = NamesUpTo(e.fields, M, m)
  <2> HIDE DEF M, m
  <2>1. ASSUME NEW f
        PROVE  f \in GivenNames(n) <=>
                 \/ f \in DOMAIN e.fields
                 \/ \E i \in 1..m : Is(e.mixins[i], "Mixin") /\ f \in DOMAIN source[e.mixins[i]].fields
    BY <1>5 DEF GivenNames
  <2>2. ASSUME NEW f
        PROVE  f \in NamesUpTo(e.fields, M, m) <=>
                 f \in DOMAIN e.fields \/ \E i \in 1..m : f \in DOMAIN M[i]
    BY DEF NamesUpTo
  <2>3. QED
    BY <1>4, <2>1, <2>2
<1>7. \A f : n \in GivenBy(n, f) <=> f \in DOMAIN e.fields
  BY <1>5 DEF GivenBy
<1>8. \A i \in 1..m : \A f : e.mixins[i] \in GivenBy(n, f) <=>
        f \in DOMAIN M[i] \/ (e.mixins[i] = n /\ f \in DOMAIN e.fields)
  <2> TAKE i \in 1..m
  <2> TAKE f
  <2>1. e.mixins[i] \in Declares(n) <=> e.mixins[i] = n \/ Is(e.mixins[i], "Mixin")
    BY <1>1 DEF Declares
  <2>2. QED
    BY <1>4, <2>1 DEF GivenBy
<1>9. DOMAIN MixedFields(n) = GivenNames(n)
  BY <1>2, <1>6 DEF AllUpTo
<1> HIDE DEF M, m, e
<1>10. ASSUME NEW f \in GivenNames(n), f \in DOMAIN e.fields
       PROVE  /\ Giver(n, f) \in GivenBy(n, f)
              /\ MixedFields(n)[f] = source[Giver(n, f)].fields[f]
  <2>1. MixedFields(n)[f] = e.fields[f]
    BY <1>2, <1>6, <1>10 DEF AllUpTo
  <2>2. n \in GivenBy(n, f) /\ 1 \in 1..(m + 1) /\ 1..(1 - 2) = {}
    BY <1>1, <1>7, <1>10
  <2>3. Giver(n, f) = n
    BY <2>2, GiverIs DEF m, e
  <2>4. QED
    BY <2>1, <2>2, <2>3 DEF e
<1>11. ASSUME NEW f \in GivenNames(n), f \notin DOMAIN e.fields
       PROVE  /\ Giver(n, f) \in GivenBy(n, f)
              /\ MixedFields(n)[f] = source[Giver(n, f)].fields[f]
  <2>1. PICK i \in 1..m : f \in DOMAIN M[i]
    BY <1>6, <1>11 DEF NamesUpTo
  <2>2. PICK j \in 1..m : Gives(M, j, f)
    BY <1>1, <2>1, FirstGives
  <2>3. MixedFields(n)[f] = M[j][f]
    BY <1>1, <1>2, <1>11, <2>2, GivenByTheFirst
  <2>4. f \in DOMAIN M[j] /\ \A h \in 1..(j - 1) : f \notin DOMAIN M[h]
    BY <2>2 DEF Gives
  <2>5. M[j][f] = source[e.mixins[j]].fields[f]
    BY <1>3, <1>4, <2>4
  <2>6. e.mixins[j] \in GivenBy(n, f) /\ n \notin GivenBy(n, f)
    BY <1>7, <1>8, <1>11, <2>4
  <2>7. ASSUME NEW h \in 1..(j - 1) PROVE e.mixins[h] \notin GivenBy(n, f)
    <3>1. h \in 1..m
      BY <1>1
    <3>2. QED
      BY <1>8, <1>11, <2>4, <3>1
  <2>8. PICK k \in 1..(m + 1) : k = j + 1 /\ k - 1 = j /\ k - 2 = j - 1 /\ k # 1
    BY <1>1
  <2>9. Giver(n, f) = e.mixins[j]
    BY <2>6, <2>7, <2>8, GiverIs DEF m, e
  <2>10. QED
    BY <2>3, <2>5, <2>6, <2>9
<1>12. QED
  BY <1>9, <1>10, <1>11

-------------------------------------------------------------------------------
(***************************************************************************)
(* What the four passes leave of the source: all but entities and the      *)
(* paths of routes is as it was written.                                   *)
(***************************************************************************)
Tabled == InferTables(Mixed)

Bounded == BindMachines(Tabled)

Pathed == InferPaths(Bounded)

LEMMA DomainsAreKept ==
  ASSUME source \in Builds, NEW x, DOMAIN x = Contract,
         \A n \in Contract : x[n].domain = source[n].domain
  PROVE  MultiDomain(x) = MultiDomain(source)
<1>1. {x[n].domain : n \in DOMAIN x} = {source[n].domain : n \in DOMAIN source}
  BY SourceIsBuild
<1>2. QED
  BY <1>1 DEF MultiDomain

LEMMA MixedEntity ==
  ASSUME NEW n, EntityAt(n)
  PROVE  /\ DOMAIN Mixed[n] = DOMAIN source[n]
         /\ Mixed[n].fields = MixedFields(n)
         /\ Mixed[n].kind = "Entity" /\ Mixed[n].domain = source[n].domain
         /\ Mixed[n].name = source[n].name /\ Mixed[n].table = source[n].table
         /\ Mixed[n].mixins = source[n].mixins /\ Mixed[n].machine = source[n].machine
         /\ Mixed[n].bound = Nothing
<1>1. IsContract(source[n]) /\ source[n].kind = "Entity" /\ n \in Contract /\ source \in Builds
  BY SourceIsBuild DEF EntityAt
<1>2. Mixed[n] = [source[n] EXCEPT !.fields = MixedFields(n)]
  BY <1>1, MixedIs
<1>3. {"kind", "domain", "name", "table", "fields", "mixins", "machine", "bound"} \subseteq DOMAIN source[n]
      /\ source[n].bound = Nothing
  BY <1>1, ContractIsRecord DEF IsContract
<1>4. QED
  BY <1>1, <1>2, <1>3

LEMMA DomainsOfMixed ==
  ASSUME source \in Builds
  PROVE  DOMAIN Mixed = Contract /\ \A n \in Contract : Mixed[n].kind = source[n].kind
                                                  /\ Mixed[n].domain = source[n].domain
BY MixedIs, MixedEntity DEF EntityAt

LEMMA TabledIs ==
  ASSUME source \in Builds
  PROVE  /\ DOMAIN Tabled = Contract
         /\ \A n \in Contract : source[n].kind # "Entity" => Tabled[n] = source[n]
         /\ \A n \in Contract : source[n].kind = "Entity" =>
              Tabled[n] = IF Mixed[n].table = <<>>
                          THEN [Mixed[n] EXCEPT !.table =
                                  Prefixed(Mixed, Mixed[n], Plural[Mixed[n].name])]
                          ELSE Mixed[n]
BY DomainsOfMixed, MixedIs DEF Tabled, InferTables, OnKind

LEMMA TabledEntity ==
  ASSUME NEW n, EntityAt(n)
  PROVE  /\ DOMAIN Tabled[n] = DOMAIN source[n]
         /\ Tabled[n].fields = MixedFields(n)
         /\ Tabled[n].kind = "Entity" /\ Tabled[n].domain = source[n].domain
         /\ Tabled[n].name = source[n].name /\ Tabled[n].table = TableOf(n)
         /\ Tabled[n].mixins = source[n].mixins /\ Tabled[n].machine = source[n].machine
         /\ Tabled[n].bound = Nothing
<1>1. IsContract(source[n]) /\ source[n].kind = "Entity" /\ n \in Contract /\ source \in Builds
  BY SourceIsBuild DEF EntityAt
<1>2. {"kind", "domain", "name", "table", "fields", "mixins", "machine", "bound"} \subseteq DOMAIN Mixed[n]
  BY <1>1, ContractIsRecord, MixedEntity
<1>3. MultiDomain(Mixed) = MultiDomain(source)
  BY <1>1, DomainsOfMixed, DomainsAreKept
<1>4. Prefixed(Mixed, Mixed[n], Plural[Mixed[n].name]) = Prefixed(source, source[n], Plural[source[n].name])
  BY <1>3, MixedEntity DEF Prefixed
<1>5. Tabled[n] = IF source[n].table = <<>>
                  THEN [Mixed[n] EXCEPT !.table = Prefixed(source, source[n], Plural[source[n].name])]
                  ELSE Mixed[n]
  BY <1>1, <1>4, TabledIs, MixedEntity
<1>6. CASE source[n].table = <<>>
  BY <1>2, <1>5, <1>6, MixedEntity DEF TableOf
<1>7. CASE source[n].table # <<>>
  BY <1>2, <1>5, <1>7, MixedEntity DEF TableOf
<1>8. QED
  BY <1>6, <1>7

LEMMA KindsOfTabled ==
  ASSUME source \in Builds
  PROVE  /\ DOMAIN Tabled = Contract /\ \A n \in Contract : Tabled[n].kind = source[n].kind
         /\ \A ref : WorkflowOf(Tabled, ref) <=> Is(ref, "Workflow")
         /\ \A ref : Is(ref, "Workflow") => Tabled[ref] = source[ref]
<1>1. DOMAIN Tabled = Contract
  BY TabledIs
<1>2. ASSUME NEW n \in Contract PROVE Tabled[n].kind = source[n].kind
  <2>1. CASE source[n].kind = "Entity"
    BY <2>1, TabledEntity DEF EntityAt
  <2>2. CASE source[n].kind # "Entity"
    BY <2>2, TabledIs
  <2>3. QED
    BY <2>1, <2>2
<1>3. \A ref : WorkflowOf(Tabled, ref) <=> Is(ref, "Workflow")
  BY <1>1, <1>2 DEF WorkflowOf, Named, Is
<1>4. ASSUME NEW ref, Is(ref, "Workflow") PROVE Tabled[ref] = source[ref]
  BY <1>4, TabledIs DEF Is
<1>5. QED
  BY <1>1, <1>2, <1>3, <1>4

LEMMA BoundedIs ==
  ASSUME source \in Builds
  PROVE  /\ DOMAIN Bounded = Contract
         /\ \A n \in Contract : source[n].kind # "Entity" => Bounded[n] = source[n]
         /\ \A n \in Contract : source[n].kind = "Entity" =>
              Bounded[n] =
                IF WorkflowOf(Tabled, Tabled[n].machine)
                THEN [Tabled[n] EXCEPT
                        !.bound = Tabled[Tabled[n].machine],
                        !.fields = BoundFields(Tabled[n].fields, Tabled[Tabled[n].machine])]
                ELSE Tabled[n]
<1>1. DOMAIN Tabled = Contract /\ \A n \in Contract : Tabled[n].kind = source[n].kind
  BY KindsOfTabled
<1>2. DOMAIN Bounded = Contract
  BY <1>1 DEF Bounded, BindMachines, OnKind
<1>3. ASSUME NEW n \in Contract, source[n].kind # "Entity" PROVE Bounded[n] = source[n]
  BY <1>1, <1>3, TabledIs DEF Bounded, BindMachines, OnKind
<1>4. ASSUME NEW n \in Contract, source[n].kind = "Entity", ~WorkflowOf(Tabled, Tabled[n].machine)
      PROVE  Bounded[n] = Tabled[n]
  BY <1>1, <1>4 DEF Bounded, BindMachines, OnKind
<1>5. ASSUME NEW n \in Contract, source[n].kind = "Entity", WorkflowOf(Tabled, Tabled[n].machine)
      PROVE  Bounded[n] = [Tabled[n] EXCEPT
                             !.bound = Tabled[Tabled[n].machine],
                             !.fields = BoundFields(Tabled[n].fields, Tabled[Tabled[n].machine])]
  BY <1>1, <1>5 DEF Bounded, BindMachines, OnKind
<1>6. QED
  BY <1>2, <1>3, <1>4, <1>5

LEMMA PathedIs ==
  ASSUME source \in Builds
  PROVE  /\ DOMAIN Pathed = Contract
         /\ \A n \in Contract : source[n].kind # "Route" => Pathed[n] = Bounded[n]
         /\ \A n \in Contract : source[n].kind = "Route" =>
              /\ Pathed[n].kind = "Route" /\ Pathed[n].domain = source[n].domain
              /\ Pathed[n].entity = source[n].entity
              /\ Pathed[n].required = source[n].required
<1>1. DOMAIN Bounded = Contract /\ \A n \in Contract : Bounded[n].kind = source[n].kind
  <2>1. ASSUME NEW n \in Contract, source[n].kind = "Entity" PROVE Bounded[n].kind = "Entity"
    <3>1. "kind" \in DOMAIN Tabled[n] /\ Tabled[n].kind = "Entity"
      BY <2>1, TabledEntity, SourceIsBuild, ContractIsRecord DEF EntityAt
    <3>2. QED
      BY <2>1, <3>1, BoundedIs
  <2>2. QED
    BY <2>1, BoundedIs
<1>2. DOMAIN Pathed = Contract /\ \A n \in Contract : source[n].kind # "Route" => Pathed[n] = Bounded[n]
  BY <1>1 DEF Pathed, InferPaths, OnKind
<1>3. ASSUME NEW n \in Contract, source[n].kind = "Route"
      PROVE  /\ Pathed[n].kind = "Route" /\ Pathed[n].domain = source[n].domain
             /\ Pathed[n].entity = source[n].entity
             /\ Pathed[n].required = source[n].required
  <2>1. Bounded[n] = source[n]
    BY <1>3, BoundedIs
  <2>2. {"kind", "domain", "entity", "required"} \subseteq DOMAIN source[n]
    BY <1>3, SourceIsBuild, ContractIsRecord
  <2>3. PICK p : Pathed[n] = [source[n] EXCEPT !.path = p] \/ Pathed[n] = source[n]
    BY <1>1, <1>3, <2>1 DEF Pathed, InferPaths, OnKind
  <2>4. QED
    BY <1>3, <2>2, <2>3
<1>4. QED
  BY <1>2, <1>3, Zenon

LEMMA ExtendedHas ==
  ASSUME NEW f, NEW g
  PROVE  /\ DOMAIN Extended(f, g) = DOMAIN f \cup DOMAIN g
         /\ \A a \in DOMAIN f : Extended(f, g)[a] = f[a]
         /\ \A a \in DOMAIN g \ DOMAIN f : Extended(f, g)[a] = g[a]
BY DEF Extended

\* Each field is one that was written, or the state field that was added.
WrittenAs(n, f, field) ==
  GivenBy(n, f) # {} => LET given == source[Giver(n, f)].fields[f] IN
    field.type = given.type /\ field.target = given.target /\ field.display = given.display

AllWritten(n, fields) ==
  \A f \in DOMAIN fields :
    WrittenAs(n, f, fields[f]) /\ (GivenBy(n, f) = {} => fields[f].target = Nothing)

LEMMA MixedAsWritten ==
  ASSUME NEW n, EntityAt(n)
  PROVE  /\ DOMAIN MixedFields(n) = GivenNames(n)
         /\ \A f \in GivenNames(n) :
              /\ GivenBy(n, f) # {} /\ WrittenAs(n, f, MixedFields(n)[f])
              /\ {"type", "target", "display", "enum", "default"} = DOMAIN MixedFields(n)[f]
         /\ \A f : f \notin GivenNames(n) => GivenBy(n, f) = {}
<1>1. ASSUME NEW f \in GivenNames(n)
      PROVE  /\ GivenBy(n, f) # {} /\ WrittenAs(n, f, MixedFields(n)[f])
             /\ {"type", "target", "display", "enum", "default"} = DOMAIN MixedFields(n)[f]
  <2>1. Giver(n, f) \in GivenBy(n, f) /\ MixedFields(n)[f] = source[Giver(n, f)].fields[f]
    BY FieldsAreMixed
  <2>2. PICK d : d = Giver(n, f)
    OBVIOUS
  <2>3. d \in Contract /\ source[d].kind \in {"Entity", "Mixin"} /\ f \in DOMAIN source[d].fields
    BY <2>1, <2>2 DEF GivenBy, Declares, Is, EntityAt
  <2>4. IsContract(source[d])
    BY <2>3, SourceIsBuild DEF EntityAt
  <2>5. {"type", "target", "display", "enum", "default"} = DOMAIN source[d].fields[f]
    BY <2>3, <2>4 DEF IsContract
  <2>6. QED
    BY <2>1, <2>2, <2>5 DEF WrittenAs
<1>2. \A f : f \notin GivenNames(n) => GivenBy(n, f) = {}
  BY DEF GivenNames, GivenBy
<1>3. QED
  BY <1>1, <1>2, FieldsAreMixed

LEMMA BoundAsWritten ==
  ASSUME NEW n, EntityAt(n), NEW w, NEW fields, fields = BoundFields(MixedFields(n), w)
  PROVE  /\ DOMAIN fields = GivenNames(n) \cup {"state"}
         /\ AllWritten(n, fields)
         /\ fields["state"].enum = w.states
<1> DEFINE mixed == MixedFields(n)
<1>1. /\ DOMAIN mixed = GivenNames(n)
      /\ \A f \in DOMAIN mixed :
           /\ GivenBy(n, f) # {} /\ WrittenAs(n, f, mixed[f])
           /\ {"type", "target", "display", "enum", "default"} = DOMAIN mixed[f]
      /\ \A f : f \notin DOMAIN mixed => GivenBy(n, f) = {}
  BY MixedAsWritten
<1> HIDE DEF mixed
<1>2. CASE "state" \in DOMAIN mixed
  <2>1. fields = [mixed EXCEPT !["state"] = CompletedState(mixed["state"], w)]
    BY <1>2 DEF BoundFields, mixed
  <2>2. PICK s : s = CompletedState(mixed["state"], w)
    OBVIOUS
  <2>3. s.type = mixed["state"].type /\ s.target = mixed["state"].target
        /\ s.display = mixed["state"].display /\ s.enum = w.states
    BY <1>1, <1>2, <2>2 DEF CompletedState
  <2>4. WrittenAs(n, "state", s)
    BY <1>1, <1>2, <2>3 DEF WrittenAs
  <2>5. DOMAIN fields = DOMAIN mixed /\ fields["state"] = s
        /\ \A f \in DOMAIN mixed \ {"state"} : fields[f] = mixed[f]
    BY <1>2, <2>1, <2>2
  <2>6. QED
    BY <1>1, <1>2, <2>3, <2>4, <2>5 DEF AllWritten
<1>3. CASE "state" \notin DOMAIN mixed
  <2>1. PICK g : g = [state |-> AddedState(w)]
    OBVIOUS
  <2>2. DOMAIN g = {"state"} /\ g["state"].target = Nothing /\ g["state"].enum = w.states
    BY <2>1 DEF AddedState
  <2>3. fields = Extended(mixed, g)
    BY <1>3, <2>1 DEF BoundFields, mixed
  <2>4. DOMAIN fields = DOMAIN mixed \cup {"state"} /\ fields["state"] = g["state"]
        /\ \A f \in DOMAIN mixed : fields[f] = mixed[f]
    <3>1. /\ DOMAIN Extended(mixed, g) = DOMAIN mixed \cup DOMAIN g
          /\ \A a \in DOMAIN mixed : Extended(mixed, g)[a] = mixed[a]
          /\ \A a \in DOMAIN g \ DOMAIN mixed : Extended(mixed, g)[a] = g[a]
      BY ExtendedHas
    <3>2. QED
      BY <1>3, <2>2, <2>3, <3>1
  <2>5. GivenBy(n, "state") = {} /\ WrittenAs(n, "state", fields["state"])
    BY <1>1, <1>3 DEF WrittenAs
  <2>6. QED
    BY <1>1, <2>2, <2>4, <2>5 DEF AllWritten
<1>4. QED
  BY <1>2, <1>3

(***************************************************************************)
(* An entity as the last check sees it.                                    *)
(***************************************************************************)
LEMMA PathedEntity ==
  ASSUME NEW n, EntityAt(n)
  PROVE  /\ Pathed[n].kind = "Entity" /\ Pathed[n].domain = source[n].domain
         /\ Pathed[n].name = source[n].name /\ Pathed[n].table = TableOf(n)
         /\ Pathed[n].mixins = source[n].mixins /\ Pathed[n].machine = source[n].machine
         /\ Pathed[n].bound = IF Is(source[n].machine, "Workflow") THEN source[source[n].machine]
                                                                   ELSE Nothing
         /\ DOMAIN Pathed[n].fields = Columns(n)
         /\ AllWritten(n, Pathed[n].fields)
         /\ Is(source[n].machine, "Workflow") =>
              Pathed[n].fields["state"].enum = source[source[n].machine].states
<1>1. IsContract(source[n]) /\ source[n].kind = "Entity" /\ n \in Contract /\ source \in Builds
  BY SourceIsBuild DEF EntityAt
<1>2. Pathed[n] = Bounded[n]
  BY <1>1, PathedIs
<1>3. Columns(n) = GivenNames(n) \cup (IF Is(source[n].machine, "Workflow") THEN {"state"} ELSE {})
  BY DEF Columns, GivenNames
<1>4. CASE ~Is(source[n].machine, "Workflow")
  <2>1. Bounded[n] = Tabled[n]
    BY <1>1, <1>4, BoundedIs, KindsOfTabled, TabledEntity
  <2>2. Pathed[n].fields = MixedFields(n)
    BY <1>2, <2>1, TabledEntity
  <2>3. DOMAIN Pathed[n].fields = Columns(n) /\ AllWritten(n, Pathed[n].fields)
    BY <1>3, <1>4, <2>2, MixedAsWritten DEF AllWritten
  <2>4. QED
    BY <1>2, <1>4, <2>1, <2>3, TabledEntity
<1>5. CASE Is(source[n].machine, "Workflow")
  <2>1. PICK w : w = source[source[n].machine]
    OBVIOUS
  <2>2. WorkflowOf(Tabled, Tabled[n].machine) /\ Tabled[Tabled[n].machine] = w
    BY <1>1, <1>5, <2>1, KindsOfTabled, TabledEntity
  <2>3. PICK fields : fields = BoundFields(MixedFields(n), w)
    OBVIOUS
  <2>4. Bounded[n] = [Tabled[n] EXCEPT !.bound = w, !.fields = fields]
    BY <1>1, <2>2, <2>3, BoundedIs, TabledEntity
  <2>5. {"kind", "domain", "name", "table", "fields", "mixins", "machine", "bound"} \subseteq DOMAIN Tabled[n]
    BY <1>1, ContractIsRecord, TabledEntity
  <2>6. /\ Bounded[n].bound = w /\ Bounded[n].fields = fields
        /\ Bounded[n].kind = Tabled[n].kind /\ Bounded[n].domain = Tabled[n].domain
        /\ Bounded[n].name = Tabled[n].name /\ Bounded[n].table = Tabled[n].table
        /\ Bounded[n].mixins = Tabled[n].mixins /\ Bounded[n].machine = Tabled[n].machine
    BY <2>4, <2>5
  <2>7. /\ DOMAIN fields = Columns(n) /\ AllWritten(n, fields)
        /\ fields["state"].enum = w.states
    <3>1. /\ DOMAIN fields = GivenNames(n) \cup {"state"} /\ AllWritten(n, fields)
          /\ fields["state"].enum = w.states
      BY <2>3, BoundAsWritten
    <3>2. Columns(n) = DOMAIN fields
      BY <1>3, <1>5, <3>1
    <3>3. QED
      BY <3>1, <3>2
  <2>8. QED
    BY <1>2, <1>5, <2>1, <2>6, <2>7, TabledEntity
<1>6. QED
  BY <1>4, <1>5

LEMMA PathedIsOfContracts ==
  ASSUME source \in Builds
  PROVE  /\ DOMAIN Pathed = Contract
         /\ \A n \in Contract : Pathed[n].kind = source[n].kind /\ Pathed[n].domain = source[n].domain
         /\ \A n \in Contract : source[n].kind \in {"Mixin", "Workflow", "Page", "Agent"} =>
              Pathed[n] = source[n]
         /\ \A ref, kind : ref \in Named(Pathed, kind) <=> Is(ref, kind)
         /\ MultiDomain(Pathed) = MultiDomain(source)
<1>1. \A n \in Contract : source[n].kind \in {"Mixin", "Workflow", "Page", "Agent"} =>
        Pathed[n] = source[n]
  BY PathedIs, BoundedIs
<1>2. DOMAIN Pathed = Contract
      /\ \A n \in Contract : Pathed[n].kind = source[n].kind /\ Pathed[n].domain = source[n].domain
  <2>1. DOMAIN Pathed = Contract
    BY PathedIs
  <2>2. ASSUME NEW n \in Contract
        PROVE  Pathed[n].kind = source[n].kind /\ Pathed[n].domain = source[n].domain
    <3>1. source[n].kind \in {"Entity", "Mixin", "Workflow", "Route", "Page", "Agent"}
      BY SourceIsBuild, ContractIsRecord
    <3>2. QED
      BY <1>1, <3>1, PathedIs, PathedEntity DEF EntityAt
  <2>3. QED
    BY <2>1, <2>2
<1>3. \A ref, kind : ref \in Named(Pathed, kind) <=> Is(ref, kind)
  BY <1>2 DEF Named, Is
<1>4. QED
  BY <1>1, <1>2, <1>3, DomainsAreKept

-------------------------------------------------------------------------------
(***************************************************************************)
(* The last check against the source, rule by rule. Types first: those a   *)
(* field is given by an entity and its mixins are one exactly when all of  *)
(* its mixins agree with what the pass has made of it.                     *)
(***************************************************************************)
LEMMA AtMostOne ==
  ASSUME NEW S, IsFiniteSet(S)
  PROVE  Cardinality(S) <= 1 <=> \A x, y \in S : x = y
<1>1. ASSUME Cardinality(S) <= 1, NEW x \in S, NEW y \in S, x # y
      PROVE  FALSE
  <2>1. IsFiniteSet({x}) /\ Cardinality({x}) = 1
    BY FS_Singleton
  <2>2. Cardinality({x} \cup {y}) = 2
    BY <1>1, <2>1, FS_AddElement
  <2>3. {x} \cup {y} \subseteq S
    OBVIOUS
  <2>4. Cardinality({x} \cup {y}) <= Cardinality(S)
    BY <2>3, FS_Subset
  <2>5. Cardinality(S) \in Nat
    BY FS_CardinalityType
  <2>6. QED
    BY <1>1, <2>2, <2>4, <2>5
<1>2. ASSUME \A x, y \in S : x = y
      PROVE  Cardinality(S) <= 1
  <2>1. CASE S = {}
    BY <2>1, FS_EmptySet
  <2>2. CASE S # {}
    <3>1. PICK x : S = {x}
      BY <1>2, <2>2
    <3>2. QED
      BY <3>1, FS_Singleton
  <2>3. QED
    BY <2>1, <2>2
<1>3. QED
  BY <1>1, <1>2

LEMMA TypesAreFinite ==
  ASSUME NEW n, EntityAt(n), NEW f
  PROVE  IsFiniteSet(TypesOf(n, f))
<1>1. GivenBy(n, f) \in SUBSET Contract
  BY DEF GivenBy, Declares, Is, EntityAt
<1>2. IsFiniteSet(GivenBy(n, f))
  BY <1>1, GraphAssumption, FS_Subset
<1> DEFINE typeBy == [d \in GivenBy(n, f) |-> source[d].fields[f].type]
<1>3. TypesOf(n, f) = {typeBy[d] : d \in GivenBy(n, f)}
  BY DEF TypesOf
<1>4. typeBy \in Surjection(GivenBy(n, f), TypesOf(n, f))
  BY <1>3 DEF Surjection
<1> HIDE DEF typeBy
<1>5. QED
  BY <1>2, <1>4, FS_Surjection

Agrees(n, ref) ==
  \A f \in DOMAIN source[ref].fields \cap DOMAIN Pathed[n].fields :
    source[ref].fields[f].type = Pathed[n].fields[f].type

LEMMA TypesAgree ==
  ASSUME NEW n, EntityAt(n), \A ref \in ToSet(source[n].mixins) : Is(ref, "Mixin")
  PROVE  (\A ref \in ToSet(source[n].mixins) : Agrees(n, ref))
           <=> \A f \in Columns(n) : Cardinality(TypesOf(n, f)) <= 1
<1> DEFINE F == Pathed[n].fields
           refs == ToSet(source[n].mixins)
<1>1. DOMAIN F = Columns(n) /\ AllWritten(n, F)
  BY PathedEntity
<1>2. Declares(n) = {n} \cup refs
  BY DEF Declares
<1>3. \A f, d : d \in GivenBy(n, f) <=> (d = n \/ d \in refs) /\ f \in DOMAIN source[d].fields
  BY <1>2 DEF GivenBy
<1>4. \A f, d : d \in GivenBy(n, f) => f \in Columns(n) /\ f \in GivenNames(n)
  BY DEF GivenBy, Columns, GivenNames
<1>5. \A f, d : d \in GivenBy(n, f) => Giver(n, f) \in GivenBy(n, f)
  BY <1>4, FieldsAreMixed
<1>6. ASSUME NEW f, GivenBy(n, f) # {}
      PROVE  F[f].type = source[Giver(n, f)].fields[f].type /\ F[f].type \in TypesOf(n, f)
  <2>1. f \in DOMAIN F /\ Giver(n, f) \in GivenBy(n, f)
    BY <1>1, <1>4, <1>5, <1>6
  <2>2. F[f].type = source[Giver(n, f)].fields[f].type
    BY <1>1, <1>6, <2>1 DEF AllWritten, WrittenAs
  <2>3. QED
    BY <2>1, <2>2 DEF TypesOf
<1>7. ASSUME NEW f, n \in GivenBy(n, f)
      PROVE  F[f].type = source[n].fields[f].type
  <2>1. 1 \in 1..(Len(source[n].mixins) + 1) /\ 1..(1 - 2) = {}
    BY MixinsOfEntity
  <2>2. Giver(n, f) = n
    BY <1>7, <2>1, GiverIs
  <2>3. QED
    BY <1>6, <1>7, <2>2
<1> HIDE DEF F, refs
<1>8. ASSUME \A ref \in refs : Agrees(n, ref), NEW f \in Columns(n)
      PROVE  Cardinality(TypesOf(n, f)) <= 1
  <2>1. ASSUME NEW d \in GivenBy(n, f)
        PROVE  source[d].fields[f].type = F[f].type
    <3>1. CASE d = n
      BY <1>7, <2>1, <3>1
    <3>2. CASE d # n
      <4>1. d \in refs /\ f \in DOMAIN source[d].fields
        BY <1>3, <2>1, <3>2
      <4>2. QED
        BY <1>1, <1>8, <4>1 DEF Agrees, F
    <3>3. QED
      BY <3>1, <3>2
  <2>2. \A t \in TypesOf(n, f) : t = F[f].type
    BY <2>1 DEF TypesOf
  <2>3. QED
    BY <2>2, TypesAreFinite, AtMostOne
<1>9. ASSUME \A f \in Columns(n) : Cardinality(TypesOf(n, f)) <= 1, NEW ref \in refs
      PROVE  Agrees(n, ref)
  <2> SUFFICES ASSUME NEW f \in DOMAIN source[ref].fields
               PROVE  source[ref].fields[f].type = F[f].type
    BY DEF Agrees, F
  <2>1. ref \in GivenBy(n, f)
    BY <1>3
  <2>2. source[ref].fields[f].type \in TypesOf(n, f)
    BY <2>1 DEF TypesOf
  <2>3. F[f].type \in TypesOf(n, f) /\ f \in Columns(n)
    BY <1>4, <1>6, <2>1
  <2>4. QED
    BY <1>9, <2>2, <2>3, TypesAreFinite, AtMostOne
<1>10. QED
  BY <1>8, <1>9 DEF refs

LEMMA ReferencesAgree ==
  ASSUME NEW n, EntityAt(n)
  PROVE  (\A f \in DOMAIN Pathed[n].fields :
            Pathed[n].fields[f].target # Nothing =>
              /\ EntityOf(Pathed, Pathed[n].fields[f].target)
              /\ Pathed[n].fields[f].display \in
                   DOMAIN Pathed[Pathed[n].fields[f].target].fields)
           <=> \A f \in {g \in Columns(n) : GivenBy(n, g) # {}} :
                 LET field == source[Giver(n, f)].fields[f]
                 IN field.target # Nothing =>
                      Is(field.target, "Entity") /\ field.display \in Columns(field.target)
<1> DEFINE F == Pathed[n].fields
           Shows(field) == field.target # Nothing =>
                             /\ EntityOf(Pathed, field.target)
                             /\ field.display \in DOMAIN Pathed[field.target].fields
           Means(field) == field.target # Nothing =>
                             Is(field.target, "Entity") /\ field.display \in Columns(field.target)
<1>1. DOMAIN F = Columns(n) /\ AllWritten(n, F)
  BY PathedEntity
<1>2. ASSUME NEW field PROVE Shows(field) <=> Means(field)
  <2>1. EntityOf(Pathed, field.target) <=> Is(field.target, "Entity")
    BY PathedIsOfContracts DEF EntityOf, EntityAt
  <2>2. Is(field.target, "Entity") => DOMAIN Pathed[field.target].fields = Columns(field.target)
    <3>1. Is(field.target, "Entity") => EntityAt(field.target)
      BY DEF Is, EntityAt
    <3>2. QED
      BY <3>1, PathedEntity
  <2>3. QED
    BY <2>1, <2>2
<1>3. ASSUME NEW f \in Columns(n), GivenBy(n, f) # {}
      PROVE  Shows(F[f]) <=> Means(source[Giver(n, f)].fields[f])
  <2>1. PICK given : given = source[Giver(n, f)].fields[f]
    OBVIOUS
  <2>2. F[f].target = given.target /\ F[f].display = given.display
    BY <1>1, <1>3, <2>1 DEF AllWritten, WrittenAs
  <2>3. Shows(F[f]) <=> Shows(given)
    BY <2>2
  <2>4. QED
    BY <1>2, <2>1, <2>3
<1>4. ASSUME NEW f \in Columns(n), GivenBy(n, f) = {}
      PROVE  Shows(F[f])
  BY <1>1, <1>4 DEF AllWritten
<1> HIDE DEF Shows, Means, F
<1>5. (\A f \in DOMAIN F : Shows(F[f])) <=>
        \A f \in {g \in Columns(n) : GivenBy(n, g) # {}} : Means(source[Giver(n, f)].fields[f])
  BY <1>1, <1>3, <1>4
<1>6. QED
  BY <1>5 DEF Shows, Means, F

LEMMA EntityAgrees ==
  ASSUME NEW n, EntityAt(n)
  PROVE  EntityCoheres(Pathed, Pathed[n]) <=> EntityIsSound(n)
<1> DEFINE e == Pathed[n]
           c == source[n]
           refs == ToSet(c.mixins)
           OneType == \A f \in Columns(n) : Cardinality(TypesOf(n, f)) <= 1
           Mixins == \A ref \in refs : Is(ref, "Mixin")
           Machine == c.machine # Nothing => Is(c.machine, "Workflow")
           Guards == Is(c.machine, "Workflow") =>
                       \A g \in source[c.machine].guards : g.fields \subseteq Columns(n)
           References ==
             \A f \in {g \in Columns(n) : GivenBy(n, g) # {}} :
               LET field == source[Giver(n, f)].fields[f]
               IN field.target # Nothing =>
                    Is(field.target, "Entity") /\ field.display \in Columns(field.target)
<1>1. source \in Builds /\ n \in Contract
  BY DEF EntityAt
<1>2. EntityIsSound(n) <=> Mixins /\ Machine /\ OneType /\ References /\ Guards
  BY DEF EntityIsSound
<1>3. (\A i \in DOMAIN e.mixins :
         /\ MixinOf(Pathed, e.mixins[i])
         /\ LET given == Pathed[e.mixins[i]].fields
            IN \A f \in DOMAIN given \cap DOMAIN e.fields : given[f].type = e.fields[f].type)
        <=> Mixins /\ OneType
  <2>1. e.mixins = c.mixins /\ refs = {c.mixins[i] : i \in DOMAIN c.mixins}
    BY PathedEntity DEF ToSet
  <2>2. \A ref : MixinOf(Pathed, ref) <=> Is(ref, "Mixin")
    BY <1>1, PathedIsOfContracts DEF MixinOf
  <2>3. \A ref : Is(ref, "Mixin") => Pathed[ref] = source[ref]
    BY <1>1, PathedIsOfContracts DEF Is
  <2>4. \A ref : Is(ref, "Mixin") =>
          ((LET given == Pathed[ref].fields
            IN \A f \in DOMAIN given \cap DOMAIN e.fields : given[f].type = e.fields[f].type)
             <=> Agrees(n, ref))
    BY <2>3 DEF Agrees
  <2>5. Mixins => ((\A ref \in refs : Agrees(n, ref)) <=> OneType)
    BY TypesAgree
  <2> HIDE DEF OneType, e, c
  <2>6. (\A i \in DOMAIN e.mixins :
           /\ MixinOf(Pathed, e.mixins[i])
           /\ LET given == Pathed[e.mixins[i]].fields
              IN \A f \in DOMAIN given \cap DOMAIN e.fields : given[f].type = e.fields[f].type)
          <=> \A ref \in refs :
                /\ MixinOf(Pathed, ref)
                /\ LET given == Pathed[ref].fields
                   IN \A f \in DOMAIN given \cap DOMAIN e.fields : given[f].type = e.fields[f].type
    BY <2>1
  <2>7. (\A ref \in refs :
           /\ MixinOf(Pathed, ref)
           /\ LET given == Pathed[ref].fields
              IN \A f \in DOMAIN given \cap DOMAIN e.fields : given[f].type = e.fields[f].type)
          <=> \A ref \in refs : Is(ref, "Mixin") /\ Agrees(n, ref)
    BY <2>2, <2>4
  <2>8. QED
    BY <2>5, <2>6, <2>7
<1>4. (e.machine # Nothing => WorkflowOf(Pathed, e.machine)) <=> Machine
  BY <1>1, PathedEntity, PathedIsOfContracts DEF WorkflowOf
<1>5. (\A f \in DOMAIN e.fields :
         e.fields[f].target # Nothing =>
           /\ EntityOf(Pathed, e.fields[f].target)
           /\ e.fields[f].display \in DOMAIN Pathed[e.fields[f].target].fields) <=> References
  BY ReferencesAgree
<1>6. (e.bound # Nothing => \A g \in e.bound.guards : g.fields \subseteq DOMAIN e.fields) <=> Guards
  <2>1. DOMAIN e.fields = Columns(n)
    BY PathedEntity
  <2>2. CASE Is(c.machine, "Workflow")
    <3>1. e.bound = source[c.machine] /\ source[c.machine] # Nothing
      BY <1>1, <2>2, PathedEntity, SourceIsBuild DEF Is, IsContract
    <3>2. QED
      BY <2>1, <2>2, <3>1
  <2>3. CASE ~Is(c.machine, "Workflow")
    BY <2>3, PathedEntity
  <2>4. QED
    BY <2>2, <2>3
<1> HIDE DEF Mixins, Machine, OneType, References, Guards
<1>7. EntityCoheres(Pathed, e) <=>
        /\ \A i \in DOMAIN e.mixins :
             /\ MixinOf(Pathed, e.mixins[i])
             /\ LET given == Pathed[e.mixins[i]].fields
                IN \A f \in DOMAIN given \cap DOMAIN e.fields : given[f].type = e.fields[f].type
        /\ e.machine # Nothing => WorkflowOf(Pathed, e.machine)
        /\ \A f \in DOMAIN e.fields :
             e.fields[f].target # Nothing =>
               /\ EntityOf(Pathed, e.fields[f].target)
               /\ e.fields[f].display \in DOMAIN Pathed[e.fields[f].target].fields
        /\ e.bound # Nothing => \A g \in e.bound.guards : g.fields \subseteq DOMAIN e.fields
  BY DEF EntityCoheres
<1>8. QED
  BY <1>2, <1>3, <1>4, <1>5, <1>6, <1>7

(***************************************************************************)
(* What is asked of each contract and of the names, as BuildIsSound does.  *)
(***************************************************************************)
ContractIsSound(n) ==
  /\ source[n].kind = "Entity" => EntityIsSound(n)
  /\ source[n].kind = "Workflow" => WorkflowCoheres(source[n])
  /\ source[n].kind \in {"Route", "Page"} =>
       (source[n].entity # Nothing => Is(source[n].entity, "Entity"))
  /\ source[n].kind = "Route" /\ Is(source[n].entity, "Entity") =>
       source[n].required \subseteq Columns(source[n].entity)

NamesAreApart ==
  \A m, n \in Contract : m # n /\ Is(m, "Entity") /\ Is(n, "Entity") =>
    /\ TableOf(m) # TableOf(n)
    /\ Prefixed(source, source[m], source[m].name) #
       Prefixed(source, source[n], source[n].name)

LEMMA RouteAgrees ==
  ASSUME source \in Builds, NEW n \in Contract, source[n].kind = "Route"
  PROVE  RouteCoheres(Pathed, Pathed[n]) <=> ContractIsSound(n)
<1> DEFINE ref == source[n].entity
<1>1. Pathed[n].entity = ref /\ Pathed[n].required = source[n].required
  BY PathedIs
<1>2. EntityOf(Pathed, ref) <=> Is(ref, "Entity")
  BY PathedIsOfContracts DEF EntityOf
<1>3. Is(ref, "Entity") => EntityAt(ref) /\ ref # Nothing
  BY BuildAssumption DEF Is, EntityAt
<1>4. Is(ref, "Entity") => DOMAIN Pathed[ref].fields = Columns(ref)
  BY <1>3, PathedEntity
<1>5. QED
  BY <1>1, <1>2, <1>3, <1>4 DEF RouteCoheres, ContractIsSound

LEMMA ContractAgrees ==
  ASSUME source \in Builds, NEW n \in Contract
  PROVE  ContractIsSound(n) <=>
           /\ n \in Named(Pathed, "Entity")   => EntityCoheres(Pathed, Pathed[n])
           /\ n \in Named(Pathed, "Workflow") => WorkflowCoheres(Pathed[n])
           /\ n \in Named(Pathed, "Page")     => PageCoheres(Pathed, Pathed[n])
           /\ n \in Named(Pathed, "Route")    => RouteCoheres(Pathed, Pathed[n])
<1>1. \A kind : n \in Named(Pathed, kind) <=> source[n].kind = kind
  BY PathedIsOfContracts DEF Is
<1>2. CASE source[n].kind = "Entity"
  BY <1>1, <1>2, EntityAgrees DEF EntityAt, ContractIsSound
<1>3. CASE source[n].kind = "Workflow"
  BY <1>1, <1>3, PathedIsOfContracts DEF ContractIsSound
<1>4. CASE source[n].kind = "Page"
  <2>1. Pathed[n] = source[n]
    BY <1>4, PathedIsOfContracts
  <2>2. EntityOf(Pathed, source[n].entity) <=> Is(source[n].entity, "Entity")
    BY PathedIsOfContracts DEF EntityOf
  <2>3. QED
    BY <1>1, <1>4, <2>1, <2>2 DEF PageCoheres, ContractIsSound
<1>5. CASE source[n].kind = "Route"
  BY <1>1, <1>5, RouteAgrees
<1>6. CASE source[n].kind \notin {"Entity", "Workflow", "Page", "Route"}
  BY <1>1, <1>6 DEF ContractIsSound
<1>7. QED
  BY <1>2, <1>3, <1>4, <1>5, <1>6

LEMMA NamesAgree ==
  ASSUME source \in Builds
  PROVE  NamesDiffer(Pathed) <=> NamesAreApart
<1>1. \A n : n \in Named(Pathed, "Entity") <=> n \in Contract /\ Is(n, "Entity")
  BY PathedIsOfContracts DEF Is
<1>2. ASSUME NEW n, Is(n, "Entity")
      PROVE  /\ Pathed[n].table = TableOf(n)
             /\ Prefixed(Pathed, Pathed[n], Pathed[n].name) =
                  Prefixed(source, source[n], source[n].name)
  <2>1. EntityAt(n)
    BY <1>2 DEF Is, EntityAt
  <2>2. QED
    BY <2>1, PathedEntity, PathedIsOfContracts DEF Prefixed
<1>3. QED
  BY <1>1, <1>2 DEF NamesDiffer, NamesAreApart

LEMMA RulesAgree ==
  ASSUME source \in Builds
  PROVE  Coherent(Pathed) <=> (\A n \in Contract : ContractIsSound(n)) /\ NamesAreApart
<1>1. \A kind : Named(Pathed, kind) \subseteq Contract
  BY PathedIsOfContracts DEF Is
<1>2. (\A n \in Contract : ContractIsSound(n)) <=>
        /\ \A n \in Named(Pathed, "Entity")   : EntityCoheres(Pathed, Pathed[n])
        /\ \A n \in Named(Pathed, "Workflow") : WorkflowCoheres(Pathed[n])
        /\ \A n \in Named(Pathed, "Page")     : PageCoheres(Pathed, Pathed[n])
        /\ \A n \in Named(Pathed, "Route")    : RouteCoheres(Pathed, Pathed[n])
  BY <1>1, ContractAgrees
<1>3. QED
  BY <1>2, NamesAgree DEF Coherent

-------------------------------------------------------------------------------
(***************************************************************************)
(* The graph against the source: it refuses only what is not sound, and    *)
(* what it orders has nothing against it that a graph can tell.            *)
(***************************************************************************)
GraphOfSource ==
  /\ requires = [n \in Contract |-> Requirements(source[n])]
  /\ declared = {n \in Contract : n \in source[n].requires}

GraphIsSound ==
  /\ \A n \in Contract : n \notin source[n].requires
  /\ \A n \in Contract : requires[n] \subseteq Contract
  /\ Acyclic

LEMMA CycleIsNotAcyclic ==
  ASSUME NEW c, IsCycle(c)
  PROVE  ~Acyclic
<1> DEFINE S == {c[i] : i \in 1..Len(c)}
<1>1. /\ Len(c) \in Nat /\ 1 < Len(c) /\ c[1] = c[Len(c)]
      /\ \A i \in 1..Len(c) : c[i] \in Contract
      /\ \A i \in 1..Len(c) - 1 : c[i + 1] \in Deps(c[i])
  BY DEF IsCycle
<1>2. S \in (SUBSET Contract) \ {{}}
  <2>1. 1 \in 1..Len(c)
    BY <1>1
  <2>2. QED
    BY <1>1, <2>1
<1>3. ASSUME NEW n \in S
      PROVE  requires[n] \cap (S \ {n}) # {}
  <2>1. PICK i \in 1..Len(c) - 1 : c[i] = n
    <3>1. PICK j \in 1..Len(c) : c[j] = n
      OBVIOUS
    <3>2. CASE j = Len(c)
      <4>1. 1 \in 1..Len(c) - 1 /\ c[1] = n
        BY <1>1, <3>1, <3>2
      <4>2. QED
        BY <4>1
    <3>3. CASE j # Len(c)
      <4>1. j \in 1..Len(c) - 1
        BY <1>1, <3>3
      <4>2. QED
        BY <3>1, <4>1
    <3>4. QED
      BY <3>2, <3>3
  <2>2. c[i + 1] \in requires[n] \ {n}
    BY <1>1, <2>1 DEF Deps, Edges
  <2>3. i + 1 \in 1..Len(c)
    BY <1>1
  <2>4. QED
    BY <2>2, <2>3
<1> HIDE DEF S
<1>4. QED
  BY <1>2, <1>3 DEF Acyclic

LEMMA NumberedIsAcyclic ==
  ASSUME NEW rank, NEW high, Numbered(rank, high), Finished = Contract
  PROVE  Acyclic
<1> SUFFICES ASSUME NEW S \in (SUBSET Contract) \ {{}}
             PROVE  \E n \in S : requires[n] \cap (S \ {n}) = {}
  BY DEF Acyclic
<1>1. /\ \A n \in Contract : rank[n] \in Nat
      /\ \A n \in Contract : \A d \in Deps(n) : rank[d] < rank[n]
  BY DEF Numbered
<1> DEFINE T == {rank[n] : n \in S}
<1>2. T \in SUBSET Nat /\ T # {}
  BY <1>1
<1> HIDE DEF T
<1>3. PICK x \in T : \A y \in T : x <= y
  BY <1>2, Least
<1>4. PICK n \in S : x = rank[n]
  BY <1>3 DEF T
<1>5. ASSUME NEW d \in requires[n] \cap (S \ {n})
      PROVE  FALSE
  <2>1. d \in Deps(n) /\ n \in Contract /\ d \in Contract
    BY DEF Deps, Edges
  <2>2. rank[d] < rank[n] /\ rank[d] \in Nat /\ rank[n] \in Nat
    BY <1>1, <2>1
  <2>3. rank[d] \in T
    BY DEF T
  <2>4. QED
    BY <1>3, <1>4, <2>2, <2>3
<1>6. QED
  BY <1>5

LEMMA OrderedIsSound ==
  ASSUME GraphInv, GraphOfSource, stage = "ordered"
  PROVE  GraphIsSound
<1>1. Faultless /\ Finished = Contract
  BY AllAreFinished DEF GraphInv
<1>2. PICK rank, high : Numbered(rank, high)
  BY <1>1 DEF GraphInv, SearchInv, Faultless, FinishedInOrder
<1>3. Acyclic
  BY <1>1, <1>2, NumberedIsAcyclic
<1>4. \A n \in Contract : n \notin source[n].requires
  BY <1>1 DEF Faultless, GraphOfSource
<1>5. ASSUME NEW n \in Contract, NEW m \in requires[n]
      PROVE  m \in Contract
  <2>1. m \in Contract \cup Ghost
    BY DEF GraphOfSource, Requirements
  <2>2. <<n, m>> \notin Unresolved
    BY <1>1 DEF Faultless
  <2>3. QED
    BY <2>1, <2>2 DEF Unresolved, Edges
<1>6. QED
  BY <1>3, <1>4, <1>5 DEF GraphIsSound

LEMMA RefusedIsNotSound ==
  ASSUME GraphInv, GraphOfSource, stage = "refused"
  PROVE  ~GraphIsSound
<1>1. ~Faultless
  BY DEF GraphInv
<1>2. CASE declared # {}
  BY <1>2 DEF GraphOfSource, GraphIsSound
<1>3. CASE Unresolved # {}
  <2>1. PICK e \in Contract \X Ghost : e[2] \in requires[e[1]]
    BY <1>3 DEF Unresolved, Edges
  <2>2. e[1] \in Contract /\ e[2] \notin Contract
    BY GraphAssumption
  <2>3. QED
    BY <2>1, <2>2 DEF GraphIsSound
<1>4. CASE cycles # {}
  BY <1>4, CycleIsNotAcyclic DEF GraphInv, SearchInv, GraphIsSound
<1>5. QED
  BY <1>1, <1>2, <1>3, <1>4 DEF Faultless

LEMMA BuildIsSoundBy ==
  BuildIsSound <=>
    /\ misfiled = {} /\ ~Illegible /\ \A n \in Contract : source[n].shaped
    /\ GraphIsSound
    /\ \A n \in Contract : ContractIsSound(n)
    /\ NamesAreApart
BY DEF BuildIsSound, GraphIsSound, ContractIsSound, NamesAreApart

(***************************************************************************)
(* Translation keeps what was written, unless a guard is illegible.        *)
(***************************************************************************)
LEMMA TranslatedAsWritten ==
  ASSUME source \in Builds, ~Illegible
  PROVE  \A n \in Contract : Translated(source[n]) = source[n]
<1> SUFFICES ASSUME NEW n \in Contract, source[n].kind = "Workflow"
             PROVE  Translated(source[n]) = source[n]
  BY DEF Translated
<1>1. source[n] = [a \in DOMAIN source[n] |-> source[n][a]]
  BY SourceIsBuild DEF IsContract
<1>2. {g \in source[n].guards : g.legible} = source[n].guards
  BY DEF Illegible
<1>3. Translated(source[n]) = [source[n] EXCEPT !.guards = {g \in source[n].guards : g.legible}]
  BY DEF Translated
<1>4. QED
  BY <1>1, <1>2, <1>3

-------------------------------------------------------------------------------
(***************************************************************************)
(* What a compilation knows at each of its stages.                         *)
(***************************************************************************)
PartlyTranslated ==
  /\ ir = [n \in DOMAIN ir |-> ir[n]] /\ DOMAIN ir \subseteq Contract
  /\ \A n \in DOMAIN ir : ir[n] = Translated(source[n])

Phases == {"load", "validate", "graph", "compile", "expand", "tables", "bind", "paths", "check",
           "accepted", "refused"}

Early == {"load", "validate", "graph", "compile"}

StageIsPassed ==
  /\ phase \notin {"load", "refused"} => misfiled = {}
  /\ phase \notin {"load", "validate", "refused"} => \A n \in Contract : source[n].shaped
  /\ phase \notin {"load", "validate", "graph", "refused"} => stage = "ordered"
  /\ phase \notin Early \cup {"refused"} => ~Illegible

RepresentationIsSound ==
  /\ phase \in Early => PartlyTranslated
  /\ phase = "expand" => ir = source
  /\ phase = "tables" => ir = Mixed
  /\ phase = "bind" => ir = Tabled
  /\ phase = "paths" => ir = Bounded
  /\ phase \in {"check", "accepted"} => ir = Pathed

VerdictIsSound ==
  /\ phase = "accepted" => BuildIsSound
  /\ phase = "refused" => ~BuildIsSound

CompilerInv ==
  /\ source \in Builds /\ phase \in Phases
  /\ GraphInv /\ GraphOfSource
  /\ StageIsPassed /\ RepresentationIsSound /\ VerdictIsSound

LEMMA SourceStays ==
  ASSUME UNCHANGED <<source, misfiled, requires, declared>>
  PROVE  /\ GraphOfSource' = GraphOfSource /\ Illegible' = Illegible
         /\ Mixed' = Mixed /\ Tabled' = Tabled /\ Bounded' = Bounded /\ Pathed' = Pathed
         /\ BuildIsSound' = BuildIsSound
<1>1. GraphOfSource' = GraphOfSource /\ Illegible' = Illegible
  BY DEF GraphOfSource, Illegible
<1>2. Mixed' = Mixed /\ Tabled' = Tabled /\ Bounded' = Bounded /\ Pathed' = Pathed
  BY DEF Mixed, Tabled, Bounded, Pathed
<1>3. \A ref, kind : Is(ref, kind)' = Is(ref, kind)
  BY DEF Is
<1>4. ASSUME NEW n PROVE Declares(n)' = Declares(n)
  BY <1>3 DEF Declares
<1>5. ASSUME NEW n, NEW f PROVE GivenBy(n, f)' = GivenBy(n, f)
  BY <1>4 DEF GivenBy
<1>6. ASSUME NEW n PROVE Columns(n)' = Columns(n)
  BY <1>3, <1>4 DEF Columns
<1>7. ASSUME NEW n, NEW f
      PROVE  TypesOf(n, f)' = TypesOf(n, f) /\ Giver(n, f)' = Giver(n, f)
  <2>1. TypesOf(n, f)' = TypesOf(n, f)
    BY <1>5, Zenon DEF TypesOf
  <2>2. Giver(n, f)' = Giver(n, f)
    BY <1>5, Zenon DEF Giver
  <2>3. QED
    BY <2>1, <2>2, Zenon
<1>8. \A n : EntityIsSound(n)' = EntityIsSound(n)
  BY <1>3, <1>5, <1>6, <1>7 DEF EntityIsSound
<1>9. \A n : TableOf(n)' = TableOf(n)
  BY DEF TableOf
<1>10. Acyclic' = Acyclic
  BY DEF Acyclic
<1>11. QED
  BY <1>1, <1>2, <1>3, <1>6, <1>8, <1>9, <1>10 DEF BuildIsSound

LEMMA CompilerStarts == CompilerInit => CompilerInv
<1> SUFFICES ASSUME CompilerInit PROVE CompilerInv
  OBVIOUS
<1>1. source \in Builds /\ GraphStart /\ phase = "load" /\ ir = <<>> /\ GraphOfSource
  BY DEF CompilerInit, GraphOfSource
<1>2. GraphInv
  BY <1>1, GraphStarts
<1>3. PartlyTranslated
  BY <1>1 DEF PartlyTranslated
<1>4. QED
  BY <1>1, <1>2, <1>3
     DEF CompilerInv, Phases, Early, StageIsPassed, RepresentationIsSound, VerdictIsSound

\* What no step changes, and what a step that leaves the graph alone keeps.
LEMMA BuildStays ==
  ASSUME CompilerNext
  PROVE  UNCHANGED <<source, misfiled, requires, declared>>
<1>1. GraphNext => UNCHANGED <<requires, declared>>
  BY DEF GraphNext, Root, CloseCycle, SkipVisited, Enter, Follow, Leave, Judge, Take, EndOrder
<1>2. UNCHANGED graphVars => UNCHANGED <<requires, declared>>
  BY DEF graphVars
<1>3. QED
  BY <1>1, <1>2 DEF CompilerNext, Load, Validate, Arrange, Arranged, CompileNode, Compiled,
                    RunPasses, Pass, Judgement, Goto

LEMMA GraphIsKept ==
  ASSUME CompilerInv, UNCHANGED graphVars, UNCHANGED <<source, misfiled>>
  PROVE  GraphInv' /\ GraphOfSource' /\ source' \in Builds /\ stage' = stage
<1>1. UNCHANGED <<requires, declared, stage>>
  BY DEF graphVars
<1>2. QED
  BY <1>1, GraphStutters, SourceStays DEF CompilerInv

LEMMA PartlyTranslatedStays ==
  ASSUME PartlyTranslated, UNCHANGED <<source, ir>>
  PROVE  PartlyTranslated'
BY DEF PartlyTranslated

LEMMA LoadStep ==
  ASSUME CompilerInv, Load
  PROVE  CompilerInv'
<1>1. /\ phase = "load" /\ phase' = (IF misfiled = {} THEN "validate" ELSE "refused")
      /\ UNCHANGED <<source, misfiled, graphVars, ir>>
  BY DEF Load, Goto
<1>2. GraphInv' /\ GraphOfSource' /\ source' \in Builds
  BY <1>1, GraphIsKept
<1>3. UNCHANGED <<requires, declared>>
  BY <1>1 DEF graphVars
<1>4. PartlyTranslated'
  BY <1>1, PartlyTranslatedStays DEF CompilerInv, RepresentationIsSound, Early
<1>5. misfiled # {} => ~BuildIsSound'
  BY <1>1, <1>3, BuildIsSoundBy, SourceStays
<1>6. QED
  BY <1>1, <1>2, <1>4, <1>5
     DEF CompilerInv, Phases, Early, StageIsPassed, RepresentationIsSound, VerdictIsSound

LEMMA ValidateStep ==
  ASSUME CompilerInv, Validate
  PROVE  CompilerInv'
<1> DEFINE shaped == \A n \in Contract : source[n].shaped
<1>1. /\ phase = "validate" /\ phase' = (IF shaped THEN "graph" ELSE "refused")
      /\ UNCHANGED <<source, misfiled, graphVars, ir>>
  BY DEF Validate, Goto
<1>2. GraphInv' /\ GraphOfSource' /\ source' \in Builds
  BY <1>1, GraphIsKept
<1>3. UNCHANGED <<requires, declared>>
  BY <1>1 DEF graphVars
<1>4. PartlyTranslated'
  BY <1>1, PartlyTranslatedStays DEF CompilerInv, RepresentationIsSound, Early
<1>5. ~shaped => ~BuildIsSound'
  BY <1>1, <1>3, BuildIsSoundBy, SourceStays
<1>6. misfiled' = {} /\ (shaped => \A n \in Contract : source'[n].shaped)
  BY <1>1 DEF CompilerInv, StageIsPassed
<1>7. QED
  BY <1>1, <1>2, <1>4, <1>5, <1>6
     DEF CompilerInv, Phases, Early, StageIsPassed, RepresentationIsSound, VerdictIsSound

LEMMA ArrangeStep ==
  ASSUME CompilerInv, Arrange
  PROVE  CompilerInv'
<1>1. phase = "graph" /\ GraphNext /\ UNCHANGED <<source, misfiled, phase, ir>>
  BY DEF Arrange
<1>2. GraphInv'
  BY <1>1, GraphStep DEF CompilerInv
<1>3. UNCHANGED <<source, misfiled, requires, declared>>
  BY <1>1, BuildStays DEF CompilerNext
<1>4. GraphOfSource'
  BY <1>3, SourceStays DEF CompilerInv
<1>5. PartlyTranslated'
  BY <1>1, PartlyTranslatedStays DEF CompilerInv, RepresentationIsSound, Early
<1>6. misfiled' = {} /\ \A n \in Contract : source'[n].shaped
  BY <1>1 DEF CompilerInv, StageIsPassed
<1>7. QED
  BY <1>1, <1>2, <1>4, <1>5, <1>6
     DEF CompilerInv, Phases, Early, StageIsPassed, RepresentationIsSound, VerdictIsSound

LEMMA ArrangedStep ==
  ASSUME CompilerInv, Arranged
  PROVE  CompilerInv'
<1>1. /\ phase = "graph" /\ stage \in {"ordered", "refused"}
      /\ phase' = (IF stage = "ordered" THEN "compile" ELSE "refused")
      /\ UNCHANGED <<source, misfiled, graphVars, ir>>
  BY DEF Arranged, Goto
<1>2. GraphInv' /\ GraphOfSource' /\ source' \in Builds /\ stage' = stage
  BY <1>1, GraphIsKept
<1>3. UNCHANGED <<requires, declared>>
  BY <1>1 DEF graphVars
<1>4. PartlyTranslated'
  BY <1>1, PartlyTranslatedStays DEF CompilerInv, RepresentationIsSound, Early
<1>5. stage = "refused" => ~BuildIsSound'
  BY <1>1, <1>3, BuildIsSoundBy, RefusedIsNotSound, SourceStays DEF CompilerInv
<1>6. misfiled' = {} /\ \A n \in Contract : source'[n].shaped
  BY <1>1 DEF CompilerInv, StageIsPassed
<1>7. QED
  BY <1>1, <1>2, <1>4, <1>5, <1>6
     DEF CompilerInv, Phases, Early, StageIsPassed, RepresentationIsSound, VerdictIsSound

LEMMA CompileNodeStep ==
  ASSUME CompilerInv, CompileNode
  PROVE  CompilerInv'
<1> DEFINE n == order[Cardinality(DOMAIN ir) + 1]
           g == [m \in {n} |-> Translated(source[n])]
<1>1. /\ phase = "compile" /\ Cardinality(DOMAIN ir) < Len(order)
      /\ ir' = Extended(ir, g)
      /\ UNCHANGED <<graphVars, source, misfiled, phase>>
  BY DEF CompileNode
<1>2. GraphInv' /\ GraphOfSource' /\ source' \in Builds /\ stage' = stage
  BY <1>1, GraphIsKept
<1>3. PartlyTranslated
  BY <1>1 DEF CompilerInv, RepresentationIsSound, Early
<1>4. n \in Contract
  <2>1. DOMAIN ir \in SUBSET Contract
    BY <1>3 DEF PartlyTranslated
  <2>2. Cardinality(DOMAIN ir) \in Nat
    BY <2>1, GraphAssumption, FS_Subset, FS_CardinalityType
  <2>3. order \in Seq(Contract)
    BY DEF CompilerInv, GraphInv, OrderIsSound
  <2>4. QED
    BY <1>1, <2>2, <2>3
<1>5. /\ DOMAIN ir' = DOMAIN ir \cup {n} /\ ir' = [a \in DOMAIN ir' |-> ir'[a]]
      /\ \A a \in DOMAIN ir : ir'[a] = ir[a]
      /\ n \notin DOMAIN ir => ir'[n] = Translated(source[n])
  <2>1. DOMAIN g = {n} /\ g[n] = Translated(source[n])
    OBVIOUS
  <2> HIDE DEF g
  <2>2. ir' = [a \in DOMAIN ir \cup DOMAIN g |-> IF a \in DOMAIN ir THEN ir[a] ELSE g[a]]
    BY <1>1 DEF Extended
  <2> HIDE DEF n
  <2>3. QED
    BY <2>1, <2>2
<1> HIDE DEF n, g
<1>6. PartlyTranslated'
  BY <1>1, <1>3, <1>4, <1>5 DEF PartlyTranslated
<1>7. misfiled' = {} /\ stage = "ordered" /\ \A m \in Contract : source'[m].shaped
  BY <1>1 DEF CompilerInv, StageIsPassed
<1>8. QED
  BY <1>1, <1>2, <1>6, <1>7
     DEF CompilerInv, Phases, Early, StageIsPassed, RepresentationIsSound, VerdictIsSound

LEMMA CompiledStep ==
  ASSUME CompilerInv, Compiled
  PROVE  CompilerInv'
<1>1. /\ phase = "compile" /\ Cardinality(DOMAIN ir) = Len(order)
      /\ phase' = (IF Illegible THEN "refused" ELSE "expand")
      /\ UNCHANGED <<source, misfiled, graphVars, ir>>
  BY DEF Compiled, Goto
<1>2. GraphInv' /\ GraphOfSource' /\ source' \in Builds /\ stage' = stage
  BY <1>1, GraphIsKept
<1>3. UNCHANGED <<requires, declared>>
  BY <1>1 DEF graphVars
<1>4. Illegible' = Illegible /\ (Illegible => ~BuildIsSound')
  BY <1>1, <1>3, BuildIsSoundBy, SourceStays
<1>5. misfiled' = {} /\ stage = "ordered" /\ \A n \in Contract : source'[n].shaped
  BY <1>1 DEF CompilerInv, StageIsPassed
<1>6. ASSUME ~Illegible PROVE ir = source
  <2>1. PartlyTranslated /\ source \in Builds
    BY <1>1 DEF CompilerInv, RepresentationIsSound, Early
  <2>2. Len(order) = Cardinality(Contract)
    BY <1>5 DEF CompilerInv, GraphInv
  <2>3. DOMAIN ir \in SUBSET Contract
    BY <2>1 DEF PartlyTranslated
  <2>4. DOMAIN ir = Contract
    BY <1>1, <2>2, <2>3, GraphAssumption, FS_Subset
  <2>5. \A n \in Contract : ir[n] = source[n]
    BY <1>6, <2>1, <2>4, TranslatedAsWritten DEF PartlyTranslated
  <2>6. ir = [n \in Contract |-> ir[n]] /\ source = [n \in Contract |-> source[n]]
    BY <2>1, <2>4, SourceIsBuild DEF PartlyTranslated
  <2>7. QED
    BY <2>5, <2>6
<1>7. CASE Illegible
  BY <1>1, <1>2, <1>4, <1>7
     DEF CompilerInv, Phases, Early, StageIsPassed, RepresentationIsSound, VerdictIsSound
<1>8. CASE ~Illegible
  BY <1>1, <1>2, <1>4, <1>5, <1>6, <1>8
     DEF CompilerInv, Phases, Early, StageIsPassed, RepresentationIsSound, VerdictIsSound
<1>9. QED
  BY <1>7, <1>8

LEMMA PassStep ==
  ASSUME CompilerInv, RunPasses
  PROVE  CompilerInv'
<1>1. /\ UNCHANGED <<source, misfiled, graphVars>>
      /\ phase \in {"expand", "tables", "bind", "paths"}
      /\ phase' \in {"tables", "bind", "paths", "check"}
  BY DEF RunPasses, Pass, Goto
<1>2. /\ phase' = "tables" => ir' = ExpandMixins(ir) /\ phase = "expand"
      /\ phase' = "bind"   => ir' = InferTables(ir)  /\ phase = "tables"
      /\ phase' = "paths"  => ir' = BindMachines(ir) /\ phase = "bind"
      /\ phase' = "check"  => ir' = InferPaths(ir)   /\ phase = "paths"
  BY DEF RunPasses, Pass, Goto
<1>3. GraphInv' /\ GraphOfSource' /\ source' \in Builds /\ stage' = stage
  BY <1>1, GraphIsKept
<1>4. UNCHANGED <<requires, declared>>
  BY <1>1 DEF graphVars
<1>5. /\ Illegible' = Illegible
      /\ Mixed' = Mixed /\ Tabled' = Tabled /\ Bounded' = Bounded /\ Pathed' = Pathed
  BY <1>1, <1>4, SourceStays
<1>6. /\ phase' = "tables" => ir' = Mixed'
      /\ phase' = "bind"   => ir' = Tabled'
      /\ phase' = "paths"  => ir' = Bounded'
      /\ phase' = "check"  => ir' = Pathed'
  BY <1>2, <1>5 DEF CompilerInv, RepresentationIsSound, Mixed, Tabled, Bounded, Pathed
<1>7. misfiled' = {} /\ stage = "ordered" /\ ~Illegible /\ \A n \in Contract : source'[n].shaped
  BY <1>1 DEF CompilerInv, StageIsPassed, Early
<1>8. QED
  BY <1>1, <1>3, <1>5, <1>6, <1>7
     DEF CompilerInv, Phases, Early, StageIsPassed, RepresentationIsSound, VerdictIsSound

(***************************************************************************)
(* The last check decides what is left to decide.                          *)
(***************************************************************************)
LEMMA JudgementStep ==
  ASSUME CompilerInv, Judgement
  PROVE  CompilerInv'
<1>1. /\ phase = "check" /\ phase' = (IF Coherent(ir) THEN "accepted" ELSE "refused")
      /\ UNCHANGED <<source, misfiled, graphVars, ir>>
  BY DEF Judgement, Goto
<1>2. GraphInv' /\ GraphOfSource' /\ source' \in Builds /\ stage' = stage
  BY <1>1, GraphIsKept
<1>3. UNCHANGED <<requires, declared>>
  BY <1>1 DEF graphVars
<1>4. /\ Illegible' = Illegible /\ BuildIsSound' = BuildIsSound
      /\ Mixed' = Mixed /\ Tabled' = Tabled /\ Bounded' = Bounded /\ Pathed' = Pathed
  BY <1>1, <1>3, SourceStays
<1>5. misfiled = {} /\ stage = "ordered" /\ ~Illegible /\ \A n \in Contract : source[n].shaped
  BY <1>1 DEF CompilerInv, StageIsPassed, Early
<1>6. GraphIsSound
  BY <1>5, OrderedIsSound DEF CompilerInv
<1>7. Coherent(ir) <=> BuildIsSound
  <2>1. ir = Pathed /\ source \in Builds
    BY <1>1 DEF CompilerInv, RepresentationIsSound
  <2>2. QED
    BY <1>5, <1>6, <2>1, RulesAgree, BuildIsSoundBy
<1>8. RepresentationIsSound'
  BY <1>1, <1>4 DEF CompilerInv, RepresentationIsSound, Early
<1>9. StageIsPassed'
  BY <1>1, <1>2, <1>4, <1>5 DEF StageIsPassed, Early
<1>10. VerdictIsSound'
  BY <1>1, <1>4, <1>7 DEF VerdictIsSound
<1>11. QED
  BY <1>1, <1>2, <1>8, <1>9, <1>10 DEF CompilerInv, Phases

LEMMA CompilerStutters ==
  ASSUME CompilerInv, UNCHANGED compilerVars
  PROVE  CompilerInv'
<1>1. UNCHANGED <<graphVars, source, misfiled, phase, ir>>
  BY DEF compilerVars
<1>2. GraphInv' /\ GraphOfSource' /\ source' \in Builds /\ stage' = stage
  BY <1>1, GraphIsKept
<1>3. UNCHANGED <<requires, declared>>
  BY <1>1 DEF graphVars
<1>4. /\ Illegible' = Illegible /\ BuildIsSound' = BuildIsSound
      /\ Mixed' = Mixed /\ Tabled' = Tabled /\ Bounded' = Bounded /\ Pathed' = Pathed
  BY <1>1, <1>3, SourceStays
<1>5. PartlyTranslated => PartlyTranslated'
  BY <1>1, PartlyTranslatedStays
<1>6. RepresentationIsSound'
  BY <1>1, <1>4, <1>5 DEF CompilerInv, RepresentationIsSound
<1>7. StageIsPassed'
  BY <1>1, <1>2, <1>4 DEF CompilerInv, StageIsPassed
<1>8. VerdictIsSound'
  BY <1>1, <1>4 DEF CompilerInv, VerdictIsSound
<1>9. QED
  BY <1>1, <1>2, <1>6, <1>7, <1>8 DEF CompilerInv

(***************************************************************************)
(* Up to the last check the compiler holds what its passes make of the     *)
(* source, in whatever order the graph translated it.                      *)
(***************************************************************************)
THEOREM CompilerHolds == CompilerSpec => []CompilerInv
<1>1. CompilerInit => CompilerInv
  BY CompilerStarts
<1>2. CompilerInv /\ [CompilerNext]_compilerVars => CompilerInv'
  BY LoadStep, ValidateStep, ArrangeStep, ArrangedStep, CompileNodeStep, CompiledStep, PassStep,
     JudgementStep, CompilerStutters DEF CompilerNext
<1>3. QED
  BY <1>1, <1>2, PTL DEF CompilerSpec

(***************************************************************************)
(* The graph keeps its promises as a stage of the compiler: contracts are  *)
(* translated after what they require, and all of them are.                *)
(***************************************************************************)
THEOREM CompilerKeepsOrder == CompilerSpec => [](DependenciesFirst /\ OrderIsComplete)
<1>1. CompilerInv => DependenciesFirst /\ OrderIsComplete
  BY GraphIsOrdered DEF CompilerInv, GraphInv, OrderIsSound
<1>2. QED
  BY <1>1, CompilerHolds, PTL

(***************************************************************************)
(* A build is accepted exactly when it is sound by what its authors wrote. *)
(***************************************************************************)
THEOREM BuildsAreJudgedRightly == CompilerSpec => []JudgedRightly
<1>1. CompilerInv => JudgedRightly
  BY DEF CompilerInv, VerdictIsSound, JudgedRightly
<1>2. QED
  BY <1>1, CompilerHolds, PTL

LEMMA TypeIsKept ==
  ASSUME NEW n, EntityAt(n), EntityIsSound(n), NEW f \in Columns(n)
  PROVE  TypesOf(n, f) \subseteq {Pathed[n].fields[f].type}
<1>1. AllWritten(n, Pathed[n].fields) /\ DOMAIN Pathed[n].fields = Columns(n)
  BY PathedEntity
<1>2. \A s, t \in TypesOf(n, f) : s = t
  BY TypesAreFinite, AtMostOne DEF EntityIsSound
<1>3. CASE GivenBy(n, f) = {}
  BY <1>3 DEF TypesOf
<1>4. CASE GivenBy(n, f) # {}
  <2>1. f \in GivenNames(n)
    BY <1>4 DEF GivenNames, GivenBy
  <2>2. Giver(n, f) \in GivenBy(n, f)
    BY <2>1, FieldsAreMixed
  <2>3. Pathed[n].fields[f].type = source[Giver(n, f)].fields[f].type
    BY <1>1, <1>4 DEF AllWritten, WrittenAs
  <2>4. Pathed[n].fields[f].type \in TypesOf(n, f)
    BY <2>2, <2>3 DEF TypesOf
  <2>5. QED
    BY <1>2, <2>4
<1>5. QED
  BY <1>3, <1>4

(***************************************************************************)
(* What generators are given of an accepted build holds all that was       *)
(* written: each field with its one type, and the machine with its guards. *)
(***************************************************************************)
THEOREM AcceptedHoldsAll == CompilerSpec => []NothingIsLost
<1>1. ASSUME CompilerInv PROVE NothingIsLost
  <2> SUFFICES ASSUME phase = "accepted"
               PROVE  /\ DOMAIN ir = Contract
                      /\ \A n \in Named(ir, "Entity") :
                           /\ DOMAIN ir[n].fields = Columns(n)
                           /\ \A f \in DOMAIN ir[n].fields : TypesOf(n, f) \subseteq {ir[n].fields[f].type}
                           /\ source[n].machine # Nothing =>
                                /\ ir[n].fields["state"].enum = source[source[n].machine].states
                                /\ ir[n].bound.guards = source[source[n].machine].guards
    BY DEF NothingIsLost
  <2>1. ir = Pathed /\ source \in Builds /\ BuildIsSound
    BY <1>1 DEF CompilerInv, RepresentationIsSound, VerdictIsSound
  <2>2. DOMAIN Pathed = Contract /\ \A n \in Named(Pathed, "Entity") : EntityAt(n)
    BY <2>1, PathedIsOfContracts DEF EntityAt, Is
  <2>3. ASSUME NEW n \in Named(Pathed, "Entity")
        PROVE  /\ DOMAIN Pathed[n].fields = Columns(n)
               /\ \A f \in DOMAIN Pathed[n].fields : TypesOf(n, f) \subseteq {Pathed[n].fields[f].type}
               /\ source[n].machine # Nothing =>
                    /\ Pathed[n].fields["state"].enum = source[source[n].machine].states
                    /\ Pathed[n].bound.guards = source[source[n].machine].guards
    <3>1. EntityAt(n)
      BY <2>2
    <3>2. EntityIsSound(n)
      BY <2>1, <3>1 DEF BuildIsSound, EntityAt
    <3>3. DOMAIN Pathed[n].fields = Columns(n)
      BY <3>1, PathedEntity
    <3>4. \A f \in Columns(n) : TypesOf(n, f) \subseteq {Pathed[n].fields[f].type}
      BY <3>1, <3>2, TypeIsKept
    <3>5. source[n].machine # Nothing => Is(source[n].machine, "Workflow")
      BY <3>2 DEF EntityIsSound
    <3>6. QED
      BY <3>1, <3>3, <3>4, <3>5, PathedEntity
  <2>4. QED
    BY <2>1, <2>2, <2>3
<1>2. CompilerInv => NothingIsLost
  BY <1>1
<1>3. QED
  BY <1>2, CompilerHolds, PTL

===============================================================================
