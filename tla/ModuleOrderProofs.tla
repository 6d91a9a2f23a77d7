------------------------- MODULE ModuleOrderProofs -------------------------
(***************************************************************************)
(* The walk over the imports puts a module after what it imports, and puts *)
(* none twice, for any modules and any imports.  The invariant that carries*)
(* it says where the dependencies of an unfinished call are: visited, still*)
(* to be visited, or the call above it.  What the walk reports rests on    *)
(* where it is: each module it has met is reached from the entry and from  *)
(* every call below, and what is done is closed under imports.             *)
(***************************************************************************)
EXTENDS ModuleOrder, SequenceTheorems, TLAPS

FrameType == [name : Name, rest : Seq(Name)]
Waiting(pr, vis, c, fs, i, d) ==
  \/ d = Prelude /\ d \notin pr
  \/ d \in vis
  \/ \E j \in 1 .. Len(fs[i].rest) : fs[i].rest[j] = d
  \/ i < Len(fs) /\ fs[i + 1].name = d
  \/ i = Len(fs) /\ c = d
FramesKnow ==
  \A i \in 1 .. Len(frames) : \A k \in 1 .. Len(deps[frames[i].name]) :
    Waiting(present, visited, calling, frames, i, deps[frames[i].name][k])
VisitedIsOrder ==
  /\ \A i \in 1 .. Len(order) : order[i] \in visited
  /\ \A n \in visited : \E i \in 1 .. Len(order) : order[i] = n
FramesDistinct ==
  /\ \A i, j \in 1 .. Len(frames) : frames[i].name = frames[j].name => i = j
  /\ \A i \in 1 .. Len(frames) : frames[i].name \notin visited
WalkInv == WalkTypeOK /\ DepsComeFirst /\ OnceEach /\ FramesKnow /\ VisitedIsOrder /\ FramesDistinct

(* A list of dependencies is a sequence of names.                          *)
LEMMA DepsAreNames ==
  ASSUME WalkTypeOK, NEW n \in Name
  PROVE  /\ deps[n] \in Seq(Name) /\ Len(deps[n]) \in Nat
         /\ \A k \in 1 .. Len(deps[n]) : deps[n][k] \in Name
BY NameAssumption DEF WalkTypeOK

(* The frame on top, and the frames below it.                              *)
LEMMA PopFacts ==
  ASSUME NEW T, NEW s \in Seq(T), s # <<>>
  PROVE  /\ Len(s) \in Nat \ {0} /\ s[Len(s)] \in T
         /\ SubSeq(s, 1, Len(s) - 1) \in Seq(T)
         /\ Len(SubSeq(s, 1, Len(s) - 1)) = Len(s) - 1
         /\ \A i \in 1 .. Len(s) - 1 : SubSeq(s, 1, Len(s) - 1)[i] = s[i]
<1> DEFINE n == Len(s) - 1
           p == SubSeq(s, 1, n)
<1>1. Len(s) \in Nat \ {0} /\ \A i \in 1 .. Len(s) : s[i] \in T
  OBVIOUS
<1>2. n \in Int /\ n >= 0 /\ \A i \in 1 .. n : s[i] \in T
  BY <1>1
<1>3. /\ p \in Seq(T) /\ Len(p) = IF 1 <= n THEN n - 1 + 1 ELSE 0
      /\ \A i \in 1 .. n - 1 + 1 : p[i] = s[1 + i - 1]
  <2> HIDE DEF n
  <2> QED
    BY <1>2, SubSeqProperties
<1>4. p \in Seq(T) /\ Len(p) = n /\ \A i \in 1 .. n : p[i] = s[i]
  <2> HIDE DEF n, p
  <2>1. Len(p) = n /\ n - 1 + 1 = n
    BY <1>2, <1>3
  <2>2. \A i \in 1 .. n : p[i] = s[i]
    <3> TAKE i \in 1 .. n
    <3>1. 1 + i - 1 = i
      BY <1>2
    <3> QED
      BY <1>3, <2>1, <3>1
  <2> QED
    BY <1>3, <2>1, <2>2
<1> QED
  BY <1>1, <1>4

(* A frame that is replaced: the others stay.                              *)
LEMMA ReplaceFacts ==
  ASSUME NEW T, NEW s \in Seq(T), NEW n \in 1 .. Len(s), NEW x \in T, NEW r, r = [s EXCEPT ![n] = x]
  PROVE  /\ r \in Seq(T) /\ Len(r) = Len(s) /\ r[n] = x
         /\ \A i \in 1 .. Len(s) : i # n => r[i] = s[i]
BY ExceptSeq

(* The initial state.                                                      *)
LEMMA InitWalkInv == WalkInit => WalkInv
<1> SUFFICES ASSUME WalkInit PROVE WalkInv
  OBVIOUS
<1>1. Len(frames) = 0 /\ Len(order) = 0 /\ visited = {}
  BY DEF WalkInit, WalkStarts
<1>2. WalkTypeOK
  <2>1. frames \in Seq(FrameType) /\ order \in Seq(Name)
    BY DEF WalkInit, WalkStarts
  <2> QED
    BY <2>1 DEF WalkInit, WalkStarts, WalkTypeOK, Outcomes, FrameType
<1> QED
  BY <1>1, <1>2 DEF WalkInv, DepsComeFirst, OnceEach, FramesKnow, VisitedIsOrder, FramesDistinct

(* A step that returns from a module that is missing or visited.           *)
LEMMA SkipKeeps == ASSUME WalkInv, Skip PROVE WalkInv'
<1>1. PICK n \in Name : Entered(n) /\ (MayBeMissing(n) \/ n \in visited)
  BY DEF Skip
<1>2. calling = n
  BY <1>1 DEF Entered
<1>3. UNCHANGED <<graph, frames, visited, order, outcome>> /\ calling' = NoName
  BY DEF Skip
<1>4. WalkTypeOK'
  BY <1>3 DEF WalkInv, WalkTypeOK, graph
<1>5. DepsComeFirst' /\ OnceEach' /\ VisitedIsOrder' /\ FramesDistinct'
  BY <1>3 DEF WalkInv, DepsComeFirst, OnceEach, VisitedIsOrder, FramesDistinct, graph, Before, MayBeMissing
<1>6. FramesKnow'
  <2>1. present' = present /\ deps' = deps /\ frames' = frames /\ visited' = visited
    BY <1>3 DEF graph
  <2>2. \A d : d = calling => (d = Prelude /\ d \notin present) \/ d \in visited
    BY <1>1, <1>2 DEF MayBeMissing
  <2>3. ASSUME NEW i, NEW d, Waiting(present, visited, calling, frames, i, d)
        PROVE  Waiting(present, visited, calling', frames, i, d)
    BY <2>2, <2>3 DEF Waiting
  <2>4. FramesKnow
    BY DEF WalkInv
  <2> QED
    BY <2>1, <2>3, <2>4 DEF FramesKnow
<1> QED
  BY <1>4, <1>5, <1>6 DEF WalkInv

(* A step that only reports.                                               *)
LEMMA ReportKeeps ==
  ASSUME WalkInv, UNCHANGED <<graph, calling, frames, visited, order>>, outcome' \in Outcomes
  PROVE  WalkInv'
<1>1. WalkTypeOK'
  BY DEF WalkInv, WalkTypeOK, graph
<1>2. DepsComeFirst' /\ OnceEach' /\ VisitedIsOrder' /\ FramesDistinct'
  BY DEF WalkInv, DepsComeFirst, OnceEach, VisitedIsOrder, FramesDistinct, graph, Before, MayBeMissing
<1>3. FramesKnow'
  <2>1. present' = present /\ deps' = deps /\ calling' = calling /\ frames' = frames /\ visited' = visited
    BY DEF graph
  <2>2. FramesKnow
    BY DEF WalkInv
  <2> QED
    BY <2>1, <2>2 DEF FramesKnow
<1> QED
  BY <1>1, <1>2, <1>3 DEF WalkInv

(* A module is entered: its dependencies all wait in the new frame.        *)
LEMMA DescendKeeps == ASSUME WalkInv, Descend PROVE WalkInv'
<1>1. PICK n \in Name : /\ Entered(n) /\ n \in present /\ n \notin Visiting \cup visited
                        /\ frames' = Append(frames, Frame(n, deps[n]))
  BY DEF Descend
<1>2. calling = n /\ calling' = NoName /\ UNCHANGED <<graph, visited, order, outcome>>
  BY <1>1 DEF Descend, Entered
<1>3. deps[n] \in Seq(Name)
  BY DepsAreNames DEF WalkInv
<1>4. frames \in Seq(FrameType) /\ Frame(n, deps[n]) \in FrameType
  BY <1>3 DEF WalkInv, WalkTypeOK, FrameType, Frame
<1>5. /\ frames' \in Seq(FrameType) /\ Len(frames) \in Nat /\ Len(frames') = Len(frames) + 1
      /\ \A i \in 1 .. Len(frames) : frames'[i] = frames[i]
      /\ frames'[Len(frames) + 1] = Frame(n, deps[n])
  BY <1>1, <1>4
<1>6. frames'[Len(frames) + 1].name = n /\ frames'[Len(frames) + 1].rest = deps[n]
  BY <1>5 DEF Frame
<1>7. WalkTypeOK'
  BY <1>2, <1>5 DEF WalkInv, WalkTypeOK, graph, FrameType
<1>8. DepsComeFirst' /\ OnceEach' /\ VisitedIsOrder'
  BY <1>2 DEF WalkInv, DepsComeFirst, OnceEach, VisitedIsOrder, graph, Before, MayBeMissing
<1>9. FramesDistinct'
  <2>1. \A i \in 1 .. Len(frames) : frames[i].name # n
    BY <1>1 DEF Visiting
  <2>2. n \notin visited'
    BY <1>1, <1>2
  <2> QED
    BY <1>2, <1>5, <1>6, <2>1, <2>2 DEF WalkInv, FramesDistinct
<1>10. FramesKnow'
  <2> SUFFICES ASSUME NEW i \in 1 .. Len(frames'), NEW k \in 1 .. Len(deps'[frames'[i].name])
               PROVE  Waiting(present', visited', calling', frames', i, deps'[frames'[i].name][k])
    BY DEF FramesKnow
  <2>1. deps' = deps /\ visited' = visited /\ present' = present
    BY <1>2 DEF graph
  <2>2. CASE i = Len(frames) + 1
    BY <2>1, <2>2, <1>6 DEF Waiting
  <2>3. CASE i \in 1 .. Len(frames)
    <3>1. Waiting(present, visited, calling, frames, i, deps[frames[i].name][k])
      BY <2>1, <2>3, <1>5 DEF WalkInv, FramesKnow
    <3>2. frames'[i] = frames[i]
      BY <2>3, <1>5
    <3>3. CASE i < Len(frames)
      BY <2>1, <3>1, <3>2, <3>3, <1>5 DEF Waiting, MayBeMissing
    <3>4. CASE i = Len(frames)
      BY <2>1, <3>1, <3>2, <3>4, <1>2, <1>5, <1>6 DEF Waiting, MayBeMissing
    <3> QED
      BY <2>3, <3>3, <3>4, <1>5
  <2> QED
    BY <2>2, <2>3, <1>5
<1> QED
  BY <1>7, <1>8, <1>9, <1>10 DEF WalkInv

(* The next dependency of the call on top is entered.                      *)
LEMMA NextDepKeeps == ASSUME WalkInv, NextDep PROVE WalkInv'
<1> DEFINE L == Len(frames)
           rest == frames[L].rest
<1>1. frames \in Seq(FrameType) /\ frames # <<>> /\ rest # <<>> /\ calling = NoName
  BY DEF NextDep, WalkInv, WalkTypeOK, FrameType, Innermost
<1>2. L \in Nat \ {0} /\ frames[L] \in FrameType
  BY <1>1, PopFacts
<1>3. rest \in Seq(Name) /\ frames[L].name \in Name
  BY <1>2 DEF FrameType
<1>4. /\ Head(rest) \in Name /\ Tail(rest) \in Seq(Name) /\ Len(Tail(rest)) = Len(rest) - 1
      /\ Len(rest) \in Nat \ {0} /\ Head(rest) = rest[1]
      /\ \A j \in 1 .. Len(rest) - 1 : Tail(rest)[j] = rest[j + 1]
  BY <1>1, <1>3
<1>5. /\ calling' = Head(rest) /\ UNCHANGED <<graph, visited, order, outcome>>
      /\ frames' = [frames EXCEPT ![L] = Frame(frames[L].name, Tail(rest))]
  BY DEF NextDep, Innermost
<1>6. Frame(frames[L].name, Tail(rest)) \in FrameType
  BY <1>3, <1>4 DEF Frame, FrameType
<1>7. /\ frames' \in Seq(FrameType) /\ Len(frames') = L
      /\ \A i \in 1 .. L : frames'[i].name = frames[i].name
      /\ \A i \in 1 .. L : i # L => frames'[i] = frames[i]
      /\ frames'[L].rest = Tail(rest)
  <2> DEFINE top == Frame(frames[L].name, Tail(rest))
  <2>1. top.name = frames[L].name /\ top.rest = Tail(rest)
    BY DEF Frame
  <2> HIDE DEF L, top
  <2>2. L = Len(frames) /\ top \in FrameType /\ frames' = [frames EXCEPT ![L] = top]
    BY <1>5, <1>6 DEF L, top
  <2>3. L \in 1 .. Len(frames)
    BY <1>2, <2>2
  <2>4. frames' \in Seq(FrameType)
    BY <1>1, <2>2, <2>3, ReplaceFacts
  <2>5. /\ Len(frames') = Len(frames) /\ frames'[L] = top
        /\ \A i \in 1 .. Len(frames) : i # L => frames'[i] = frames[i]
    BY <1>1, <2>2, <2>3, ReplaceFacts
  <2> QED
    BY <2>1, <2>2, <2>4, <2>5
<1>8. WalkTypeOK'
  BY <1>4, <1>5, <1>7, Zenon DEF WalkInv, WalkTypeOK, graph, FrameType
<1>9. DepsComeFirst' /\ OnceEach' /\ VisitedIsOrder'
  BY <1>5 DEF WalkInv, DepsComeFirst, OnceEach, VisitedIsOrder, graph, Before, MayBeMissing
<1>10. FramesDistinct'
  <2>1. \A i, j \in 1 .. L : frames[i].name = frames[j].name => i = j
    BY DEF WalkInv, FramesDistinct
  <2>2. \A i \in 1 .. L : frames[i].name \notin visited
    BY DEF WalkInv, FramesDistinct
  <2>3. visited' = visited
    BY <1>5
  <2> HIDE DEF L
  <2> QED
    BY <1>7, <2>1, <2>2, <2>3 DEF FramesDistinct
<1>11. FramesKnow'
  <2> SUFFICES ASSUME NEW i \in 1 .. Len(frames'), NEW k \in 1 .. Len(deps'[frames'[i].name])
               PROVE  Waiting(present', visited', calling', frames', i, deps'[frames'[i].name][k])
    BY DEF FramesKnow
  <2>1. deps' = deps /\ visited' = visited /\ present' = present
    BY <1>5 DEF graph
  <2> DEFINE d == deps[frames[i].name][k]
  <2>2. i \in 1 .. L /\ frames'[i].name = frames[i].name /\ frames[i].name \in Name
    <3>1. i \in 1 .. L /\ frames'[i].name = frames[i].name
      <4> HIDE DEF rest
      <4> QED
        BY <1>7
    <3>2. frames[i] \in FrameType
      BY <1>1, <3>1
    <3> QED
      BY <3>1, <3>2 DEF FrameType
  <2>3. d \in Name
    BY <2>1, <2>2, DepsAreNames DEF WalkInv
  <2>4. Waiting(present, visited, calling, frames, i, d)
    BY <2>1, <2>2 DEF WalkInv, FramesKnow
  <2>5. calling # d
    BY <1>1, <2>3, NameAssumption
  <2>6. CASE i # L
    BY <2>1, <2>2, <2>4, <2>5, <2>6, <1>2, <1>7 DEF Waiting, MayBeMissing
  <2>7. CASE i = L
    <3>1. MayBeMissing(d) \/ d \in visited \/ \E j \in 1 .. Len(rest) : rest[j] = d
      BY <2>4, <2>5, <2>7, <1>2 DEF Waiting, MayBeMissing
    <3>2. ASSUME NEW j \in 1 .. Len(rest), rest[j] = d
          PROVE  calling' = d \/ \E m \in 1 .. Len(Tail(rest)) : Tail(rest)[m] = d
      <4>1. CASE j = 1
        BY <3>2, <4>1, <1>4, <1>5
      <4>2. CASE j # 1
        <5>1. j - 1 \in 1 .. Len(Tail(rest)) /\ Tail(rest)[j - 1] = d
          BY <3>2, <4>2, <1>4
        <5> QED
          BY <5>1
      <4> QED
        BY <4>1, <4>2
    <3> HIDE DEF rest, d
    <3>3. frames'[i].rest = Tail(rest) /\ i = Len(frames') /\ deps[frames'[i].name][k] = d
      BY <2>2, <2>7, <1>7 DEF d
    <3> QED
      BY <2>1, <3>1, <3>2, <3>3 DEF Waiting, MayBeMissing
  <2> QED
    BY <2>6, <2>7
<1> QED
  BY <1>8, <1>9, <1>10, <1>11 DEF WalkInv

(* A module with all its dependencies visited is put in the order.         *)
LEMMA LeaveKeeps == ASSUME WalkInv, Leave PROVE WalkInv'
<1> DEFINE L == Len(frames)
           n == frames[L].name
           M == Len(order)
<1>1. frames \in Seq(FrameType) /\ frames # <<>> /\ frames[L].rest = <<>> /\ calling = NoName
  BY DEF Leave, WalkInv, WalkTypeOK, FrameType, Innermost
<1>2. L \in Nat \ {0} /\ frames[L] \in FrameType
  BY <1>1, PopFacts
<1>3. n \in Name /\ order \in Seq(Name) /\ M \in Nat
  BY <1>2 DEF FrameType, WalkInv, WalkTypeOK
<1>4. /\ visited' = visited \cup {n} /\ order' = Append(order, n)
      /\ frames' = SubSeq(frames, 1, L - 1) /\ UNCHANGED <<graph, calling, outcome>>
  BY DEF Leave, Innermost
<1>5. /\ frames' \in Seq(FrameType) /\ Len(frames') = L - 1
      /\ \A i \in 1 .. L - 1 : frames'[i] = frames[i]
  BY <1>1, <1>4, PopFacts
<1>6. /\ order' \in Seq(Name) /\ Len(order') = M + 1 /\ order'[M + 1] = n
      /\ \A i \in 1 .. M : order'[i] = order[i]
  BY <1>3, <1>4
<1>7. deps' = deps /\ present' = present
  BY <1>4 DEF graph
<1>8. n \notin visited
  BY <1>2 DEF WalkInv, FramesDistinct
<1>9. WalkTypeOK'
  BY <1>3, <1>4, <1>5, <1>6 DEF WalkInv, WalkTypeOK, graph, FrameType
<1>10. VisitedIsOrder'
  <2>1. \A i \in 1 .. Len(order') : order'[i] \in visited'
    BY <1>3, <1>4, <1>6 DEF WalkInv, VisitedIsOrder
  <2>2. ASSUME NEW m \in visited' PROVE \E i \in 1 .. Len(order') : order'[i] = m
    <3>1. CASE m = n
      <4>1. M + 1 \in 1 .. Len(order')
        BY <1>3, <1>6
      <4> QED
        BY <3>1, <4>1, <1>6
    <3>2. CASE m \in visited
      <4>1. PICK i \in 1 .. M : order[i] = m
        BY <3>2 DEF WalkInv, VisitedIsOrder
      <4>2. i \in 1 .. Len(order') /\ order'[i] = m
        BY <4>1, <1>3, <1>6
      <4> QED
        BY <4>2
    <3> QED
      BY <1>4, <2>2, <3>1, <3>2
  <2> QED
    BY <2>1, <2>2 DEF VisitedIsOrder
<1>11. OnceEach'
  <2>1. \A i \in 1 .. M : order[i] # n
    BY <1>8 DEF WalkInv, VisitedIsOrder
  <2>2. \A i, j \in 1 .. M : order[i] = order[j] => i = j
    BY DEF WalkInv, OnceEach
  <2> QED
    BY <1>3, <1>6, <2>1, <2>2 DEF OnceEach
<1>12. DepsComeFirst'
  <2> SUFFICES ASSUME NEW i \in 1 .. Len(order'), NEW k \in 1 .. Len(deps'[order'[i]])
               PROVE  \/ deps'[order'[i]][k] = Prelude /\ deps'[order'[i]][k] \notin present'
                      \/ \E j \in 1 .. i - 1 : order'[j] = deps'[order'[i]][k]
    BY DEF DepsComeFirst, MayBeMissing, Before
  <2>1. CASE i \in 1 .. M
    <3> DEFINE d == deps[order[i]][k]
    <3>1. order'[i] = order[i] /\ k \in 1 .. Len(deps[order[i]])
      BY <2>1, <1>6, <1>7
    <3>2. MayBeMissing(d) \/ \E j \in 1 .. i - 1 : order[j] = d
      BY <2>1, <3>1 DEF WalkInv, DepsComeFirst, Before
    <3>3. \A j \in 1 .. i - 1 : order'[j] = order[j]
      BY <2>1, <1>3, <1>6
    <3> HIDE DEF d
    <3>4. deps'[order'[i]][k] = d
      BY <3>1, <1>7 DEF d
    <3> QED
      BY <3>2, <3>3, <3>4, <1>7 DEF MayBeMissing, Before
  <2>2. CASE i = M + 1
    <3> DEFINE d == deps[n][k]
    <3>1. order'[i] = n /\ k \in 1 .. Len(deps[n])
      BY <2>2, <1>6, <1>7
    <3>2. d \in Name
      BY <3>1, <1>3, DepsAreNames DEF WalkInv
    <3>3. Waiting(present, visited, calling, frames, L, d)
      BY <3>1, <1>2 DEF WalkInv, FramesKnow
    <3>4. Len(frames[L].rest) = 0 /\ calling # d /\ ~ (L < Len(frames))
      BY <1>1, <1>2, <3>2, NameAssumption
    <3>5. MayBeMissing(d) \/ d \in visited
      BY <3>3, <3>4 DEF Waiting, MayBeMissing
    <3>6. ASSUME d \in visited PROVE \E j \in 1 .. i - 1 : order'[j] = d
      <4>1. PICK j \in 1 .. M : order[j] = d
        BY <3>6 DEF WalkInv, VisitedIsOrder
      <4>2. j \in 1 .. i - 1 /\ order'[j] = d
        BY <4>1, <2>2, <1>3, <1>6
      <4> QED
        BY <4>2
    <3> HIDE DEF d
    <3>7. deps'[order'[i]][k] = d
      BY <3>1, <1>7 DEF d
    <3> QED
      BY <3>5, <3>6, <3>7, <1>7 DEF MayBeMissing, Before
  <2> QED
    BY <2>1, <2>2, <1>3, <1>6
<1>13. FramesDistinct'
  <2>1. \A i \in 1 .. L - 1 : frames[i].name # n /\ frames[i].name \notin visited
    BY <1>2 DEF WalkInv, FramesDistinct
  <2>2. \A i, j \in 1 .. L - 1 : frames[i].name = frames[j].name => i = j
    BY <1>2 DEF WalkInv, FramesDistinct
  <2> QED
    BY <1>2, <1>4, <1>5, <2>1, <2>2 DEF FramesDistinct
<1>14. FramesKnow'
  <2> SUFFICES ASSUME NEW i \in 1 .. Len(frames'), NEW k \in 1 .. Len(deps'[frames'[i].name])
               PROVE  Waiting(present', visited', calling', frames', i, deps'[frames'[i].name][k])
    BY DEF FramesKnow
  <2> DEFINE d == deps[frames[i].name][k]
  <2>1. i \in 1 .. L - 1 /\ frames'[i] = frames[i] /\ i \in 1 .. Len(frames)
    BY <1>2, <1>5
  <2>2. Waiting(present, visited, calling, frames, i, d)
    BY <2>1, <1>7 DEF WalkInv, FramesKnow
  <2>3. CASE i < L - 1
    <3>1. frames'[i + 1] = frames[i + 1]
      BY <2>1, <2>3, <1>2, <1>5
    <3> QED
      BY <2>1, <2>2, <2>3, <3>1, <1>2, <1>4, <1>5, <1>7 DEF Waiting, MayBeMissing
  <2>4. CASE i = L - 1
    <3>1. MayBeMissing(d) \/ d \in visited' \/ \E j \in 1 .. Len(frames[i].rest) : frames[i].rest[j] = d
      BY <2>1, <2>2, <2>4, <1>2, <1>4 DEF Waiting, MayBeMissing
    <3> HIDE DEF d
    <3>2. deps'[frames'[i].name][k] = d
      BY <2>1, <1>7 DEF d
    <3> QED
      BY <2>1, <3>1, <3>2, <1>7 DEF Waiting, MayBeMissing
  <2> QED
    BY <2>1, <2>3, <2>4, <1>2
<1> QED
  BY <1>9, <1>10, <1>11, <1>12, <1>13, <1>14 DEF WalkInv

(* Every step keeps the invariant.                                         *)
LEMMA NextWalkInv == WalkInv /\ [WalkNext]_walkVars => WalkInv'
<1> SUFFICES ASSUME WalkInv, [WalkNext]_walkVars PROVE WalkInv'
  OBVIOUS
<1>1. CASE Skip
  BY <1>1, SkipKeeps
<1>2. CASE ReportCycle
  BY <1>2, ReportKeeps DEF ReportCycle, Outcomes
<1>3. CASE ReportUnknown
  BY <1>3, ReportKeeps DEF ReportUnknown, Outcomes
<1>4. CASE Descend
  BY <1>4, DescendKeeps
<1>5. CASE NextDep
  BY <1>5, NextDepKeeps
<1>6. CASE Leave
  BY <1>6, LeaveKeeps
<1>7. CASE Finish
  BY <1>7, ReportKeeps DEF Finish, Outcomes
<1>8. CASE UNCHANGED walkVars
  <2>1. UNCHANGED <<graph, calling, frames, visited, order>> /\ outcome' = outcome
    BY <1>8 DEF walkVars, graph
  <2> QED
    BY <2>1, ReportKeeps DEF WalkInv, WalkTypeOK
<1> QED
  BY <1>1, <1>2, <1>3, <1>4, <1>5, <1>6, <1>7, <1>8 DEF WalkNext

(* Every module that is compiled comes after the modules it imports, and   *)
(* none is compiled twice, whatever the modules and their imports are.     *)
THEOREM ModulesInOrder == WalkSpec => [](DepsComeFirst /\ OnceEach)
<1>1. WalkInv => DepsComeFirst /\ OnceEach
  BY DEF WalkInv
<1> QED
  BY <1>1, InitWalkInv, NextWalkInv, PTL DEF WalkSpec

-----------------------------------------------------------------------------
(* What the walk reports.                                                  *)

(* Where the walk is: every module it has met can be reached from the entry*)
(* and from every call that is not finished, and the entry is at the bottom*)
(* of the calls until it is visited.                                       *)
CallsReached ==
  /\ \A i \in 1 .. Len(frames) : frames[i].name \in present \cap Reached
  /\ visited \subseteq present \cap Reached
  /\ calling # NoName => calling \in Reached
CallsImport ==
  \A i \in 1 .. Len(frames) : \A j \in 1 .. Len(frames[i].rest) :
    frames[i].rest[j] \in Imports(frames[i].name)
CallsLead ==
  /\ \A i, k \in 1 .. Len(frames) : i < k => frames[k].name \in ReachedFrom(frames[i].name)
  /\ calling # NoName => \A i \in 1 .. Len(frames) : calling \in ReachedFrom(frames[i].name)
EntryFirst ==
  /\ frames # <<>> => frames[1].name = entry
  /\ frames = <<>> => \/ calling = entry
                      \/ calling = NoName /\ (MayBeMissing(entry) \/ entry \in visited)
ReachInv == CallsReached /\ CallsImport /\ CallsLead /\ EntryFirst /\ OutcomeIsRight

(* A module that is reached leads to what it imports.                      *)
LEMMA ImportsReached ==
  ASSUME WalkTypeOK, NEW n \in present, NEW d \in Imports(n)
  PROVE  /\ d \in Name
         /\ n \in Reached => d \in Reached
         /\ \A m : n \in ReachedFrom(m) => d \in ReachedFrom(m)
         /\ d \in ReachedFrom(n)
<1>1. n \in Name
  BY DEF WalkTypeOK
<1>2. d \in Name
  <2>1. deps[n] \in Seq(Name)
    BY <1>1, DepsAreNames
  <2>2. PICK i \in DOMAIN deps[n] : d = deps[n][i]
    BY DEF Imports
  <2> QED
    BY <2>1, <2>2
<1>3. \A S : n \in S /\ Closed(S) => d \in S
  BY DEF Closed
<1> QED
  BY <1>2, <1>3 DEF Reached, ReachedFrom

(* The initial state.                                                      *)
LEMMA InitReachInv == WalkInit => ReachInv
<1> SUFFICES ASSUME WalkInit PROVE ReachInv
  OBVIOUS
<1>1. /\ Len(frames) = 0 /\ frames = <<>> /\ visited = {} /\ calling = entry /\ entry \in Name
      /\ outcome = "running"
  BY DEF WalkInit, WalkStarts
<1>2. entry \in Reached
  BY <1>1 DEF Reached
<1> QED
  BY <1>1, <1>2 DEF ReachInv, CallsReached, CallsImport, CallsLead, EntryFirst, OutcomeIsRight

(* The graph does not change, nor what is reached in it.                   *)
LEMMA GraphStays ==
  ASSUME [WalkNext]_walkVars
  PROVE  /\ UNCHANGED <<present, deps, entry>>
         /\ Reached' = Reached
         /\ \A n : Imports(n)' = Imports(n)
         /\ \A n : ReachedFrom(n)' = ReachedFrom(n)
         /\ \A n : MayBeMissing(n)' = MayBeMissing(n)
         /\ Circular' = Circular /\ Unknowns' = Unknowns
<1>1. UNCHANGED <<present, deps, entry>>
  BY DEF WalkNext, walkVars, graph, Skip, ReportCycle, ReportUnknown, Descend, NextDep, Leave, Finish
<1>2. /\ \A n : Imports(n)' = Imports(n)
      /\ \A n : MayBeMissing(n)' = MayBeMissing(n)
  BY <1>1 DEF Imports, MayBeMissing
<1>3. \A S : Closed(S)' = Closed(S)
  BY <1>1 DEF Closed, Imports
<1>4. Reached' = Reached /\ \A n : ReachedFrom(n)' = ReachedFrom(n)
  BY <1>1 DEF Reached, ReachedFrom, Closed, Imports
<1>5. Circular' = Circular /\ Unknowns' = Unknowns
  BY <1>1 DEF Circular, Unknowns, Reached, ReachedFrom, Closed, Imports, MayBeMissing
<1> QED
  BY <1>1, <1>2, <1>4, <1>5

(* The order of a walk that has come to its end is right.                  *)
LEMMA SortedIsRight ==
  ASSUME WalkInv, ReachInv, frames = <<>>, calling = NoName
  PROVE  ~ Circular /\ Unknowns = {} /\ {order[i] : i \in DOMAIN order} = Reached \cap present
<1>1. /\ order \in Seq(Name) /\ DOMAIN order = 1 .. Len(order) /\ Len(order) \in Nat
      /\ \A i \in 1 .. Len(order) : order[i] \in Name
  BY DEF WalkInv, WalkTypeOK
<1>2. present \subseteq Name /\ visited \subseteq Name /\ entry \in Name /\ visited \subseteq present
  BY DEF WalkInv, WalkTypeOK, ReachInv, CallsReached
<1>3. \A i \in 1 .. Len(order) : DOMAIN deps[order[i]] = 1 .. Len(deps[order[i]])
  BY <1>1, DepsAreNames DEF WalkInv
<1> DEFINE Done(i) == {n \in Name : MayBeMissing(n) \/ Before(n, i)}
<1>4. ASSUME NEW i \in 1 .. Len(order) PROVE Imports(order[i]) \subseteq Done(i)
  <2> SUFFICES ASSUME NEW d \in Imports(order[i]) PROVE d \in Done(i)
    OBVIOUS
  <2>1. PICK k \in 1 .. Len(deps[order[i]]) : d = deps[order[i]][k]
    BY <1>3 DEF Imports
  <2>2. d \in Name
    BY <2>1, <1>1, DepsAreNames DEF WalkInv
  <2>3. MayBeMissing(d) \/ Before(d, i)
    BY <2>1 DEF WalkInv, DepsComeFirst
  <2> QED
    BY <2>2, <2>3
<1>5. ASSUME NEW i \in 1 .. Len(order) + 1 PROVE Closed(Done(i))
  <2> SUFFICES ASSUME NEW n \in Done(i) \cap present, NEW d \in Imports(n) PROVE d \in Done(i)
    BY DEF Closed
  <2>1. PICK j \in 1 .. i - 1 : order[j] = n
    BY DEF MayBeMissing, Before
  <2>2. j \in 1 .. Len(order)
    BY <1>1
  <2>3. d \in Name /\ (MayBeMissing(d) \/ Before(d, j))
    BY <1>4, <2>1, <2>2
  <2>4. Before(d, j) => Before(d, i)
    BY <1>1, <2>2 DEF Before
  <2> QED
    BY <2>3, <2>4
<1>6. \A n : n \in visited <=> Before(n, Len(order) + 1)
  <2>1. (Len(order) + 1) - 1 = Len(order)
    BY <1>1
  <2> QED
    BY <2>1 DEF WalkInv, VisitedIsOrder, Before
<1>7. Reached \subseteq Done(Len(order) + 1)
  <2>1. entry \in Done(Len(order) + 1)
    BY <1>2, <1>6, NameAssumption DEF ReachInv, EntryFirst
  <2>2. Closed(Done(Len(order) + 1))
    BY <1>1, <1>5
  <2>3. Done(Len(order) + 1) \in SUBSET Name
    OBVIOUS
  <2> HIDE DEF Done
  <2> QED
    BY <2>1, <2>2, <2>3 DEF Reached
<1>8. Reached \cap present = visited
  BY <1>6, <1>7 DEF ReachInv, CallsReached, MayBeMissing
<1>9. {order[i] : i \in DOMAIN order} = visited
  BY <1>1 DEF WalkInv, VisitedIsOrder
<1>10. Unknowns = {}
  BY <1>2, <1>6, <1>7 DEF Unknowns
<1>11. ASSUME NEW n \in visited, n \in ReachedFrom(n) PROVE FALSE
  <2>1. PICK i \in 1 .. Len(order) : order[i] = n
    BY DEF WalkInv, VisitedIsOrder
  <2>2. Imports(n) \subseteq Done(i) /\ Closed(Done(i)) /\ Done(i) \in SUBSET Name
    BY <1>1, <1>4, <1>5, <2>1
  <2>3. n \in Done(i)
    <3> HIDE DEF Done
    <3> QED
      BY <1>11, <2>2 DEF ReachedFrom
  <2>4. PICK j \in 1 .. i - 1 : order[j] = n
    BY <1>2, <2>3 DEF MayBeMissing, Before
  <2>5. j \in 1 .. Len(order) /\ j # i
    BY <1>1, <2>1, <2>4
  <2> QED
    BY <2>1, <2>4, <2>5 DEF WalkInv, OnceEach
<1> QED
  BY <1>8, <1>9, <1>10, <1>11 DEF Circular

(* What a step that ends the walk reports is so.                           *)
LEMMA OutcomeKeeps ==
  ASSUME WalkInv, ReachInv, [WalkNext]_walkVars
  PROVE  OutcomeIsRight'
<1>1. Reached' = Reached /\ Circular' = Circular /\ Unknowns' = Unknowns /\ present' = present
  BY GraphStays
<1>2. CASE ReportCycle
  <2>1. PICK n \in Name : Entered(n) /\ n \in Visiting
    BY <1>2 DEF ReportCycle
  <2>2. PICK i \in 1 .. Len(frames) : frames[i].name = n
    BY <2>1 DEF Visiting, WalkInv, WalkTypeOK
  <2>3. n \in ReachedFrom(n) /\ n \in Reached \cap present
    BY <2>1, <2>2 DEF Entered, ReachInv, CallsLead, CallsReached
  <2>4. Circular /\ outcome' = "cycle"
    BY <1>2, <2>3 DEF Circular, ReportCycle
  <2> QED
    BY <1>1, <2>4 DEF OutcomeIsRight
<1>3. CASE ReportUnknown
  <2>1. PICK n \in Name : Entered(n) /\ n \notin present /\ ~ MayBeMissing(n)
    BY <1>3 DEF ReportUnknown
  <2>2. n \in Unknowns /\ outcome' = "unknown"
    BY <1>3, <2>1 DEF Entered, ReachInv, CallsReached, Unknowns, ReportUnknown
  <2> QED
    BY <1>1, <2>2 DEF OutcomeIsRight
<1>4. CASE Finish
  <2>1. outcome' = "sorted" /\ order' = order /\ frames = <<>> /\ calling = NoName
    BY <1>4 DEF Finish
  <2>2. ~ Circular /\ Unknowns = {} /\ {order[i] : i \in DOMAIN order} = Reached \cap present
    BY <2>1, SortedIsRight
  <2> QED
    BY <1>1, <2>1, <2>2 DEF OutcomeIsRight
<1>5. CASE Skip \/ Descend \/ NextDep \/ Leave
  <2>1. outcome' = "running"
    BY <1>5 DEF Skip, Descend, NextDep, Leave, Entered
  <2> QED
    BY <2>1 DEF OutcomeIsRight
<1>6. CASE UNCHANGED walkVars
  <2>1. outcome' = outcome /\ order' = order
    BY <1>6 DEF walkVars
  <2> QED
    BY <1>1, <2>1 DEF OutcomeIsRight, ReachInv
<1> QED
  BY <1>2, <1>3, <1>4, <1>5, <1>6 DEF WalkNext

(* A module is entered: what led to the call leads to the new frame.       *)
LEMMA DescendReaches ==
  ASSUME WalkInv, ReachInv, Descend
  PROVE  CallsReached' /\ CallsImport' /\ CallsLead' /\ EntryFirst'
<1>1. PICK n \in Name : /\ Entered(n) /\ n \in present
                        /\ frames' = Append(frames, Frame(n, deps[n]))
  BY DEF Descend
<1>2. calling = n /\ calling' = NoName /\ visited' = visited /\ calling # NoName
  BY <1>1 DEF Descend, Entered
<1>3. deps[n] \in Seq(Name) /\ DOMAIN deps[n] = 1 .. Len(deps[n])
  BY DepsAreNames DEF WalkInv
<1>4. frames \in Seq(FrameType)
  BY DEF WalkInv, WalkTypeOK, FrameType
<1>5. /\ Len(frames) \in Nat /\ Len(frames') = Len(frames) + 1
      /\ \A i \in 1 .. Len(frames) : frames'[i] = frames[i]
      /\ frames'[Len(frames) + 1] = Frame(n, deps[n])
      /\ frames' # <<>>
  BY <1>1, <1>4
<1>6. frames'[Len(frames) + 1].name = n /\ frames'[Len(frames) + 1].rest = deps[n]
  BY <1>5 DEF Frame
<1>7. \A i \in 1 .. Len(frames') : i \in 1 .. Len(frames) \/ i = Len(frames) + 1
  BY <1>5
<1>8. /\ present' = present /\ Reached' = Reached /\ entry' = entry
      /\ \A m : Imports(m)' = Imports(m) /\ ReachedFrom(m)' = ReachedFrom(m)
  BY GraphStays DEF WalkNext
<1>9. CallsReached'
  BY <1>1, <1>2, <1>5, <1>6, <1>7, <1>8 DEF CallsReached, ReachInv
<1>10. CallsImport'
  <2> SUFFICES ASSUME NEW i \in 1 .. Len(frames'), NEW j \in 1 .. Len(frames'[i].rest)
               PROVE  frames'[i].rest[j] \in Imports(frames'[i].name)
    BY <1>8 DEF CallsImport
  <2>1. CASE i \in 1 .. Len(frames)
    BY <2>1, <1>5 DEF ReachInv, CallsImport
  <2>2. CASE i = Len(frames) + 1
    BY <2>2, <1>3, <1>6 DEF Imports
  <2> QED
    BY <1>7, <2>1, <2>2
<1>11. CallsLead'
  <2> SUFFICES ASSUME NEW i \in 1 .. Len(frames'), NEW k \in 1 .. Len(frames'), i < k
               PROVE  frames'[k].name \in ReachedFrom(frames'[i].name)
    BY <1>2, <1>8 DEF CallsLead
  <2>1. i \in 1 .. Len(frames) /\ frames'[i] = frames[i]
    BY <1>5
  <2>2. CASE k \in 1 .. Len(frames)
    BY <2>1, <2>2, <1>5 DEF ReachInv, CallsLead
  <2>3. CASE k = Len(frames) + 1
    BY <2>1, <2>3, <1>2, <1>6 DEF ReachInv, CallsLead
  <2> QED
    BY <1>7, <2>2, <2>3
<1>12. EntryFirst'
  <2>1. CASE frames = <<>>
    <3>1. Len(frames) = 0 /\ calling = entry
      BY <1>2, <2>1 DEF ReachInv, EntryFirst
    <3>2. frames'[1].name = entry
      BY <3>1, <1>2, <1>6
    <3> QED
      BY <3>2, <1>5, <1>8 DEF EntryFirst
  <2>2. CASE frames # <<>>
    <3>1. 1 \in 1 .. Len(frames) /\ frames[1].name = entry
      BY <2>2, <1>4, <1>5, PopFacts DEF ReachInv, EntryFirst
    <3> QED
      BY <3>1, <1>5, <1>8 DEF EntryFirst
  <2> QED
    BY <2>1, <2>2
<1> QED
  BY <1>9, <1>10, <1>11, <1>12

(* The next dependency is one that the call on top imports.                *)
LEMMA NextDepReaches ==
  ASSUME WalkInv, ReachInv, NextDep
  PROVE  CallsReached' /\ CallsImport' /\ CallsLead' /\ EntryFirst'
<1> DEFINE L == Len(frames)
           rest == frames[L].rest
<1>1. frames \in Seq(FrameType) /\ frames # <<>> /\ rest # <<>> /\ calling = NoName
  BY DEF NextDep, WalkInv, WalkTypeOK, FrameType, Innermost
<1>2. L \in Nat \ {0} /\ frames[L] \in FrameType
  BY <1>1, PopFacts
<1>3. rest \in Seq(Name) /\ frames[L].name \in Name
  BY <1>2 DEF FrameType
<1>4. /\ Tail(rest) \in Seq(Name) /\ Head(rest) = rest[1]
      /\ Len(Tail(rest)) = Len(rest) - 1 /\ Len(rest) \in Nat \ {0}
      /\ \A j \in 1 .. Len(rest) - 1 : Tail(rest)[j] = rest[j + 1]
  BY <1>1, <1>3
<1>5. /\ calling' = Head(rest) /\ visited' = visited
      /\ frames' = [frames EXCEPT ![L] = Frame(frames[L].name, Tail(rest))]
  BY DEF NextDep, Innermost
<1>6. /\ Len(frames') = L /\ frames' # <<>>
      /\ \A i \in 1 .. L : frames'[i].name = frames[i].name
      /\ \A i \in 1 .. L : i # L => frames'[i] = frames[i]
      /\ frames'[L].rest = Tail(rest)
  <2> DEFINE top == Frame(frames[L].name, Tail(rest))
  <2>1. top.name = frames[L].name /\ top.rest = Tail(rest) /\ top \in FrameType
    BY <1>3, <1>4 DEF Frame, FrameType
  <2> HIDE DEF L, top
  <2>2. L \in 1 .. Len(frames) /\ frames' = [frames EXCEPT ![L] = top]
    BY <1>2, <1>5 DEF L, top
  <2>3. /\ Len(frames') = Len(frames) /\ frames'[L] = top
        /\ \A i \in 1 .. Len(frames) : i # L => frames'[i] = frames[i]
    BY <1>1, <2>1, <2>2, ReplaceFacts
  <2>4. frames' # <<>>
    BY <2>2, <2>3
  <2> QED
    BY <2>1, <2>3, <2>4 DEF L
<1>7. /\ present' = present /\ Reached' = Reached /\ entry' = entry
      /\ \A m : Imports(m)' = Imports(m) /\ ReachedFrom(m)' = ReachedFrom(m)
  BY GraphStays DEF WalkNext
<1>8. \A j \in 1 .. Len(rest) : rest[j] \in Imports(frames[L].name)
  BY <1>2 DEF ReachInv, CallsImport
<1> HIDE DEF L, rest
<1>9. frames[L].name \in present \cap Reached /\ L \in 1 .. L
  <2>1. L \in 1 .. L
    BY <1>2
  <2> QED
    BY <2>1 DEF ReachInv, CallsReached, L
<1>10. Head(rest) \in Imports(frames[L].name)
  BY <1>4, <1>8
<1>11. /\ Head(rest) \in Reached /\ Head(rest) \in ReachedFrom(frames[L].name)
       /\ \A m : frames[L].name \in ReachedFrom(m) => Head(rest) \in ReachedFrom(m)
  <2> DEFINE top == frames[L].name
             d == Head(rest)
  <2>1. top \in present /\ top \in Reached /\ WalkTypeOK /\ d \in Imports(top)
    BY <1>9, <1>10 DEF WalkInv
  <2> HIDE DEF top, d
  <2>2. d \in Reached /\ d \in ReachedFrom(top)
    BY <2>1, ImportsReached
  <2>3. \A m : top \in ReachedFrom(m) => d \in ReachedFrom(m)
    BY <2>1, ImportsReached
  <2> QED
    BY <2>2, <2>3 DEF top, d
<1>12. CallsReached'
  BY <1>5, <1>6, <1>7, <1>11, Zenon DEF CallsReached, ReachInv, L
<1>13. CallsImport'
  <2> SUFFICES ASSUME NEW i \in 1 .. L, NEW j \in 1 .. Len(frames'[i].rest)
               PROVE  frames'[i].rest[j] \in Imports(frames[i].name)
    BY <1>6, <1>7 DEF CallsImport
  <2>1. CASE i # L
    BY <2>1, <1>6 DEF ReachInv, CallsImport, L
  <2>2. CASE i = L
    <3>1. j + 1 \in 1 .. Len(rest) /\ frames'[i].rest[j] = rest[j + 1]
      BY <2>2, <1>4, <1>6
    <3> QED
      BY <2>2, <3>1, <1>8
  <2> QED
    BY <2>1, <2>2
<1>14. CallsLead'
  <2>1. \A i, k \in 1 .. L : i < k => frames[k].name \in ReachedFrom(frames[i].name)
    BY DEF ReachInv, CallsLead, L
  <2>2. ASSUME NEW i \in 1 .. L PROVE Head(rest) \in ReachedFrom(frames[i].name)
    <3>1. CASE i = L
      BY <3>1, <1>11
    <3>2. CASE i # L
      <4>1. i < L
        BY <3>2, <1>2
      <4> QED
        BY <4>1, <1>9, <1>11, <2>1
    <3> QED
      BY <3>1, <3>2
  <2> QED
    BY <1>5, <1>6, <1>7, <2>1, <2>2 DEF CallsLead
<1>15. EntryFirst'
  <2>1. 1 \in 1 .. L /\ frames[1].name = entry
    BY <1>1, <1>2 DEF ReachInv, EntryFirst
  <2> QED
    BY <2>1, <1>6, <1>7 DEF EntryFirst
<1> QED
  BY <1>12, <1>13, <1>14, <1>15

(* The call on top ends: its module is visited.                            *)
LEMMA LeaveReaches ==
  ASSUME WalkInv, ReachInv, Leave
  PROVE  CallsReached' /\ CallsImport' /\ CallsLead' /\ EntryFirst'
<1> DEFINE L == Len(frames)
<1>1. frames \in Seq(FrameType) /\ frames # <<>> /\ calling = NoName
  BY DEF Leave, WalkInv, WalkTypeOK, FrameType
<1>2. L \in Nat \ {0}
  BY <1>1, PopFacts
<1>3. /\ visited' = visited \cup {frames[L].name} /\ calling' = calling
      /\ frames' = SubSeq(frames, 1, L - 1)
  BY DEF Leave, Innermost
<1>4. /\ frames' \in Seq(FrameType) /\ Len(frames') = L - 1
      /\ \A i \in 1 .. L - 1 : frames'[i] = frames[i]
  BY <1>1, <1>3, PopFacts
<1>5. /\ present' = present /\ Reached' = Reached /\ entry' = entry
      /\ \A m : Imports(m)' = Imports(m) /\ ReachedFrom(m)' = ReachedFrom(m)
  BY GraphStays DEF WalkNext
<1>6. \A i \in 1 .. L - 1 : i \in 1 .. L
  BY <1>2
<1>7. CallsReached'
  <2>1. L \in 1 .. L
    BY <1>2
  <2> QED
    BY <2>1, <1>1, <1>3, <1>4, <1>5, <1>6 DEF CallsReached, ReachInv
<1>8. CallsImport'
  BY <1>4, <1>5, <1>6 DEF CallsImport, ReachInv
<1>9. CallsLead'
  BY <1>1, <1>3, <1>4, <1>5, <1>6 DEF CallsLead, ReachInv
<1>10. EntryFirst'
  <2>1. frames[1].name = entry
    BY <1>1 DEF ReachInv, EntryFirst
  <2>2. CASE L = 1
    <3>1. frames' = <<>> /\ entry \in visited'
      BY <1>3, <1>4, <2>1, <2>2
    <3> QED
      BY <3>1, <1>1, <1>3, <1>5 DEF EntryFirst
  <2>3. CASE L # 1
    <3>1. 1 \in 1 .. L - 1 /\ frames' # <<>>
      BY <1>2, <1>4, <2>3
    <3> QED
      BY <3>1, <1>4, <1>5, <2>1 DEF EntryFirst
  <2> QED
    BY <2>2, <2>3
<1> QED
  BY <1>7, <1>8, <1>9, <1>10

(* Every step keeps what is known of the calls.                            *)
LEMMA NextReachInv == WalkInv /\ ReachInv /\ [WalkNext]_walkVars => ReachInv'
<1> SUFFICES ASSUME WalkInv, ReachInv, [WalkNext]_walkVars PROVE ReachInv'
  OBVIOUS
<1>1. /\ present' = present /\ Reached' = Reached /\ entry' = entry
      /\ \A m : Imports(m)' = Imports(m) /\ ReachedFrom(m)' = ReachedFrom(m)
      /\ \A m : MayBeMissing(m)' = MayBeMissing(m)
  BY GraphStays
<1>2. OutcomeIsRight'
  BY OutcomeKeeps
<1>3. CASE Skip
  <2>1. frames' = frames /\ visited' = visited /\ calling' = NoName
        /\ (MayBeMissing(calling) \/ calling \in visited) /\ calling # NoName
    BY <1>3 DEF Skip, Entered
  <2>2. EntryFirst'
    BY <1>1, <2>1 DEF EntryFirst, ReachInv
  <2> QED
    BY <1>1, <1>2, <2>1, <2>2 DEF ReachInv, CallsReached, CallsImport, CallsLead
<1>4. CASE ReportCycle \/ ReportUnknown \/ Finish \/ UNCHANGED walkVars
  <2>1. frames' = frames /\ visited' = visited /\ calling' = calling
    BY <1>4 DEF ReportCycle, ReportUnknown, Finish, walkVars
  <2> QED
    BY <1>1, <1>2, <2>1 DEF ReachInv, CallsReached, CallsImport, CallsLead, EntryFirst
<1>5. CASE Descend
  BY <1>2, <1>5, DescendReaches DEF ReachInv
<1>6. CASE NextDep
  BY <1>2, <1>6, NextDepReaches DEF ReachInv
<1>7. CASE Leave
  BY <1>2, <1>7, LeaveReaches DEF ReachInv
<1> QED
  BY <1>3, <1>4, <1>5, <1>6, <1>7 DEF WalkNext

(* sortModulesAndValidate reports a cycle only if there is one, an unknown *)
(* module only if one is needed, and otherwise returns the modules that    *)
(* the entry needs, which then import each other in no circle.             *)
THEOREM OutcomeRight == WalkSpec => []OutcomeIsRight
<1>1. WalkInit => WalkInv /\ ReachInv
  BY InitWalkInv, InitReachInv
<1>2. WalkInv /\ ReachInv /\ [WalkNext]_walkVars => (WalkInv /\ ReachInv)'
  BY NextWalkInv, NextReachInv
<1>3. WalkInv /\ ReachInv => OutcomeIsRight
  BY DEF ReachInv
<1> QED
  BY <1>1, <1>2, <1>3, PTL DEF WalkSpec

(* Whatever modules are given and whatever they import: the order has them *)
(* after what they import, each once, and the answer is the right one.     *)
THEOREM SortRight == WalkSpec => []SortIsRight
<1>1. DepsComeFirst /\ OnceEach /\ OutcomeIsRight => SortIsRight
  BY DEF SortIsRight
<1> QED
  BY <1>1, ModulesInOrder, OutcomeRight, PTL
=============================================================================
