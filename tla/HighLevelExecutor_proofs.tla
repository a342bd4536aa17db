---------------------- MODULE HighLevelExecutor_proofs ----------------------
(***************************************************************************)
(* Proofs about the high-level executor: its inductive invariant, what its *)
(* steps may do to a high-level state, who can be interrupted, that they   *)
(* are steps of the abstract search, and that with the sprout strategy S2E *)
(* always has a state to run.                                              *)
(***************************************************************************)
EXTENDS LowLevelSproutStrategy, FiniteSetTheorems, TLAPS

-----------------------------------------------------------------------------
(* Sequences.                                                              *)

\* Sequences with the same elements, such as two names of a segment, are equal.
LEMMA SameSequence ==
    ASSUME NEW S, NEW p \in Seq(S), NEW q \in Seq(S), Len(p) = Len(q),
           \A i \in 1..Len(p) : p[i] = q[i]
    PROVE  p = q
  OBVIOUS

\* The name of a child of a segment: one element more.
LEMMA Appended ==
    ASSUME NEW S, NEW q \in Seq(S), NEW e \in S
    PROVE  /\ Append(q, e) \in Seq(S) \ {<<>>} /\ Len(Append(q, e)) = Len(q) + 1
           /\ Append(q, e)[Len(q) + 1] = e /\ \A i \in 1..Len(q) : Append(q, e)[i] = q[i]
  OBVIOUS

\* Two children have the same name only if parent and element agree.
LEMMA AppendedApart ==
    ASSUME NEW S, NEW p \in Seq(S), NEW q \in Seq(S), NEW d \in S, NEW e \in S
    PROVE  Append(p, d) = Append(q, e) <=> p = q /\ d = e
<1> SUFFICES ASSUME Append(p, d) = Append(q, e) PROVE p = q /\ d = e  OBVIOUS
<1>1. Len(p) = Len(q) /\ \A i \in 1..Len(p) : p[i] = q[i]  BY Appended
<1> QED  BY <1>1, SameSequence, Appended

\* A part of a sequence, such as the name of a segment's ancestor.
LEMMA SubSequence ==
    ASSUME NEW S, NEW q, NEW m \in Int, NEW n \in Int, \A i \in m..n : q[i] \in S
    PROVE  /\ SubSeq(q, m, n) \in Seq(S) /\ Len(SubSeq(q, m, n)) = IF m <= n THEN n - m + 1 ELSE 0
           /\ \A i \in 1..n - m + 1 : SubSeq(q, m, n)[i] = q[m + i - 1]
  OBVIOUS

-----------------------------------------------------------------------------
(* The prefix order on segments.                                           *)

\* A sequence is at or below itself.
LEMMA BelowSelf == \A s \in Seq(Nat) : AtOrBelow(s, s)
  BY DEF AtOrBelow

\* Being below is transitive.
LEMMA BelowTrans ==
  ASSUME NEW s \in Seq(Nat), NEW t \in Seq(Nat), NEW u \in Seq(Nat),
         AtOrBelow(u, t), AtOrBelow(t, s)
  PROVE  AtOrBelow(u, s)
  BY DEF AtOrBelow

\* Two segments of the same length, one below the other, are the same.
LEMMA BelowEqual ==
  ASSUME NEW s \in Seq(Nat), NEW t \in Seq(Nat), AtOrBelow(t, s), Len(s) = Len(t)
  PROVE  t = s
  BY SameSequence DEF AtOrBelow

\* Two segments above the same one are comparable.
LEMMA BelowLinear ==
  ASSUME NEW s \in Seq(Nat), NEW t \in Seq(Nat), NEW u \in Seq(Nat),
         AtOrBelow(u, s), AtOrBelow(u, t)
  PROVE  AtOrBelow(s, t) \/ AtOrBelow(t, s)
  BY DEF AtOrBelow

\* A child is below its parent, and what is below a child is below the parent.
LEMMA BelowChild ==
  ASSUME NEW s \in Seq(Nat), NEW pc \in Nat
  PROVE  /\ Append(s, pc) \in Seq(Nat) /\ Len(Append(s, pc)) = Len(s) + 1
         /\ AtOrBelow(Append(s, pc), s)
         /\ \A t \in Seq(Nat) : AtOrBelow(t, Append(s, pc)) => AtOrBelow(t, s)
<1>1. /\ Append(s, pc) \in Seq(Nat) /\ Len(Append(s, pc)) = Len(s) + 1
      /\ \A i \in 1..Len(s) : Append(s, pc)[i] = s[i]
  BY Appended
<1>2. AtOrBelow(Append(s, pc), s)
  BY <1>1 DEF AtOrBelow
<1>3. \A t \in Seq(Nat) : AtOrBelow(t, Append(s, pc)) => AtOrBelow(t, s)
  BY Zenon, <1>1, <1>2, BelowTrans
<1> QED BY <1>1, <1>2, <1>3

\* What a child is below of is the child itself or above its parent.
LEMMA AboveChild ==
  ASSUME NEW s \in Seq(Nat), NEW pc \in Nat, NEW u \in Seq(Nat),
         AtOrBelow(Append(s, pc), u)
  PROVE  u = Append(s, pc) \/ AtOrBelow(s, u)
<1>1. CASE Len(u) <= Len(s)
  BY <1>1 DEF AtOrBelow
<1>2. CASE Len(u) = Len(s) + 1
  BY Zenon, <1>2, BelowChild, BelowEqual
<1> QED BY <1>1, <1>2, BelowChild DEF AtOrBelow

\* Different children of a segment are not comparable.
LEMMA SiblingsApart ==
  ASSUME NEW s \in Seq(Nat), NEW pc \in Nat, NEW pd \in Nat,
         AtOrBelow(Append(s, pc), Append(s, pd))
  PROVE  pc = pd
  BY DEF AtOrBelow

-----------------------------------------------------------------------------
(* The tree of segments.                                                   *)

\* Every non-empty prefix of a segment is a segment.
LEMMA PrefixIsSegment ==
  ASSUME TreeTypeOK, TreeInv, NEW t \in Segments, NEW s \in Seq(Nat), Len(s) > 0,
         AtOrBelow(t, s)
  PROVE  s \in Segments
<1>1. t \in Seq(Nat) /\ Len(s) \in 1..Len(t)
  BY DEF TreeTypeOK, AtOrBelow
<1>2. SubSeq(t, 1, Len(s)) \in Segments
  BY <1>1 DEF TreeInv
<1>3. /\ SubSeq(t, 1, Len(s)) \in Seq(Nat) /\ Len(SubSeq(t, 1, Len(s))) = Len(s)
      /\ \A i \in 1..Len(s) : SubSeq(t, 1, Len(s))[i] = t[i]
  BY <1>1, SubSequence
<1>4. SubSeq(t, 1, Len(s)) = s
  BY <1>3, SameSequence DEF AtOrBelow
<1> QED BY Zenon, <1>2, <1>4

\* A segment strictly below s is at or below one of the children of s.
LEMMA ChildTowards ==
  ASSUME TreeTypeOK, TreeInv, NEW s \in Segments, NEW t \in Segments,
         AtOrBelow(t, s), t # s
  PROVE  \E pc \in Children(s) : AtOrBelow(t, Append(s, pc))
<1> DEFINE pc == t[Len(s) + 1]
<1>1. s \in Seq(Nat) /\ t \in Seq(Nat) /\ Len(s) > 0 /\ Len(s) + 1 \in 2..Len(t)
  BY SMTT(40), BelowEqual DEF TreeTypeOK, AtOrBelow
<1>2. pc \in HLPC /\ pc \in Nat
  BY <1>1, HLPCAssumption DEF TreeInv
<1>3. AtOrBelow(t, Append(s, pc))
  BY <1>1, <1>2, Appended DEF AtOrBelow
<1> HIDE DEF pc
<1>4. Append(s, pc) \in Seq(Nat) /\ Len(Append(s, pc)) > 0
  BY <1>1, <1>2, BelowChild
<1>5. Append(s, pc) \in Segments
  BY Zenon, <1>3, <1>4, PrefixIsSegment
<1> QED BY <1>2, <1>3, <1>5 DEF Children

\* getNextSegment() keeps the shape of the tree and every existing path id.
LEMMA NextSegmentTree ==
  ASSUME TreeTypeOK, TreeInv, NEW s \in Segments, NEW pc \in HLPC,
         getNextSegment(s, pc)
  PROVE  /\ TreeTypeOK' /\ TreeInv'
         /\ Segments' = Segments \cup {Append(s, pc)}
         /\ \A t \in Segments : path'[t] = path[t]
<1> DEFINE c == Append(s, pc)
<1>1. /\ s \in Seq(Nat) /\ pc \in Nat /\ c \in Seq(Nat) /\ Len(s) > 0
      /\ Len(c) = Len(s) + 1 /\ c[Len(s) + 1] = pc
      /\ \A i \in 1..Len(s) : c[i] = s[i]
  BY HLPCAssumption, Appended DEF TreeTypeOK
<1>2. CASE pc \in Children(s)
  <2>1. path' = path /\ pathCount' = pathCount
    BY <1>2 DEF getNextSegment, NextPath
  <2>2. c \in Segments
    BY <1>2 DEF Children
  <2>3. TreeTypeOK' /\ TreeInv'
    BY Zenon, <2>1 DEF TreeTypeOK, TreeInv, Segments, Children, SamePath
  <2> QED BY Zenon, <2>1, <2>2, <2>3 DEF Segments
<1>3. CASE pc \notin Children(s)
  <2>1. c \notin Segments
    BY <1>3 DEF Children
  <2>2. /\ Segments' = Segments \cup {c}
        /\ \A t \in Segments : path'[t] = path[t]
        /\ path'[c] = IF Children(s) = {} THEN path[s] ELSE pathCount
    BY <1>3, <2>1 DEF getNextSegment, NextPath, Segments
  <2>3. pathCount' = IF Children(s) = {} THEN pathCount ELSE pathCount + 1
    BY <1>3 DEF getNextSegment
  <2>4. TreeTypeOK'
    <3>1. path' \in [Segments' -> 0..pathCount'-1]
      BY <1>3, <2>2, <2>3 DEF TreeTypeOK, getNextSegment, NextPath, Segments
    <3>2. pathCount' \in Nat
      BY <2>3 DEF TreeTypeOK
    <3>3. \A t \in Segments' : t \in Seq(Nat) /\ Len(t) > 0
      <4>1. c \in Seq(Nat) /\ Len(c) > 0
        BY <1>1
      <4> HIDE DEF c
      <4> QED BY <2>2, <4>1 DEF TreeTypeOK
    <3> QED BY <3>1, <3>2, <3>3 DEF TreeTypeOK
  <2>5. \A t \in Segments' : \A n \in 1..Len(t) : SubSeq(t, 1, n) \in Segments'
    <3> SUFFICES ASSUME NEW n \in 1..Len(c) PROVE SubSeq(c, 1, n) \in Segments'
      BY Zenon, <2>2 DEF TreeInv
    <3>1. /\ SubSeq(c, 1, n) \in Seq(Nat) /\ Len(SubSeq(c, 1, n)) = n
          /\ \A i \in 1..n : SubSeq(c, 1, n)[i] = c[i]
      BY <1>1, SubSequence
    <3>2. CASE n <= Len(s)
      <4>1. AtOrBelow(s, SubSeq(c, 1, n))
        BY <1>1, <3>1, <3>2 DEF AtOrBelow
      <4>2. Len(SubSeq(c, 1, n)) > 0
        BY <3>1
      <4> QED BY Zenon, <2>2, <3>1, <4>1, <4>2, PrefixIsSegment
    <3>3. CASE n = Len(c)
      BY <1>1, <2>2, <3>1, <3>3, SameSequence
    <3> QED BY <1>1, <3>2, <3>3
  <2>6. \A t \in Segments' : t[1] < pathCount' /\ \A i \in 2..Len(t) : t[i] \in HLPC
    <3>1. pathCount' >= pathCount /\ pathCount' \in Nat
      BY <2>3 DEF TreeTypeOK
    <3>2. c[1] < pathCount /\ \A i \in 2..Len(c) : c[i] \in HLPC
      BY <1>1 DEF TreeInv
    <3>3. \A t \in Segments : t[1] \in Nat
      BY DEF TreeTypeOK
    <3>4. c[1] \in Nat
      BY <1>1
    <3>5. \A t \in Segments : t[1] < pathCount'
      BY <3>1, <3>3 DEF TreeInv, TreeTypeOK
    <3>6. c[1] < pathCount'
      BY <3>1, <3>2, <3>4 DEF TreeTypeOK
    <3> QED BY <2>2, <3>2, <3>5, <3>6 DEF TreeInv
  <2>7. \A r, t \in Segments' : path'[r] = path'[t] => AtOrBelow(r, t) \/ AtOrBelow(t, r)
    <3>1. AtOrBelow(c, c)
      BY Zenon, <1>1, BelowSelf
    <3>2. ASSUME NEW t \in Segments, path'[t] = path'[c]
          PROVE  AtOrBelow(c, t)
      <4>1. Children(s) = {} /\ path[t] = path[s]
        BY <2>2, <3>2 DEF TreeTypeOK
      <4>2. t \in Seq(Nat)
        BY DEF TreeTypeOK
      <4>3. AtOrBelow(t, s) => t = s
        BY <4>1, ChildTowards
      <4>4. AtOrBelow(s, t)
        BY <1>1, <4>1, <4>3, BelowSelf DEF TreeInv
      <4> QED BY Zenon, <1>1, <4>2, <4>4, BelowChild, BelowTrans
    <3> QED BY Zenon, <2>2, <3>1, <3>2 DEF TreeInv
  <2>8. \A r \in Segments' : Children(r)' # {} => \E pd \in HLPC : SamePath(r)' = {pd}
    <3>1. ASSUME NEW r \in Seq(Nat), NEW pd \in HLPC, Append(r, pd) = c
          PROVE  r = s /\ pd = pc
      BY <1>1, <3>1, HLPCAssumption, AppendedApart
    <3>2. Children(c)' = {}
      <4> SUFFICES ASSUME NEW pd \in HLPC, Append(c, pd) \in Segments' PROVE FALSE
        BY DEF Children, Segments
      <4>0. c \in Seq(Nat) /\ pd \in Nat /\ Len(c) > 0
        BY <1>1, HLPCAssumption
      <4>1. AtOrBelow(Append(c, pd), c) /\ Append(c, pd) # c
        <5> HIDE DEF c
        <5> QED BY <4>0, BelowChild
      <4>2. Append(c, pd) \in Segments
        BY <2>2, <4>1
      <4> HIDE DEF c
      <4> QED BY <2>1, <4>0, <4>1, <4>2, PrefixIsSegment
    <3>3. ASSUME NEW r \in Segments, r # s
          PROVE  Children(r)' = Children(r) /\ SamePath(r)' = SamePath(r)
      BY Zenon, <2>2, <3>1, <3>3 DEF Children, SamePath, Segments, TreeTypeOK
    <3>4. Children(s)' = Children(s) \cup {pc}
      BY <1>1, <2>2, <3>1 DEF Children, Segments
    <3>5. \E pd \in HLPC : SamePath(s)' = {pd}
      <4>1. CASE Children(s) = {}
        BY <2>2, <3>4, <4>1 DEF SamePath
      <4>2. CASE Children(s) # {}
        <5>1. path'[c] # path'[s]
          BY <2>2, <4>2 DEF TreeTypeOK
        <5>2. SamePath(s)' = SamePath(s)
          BY <1>3, <2>2, <3>4, <5>1 DEF SamePath, Children
        <5> QED BY <4>2, <5>2 DEF TreeInv
      <4> QED BY <4>1, <4>2
    <3> QED BY Zenon, <2>2, <3>2, <3>3, <3>5 DEF TreeInv
  <2> QED BY Zenon, <2>2, <2>4, <2>5, <2>6, <2>7, <2>8 DEF TreeInv
<1> QED BY <1>2, <1>3

\* The segments that createState() adds, the first HLPC being pc if there is one.
NewSegments(created, pc) ==
    \/ created = {createRootSegment}
    \/ /\ pc \in HLPC
       /\ created = {createRootSegment, Append(createRootSegment, pc)}

\* createRootSegment(), and the first child when the event is an HLPC write,
\* keep the shape of the tree and every existing path id.
LEMMA NewRootTree ==
  ASSUME TreeTypeOK, TreeInv, NEW pc \in Nat, NEW created,
         NewSegments(created, pc), addRoot(created)
  PROVE  /\ TreeTypeOK' /\ TreeInv'
         /\ Segments' = Segments \cup created
         /\ \A t \in Segments : path'[t] = path[t]
         /\ \A t \in Segments : ~AtOrBelow(t, createRootSegment)
         /\ \A t \in Segments : ~AtOrBelow(createRootSegment, t)
<1> DEFINE r == createRootSegment
           c == Append(r, pc)
<1>1. /\ r \in Seq(Nat) /\ Len(r) = 1 /\ r[1] = pathCount
      /\ c \in Seq(Nat) /\ Len(c) = 2 /\ c[1] = pathCount /\ c[2] = pc
  BY DEF createRootSegment, TreeTypeOK
<1>2. created = {r} \/ (pc \in HLPC /\ created = {r, c})
  BY DEF NewSegments
<1> HIDE DEF r, c
<1>3. \A t \in created : t = r \/ t = c
  BY <1>2
<1>4. \A t \in Segments : t \in Seq(Nat) /\ Len(t) > 0 /\ t[1] \in Nat /\ t[1] < pathCount
  BY DEF TreeTypeOK, TreeInv
<1>5. r \notin Segments /\ c \notin Segments
  BY <1>1, <1>4 DEF TreeTypeOK
<1>6. Segments' = Segments \cup created /\ pathCount' = pathCount + 1
  BY DEF Segments, addRoot
<1>7. /\ \A t \in Segments : path'[t] = path[t]
      /\ \A t \in created : path'[t] = pathCount
  BY <1>3, <1>5 DEF addRoot
<1>8. \A t \in Segments : ~AtOrBelow(t, r) /\ ~AtOrBelow(r, t)
  BY <1>1, <1>4 DEF AtOrBelow, TreeTypeOK
<1>9. TreeTypeOK'
  <2>1. pathCount' \in Nat
    BY <1>6 DEF TreeTypeOK
  <2>2. path' \in [Segments' -> 0..pathCount'-1]
    BY <1>6 DEF TreeTypeOK, addRoot
  <2>3. \A t \in Segments' : t \in Seq(Nat) /\ Len(t) > 0
    <3>1. r \in Seq(Nat) /\ Len(r) > 0 /\ c \in Seq(Nat) /\ Len(c) > 0
      BY <1>1
    <3> QED BY Zenon, <1>3, <1>4, <1>6, <3>1
  <2> QED BY <2>1, <2>2, <2>3 DEF TreeTypeOK
<1>10. \A t \in Segments' : \A n \in 1..Len(t) : SubSeq(t, 1, n) \in Segments'
  <2>1. ASSUME NEW t \in created, NEW n \in 1..Len(t)
        PROVE  SubSeq(t, 1, n) \in created
    <3>1. t \in Seq(Nat) /\ (t = r \/ t = c)
      BY <1>1, <1>3
    <3>2. /\ SubSeq(t, 1, n) \in Seq(Nat) /\ Len(SubSeq(t, 1, n)) = n
          /\ \A i \in 1..n : SubSeq(t, 1, n)[i] = t[i]
      BY <3>1, SubSequence
    <3>3. CASE n = Len(t)
      BY Zenon, <3>1, <3>2, <3>3, SameSequence
    <3>4. CASE n # Len(t)
      <4>1. t # r
        <5> SUFFICES ASSUME t = r PROVE FALSE
          OBVIOUS
        <5> QED BY <1>1, <3>4
      <4>2. t = c
        BY <3>1, <4>1
      <4>3. Len(t) = 2
        BY <1>1, <4>2, Zenon
      <4>4. n = 1
        BY <3>4, <4>3
      <4>5. SubSeq(t, 1, n) = r
        BY <1>1, <3>2, <4>2, <4>4, SameSequence
      <4> QED BY Zenon, <1>2, <4>2, <4>5
    <3> QED BY <3>3, <3>4
  <2> QED BY <1>6, <2>1 DEF TreeInv
<1>11. \A t \in Segments' : t[1] < pathCount' /\ \A i \in 2..Len(t) : t[i] \in HLPC
  <2>1. \A t \in Segments : t[1] < pathCount'
    BY <1>4, <1>6 DEF TreeTypeOK
  <2>2. \A t \in created : t[1] < pathCount' /\ \A i \in 2..Len(t) : t[i] \in HLPC
    BY SMTT(40), <1>1, <1>2, <1>6 DEF TreeTypeOK
  <2> QED BY <1>6, <2>1, <2>2 DEF TreeInv
<1>12. \A s, t \in Segments' : path'[s] = path'[t] => AtOrBelow(s, t) \/ AtOrBelow(t, s)
  <2>1. \A s \in Segments, t \in created : path'[s] # path'[t]
    BY <1>7 DEF TreeTypeOK
  <2>2. \A s, t \in created : AtOrBelow(s, t) \/ AtOrBelow(t, s)
    <3>1. AtOrBelow(r, r) /\ AtOrBelow(c, r) /\ AtOrBelow(c, c)
      BY <1>1 DEF AtOrBelow
    <3> QED BY <1>3, <3>1
  <2> QED BY <1>6, <1>7, <2>1, <2>2 DEF TreeInv
<1>13. \A s \in Segments' : Children(s)' # {} => \E pd \in HLPC : SamePath(s)' = {pd}
  <2>1. ASSUME NEW s \in Segments
        PROVE  Children(s)' = Children(s) /\ SamePath(s)' = SamePath(s)
    <3>1. \A pd \in HLPC : Append(s, pd) \notin created
      <4> SUFFICES ASSUME NEW pd \in HLPC PROVE Append(s, pd) # r /\ Append(s, pd) # c
        BY Zenon, <1>3
      <4>1. pd \in Nat /\ s \in Seq(Nat) /\ Len(s) > 0 /\ s[1] # pathCount
        BY <1>4, HLPCAssumption DEF TreeTypeOK
      <4>2. Append(s, pd)[1] = s[1]
        BY <4>1, Appended
      <4> QED BY Zenon, <1>1, <4>1, <4>2
    <3>2. Children(s)' = Children(s)
      BY <1>6, <3>1 DEF Children
    <3> QED BY <1>7, <3>2 DEF SamePath, Children
  <2>2. ASSUME NEW s \in created, NEW pd \in Children(s)'
        PROVE  s = r /\ pd = pc
    <3>1. pd \in HLPC /\ pd \in Nat /\ Append(s, pd) \in Segments \cup created /\ s \in Seq(Nat)
      BY <1>1, <1>3, <1>6, <2>2, HLPCAssumption DEF Children
    <3>2. /\ Len(Append(s, pd)) = Len(s) + 1 /\ Append(s, pd)[1] = pathCount
          /\ Append(s, pd)[Len(s) + 1] = pd
      <4>1. s[1] = pathCount /\ 1 \in 1..Len(s)
        BY <1>1, <1>3
      <4> QED BY <3>1, <4>1, Appended
    <3>3. Append(s, pd) \in created
      <4>1. Append(s, pd)[1] \notin 0..pathCount-1
        BY <3>2 DEF TreeTypeOK
      <4>2. \A t \in Segments : t[1] \in 0..pathCount-1
        BY <1>4 DEF TreeTypeOK
      <4> QED BY Zenon, <3>1, <4>1, <4>2
    <3>4. s = r
      <4> SUFFICES ASSUME s # r PROVE FALSE
        OBVIOUS
      <4>1. s = c
        BY <1>3
      <4>2. Len(s) = 2
        BY <1>1, <4>1, Zenon
      <4>3. Len(Append(s, pd)) = 1 \/ Len(Append(s, pd)) = 2
        BY <1>1, <1>3, <3>3, Zenon
      <4> QED BY <3>2, <4>2, <4>3
    <3>5. Append(s, pd)[2] = pd /\ Append(s, pd) # r
      <4>1. Len(s) = 1
        BY <1>1, <3>4, Zenon
      <4>2. Len(Append(s, pd)) = 2 /\ Append(s, pd)[2] = pd
        BY <3>2, <4>1
      <4>3. Len(Append(s, pd)) # Len(r)
        BY <1>1, <4>2
      <4> QED BY <4>2, <4>3, Zenon
    <3>6. Append(s, pd) = c
      BY Zenon, <1>3, <3>3, <3>5
    <3> QED BY <1>1, <3>4, <3>5, <3>6
  <2>3. ASSUME NEW s \in created, Children(s)' # {}
        PROVE  \E pd \in HLPC : SamePath(s)' = {pd}
    <3>1. s = r /\ Children(s)' = {pc} /\ pc \in HLPC
      BY <2>2, <2>3 DEF Children
    <3>2. Append(s, pc) \in created
      BY <1>5, <1>6, <3>1 DEF Children, c
    <3>3. path'[Append(s, pc)] = path'[s]
      BY <1>7, <2>3, <3>2
    <3> QED BY <3>1, <3>3 DEF SamePath
  <2> QED BY <1>6, <2>1, <2>3 DEF TreeInv
<1> QED BY <1>6, <1>7, <1>8, <1>9, <1>10, <1>11, <1>12, <1>13 DEF TreeInv, r

-----------------------------------------------------------------------------
(* The queue of the selector.                                              *)

\* q lists every member of S exactly once.
Lists(q, S) ==
    /\ q \in Seq(S)
    /\ \A h \in S : \E i \in 1..Len(q) : q[i] = h
    /\ \A i, j \in 1..Len(q) : q[i] = q[j] => i = j

\* The state to be moved or removed is found.
LEMMA PositionInQueue ==
  ASSUME NEW S, NEW q, Lists(q, S), NEW h \in S
  PROVE  PositionOf(q, h) \in 1..Len(q) /\ q[PositionOf(q, h)] = h
  BY Zenon DEF Lists, PositionOf

\* update() of a new state adds it at the front.
LEMMA QueueAddLists ==
  ASSUME NEW S, NEW q, Lists(q, S), NEW h, h \notin S
  PROVE  Lists(QueueAdd(q, h), S \cup {h})
<1> DEFINE r == QueueAdd(q, h)
<1>1. q \in Seq(S) /\ Len(q) \in Nat /\ \A i \in 1..Len(q) : q[i] \in S
  BY DEF Lists
<1>2. r \in Seq(S \cup {h}) /\ Len(r) = Len(q) + 1
  BY <1>1 DEF QueueAdd
<1>3. \A i \in 1..Len(q)+1 : r[i] = IF i = 1 THEN h ELSE q[i-1]
  BY <1>1 DEF QueueAdd
<1> HIDE DEF r
<1>4. \A g \in S \cup {h} : \E i \in 1..Len(r) : r[i] = g
  <2> SUFFICES ASSUME NEW g \in S \cup {h} PROVE \E i \in 1..Len(r) : r[i] = g
    OBVIOUS
  <2>1. CASE g = h
    BY <1>1, <1>2, <1>3, <2>1
  <2>2. CASE g \in S
    <3>1. PICK i \in 1..Len(q) : q[i] = g
      BY <2>2 DEF Lists
    <3>2. i + 1 \in 1..Len(r) /\ r[i + 1] = g
      BY <1>1, <1>2, <1>3, <3>1
    <3> QED BY <3>2
  <2> QED BY <2>1, <2>2
<1>5. \A i, j \in 1..Len(r) : r[i] = r[j] => i = j
  <2> SUFFICES ASSUME NEW i \in 1..Len(q)+1, NEW j \in 1..Len(q)+1, r[i] = r[j] PROVE i = j
    BY <1>2
  <2>1. \A m, n \in 1..Len(q) : q[m] = q[n] => m = n
    BY DEF Lists
  <2>2. CASE i = 1 \/ j = 1
    BY <1>1, <1>3, <2>2
  <2>3. CASE i # 1 /\ j # 1
    <3>1. i-1 \in 1..Len(q) /\ j-1 \in 1..Len(q) /\ q[i-1] = q[j-1]
      BY <1>1, <1>3, <2>3
    <3> QED BY <2>1, <3>1
  <2> QED BY <2>2, <2>3
<1> QED BY <1>2, <1>4, <1>5 DEF Lists, r

\* update() of a state already there moves it to the front.
LEMMA QueueUpdateLists ==
  ASSUME NEW S, NEW q, Lists(q, S), NEW h \in S
  PROVE  Lists(QueueUpdate(q, h), S)
<1> DEFINE r == QueueUpdate(q, h)
           k == PositionOf(q, h)
<1>1. q \in Seq(S) /\ Len(q) \in Nat /\ \A i \in 1..Len(q) : q[i] \in S
  BY DEF Lists
<1>2. k \in 1..Len(q) /\ q[k] = h
  BY PositionInQueue
<1>3. r = [i \in 1..Len(q) |-> IF i = 1 THEN h ELSE IF i <= k THEN q[i-1] ELSE q[i]]
  BY DEF QueueUpdate
<1> HIDE DEF r, k
<1>4. r \in Seq(S) /\ Len(r) = Len(q)
  BY <1>1, <1>2, <1>3
<1>5. \A i \in 1..Len(q) : r[i] = IF i = 1 THEN h ELSE IF i <= k THEN q[i-1] ELSE q[i]
  BY <1>3
<1>6. \A g \in S : \E i \in 1..Len(r) : r[i] = g
  <2> SUFFICES ASSUME NEW g \in S PROVE \E i \in 1..Len(r) : r[i] = g
    OBVIOUS
  <2>1. PICK i \in 1..Len(q) : q[i] = g
    BY DEF Lists
  <2>2. CASE i < k
    <3>1. i + 1 \in 1..Len(r) /\ r[i + 1] = g
      BY <1>1, <1>2, <1>4, <1>5, <2>1, <2>2
    <3> QED BY <3>1
  <2>3. CASE i = k
    BY <1>1, <1>2, <1>4, <1>5, <2>1, <2>3
  <2>4. CASE i > k
    BY <1>1, <1>2, <1>4, <1>5, <2>1, <2>4
  <2> QED BY <1>2, <2>2, <2>3, <2>4
<1>7. \A i, j \in 1..Len(r) : r[i] = r[j] => i = j
  <2> SUFFICES ASSUME NEW i \in 1..Len(q), NEW j \in 1..Len(q), r[i] = r[j] PROVE i = j
    BY <1>4
  <2>1. \A m, n \in 1..Len(q) : q[m] = q[n] => m = n
    BY DEF Lists
  <2> DEFINE from(n) == IF n = 1 THEN k ELSE IF n <= k THEN n - 1 ELSE n
  <2>2. \A n \in 1..Len(q) : from(n) \in 1..Len(q) /\ r[n] = q[from(n)]
    BY <1>1, <1>2, <1>5
  <2>3. from(i) = from(j)
    <3> HIDE DEF from
    <3> QED BY Zenon, <2>1, <2>2
  <2> QED BY <1>1, <1>2, <2>3
<1> QED BY <1>4, <1>6, <1>7 DEF Lists, r

\* remove() takes exactly that state out.
LEMMA QueueRemoveLists ==
  ASSUME NEW S, NEW q, Lists(q, S), NEW h \in S
  PROVE  Lists(QueueRemove(q, h), S \ {h})
<1> DEFINE r == QueueRemove(q, h)
           k == PositionOf(q, h)
<1>1. q \in Seq(S) /\ Len(q) \in Nat /\ \A i \in 1..Len(q) : q[i] \in S
  BY DEF Lists
<1>2. k \in 1..Len(q) /\ q[k] = h
  BY PositionInQueue
<1>3. r = [i \in 1..Len(q)-1 |-> IF i < k THEN q[i] ELSE q[i+1]]
  BY DEF QueueRemove
<1> HIDE DEF r, k
<1>4. \A m, n \in 1..Len(q) : q[m] = q[n] => m = n
  BY DEF Lists
<1>5. \A i \in 1..Len(q)-1 : r[i] = IF i < k THEN q[i] ELSE q[i+1]
  BY <1>3
<1>6. \A i \in 1..Len(q)-1 : r[i] \in S \ {h}
  BY <1>1, <1>2, <1>4, <1>5
<1>7. r \in Seq(S \ {h}) /\ Len(r) = Len(q) - 1
  BY <1>1, <1>2, <1>3, <1>6
<1>8. \A g \in S \ {h} : \E i \in 1..Len(r) : r[i] = g
  <2> SUFFICES ASSUME NEW g \in S \ {h} PROVE \E i \in 1..Len(r) : r[i] = g
    OBVIOUS
  <2>1. PICK i \in 1..Len(q) : q[i] = g
    BY DEF Lists
  <2>2. CASE i < k
    BY <1>1, <1>2, <1>5, <1>7, <2>1, <2>2
  <2>3. CASE i > k
    <3>1. i - 1 \in 1..Len(r) /\ r[i - 1] = g
      BY <1>1, <1>2, <1>5, <1>7, <2>1, <2>3
    <3> QED BY <3>1
  <2> QED BY <1>2, <2>1, <2>2, <2>3
<1>9. \A i, j \in 1..Len(r) : r[i] = r[j] => i = j
  BY SMTT(40), <1>1, <1>2, <1>4, <1>5, <1>7
<1> QED BY <1>7, <1>8, <1>9 DEF Lists, r

\* The selector picks a state it holds, and none only when it holds none.
LEMMA SelectFromQueue ==
  ASSUME NEW S, NEW q, Lists(q, S), NoState \notin S
  PROVE  /\ selectState(q) \in S \cup {NoState}
         /\ selectState(q) = NoState <=> S = {}
<1>1. q \in Seq(S) /\ Len(q) \in Nat /\ \A i \in 1..Len(q) : q[i] \in S
  BY DEF Lists
<1>2. CASE Len(q) = 0
  BY <1>1, <1>2 DEF Lists, selectState
<1>3. CASE Len(q) > 0
  <2>1. 1 \in 1..Len(q) /\ Len(q) \in 1..Len(q)
    BY <1>1, <1>3
  <2>2. selectState(q) = q[1] \/ selectState(q) = q[Len(q)]
    BY <1>1, <1>3 DEF selectState
  <2> QED BY <1>1, <2>1, <2>2
<1> QED BY <1>1, <1>2, <1>3

-----------------------------------------------------------------------------
(* Each action preserves the invariant.                                    *)

\* The executor is created with an empty tree, no HL state and an empty selector.
LEMMA InitInv == Init => ExecutorInv
<1> SUFFICES ASSUME Init PROVE ExecutorInv
  OBVIOUS
<1>1. Segments = {} /\ Len(hlSeg) = 0 /\ Len(queue) = 0
  BY DEF Init, Segments
<1>2. TreeTypeOK
  BY <1>1 DEF Init, TreeTypeOK, Segments
<1>3. TypeOK
  BY <1>1, <1>2 DEF Init, TypeOK, Tracked, NoState
<1>4. TreeInv
  BY <1>1 DEF TreeInv
<1>5. FrontierInv
  BY <1>1 DEF Init, FrontierInv, SelectorInSync, selectState, Tracked
<1> QED BY <1>3, <1>4, <1>5 DEF ExecutorInv

\* The selector holds the live states, and state ids are not zero.
LEMMA InvLists ==
  ASSUME ExecutorInv
  PROVE  Lists(queue, hlStates) /\ NoState \notin hlStates /\ selected = selectState(queue)
  BY DEF ExecutorInv, TypeOK, FrontierInv, SelectorInSync, Lists, NoState

\* createState(), for a segment s among those it creates.
LEMMA CreateStateInv ==
  ASSUME ExecutorInv, NEW l \in States, NEW pc \in Nat, NEW created, NEW s \in created,
         NewSegments(created, pc), createState(l, s, created),
         phase' = "update" \/ (phase' = "idle" /\ s = createRootSegment)
  PROVE  ExecutorInv'
<1> DEFINE r == createRootSegment
           h == Len(hlSeg) + 1
<1>1. /\ TreeTypeOK' /\ TreeInv' /\ Segments' = Segments \cup created
      /\ \A t \in Segments : ~AtOrBelow(t, r) /\ ~AtOrBelow(r, t)
  BY NewRootTree DEF ExecutorInv, TypeOK, createState
<1>2. /\ r \in created /\ AtOrBelow(s, r) /\ s # NoSegment
  <2>1. r \in Seq(Nat) /\ Len(r) = 1
    BY DEF createRootSegment, ExecutorInv, TypeOK, TreeTypeOK
  <2> HIDE DEF r
  <2>2. /\ Append(r, pc) \in Seq(Nat) /\ Len(Append(r, pc)) = 2
        /\ AtOrBelow(Append(r, pc), r) /\ AtOrBelow(r, r)
    <3>1. /\ Append(r, pc) \in Seq(Nat) /\ Len(Append(r, pc)) = Len(r) + 1
          /\ AtOrBelow(Append(r, pc), r)
      BY Zenon, <2>1, BelowChild
    <3>2. AtOrBelow(r, r)
      BY <2>1, BelowSelf
    <3> QED BY <2>1, <3>1, <3>2
  <2>3. r # <<>> /\ Append(r, pc) # <<>>
    BY <2>1, <2>2
  <2>4. created = {r} \/ created = {r, Append(r, pc)}
    BY DEF NewSegments, r
  <2> QED BY Zenon, <2>2, <2>3, <2>4 DEF NoSegment
<1>3. /\ hlSeg \in Seq(Segments) /\ Len(hlSeg) \in Nat /\ h \in Nat /\ h \notin hlStates
      /\ hlStates \subseteq 1..Len(hlSeg)
  BY DEF ExecutorInv, TypeOK
<1>4. /\ hlSeg' \in Seq(Segments') /\ Len(hlSeg') = h
      /\ hlSeg'[h] = r /\ \A g \in hlStates : hlSeg'[g] = hlSeg[g]
  <2>1. hlSeg' = Append(hlSeg, r) /\ r \in Segments'
    BY <1>1, <1>2 DEF createState
  <2>2. hlSeg \in Seq(Segments')
    BY <1>1, <1>3
  <2> HIDE DEF r
  <2>3. /\ hlSeg' \in Seq(Segments') /\ Len(hlSeg') = Len(hlSeg) + 1
        /\ \A i \in 1..Len(hlSeg) : hlSeg'[i] = hlSeg[i]
        /\ hlSeg'[Len(hlSeg)+1] = r
    BY <2>1, <2>2, Appended
  <2> QED BY <1>3, <2>3
<1>5. hlStates' = hlStates \cup {h}
  BY DEF createState
<1>6. Lists(queue', hlStates') /\ NoState \notin hlStates' /\ selected' = selectState(queue')
  BY <1>3, <1>5, InvLists, QueueAddLists DEF createState, NoState
<1>7. selected' \in hlStates' /\ target' = selected'
  <2>1. hlStates' # {}
    BY <1>5
  <2>2. selected' \in hlStates' \cup {NoState} /\ selected' # NoState
    BY <1>6, <2>1, SelectFromQueue
  <2> QED BY <2>2 DEF createState
<1>8. seg' \in [States -> Segments' \cup {NoSegment}] /\ seg' = [seg EXCEPT ![l] = s]
  BY <1>1 DEF ExecutorInv, TypeOK, createState
<1>9. TypeOK'
  <2>1. status' \in [States -> {"unborn", "alive", "dead"}] /\ apic' \in [States -> BOOLEAN]
    BY DEF ExecutorInv, TypeOK, createState
  <2>2. \A m \in States : Tracked(m)' => status'[m] = "alive"
    BY <1>8 DEF ExecutorInv, TypeOK, createState, Tracked
  <2>3. hlStates' \subseteq 1..Len(hlSeg')
    <3> HIDE DEF h
    <3>1. h \in 1..h /\ 1..Len(hlSeg) \subseteq 1..h
      BY <1>3 DEF h
    <3> QED BY <1>3, <1>4, <1>5, <3>1
  <2>4. target' \in 0..Len(hlSeg')
    BY SMTT(40), <1>4, <1>7, <2>3
  <2> QED BY Zenon, <1>1, <1>4, <1>6, <1>7, <1>8, <2>1, <2>2, <2>3, <2>4 DEF TypeOK, Lists
<1>10. FrontierInv'
  <2>1. \A f, g \in hlStates' : AtOrBelow(hlSeg'[f], hlSeg'[g]) => f = g
    <3>1. \A g \in hlStates : hlSeg[g] \in Segments
      BY <1>3
    <3> HIDE DEF r, h
    <3> QED BY <1>1, <1>4, <1>5, <3>1 DEF ExecutorInv, FrontierInv
  <2>2. \A m \in States : Tracked(m)' => \E g \in hlStates' : AtOrBelow(seg'[m], hlSeg'[g])
    <3> SUFFICES ASSUME NEW m \in States, Tracked(m)'
                 PROVE  \E g \in hlStates' : AtOrBelow(seg'[m], hlSeg'[g])
      OBVIOUS
    <3>1. CASE m = l
      <4>1. seg'[m] = s
        BY <1>8, <3>1
      <4> QED BY <1>2, <1>4, <1>5, <4>1
    <3>2. CASE m # l
      <4>1. seg'[m] = seg[m] /\ Tracked(m)
        BY <1>8, <3>2 DEF Tracked
      <4>2. PICK g \in hlStates : AtOrBelow(seg[m], hlSeg[g])
        BY <4>1 DEF ExecutorInv, FrontierInv
      <4> QED BY <1>4, <1>5, <4>1, <4>2
    <3> QED BY <3>1, <3>2
  <2>3. SelectorInSync'
    BY Zenon, <1>6 DEF SelectorInSync, Lists
  <2>4. ASSUME phase' = "idle" PROVE (StatesAt(hlSeg[selected]) # {})'
    <3>1. phase = "idle" /\ s = r
      BY <2>4 DEF createState
    <3>2. CASE selected' = h
      BY <1>4, <1>8, <3>1, <3>2 DEF StatesAt, ExecutorInv, TypeOK
    <3>3. CASE selected' # h
      <4>1. Len(queue) > 0 /\ selected' = selected /\ selected \in hlStates
        BY SMTT(40), <1>3, <1>5, <1>7, <3>3, InvLists, StrategyAssumption
        DEF createState, selectState, QueueAdd, Lists
      <4>2. StatesAt(hlSeg[selected]) # {}
        BY <3>1, <4>1, InvLists DEF ExecutorInv, FrontierInv
      <4>3. PICK m \in States : seg[m] = hlSeg[selected]
        BY <4>2 DEF StatesAt
      <4>4. seg[l] = NoSegment /\ hlSeg[selected] # NoSegment
        BY <1>3, <4>1 DEF createState, Tracked, ExecutorInv, TypeOK, TreeTypeOK, NoSegment
      <4>5. seg'[m] = hlSeg'[selected']
        BY <1>4, <1>8, <4>1, <4>3, <4>4
      <4> QED BY <4>5 DEF StatesAt
    <3> QED BY <3>2, <3>3
  <2> QED BY Zenon, <1>7, <2>1, <2>2, <2>3, <2>4 DEF FrontierInv
<1> QED BY <1>1, <1>9, <1>10 DEF ExecutorInv

\* onHighLevelPCUpdate(): the LL state moves to a child of its segment.
LEMMA PCUpdateInv ==
  ASSUME ExecutorInv, NEW l \in States, NEW pc \in HLPC, onHighLevelPCUpdate(l, pc)
  PROVE  ExecutorInv'
<1> DEFINE s == seg[l]
           c == Append(s, pc)
<1>1. s \in Segments /\ s \in Seq(Nat) /\ s # NoSegment
  BY DEF ExecutorInv, TypeOK, TreeTypeOK, onHighLevelPCUpdate, Tracked
<1>2. /\ TreeTypeOK' /\ TreeInv' /\ Segments' = Segments \cup {c}
  BY Zenon, <1>1, NextSegmentTree DEF ExecutorInv, TypeOK, onHighLevelPCUpdate
<1>3. /\ seg' = [seg EXCEPT ![l] = c] /\ status' = status /\ status[l] = "alive"
      /\ hlSeg' = hlSeg /\ hlStates' = hlStates /\ queue' = queue
      /\ selected' = selected /\ target' = target /\ phase' = "update"
  BY Zenon DEF onHighLevelPCUpdate, hlVars
<1>4. apic' \in [States -> BOOLEAN]
  BY Zenon DEF ExecutorInv, TypeOK, onHighLevelPCUpdate, ApicAfterMove
<1>5. TypeOK'
  <2>1. seg' \in [States -> Segments' \cup {NoSegment}]
    BY <1>2, <1>3 DEF ExecutorInv, TypeOK
  <2>2. hlSeg' \in Seq(Segments')
    BY <1>2, <1>3 DEF ExecutorInv, TypeOK
  <2>3. \A m \in States : Tracked(m)' => status'[m] = "alive"
    BY <1>3 DEF ExecutorInv, TypeOK, Tracked
  <2> QED BY <1>2, <1>3, <1>4, <2>1, <2>2, <2>3 DEF ExecutorInv, TypeOK
<1>6. FrontierInv'
  <2>1. \A m \in States : Tracked(m)' => \E g \in hlStates' : AtOrBelow(seg'[m], hlSeg'[g])
    <3> SUFFICES ASSUME NEW m \in States, Tracked(m)'
                 PROVE  \E g \in hlStates : AtOrBelow(seg'[m], hlSeg[g])
      BY <1>3
    <3>1. CASE m = l
      <4>1. PICK g \in hlStates : AtOrBelow(s, hlSeg[g])
        BY <1>1 DEF ExecutorInv, FrontierInv, Tracked
      <4>2. hlSeg[g] \in Seq(Nat)
        BY DEF ExecutorInv, TypeOK, TreeTypeOK
      <4>3. pc \in Nat /\ c \in Seq(Nat) /\ AtOrBelow(c, s)
        BY <1>1, HLPCAssumption, BelowChild
      <4>4. AtOrBelow(c, hlSeg[g])
        <5> HIDE DEF s, c
        <5> QED BY <1>1, <4>1, <4>2, <4>3, BelowTrans
      <4>5. seg'[m] = c
        BY <1>3, <3>1 DEF ExecutorInv, TypeOK
      <4> QED BY <4>4, <4>5
    <3>2. CASE m # l
      BY Zenon, <1>3, <3>2 DEF ExecutorInv, TypeOK, FrontierInv, Tracked
    <3> QED BY <3>1, <3>2
  <2>2. SelectorInSync'
    BY <1>3 DEF ExecutorInv, FrontierInv, SelectorInSync, selectState
  <2>3. \A g, h \in hlStates' : AtOrBelow(hlSeg'[g], hlSeg'[h]) => g = h
    BY <1>3 DEF ExecutorInv, FrontierInv
  <2> QED BY <1>3, <2>1, <2>2, <2>3 DEF FrontierInv
<1> QED BY <1>2, <1>5, <1>6 DEF ExecutorInv

\* A step that leaves the tree alone keeps what is said about it.
LEMMA TreeUnchanged ==
  ASSUME ExecutorInv, UNCHANGED treeVars
  PROVE  TreeTypeOK' /\ TreeInv' /\ Segments' = Segments
<1>1. path' = path /\ pathCount' = pathCount
  BY DEF treeVars
<1>2. TreeTypeOK /\ TreeInv
  BY DEF ExecutorInv, TypeOK
<1>3. TreeTypeOK' /\ Segments' = Segments
  BY <1>1, <1>2 DEF TreeTypeOK, Segments
<1>4. TreeInv'
  BY <1>1, <1>2 DEF TreeInv, Segments, Children, SamePath
<1> QED BY <1>3, <1>4

\* onStateFork(): the clone joins the segment of its parent.
LEMMA ForkInv ==
  ASSUME ExecutorInv, NEW l \in States, NEW n \in States, onStateFork(l, n)
  PROVE  ExecutorInv'
<1>1. TreeTypeOK' /\ TreeInv' /\ Segments' = Segments
  BY TreeUnchanged DEF onStateFork
<1>2. /\ seg' = [seg EXCEPT ![n] = seg[l]] /\ status' = [status EXCEPT ![n] = "alive"]
      /\ status[l] = "alive" /\ status[n] = "unborn"
      /\ hlSeg' = hlSeg /\ hlStates' = hlStates /\ queue' = queue
      /\ selected' = selected /\ target' = target /\ phase' = phase
  BY DEF onStateFork, hlVars
<1>3. seg[n] = NoSegment
  BY <1>2 DEF ExecutorInv, TypeOK, Tracked
<1>4. TypeOK'
  <2>1. apic' \in [States -> BOOLEAN]
    BY Zenon DEF ExecutorInv, TypeOK, onStateFork
  <2>2. /\ seg' \in [States -> Segments' \cup {NoSegment}]
        /\ status' \in [States -> {"unborn", "alive", "dead"}]
    BY <1>1, <1>2 DEF ExecutorInv, TypeOK
  <2>3. \A m \in States : Tracked(m)' => status'[m] = "alive"
    BY <1>2 DEF ExecutorInv, TypeOK, Tracked
  <2> QED BY <1>1, <1>2, <2>1, <2>2, <2>3 DEF ExecutorInv, TypeOK
<1>5. FrontierInv'
  <2>1. \A m \in States : Tracked(m)' => \E g \in hlStates' : AtOrBelow(seg'[m], hlSeg'[g])
    BY <1>2 DEF ExecutorInv, TypeOK, FrontierInv, Tracked
  <2>2. SelectorInSync'
    BY <1>2 DEF ExecutorInv, FrontierInv, SelectorInSync, selectState
  <2>3. \A g, h \in hlStates' : AtOrBelow(hlSeg'[g], hlSeg'[h]) => g = h
    BY <1>2 DEF ExecutorInv, FrontierInv
  <2>4. ASSUME phase' = "idle", selected' # NoState
        PROVE  target' = selected' /\ (StatesAt(hlSeg[selected]) # {})'
    <3>1. target = selected /\ StatesAt(hlSeg[selected]) # {} /\ selected \in hlStates
      BY <1>2, <2>4 DEF ExecutorInv, FrontierInv, TypeOK
    <3>2. hlSeg[selected] # NoSegment
      BY <3>1 DEF ExecutorInv, TypeOK, TreeTypeOK, NoSegment
    <3>3. PICK m \in States : seg[m] = hlSeg[selected]
      BY <3>1 DEF StatesAt
    <3>4. seg'[m] = hlSeg'[selected']
      BY <1>2, <1>3, <3>2, <3>3 DEF ExecutorInv, TypeOK
    <3> QED BY <1>2, <3>1, <3>4 DEF StatesAt
  <2> QED BY <2>1, <2>2, <2>3, <2>4 DEF FrontierInv
<1> QED BY <1>1, <1>4, <1>5 DEF ExecutorInv

\* onStateKill(): the LL state leaves its segment.
LEMMA KillInv ==
  ASSUME ExecutorInv, NEW l \in States, onStateKill(l)
  PROVE  ExecutorInv'
<1>1. TreeTypeOK' /\ TreeInv' /\ Segments' = Segments
  BY TreeUnchanged DEF onStateKill
<1>2. /\ status' = [status EXCEPT ![l] = "dead"]
      /\ hlSeg' = hlSeg /\ hlStates' = hlStates /\ queue' = queue
      /\ selected' = selected /\ target' = target
  BY DEF onStateKill, hlVars
<1>3. seg' = [seg EXCEPT ![l] = NoSegment]
  BY Zenon DEF onStateKill, Tracked, ExecutorInv, TypeOK
<1>4. TypeOK'
  <2>1. apic' \in [States -> BOOLEAN] /\ phase' \in {"idle", "update"}
    BY Zenon DEF ExecutorInv, TypeOK, onStateKill
  <2>2. /\ seg' \in [States -> Segments' \cup {NoSegment}]
        /\ status' \in [States -> {"unborn", "alive", "dead"}]
    BY <1>1, <1>2, <1>3 DEF ExecutorInv, TypeOK
  <2>3. \A m \in States : Tracked(m)' => status'[m] = "alive"
    BY <1>2, <1>3 DEF ExecutorInv, TypeOK, Tracked
  <2> QED BY <1>1, <1>2, <2>1, <2>2, <2>3 DEF ExecutorInv, TypeOK
<1>5. FrontierInv'
  <2>1. \A m \in States : Tracked(m)' => \E g \in hlStates' : AtOrBelow(seg'[m], hlSeg'[g])
    BY <1>2, <1>3 DEF ExecutorInv, TypeOK, FrontierInv, Tracked
  <2>2. SelectorInSync'
    BY <1>2 DEF ExecutorInv, FrontierInv, SelectorInSync, selectState
  <2>3. \A g, h \in hlStates' : AtOrBelow(hlSeg'[g], hlSeg'[h]) => g = h
    BY <1>2 DEF ExecutorInv, FrontierInv
  <2>4. ASSUME phase' = "idle", selected' # NoState
        PROVE  target' = selected' /\ (StatesAt(hlSeg[selected]) # {})'
    <3>1. ~Tracked(l) /\ phase = "idle"
      BY <2>4 DEF onStateKill
    <3>2. seg' = seg
      BY <3>1 DEF onStateKill
    <3> QED BY <1>2, <2>4, <3>1, <3>2 DEF ExecutorInv, FrontierInv, StatesAt
  <2> QED BY Zenon, <2>1, <2>2, <2>3, <2>4 DEF FrontierInv
<1> QED BY <1>1, <1>4, <1>5 DEF ExecutorInv

\* An HL state is at a segment.
LEMMA HighLevelSegment ==
  ASSUME ExecutorInv, NEW h \in hlStates
  PROVE  hlSeg[h] \in Segments /\ hlSeg[h] \in Seq(Nat) /\ h \in 1..Len(hlSeg)
  BY DEF ExecutorInv, TypeOK, TreeTypeOK

\* The selected HL state at segment s is replaced by one HL state on each child
\* of s; the others stay where they are.
ReplacedByChildren(s, rest) ==
    /\ rest \subseteq hlStates'
    /\ \A h \in rest : hlSeg'[h] = hlSeg[h]
    /\ \A h \in hlStates' \ rest : \E pc \in Children(s) : hlSeg'[h] = Append(s, pc)
    /\ \A g, h \in hlStates' \ rest : hlSeg'[g] = hlSeg'[h] => g = h
    /\ \A pc \in Children(s) : \E h \in hlStates' : hlSeg'[h] = Append(s, pc)

\* Then the HL states stay an antichain and cover the same LL states.
LEMMA AdvanceFrontier ==
  ASSUME ExecutorInv, Advancing, UNCHANGED <<seg, path>>, selected \in hlStates,
         ReplacedByChildren(hlSeg[selected], hlStates \ {selected})
  PROVE  /\ \A g, h \in hlStates' : AtOrBelow(hlSeg'[g], hlSeg'[h]) => g = h
         /\ \A m \in States : Tracked(m)' => \E h \in hlStates' : AtOrBelow(seg'[m], hlSeg'[h])
<1> DEFINE s == hlSeg[selected]
           rest == hlStates \ {selected}
<1>1. s \in Segments /\ s \in Seq(Nat) /\ \A h \in hlStates : hlSeg[h] \in Segments /\ hlSeg[h] \in Seq(Nat)
  BY HighLevelSegment
<1>2. \A pc \in Children(s) : pc \in Nat
  BY Zenon, HLPCAssumption DEF Children
<1>3. \A h \in rest : ~AtOrBelow(hlSeg[h], s) /\ ~AtOrBelow(s, hlSeg[h])
  BY DEF ExecutorInv, FrontierInv
<1>4. ASSUME NEW h \in rest, NEW pc \in Children(s)
      PROVE  ~AtOrBelow(hlSeg[h], Append(s, pc)) /\ ~AtOrBelow(Append(s, pc), hlSeg[h])
  <2>1. pc \in Nat /\ hlSeg[h] \in Seq(Nat)
    BY <1>1, <1>2
  <2>2. ~AtOrBelow(hlSeg[h], Append(s, pc))
    BY <1>1, <1>3, <2>1, BelowChild
  <2>3. ~AtOrBelow(Append(s, pc), hlSeg[h])
    <3> SUFFICES ASSUME AtOrBelow(Append(s, pc), hlSeg[h]) PROVE FALSE
      OBVIOUS
    <3>1. hlSeg[h] = Append(s, pc)
      BY Zenon, <1>1, <1>3, <2>1, AboveChild
    <3>2. AtOrBelow(hlSeg[h], hlSeg[h])
      BY <2>1, BelowSelf
    <3> QED BY <2>2, <3>1, <3>2, Zenon
  <2> QED BY <2>2, <2>3
<1>5. ASSUME NEW g \in hlStates', NEW h \in hlStates', AtOrBelow(hlSeg'[g], hlSeg'[h])
      PROVE  g = h
  <2>1. CASE g \in rest /\ h \in rest
    BY <1>5, <2>1 DEF ExecutorInv, FrontierInv, ReplacedByChildren
  <2>2. CASE g \in rest /\ h \notin rest
    <3>1. PICK pc \in Children(s) : hlSeg'[h] = Append(s, pc)
      BY <2>2 DEF ReplacedByChildren
    <3>2. AtOrBelow(hlSeg[g], Append(s, pc))
      BY <1>5, <2>2, <3>1, Zenon DEF ReplacedByChildren
    <3> QED BY <1>4, <2>2, <3>2
  <2>3. CASE g \notin rest /\ h \in rest
    <3>1. PICK pc \in Children(s) : hlSeg'[g] = Append(s, pc)
      BY <2>3 DEF ReplacedByChildren
    <3>2. AtOrBelow(Append(s, pc), hlSeg[h])
      BY <1>5, <2>3, <3>1, Zenon DEF ReplacedByChildren
    <3> QED BY <1>4, <2>3, <3>2
  <2>4. CASE g \notin rest /\ h \notin rest
    <3>1. PICK pc \in Children(s) : hlSeg'[g] = Append(s, pc)
      BY <2>4 DEF ReplacedByChildren
    <3>2. PICK pd \in Children(s) : hlSeg'[h] = Append(s, pd)
      BY <2>4 DEF ReplacedByChildren
    <3>3. AtOrBelow(Append(s, pc), Append(s, pd))
      BY <1>5, <3>1, <3>2, Zenon
    <3>4. pc = pd
      BY <1>1, <1>2, <3>3, SiblingsApart
    <3>5. hlSeg'[g] = hlSeg'[h]
      BY <3>1, <3>2, <3>4, Zenon
    <3> QED BY <2>4, <3>5 DEF ReplacedByChildren
  <2> QED BY <2>1, <2>2, <2>3, <2>4
<1>6. ASSUME NEW m \in States, Tracked(m)'
      PROVE  \E h \in hlStates' : AtOrBelow(seg'[m], hlSeg'[h])
  <2>1. seg'[m] = seg[m] /\ Tracked(m) /\ seg[m] \in Segments
    BY <1>6 DEF Tracked, ExecutorInv, TypeOK
  <2>2. PICK h \in hlStates : AtOrBelow(seg[m], hlSeg[h])
    BY <2>1 DEF ExecutorInv, FrontierInv
  <2>3. CASE h = selected
    <3>1. AtOrBelow(seg[m], s) /\ seg[m] # s
      BY <2>2, <2>3 DEF Advancing, StatesAt
    <3>2. PICK pc \in Children(s) : AtOrBelow(seg[m], Append(s, pc))
      BY Zenon, <1>1, <2>1, <3>1, ChildTowards DEF ExecutorInv, TypeOK
    <3>3. PICK g \in hlStates' : hlSeg'[g] = Append(s, pc)
      BY DEF ReplacedByChildren
    <3>4. AtOrBelow(seg'[m], hlSeg'[g])
      BY <2>1, <3>2, <3>3, Zenon
    <3> QED BY <3>4
  <2>4. CASE h # selected
    <3>1. hlSeg'[h] = hlSeg[h] /\ h \in hlStates'
      BY <2>4 DEF ReplacedByChildren
    <3>2. AtOrBelow(seg'[m], hlSeg'[h])
      BY <2>1, <2>2, <3>1, Zenon
    <3> QED BY <3>1, <3>2
  <2> QED BY <2>3, <2>4
<1> QED BY <1>5, <1>6

\* doUpdateSelectedState() of a segment with no LL state and no child: no LL
\* state is at or below it, so the HL state can go.
LEMMA NothingBelow ==
  ASSUME ExecutorInv, Terminating
  PROVE  \A m \in States : Tracked(m) => ~AtOrBelow(seg[m], hlSeg[selected])
<1>1. selected \in hlStates
  BY DEF ExecutorInv, TypeOK, Terminating, Advancing
<1> SUFFICES ASSUME NEW m \in States, Tracked(m), AtOrBelow(seg[m], hlSeg[selected])
             PROVE  FALSE
  OBVIOUS
<1>2. seg[m] \in Segments /\ seg[m] # hlSeg[selected]
  BY DEF ExecutorInv, TypeOK, Tracked, Terminating, Advancing, StatesAt
<1>3. TreeTypeOK /\ TreeInv /\ hlSeg[selected] \in Segments
  BY <1>1, HighLevelSegment DEF ExecutorInv, TypeOK
<1> QED BY <1>2, <1>3, ChildTowards DEF Terminating

\* doUpdateSelectedState() kills the selected HL state.
LEMMA UpdateKillInv ==
  ASSUME ExecutorInv, doUpdateKill
  PROVE  ExecutorInv'
<1>1. TreeTypeOK' /\ TreeInv' /\ Segments' = Segments
  BY TreeUnchanged DEF doUpdateKill
<1>2. /\ status' = status /\ seg' = seg /\ apic' = apic /\ hlSeg' = hlSeg
      /\ target' = target /\ phase' = phase /\ phase = "update"
      /\ hlStates' = hlStates \ {selected} /\ selected \in hlStates
  BY DEF doUpdateKill, Terminating, Advancing, ExecutorInv, TypeOK
<1>3. Lists(queue', hlStates') /\ NoState \notin hlStates' /\ selected' = selectState(queue')
  BY <1>2, InvLists, QueueRemoveLists DEF doUpdateKill
<1>4. selected' \in hlStates' \cup {NoState}
  BY <1>3, SelectFromQueue
<1>5. TypeOK'
  <2>1. /\ seg' \in [States -> Segments' \cup {NoSegment}] /\ hlSeg' \in Seq(Segments')
        /\ hlStates' \subseteq 1..Len(hlSeg') /\ target' \in 0..Len(hlSeg')
    BY <1>1, <1>2 DEF ExecutorInv, TypeOK
  <2>2. \A m \in States : Tracked(m)' => status'[m] = "alive"
    BY <1>2 DEF ExecutorInv, TypeOK, Tracked
  <2> QED BY Zenon, <1>1, <1>2, <1>3, <1>4, <2>1, <2>2 DEF ExecutorInv, TypeOK, Lists
<1>6. FrontierInv'
  <2>1. \A g, h \in hlStates' : AtOrBelow(hlSeg'[g], hlSeg'[h]) => g = h
    BY Zenon, <1>2 DEF ExecutorInv, FrontierInv
  <2>2. \A m \in States : Tracked(m)' => \E h \in hlStates' : AtOrBelow(seg'[m], hlSeg'[h])
    BY <1>2, NothingBelow DEF ExecutorInv, FrontierInv, Tracked, doUpdateKill
  <2>3. SelectorInSync'
    BY <1>3 DEF SelectorInSync, Lists
  <2> QED BY Zenon, <1>2, <2>1, <2>2, <2>3 DEF FrontierInv
<1> QED BY <1>1, <1>5, <1>6 DEF ExecutorInv

\* doUpdateSelectedState() steps the selected HL state to its only child.
LEMMA UpdateStepInv ==
  ASSUME ExecutorInv, doUpdateStep
  PROVE  /\ ExecutorInv'
         /\ ReplacedByChildren(hlSeg[selected], hlStates \ {selected})
<1>1. TreeTypeOK' /\ TreeInv' /\ Segments' = Segments
  BY TreeUnchanged DEF doUpdateStep
<1>2. /\ status' = status /\ seg' = seg /\ apic' = apic /\ hlStates' = hlStates
      /\ target' = target /\ phase' = phase /\ phase = "update" /\ path' = path
      /\ selected \in hlStates /\ Advancing
  BY DEF doUpdateStep, Advancing, ExecutorInv, TypeOK, treeVars
<1>3. PICK pc \in HLPC : /\ Children(hlSeg[selected]) = {pc}
                         /\ hlSeg' = [hlSeg EXCEPT ![selected] = Append(@, pc)]
  BY Zenon DEF doUpdateStep
<1>4. Append(hlSeg[selected], pc) \in Segments
  BY <1>3 DEF Children
<1>5. /\ hlSeg \in Seq(Segments) /\ selected \in 1..Len(hlSeg)
      /\ hlStates \subseteq 1..Len(hlSeg)
  BY <1>2 DEF ExecutorInv, TypeOK
<1>6. /\ hlSeg' \in Seq(Segments) /\ Len(hlSeg') = Len(hlSeg)
      /\ hlSeg'[selected] = Append(hlSeg[selected], pc)
      /\ \A h \in hlStates \ {selected} : hlSeg'[h] = hlSeg[h]
  BY <1>3, <1>4, <1>5
<1>7. ReplacedByChildren(hlSeg[selected], hlStates \ {selected})
  BY <1>2, <1>3, <1>6 DEF ReplacedByChildren
<1>8. Lists(queue', hlStates') /\ NoState \notin hlStates' /\ selected' = selectState(queue')
  BY <1>2, InvLists, QueueUpdateLists DEF doUpdateStep
<1>9. selected' \in hlStates' \cup {NoState}
  BY <1>8, SelectFromQueue
<1>10. TypeOK'
  <2>1. /\ seg' \in [States -> Segments' \cup {NoSegment}] /\ hlSeg' \in Seq(Segments')
        /\ hlStates' \subseteq 1..Len(hlSeg') /\ target' \in 0..Len(hlSeg')
    BY Zenon, <1>1, <1>2, <1>6 DEF ExecutorInv, TypeOK
  <2>2. \A m \in States : Tracked(m)' => status'[m] = "alive"
    BY Zenon, <1>2 DEF ExecutorInv, TypeOK, Tracked
  <2> QED BY Zenon, <1>1, <1>2, <1>8, <1>9, <2>1, <2>2 DEF ExecutorInv, TypeOK, Lists
<1>11. FrontierInv'
  <2>1. SelectorInSync'
    BY <1>8 DEF SelectorInSync, Lists
  <2> QED BY <1>2, <1>7, <2>1, AdvanceFrontier DEF FrontierInv
<1> QED BY <1>1, <1>7, <1>10, <1>11 DEF ExecutorInv

\* addStates(): the forked states h+1..h+n are put in front one after the other.
LEMMA QueueAddManyLists ==
  ASSUME NEW h \in Nat, NEW n \in Nat, NEW S \in SUBSET (1..h), NEW q, Lists(q, S)
  PROVE  Lists([i \in 1..Len(q)+n |-> IF i <= n THEN h + n + 1 - i ELSE q[i-n]],
               S \cup (h+1..h+n))
<1> DEFINE r == [i \in 1..Len(q)+n |-> IF i <= n THEN h + n + 1 - i ELSE q[i-n]]
           T == S \cup (h+1..h+n)
<1>1. /\ q \in Seq(S) /\ Len(q) \in Nat /\ \A i \in 1..Len(q) : q[i] \in S /\ q[i] \in 1..h
      /\ \A i, j \in 1..Len(q) : q[i] = q[j] => i = j
  <2>1. q \in Seq(S) /\ \A i, j \in 1..Len(q) : q[i] = q[j] => i = j
    BY DEF Lists
  <2>2. Len(q) \in Nat /\ \A i \in 1..Len(q) : q[i] \in S
    BY <2>1
  <2> QED BY Zenon, <2>1, <2>2
<1>2. \A i \in 1..Len(q)+n : r[i] = IF i <= n THEN h + n + 1 - i ELSE q[i-n]
  OBVIOUS
<1>3. \A i \in 1..Len(q)+n : i > n => i-n \in 1..Len(q)
  BY <1>1
<1>4. \A i \in 1..Len(q)+n : r[i] \in T
  BY <1>1, <1>2, <1>3
<1>5. r \in Seq(T) /\ Len(r) = Len(q) + n
  <2>1. Len(q) + n \in Nat /\ r \in [1..Len(q)+n -> T]
    BY <1>1, <1>4
  <2> HIDE DEF r
  <2> QED BY <2>1
<1> HIDE DEF r
<1>6. \A g \in T : \E i \in 1..Len(r) : r[i] = g
  <2> SUFFICES ASSUME NEW g \in T PROVE \E i \in 1..Len(q)+n : r[i] = g
    BY <1>5
  <2>1. CASE g \in S
    <3>1. PICK i \in 1..Len(q) : q[i] = g
      BY <2>1 DEF Lists
    <3>2. i + n \in 1..Len(q)+n /\ r[i + n] = g
      BY <1>1, <1>2, <3>1
    <3> QED BY <3>2
  <2>2. CASE g \in h+1..h+n
    <3>1. h + n + 1 - g \in 1..Len(q)+n /\ h + n + 1 - g <= n
      BY <1>1, <2>2
    <3>2. r[h + n + 1 - g] = g
      BY <1>2, <2>2, <3>1
    <3> QED BY <3>1, <3>2
  <2> QED BY <2>1, <2>2
<1>7. \A i, j \in 1..Len(r) : r[i] = r[j] => i = j
  <2> SUFFICES ASSUME NEW i \in 1..Len(q)+n, NEW j \in 1..Len(q)+n, r[i] = r[j] PROVE i = j
    BY <1>5
  <2>1. CASE i <= n /\ j <= n
    BY <1>2, <2>1
  <2>2. CASE i > n /\ j > n
    <3>1. q[i-n] = q[j-n] /\ i-n \in 1..Len(q) /\ j-n \in 1..Len(q)
      BY <1>2, <1>3, <2>2
    <3>2. i-n = j-n
      BY <1>1, <3>1
    <3> QED BY <3>2
  <2>3. CASE i <= n /\ j > n
    BY <1>1, <1>2, <1>3, <2>3
  <2>4. CASE i > n /\ j <= n
    BY <1>1, <1>2, <1>3, <2>4
  <2> QED BY <2>1, <2>2, <2>3, <2>4
<1> QED BY Zenon, <1>5, <1>6, <1>7 DEF Lists, r

\* doUpdateSelectedState() forks HL states onto the children that open paths.
LEMMA UpdateForkInv ==
  ASSUME ExecutorInv, doUpdateFork
  PROVE  /\ ExecutorInv'
         /\ ReplacedByChildren(hlSeg[selected], hlStates \ {selected})
<1>1. TreeTypeOK' /\ TreeInv' /\ Segments' = Segments
  BY Zenon, TreeUnchanged DEF doUpdateFork
<1>2. /\ status' = status /\ seg' = seg /\ apic' = apic
      /\ target' = target /\ phase' = phase /\ phase = "update" /\ path' = path
      /\ selected \in hlStates /\ Advancing
  BY Zenon DEF doUpdateFork, Advancing, ExecutorInv, TypeOK, treeVars
<1> DEFINE s == hlSeg[selected]
           h == Len(hlSeg)
           q == QueueUpdate(queue, selected)
           rest == hlStates \ {selected}
<1>3. PICK pc \in HLPC :
        LET n == Cardinality(Children(s) \ {pc})
            newQueue == [i \in 1..Len(q)+n |-> IF i <= n THEN h + n + 1 - i ELSE q[i-n]]
        IN  /\ SamePath(s) = {pc}
            /\ \E o \in Orders(Children(s) \ {pc}) :
                 hlSeg' = [i \in 1..h+n |->
                             IF i = selected THEN Append(s, pc)
                             ELSE IF i <= h THEN hlSeg[i] ELSE Append(s, o[i-h])]
            /\ hlStates' = hlStates \cup (h+1..h+n)
            /\ queue' = newQueue
            /\ selected' = selectState(newQueue)
  BY Zenon DEF doUpdateFork
<1> DEFINE F == Children(s) \ {pc}
           n == Cardinality(F)
<1>4. PICK o \in Orders(F) :
        hlSeg' = [i \in 1..h+n |-> IF i = selected THEN Append(s, pc)
                                   ELSE IF i <= h THEN hlSeg[i] ELSE Append(s, o[i-h])]
  BY Zenon, <1>3
<1>5. /\ hlStates' = hlStates \cup (h+1..h+n)
      /\ queue' = [i \in 1..Len(q)+n |-> IF i <= n THEN h + n + 1 - i ELSE q[i-n]]
      /\ selected' = selectState(queue') /\ pc \in Children(s)
  BY <1>3 DEF SamePath
<1>6. n \in Nat
  <2>1. IsFiniteSet(F)
    BY HLPCAssumption, FS_Subset DEF Children
  <2> QED BY <2>1, FS_CardinalityType
<1>7. /\ o \in [1..n -> F]
      /\ \A i, j \in 1..n : o[i] = o[j] => i = j
      /\ \A pd \in F : \E i \in 1..n : o[i] = pd
  BY Zenon DEF Orders
<1> HIDE DEF n
<1>8. /\ h \in Nat /\ hlStates \subseteq 1..h /\ selected \in 1..h
      /\ hlSeg \in Seq(Segments) /\ s \in Seq(Nat)
  BY <1>2, HighLevelSegment DEF ExecutorInv, TypeOK
<1>9. \A pd \in Children(s) : Append(s, pd) \in Segments /\ pd \in Nat
  BY HLPCAssumption DEF Children
<1>10. /\ \A i \in 1..h+n : hlSeg'[i] = IF i = selected THEN Append(s, pc)
                                         ELSE IF i <= h THEN hlSeg[i] ELSE Append(s, o[i-h])
       /\ DOMAIN hlSeg' = 1..h+n
  BY <1>4
<1> HIDE DEF s, h, q, F
<1>11. \A i \in h+1..h+n : i-h \in 1..n /\ o[i-h] \in F /\ i # selected /\ ~(i <= h) /\ i \in 1..h+n
  BY <1>6, <1>7, <1>8
<1>12. /\ hlSeg'[selected] = Append(s, pc)
       /\ \A g \in rest : hlSeg'[g] = hlSeg[g]
       /\ \A i \in h+1..h+n : hlSeg'[i] = Append(s, o[i-h])
  <2>1. selected \in 1..h+n
    BY <1>6, <1>8
  <2>2. \A g \in rest : g \in 1..h+n /\ g # selected /\ g <= h
    BY <1>6, <1>8
  <2> QED BY <1>10, <1>11, <2>1, <2>2
<1>13. hlSeg' \in Seq(Segments') /\ Len(hlSeg') = h + n
  <2>1. \A i \in 1..h+n : hlSeg'[i] \in Segments
    <3> SUFFICES ASSUME NEW i \in 1..h+n PROVE hlSeg'[i] \in Segments
      OBVIOUS
    <3>1. CASE i = selected
      BY Zenon, <1>5, <1>9, <1>12, <3>1
    <3>2. CASE i # selected /\ i <= h
      <4>1. hlSeg'[i] = hlSeg[i] /\ i \in 1..h
        BY <1>8, <1>10, <3>2
      <4> QED BY <1>8, <4>1 DEF h
    <3>3. CASE i # selected /\ ~(i <= h)
      <4>1. i \in h+1..h+n
        BY <1>6, <1>8, <3>3
      <4> QED BY Zenon, <1>9, <1>11, <1>12, <4>1 DEF F
    <3> QED BY <3>1, <3>2, <3>3
  <2>2. hlSeg' \in [1..h+n -> Segments]
    BY <1>4, <2>1
  <2> QED BY <1>1, <1>6, <1>8, <2>2
<1>14. ReplacedByChildren(s, rest)
  <2>1. ASSUME NEW g \in hlStates' \ rest PROVE g = selected \/ g \in h+1..h+n
    BY <1>5
  <2>2. rest \subseteq hlStates' /\ selected \in hlStates' /\ (h+1..h+n) \subseteq hlStates'
    BY <1>2, <1>5
  <2>3. ASSUME NEW g \in hlStates' \ rest
        PROVE  \E pd \in Children(s) : hlSeg'[g] = Append(s, pd)
    <3>1. CASE g = selected
      BY Zenon, <1>5, <1>12, <3>1
    <3>2. CASE g \in h+1..h+n
      BY <1>11, <1>12, <3>2 DEF F
    <3> QED BY Zenon, <2>1, <3>1, <3>2
  <2>4. ASSUME NEW f \in hlStates' \ rest, NEW g \in hlStates' \ rest, hlSeg'[f] = hlSeg'[g]
        PROVE  f = g
    <3>1. \A pd, pe \in Nat : Append(s, pd) = Append(s, pe) => pd = pe
      BY <1>8, AppendedApart
    <3>2. CASE f = selected /\ g = selected
      BY <3>2
    <3>3. CASE f = selected /\ g \in h+1..h+n
      <4>1. Append(s, pc) = Append(s, o[g-h])
        BY <1>12, <2>4, <3>3, Zenon
      <4>2. pc = o[g-h]
        BY Zenon, <1>5, <1>9, <1>11, <3>1, <3>3, <4>1 DEF F
      <4> QED BY <1>11, <3>3, <4>2 DEF F
    <3>4. CASE f \in h+1..h+n /\ g = selected
      <4>1. Append(s, pc) = Append(s, o[f-h])
        BY <1>12, <2>4, <3>4, Zenon
      <4>2. pc = o[f-h]
        BY Zenon, <1>5, <1>9, <1>11, <3>1, <3>4, <4>1 DEF F
      <4> QED BY <1>11, <3>4, <4>2 DEF F
    <3>5. CASE f \in h+1..h+n /\ g \in h+1..h+n
      <4>1. Append(s, o[f-h]) = Append(s, o[g-h])
        BY <1>12, <2>4, <3>5, Zenon
      <4>2. o[f-h] = o[g-h]
        BY Zenon, <1>9, <1>11, <3>1, <3>5, <4>1 DEF F
      <4>3. f-h = g-h
        BY Zenon, <1>7, <1>11, <3>5, <4>2
      <4> QED BY <1>6, <1>8, <3>5, <4>3
    <3> QED BY Zenon, <2>1, <3>2, <3>3, <3>4, <3>5
  <2>5. ASSUME NEW pd \in Children(s)
        PROVE  \E g \in hlStates' : hlSeg'[g] = Append(s, pd)
    <3>1. CASE pd = pc
      BY Zenon, <1>12, <2>2, <3>1
    <3>2. CASE pd # pc
      <4>1. PICK i \in 1..n : o[i] = pd
        BY <1>7, <3>2 DEF F
      <4>2. h+i \in h+1..h+n /\ (h+i)-h = i
        BY <1>6, <1>8
      <4>3. hlSeg'[h+i] = Append(s, pd)
        BY Zenon, <1>12, <4>1, <4>2
      <4> QED BY Zenon, <2>2, <4>2, <4>3
    <3> QED BY <3>1, <3>2
  <2> QED BY <1>12, <2>2, <2>3, <2>4, <2>5 DEF ReplacedByChildren
<1>15. Lists(queue', hlStates')
  <2>1. Lists(q, hlStates)
    BY <1>2, InvLists, QueueUpdateLists DEF q
  <2> QED BY Zenon, <1>5, <1>6, <1>8, <2>1, QueueAddManyLists
<1>16. hlStates' \subseteq 1..Len(hlSeg') /\ target' \in 0..Len(hlSeg')
  <2>1. target \in 0..h
    BY DEF ExecutorInv, TypeOK, h
  <2> QED BY <1>2, <1>5, <1>6, <1>8, <1>13, <2>1
<1>17. NoState \notin hlStates' /\ selected' \in hlStates' \cup {NoState}
  <2>1. NoState \notin hlStates'
    BY SMTT(40), <1>13, <1>16 DEF NoState
  <2> QED BY Zenon, <1>5, <1>15, <2>1, SelectFromQueue
<1>18. TypeOK'
  <2>1. seg' \in [States -> Segments' \cup {NoSegment}]
    BY <1>1, <1>2 DEF ExecutorInv, TypeOK
  <2>2. \A m \in States : Tracked(m)' => status'[m] = "alive"
    BY Zenon, <1>2 DEF ExecutorInv, TypeOK, Tracked
  <2> QED BY Zenon, <1>1, <1>2, <1>13, <1>15, <1>16, <1>17, <2>1, <2>2
          DEF ExecutorInv, TypeOK, Lists
<1>19. FrontierInv'
  <2>1. SelectorInSync'
    BY Zenon, <1>5, <1>15 DEF SelectorInSync, Lists
  <2> QED BY Zenon, <1>2, <1>14, <2>1, AdvanceFrontier DEF FrontierInv, s
<1> QED BY Zenon, <1>1, <1>14, <1>18, <1>19 DEF ExecutorInv, s

\* tryUpdateSelectedState() ends and tells the low-level strategy its target.
LEMMA UpdateEndInv ==
  ASSUME ExecutorInv, tryUpdateSelectedStateEnd
  PROVE  ExecutorInv'
<1>1. TreeTypeOK' /\ TreeInv' /\ Segments' = Segments
  BY TreeUnchanged DEF tryUpdateSelectedStateEnd
<1>2. /\ status' = status /\ seg' = seg /\ apic' = apic /\ hlSeg' = hlSeg
      /\ hlStates' = hlStates /\ queue' = queue /\ selected' = selected
      /\ phase' = "idle" /\ target' = NextTarget
      /\ selected = NoState \/ StatesAt(hlSeg[selected]) # {}
  BY DEF tryUpdateSelectedStateEnd, hlVars, Advancing
<1>3. TypeOK'
  <2>1. target' \in 0..Len(hlSeg')
    BY <1>2 DEF ExecutorInv, TypeOK, NextTarget, NoState
  <2>2. \A m \in States : Tracked(m)' => status'[m] = "alive"
    BY Zenon, <1>2 DEF ExecutorInv, TypeOK, Tracked
  <2> QED BY Zenon, <1>1, <1>2, <2>1, <2>2 DEF ExecutorInv, TypeOK
<1>4. FrontierInv'
  <2>1. \A m \in States : Tracked(m)' => \E h \in hlStates' : AtOrBelow(seg'[m], hlSeg'[h])
    BY Zenon, <1>2 DEF ExecutorInv, FrontierInv, Tracked
  <2>2. SelectorInSync'
    BY <1>2 DEF ExecutorInv, FrontierInv, SelectorInSync, selectState
  <2>3. selected' # NoState => target' = selected' /\ (StatesAt(hlSeg[selected]) # {})'
    BY <1>2 DEF NextTarget, StatesAt
  <2> QED BY Zenon, <1>2, <2>1, <2>2, <2>3 DEF ExecutorInv, FrontierInv
<1> QED BY <1>1, <1>3, <1>4 DEF ExecutorInv

\* A step that changes nothing keeps the invariant.
LEMMA StutterInv ==
  ASSUME ExecutorInv, UNCHANGED vars
  PROVE  ExecutorInv'
<1>1. TreeTypeOK' /\ TreeInv' /\ Segments' = Segments
  BY TreeUnchanged DEF vars, treeVars
<1>2. /\ status' = status /\ seg' = seg /\ apic' = apic /\ hlSeg' = hlSeg
      /\ hlStates' = hlStates /\ queue' = queue /\ selected' = selected
      /\ phase' = phase /\ target' = target
  BY DEF vars
<1>3. TypeOK'
  BY Zenon, <1>1, <1>2 DEF ExecutorInv, TypeOK, Tracked
<1>4. FrontierInv'
  BY <1>2 DEF ExecutorInv, FrontierInv, Tracked, SelectorInSync, selectState, StatesAt
<1> QED BY <1>1, <1>3, <1>4 DEF ExecutorInv

\* The invariant is inductive.
LEMMA NextInv == ExecutorInv /\ [Next]_vars => ExecutorInv'
<1> SUFFICES ASSUME ExecutorInv, [Next]_vars PROVE ExecutorInv'
  OBVIOUS
<1>1. ASSUME NEW l \in States, getState(l) PROVE ExecutorInv'
  BY Zenon, <1>1, CreateStateInv DEF getState, NewSegments, createState
<1>2. ASSUME NEW l \in States, NEW pc \in HLPC, onFirstHighLevelPCUpdate(l, pc)
      PROVE  ExecutorInv'
  <2>1. pc \in Nat
    BY HLPCAssumption
  <2> QED BY Zenon, <1>2, <2>1, CreateStateInv DEF onFirstHighLevelPCUpdate, NewSegments
<1>3. ASSUME NEW l \in States, NEW pc \in HLPC, onHighLevelPCUpdate(l, pc)
      PROVE  ExecutorInv'
  BY <1>3, PCUpdateInv
<1>4. ASSUME NEW l \in States, onStateKill(l) PROVE ExecutorInv'
  BY <1>4, KillInv
<1>5. ASSUME NEW l \in States, NEW n \in States, onStateFork(l, n) PROVE ExecutorInv'
  BY <1>5, ForkInv
<1>6. ASSUME tryUpdateSelectedState PROVE ExecutorInv'
  BY <1>6, UpdateKillInv, UpdateStepInv, UpdateForkInv, UpdateEndInv
  DEF tryUpdateSelectedState, doUpdateSelectedState
<1>7. CASE UNCHANGED vars
  BY <1>7, StutterInv
<1> QED BY Zenon, <1>1, <1>2, <1>3, <1>4, <1>5, <1>6, <1>7 DEF Next, allStatesTerminated

\* The executor's invariant holds in every reachable state, for any number of
\* S2E states, any high-level program counters and either selector.
THEOREM ExecutorInvariant == Spec => []ExecutorInv
  BY InitInv, NextInv, PTL DEF Spec

-----------------------------------------------------------------------------
(* The properties.                                                         *)

\* The fields keep their types.
THEOREM TypeCorrect == Spec => []TypeOK
<1>1. ExecutorInv => TypeOK
  BY DEF ExecutorInv
<1> QED BY <1>1, ExecutorInvariant, PTL

\* No LL state is lost to the high-level search and none is in it twice.
THEOREM CoveredAlways == Spec => []Covered
<1>1. ExecutorInv => Covered
  <2> SUFFICES ASSUME ExecutorInv, NEW l \in States, Tracked(l)
               PROVE  \E h \in hlStates :
                         /\ AtOrBelow(seg[l], hlSeg[h])
                         /\ \A g \in hlStates : AtOrBelow(seg[l], hlSeg[g]) => g = h
    BY DEF Covered
  <2>1. PICK h \in hlStates : AtOrBelow(seg[l], hlSeg[h])
    BY DEF ExecutorInv, FrontierInv
  <2>2. ASSUME NEW g \in hlStates, AtOrBelow(seg[l], hlSeg[g]) PROVE g = h
    <3>1. seg[l] \in Seq(Nat) /\ hlSeg[g] \in Seq(Nat) /\ hlSeg[h] \in Seq(Nat)
      BY Zenon, HighLevelSegment DEF ExecutorInv, TypeOK, TreeTypeOK, Tracked
    <3>2. AtOrBelow(hlSeg[g], hlSeg[h]) \/ AtOrBelow(hlSeg[h], hlSeg[g])
      BY Zenon, <2>1, <2>2, <3>1, BelowLinear
    <3> QED BY Zenon, <3>2 DEF ExecutorInv, FrontierInv
  <2> QED BY <2>1, <2>2
<1> QED BY <1>1, ExecutorInvariant, PTL

\* Two HL states are never on one path, nor one below the other.
THEOREM DistinctPathsAlways == Spec => []DistinctPaths
<1>1. ExecutorInv => DistinctPaths
  BY Zenon, HighLevelSegment DEF DistinctPaths, ExecutorInv, FrontierInv, TreeInv
<1> QED BY <1>1, ExecutorInvariant, PTL

\* The assertions of SelectorStrategy hold.
THEOREM SelectorInSyncAlways == Spec => []SelectorInSync
<1>1. ExecutorInv => SelectorInSync
  BY Zenon DEF ExecutorInv, FrontierInv
<1> QED BY <1>1, ExecutorInvariant, PTL

\* The low-level strategy has a LL state to run whenever one is tracked.
THEOREM TargetRunnableAlways == Spec => []TargetRunnable
<1>1. ExecutorInv => TargetRunnable
  <2> SUFFICES ASSUME ExecutorInv, phase = "idle", NEW l \in States, Tracked(l)
               PROVE  selected # NoState /\ target = selected /\ StatesAt(hlSeg[target]) # {}
    BY DEF TargetRunnable
  <2>1. hlStates # {}
    BY DEF ExecutorInv, FrontierInv
  <2>2. selected # NoState
    BY <2>1, InvLists, SelectFromQueue
  <2> QED BY <2>2 DEF ExecutorInv, FrontierInv
<1> QED BY <1>1, ExecutorInvariant, PTL

\* If no high-level PC is zero, a fork finds the child that continues the path.
THEOREM SteppingSuccessorAlways ==
  ASSUME 0 \notin HLPC
  PROVE  Spec => []SteppingSuccessor
<1>1. ExecutorInv => SteppingSuccessor
  <2> SUFFICES ASSUME ExecutorInv, Advancing, Cardinality(Children(hlSeg[selected])) > 1
               PROVE  \E pc \in Children(hlSeg[selected]) :
                         SamePath(hlSeg[selected]) = {pc} /\ pc # 0
    BY DEF SteppingSuccessor
  <2>1. selected \in hlStates
    BY DEF Advancing, ExecutorInv, TypeOK
  <2>2. Children(hlSeg[selected]) # {}
    <3> SUFFICES ASSUME Children(hlSeg[selected]) = {} PROVE FALSE
      OBVIOUS
    <3>1. Cardinality(Children(hlSeg[selected])) = 0
      BY Zenon, FS_EmptySet
    <3> QED BY <3>1
  <2>3. PICK pc \in HLPC : SamePath(hlSeg[selected]) = {pc}
    BY <2>1, <2>2, HighLevelSegment DEF ExecutorInv, TreeInv
  <2> QED BY <2>3 DEF SamePath, Children
<1> QED BY <1>1, ExecutorInvariant, PTL

-----------------------------------------------------------------------------
(* What a step may do to a high-level state.                               *)

\* The step formula of HighLevelProgress.
ProgressStep ==
    \A h \in hlStates :
        IF h \in hlStates'
        THEN /\ path'[hlSeg'[h]] = path[hlSeg[h]]
             /\ hlSeg'[h] # hlSeg[h] =>
                   /\ StatesAt(hlSeg[h]) = {}
                   /\ AtOrBelow(hlSeg'[h], hlSeg[h])
                   /\ Len(hlSeg'[h]) = Len(hlSeg[h]) + 1
        ELSE \A l \in States : Tracked(l) => ~AtOrBelow(seg[l], hlSeg[h])

\* HL states that stay where they are, on segments that keep their path.
LEMMA StayProgress ==
  ASSUME hlStates \subseteq hlStates',
         \A h \in hlStates : hlSeg'[h] = hlSeg[h] /\ path'[hlSeg[h]] = path[hlSeg[h]]
  PROVE  ProgressStep
  BY DEF ProgressStep

\* The HL state that advances along its own path.
LEMMA AdvanceProgress ==
  ASSUME ExecutorInv, Advancing, path' = path, hlStates \subseteq hlStates',
         \A h \in hlStates \ {selected} : hlSeg'[h] = hlSeg[h],
         NEW pc \in Nat, hlSeg'[selected] = Append(hlSeg[selected], pc),
         path[Append(hlSeg[selected], pc)] = path[hlSeg[selected]]
  PROVE  ProgressStep
<1>1. selected \in hlStates
  BY DEF Advancing, ExecutorInv, TypeOK
<1>2. /\ AtOrBelow(Append(hlSeg[selected], pc), hlSeg[selected])
      /\ Len(Append(hlSeg[selected], pc)) = Len(hlSeg[selected]) + 1
  BY <1>1, HighLevelSegment, BelowChild
<1>3. StatesAt(hlSeg[selected]) = {}
  BY DEF Advancing
<1>4. /\ AtOrBelow(hlSeg'[selected], hlSeg[selected])
      /\ Len(hlSeg'[selected]) = Len(hlSeg[selected]) + 1
      /\ path'[hlSeg'[selected]] = path[hlSeg[selected]]
  BY <1>2, Zenon
<1>5. \A h \in hlStates \ {selected} : path'[hlSeg'[h]] = path[hlSeg[h]]
  BY Zenon
<1> QED BY Zenon, <1>3, <1>4, <1>5 DEF ProgressStep

\* Every step of the executor treats every HL state as ProgressStep says.
LEMMA NextProgress == ExecutorInv /\ [Next]_vars => ProgressStep \/ UNCHANGED vars
<1> SUFFICES ASSUME ExecutorInv, Next PROVE ProgressStep \/ UNCHANGED vars
  OBVIOUS
<1>0. TreeTypeOK /\ TreeInv /\ \A h \in hlStates : hlSeg[h] \in Segments
  BY HighLevelSegment DEF ExecutorInv, TypeOK
<1>1. ASSUME NEW l \in States, NEW s, NEW created, NEW pc \in Nat,
             NewSegments(created, pc), createState(l, s, created)
      PROVE  ProgressStep
  <2>1. \A t \in Segments : path'[t] = path[t]
    BY Zenon, <1>0, <1>1, NewRootTree DEF createState
  <2>2. hlStates \subseteq hlStates' /\ \A h \in hlStates : hlSeg'[h] = hlSeg[h]
    BY <1>1 DEF createState, ExecutorInv, TypeOK
  <2> QED BY <1>0, <2>1, <2>2, StayProgress
<1>2. ASSUME NEW l \in States, getState(l) PROVE ProgressStep
  BY <1>1, <1>2 DEF getState, NewSegments
<1>3. ASSUME NEW l \in States, NEW pc \in HLPC, onFirstHighLevelPCUpdate(l, pc)
      PROVE  ProgressStep
  BY <1>1, <1>3, HLPCAssumption DEF onFirstHighLevelPCUpdate, NewSegments
<1>4. ASSUME NEW l \in States, NEW pc \in HLPC, onHighLevelPCUpdate(l, pc)
      PROVE  ProgressStep
  <2>1. seg[l] \in Segments /\ getNextSegment(seg[l], pc)
    BY <1>4 DEF onHighLevelPCUpdate, Tracked, ExecutorInv, TypeOK
  <2>2. \A t \in Segments : path'[t] = path[t]
    BY <1>0, <2>1, NextSegmentTree
  <2> QED BY <1>0, <1>4, <2>2, StayProgress DEF onHighLevelPCUpdate, hlVars
<1>5. ASSUME UNCHANGED <<treeVars, hlVars>> PROVE ProgressStep
  BY Zenon, <1>5, StayProgress DEF treeVars, hlVars
<1>6. ASSUME doUpdateKill PROVE ProgressStep
  <2>1. /\ hlSeg' = hlSeg /\ path' = path /\ hlStates' = hlStates \ {selected}
    BY <1>6 DEF doUpdateKill, treeVars
  <2>2. \A l \in States : Tracked(l) => ~AtOrBelow(seg[l], hlSeg[selected])
    BY <1>6, NothingBelow DEF doUpdateKill
  <2> QED BY <2>1, <2>2 DEF ProgressStep
<1>7. ASSUME Advancing, Children(hlSeg[selected]) # {}
      PROVE  \E pc \in HLPC : SamePath(hlSeg[selected]) = {pc}
  <2>1. selected \in hlStates
    BY <1>7 DEF Advancing, ExecutorInv, TypeOK
  <2> QED BY <1>0, <1>7, <2>1 DEF TreeInv
<1>8. ASSUME doUpdateStep PROVE ProgressStep
  <2>1. PICK pc \in HLPC : /\ Children(hlSeg[selected]) = {pc}
                           /\ hlSeg' = [hlSeg EXCEPT ![selected] = Append(@, pc)]
    BY Zenon, <1>8 DEF doUpdateStep
  <2>2. Advancing /\ path' = path /\ hlStates' = hlStates
    BY <1>8 DEF doUpdateStep, treeVars
  <2>3. selected \in 1..Len(hlSeg) /\ hlStates \subseteq 1..Len(hlSeg) /\ pc \in Nat
    BY <2>2, HLPCAssumption DEF Advancing, ExecutorInv, TypeOK
  <2>4. path[Append(hlSeg[selected], pc)] = path[hlSeg[selected]]
    BY <1>7, <2>1, <2>2 DEF SamePath
  <2>5. /\ hlSeg'[selected] = Append(hlSeg[selected], pc)
        /\ \A h \in hlStates \ {selected} : hlSeg'[h] = hlSeg[h]
    BY <2>1, <2>3 DEF ExecutorInv, TypeOK
  <2> QED BY <2>2, <2>3, <2>4, <2>5, AdvanceProgress
<1>9. ASSUME doUpdateFork PROVE ProgressStep
  <2> DEFINE n(pc) == Cardinality(Children(hlSeg[selected]) \ {pc})
  <2>1. PICK pc \in HLPC :
          /\ SamePath(hlSeg[selected]) = {pc}
          /\ \E o \in Orders(Children(hlSeg[selected]) \ {pc}) :
               hlSeg' = [i \in 1..Len(hlSeg)+n(pc) |->
                           IF i = selected THEN Append(hlSeg[selected], pc)
                           ELSE IF i <= Len(hlSeg) THEN hlSeg[i]
                           ELSE Append(hlSeg[selected], o[i-Len(hlSeg)])]
          /\ hlStates' = hlStates \cup (Len(hlSeg)+1..Len(hlSeg)+n(pc))
    BY Zenon, <1>9 DEF doUpdateFork
  <2>2. n(pc) \in Nat
    <3>1. IsFiniteSet(Children(hlSeg[selected]) \ {pc})
      BY HLPCAssumption, FS_Subset DEF Children
    <3> QED BY <3>1, FS_CardinalityType
  <2> HIDE DEF n
  <2>3. PICK o \in Orders(Children(hlSeg[selected]) \ {pc}) :
          hlSeg' = [i \in 1..Len(hlSeg)+n(pc) |->
                      IF i = selected THEN Append(hlSeg[selected], pc)
                      ELSE IF i <= Len(hlSeg) THEN hlSeg[i]
                      ELSE Append(hlSeg[selected], o[i-Len(hlSeg)])]
    BY <2>1
  <2>4. Advancing /\ path' = path
    BY <1>9 DEF doUpdateFork, treeVars
  <2>5. /\ selected \in 1..Len(hlSeg) /\ hlStates \subseteq 1..Len(hlSeg) /\ pc \in Nat
        /\ Len(hlSeg) \in Nat
    BY <2>4, HLPCAssumption DEF Advancing, ExecutorInv, TypeOK
  <2>6. path[Append(hlSeg[selected], pc)] = path[hlSeg[selected]]
    BY <2>1 DEF SamePath
  <2>7. /\ selected \in 1..Len(hlSeg)+n(pc)
        /\ \A h \in hlStates : h \in 1..Len(hlSeg)+n(pc) /\ h <= Len(hlSeg)
    BY <2>2, <2>5
  <2>8. /\ hlSeg'[selected] = Append(hlSeg[selected], pc)
        /\ \A h \in hlStates \ {selected} : hlSeg'[h] = hlSeg[h]
    BY <2>3, <2>7
  <2> QED BY Zenon, <2>1, <2>4, <2>5, <2>6, <2>8, AdvanceProgress
<1> QED BY Zenon, <1>2, <1>3, <1>4, <1>5, <1>6, <1>8, <1>9
        DEF Next, onStateKill, onStateFork, tryUpdateSelectedState, doUpdateSelectedState,
            tryUpdateSelectedStateEnd, allStatesTerminated

\* An HL state keeps its path for life, moves down one segment at a time, never
\* past a LL state, and is killed only when its part of the tree is done.
THEOREM HighLevelProgressAlways == Spec => HighLevelProgress
<1>1. ExecutorInv /\ [Next]_vars => [ProgressStep]_vars
  BY Zenon, NextProgress
<1> QED BY <1>1, ExecutorInvariant, PTL DEF Spec, HighLevelProgress, ProgressStep

-----------------------------------------------------------------------------
(* Who can be interrupted.                                                 *)

\* Moving, forking and killing LL states keeps a lone state interruptible.
LEMMA NextLone ==
  ExecutorInv /\ LoneStateInterruptible /\ [Next]_vars => LoneStateInterruptible'
<1> SUFFICES ASSUME ExecutorInv, LoneStateInterruptible, [Next]_vars,
                    NEW m \in States, Tracked(m)', (StatesOn(path[seg[m]]) = {m})'
             PROVE  apic'[m]
  BY DEF LoneStateInterruptible
<1>0. /\ TreeTypeOK /\ TreeInv /\ seg \in [States -> Segments \cup {NoSegment}]
      /\ apic \in [States -> BOOLEAN] /\ \A k \in States : Tracked(k) => seg[k] \in Segments
  BY DEF ExecutorInv, TypeOK, Tracked
<1>1. ASSUME UNCHANGED <<seg, apic, path>> PROVE apic'[m]
  BY <1>1 DEF LoneStateInterruptible, Tracked, StatesOn
<1>2. ASSUME NEW l \in States, NEW s \in Segments', NEW created, createState(l, s, created),
             \A t \in Segments : path'[t] = path[t]
      PROVE  apic'[m]
  <2>1. seg' = [seg EXCEPT ![l] = s] /\ apic' = [apic EXCEPT ![l] = TRUE] /\ ~Tracked(l)
    BY <1>2 DEF createState
  <2>2. CASE m = l
    BY <1>0, <2>1, <2>2
  <2>3. CASE m # l
    <3>1. Tracked(m) /\ seg'[m] = seg[m] /\ apic'[m] = apic[m]
      BY <1>0, <2>1, <2>3 DEF Tracked
    <3>2. ASSUME NEW k \in StatesOn(path[seg[m]]) PROVE k \in StatesOn(path[seg[m]])'
      <4>1. Tracked(k) /\ k # l /\ path[seg[k]] = path[seg[m]] /\ k \in States
        BY <2>1, <3>2 DEF StatesOn, Tracked
      <4>2. seg'[k] = seg[k] /\ seg[k] \in Segments /\ seg[m] \in Segments
        BY Zenon, <1>0, <2>1, <3>1, <4>1
      <4>3. path'[seg'[k]] = path'[seg'[m]]
        BY <1>2, <3>1, <4>1, <4>2
      <4> QED BY <4>1, <4>2, <4>3 DEF StatesOn, Tracked
    <3>3. m \in StatesOn(path[seg[m]])
      BY <3>1 DEF StatesOn, Tracked
    <3>4. StatesOn(path[seg[m]]) = {m}
      BY <3>2, <3>3
    <3> QED BY <3>1, <3>4 DEF LoneStateInterruptible
  <2> QED BY <2>2, <2>3
<1>3. ASSUME NEW l \in States, NEW pc \in HLPC, onHighLevelPCUpdate(l, pc) PROVE apic'[m]
  <2> DEFINE s == seg[l]
             c == Append(s, pc)
             left == StatesOn(path[s]) \ {l}
             others == StatesOn(NextPath(s, pc)[c]) \ {l}
  <2>1. s \in Segments /\ getNextSegment(s, pc) /\ Tracked(l)
    BY Zenon, <1>0, <1>3 DEF onHighLevelPCUpdate
  <2>2. /\ \A t \in Segments : path'[t] = path[t]
        /\ path' = NextPath(s, pc)
    BY <1>0, <2>1, NextSegmentTree DEF getNextSegment
  <2>3. seg' = [seg EXCEPT ![l] = c] /\ apic' = ApicAfterMove(l, left, others)
    BY <1>3 DEF onHighLevelPCUpdate
  <2>4. \A k \in States \ {l} : seg'[k] = seg[k] /\ (Tracked(k) => path'[seg'[k]] = path[seg[k]])
    BY <1>0, <2>2, <2>3
  <2>5. c # NoSegment /\ seg'[l] = c
    <3>1. s \in Seq(Nat) /\ pc \in Nat
      BY <1>0, <2>1, HLPCAssumption DEF TreeTypeOK
    <3>2. c # <<>>
      BY <3>1, Appended
    <3> QED BY <1>0, <2>3, <3>2 DEF NoSegment
  <2> HIDE DEF c, s
  <2>6. CASE m = l
    <3>1. others = {}
      <4> SUFFICES ASSUME NEW k \in others PROVE FALSE
        OBVIOUS
      <4>1. k \in States \ {l} /\ Tracked(k) /\ path[seg[k]] = NextPath(s, pc)[c]
        BY DEF StatesOn, Tracked
      <4>2. seg'[k] # NoSegment /\ path'[seg'[k]] = path'[seg'[m]]
        BY <2>2, <2>4, <2>5, <2>6, <4>1 DEF Tracked
      <4>3. k \in StatesOn(path[seg[m]])'
        BY <4>1, <4>2 DEF StatesOn
      <4> QED BY <2>6, <4>1, <4>3
    <3> QED BY <2>3, <2>6, <3>1 DEF ApicAfterMove
  <2>7. CASE m # l
    <3>1. Tracked(m) /\ seg'[m] = seg[m] /\ path'[seg'[m]] = path[seg[m]]
      BY <2>4, <2>7 DEF Tracked
    <3>2. m \notin others
      <4> SUFFICES ASSUME m \in others PROVE FALSE
        OBVIOUS
      <4>1. path[seg[m]] = path'[c]
        BY <2>2 DEF StatesOn
      <4>2. l \in StatesOn(path[seg[m]])'
        BY <2>5, <3>1, <4>1 DEF StatesOn
      <4> QED BY <2>7, <4>2
    <3>3. \A k \in StatesOn(path[seg[m]]) : k = m \/ k = l
      <4> SUFFICES ASSUME NEW k \in StatesOn(path[seg[m]]), k # l PROVE k = m
        OBVIOUS
      <4>1. k \in States \ {l} /\ Tracked(k) /\ path[seg[k]] = path[seg[m]]
        BY DEF StatesOn, Tracked
      <4>2. k \in StatesOn(path[seg[m]])'
        BY <2>4, <3>1, <4>1 DEF StatesOn, Tracked
      <4> QED BY <4>2
    <3>4. m \in StatesOn(path[seg[m]])
      BY <3>1 DEF StatesOn, Tracked
    <3>5. CASE path[s] = path[seg[m]]
      <4>1. left = {m}
        BY Zenon, <2>7, <3>3, <3>4, <3>5
      <4> QED BY <2>3, <2>7, <3>2, <4>1 DEF ApicAfterMove
    <3>6. CASE path[s] # path[seg[m]]
      <4>1. l \notin StatesOn(path[seg[m]])
        BY <3>6 DEF StatesOn, s
      <4>2. apic[m] = TRUE
        BY <1>0, <3>1, <3>3, <3>4, <4>1 DEF LoneStateInterruptible
      <4> QED BY Zenon, <2>3, <2>7, <3>2, <4>2 DEF ApicAfterMove
    <3> QED BY <3>5, <3>6
  <2> QED BY <2>6, <2>7
<1>4. ASSUME NEW l \in States, NEW n \in States, onStateFork(l, n) PROVE apic'[m]
  <2>1. /\ path' = path /\ seg' = [seg EXCEPT ![n] = seg[l]] /\ l # n
        /\ apic' = IF Tracked(l) /\ StatesOn(path[seg[l]]) = {l}
                   THEN [apic EXCEPT ![l] = FALSE, ![n] = FALSE]
                   ELSE [apic EXCEPT ![n] = apic[l]]
    BY <1>4 DEF onStateFork, treeVars
  <2>2. seg[n] = NoSegment
    BY <1>4 DEF onStateFork, ExecutorInv, TypeOK, Tracked
  <2>3. m # n /\ seg'[m] = seg[m] /\ Tracked(m)
    <3>1. ASSUME m = n PROVE FALSE
      <4>1. seg'[l] = seg'[m] /\ seg'[m] # NoSegment
        BY <1>0, <2>1, <3>1 DEF Tracked
      <4>2. l \in StatesOn(path[seg[m]])'
        BY <4>1 DEF StatesOn
      <4> QED BY <2>1, <3>1, <4>2
    <3> QED BY <1>0, <2>1, <3>1 DEF Tracked
  <2>4. \A k \in StatesOn(path[seg[m]]) : k = m
    <3> SUFFICES ASSUME NEW k \in StatesOn(path[seg[m]]) PROVE k = m
      OBVIOUS
    <3>1. k \in States /\ seg[k] # NoSegment /\ path[seg[k]] = path[seg[m]] /\ k # n
      BY <2>2 DEF StatesOn
    <3>2. seg'[k] = seg[k]
      BY <1>0, <2>1, <3>1
    <3>3. k \in StatesOn(path[seg[m]])'
      BY <2>1, <2>3, <3>1, <3>2 DEF StatesOn
    <3> QED BY <3>3
  <2>5. StatesOn(path[seg[m]]) = {m}
    BY <2>3, <2>4 DEF StatesOn, Tracked
  <2>6. m # l
    <3> SUFFICES ASSUME m = l PROVE FALSE
      OBVIOUS
    <3>1. seg'[n] = seg'[m] /\ seg'[n] # NoSegment
      BY <1>0, <2>1, <2>3 DEF Tracked
    <3>2. n \in StatesOn(path[seg[m]])'
      BY <3>1 DEF StatesOn
    <3> QED BY <2>3, <3>2
  <2> QED BY <1>0, <2>1, <2>3, <2>5, <2>6 DEF LoneStateInterruptible
<1>5. ASSUME NEW l \in States, onStateKill(l) PROVE apic'[m]
  <2>1. path' = path
    BY <1>5 DEF onStateKill, treeVars
  <2>2. CASE ~Tracked(l)
    BY <1>1, <1>5, <2>1, <2>2 DEF onStateKill
  <2>3. CASE Tracked(l)
    <3>1. /\ seg' = [seg EXCEPT ![l] = NoSegment]
          /\ apic' = [k \in States |->
                        IF StatesOn(path[seg[l]]) \ {l} = {k} THEN TRUE ELSE apic[k]]
      BY Zenon, <1>5, <2>3 DEF onStateKill
    <3>2. m # l /\ seg'[m] = seg[m] /\ Tracked(m)
      BY <1>0, <3>1 DEF Tracked
    <3>3. \A k \in StatesOn(path[seg[m]]) : k = m \/ k = l
      <4> SUFFICES ASSUME NEW k \in StatesOn(path[seg[m]]), k # l PROVE k = m
        OBVIOUS
      <4>1. k \in States /\ seg'[k] = seg[k] /\ seg[k] # NoSegment /\ path[seg[k]] = path[seg[m]]
        BY <1>0, <3>1 DEF StatesOn
      <4>2. k \in StatesOn(path[seg[m]])'
        BY <2>1, <3>2, <4>1 DEF StatesOn
      <4> QED BY <4>2
    <3>4. m \in StatesOn(path[seg[m]])
      BY <3>2 DEF StatesOn, Tracked
    <3>5. CASE path[seg[l]] = path[seg[m]]
      <4>1. StatesOn(path[seg[l]]) \ {l} = {m}
        BY <3>2, <3>3, <3>4, <3>5
      <4> QED BY <3>1, <4>1
    <3>6. CASE path[seg[l]] # path[seg[m]]
      <4>1. StatesOn(path[seg[m]]) = {m}
        BY <3>3, <3>4, <3>6 DEF StatesOn
      <4> QED BY <1>0, <3>1, <3>2, <4>1 DEF LoneStateInterruptible
    <3> QED BY <3>5, <3>6
  <2> QED BY <2>2, <2>3
<1>6. ASSUME NEW l \in States, getState(l) PROVE apic'[m]
  <2>1. NewSegments({createRootSegment}, 0) /\ createState(l, createRootSegment, {createRootSegment})
    BY <1>6 DEF getState, NewSegments
  <2>2. addRoot({createRootSegment})
    BY <2>1 DEF createState
  <2> QED BY <1>0, <1>2, <2>1, <2>2, NewRootTree
<1>7. ASSUME NEW l \in States, NEW pc \in HLPC, onFirstHighLevelPCUpdate(l, pc) PROVE apic'[m]
  <2> DEFINE s == Append(createRootSegment, pc)
  <2>1. NewSegments({createRootSegment, s}, pc) /\ createState(l, s, {createRootSegment, s})
    BY <1>7 DEF onFirstHighLevelPCUpdate, NewSegments
  <2>2. addRoot({createRootSegment, s}) /\ pc \in Nat
    BY <2>1, HLPCAssumption DEF createState
  <2> HIDE DEF s
  <2> QED BY <1>0, <1>2, <2>1, <2>2, NewRootTree
<1> QED BY Zenon, <1>1, <1>3, <1>4, <1>5, <1>6, <1>7
        DEF Next, vars, treeVars, tryUpdateSelectedState, doUpdateSelectedState, doUpdateKill,
            doUpdateStep, doUpdateFork, tryUpdateSelectedStateEnd, allStatesTerminated

\* A LL state alone on its path has its timer interrupts on.
THEOREM LoneStateInterruptibleAlways == Spec => []LoneStateInterruptible
<1>1. Init => LoneStateInterruptible
  BY DEF Init, LoneStateInterruptible
<1> QED BY <1>1, NextLone, ExecutorInvariant, PTL DEF Spec

-----------------------------------------------------------------------------
(* The executor implements the search over high-level traces.              *)

\* The executor starts as the search does.
LEMMA InitSearch == Init => Search!Init
  BY DEF Init, Search!Init, Segments, Frontier, NoSegment

\* Entering the search at a new root.
LEMMA CreateStart ==
  ASSUME ExecutorInv, NEW l \in States, NEW pc \in Nat, NEW created,
         NEW s \in {createRootSegment} \cup {Append(createRootSegment, pd) : pd \in HLPC},
         created = {createRootSegment, s}, NewSegments(created, pc), createState(l, s, created)
  PROVE  Search!Start(l)
<1> DEFINE r == createRootSegment
<1>1. /\ r \in Seq(Nat) /\ Len(r) = 1 /\ r[1] = pathCount /\ TreeTypeOK /\ TreeInv
      /\ \A t \in Segments : t[1] \in Nat /\ t[1] # r[1]
  <2>1. TreeTypeOK /\ TreeInv
    BY DEF ExecutorInv, TypeOK
  <2>2. r \in Seq(Nat) /\ Len(r) = 1 /\ r[1] = pathCount
    BY <2>1 DEF createRootSegment, TreeTypeOK
  <2>3. \A t \in Segments : t[1] \in Nat /\ t[1] # pathCount
    BY <2>1 DEF TreeTypeOK, TreeInv
  <2> HIDE DEF r
  <2> QED BY <2>1, <2>2, <2>3
<1>2. /\ Segments' = Segments \cup created
      /\ \A t \in Segments : ~AtOrBelow(t, r)
  BY <1>1, NewRootTree DEF createState
<1> HIDE DEF r
<1>3. r \in Segments' \ Segments
  BY <1>1, <1>2, BelowSelf DEF r
<1>4. seg[l] = NoSegment /\ seg' = [seg EXCEPT ![l] = s] /\ seg'[l] = s
  BY DEF createState, Tracked, ExecutorInv, TypeOK
<1>5. Frontier' = Frontier \cup {r}
  <2>1. /\ hlStates' = hlStates \cup {Len(hlSeg) + 1} /\ hlStates \subseteq 1..Len(hlSeg)
        /\ hlSeg' = Append(hlSeg, r) /\ Len(hlSeg) \in Nat
    BY DEF createState, ExecutorInv, TypeOK, r
  <2>2. hlSeg'[Len(hlSeg) + 1] = r /\ \A h \in hlStates : hlSeg'[h] = hlSeg[h]
    BY <2>1 DEF ExecutorInv, TypeOK
  <2> QED BY <2>1, <2>2 DEF Frontier
<1>6. Segments' = Segments \cup {r, seg'[l]}
  BY <1>2, <1>4 DEF r
<1> QED BY Zenon, <1>1, <1>3, <1>4, <1>5, <1>6 DEF Search!Start, NoSegment, r

\* Killing, stepping and forking the selected HL state.
LEMMA AdvanceSearch ==
  ASSUME ExecutorInv, Advancing, UNCHANGED <<seg, path>>,
         ReplacedByChildren(hlSeg[selected], hlStates \ {selected})
  PROVE  \E f \in Frontier : Search!Advance(f)
<1> DEFINE s == hlSeg[selected]
           rest == hlStates \ {selected}
<1>1. selected \in hlStates /\ s \in Frontier /\ s \in Seq(Nat)
  BY HighLevelSegment DEF Advancing, ExecutorInv, TypeOK, Frontier
<1>2. \A l \in States : seg[l] # s
  BY DEF Advancing, StatesAt
<1>3. {hlSeg[h] : h \in rest} = Frontier \ {s}
  <2>1. \A h \in rest : hlSeg[h] # s
    <3> SUFFICES ASSUME NEW h \in rest, hlSeg[h] = s PROVE FALSE
      OBVIOUS
    <3>1. AtOrBelow(s, s)
      BY <1>1, BelowSelf
    <3>2. AtOrBelow(hlSeg[h], hlSeg[selected])
      BY <3>1, Zenon
    <3> QED BY <1>1, <3>2 DEF ExecutorInv, FrontierInv
  <2> QED BY <1>1, <2>1 DEF Frontier
<1>4. Frontier' = {hlSeg[h] : h \in rest} \cup {Append(s, pc) : pc \in Children(s)}
  <2>1. ASSUME NEW f \in Frontier'
        PROVE  f \in {hlSeg[h] : h \in rest} \cup {Append(s, pc) : pc \in Children(s)}
    <3>1. PICK h \in hlStates' : f = hlSeg'[h]
      BY DEF Frontier
    <3>2. CASE h \in rest
      BY <3>1, <3>2 DEF ReplacedByChildren
    <3>3. CASE h \notin rest
      BY <3>1, <3>3 DEF ReplacedByChildren
    <3> QED BY <3>2, <3>3
  <2>2. ASSUME NEW h \in rest PROVE hlSeg[h] \in Frontier'
    <3>1. h \in hlStates' /\ hlSeg'[h] = hlSeg[h]
      BY DEF ReplacedByChildren
    <3> QED BY <3>1 DEF Frontier
  <2>3. ASSUME NEW pc \in Children(s) PROVE Append(s, pc) \in Frontier'
    <3>1. PICK h \in hlStates' : hlSeg'[h] = Append(s, pc)
      BY DEF ReplacedByChildren
    <3> QED BY <3>1 DEF Frontier
  <2> QED BY Zenon, <2>1, <2>2, <2>3
<1>5. Segments' = Segments
  BY DEF Segments
<1> QED BY Zenon, <1>1, <1>2, <1>3, <1>4, <1>5 DEF Search!Advance, Children

\* Every step of the executor is a step of the search or leaves it unchanged.
LEMMA NextSearch == ExecutorInv /\ [Next]_vars => [Search!Next]_(Search!vars)
<1> SUFFICES ASSUME ExecutorInv, [Next]_vars PROVE Search!Next \/ UNCHANGED Search!vars
  OBVIOUS
<1>0. TreeTypeOK /\ TreeInv /\ seg \in [States -> Segments \cup {NoSegment}]
  BY DEF ExecutorInv, TypeOK
<1>1. ASSUME UNCHANGED <<seg, path, hlSeg, hlStates>> PROVE UNCHANGED Search!vars
  BY <1>1 DEF Search!vars, Segments, Frontier
<1>2. ASSUME NEW l \in States, getState(l) PROVE Search!Next
  <2>1. Search!Start(l)
    BY <1>2, CreateStart DEF getState, NewSegments
  <2> QED BY <2>1 DEF Search!Next
<1>3. ASSUME NEW l \in States, NEW pc \in HLPC, onFirstHighLevelPCUpdate(l, pc) PROVE Search!Next
  <2> DEFINE s == Append(createRootSegment, pc)
  <2>1. /\ NewSegments({createRootSegment, s}, pc) /\ createState(l, s, {createRootSegment, s})
        /\ s \in {createRootSegment} \cup {Append(createRootSegment, pd) : pd \in HLPC} /\ pc \in Nat
    BY <1>3, HLPCAssumption DEF onFirstHighLevelPCUpdate, NewSegments
  <2> HIDE DEF s
  <2>2. Search!Start(l)
    BY <2>1, CreateStart
  <2> QED BY <2>2 DEF Search!Next
<1>4. ASSUME NEW l \in States, NEW pc \in HLPC, onHighLevelPCUpdate(l, pc) PROVE Search!Next
  <2>1. /\ seg[l] # NoSegment /\ seg[l] \in Segments /\ getNextSegment(seg[l], pc)
        /\ seg' = [seg EXCEPT ![l] = Append(seg[l], pc)]
        /\ hlSeg' = hlSeg /\ hlStates' = hlStates
    BY <1>0, <1>4 DEF onHighLevelPCUpdate, Tracked, hlVars
  <2>2. Segments' = Segments \cup {Append(seg[l], pc)}
    BY <1>0, <2>1, NextSegmentTree
  <2>3. Search!Move(l, pc)
    BY <2>1, <2>2 DEF Search!Move, NoSegment, Frontier
  <2> QED BY <2>3 DEF Search!Next
<1>5. ASSUME NEW l \in States, NEW n \in States, onStateFork(l, n)
      PROVE  Search!Next \/ UNCHANGED Search!vars
  <2>1. /\ seg' = [seg EXCEPT ![n] = seg[l]] /\ UNCHANGED <<path, hlSeg, hlStates>>
        /\ seg[n] = NoSegment
    BY <1>5 DEF onStateFork, treeVars, hlVars, ExecutorInv, TypeOK, Tracked
  <2>2. CASE seg[l] = NoSegment
    <3>1. seg' = seg
      BY <1>0, <2>1, <2>2
    <3> QED BY <1>1, <2>1, <3>1
  <2>3. CASE seg[l] # NoSegment
    <3>1. Search!Clone(l, n)
      BY <2>1, <2>3 DEF Search!Clone, NoSegment, Segments, Frontier
    <3> QED BY <3>1 DEF Search!Next
  <2> QED BY <2>2, <2>3
<1>6. ASSUME NEW l \in States, onStateKill(l)
      PROVE  Search!Next \/ UNCHANGED Search!vars
  <2>1. UNCHANGED <<path, hlSeg, hlStates>>
    BY <1>6 DEF onStateKill, treeVars, hlVars
  <2>2. CASE ~Tracked(l)
    BY <1>1, <1>6, <2>1, <2>2 DEF onStateKill
  <2>3. CASE Tracked(l)
    <3>1. Search!Finish(l)
      BY <1>6, <2>1, <2>3 DEF onStateKill, Search!Finish, Tracked, NoSegment, Segments, Frontier
    <3> QED BY <3>1 DEF Search!Next
  <2> QED BY <2>2, <2>3
<1>7. ASSUME doUpdateSelectedState PROVE Search!Next
  <2>1. Advancing /\ UNCHANGED <<seg, path>>
    BY Zenon, <1>7 DEF doUpdateSelectedState, doUpdateKill, doUpdateStep, doUpdateFork, Terminating, treeVars
  <2>2. ReplacedByChildren(hlSeg[selected], hlStates \ {selected})
    <3>1. CASE doUpdateKill
      BY <3>1 DEF doUpdateKill, Terminating, ReplacedByChildren
    <3> QED BY Zenon, <1>7, <3>1, UpdateStepInv, UpdateForkInv DEF doUpdateSelectedState
  <2>3. \E f \in Frontier : Search!Advance(f)
    BY <2>1, <2>2, AdvanceSearch
  <2> QED BY Zenon, <2>3 DEF Search!Next
<1> QED BY Zenon, <1>1, <1>2, <1>3, <1>4, <1>5, <1>6, <1>7
        DEF Next, vars, treeVars, hlVars, tryUpdateSelectedState, tryUpdateSelectedStateEnd,
            allStatesTerminated

\* The executor is a search over high-level traces, whatever the selector picks.
THEOREM ExecutorImplementsSearch == Spec => ImplementsSearch
  BY InitSearch, NextSearch, ExecutorInvariant, PTL DEF Spec, ImplementsSearch, Search!Spec

-----------------------------------------------------------------------------
(* The sprout strategy.                                                    *)

\* Between events, a tracked state means a target.
LEMMA Runnable ==
    ASSUME ExecutorInv PROVE TargetRunnable
<1> SUFFICES ASSUME phase = "idle", NEW l \in States, Tracked(l)
             PROVE  selected # NoState /\ target = selected /\ StatesAt(hlSeg[target]) # {}
  BY DEF TargetRunnable
<1>1. hlStates # {}  BY DEF ExecutorInv, FrontierInv
<1>2. selected # NoState  BY <1>1, InvLists, SelectFromQueue
<1> QED  BY <1>2 DEF ExecutorInv, FrontierInv

\* Before the executor tracks the first state there is no other; from then on,
\* unless states may fork untracked, every state is tracked.
SproutInv ==
    /\ running \in States
    /\ \/ \A l \in Alive : Tracked(l)
       \/ Alive = {running} /\ target = NoState

\* At first no state is tracked, and the only one is running.
LEMMA SproutInitInv == SproutInit => SproutInv
<1> SUFFICES ASSUME SproutInit PROVE SproutInv  OBVIOUS
<1>1. PICK l \in States : status = [m \in States |-> IF m = l THEN "alive" ELSE "unborn"]
  BY DEF SproutInit, Init
<1>2. Alive = {l} /\ running \in Alive /\ target = NoState
  BY <1>1 DEF SproutInit, Init, Alive
<1> QED  BY <1>2 DEF SproutInv

\* Which state runs is S2E's choice; what it does is a step of the executor.
LEMMA SproutNextIsNext == SproutInv /\ [SproutNext]_sproutVars => [Next]_vars
<1> SUFFICES ASSUME SproutInv, [SproutNext]_sproutVars PROVE [Next]_vars
  OBVIOUS
<1>1. running \in States  BY DEF SproutInv
<1>2. ASSUME run PROVE Next  BY Zenon, <1>1, <1>2 DEF run, Next
<1>3. ASSUME NEW l \in States, terminateState(l) PROVE Next
  BY Zenon, <1>3 DEF terminateState, Next
<1>4. ASSUME tryUpdateSelectedState \/ allStatesTerminated PROVE Next
  BY Zenon, <1>4 DEF Next
<1>5. ASSUME sproutSelect \/ UNCHANGED sproutVars PROVE UNCHANGED vars
  BY <1>5 DEF sproutSelect, selectNextState, sproutVars
<1> QED  BY Zenon, <1>2, <1>3, <1>4, <1>5 DEF SproutNext

\* Without untracked forks, every step keeps the states tracked.
LEMMA SproutNextInv ==
    ASSUME ~ForkUntracked, ExecutorInv, ExecutorInv', SproutInv, [SproutNext]_sproutVars
    PROVE  SproutInv'
<1>1. /\ running \in States /\ seg \in [States -> Segments \cup {NoSegment}]
      /\ status \in [States -> {"unborn", "alive", "dead"}] /\ pathCount \in Nat
  BY Zenon DEF SproutInv, ExecutorInv, TypeOK, TreeTypeOK
<1>2. createRootSegment # NoSegment /\ \A s \in Seq(Nat), pc \in HLPC : Append(s, pc) # NoSegment
  <2>1. createRootSegment # NoSegment
    <3>1. Len(createRootSegment) = 1 /\ Len(NoSegment) = 0 /\ 0 # 1
      BY DEF createRootSegment, NoSegment
    <3> QED  BY Zenon, <3>1
  <2>2. ASSUME NEW s \in Seq(Nat), NEW pc \in HLPC PROVE Append(s, pc) # NoSegment
    <3>1. pc \in Nat  BY HLPCAssumption
    <3>2. Len(Append(s, pc)) = Len(s) + 1 /\ Len(s) \in Nat  BY <3>1, BelowChild
    <3>3. Len(NoSegment) = 0  BY DEF NoSegment
    <3> QED  BY <3>2, <3>3
  <2> QED  BY <2>1, <2>2
<1>3. ASSUME NEW s, NEW created, createState(running, s, created), s # NoSegment,
             UNCHANGED running
      PROVE  SproutInv'
  <2>1. status' = status /\ seg' = [seg EXCEPT ![running] = s] /\ ~Tracked(running) /\ running \in Alive
    BY <1>1, <1>3 DEF createState, Alive
  <2>2. Alive = {running}  BY <2>1 DEF SproutInv
  <2>3. Alive' = {running} /\ seg'[running] # NoSegment
    BY <1>1, <1>3, <2>1, <2>2 DEF Alive
  <2> QED  BY <1>1, <1>3, <2>3 DEF SproutInv, Tracked
<1>4. ASSUME NEW pc \in HLPC, onHighLevelPCUpdate(running, pc), UNCHANGED running
      PROVE  SproutInv'
  <2>1. /\ status' = status /\ seg' = [seg EXCEPT ![running] = Append(seg[running], pc)]
        /\ target' = target /\ Tracked(running) /\ running \in Alive
    BY Zenon, <1>1, <1>4 DEF onHighLevelPCUpdate, Alive
  <2>2. Alive' = Alive /\ \A l \in Alive : Tracked(l)
    BY <2>1 DEF SproutInv, Alive
  <2>3. seg[running] \in Seq(Nat)  BY <1>1, <2>1 DEF ExecutorInv, TypeOK, TreeTypeOK, Tracked
  <2>4. Append(seg[running], pc) # NoSegment  BY <1>2, <2>3
  <2>5. \A l \in Alive : seg'[l] # NoSegment
    BY <1>1, <2>1, <2>2, <2>4 DEF Tracked, Alive
  <2> QED  BY <1>1, <1>4, <2>2, <2>5 DEF SproutInv, Tracked
<1>5. ASSUME NEW n \in States, Tracked(running), onStateFork(running, n), UNCHANGED running
      PROVE  SproutInv'
  <2>1. /\ status' = [status EXCEPT ![n] = "alive"] /\ seg' = [seg EXCEPT ![n] = seg[running]]
        /\ running \in Alive
    BY <1>1, <1>5 DEF onStateFork, Alive
  <2>2. \A l \in Alive : Tracked(l)  BY <1>5, <2>1 DEF SproutInv
  <2>3. \A l \in Alive' : seg'[l] # NoSegment
    BY <1>1, <1>5, <2>1, <2>2 DEF Tracked, Alive
  <2> QED  BY <1>1, <1>5, <2>3 DEF SproutInv, Tracked
<1>6. ASSUME run PROVE SproutInv'
  <2>1. CASE getState(running)
    BY <1>2, <1>3, <1>6, <2>1 DEF run, getState
  <2>2. ASSUME NEW pc \in HLPC, onFirstHighLevelPCUpdate(running, pc) PROVE SproutInv'
    <3>1. createRootSegment \in Seq(Nat)  BY <1>1 DEF createRootSegment
    <3>2. PICK s : s = Append(createRootSegment, pc)  BY Zenon
    <3>3. s # NoSegment  BY <1>2, <3>1, <3>2
    <3>4. createState(running, s, {createRootSegment, s}) /\ UNCHANGED running
      BY <1>6, <2>2, <3>2 DEF run, onFirstHighLevelPCUpdate
    <3> QED  BY <1>3, <3>3, <3>4
  <2> QED  BY Zenon, <1>4, <1>5, <1>6, <2>1, <2>2 DEF run
<1>7. ASSUME NEW l \in States, terminateState(l) PROVE SproutInv'
  <2>1. /\ status' = [status EXCEPT ![l] = "dead"] /\ running' = running /\ target' = target
        /\ seg' = seg \/ seg' = [seg EXCEPT ![l] = NoSegment]
    BY Zenon, <1>7 DEF terminateState, onStateKill
  <2>2. Alive' = Alive \ {l} /\ \A m \in States \ {l} : seg'[m] = seg[m]
    BY <1>1, <2>1 DEF Alive
  <2> QED  BY <2>1, <2>2 DEF SproutInv, Tracked, Alive
<1>8. ASSUME tryUpdateSelectedState, UNCHANGED running PROVE SproutInv'
  <2>1. seg' = seg /\ status' = status
    BY Zenon, <1>8 DEF tryUpdateSelectedState, doUpdateSelectedState, doUpdateKill, doUpdateStep, doUpdateFork,
                tryUpdateSelectedStateEnd
  <2>2. (\A l \in Alive : Tracked(l)) => SproutInv'
    BY <1>1, <1>8, <2>1 DEF SproutInv, Alive, Tracked
  <2>3. CASE Alive = {running} /\ target = NoState /\ ~Tracked(running)
    <3>1. \A l \in States : ~Tracked(l)  BY <2>3 DEF ExecutorInv, TypeOK, Alive
    <3>2. target' = NoState
      <4>1. CASE selected = NoState
        BY Zenon, <1>8, <2>3, <4>1 DEF tryUpdateSelectedState, doUpdateSelectedState, doUpdateKill,
             doUpdateStep, doUpdateFork, tryUpdateSelectedStateEnd, NextTarget
      <4>2. CASE selected # NoState
        <5>1. StatesAt(hlSeg[selected]) = {}
          <6>1. hlSeg[selected] \in Segments  BY <4>2 DEF ExecutorInv, TypeOK
          <6>2. hlSeg[selected] # NoSegment
            <7>1. Len(hlSeg[selected]) # 0  BY <6>1 DEF ExecutorInv, TypeOK, TreeTypeOK
            <7>2. Len(NoSegment) = 0  BY DEF NoSegment
            <7> QED  BY Zenon, <7>1, <7>2
          <6> QED  BY <3>1, <6>2 DEF StatesAt, Tracked
        <5>2. ~tryUpdateSelectedStateEnd
          BY <4>2, <5>1 DEF tryUpdateSelectedStateEnd, Advancing
        <5> QED  BY Zenon, <1>8, <2>3, <5>2 DEF tryUpdateSelectedState, doUpdateSelectedState, doUpdateKill,
             doUpdateStep, doUpdateFork
      <4> QED  BY <4>1, <4>2
    <3> QED  BY <1>1, <1>8, <2>1, <2>3, <3>2 DEF SproutInv, Alive
  <2> QED  BY <2>2, <2>3 DEF SproutInv
<1>9. ASSUME sproutSelect PROVE SproutInv'
  <2>1. UNCHANGED vars /\ Alive # {}
        /\ running' \in IF target = NoState THEN Alive ELSE StatesAt(hlSeg[target])
    BY <1>9 DEF sproutSelect, selectNextState, selectLowLevelState
  <2>2. status' = status /\ seg' = seg /\ target' = target  BY <2>1 DEF vars
  <2>3. running' \in States  BY <2>1 DEF Alive, StatesAt
  <2>4. Alive = {running} /\ target = NoState => running' = running  BY <2>1
  <2> QED  BY <2>2, <2>3, <2>4 DEF SproutInv, Tracked, Alive
<1>10. ASSUME UNCHANGED vars, UNCHANGED running PROVE SproutInv'
  <2>1. status' = status /\ seg' = seg /\ target' = target  BY <1>10 DEF vars
  <2> QED  BY <1>10, <2>1 DEF SproutInv, Tracked, Alive
<1>11. UNCHANGED sproutVars => UNCHANGED vars /\ UNCHANGED running  BY DEF sproutVars
<1> QED
  BY Zenon, <1>6, <1>7, <1>8, <1>9, <1>10, <1>11 DEF SproutNext, allStatesTerminated

\* The sprout strategy implements the executor: which state S2E runs changes
\* nothing of the high-level search.
THEOREM SproutImplementsExecutor ==
    ASSUME ~ForkUntracked PROVE SproutSpec => Spec
<1>1. SproutInit => Init  BY DEF SproutInit
<1>2. SproutInit => SproutInv /\ ExecutorInv  BY SproutInitInv, InitInv DEF SproutInit
<1>3. SproutInv /\ ExecutorInv /\ [SproutNext]_sproutVars
        => [Next]_vars /\ SproutInv' /\ ExecutorInv'
  BY SproutNextIsNext, NextInv, SproutNextInv
<1> QED  BY <1>1, <1>2, <1>3, PTL DEF SproutSpec, Spec

\* Whenever S2E asks for a state and there is a target, the target's segment
\* has a state: the assertion of LowLevelSproutStrategy::selectLowLevelState()
\* cannot fail, for any number of states, as long as none forks untracked.
THEOREM SelectableTargetAlways ==
    ASSUME ~ForkUntracked PROVE SproutSpec => []SelectableTarget
<1>1. SproutInit => SproutInv /\ ExecutorInv  BY SproutInitInv, InitInv DEF SproutInit
<1>2. SproutInv /\ ExecutorInv /\ [SproutNext]_sproutVars => SproutInv' /\ ExecutorInv'
  BY SproutNextIsNext, NextInv, SproutNextInv
<1>3. SproutInv /\ ExecutorInv => SelectableTarget
  <2> SUFFICES ASSUME SproutInv, ExecutorInv, phase = "idle", Alive # {}, target # NoState
               PROVE  StatesAt(hlSeg[target]) # {}
    BY DEF SelectableTarget
  <2>1. \A l \in Alive : Tracked(l)  BY DEF SproutInv
  <2>2. PICK l \in States : Tracked(l)  BY <2>1 DEF Alive
  <2> QED  BY <2>2, Runnable DEF TargetRunnable
<1> QED  BY <1>1, <1>2, <1>3, PTL DEF SproutSpec
=============================================================================
