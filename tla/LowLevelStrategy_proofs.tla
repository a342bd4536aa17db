----------------------- MODULE LowLevelStrategy_proofs -----------------------
(***************************************************************************)
(* Proofs about the topologic strategy, for any number of states and any   *)
(* control flow of the guest: states only move forward in the topologic    *)
(* space, the state that is scheduled can be run, and the cursor of a      *)
(* single high-level path leaves no state behind.                          *)
(***************************************************************************)
EXTENDS LowLevelTopoStrategy, HighLevelExecutor_proofs

Levels == (Blocks \cup {-1}) \X Nat \X {"loop", "helper", "none"}

\* The index of a tracked state: it starts in the interpreter loop, and a loop
\* level holds blocks up to the one from which the loop was re-entered.
WellFormed(i) ==
    /\ i \in Seq(Levels) /\ i # <<>> /\ i[1][3] = "loop"
    /\ \A n \in 2..Len(i) : i[n][3] = "none" => i[n][1] <= i[n-1][1]

\* The fields: exactly the tracked states have an index, every HL state has a
\* cursor, and with a target the active cursor is at a node.
IndexInv ==
    /\ index \in [States -> Seq(Levels)]
    /\ \A l \in States : IF Tracked(l) THEN WellFormed(index[l]) ELSE index[l] = <<>>

Cursors == Seq(Seq(Levels) \ {<<>>})

CursorInv ==
    /\ cursor \in Cursors /\ Len(cursor) = Len(hlSeg)
    /\ active \in Seq(Levels) /\ (target # NoState => active # <<>>)
    /\ current \in States \cup {NoState} /\ wbr \in 0..WriteBackRate
    /\ running \in States /\ pending \in BOOLEAN

\* Every path has a segment.  While there is one path, there is one HL state; it
\* is the target as long as a state is tracked, and none is behind its cursor.
SinglePath ==
    /\ \A p \in 0..pathCount-1 : \E s \in Segments : path[s] = p
    /\ pathCount <= 1 =>
         /\ Len(hlSeg) <= 1
         /\ \A l \in States : Tracked(l) => target = 1 /\ ~Before(index[l], active)

TopoInv == IndexInv /\ CursorInv /\ CurrentOnPath /\ SinglePath

\* No step takes a tracked state back.
Forward ==
    \A l \in States :
        Tracked(l) /\ Tracked(l)' /\ index'[l] # index[l] => Before(index[l], index'[l])

-----------------------------------------------------------------------------
(* The topologic order.                                                    *)

\* A set of naturals has a least element.
LEMMA LeastNat ==
    ASSUME NEW T, T \subseteq Nat, T # {} PROVE \E m \in T : \A k \in T : m <= k
<1>1. PICK x \in T : \A y \in T : ~(<<y, x>> \in OpToRel(<, Nat))
  BY Zenon, NatLessThanWellFounded, WFMin
<1>2. \A y \in T : ~(y < x)
  BY Zenon, <1>1 DEF OpToRel
<1> QED BY <1>2

\* An index whose level i is replaced.
LEMMA Replaced ==
    ASSUME NEW S, NEW q \in Seq(S), NEW i \in 1..Len(q), NEW e \in S
    PROVE  /\ [q EXCEPT ![i] = e] \in Seq(S) /\ Len([q EXCEPT ![i] = e]) = Len(q)
           /\ \A j \in 1..Len(q) : [q EXCEPT ![i] = e][j] = IF j = i THEN e ELSE q[j]
  OBVIOUS

\* The fields of a level.
LEMMA LevelFields ==
    /\ Blocks \subseteq Nat
    /\ \A x \in Levels : /\ x[1] \in Int /\ x[1] \in Blocks \cup {-1} /\ x[2] \in Nat
                         /\ x[3] \in {"loop", "helper", "none"}
    /\ \A bb \in Blocks \cup {-1}, ci \in Nat, base \in {"loop", "helper", "none"} :
         <<bb, ci, base>> \in Levels
<1>1. Blocks \subseteq Nat  BY TopoAssumption DEF Blocks
<1>2. ASSUME NEW x \in Levels
      PROVE  /\ x[1] \in Int /\ x[1] \in Blocks \cup {-1} /\ x[2] \in Nat
             /\ x[3] \in {"loop", "helper", "none"}
  <2>1. x[1] \in Blocks \cup {-1} /\ x[2] \in Nat /\ x[3] \in {"loop", "helper", "none"}
    BY DEF Levels
  <2>2. \A b \in Blocks \cup {-1} : b \in Int  BY <1>1
  <2> QED  BY Zenon, <2>1, <2>2
<1>3. ASSUME NEW bb \in Blocks \cup {-1}, NEW ci \in Nat, NEW base \in {"loop", "helper", "none"}
      PROVE  <<bb, ci, base>> \in Levels
  BY DEF Levels
<1> QED  BY Zenon, <1>1, <1>2, <1>3

\* Two indexes agree on their first n levels, and p stops or is earlier there.
BeforeAt(p, q, n) ==
    /\ n <= Len(q) /\ \A i \in 1..n : p[i][1] = q[i][1] /\ p[i][2] = q[i][2]
    /\ \/ n = Len(p) /\ n < Len(q)
       \/ n < Len(p) /\ n < Len(q) /\ Earlier(p[n+1], q[n+1])

\* Before() compares the levels of two indexes.
LEMMA BeforeLevels ==
    ASSUME NEW p \in Seq(Levels), NEW q \in Seq(Levels)
    PROVE  Before(p, q) <=> \E n \in 0..Len(p) : BeforeAt(p, q, n)
<1>1. ASSUME NEW n \in 0..Len(p), n <= Len(q)
      PROVE  SameNode(SubSeq(p, 1, n), SubSeq(q, 1, n))
               <=> \A i \in 1..n : p[i][1] = q[i][1] /\ p[i][2] = q[i][2]
  <2>1. Len(p) \in Nat /\ Len(q) \in Nat  OBVIOUS
  <2>2. /\ \A i \in 1..n : p[i] \in Levels
        /\ \A i \in 1..n : q[i] \in Levels
    BY <1>1, <2>1
  <2>3. /\ Len(SubSeq(p, 1, n)) = n /\ \A i \in 1..n : SubSeq(p, 1, n)[i] = p[i]
        /\ Len(SubSeq(q, 1, n)) = n /\ \A i \in 1..n : SubSeq(q, 1, n)[i] = q[i]
    BY <1>1, <2>1, <2>2, SubSequence
  <2> QED  BY <2>3 DEF SameNode
<1> QED  BY Zenon, <1>1 DEF Before, BeforeAt

\* No node is before itself.
LEMMA BeforeIrreflexive == ASSUME NEW p \in Seq(Levels) PROVE ~Before(p, p)
<1> SUFFICES ASSUME NEW n \in 0..Len(p), BeforeAt(p, p, n) PROVE FALSE
  BY BeforeLevels
<1>1. n < Len(p) /\ Earlier(p[n+1], p[n+1])  BY DEF BeforeAt
<1>2. p[n+1] \in Levels  BY <1>1
<1>3. p[n+1][1] \in Int /\ p[n+1][2] \in Int  BY <1>2, LevelFields
<1> QED  BY <1>1, <1>3 DEF Earlier

\* The topologic order is transitive.
LEMMA BeforeTrans ==
    ASSUME NEW p \in Seq(Levels), NEW q \in Seq(Levels), NEW r \in Seq(Levels),
           Before(p, q), Before(q, r)
    PROVE  Before(p, r)
<1>1. PICK m \in 0..Len(p) : BeforeAt(p, q, m)  BY BeforeLevels
<1>2. PICK n \in 0..Len(q) : BeforeAt(q, r, n)  BY BeforeLevels
<1>3. Len(p) \in Nat /\ Len(q) \in Nat /\ Len(r) \in Nat /\ m \in Nat /\ n \in Nat  OBVIOUS
<1>4. /\ \A i \in 1..Len(p) : p[i][1] \in Int /\ p[i][2] \in Int
      /\ \A i \in 1..Len(q) : q[i][1] \in Int /\ q[i][2] \in Int
      /\ \A i \in 1..Len(r) : r[i][1] \in Int /\ r[i][2] \in Int
  <2>1. /\ \A i \in 1..Len(p) : p[i] \in Levels
        /\ \A i \in 1..Len(q) : q[i] \in Levels
        /\ \A i \in 1..Len(r) : r[i] \in Levels
    OBVIOUS
  <2> QED  BY <2>1, LevelFields
<1>5. CASE m < n
  <2>1. \A i \in 1..m : i \in 1..n  BY <1>3, <1>5
  <2>2. ASSUME NEW i \in 1..m PROVE p[i][1] = r[i][1] /\ p[i][2] = r[i][2]
    <3>1. p[i][1] = q[i][1] /\ p[i][2] = q[i][2]  BY Zenon, <1>1 DEF BeforeAt
    <3>2. q[i][1] = r[i][1] /\ q[i][2] = r[i][2]  BY Zenon, <1>2, <2>1 DEF BeforeAt
    <3> QED  BY Zenon, <3>1, <3>2
  <2>3. m + 1 \in 1..n /\ m < Len(r) /\ m <= Len(r)  BY <1>2, <1>3, <1>5 DEF BeforeAt
  <2>4. q[m+1][1] = r[m+1][1] /\ q[m+1][2] = r[m+1][2]  BY <1>2, <2>3 DEF BeforeAt
  <2>5. BeforeAt(p, r, m)  BY <1>1, <2>2, <2>3, <2>4 DEF BeforeAt, Earlier
  <2> QED  BY <2>5, BeforeLevels
<1>6. CASE n < m
  <2>1. n \in 0..Len(p) /\ \A i \in 1..n : i \in 1..m  BY <1>3, <1>6
  <2>2. ASSUME NEW i \in 1..n PROVE p[i][1] = r[i][1] /\ p[i][2] = r[i][2]
    <3>1. p[i][1] = q[i][1] /\ p[i][2] = q[i][2]  BY Zenon, <1>1, <2>1 DEF BeforeAt
    <3>2. q[i][1] = r[i][1] /\ q[i][2] = r[i][2]  BY Zenon, <1>2 DEF BeforeAt
    <3> QED  BY Zenon, <3>1, <3>2
  <2>3. n + 1 \in 1..m /\ n < Len(q) /\ n < Len(p)  BY <1>1, <1>3, <1>6 DEF BeforeAt
  <2>4. p[n+1][1] = q[n+1][1] /\ p[n+1][2] = q[n+1][2]  BY <1>1, <2>3 DEF BeforeAt
  <2>5. n # Len(q)  BY <1>3, <2>3
  <2>6. BeforeAt(p, r, n)  BY <1>2, <2>2, <2>3, <2>4, <2>5 DEF BeforeAt, Earlier
  <2> QED  BY <2>1, <2>6, BeforeLevels
<1>7. CASE m = n
  <2>1. \A i \in 1..m : p[i][1] = r[i][1] /\ p[i][2] = r[i][2]
    BY Zenon, <1>1, <1>2, <1>7 DEF BeforeAt
  <2>2. m < Len(q) /\ m + 1 \in 1..Len(q)  BY <1>1, <1>3 DEF BeforeAt
  <2>3. m < Len(r) /\ m <= Len(r) /\ Earlier(q[m+1], r[m+1]) /\ m + 1 \in 1..Len(r)
    BY <1>2, <1>3, <1>7, <2>2 DEF BeforeAt
  <2>4. CASE m = Len(p)
    <3>1. BeforeAt(p, r, m)  BY <2>1, <2>3, <2>4 DEF BeforeAt
    <3> QED  BY <3>1, BeforeLevels
  <2>5. CASE m # Len(p)
    <3>1. m < Len(p) /\ Earlier(p[m+1], q[m+1])  BY <1>1, <2>5 DEF BeforeAt
    <3>2. m + 1 \in 1..Len(p)  BY <1>3, <3>1
    <3>3. Earlier(p[m+1], r[m+1])
      <4>1. /\ p[m+1][1] \in Int /\ p[m+1][2] \in Int /\ q[m+1][1] \in Int /\ q[m+1][2] \in Int
            /\ r[m+1][1] \in Int /\ r[m+1][2] \in Int
        BY Zenon, <1>4, <2>2, <2>3, <3>2
      <4>2. PICK x, y, z : x = p[m+1] /\ y = q[m+1] /\ z = r[m+1]  OBVIOUS
      <4>3. Earlier(x, y) /\ Earlier(y, z)  BY Zenon, <2>3, <3>1, <4>2
      <4>4. x[1] \in Int /\ x[2] \in Int /\ y[1] \in Int /\ y[2] \in Int /\ z[1] \in Int /\ z[2] \in Int
        BY Zenon, <4>1, <4>2
      <4>5. Earlier(x, z)  BY <4>3, <4>4 DEF Earlier
      <4> QED  BY Zenon, <4>2, <4>5
    <3>4. BeforeAt(p, r, m)  BY <2>1, <2>3, <3>1, <3>3 DEF BeforeAt
    <3> QED  BY <3>4, BeforeLevels
  <2> QED  BY <2>4, <2>5
<1> QED  BY <1>3, <1>5, <1>6, <1>7

-----------------------------------------------------------------------------
(* The steps in the topologic space.                                       *)

\* A nonempty set of positions has a last one.
LEMMA LastPosition ==
    ASSUME NEW n \in Nat, NEW T \in SUBSET (1..n), T # {}
    PROVE  \E m \in T : \A k \in T : k <= m
<1> DEFINE U == {n - k : k \in T}
<1>1. U \subseteq Nat /\ U # {}
  <2>1. \A k \in T : n - k \in Nat  OBVIOUS
  <2> QED  BY Zenon, <2>1
<1> HIDE DEF U
<1>2. PICK u \in U : \A v \in U : u <= v  BY Zenon, <1>1, LeastNat
<1>3. PICK m \in T : u = n - m  BY <1>2 DEF U
<1>4. ASSUME NEW k \in T PROVE k <= m
  <2>1. n - k \in U  BY DEF U
  <2>2. n - m <= n - k  BY <1>2, <1>3, <2>1
  <2> QED  BY <2>2
<1> QED  BY <1>4

\* The innermost call base of an index.
LEMMA CallBaseExists ==
    ASSUME NEW i, WellFormed(i)
    PROVE  /\ CallBase(i) \in 1..Len(i) /\ i[CallBase(i)][3] # "none"
           /\ \A m \in CallBase(i)+1..Len(i) : i[m][3] = "none"
<1> DEFINE T == {n \in 1..Len(i) : i[n][3] # "none"}
<1>1. Len(i) \in Nat /\ Len(i) >= 1  BY DEF WellFormed
<1>2. 1 \in T  BY <1>1 DEF WellFormed
<1>3. T \in SUBSET (1..Len(i)) /\ T # {}  BY Zenon, <1>2
<1> HIDE DEF T
<1>4. PICK n \in T : \A k \in T : k <= n  BY Zenon, <1>1, <1>3, LastPosition
<1>5. n \in 1..Len(i) /\ i[n][3] # "none"  BY Zenon, <1>4 DEF T
<1>6. ASSUME NEW m \in n+1..Len(i) PROVE i[m][3] = "none"
  <2>1. m \in 1..Len(i) /\ ~(m <= n)  BY <1>1, <1>5
  <2> QED  BY Zenon, <1>4, <2>1 DEF T
<1> QED  BY Zenon, <1>5, <1>6 DEF CallBase

\* A level more: everything below a node comes after it.
LEMMA OpenLevel ==
    ASSUME NEW i, WellFormed(i), NEW x \in Levels, x[3] = "none" => x[1] <= Slot(i)[1]
    PROVE  WellFormed(Append(i, x)) /\ Before(i, Append(i, x))
<1> DEFINE new == Append(i, x)
<1>1. i \in Seq(Levels) /\ Len(i) \in Nat /\ Len(i) >= 1  BY DEF WellFormed
<1>2. /\ new \in Seq(Levels) /\ Len(new) = Len(i) + 1 /\ new[Len(i) + 1] = x
      /\ \A n \in 1..Len(i) : new[n] = i[n]
  BY <1>1, Appended
<1> HIDE DEF new
<1>3. ASSUME NEW n \in 2..Len(new), new[n][3] = "none" PROVE new[n][1] <= new[n-1][1]
  <2>1. CASE n = Len(i) + 1
    <3>1. n - 1 = Len(i) /\ Len(i) \in 1..Len(i)  BY <1>1, <2>1
    <3>2. new[n-1] = i[Len(i)] /\ new[n] = x  BY <1>2, <2>1, <3>1
    <3> QED  BY <1>3, <3>2 DEF Slot
  <2>2. CASE n # Len(i) + 1
    <3>1. n \in 2..Len(i) /\ n \in 1..Len(i) /\ n - 1 \in 1..Len(i)  BY <1>1, <1>2, <2>2
    <3>2. new[n] = i[n] /\ new[n-1] = i[n-1]  BY Zenon, <1>2, <3>1
    <3> QED  BY <1>3, <3>1, <3>2 DEF WellFormed
  <2> QED  BY <2>1, <2>2
<1>4. new # <<>> /\ new[1][3] = "loop"
  <2>1. 1 \in 1..Len(i)  BY <1>1
  <2> QED  BY <1>1, <1>2, <2>1 DEF WellFormed
<1>5. BeforeAt(i, new, Len(i))  BY <1>1, <1>2 DEF BeforeAt
<1>6. Len(i) \in 0..Len(i)  BY <1>1
<1>7. Before(i, new)  BY <1>1, <1>2, <1>5, <1>6, BeforeLevels
<1> QED  BY <1>2, <1>3, <1>4, <1>7 DEF WellFormed, new

\* getNext() replaces a level.
LEMMA ReplaceLevel ==
    ASSUME NEW i \in Seq(Levels), NEW n \in 1..Len(i), NEW x \in Levels
    PROVE  /\ [i EXCEPT ![n] = x] \in Seq(Levels) /\ Len([i EXCEPT ![n] = x]) = Len(i)
           /\ [i EXCEPT ![n] = x][n] = x
           /\ \A m \in 1..Len(i) : m # n => [i EXCEPT ![n] = x][m] = i[m]
BY Replaced

\* Another node at a level, after the one there.
LEMMA NextNode ==
    ASSUME NEW i, WellFormed(i), NEW n \in 1..Len(i), NEW x \in Levels, x[3] = i[n][3],
           Earlier(i[n], x), n > 1 /\ x[3] = "none" => x[1] <= i[n-1][1],
           NEW new, new = [SubSeq(i, 1, n) EXCEPT ![n] = x]
    PROVE  WellFormed(new) /\ Before(i, new)
<1>1. /\ i \in Seq(Levels) /\ Len(i) \in Nat /\ Len(i) >= 1 /\ n \in Nat /\ n >= 1
      /\ \A m \in 1..n : i[m] \in Levels
  BY DEF WellFormed
<1>2. /\ SubSeq(i, 1, n) \in Seq(Levels) /\ Len(SubSeq(i, 1, n)) = n
      /\ \A m \in 1..n : SubSeq(i, 1, n)[m] = i[m]
  BY <1>1, SubSequence
<1>3. /\ new \in Seq(Levels) /\ Len(new) = n /\ new[n] = x
      /\ \A m \in 1..n : m # n => new[m] = i[m]
  <2>1. PICK cut : cut = SubSeq(i, 1, n)  BY Zenon
  <2>2. cut \in Seq(Levels) /\ Len(cut) = n /\ new = [cut EXCEPT ![n] = x]
    BY <1>2, <2>1
  <2>3. n \in 1..Len(cut)  BY <1>1, <2>2
  <2>4. /\ [cut EXCEPT ![n] = x] \in Seq(Levels) /\ Len([cut EXCEPT ![n] = x]) = Len(cut)
        /\ [cut EXCEPT ![n] = x][n] = x
        /\ \A m \in 1..Len(cut) : m # n => [cut EXCEPT ![n] = x][m] = cut[m]
    BY <2>2, <2>3, ReplaceLevel
  <2>5. new \in Seq(Levels) /\ Len(new) = n /\ new[n] = x
        /\ \A m \in 1..n : m # n => new[m] = cut[m]
    BY Zenon, <2>2, <2>4
  <2> QED  BY Zenon, <1>2, <2>1, <2>5
<1>4. ASSUME NEW m \in 2..Len(new), new[m][3] = "none" PROVE new[m][1] <= new[m-1][1]
  <2>1. m \in 2..Len(i) /\ m - 1 \in 1..n /\ m - 1 # n /\ m \in 1..n  BY <1>1, <1>3
  <2>2. new[m-1] = i[m-1]  BY Zenon, <1>3, <2>1
  <2>3. CASE m = n
    <3>1. n > 1  BY <1>1, <2>1, <2>3
    <3> QED  BY <1>3, <1>4, <2>2, <2>3, <3>1
  <2>4. CASE m # n
    <3>1. new[m] = i[m]  BY Zenon, <1>3, <2>1, <2>4
    <3> QED  BY <1>4, <2>1, <2>2, <3>1 DEF WellFormed
  <2> QED  BY <2>3, <2>4
<1>5. new # <<>> /\ new[1][3] = "loop"
  <2>1. 1 \in 1..n  BY <1>1
  <2>2. new[1][3] = i[1][3]  BY <1>3, <2>1
  <2> QED  BY <1>1, <1>3, <2>2 DEF WellFormed
<1>6. BeforeAt(i, new, n - 1)
  <2>1. \A m \in 1..n-1 : m \in 1..n /\ m # n  BY <1>1
  <2>2. \A m \in 1..n-1 : new[m] = i[m]  BY Zenon, <1>3, <2>1
  <2>3. n - 1 < Len(i) /\ n - 1 < Len(new) /\ n - 1 <= Len(new) /\ n - 1 + 1 = n  BY <1>1, <1>3
  <2> QED  BY <1>3, <2>2, <2>3 DEF BeforeAt
<1>7. n - 1 \in 0..Len(i)  BY <1>1
<1>8. Before(i, new)  BY Zenon, <1>1, <1>3, <1>6, <1>7, BeforeLevels
<1> QED  BY <1>3, <1>4, <1>5, <1>8 DEF WellFormed

\* A call goes down, into the helper.
LEMMA CallForward ==
    ASSUME NEW i, WellFormed(i)
    PROVE  WellFormed(getDown(i, "helper")) /\ Before(i, getDown(i, "helper"))
<1>1. <<-1, 0, "helper">> \in Levels  BY Zenon, LevelFields
<1> QED  BY <1>1, OpenLevel DEF getDown

\* A return goes to the node after the call.
LEMMA ReturnForward ==
    ASSUME NEW i, WellFormed(i), CallBase(i) > 1
    PROVE  WellFormed(returned(i)) /\ Before(i, returned(i))
<1> DEFINE n == CallBase(i) - 1
           j == SubSeq(i, 1, n)
           x == <<i[n][1], i[n][2] + 1, i[n][3]>>
<1>1. i \in Seq(Levels) /\ Len(i) \in Nat /\ CallBase(i) \in 1..Len(i)
  BY CallBaseExists DEF WellFormed
<1>2. n \in 1..Len(i) /\ n \in Nat /\ n >= 1  BY <1>1
<1>3. i[n] \in Levels /\ \A m \in 1..n : i[m] \in Levels  BY <1>1, <1>2
<1>4. /\ i[n][1] \in Blocks \cup {-1} /\ i[n][1] \in Int /\ i[n][2] \in Nat
      /\ i[n][3] \in {"loop", "helper", "none"}
  BY <1>3, LevelFields
<1>5. x \in Levels /\ x[1] = i[n][1] /\ x[3] = i[n][3] /\ x[2] = i[n][2] + 1
  <2> DEFINE c == i[n][2] + 1
  <2>1. c \in Nat  BY <1>4
  <2>2. x = <<i[n][1], c, i[n][3]>>  OBVIOUS
  <2> HIDE DEF c, n
  <2>3. <<i[n][1], c, i[n][3]>> \in Levels  BY <1>4, <2>1 DEF Levels
  <2> QED  BY <2>2, <2>3 DEF c
<1>6. Len(j) = n /\ j[n] = i[n]  BY <1>1, <1>2, <1>3, SubSequence
<1>7. returned(i) = [j EXCEPT ![n] = x]
  BY Zenon, <1>6 DEF returned, getNext, Slot
<1> HIDE DEF n, j, x
<1>8. Earlier(i[n], x)  BY <1>4, <1>5 DEF Earlier
<1>9. n > 1 /\ x[3] = "none" => x[1] <= i[n-1][1]
  <2>1. n > 1 => n \in 2..Len(i)  BY <1>1, <1>2
  <2> QED  BY Zenon, <1>5, <2>1 DEF WellFormed
<1>10. returned(i) = [SubSeq(i, 1, n) EXCEPT ![n] = x]  BY <1>7 DEF j
<1> QED  BY <1>2, <1>5, <1>8, <1>9, <1>10, NextNode

\* Writing the level that was just opened.
LEMMA ReplaceLast ==
    ASSUME NEW i \in Seq(Levels), NEW x \in Levels, NEW y \in Levels
    PROVE  [Append(i, y) EXCEPT ![Len(Append(i, y))] = x] = Append(i, x)
<1> DEFINE p == [Append(i, y) EXCEPT ![Len(Append(i, y))] = x]  q == Append(i, x)
<1>1. /\ Append(i, y) \in Seq(Levels) /\ Len(Append(i, y)) = Len(i) + 1 /\ Len(i) \in Nat
      /\ \A m \in 1..Len(i) : Append(i, y)[m] = i[m]
  BY Appended
<1>2. /\ q \in Seq(Levels) /\ Len(q) = Len(i) + 1 /\ q[Len(i) + 1] = x
      /\ \A m \in 1..Len(i) : q[m] = i[m]
  BY Appended
<1>3. /\ p \in Seq(Levels) /\ Len(p) = Len(i) + 1 /\ p[Len(i) + 1] = x
      /\ \A m \in 1..Len(i) : p[m] = Append(i, y)[m]
  <2>1. PICK a : a = Append(i, y)  BY Zenon
  <2>2. PICK k : k = Len(i) + 1  OBVIOUS
  <2>3. a \in Seq(Levels) /\ k \in 1..Len(a) /\ Len(a) = k  BY <1>1, <2>1, <2>2
  <2>4. /\ [a EXCEPT ![k] = x] \in Seq(Levels) /\ Len([a EXCEPT ![k] = x]) = Len(a)
        /\ \A m \in 1..Len(a) : [a EXCEPT ![k] = x][m] = IF m = k THEN x ELSE a[m]
    BY <2>3, Replaced
  <2>5. p = [a EXCEPT ![k] = x]  BY <1>1, <2>1, <2>2
  <2> HIDE DEF p
  <2> QED  BY <1>1, <2>1, <2>2, <2>3, <2>4, <2>5
<1> HIDE DEF p, q
<1>4. \A m \in 1..Len(p) : p[m] = q[m]  BY <1>1, <1>2, <1>3
<1>5. p = q  BY <1>2, <1>3, <1>4, SameSequence
<1> QED  BY <1>5 DEF p, q

\* Entering a block opens the level of an iteration, or goes to the block's node
\* at the level of the innermost loop that contains it.
LEMMA BlockForward ==
    ASSUME NEW i, WellFormed(i), NEW bb \in Blocks
    PROVE  WellFormed(stepBasicBlock(i, bb)) /\ Before(i, stepBasicBlock(i, bb))
<1> DEFINE b == CallBase(i)
<1>1. i \in Seq(Levels) /\ Len(i) \in Nat /\ Len(i) >= 1  BY DEF WellFormed
<1>2. /\ b \in 1..Len(i) /\ i[b][3] # "none"
      /\ \A m \in b+1..Len(i) : i[m][3] = "none"
  BY CallBaseExists
<1> HIDE DEF b
<1>3. /\ \A m \in 1..Len(i) : /\ i[m] \in Levels /\ i[m][1] \in Int /\ i[m][2] \in Nat
                              /\ i[m][3] \in {"loop", "helper", "none"}
      /\ bb \in Int
  BY <1>1, LevelFields
<1>4. CASE bb <= Slot(i)[1]
  <2> DEFINE x == <<bb, 0, "none">>  y == <<-1, 0, "none">>
  <2>1. x \in Levels /\ y \in Levels /\ x[1] = bb /\ x[3] = "none" /\ y[3] = "none"
    BY Zenon, LevelFields
  <2>2. stepBasicBlock(i, bb) = [Append(i, y) EXCEPT ![Len(Append(i, y))] = <<bb, 0, y[3]>>]
    <3>1. Append(i, y)[Len(Append(i, y))] = y  BY <1>1, <2>1
    <3>2. PICK a : a = Append(i, y)  BY Zenon
    <3>3. stepBasicBlock(i, bb) = getNext(a, bb, 0)  BY <1>4, <3>2 DEF stepBasicBlock, getDown
    <3>4. getNext(a, bb, 0) = [a EXCEPT ![Len(a)] = <<bb, 0, a[Len(a)][3]>>]  BY DEF getNext
    <3> HIDE DEF y
    <3>5. a[Len(a)] = y  BY <3>1, <3>2
    <3> QED  BY Zenon, <3>2, <3>3, <3>4, <3>5
  <2>3. stepBasicBlock(i, bb) = [Append(i, y) EXCEPT ![Len(Append(i, y))] = x]
    BY <1>1, <2>1, <2>2
  <2> HIDE DEF x, y
  <2>4. [Append(i, y) EXCEPT ![Len(Append(i, y))] = x] = Append(i, x)
    BY <1>1, <2>1, ReplaceLast
  <2>5. x[3] = "none" => x[1] <= Slot(i)[1]  BY <1>4, <2>1
  <2>6. WellFormed(Append(i, x)) /\ Before(i, Append(i, x))  BY <2>1, <2>5, OpenLevel
  <2> QED  BY Zenon, <2>3, <2>4, <2>6
<1>5. CASE ~(bb <= Slot(i)[1])
  <2> DEFINE In(n) == /\ n = b \/ bb <= i[n-1][1]
                      /\ \A m \in n+1..Len(i) : bb > i[m-1][1]
             T == {n \in b..Len(i) : n = b \/ bb <= i[n-1][1]}
  <2>1. T \in SUBSET (1..Len(i)) /\ T # {}
    <3>1. b \in T /\ b..Len(i) \subseteq 1..Len(i)  BY <1>1, <1>2
    <3> QED  BY Zenon, <3>1
  <2> HIDE DEF T
  <2>2. PICK k \in T : \A m \in T : m <= k  BY Zenon, <1>1, <2>1, LastPosition
  <2>3. k \in b..Len(i) /\ (k = b \/ bb <= i[k-1][1])  BY Zenon, <2>2 DEF T
  <2>4. In(k)
    <3>1. ASSUME NEW m \in k+1..Len(i) PROVE bb > i[m-1][1]
      <4>1. m \in b..Len(i) /\ ~(m <= k) /\ m # b /\ m - 1 \in 1..Len(i)  BY <1>1, <1>2, <2>3
      <4>2. ~(bb <= i[m-1][1])  BY Zenon, <2>2, <4>1 DEF T
      <4> QED  BY <1>3, <4>1, <4>2
    <3> QED  BY <2>3, <3>1
  <2> DEFINE n == CHOOSE n \in b..Len(i) : In(n)
  <2>5. n \in b..Len(i) /\ In(n)
    <3> HIDE DEF In
    <3> QED  BY Zenon, <2>3, <2>4
  <2>6. stepBasicBlock(i, bb) = getNext(SubSeq(i, 1, n), bb, 0)
    BY <1>5 DEF stepBasicBlock, b
  <2> HIDE DEF n
  <2>7. n \in 1..Len(i) /\ n \in Nat /\ n >= 1 /\ i[n] \in Levels /\ \A m \in 1..n : i[m] \in Levels
    BY <1>1, <1>2, <1>3, <2>5
  <2> DEFINE j == SubSeq(i, 1, n)  x == <<bb, 0, i[n][3]>>
  <2>8. x \in Levels /\ x[1] = bb /\ x[3] = i[n][3]
    <3>1. bb \in Blocks \cup {-1} /\ 0 \in Nat  OBVIOUS
    <3> QED  BY <1>3, <2>7, <3>1 DEF Levels
  <2>9. Len(j) = n /\ j[n] = i[n]  BY <1>1, <2>7, SubSequence
  <2>10. stepBasicBlock(i, bb) = [j EXCEPT ![n] = x]  BY Zenon, <2>6, <2>9 DEF getNext
  <2> HIDE DEF j
  <2>11. i[n][1] < bb
    <3>1. CASE n = Len(i)  BY <1>1, <1>3, <1>5, <3>1 DEF Slot
    <3>2. CASE n # Len(i)
      <4>1. n + 1 \in n+1..Len(i) /\ n + 1 - 1 = n  BY <1>1, <2>7, <3>2
      <4>2. \A m \in n+1..Len(i) : bb > i[m-1][1]  BY <2>5
      <4>3. PICK m : m = n + 1  OBVIOUS
      <4>4. bb > i[m-1][1]  BY <4>1, <4>2, <4>3
      <4>5. m - 1 = n  BY <2>7, <4>3
      <4> QED  BY <1>3, <2>7, <4>4, <4>5
    <3> QED  BY <3>1, <3>2
  <2> HIDE DEF x
  <2>12. Earlier(i[n], x)  BY <2>8, <2>11 DEF Earlier
  <2>13. n > 1 /\ x[3] = "none" => x[1] <= i[n-1][1]  BY Zenon, <1>2, <2>5, <2>8
  <2>14. stepBasicBlock(i, bb) = [SubSeq(i, 1, n) EXCEPT ![n] = x]  BY <2>10 DEF j
  <2> QED  BY <2>7, <2>8, <2>12, <2>13, <2>14, NextNode
<1> QED  BY <1>4, <1>5

-----------------------------------------------------------------------------
(* Scheduling.                                                             *)

\* trySchedule() finds a tracked state on the path of h, from the cursor on,
\* with none of the path between the cursor and it.
LEMMA Scheduled ==
    ASSUME NEW h, NEW from, trySchedule(h, from)
    PROVE  \E l \in States :
             /\ current' = l /\ active' = index'[l]
             /\ seg'[l] # NoSegment /\ path'[seg'[l]] = path'[hlSeg'[h]]
             /\ ~Before(index'[l], from)
             /\ \A m \in States :
                  /\ seg'[m] # NoSegment /\ path'[seg'[m]] = path'[hlSeg'[h]]
                  /\ Before(index'[m], index'[l])
                  => Before(index'[m], from)
  BY Zenon DEF trySchedule, findNextState

\* The fields that trySchedule() writes.
LEMMA ScheduledFields ==
    ASSUME IndexInv', NEW h, NEW from, trySchedule(h, from)
    PROVE  /\ current' \in States /\ current' # NoState
           /\ active' \in Seq(Levels) /\ active' # <<>>
           /\ seg'[current'] # NoSegment /\ path'[seg'[current']] = path'[hlSeg'[h]]
<1>1. PICK l \in States :
        /\ current' = l /\ active' = index'[l]
        /\ seg'[l] # NoSegment /\ path'[seg'[l]] = path'[hlSeg'[h]]
  BY Zenon, Scheduled
<1>2. index'[l] \in Seq(Levels) /\ index'[l] # <<>>
  BY <1>1 DEF IndexInv, Tracked, WellFormed
<1> QED  BY <1>1, <1>2, TopoAssumption

\* With one path and no state behind the cursor, none is behind it afterwards.
LEMMA ScheduledAhead ==
    ASSUME TypeOK', pathCount' <= 1, NEW h, NEW from, trySchedule(h, from), hlSeg'[h] \in Segments',
           \A m \in States : seg'[m] # NoSegment => ~Before(index'[m], from)
    PROVE  \A m \in States : seg'[m] # NoSegment => ~Before(index'[m], active')
<1>1. \A s, t \in Segments' : path'[s] = path'[t]
  <2> SUFFICES ASSUME NEW s \in Segments', NEW t \in Segments' PROVE path'[s] = path'[t]
    OBVIOUS
  <2>1. path'[s] \in 0..pathCount'-1 /\ path'[t] \in 0..pathCount'-1 /\ pathCount' \in Nat
    BY DEF TypeOK, TreeTypeOK
  <2> QED  BY <2>1
<1>2. \A m \in States : seg'[m] # NoSegment => seg'[m] \in Segments'  BY DEF TypeOK
<1>3. \A m \in States : seg'[m] # NoSegment => path'[seg'[m]] = path'[hlSeg'[h]]
  BY Zenon, <1>1, <1>2
<1>4. PICK l \in States :
        /\ active' = index'[l]
        /\ \A m \in States :
             /\ seg'[m] # NoSegment /\ path'[seg'[m]] = path'[hlSeg'[h]]
             /\ Before(index'[m], index'[l])
             => Before(index'[m], from)
  BY Scheduled
<1> QED  BY Zenon, <1>3, <1>4

\* updateTargetHighLevelState(): the cursors keep their types; the walk starts
\* from the active cursor when the target stays, from the new one's otherwise.
LEMMA UpdateTarget ==
    ASSUME CursorInv, NEW cursors \in Cursors, NEW h \in 1..Len(cursors),
           target \in 0..Len(cursors), updateTargetHighLevelState(h, cursors)
    PROVE  /\ cursor' \in Cursors /\ Len(cursor') = Len(cursors)
           /\ wbr' \in 0..WriteBackRate
           /\ \E from : /\ trySchedule(h, from)
                        /\ h = target => from = active
                        /\ target = NoState => from = cursors[h]
<1>1. CASE ~(h # target \/ wbr = WriteBackRate)
  <2>1. cursor' = cursors /\ wbr' = wbr + 1 /\ trySchedule(h, active)
    BY <1>1 DEF updateTargetHighLevelState
  <2>2. wbr' \in 0..WriteBackRate  BY <1>1, <2>1, TopoAssumption DEF CursorInv
  <2>3. target # NoState  BY <1>1 DEF NoState
  <2> QED  BY Zenon, <2>1, <2>2, <2>3
<1>2. CASE h # target \/ wbr = WriteBackRate
  <2>1. /\ cursor' = IF target = NoState THEN cursors ELSE [cursors EXCEPT ![target] = active]
        /\ wbr' = 0 /\ trySchedule(h, cursor'[h])
    BY <1>2 DEF updateTargetHighLevelState
  <2>2. wbr' \in 0..WriteBackRate  BY <2>1, TopoAssumption
  <2>3. CASE target = NoState
    <3>1. h # target  BY <2>3 DEF NoState
    <3> QED  BY Zenon, <2>1, <2>2, <2>3, <3>1
  <2>4. CASE target # NoState
    <3>1. target \in 1..Len(cursors) /\ active \in Seq(Levels) \ {<<>>}
      BY <2>4 DEF CursorInv, NoState
    <3>2. cursor' = [cursors EXCEPT ![target] = active]  BY <2>1, <2>4
    <3>3. /\ cursor' \in Seq(Seq(Levels) \ {<<>>}) /\ Len(cursor') = Len(cursors)
          /\ cursor'[target] = active
      <4>1. cursors \in Seq(Seq(Levels) \ {<<>>})  BY DEF Cursors
      <4>2. PICK S : S = Seq(Levels) \ {<<>>}  BY Zenon
      <4>3. cursors \in Seq(S) /\ active \in S  BY <3>1, <4>1, <4>2
      <4>4. cursor' \in Seq(S) /\ Len(cursor') = Len(cursors) /\ cursor'[target] = active
        BY <3>1, <3>2, <4>3, Replaced
      <4> QED  BY <4>2, <4>4
    <3> QED  BY Zenon, <2>1, <2>2, <2>4, <3>3 DEF Cursors
  <2> QED  BY <2>3, <2>4
<1> QED  BY <1>1, <1>2

-----------------------------------------------------------------------------
(* The steps of the running state.                                         *)

\* The index of the running state moves forward; the others stay.
LEMMA MoveIndex ==
    ASSUME IndexInv, CursorInv, Tracked(running), NEW i, move(i),
           WellFormed(i), Before(index[running], i)
    PROVE  /\ IndexInv' /\ Forward
           /\ \A m \in States : Tracked(m) /\ ~Before(index[m], active) => ~Before(index'[m], active)
<1>1. /\ index' = [index EXCEPT ![running] = i] /\ running \in States /\ active \in Seq(Levels)
      /\ index \in [States -> Seq(Levels)] /\ seg' = seg /\ i \in Seq(Levels)
      /\ WellFormed(index[running])
  BY DEF move, vars, IndexInv, CursorInv, WellFormed, Tracked
<1>2. /\ index' \in [States -> Seq(Levels)] /\ index'[running] = i
      /\ \A m \in States \ {running} : index'[m] = index[m]
      /\ \A m \in States : index[m] \in Seq(Levels)
  BY <1>1
<1>3. IndexInv'
  <2>1. ASSUME NEW m \in States
        PROVE  IF Tracked(m)' THEN WellFormed(index'[m]) ELSE index'[m] = <<>>
    <3>1. CASE m = running  BY <1>1, <1>2, <3>1 DEF Tracked
    <3>2. CASE m # running  BY <1>1, <1>2, <3>2 DEF Tracked, IndexInv
    <3> QED  BY <3>1, <3>2
  <2>2. \A m \in States : WellFormed(index[m])' <=> WellFormed(index'[m])  BY DEF WellFormed
  <2> QED  BY <1>2, <2>1, <2>2 DEF IndexInv
<1>4. Forward
  BY <1>1, <1>2 DEF Forward
<1>5. ASSUME NEW m \in States, ~Before(index[m], active), Before(index'[m], active) PROVE FALSE
  <2>1. m = running  BY Zenon, <1>2, <1>5
  <2>2. Before(i, active) /\ ~Before(index[running], active)  BY <1>2, <1>5, <2>1
  <2>3. index[running] \in Seq(Levels)  BY <1>1, <1>2
  <2> QED  BY <1>1, <2>2, <2>3, BeforeTrans
<1> QED  BY <1>3, <1>4, <1>5

\* A step that leaves the executor and the schedule alone.
LEMMA MoveInv ==
    ASSUME TopoInv, Tracked(running), NEW i, move(i), UNCHANGED unscheduled,
           WellFormed(i), Before(index[running], i)
    PROVE  TopoInv' /\ Forward
<1>1. IndexInv' /\ Forward
      /\ \A m \in States : Tracked(m) /\ ~Before(index[m], active) => ~Before(index'[m], active)
  BY MoveIndex DEF TopoInv
<1>2. /\ seg' = seg /\ path' = path /\ pathCount' = pathCount /\ hlSeg' = hlSeg
      /\ target' = target /\ phase' = phase /\ running' = running /\ pending' = FALSE
      /\ cursor' = cursor /\ active' = active /\ current' = current /\ wbr' = wbr
  BY DEF move, vars, unscheduled
<1>3. CursorInv'  BY Zenon, <1>2 DEF TopoInv, CursorInv
<1>4. CurrentOnPath'  BY <1>2 DEF TopoInv, CurrentOnPath, Tracked, StatesOn
<1>5. SinglePath'
  BY <1>1, <1>2 DEF TopoInv, SinglePath, Tracked, Segments
<1> QED  BY <1>1, <1>3, <1>4, <1>5 DEF TopoInv

\* A call goes down.
LEMMA PushInv ==
    ASSUME TopoInv, onStackFramePush PROVE TopoInv' /\ Forward
<1>1. /\ Tracked(running) /\ move(getDown(index[running], "helper")) /\ UNCHANGED unscheduled
      /\ WellFormed(index[running])
  BY DEF onStackFramePush, TopoInv, IndexInv, CursorInv
<1> QED  BY <1>1, CallForward, MoveInv

\* A return goes to the node after the call.
LEMMA PopInv ==
    ASSUME TopoInv, onStackFramePopping PROVE TopoInv' /\ Forward
<1>1. /\ Tracked(running) /\ move(returned(index[running])) /\ UNCHANGED unscheduled
      /\ WellFormed(index[running]) /\ CallBase(index[running]) > 1
  BY DEF onStackFramePopping, Returns, TopoInv, IndexInv, CursorInv
<1> QED  BY <1>1, ReturnForward, MoveInv

\* The selection that a step leaves behind.
LEMMA SelectedAfter ==
    ASSUME ExecutorInv'
    PROVE  /\ hlStates' # {} => selected' # NoState
           /\ selected' # NoState => selected' \in 1..Len(hlSeg') /\ hlSeg'[selected'] \in Segments'
<1>1. Lists(queue', hlStates')
  BY DEF ExecutorInv, TypeOK, FrontierInv, SelectorInSync, Lists
<1>2. NoState \notin hlStates'  BY DEF ExecutorInv, TypeOK, NoState
<1>3. selected' = selectState(queue')
  BY DEF ExecutorInv, FrontierInv, SelectorInSync, selectState
<1>4. selectState(queue') = NoState <=> hlStates' = {}
  BY <1>1, <1>2, SelectFromQueue
<1>5. /\ hlSeg' \in Seq(Segments') /\ hlStates' \subseteq 1..Len(hlSeg')
      /\ selected' \in hlStates' \cup {NoState}
  BY DEF ExecutorInv, TypeOK
<1>6. selected' # NoState => selected' \in 1..Len(hlSeg')
  BY Zenon, <1>5
<1>7. ASSUME NEW T, NEW q \in Seq(T), NEW i \in 1..Len(q) PROVE q[i] \in T
  OBVIOUS
<1>8. selected' # NoState => hlSeg'[selected'] \in Segments'
  BY Zenon, <1>5, <1>6, <1>7
<1> QED  BY Zenon, <1>3, <1>4, <1>6, <1>8

\* Entering a block moves the state, then the strategy walks the cursor of the
\* target on: to a state of the target's path, none of which it skips.
LEMMA EnterInv ==
    ASSUME ExecutorInv, ExecutorInv', TopoInv, onBasicBlockEnter PROVE TopoInv' /\ Forward
<1>1. PICK bb \in Blocks : move(stepBasicBlock(index[running], bb))
  BY DEF onBasicBlockEnter, Enters
<1>2. Tracked(running) /\ running \in States /\ WellFormed(index[running])
  BY DEF onBasicBlockEnter, TopoInv, IndexInv, CursorInv
<1>3. /\ IndexInv' /\ Forward
      /\ \A m \in States : Tracked(m) /\ ~Before(index[m], active) => ~Before(index'[m], active)
  <2>1. /\ WellFormed(stepBasicBlock(index[running], bb))
        /\ Before(index[running], stepBasicBlock(index[running], bb))
    BY <1>2, BlockForward
  <2> QED  BY <1>1, <1>2, <2>1, MoveIndex DEF TopoInv
<1>4. /\ seg' = seg /\ path' = path /\ pathCount' = pathCount /\ hlSeg' = hlSeg
      /\ target' = target /\ phase' = phase /\ running' = running /\ pending' = FALSE
      /\ cursor' = cursor /\ wbr' = wbr /\ phase = "idle"
  BY <1>1 DEF move, vars, onBasicBlockEnter
<1>5. target # NoState
  <2>1. TargetRunnable  BY Runnable
  <2> QED  BY <1>2, <1>4, <2>1 DEF TargetRunnable
<1>6. trySchedule(target, active)  BY <1>5 DEF onBasicBlockEnter
<1>7. /\ current' \in States /\ current' # NoState
      /\ active' \in Seq(Levels) /\ active' # <<>>
      /\ seg'[current'] # NoSegment /\ path'[seg'[current']] = path'[hlSeg'[target]]
  BY <1>3, <1>6, ScheduledFields
<1>8. CursorInv'  BY Zenon, <1>2, <1>4, <1>7 DEF TopoInv, CursorInv
<1>9. CurrentOnPath'  BY <1>4, <1>7 DEF CurrentOnPath, StatesOn
<1>10. SinglePath'
  <2>1. CASE pathCount' <= 1
    <3>1. \A m \in States : Tracked(m) => ~Before(index'[m], active)
      BY <1>3, <1>4, <2>1 DEF TopoInv, SinglePath
    <3>2. target \in 1..Len(hlSeg) /\ hlSeg'[target] \in Segments'
      BY <1>4, <1>5 DEF ExecutorInv, TypeOK, NoState, Segments
    <3>3. \A m \in States : seg'[m] # NoSegment => ~Before(index'[m], active')
      BY <1>4, <1>6, <2>1, <3>1, <3>2, ScheduledAhead DEF ExecutorInv, Tracked
    <3> QED  BY <1>4, <3>3 DEF TopoInv, SinglePath, Tracked, Segments
  <2>2. CASE ~(pathCount' <= 1)  BY <1>4, <2>2 DEF TopoInv, SinglePath, Segments
  <2> QED  BY <2>1, <2>2
<1> QED  BY <1>3, <1>8, <1>9, <1>10 DEF TopoInv

-----------------------------------------------------------------------------
(* The steps of the executor.                                              *)

\* Before the first HL state there is no segment, no tracked state, no target.
LEMMA NoPathYet ==
    ASSUME ExecutorInv, pathCount = 0
    PROVE  /\ \A l \in States : seg[l] = NoSegment
           /\ Len(hlSeg) = 0 /\ Len(queue) = 0 /\ target = NoState
<1>1. Segments = {}
  BY DEF ExecutorInv, TypeOK, TreeTypeOK
<1>2. \A l \in States : seg[l] = NoSegment  BY <1>1 DEF ExecutorInv, TypeOK
<1>3. hlSeg \in Seq({}) /\ Len(hlSeg) \in Nat  BY <1>1 DEF ExecutorInv, TypeOK
<1>4. Len(hlSeg) = 0
  <2>1. Len(hlSeg) > 0 => hlSeg[1] \in {}  BY <1>3
  <2> QED  BY <1>3, <2>1
<1>5. hlStates = {} /\ queue \in Seq(hlStates) /\ Len(queue) \in Nat
  BY <1>4 DEF ExecutorInv, TypeOK
<1>6. Len(queue) = 0
  <2>1. Len(queue) > 0 => queue[1] \in {}  BY <1>5
  <2> QED  BY <1>5, <2>1
<1>7. target = NoState  BY <1>4 DEF ExecutorInv, TypeOK, NoState
<1> QED  BY <1>2, <1>4, <1>6, <1>7

\* createState(): the state and the new HL state's cursor are at a new root.
LEMMA CreateInv ==
    ASSUME ExecutorInv, ExecutorInv', TopoInv, NEW s, NEW created, topoCreate,
           createState(running, s, created), s # NoSegment, createRootSegment \in created,
           pending' \in BOOLEAN, phase' \in {"idle", "update"}
    PROVE  TopoInv' /\ Forward
<1>1. /\ running \in States /\ running' = running /\ ~Tracked(running)
      /\ index \in [States -> Seq(Levels)] /\ index' = [index EXCEPT ![running] = <<Root>>]
      /\ seg \in [States -> Segments \cup {NoSegment}] /\ seg' = [seg EXCEPT ![running] = s]
      /\ hlSeg' = Append(hlSeg, createRootSegment) /\ target' = selected'
      /\ selected' = selectState(QueueAdd(queue, Len(hlSeg) + 1))
      /\ pathCount' = pathCount + 1 /\ pathCount \in Nat
      /\ path' = [t \in Segments \cup created |-> IF t \in Segments THEN path[t] ELSE pathCount]
      /\ updateTargetHighLevelState(selected', Append(cursor, <<Root>>))
  BY Zenon DEF topoCreate, createState, addRoot, TopoInv, IndexInv, CursorInv, ExecutorInv, TypeOK, TreeTypeOK
<1>2. <<Root>> \in Seq(Levels) /\ <<Root>> # <<>> /\ WellFormed(<<Root>>)
  <2>1. Root \in Levels /\ Root[3] = "loop"  BY Zenon, LevelFields DEF Root
  <2> HIDE DEF Root
  <2>2. <<Root>> \in Seq(Levels) /\ <<Root>>[1] = Root /\ Len(<<Root>>) = 1  BY <2>1
  <2> QED  BY <2>1, <2>2 DEF WellFormed
<1> USE DEF Tracked
<1>3. /\ index' \in [States -> Seq(Levels)] /\ index'[running] = <<Root>>
      /\ \A m \in States \ {running} : index'[m] = index[m] /\ seg'[m] = seg[m]
      /\ seg'[running] = s
  BY <1>1, <1>2
<1>4. IndexInv'
  <2>1. ASSUME NEW m \in States
        PROVE  IF Tracked(m)' THEN WellFormed(index'[m]) ELSE index'[m] = <<>>
    <3>1. CASE m = running  BY <1>2, <1>3, <3>1
    <3>2. CASE m # running  BY Zenon, <1>3, <3>2 DEF TopoInv, IndexInv
    <3> QED  BY <3>1, <3>2
  <2>2. \A m \in States : WellFormed(index[m])' <=> WellFormed(index'[m])  BY DEF WellFormed
  <2> QED  BY <1>3, <2>1, <2>2 DEF IndexInv
<1>5. Forward  BY <1>1, <1>3 DEF Forward
<1> DEFINE cursors == Append(cursor, <<Root>>)
<1>6. /\ cursors \in Cursors /\ Len(cursors) = Len(hlSeg') /\ Len(hlSeg') = Len(hlSeg) + 1
      /\ Len(hlSeg) \in Nat /\ cursors[Len(hlSeg) + 1] = <<Root>>
  <2>1. PICK S : S = Seq(Levels) \ {<<>>}  BY Zenon
  <2>2. PICK r : r = <<Root>>  BY Zenon
  <2>3. cursor \in Seq(S) /\ r \in S /\ Len(cursor) = Len(hlSeg)
    BY <1>2, <2>1, <2>2 DEF TopoInv, CursorInv, Cursors
  <2>4. hlSeg \in Seq(Segments)  BY DEF ExecutorInv, TypeOK
  <2>5. Len(hlSeg') = Len(hlSeg) + 1 /\ Len(hlSeg) \in Nat  BY <1>1, <2>4
  <2>6. /\ Append(cursor, r) \in Seq(S) /\ Len(Append(cursor, r)) = Len(cursor) + 1
        /\ Append(cursor, r)[Len(cursor) + 1] = r
    BY <2>3, Appended
  <2> QED  BY <2>1, <2>2, <2>3, <2>5, <2>6 DEF Cursors
<1> HIDE DEF cursors
<1>7. selected' \in 1..Len(cursors)
  <2>1. Len(hlSeg) + 1 \in hlStates'  BY DEF createState
  <2>2. selected' # NoState  BY <2>1, SelectedAfter
  <2> QED  BY <1>6, <2>2, SelectedAfter
<1>8. target \in 0..Len(cursors)  BY <1>6 DEF ExecutorInv, TypeOK
<1>9. /\ cursor' \in Cursors /\ Len(cursor') = Len(cursors)
      /\ wbr' \in 0..WriteBackRate
      /\ \E from : /\ trySchedule(selected', from)
                   /\ selected' = target => from = active
                   /\ target = NoState => from = cursors[selected']
  <2>1. updateTargetHighLevelState(selected', cursors)  BY <1>1 DEF cursors
  <2>2. PICK h : h = selected'  OBVIOUS
  <2>3. updateTargetHighLevelState(h, cursors) /\ h \in 1..Len(cursors)  BY <1>7, <2>1, <2>2
  <2> QED  BY <1>6, <1>8, <2>2, <2>3, UpdateTarget DEF TopoInv
<1>10. PICK from : /\ trySchedule(selected', from)
                   /\ target = NoState => from = cursors[selected']
  BY <1>9
<1>11. /\ current' \in States /\ current' # NoState
       /\ active' \in Seq(Levels) /\ active' # <<>>
       /\ seg'[current'] # NoSegment /\ path'[seg'[current']] = path'[hlSeg'[selected']]
  BY <1>4, <1>10, ScheduledFields
<1>12. CursorInv'  BY Zenon, <1>1, <1>6, <1>9, <1>11 DEF CursorInv
<1>13. CurrentOnPath'  BY Zenon, <1>1, <1>11 DEF CurrentOnPath, StatesOn
<1>14. SinglePath'
  <2>1. \A p \in 0..pathCount'-1 : \E t \in Segments' : path'[t] = p
    <3> SUFFICES ASSUME NEW p \in 0..pathCount'-1 PROVE \E t \in Segments' : path'[t] = p
      OBVIOUS
    <3>1. Segments' = Segments \cup created  BY <1>1 DEF Segments
    <3>2. CASE p = pathCount
      <4>1. createRootSegment \notin Segments
        BY <1>1 DEF ExecutorInv, TreeInv, createRootSegment
      <4>2. path'[createRootSegment] = pathCount  BY <1>1, <4>1
      <4> QED  BY <3>1, <3>2, <4>2
    <3>3. CASE p # pathCount
      <4>1. p \in 0..pathCount-1  BY <1>1, <3>3
      <4>2. PICK t \in Segments : path[t] = p  BY <4>1 DEF TopoInv, SinglePath
      <4>3. path'[t] = path[t]  BY <1>1, <4>2
      <4> QED  BY <3>1, <4>2, <4>3
    <3> QED  BY <3>2, <3>3
  <2>2. ASSUME pathCount' <= 1
        PROVE  /\ Len(hlSeg') <= 1
               /\ \A m \in States : Tracked(m)' => target' = 1 /\ ~Before(index'[m], active')
    <3>1. pathCount = 0  BY <1>1, <2>2
    <3>2. /\ \A m \in States : seg[m] = NoSegment
          /\ Len(hlSeg) = 0 /\ Len(queue) = 0 /\ target = NoState
      BY <3>1, NoPathYet
    <3>3. selected' = 1  BY <1>6, <1>7, <3>2
    <3>4. from = <<Root>>
      <4>1. from = cursors[1] /\ Len(hlSeg) + 1 = 1  BY <1>10, <3>2, <3>3
      <4> QED  BY <1>6, <4>1
    <3>5. ASSUME NEW m \in States, seg'[m] # NoSegment PROVE ~Before(index'[m], from)
      <4>1. m = running  BY Zenon, <1>3, <3>2, <3>5
      <4> QED  BY Zenon, <1>2, <1>3, <3>4, <4>1, BeforeIrreflexive
    <3>6. hlSeg'[selected'] \in Segments'
      <4>1. 1 # NoState  BY DEF NoState
      <4> QED  BY <3>3, <4>1, SelectedAfter
    <3>7. TypeOK'  BY DEF ExecutorInv
    <3>8. \A m \in States : seg'[m] # NoSegment => ~Before(index'[m], active')
      BY <1>10, <2>2, <3>5, <3>6, <3>7, ScheduledAhead
    <3> QED  BY <1>1, <1>6, <3>2, <3>3, <3>8
  <2> QED  BY <2>1, <2>2 DEF SinglePath
<1> QED  BY <1>4, <1>5, <1>12, <1>13, <1>14 DEF TopoInv

\* A step that keeps every index and the schedule, and tracks no new state.
LEMMA IndexKept ==
    ASSUME IndexInv, UNCHANGED index, \A l \in States : Tracked(l)' <=> Tracked(l)
    PROVE  IndexInv' /\ Forward
<1>1. IndexInv'  BY DEF IndexInv, WellFormed
<1>2. Forward  BY DEF Forward
<1> QED  BY <1>1, <1>2

\* onHighLevelPCUpdate() of a tracked state moves its segment only.
LEMMA TopoPCUpdateInv ==
    ASSUME ExecutorInv, ExecutorInv', TopoInv, NEW pc \in HLPC, onHighLevelPCUpdate(running, pc),
           UNCHANGED <<index, unscheduled, running, pending>>
    PROVE  TopoInv' /\ Forward
<1>1. /\ running \in States /\ seg[running] # NoSegment /\ phase' = "update"
      /\ seg \in [States -> Segments \cup {NoSegment}]
      /\ seg' = [seg EXCEPT ![running] = Append(seg[running], pc)]
      /\ hlSeg' = hlSeg /\ target' = target
      /\ getNextSegment(seg[running], pc)
  BY DEF onHighLevelPCUpdate, hlVars, Tracked, TopoInv, CursorInv, ExecutorInv, TypeOK
<1>2. seg[running] \in Segments /\ pathCount \in Nat  BY <1>1 DEF ExecutorInv, TypeOK, TreeTypeOK
<1>3. TreeTypeOK /\ TreeInv  BY DEF ExecutorInv, TypeOK
<1>4. /\ Segments' = Segments \cup {Append(seg[running], pc)}
      /\ \A t \in Segments : path'[t] = path[t]
  BY Zenon, <1>1, <1>2, <1>3, NextSegmentTree
<1>5. \A l \in States : Tracked(l)' <=> Tracked(l)
  <2>1. PICK s : s = seg[running]  OBVIOUS
  <2>2. s \in Seq(Nat) /\ pc \in Nat  BY <1>2, <1>3, <2>1, HLPCAssumption DEF TreeTypeOK
  <2>3. Append(s, pc) # NoSegment
    <3>1. Len(Append(s, pc)) = Len(s) + 1 /\ Len(s) \in Nat  BY <2>2, BelowChild
    <3>2. Len(NoSegment) = 0  BY DEF NoSegment
    <3> QED  BY <3>1, <3>2
  <2> QED  BY <1>1, <2>1, <2>3 DEF Tracked
<1>6. IndexInv' /\ Forward
  <2>1. IndexInv /\ UNCHANGED index  BY DEF TopoInv
  <2> QED  BY Zenon, <1>5, <2>1, IndexKept
<1>7. CursorInv'  BY <1>1 DEF TopoInv, CursorInv, unscheduled
<1>8. CurrentOnPath'  BY Zenon, <1>1 DEF CurrentOnPath
<1>9. SinglePath'
  <2>1. \A p \in 0..pathCount'-1 : \E t \in Segments' : path'[t] = p
    <3> SUFFICES ASSUME NEW p \in 0..pathCount'-1 PROVE \E t \in Segments' : path'[t] = p
      OBVIOUS
    <3>1. CASE p \in 0..pathCount-1
      <4>1. PICK t \in Segments : path[t] = p  BY <3>1 DEF TopoInv, SinglePath
      <4> QED  BY <1>4, <4>1
    <3>2. CASE p \notin 0..pathCount-1
      <4>1. /\ ~(pc \in Children(seg[running]) \/ Children(seg[running]) = {})
            /\ pathCount' = pathCount + 1 /\ p = pathCount
        BY <1>1, <1>2, <3>2 DEF getNextSegment
      <4>2. Append(seg[running], pc) \notin Segments  BY <4>1 DEF Children
      <4>3. path'[Append(seg[running], pc)] = pathCount
        BY <1>1, <4>1, <4>2 DEF getNextSegment, NextPath
      <4> QED  BY Zenon, <1>4, <4>1, <4>3
    <3> QED  BY <3>1, <3>2
  <2>2. pathCount' <= 1 => pathCount <= 1
    BY <1>1, <1>2 DEF getNextSegment
  <2> QED  BY <1>1, <1>5, <2>1, <2>2 DEF TopoInv, SinglePath, unscheduled
<1> QED  BY <1>6, <1>7, <1>8, <1>9 DEF TopoInv

\* LowLevelState::clone(): the new state is at the node of the one forked.
LEMMA TopoForkInv ==
    ASSUME ExecutorInv, TopoInv, NEW n \in States, topoFork(n)
    PROVE  TopoInv' /\ Forward
<1>1. /\ running \in States /\ ~Tracked(n) /\ n # running /\ phase = "idle"
      /\ seg \in [States -> Segments \cup {NoSegment}] /\ seg' = [seg EXCEPT ![n] = seg[running]]
      /\ index \in [States -> Seq(Levels)] /\ index' = [index EXCEPT ![n] = index[running]]
      /\ path' = path /\ pathCount' = pathCount /\ hlSeg' = hlSeg /\ target' = target
      /\ phase' = phase /\ running' = running /\ pending' = pending
      /\ cursor' = cursor /\ active' = active /\ current' = current /\ wbr' = wbr
  BY DEF topoFork, onStateFork, treeVars, hlVars, unscheduled, TopoInv, IndexInv, CursorInv,
         ExecutorInv, TypeOK
<1>2. /\ index'[n] = index[running] /\ seg'[n] = seg[running]
      /\ \A m \in States \ {n} : index'[m] = index[m] /\ seg'[m] = seg[m]
      /\ index' \in [States -> Seq(Levels)]
  BY <1>1
<1>3. IndexInv'
  <2>1. ASSUME NEW m \in States
        PROVE  IF Tracked(m)' THEN WellFormed(index'[m]) ELSE index'[m] = <<>>
    <3>1. CASE m = n  BY <1>1, <1>2, <3>1 DEF TopoInv, IndexInv, Tracked
    <3>2. CASE m # n  BY Zenon, <1>2, <3>2 DEF TopoInv, IndexInv, Tracked
    <3> QED  BY <3>1, <3>2
  <2>2. \A m \in States : WellFormed(index[m])' <=> WellFormed(index'[m])  BY DEF WellFormed
  <2> QED  BY <1>2, <2>1, <2>2 DEF IndexInv
<1>4. Forward  BY <1>1, <1>2 DEF Forward
<1>5. CursorInv'  BY <1>1 DEF TopoInv, CursorInv
<1>6. CurrentOnPath'
  <2> SUFFICES ASSUME NEW m \in States, seg'[m] # NoSegment
               PROVE  /\ current # NoState /\ current \in States
                      /\ seg'[current] # NoSegment
                      /\ path[seg'[current]] = path[hlSeg[target]]
    BY <1>1 DEF CurrentOnPath, Tracked, StatesOn
  <2>1. \E l \in States : Tracked(l)  BY <1>1, <1>2 DEF Tracked
  <2>2. /\ current # NoState /\ current \in States
        /\ seg[current] # NoSegment /\ path[seg[current]] = path[hlSeg[target]]
    BY <1>1, <2>1 DEF TopoInv, CurrentOnPath, StatesOn
  <2>3. seg'[current] = seg[current]  BY <1>1, <1>2, <2>2 DEF Tracked
  <2> QED  BY <2>2, <2>3
<1>7. SinglePath'
  <2>1. ASSUME NEW m \in States, Tracked(m)'
        PROVE  \E l \in States : Tracked(l) /\ index'[m] = index[l]
    BY <1>1, <1>2, <2>1 DEF Tracked
  <2> QED  BY <1>1, <2>1 DEF TopoInv, SinglePath, Segments
<1> QED  BY <1>3, <1>4, <1>5, <1>6, <1>7 DEF TopoInv

\* LowLevelState::terminate(), also when a merge kills the running state.
LEMMA TopoKillInv ==
    ASSUME ExecutorInv, TopoInv, NEW l \in States, onStateKill(l),
           index' = [index EXCEPT ![l] = <<>>], UNCHANGED <<unscheduled, running>>,
           pending' \in BOOLEAN
    PROVE  TopoInv' /\ Forward
<1>1. /\ seg \in [States -> Segments \cup {NoSegment}]
      /\ index \in [States -> Seq(Levels)]
      /\ path' = path /\ pathCount' = pathCount /\ hlSeg' = hlSeg /\ target' = target
      /\ running' = running
      /\ cursor' = cursor /\ active' = active /\ current' = current /\ wbr' = wbr
      /\ IF Tracked(l) THEN seg' = [seg EXCEPT ![l] = NoSegment] /\ phase' = "update"
                       ELSE seg' = seg /\ phase' = phase
  BY Zenon DEF onStateKill, treeVars, hlVars, unscheduled, TopoInv, IndexInv, ExecutorInv, TypeOK
<1>2. <<>> \in Seq(Levels)  OBVIOUS
<1>3. /\ index' \in [States -> Seq(Levels)] /\ index'[l] = <<>> /\ seg'[l] = NoSegment
      /\ \A m \in States \ {l} : index'[m] = index[m] /\ seg'[m] = seg[m]
  BY <1>1, <1>2 DEF Tracked
<1>4. IndexInv'
  <2>1. ASSUME NEW m \in States
        PROVE  IF Tracked(m)' THEN WellFormed(index'[m]) ELSE index'[m] = <<>>
    <3>1. CASE m = l  BY <1>3, <3>1 DEF Tracked
    <3>2. CASE m # l  BY <1>3, <3>2 DEF TopoInv, IndexInv, Tracked
    <3> QED  BY <3>1, <3>2
  <2>2. \A m \in States : WellFormed(index[m])' <=> WellFormed(index'[m])  BY DEF WellFormed
  <2> QED  BY <1>3, <2>1, <2>2 DEF IndexInv
<1>5. Forward  BY <1>3 DEF Forward, Tracked
<1>6. CursorInv'  BY <1>1 DEF TopoInv, CursorInv
<1>7. CurrentOnPath'
  BY <1>1 DEF TopoInv, CurrentOnPath, Tracked, StatesOn
<1>8. SinglePath'
  <2>1. ASSUME NEW m \in States, Tracked(m)' PROVE Tracked(m) /\ index'[m] = index[m]
    BY <1>3, <2>1 DEF Tracked
  <2> QED  BY <1>1, <2>1 DEF TopoInv, SinglePath, Segments
<1> QED  BY <1>4, <1>5, <1>6, <1>7, <1>8 DEF TopoInv

\* doUpdateSelectedState(): the cursors follow the HL states, and one path has
\* no HL state to fork.
LEMMA TopoUpdateInv ==
    ASSUME ExecutorInv, ExecutorInv', TopoInv, topoUpdate
    PROVE  TopoInv' /\ Forward
<1>1. /\ Advancing /\ phase = "update" /\ phase' = phase /\ seg' = seg /\ path' = path
      /\ pathCount' = pathCount /\ target' = target /\ index' = index /\ running' = running
      /\ pending' = pending /\ active' = active /\ current' = current /\ wbr' = wbr
      /\ cursor' = [h \in DOMAIN hlSeg' |-> IF h \in DOMAIN cursor THEN cursor[h] ELSE cursor[selected]]
  BY Zenon DEF topoUpdate, doUpdateKill, doUpdateStep, doUpdateFork, Terminating, Advancing, treeVars
<1>2. IndexInv' /\ Forward
  <2>1. IndexInv /\ UNCHANGED index  BY <1>1 DEF TopoInv
  <2>2. \A l \in States : Tracked(l)' <=> Tracked(l)  BY <1>1 DEF Tracked
  <2> QED  BY Zenon, <2>1, <2>2, IndexKept
<1>3. selected \in 1..Len(hlSeg) /\ hlSeg[selected] \in Segments
  BY <1>1 DEF Advancing, ExecutorInv, TypeOK
<1>4. cursor' \in Cursors /\ Len(cursor') = Len(hlSeg')
  <2>1. PICK S : S = Seq(Levels) \ {<<>>}  BY Zenon
  <2>2. cursor \in Seq(S) /\ Len(cursor) = Len(hlSeg)  BY <2>1 DEF TopoInv, CursorInv, Cursors
  <2>3. hlSeg' \in Seq(Segments') /\ DOMAIN hlSeg' = 1..Len(hlSeg') /\ Len(hlSeg') \in Nat
    BY DEF ExecutorInv, TypeOK
  <2>4. cursor[selected] \in S /\ \A h \in DOMAIN cursor : cursor[h] \in S  BY <1>3, <2>2
  <2>5. cursor' \in [1..Len(hlSeg') -> S]  BY Zenon, <1>1, <2>3, <2>4
  <2>6. cursor' \in Seq(S) /\ Len(cursor') = Len(hlSeg')  BY <2>3, <2>5
  <2> QED  BY <2>1, <2>6 DEF Cursors
<1>5. CursorInv'  BY <1>1, <1>4 DEF TopoInv, CursorInv
<1>6. CurrentOnPath'  BY <1>1 DEF CurrentOnPath
<1>7. pathCount <= 1 => Len(hlSeg') = Len(hlSeg)
  <2> SUFFICES ASSUME pathCount <= 1 PROVE Len(hlSeg') = Len(hlSeg)
    OBVIOUS
  <2>1. hlSeg \in Seq(Segments)  BY DEF ExecutorInv, TypeOK
  <2>2. CASE doUpdateKill  BY <2>2 DEF doUpdateKill
  <2>3. CASE doUpdateStep
    <3>1. PICK pc : hlSeg' = [hlSeg EXCEPT ![selected] = Append(@, pc)]  BY Zenon, <2>3 DEF doUpdateStep
    <3> QED  BY <2>1, <3>1
  <2>4. CASE doUpdateFork
    <3> DEFINE C == Children(hlSeg[selected])
    <3>1. PICK pc \in HLPC : SamePath(hlSeg[selected]) = {pc} /\ Cardinality(C) > 1
      BY <2>4 DEF doUpdateFork
    <3>2. ASSUME NEW c \in C PROVE c = pc
      <4>1. Append(hlSeg[selected], c) \in Segments  BY DEF Children
      <4>2. \A s \in Segments : path[s] = 0
        BY DEF ExecutorInv, TypeOK, TreeTypeOK
      <4>3. path[Append(hlSeg[selected], c)] = path[hlSeg[selected]]  BY Zenon, <1>3, <4>1, <4>2
      <4>4. c \in SamePath(hlSeg[selected])  BY <4>3 DEF SamePath
      <4> QED  BY <3>1, <4>4
    <3>3. pc \in C  BY <3>1 DEF SamePath
    <3> HIDE DEF C
    <3>4. C = {pc}  BY <3>2, <3>3
    <3>5. Cardinality({pc}) = 1  BY FS_Singleton
    <3> QED  BY <3>1, <3>4, <3>5
  <2> QED  BY <2>2, <2>3, <2>4 DEF topoUpdate
<1>8. SinglePath'
  BY <1>1, <1>7 DEF TopoInv, SinglePath, Tracked, Segments
<1> QED  BY <1>2, <1>5, <1>6, <1>8 DEF TopoInv

\* tryUpdateSelectedState() ends: the selected HL state becomes the target and
\* a state of its path is scheduled.
LEMMA TopoUpdateEndInv ==
    ASSUME ExecutorInv, ExecutorInv', TopoInv, topoUpdateEnd
    PROVE  TopoInv' /\ Forward
<1>1. /\ seg' = seg /\ path' = path /\ hlStates' = hlStates
      /\ pathCount' = pathCount /\ target' = NextTarget /\ index' = index /\ running' = running
      /\ pending' = pending /\ hlSeg' = hlSeg
      /\ IF selected = NoState THEN UNCHANGED unscheduled
         ELSE updateTargetHighLevelState(selected, cursor)
  BY DEF topoUpdateEnd, tryUpdateSelectedStateEnd, treeVars, hlVars
<1>2. IndexInv' /\ Forward
  <2>1. IndexInv /\ UNCHANGED index  BY <1>1 DEF TopoInv
  <2>2. \A l \in States : Tracked(l)' <=> Tracked(l)  BY <1>1 DEF Tracked
  <2> QED  BY Zenon, <2>1, <2>2, IndexKept
<1>3. CASE selected = NoState
  <2>1. /\ target' = target /\ cursor' = cursor /\ active' = active /\ current' = current
        /\ wbr' = wbr
    BY <1>1, <1>3 DEF NextTarget, unscheduled
  <2>2. hlStates = {}  BY <1>3, InvLists, SelectFromQueue
  <2>3. \A l \in States : ~Tracked(l)  BY <2>2 DEF ExecutorInv, FrontierInv
  <2>4. CursorInv'  BY <1>1, <2>1 DEF TopoInv, CursorInv
  <2>5. CurrentOnPath'  BY <1>1, <2>3 DEF CurrentOnPath, Tracked
  <2>6. SinglePath'  BY <1>1, <2>1 DEF TopoInv, SinglePath, Tracked, Segments
  <2> QED  BY <1>2, <2>4, <2>5, <2>6 DEF TopoInv
<1>4. CASE selected # NoState
  <2>1. target' = selected /\ updateTargetHighLevelState(selected, cursor)
    BY <1>1, <1>4 DEF NextTarget
  <2>2. /\ cursor \in Cursors /\ Len(cursor) = Len(hlSeg) /\ selected \in 1..Len(cursor)
        /\ target \in 0..Len(cursor) /\ hlSeg'[selected] \in Segments'
    <3>1. cursor \in Cursors /\ Len(cursor) = Len(hlSeg)  BY Zenon DEF TopoInv, CursorInv
    <3>2. selected \in 1..Len(hlSeg) /\ target \in 0..Len(hlSeg)
      BY <1>4 DEF ExecutorInv, TypeOK
    <3>3. hlSeg[selected] \in Segments  BY <3>2 DEF ExecutorInv, TypeOK
    <3>4. hlSeg'[selected] \in Segments'  BY Zenon, <1>1, <3>3 DEF Segments
    <3> QED  BY Zenon, <3>1, <3>2, <3>4
  <2>3. /\ cursor' \in Cursors /\ Len(cursor') = Len(cursor)
        /\ wbr' \in 0..WriteBackRate
        /\ \E from : trySchedule(selected, from) /\ (selected = target => from = active)
    BY <2>1, <2>2, UpdateTarget DEF TopoInv
  <2>4. PICK from : trySchedule(selected, from) /\ (selected = target => from = active)
    BY <2>3
  <2>5. /\ current' \in States /\ current' # NoState
        /\ active' \in Seq(Levels) /\ active' # <<>>
        /\ seg'[current'] # NoSegment /\ path'[seg'[current']] = path'[hlSeg'[selected]]
    BY <1>2, <2>4, ScheduledFields
  <2>6. CursorInv'  BY <1>1, <2>2, <2>3, <2>5 DEF TopoInv, CursorInv
  <2>7. CurrentOnPath'  BY <2>1, <2>5 DEF CurrentOnPath, StatesOn
  <2>8. ASSUME pathCount' <= 1, NEW l \in States, Tracked(l)
        PROVE  target' = 1 /\ \A m \in States : Tracked(m)' => ~Before(index'[m], active')
    <3>1. /\ Len(hlSeg) <= 1
          /\ \A m \in States : Tracked(m) => target = 1 /\ ~Before(index[m], active)
      BY <1>1, <2>8 DEF TopoInv, SinglePath
    <3>2. target = 1  BY <2>8, <3>1
    <3>3. selected = 1  BY <2>2, <3>1
    <3>4. from = active  BY <2>4, <3>2, <3>3
    <3>5. \A m \in States : seg'[m] # NoSegment => ~Before(index'[m], from)
      BY Zenon, <1>1, <3>1, <3>4 DEF Tracked
    <3>6. TypeOK'  BY DEF ExecutorInv
    <3>7. \A m \in States : seg'[m] # NoSegment => ~Before(index'[m], active')
      BY Zenon, <2>2, <2>4, <2>8, <3>5, <3>6, ScheduledAhead
    <3> QED  BY <2>1, <3>3, <3>7 DEF Tracked
  <2>9. SinglePath'
    BY Zenon, <1>1, <2>8 DEF TopoInv, SinglePath, Tracked, Segments
  <2> QED  BY <1>2, <2>6, <2>7, <2>9 DEF TopoInv
<1> QED  BY <1>3, <1>4

-----------------------------------------------------------------------------
(* The theorems.                                                           *)

\* The strategy adds scheduling to the executor and takes nothing from it.
LEMMA TopoNextIsNext == CursorInv /\ [TopoNext]_topoVars => [Next]_vars
<1> SUFFICES ASSUME CursorInv, [TopoNext]_topoVars PROVE [Next]_vars
  OBVIOUS
<1>1. running \in States  BY DEF CursorInv
<1>2. ASSUME topoGetState PROVE Next  BY Zenon, <1>1, <1>2 DEF topoGetState, Next
<1>3. ASSUME NEW pc \in HLPC, topoPCUpdate(pc) PROVE Next
  BY Zenon, <1>1, <1>3 DEF topoPCUpdate, Next
<1>4. ASSUME NEW n \in States, topoFork(n) PROVE Next
  BY Zenon, <1>1, <1>4 DEF topoFork, Next
<1>5. ASSUME NEW l \in States, topoKill(l) PROVE Next
  BY Zenon, <1>5 DEF topoKill, Next
<1>6. ASSUME onBasicBlockMerge PROVE Next
  BY Zenon, <1>1, <1>6 DEF onBasicBlockMerge, Next
<1>7. ASSUME topoUpdate \/ topoUpdateEnd \/ topoTerminated PROVE Next
  BY Zenon, <1>7 DEF topoUpdate, topoUpdateEnd, topoTerminated, Next, tryUpdateSelectedState,
                     doUpdateSelectedState
<1>8. ASSUME onStackFramePush \/ onStackFramePopping \/ onBasicBlockEnter \/ topoSelect
      PROVE  UNCHANGED vars
  BY Zenon, <1>8 DEF onStackFramePush, onStackFramePopping, onBasicBlockEnter, topoSelect,
                     selectNextState, move
<1>9. UNCHANGED topoVars => UNCHANGED vars  BY DEF topoVars
<1> QED  BY Zenon, <1>2, <1>3, <1>4, <1>5, <1>6, <1>7, <1>8, <1>9 DEF TopoNext

\* The executor is created without states, cursors or a schedule.
LEMMA TopoInitInv == TopoInit => TopoInv
<1> SUFFICES ASSUME TopoInit PROVE TopoInv
  OBVIOUS
<1>1. /\ \A l \in States : ~Tracked(l) /\ index[l] = <<>>
      /\ hlSeg = <<>> /\ cursor = <<>> /\ active = <<>> /\ target = NoState /\ pathCount = 0
      /\ current = NoState /\ wbr = 0 /\ pending = FALSE /\ running \in States
      /\ index = [l \in States |-> <<>>]
  BY DEF TopoInit, Init, Tracked, Alive
<1>2. IndexInv
  <2>1. <<>> \in Seq(Levels)  OBVIOUS
  <2> QED  BY <1>1, <2>1 DEF IndexInv
<1>3. CursorInv
  <2>1. cursor \in Cursors /\ Len(cursor) = Len(hlSeg) /\ active \in Seq(Levels)
    BY <1>1 DEF Cursors
  <2>2. wbr \in 0..WriteBackRate  BY <1>1, TopoAssumption
  <2> QED  BY Zenon, <1>1, <2>1, <2>2 DEF CursorInv
<1>4. CurrentOnPath  BY <1>1 DEF CurrentOnPath
<1>5. SinglePath  BY <1>1 DEF SinglePath
<1> QED  BY <1>2, <1>3, <1>4, <1>5 DEF TopoInv

\* S2E switches to another state: nothing of the strategy changes.
LEMMA TopoStutter ==
    ASSUME TopoInv, UNCHANGED vars, UNCHANGED index, UNCHANGED unscheduled, UNCHANGED pending,
           running' \in States
    PROVE  TopoInv' /\ Forward
<1>1. /\ seg' = seg /\ path' = path /\ pathCount' = pathCount /\ hlSeg' = hlSeg
      /\ target' = target /\ phase' = phase
      /\ cursor' = cursor /\ active' = active /\ current' = current /\ wbr' = wbr
  BY DEF vars, unscheduled
<1>2. IndexInv' /\ Forward
  <2>1. IndexInv  BY DEF TopoInv
  <2>2. \A l \in States : Tracked(l)' <=> Tracked(l)  BY <1>1 DEF Tracked
  <2> QED  BY Zenon, <2>1, <2>2, IndexKept
<1>3. CursorInv'  BY <1>1 DEF TopoInv, CursorInv
<1>4. CurrentOnPath'  BY <1>1 DEF TopoInv, CurrentOnPath, Tracked, StatesOn
<1>5. SinglePath'  BY <1>1 DEF TopoInv, SinglePath, Tracked, Segments
<1> QED  BY <1>2, <1>3, <1>4, <1>5 DEF TopoInv

\* Every step keeps the invariant and moves states forward only.
LEMMA TopoNextInv ==
    ExecutorInv /\ ExecutorInv' /\ TopoInv /\ [TopoNext]_topoVars
      => TopoInv' /\ (TopoNext => Forward)
<1> SUFFICES ASSUME ExecutorInv, ExecutorInv', TopoInv, [TopoNext]_topoVars
             PROVE  TopoInv' /\ (TopoNext => Forward)
  OBVIOUS
<1>1. running \in States /\ pending \in BOOLEAN /\ pathCount \in Nat
  BY DEF TopoInv, CursorInv, ExecutorInv, TypeOK, TreeTypeOK
<1>2. createRootSegment # NoSegment /\ \A pc \in HLPC : Append(createRootSegment, pc) # NoSegment
  <2>1. createRootSegment \in Seq(Nat) /\ Len(createRootSegment) = 1
    BY <1>1 DEF createRootSegment
  <2>2. Len(NoSegment) = 0  BY DEF NoSegment
  <2>3. PICK r : r = createRootSegment  OBVIOUS
  <2>4. r # NoSegment
    <3>1. 0 # 1  OBVIOUS
    <3> QED  BY Zenon, <2>1, <2>2, <2>3, <3>1
  <2>5. ASSUME NEW pc \in HLPC PROVE Append(r, pc) # NoSegment
    <3>1. pc \in Nat /\ r \in Seq(Nat)  BY <2>1, <2>3, HLPCAssumption
    <3>2. Len(Append(r, pc)) = 1 + 1  BY Zenon, <2>1, <2>3, <3>1, BelowChild
    <3> QED  BY <2>2, <3>2
  <2> QED  BY Zenon, <2>3, <2>4, <2>5
<1>3. ASSUME topoGetState PROVE TopoInv' /\ Forward
  <2>1. /\ createState(running, createRootSegment, {createRootSegment})
        /\ topoCreate /\ pending' \in BOOLEAN /\ phase' \in {"idle", "update"}
    BY <1>3 DEF topoGetState, getState, createState
  <2> QED  BY <1>2, <2>1, CreateInv
<1>4. ASSUME NEW pc \in HLPC, topoPCUpdate(pc) PROVE TopoInv' /\ Forward
  <2>1. CASE onFirstHighLevelPCUpdate(running, pc) /\ topoCreate
    <3> DEFINE s == Append(createRootSegment, pc)
    <3>1. /\ createState(running, s, {createRootSegment, s})
          /\ topoCreate /\ pending' \in BOOLEAN /\ phase' \in {"idle", "update"}
      BY <1>1, <1>4, <2>1 DEF topoPCUpdate, onFirstHighLevelPCUpdate
    <3>2. s # NoSegment  BY <1>2
    <3> HIDE DEF s
    <3> QED  BY <3>1, <3>2, CreateInv
  <2>2. CASE onHighLevelPCUpdate(running, pc) /\ UNCHANGED <<index, unscheduled, running>>
    <3>1. UNCHANGED <<index, unscheduled, running, pending>>  BY <1>4, <2>2 DEF topoPCUpdate
    <3> QED  BY <2>2, <3>1, TopoPCUpdateInv
  <2> QED  BY <1>4, <2>1, <2>2 DEF topoPCUpdate
<1>5. ASSUME NEW n \in States, topoFork(n) PROVE TopoInv' /\ Forward
  BY <1>5, TopoForkInv
<1>6. ASSUME NEW l \in States, topoKill(l) PROVE TopoInv' /\ Forward
  <2>1. /\ onStateKill(l) /\ index' = [index EXCEPT ![l] = <<>>]
        /\ UNCHANGED <<unscheduled, running>> /\ pending' \in BOOLEAN
    BY <1>1, <1>6 DEF topoKill
  <2> QED  BY Zenon, <2>1, TopoKillInv
<1>7. ASSUME onBasicBlockMerge PROVE TopoInv' /\ Forward
  <2>1. /\ onStateKill(running) /\ index' = [index EXCEPT ![running] = <<>>]
        /\ UNCHANGED <<unscheduled, running>> /\ pending' \in BOOLEAN
    BY Zenon, <1>7 DEF onBasicBlockMerge
  <2> QED  BY Zenon, <1>1, <2>1, TopoKillInv
<1>8. ASSUME topoSelect PROVE TopoInv' /\ Forward
  <2>1. /\ UNCHANGED vars /\ UNCHANGED index /\ UNCHANGED unscheduled /\ UNCHANGED pending
        /\ running' \in States
    BY <1>8 DEF topoSelect, selectNextState, Alive, TopoInv, CursorInv
  <2> QED  BY <2>1, TopoStutter
<1>9. ASSUME topoTerminated PROVE TopoInv' /\ Forward
  <2>1. /\ UNCHANGED vars /\ UNCHANGED index /\ UNCHANGED unscheduled /\ UNCHANGED pending
        /\ running' \in States
    BY <1>1, <1>9 DEF topoTerminated, allStatesTerminated
  <2> QED  BY <2>1, TopoStutter
<1>10. ASSUME UNCHANGED topoVars PROVE TopoInv' /\ Forward
  <2>1. /\ UNCHANGED vars /\ UNCHANGED index /\ UNCHANGED unscheduled /\ UNCHANGED pending
        /\ running' \in States
    BY <1>1, <1>10 DEF topoVars, unscheduled
  <2> QED  BY <2>1, TopoStutter
<1> QED
  BY Zenon, <1>3, <1>4, <1>5, <1>6, <1>7, <1>8, <1>9, <1>10,
     PushInv, PopInv, EnterInv, TopoUpdateInv, TopoUpdateEndInv DEF TopoNext

\* The topologic strategy implements the executor: scheduling changes nothing
\* of the high-level search.
THEOREM TopoImplementsExecutor == TopoSpec => Spec
<1>1. TopoInit => Init  BY DEF TopoInit
<1>2. TopoInit => TopoInv /\ ExecutorInv  BY <1>1, TopoInitInv, InitInv
<1>3. TopoInv /\ ExecutorInv /\ [TopoNext]_topoVars
        => [Next]_vars /\ TopoInv' /\ ExecutorInv'
  BY TopoNextIsNext, NextInv, TopoNextInv DEF TopoInv
<1> QED  BY <1>1, <1>2, <1>3, PTL DEF TopoSpec, Spec

\* The invariants of the executor and of the strategy hold in every reachable
\* state, for any guest control flow, any number of states, calls and loops.
THEOREM TopoInvariant == TopoSpec => [](TopoInv /\ ExecutorInv)
<1>1. TopoInit => TopoInv /\ ExecutorInv  BY TopoInitInv, InitInv DEF TopoInit
<1>2. TopoInv /\ ExecutorInv /\ [TopoNext]_topoVars => TopoInv' /\ ExecutorInv'
  BY TopoNextIsNext, NextInv, TopoNextInv DEF TopoInv
<1> QED  BY <1>1, <1>2, PTL DEF TopoSpec

\* A tracked state only moves forward in the topologic space: the assertion of
\* TopologicNode::getNext().
THEOREM TopologicOrderAlways == TopoSpec => TopologicOrder
<1>1. TopoInv /\ ExecutorInv /\ (TopoInv /\ ExecutorInv)' /\ [TopoNext]_topoVars
        => [\A l \in States :
              Tracked(l) /\ Tracked(l)' /\ index'[l] # index[l]
                => Before(index[l], index'[l])]_topoVars
  BY Zenon, TopoNextInv DEF Forward
<1> QED  BY <1>1, TopoInvariant, PTL DEF TopoSpec, TopologicOrder

\* Indexes and cursors are paths of the topologic space, exactly the tracked
\* states have one, and loop levels hold blocks of their loop only.
THEOREM LoopLevelsAlways == TopoSpec => []LoopLevels
<1>1. TopoInv /\ ExecutorInv => LoopLevels
  <2> SUFFICES ASSUME TopoInv, ExecutorInv PROVE LoopLevels
    OBVIOUS
  <2>1. Indexes = Seq(Levels)  BY DEF Indexes, Levels
  <2>2. ASSUME NEW l \in States
        PROVE  /\ index[l] \in Seq(Levels) /\ (index[l] # <<>> <=> Tracked(l))
               /\ \A n \in 2..Len(index[l]) :
                    index[l][n][3] = "none" => index[l][n][1] <= index[l][n-1][1]
    <3>1. CASE Tracked(l)  BY <3>1 DEF TopoInv, IndexInv, WellFormed
    <3>2. CASE ~Tracked(l)
      <4>1. index[l] = <<>> /\ index[l] \in Seq(Levels)  BY <3>2 DEF TopoInv, IndexInv
      <4>2. Len(index[l]) = 0  BY <4>1
      <4> QED  BY <3>2, <4>1, <4>2
    <3> QED  BY <3>1, <3>2
  <2>3. DOMAIN cursor = DOMAIN hlSeg
    BY DEF TopoInv, CursorInv, Cursors, ExecutorInv, TypeOK
  <2>4. \A h \in DOMAIN cursor : cursor[h] \in Seq(Levels) /\ cursor[h] # <<>>
    BY DEF TopoInv, CursorInv, Cursors
  <2>5. /\ active \in Seq(Levels) /\ current \in States \cup {NoState} /\ wbr \in 0..WriteBackRate
        /\ running \in States /\ pending \in BOOLEAN
    BY DEF TopoInv, CursorInv
  <2> QED  BY Zenon, <2>1, <2>2, <2>3, <2>4, <2>5 DEF LoopLevels, TopoTypeOK
<1> QED  BY <1>1, TopoInvariant, PTL

\* Between events current_ll_state_ is a tracked state on the target's path, so
\* S2E never runs through a dangling or an unrelated pointer.
THEOREM CurrentOnPathAlways == TopoSpec => []CurrentOnPath
<1>1. TopoInv => CurrentOnPath  BY DEF TopoInv
<1> QED  BY <1>1, TopoInvariant, PTL

\* As long as all states take one high-level path, no state is behind the
\* cursor of its HL state: findNextState(), which never goes back, misses none.
THEOREM CursorBehindAlways == TopoSpec => []CursorBehind
<1>1. TopoInv /\ ExecutorInv => CursorBehind
  <2> DEFINE P == {path[s] : s \in Segments}
  <2> SUFFICES ASSUME TopoInv, ExecutorInv, Cardinality(P) <= 1,
                      NEW h \in hlStates, NEW l \in StatesOn(path[hlSeg[h]])
               PROVE  ~Before(index[l], CursorOf(h))
    BY DEF CursorBehind
  <2>1. pathCount \in Nat /\ IsFiniteSet(0..pathCount-1)
    <3>1. pathCount \in Nat /\ 0 \in Int /\ pathCount - 1 \in Int
      BY DEF ExecutorInv, TypeOK, TreeTypeOK
    <3> QED  BY <3>1, FS_Interval
  <2>2. P \in SUBSET (0..pathCount-1)  BY DEF ExecutorInv, TypeOK, TreeTypeOK
  <2>3. IsFiniteSet(P)  BY <2>1, <2>2, FS_Subset
  <2>4. pathCount <= 1
    <3> SUFFICES ASSUME ~(pathCount <= 1) PROVE FALSE
      OBVIOUS
    <3>1. 0 \in 0..pathCount-1 /\ 1 \in 0..pathCount-1  BY <2>1
    <3>2. \A p \in 0..pathCount-1 : p \in P  BY DEF TopoInv, SinglePath
    <3>3. 0 \in P /\ 1 \in P  BY <3>1, <3>2
    <3> HIDE DEF P
    <3>4. 0..1 \in SUBSET P
      <4>1. \A x \in 0..1 : x = 0 \/ x = 1  OBVIOUS
      <4> QED  BY <3>3, <4>1
    <3>5. Cardinality(0..1) = 2
      <4>1. 0 \in Int /\ 1 \in Int  OBVIOUS
      <4>2. Cardinality(0..1) = IF 0 > 1 THEN 0 ELSE 1 - 0 + 1  BY Zenon, <4>1, FS_Interval
      <4> QED  BY <4>2
    <3>6. Cardinality(P) \in Nat  BY <2>3, FS_CardinalityType
    <3> QED  BY <2>3, <3>4, <3>5, <3>6, FS_Subset
  <2>5. l \in States /\ Tracked(l)  BY DEF StatesOn, Tracked
  <2>6. target = 1 /\ ~Before(index[l], active) /\ Len(hlSeg) <= 1
    BY <2>4, <2>5 DEF TopoInv, SinglePath
  <2>7. h = 1  BY <2>6 DEF ExecutorInv, TypeOK
  <2> QED  BY <2>6, <2>7 DEF CursorOf
<1> QED  BY <1>1, TopoInvariant, PTL
=============================================================================
