---------------------------- MODULE PTree_proofs ----------------------------
(***************************************************************************)
(* Proofs, for any number of states and any options, that KLEE's process   *)
(* tree mirrors the executor's states and that a random walk in it selects *)
(* one of them.                                                            *)
(***************************************************************************)
EXTENDS PTree, S2EExecutor_proofs, SequenceTheorems, FiniteSetTheorems

Node == Seq({"l", "r"})

\* The prefixes of the nodes of N.
PathsTo(N) == UNION {{Up(n, k) : k \in 0..Len(n)} : n \in N}

\* No node of N is on the way to another.
Separate(N) == \A m, n \in N : m # n => m \notin PathsTo({n})

-----------------------------------------------------------------------------
\* A set of naturals has a least element.
LEMMA LeastNat ==
    ASSUME NEW T, T \subseteq Nat, T # {} PROVE \E m \in T : \A k \in T : m <= k
<1>1. PICK x \in T : \A y \in T : ~(<<y, x>> \in OpToRel(<, Nat))
  BY Zenon, NatLessThanWellFounded, WFMin
<1>2. \A y \in T : ~(y < x)
  BY Zenon, <1>1 DEF OpToRel
<1> QED BY <1>2

\* The node k steps below the root on the way to n.
LEMMA UpProperties ==
    ASSUME NEW n \in Node, NEW k \in 0..Len(n)
    PROVE  /\ Up(n, k) \in Node /\ Len(Up(n, k)) = k
           /\ \A i \in 1..k : Up(n, k)[i] = n[i]
<1>1. Len(n) \in Nat /\ \A i \in 1..k : n[i] \in {"l", "r"}
  BY DEF Node
<1> QED  BY <1>1, SubSeqProperties DEF Up, Node

\* Nodes are equal when they agree at every step.
LEMMA NodeEqual ==
    ASSUME NEW m \in Node, NEW n \in Node, Len(m) = Len(n), \A i \in 1..Len(m) : m[i] = n[i]
    PROVE  m = n
BY SeqEqual DEF Node

\* The way to a node on the way to n is the way to n.
LEMMA UpUp ==
    ASSUME NEW n \in Node, NEW k \in 0..Len(n), NEW j \in 0..k
    PROVE  Up(Up(n, k), j) = Up(n, j)
<1>0. Len(n) \in Nat  BY DEF Node
<1>1. Up(n, k) \in Node /\ Len(Up(n, k)) = k /\ \A i \in 1..k : Up(n, k)[i] = n[i]
  BY UpProperties
<1>2. j \in 0..Len(n)  BY <1>0
<1>3. Up(n, j) \in Node /\ Len(Up(n, j)) = j /\ \A i \in 1..j : Up(n, j)[i] = n[i]
  BY <1>2, UpProperties
<1>4. /\ Up(Up(n, k), j) \in Node /\ Len(Up(Up(n, k), j)) = j
      /\ \A i \in 1..j : Up(Up(n, k), j)[i] = Up(n, k)[i]
  BY <1>1, UpProperties
<1>5. \A i \in 1..j : Up(Up(n, k), j)[i] = Up(n, j)[i]
  BY <1>1, <1>3, <1>4
<1> QED  BY <1>3, <1>4, <1>5, NodeEqual

\* Two ways that agree on k steps lead to the same node after k steps.
LEMMA UpAgree ==
    ASSUME NEW m \in Node, NEW n \in Node, NEW k \in 0..Len(m), k \in 0..Len(n),
           \A i \in 1..k : m[i] = n[i]
    PROVE  Up(m, k) = Up(n, k)
<1>1. Up(m, k) \in Node /\ Len(Up(m, k)) = k /\ \A i \in 1..k : Up(m, k)[i] = m[i]
  BY UpProperties
<1>2. Up(n, k) \in Node /\ Len(Up(n, k)) = k /\ \A i \in 1..k : Up(n, k)[i] = n[i]
  BY UpProperties
<1> QED  BY <1>1, <1>2, NodeEqual

\* The whole way to a node.
LEMMA UpWhole == ASSUME NEW n \in Node PROVE Up(n, Len(n)) = n
BY SubSeqFull DEF Node, Up

\* The children that split() makes.
LEMMA ChildProperties ==
    ASSUME NEW n \in Node, NEW side \in {"l", "r"}
    PROVE  LET c == n \o <<side>>
           IN  /\ c \in Node /\ Len(c) = Len(n) + 1 /\ c[Len(n) + 1] = side
               /\ \A i \in 1..Len(n) : c[i] = n[i]
               /\ \A k \in 0..Len(n) : Up(c, k) = Up(n, k)
<1> DEFINE c == n \o <<side>>
<1>0. Len(n) \in Nat /\ <<side>> \in Node /\ Len(<<side>>) = 1 /\ <<side>>[1] = side
  BY DEF Node
<1>1. /\ c \in Node /\ Len(c) = Len(n) + 1
      /\ \A i \in 1..Len(n) + 1 : c[i] = IF i <= Len(n) THEN n[i] ELSE <<side>>[i - Len(n)]
  BY <1>0, ConcatProperties DEF Node
<1>2. c[Len(n) + 1] = side /\ \A i \in 1..Len(n) : c[i] = n[i]
  BY <1>0, <1>1
<1>3. ASSUME NEW k \in 0..Len(n) PROVE Up(c, k) = Up(n, k)
  <2> HIDE DEF c
  <2>1. k \in 0..Len(c) /\ \A i \in 1..k : c[i] = n[i]
    BY <1>0, <1>1, <1>2
  <2> QED  BY <1>1, <2>1, UpAgree
<1> QED  BY <1>1, <1>2, <1>3

\* The other child of the parent.
LEMMA SiblingProperties ==
    ASSUME NEW n \in Node, Len(n) > 0
    PROVE  /\ Sibling(n) \in Node /\ Len(Sibling(n)) = Len(n)
           /\ Sibling(n)[Len(n)] \in {"l", "r"} \ {n[Len(n)]}
           /\ \A i \in 1..Len(n) - 1 : Sibling(n)[i] = n[i]
<1> DEFINE p == Up(n, Len(n) - 1)
           side == IF n[Len(n)] = "l" THEN "r" ELSE "l"
<1>0. Len(n) \in Nat /\ n[Len(n)] \in {"l", "r"} /\ Len(n) - 1 \in 0..Len(n)
  BY DEF Node
<1>1. p \in Node /\ Len(p) = Len(n) - 1 /\ \A i \in 1..Len(n) - 1 : p[i] = n[i]
  BY <1>0, UpProperties
<1>2. Sibling(n) = p \o <<side>>  BY DEF Sibling
<1>3. side \in {"l", "r"} /\ side # n[Len(n)]  BY <1>0
<1> HIDE DEF p, side
<1> QED  BY <1>0, <1>1, <1>2, <1>3, ChildProperties

\* A way that differs from the one to n in the last step leads to the sibling.
LEMMA SiblingUnique ==
    ASSUME NEW n \in Node, Len(n) > 0, NEW m \in Node, Len(m) = Len(n),
           \A i \in 1..Len(n) - 1 : m[i] = n[i], m[Len(n)] # n[Len(n)]
    PROVE  m = Sibling(n)
<1>0. Len(n) \in Nat /\ n[Len(n)] \in {"l", "r"} /\ m[Len(n)] \in {"l", "r"}
  BY DEF Node
<1>1. /\ Sibling(n) \in Node /\ Len(Sibling(n)) = Len(n)
      /\ Sibling(n)[Len(n)] \in {"l", "r"} \ {n[Len(n)]}
      /\ \A i \in 1..Len(n) - 1 : Sibling(n)[i] = n[i]
  BY SiblingProperties
<1>2. m[Len(n)] = Sibling(n)[Len(n)]  BY <1>0, <1>1
<1>3. \A i \in 1..Len(m) : m[i] = Sibling(n)[i]  BY <1>0, <1>1, <1>2
<1> QED  BY <1>1, <1>3, NodeEqual

-----------------------------------------------------------------------------
\* What is on the way to a node of N.
LEMMA PathsMember ==
    ASSUME NEW N, NEW x
    PROVE  x \in PathsTo(N) <=> \E n \in N : \E k \in 0..Len(n) : x = Up(n, k)
BY DEF PathsTo

\* Two nodes neither of which is on the way to the other part at some step.
LEMMA Parting ==
    ASSUME NEW m \in Node, NEW n \in Node, m \notin PathsTo({n}), n \notin PathsTo({m})
    PROVE  \E i \in 1..Len(m) : /\ i <= Len(n) /\ m[i] # n[i]
                                /\ \A j \in 1..i - 1 : m[j] = n[j]
<1> DEFINE D == {i \in Nat : i \in 1..Len(m) /\ i <= Len(n) /\ m[i] # n[i]}
<1>0. Len(m) \in Nat /\ Len(n) \in Nat  BY DEF Node
<1>1. D # {}
  <2> SUFFICES ASSUME D = {} PROVE FALSE  OBVIOUS
  <2>1. CASE Len(m) <= Len(n)
    <3>1. Up(n, Len(m)) = Up(m, Len(m))
      BY <1>0, <2>1, UpAgree
    <3>2. Len(m) \in 0..Len(n) /\ m = Up(n, Len(m))
      BY <1>0, <2>1, <3>1, UpWhole
    <3> QED  BY <3>2, PathsMember
  <2>2. CASE Len(n) <= Len(m)
    <3>1. Up(m, Len(n)) = Up(n, Len(n))
      BY <1>0, <2>2, UpAgree
    <3>2. Len(n) \in 0..Len(m) /\ n = Up(m, Len(n))
      BY <1>0, <2>2, <3>1, UpWhole
    <3> QED  BY <3>2, PathsMember
  <2> QED  BY <1>0, <2>1, <2>2
<1>2. PICK i \in D : \A k \in D : i <= k
  <2> HIDE DEF D
  <2>1. D \subseteq Nat  BY DEF D
  <2> QED  BY Zenon, <1>1, <2>1, LeastNat
<1> QED  BY <1>0, <1>2

\* The nodes that remove() and deactivate() take away: n and its ancestors, up
\* to the first one with another child in T.
Unshared(T, n) == {Up(n, k) : k \in {j \in 0..Len(n) :
    \A i \in j + 1..Len(n) : Sibling(Up(n, i)) \notin T}}

\* Taking away n and its ancestors up to the first one with another child
\* leaves exactly the ways to the other nodes.
LEMMA RemovePath ==
    ASSUME NEW N \in SUBSET Node, Separate(N), NEW n \in N
    PROVE  PathsTo(N) \ Unshared(PathsTo(N), n) = PathsTo(N \ {n})
<1>0. n \in Node /\ Len(n) \in Nat  BY DEF Node
<1>1. ASSUME NEW m \in N \ {n}, NEW k \in 0..Len(m)
      PROVE  Up(m, k) \in PathsTo(N) \ Unshared(PathsTo(N), n)
  <2>0. m \in Node /\ Len(m) \in Nat  BY DEF Node
  <2>1. Up(m, k) \in PathsTo(N)  BY PathsMember
  <2>2. ASSUME NEW j \in 0..Len(n), Up(m, k) = Up(n, j),
               \A i \in j + 1..Len(n) : Sibling(Up(n, i)) \notin PathsTo(N)
        PROVE  FALSE
    <3>1. j = k /\ \A i \in 1..k : m[i] = n[i]
      <4>1. Len(Up(m, k)) = k /\ \A i \in 1..k : Up(m, k)[i] = m[i]
        BY <2>0, UpProperties
      <4>2. Len(Up(n, j)) = j /\ \A i \in 1..j : Up(n, j)[i] = n[i]
        BY <1>0, UpProperties
      <4> QED  BY <2>2, <4>1, <4>2
    <3>2. PICK i \in 1..Len(m) : /\ i <= Len(n) /\ m[i] # n[i]
                                 /\ \A h \in 1..i - 1 : m[h] = n[h]
      <4>1. m \notin PathsTo({n}) /\ n \notin PathsTo({m})  BY DEF Separate
      <4> QED  BY <1>0, <2>0, <4>1, Parting
    <3>3. i \in j + 1..Len(n) /\ i \in 0..Len(m) /\ i \in 0..Len(n)
      BY <1>0, <2>0, <3>1, <3>2
    <3>4. Up(m, i) \in Node /\ Len(Up(m, i)) = i /\ \A h \in 1..i : Up(m, i)[h] = m[h]
      BY <2>0, <3>3, UpProperties
    <3>5. Up(n, i) \in Node /\ Len(Up(n, i)) = i /\ \A h \in 1..i : Up(n, i)[h] = n[h]
      BY <1>0, <3>3, UpProperties
    <3>6. Up(m, i) = Sibling(Up(n, i))
      <4>1. /\ Len(Up(n, i)) > 0 /\ Len(Up(m, i)) = Len(Up(n, i))
            /\ \A h \in 1..Len(Up(n, i)) - 1 : Up(m, i)[h] = Up(n, i)[h]
            /\ Up(m, i)[Len(Up(n, i))] # Up(n, i)[Len(Up(n, i))]
        BY <3>2, <3>4, <3>5
      <4> QED  BY <3>4, <3>5, <4>1, SiblingUnique
    <3>7. Up(m, i) \in PathsTo(N)  BY <3>3, PathsMember
    <3> QED  BY <2>2, <3>3, <3>6, <3>7
  <2> QED  BY <2>1, <2>2 DEF Unshared
<1>2. ASSUME NEW x \in PathsTo(N), x \notin Unshared(PathsTo(N), n)
      PROVE  x \in PathsTo(N \ {n})
  <2>0. PICK m \in N : \E k \in 0..Len(m) : x = Up(m, k)  BY PathsMember
  <2>1. PICK k \in 0..Len(m) : x = Up(m, k)  BY <2>0
  <2>2. CASE m # n  BY <2>1, <2>2, PathsMember
  <2>3. CASE m = n
    <3>1. PICK i \in k + 1..Len(n) : Sibling(Up(n, i)) \in PathsTo(N)
      BY <1>2, <2>1, <2>3 DEF Unshared
    <3>a. PICK h \in N : \E j \in 0..Len(h) : Sibling(Up(n, i)) = Up(h, j)
      BY <3>1, PathsMember
    <3>2. PICK j \in 0..Len(h) : Sibling(Up(n, i)) = Up(h, j)  BY <3>a
    <3>3. k \in Nat /\ i \in Nat /\ k < i /\ i \in 0..Len(n) /\ k \in 0..Len(n)
      BY <1>0, <2>1, <2>3, <3>1
    <3>4. Up(n, i) \in Node /\ Len(Up(n, i)) = i /\ \A g \in 1..i : Up(n, i)[g] = n[g]
      BY <1>0, <3>3, UpProperties
    <3>5. /\ Len(Sibling(Up(n, i))) = i /\ Sibling(Up(n, i))[i] # n[i]
          /\ \A g \in 1..i - 1 : Sibling(Up(n, i))[g] = n[g]
      <4>1. Len(Up(n, i)) > 0 /\ Len(Up(n, i)) = i  BY <3>3, <3>4
      <4> DEFINE u == Up(n, i)
      <4>2. /\ Len(Sibling(u)) = i /\ Sibling(u)[i] # u[i]
            /\ \A g \in 1..i - 1 : Sibling(u)[g] = u[g]
        <5> HIDE DEF u
        <5>1. u \in Node /\ Len(u) > 0 /\ Len(u) = i  BY <3>4, <4>1 DEF u
        <5> QED  BY Zenon, <5>1, SiblingProperties
      <4> QED  BY <3>3, <3>4, <4>2
    <3>6. h \in Node /\ Len(h) \in Nat  BY DEF Node
    <3>7. Len(Up(h, j)) = j /\ \A g \in 1..j : Up(h, j)[g] = h[g]
      BY <3>6, UpProperties
    <3>8. j = i /\ h[i] # n[i] /\ \A g \in 1..k : h[g] = n[g]
      BY <3>2, <3>3, <3>5, <3>7
    <3>9. Up(h, k) = Up(n, k)
      BY <1>0, <3>3, <3>6, <3>8, UpAgree
    <3> QED  BY <2>1, <2>3, <3>3, <3>6, <3>8, <3>9, PathsMember
  <2> QED  BY <2>2, <2>3
<1>3. ASSUME NEW x \in PathsTo(N \ {n})
      PROVE  x \in PathsTo(N) \ Unshared(PathsTo(N), n)
  <2>1. PICK m \in N \ {n} : \E k \in 0..Len(m) : x = Up(m, k)  BY PathsMember
  <2> QED  BY <1>1, <2>1
<1> QED  BY Zenon, <1>2, <1>3

\* A node of a separate set has no child on the way to another node of it.
LEMMA LeafOf ==
    ASSUME NEW N \in SUBSET Node, Separate(N), NEW n \in N, NEW side \in {"l", "r"}
    PROVE  n \in PathsTo(N) /\ n \o <<side>> \notin PathsTo(N)
<1> DEFINE c == n \o <<side>>
<1>0. n \in Node /\ Len(n) \in Nat  BY DEF Node
<1>1. n \in PathsTo(N)
  <2>1. n = Up(n, Len(n)) /\ Len(n) \in 0..Len(n)  BY <1>0, UpWhole
  <2> QED  BY <2>1, PathsMember
<1>2. c \in Node /\ Len(c) = Len(n) + 1 /\ Up(c, Len(n)) = Up(n, Len(n))
  BY <1>0, ChildProperties
<1> HIDE DEF c
<1>3. ASSUME NEW m \in N, NEW k \in 0..Len(m), c = Up(m, k) PROVE FALSE
  <2>0. m \in Node /\ Len(m) \in Nat  BY DEF Node
  <2>1. Len(Up(m, k)) = k  BY <2>0, UpProperties
  <2>2. k = Len(n) + 1  BY <1>2, <1>3, <2>1
  <2>3. n = Up(m, Len(n)) /\ Len(n) \in 0..Len(m)
    <3>1. Up(Up(m, k), Len(n)) = Up(m, Len(n))  BY <1>0, <2>0, <2>2, UpUp
    <3>2. Up(n, Len(n)) = n  BY <1>0, UpWhole
    <3> QED  BY <1>0, <1>2, <1>3, <2>0, <2>2, <3>1, <3>2
  <2>4. m # n  BY <1>0, <2>2
  <2>5. n \in PathsTo({m})  BY <2>3, PathsMember
  <2> QED  BY <2>4, <2>5 DEF Separate
<1>4. c \notin PathsTo(N)  BY <1>3, PathsMember
<1> QED  BY <1>1, <1>4 DEF c

\* Part of a separate set is separate.
LEMMA SeparateSubset ==
    ASSUME NEW N, Separate(N), NEW M \in SUBSET N PROVE Separate(M)
BY DEF Separate

Split(N, n) == (N \ {n}) \cup {n \o <<"l">>, n \o <<"r">>}

\* What is on the way to a child: the child, and what is on the way to n.
LEMMA ChildPaths ==
    ASSUME NEW n \in Node, NEW side \in {"l", "r"}
    PROVE  PathsTo({n \o <<side>>}) = PathsTo({n}) \cup {n \o <<side>>}
<1> DEFINE c == n \o <<side>>
<1>0. Len(n) \in Nat /\ c \in Node /\ Len(c) = Len(n) + 1 /\ \A k \in 0..Len(n) : Up(c, k) = Up(n, k)
  BY ChildProperties DEF Node
<1>1. c = Up(c, Len(c))  BY Zenon, <1>0, UpWhole
<1> HIDE DEF c
<1>2. ASSUME NEW k \in 0..Len(c) PROVE Up(c, k) \in PathsTo({n}) \cup {c}
  <2>1. CASE k \in 0..Len(n)
    <3>1. Up(n, k) \in PathsTo({n})  BY <2>1, PathsMember
    <3> QED  BY <1>0, <2>1, <3>1
  <2>2. CASE k = Len(c)  BY <1>1, <2>2
  <2> QED  BY <1>0, <2>1, <2>2
<1>3. ASSUME NEW k \in 0..Len(n) PROVE Up(n, k) \in PathsTo({c})
  <2>1. k \in 0..Len(c) /\ Up(n, k) = Up(c, k)  BY <1>0
  <2> QED  BY <2>1, PathsMember
<1>4. c \in PathsTo({c})  BY <1>0, <1>1, PathsMember
<1>5. PathsTo({c}) = PathsTo({n}) \cup {c}
  <2>1. ASSUME NEW x \in PathsTo({c}) PROVE x \in PathsTo({n}) \cup {c}
    <3>1. PICK k \in 0..Len(c) : x = Up(c, k)  BY PathsMember
    <3> QED  BY <1>2, <3>1
  <2>2. ASSUME NEW x \in PathsTo({n}) PROVE x \in PathsTo({c})
    <3>1. PICK k \in 0..Len(n) : x = Up(n, k)  BY PathsMember
    <3> QED  BY <1>3, <3>1
  <2> QED  BY Zenon, <1>4, <2>1, <2>2
<1> QED  BY Zenon, <1>5 DEF c

\* PathsTo is the union over the nodes.
LEMMA PathsUnion ==
    ASSUME NEW N, NEW x
    PROVE  x \in PathsTo(N) <=> \E n \in N : x \in PathsTo({n})
BY DEF PathsTo

\* split() adds the two children and keeps the leaves separate.
LEMMA SplitPaths ==
    ASSUME NEW N \in SUBSET Node, Separate(N), NEW n \in N
    PROVE  /\ PathsTo(Split(N, n)) = PathsTo(N) \cup {n \o <<"l">>, n \o <<"r">>}
           /\ Split(N, n) \subseteq Node /\ Separate(Split(N, n))
<1> DEFINE l == n \o <<"l">>
           r == n \o <<"r">>
<1>0. n \in Node /\ Len(n) \in Nat  BY DEF Node
<1>1. /\ l \in Node /\ Len(l) = Len(n) + 1 /\ l[Len(n) + 1] = "l"
      /\ r \in Node /\ Len(r) = Len(n) + 1 /\ r[Len(n) + 1] = "r"
  BY <1>0, ChildProperties
<1>2. PathsTo({l}) = PathsTo({n}) \cup {l} /\ PathsTo({r}) = PathsTo({n}) \cup {r}
  BY Zenon, <1>0, ChildPaths
<1>3. n \in PathsTo(N) /\ l \notin PathsTo(N) /\ r \notin PathsTo(N)
  BY LeafOf
<1>4. l # r  BY <1>1
<1>5. Split(N, n) = (N \ {n}) \cup {l, r}  BY DEF Split
<1>6. n \in PathsTo({n})
  <2>1. n = Up(n, Len(n)) /\ Len(n) \in 0..Len(n)  BY <1>0, UpWhole
  <2> QED  BY <2>1, PathsMember
<1>7. ASSUME NEW m \in N PROVE l \notin PathsTo({m}) /\ r \notin PathsTo({m})
  BY Zenon, <1>3, PathsUnion
<1>8. l \notin PathsTo({n}) /\ r \notin PathsTo({n})  BY <1>7
<1> HIDE DEF l, r
<1>9. PathsTo(Split(N, n)) = PathsTo(N) \cup {l, r}
  <2>1. ASSUME NEW x \in PathsTo(Split(N, n)) PROVE x \in PathsTo(N) \cup {l, r}
    <3>1. PICK m \in Split(N, n) : x \in PathsTo({m})  BY Zenon, PathsUnion
    <3>2. CASE m \in N  BY Zenon, <3>1, <3>2, PathsUnion
    <3>3. CASE m \in {l, r}
      <4>1. x \in PathsTo({n}) \cup {l, r}  BY Zenon, <1>2, <3>1, <3>3
      <4> QED  BY Zenon, <4>1, PathsUnion
    <3> QED  BY <1>5, <3>2, <3>3
  <2>2. ASSUME NEW x \in PathsTo(N) PROVE x \in PathsTo(Split(N, n))
    <3>1. PICK m \in N : x \in PathsTo({m})  BY Zenon, PathsUnion
    <3>2. CASE m # n  BY Zenon, <1>5, <3>1, <3>2, PathsUnion
    <3>3. CASE m = n
      <4>1. x \in PathsTo({l}) /\ l \in Split(N, n)  BY <1>2, <1>5, <3>1, <3>3
      <4> QED  BY Zenon, <4>1, PathsUnion
    <3> QED  BY <3>2, <3>3
  <2>3. l \in PathsTo(Split(N, n)) /\ r \in PathsTo(Split(N, n))
    <3>1. l \in PathsTo({l}) /\ r \in PathsTo({r})  BY Zenon, <1>2
    <3> QED  BY Zenon, <1>5, <3>1, PathsUnion
  <2> QED  BY Zenon, <2>1, <2>2, <2>3
<1>10. ASSUME NEW m \in N \ {n} PROVE m \notin PathsTo({l}) /\ m \notin PathsTo({r})
  <2>1. m \notin PathsTo({n}) /\ n \notin PathsTo({m})  BY DEF Separate
  <2>2. m # l /\ m # r
    <3>1. m = l => n \in PathsTo({m})  BY <1>2, <1>6
    <3>2. m = r => n \in PathsTo({m})  BY <1>2, <1>6
    <3> QED  BY <2>1, <3>1, <3>2
  <2> QED  BY <1>2, <2>1, <2>2
<1>11. l \notin PathsTo({r}) /\ r \notin PathsTo({l})
  BY Zenon, <1>2, <1>4, <1>8
<1>12. Separate(Split(N, n))
  <2> SUFFICES ASSUME NEW a \in Split(N, n), NEW b \in Split(N, n), a # b
               PROVE  a \notin PathsTo({b})
    BY DEF Separate
  <2>1. CASE a \in N \ {n} /\ b \in N \ {n}  BY <2>1 DEF Separate
  <2>2. CASE a \in N \ {n} /\ b \in {l, r}  BY <1>10, <2>2
  <2>3. CASE a \in {l, r} /\ b \in N \ {n}  BY <1>7, <2>3
  <2>4. CASE a \in {l, r} /\ b \in {l, r}  BY <1>11, <2>4
  <2> QED  BY <1>5, <2>1, <2>2, <2>3, <2>4
<1>13. Split(N, n) \subseteq Node  BY <1>1, <1>5
<1> QED  BY <1>9, <1>12, <1>13 DEF l, r

-----------------------------------------------------------------------------
\* The tree with the leaves of N, those of M active.
TreeAt(N, M) == [nodes |-> PathsTo(N), active |-> PathsTo(M)]

\* deactivate() of the leaf n.
LEMMA DeactivateNode ==
    ASSUME NEW N, NEW M \in SUBSET Node, Separate(M), NEW n \in M
    PROVE  deactivate(TreeAt(N, M), n) = TreeAt(N, M \ {n})
<1>1. PathsTo(M) \ Unshared(PathsTo(M), n) = PathsTo(M \ {n})
  BY RemovePath
<1> DEFINE t == TreeAt(N, M)
<1>2. t.active = PathsTo(M)  BY DEF TreeAt
<1>3. deactivate(t, n) = [t EXCEPT !.active = @ \ Unshared(t.active, n)]
  <2> HIDE DEF t
  <2> QED  BY DEF deactivate, Unshared
<1>4. deactivate(t, n) = [t EXCEPT !.active = PathsTo(M \ {n})]
  <2> HIDE DEF t
  <2> QED  BY <1>1, <1>2, <1>3
<1> QED  BY <1>4 DEF TreeAt

\* remove() of the leaf n, which is active.
LEMMA RemoveNode ==
    ASSUME NEW N \in SUBSET Node, Separate(N), NEW M \in SUBSET N, NEW n \in M
    PROVE  remove(TreeAt(N, M), n) = TreeAt(N \ {n}, M \ {n})
<1>1. deactivate(TreeAt(N, M), n) = TreeAt(N, M \ {n})
  BY SeparateSubset, DeactivateNode
<1>2. PathsTo(N) \ Unshared(PathsTo(N), n) = PathsTo(N \ {n})
  BY RemovePath
<1>3. remove(TreeAt(N, M), n) =
        [TreeAt(N, M \ {n}) EXCEPT !.nodes = @ \ Unshared(PathsTo(N), n)]
  BY Zenon, <1>1 DEF remove, Unshared, TreeAt
<1> QED  BY <1>2, <1>3 DEF TreeAt

-----------------------------------------------------------------------------
NodesOf(S) == {ptreeNode[s] : s \in S}

\* The states of S have nodes of their own, none on the way to another.
Apart(S) ==
    /\ Separate(NodesOf(S))
    /\ \A s, t \in S : ptreeNode[s] = ptreeNode[t] => s = t

\* The tree with the leaves of the states of A, those of B active.
TreeOf(A, B) == TreeAt(NodesOf(A), NodesOf(B))

\* The ways to the states are the ways to their nodes.
LEMMA PathsNodes == ASSUME NEW S PROVE Paths(S) = PathsTo(NodesOf(S))
BY DEF Paths, PathsTo, NodesOf

\* Part of a set of states that are apart is so.
LEMMA ApartSubset == ASSUME NEW A, Apart(A), NEW B \in SUBSET A PROVE Apart(B)
<1>1. NodesOf(B) \subseteq NodesOf(A)  BY DEF NodesOf
<1>2. Separate(NodesOf(B))  BY <1>1, SeparateSubset DEF Apart
<1> QED  BY <1>2 DEF Apart

\* The nodes of states that are apart.
LEMMA NodesOfApart ==
    ASSUME ptreeNode \in [State -> Node], NEW A \in SUBSET State, Apart(A),
           NEW B \in SUBSET A, NEW s \in B
    PROVE  /\ NodesOf(A) \in SUBSET Node /\ Separate(NodesOf(A))
           /\ NodesOf(B) \in SUBSET NodesOf(A) /\ ptreeNode[s] \in NodesOf(B)
           /\ NodesOf(A) \ {ptreeNode[s]} = NodesOf(A \ {s})
           /\ NodesOf(B) \ {ptreeNode[s]} = NodesOf(B \ {s})
BY DEF NodesOf, Apart

\* deactivate() of the leaf of s: s is not searched any more.
LEMMA DeactivateState ==
    ASSUME ptreeNode \in [State -> Node], NEW A \in SUBSET State, Apart(A),
           NEW B \in SUBSET A, NEW s \in B
    PROVE  deactivate(TreeOf(A, B), ptreeNode[s]) = TreeOf(A, B \ {s})
<1>1. Apart(B) /\ B \in SUBSET State  BY ApartSubset
<1>2. /\ NodesOf(B) \in SUBSET Node /\ Separate(NodesOf(B)) /\ ptreeNode[s] \in NodesOf(B)
      /\ NodesOf(B) \ {ptreeNode[s]} = NodesOf(B \ {s})
  BY <1>1 DEF NodesOf, Apart
<1>3. deactivate(TreeAt(NodesOf(A), NodesOf(B)), ptreeNode[s])
        = TreeAt(NodesOf(A), NodesOf(B) \ {ptreeNode[s]})
  BY Zenon, <1>2, DeactivateNode
<1> QED  BY <1>2, <1>3 DEF TreeOf

\* remove() of the leaf of s, which is searched: s is gone.
LEMMA RemoveState ==
    ASSUME ptreeNode \in [State -> Node], NEW A \in SUBSET State, Apart(A),
           NEW B \in SUBSET A, NEW s \in B
    PROVE  remove(TreeOf(A, B), ptreeNode[s]) = TreeOf(A \ {s}, B \ {s})
<1>1. /\ NodesOf(A) \in SUBSET Node /\ Separate(NodesOf(A))
      /\ NodesOf(B) \in SUBSET NodesOf(A) /\ ptreeNode[s] \in NodesOf(B)
      /\ NodesOf(A) \ {ptreeNode[s]} = NodesOf(A \ {s})
      /\ NodesOf(B) \ {ptreeNode[s]} = NodesOf(B \ {s})
  BY Zenon, NodesOfApart
<1>2. remove(TreeAt(NodesOf(A), NodesOf(B)), ptreeNode[s])
        = TreeAt(NodesOf(A) \ {ptreeNode[s]}, NodesOf(B) \ {ptreeNode[s]})
  BY Zenon, <1>1, RemoveNode
<1> QED  BY <1>1, <1>2 DEF TreeOf

\* A non-empty set of subsets of a finite set has a minimal element.
LEMMA MinimalSubset ==
    ASSUME NEW S, IsFiniteSet(S), NEW T, T \subseteq SUBSET S, T # {}
    PROVE  \E m \in T : \A k \in T : k \subseteq m => k = m
<1>1. T \subseteq FiniteSubsetsOf(S)  BY FS_FiniteSubsetsOfFinite
<1>2. IsWellFoundedOn(StrictSubsetOrdering(S), FiniteSubsetsOf(S))
  BY FS_StrictSubsetOrderingWellFounded
<1>3. PICK x \in T : \A y \in T : ~(<<y, x>> \in StrictSubsetOrdering(S))
  BY Zenon, <1>1, <1>2, WFMin
<1> QED  BY Zenon, <1>3 DEF StrictSubsetOrdering

\* deleteState() of every state of R, in any order.
LEMMA RemoveStates ==
    ASSUME ptreeNode \in [State -> Node], NEW A \in SUBSET State, Apart(A),
           NEW B \in SUBSET A, NEW R \in SUBSET B
    PROVE  FoldSet(LAMBDA s, t : remove(t, ptreeNode[s]), TreeOf(A, B), R)
             = TreeOf(A \ R, B \ R)
<1> DEFINE x(S) == CHOOSE s \in S : TRUE
           step(f, S) == IF S = {} THEN TreeOf(A, B)
                         ELSE remove(f[S \ {x(S)}], ptreeNode[x(S)])
           left == [S \in SUBSET R |-> TreeOf(A \ S, B \ S)]
           iter == CHOOSE f : f = [S \in SUBSET R |-> step(f, S)]
<1>1. FoldSet(LAMBDA s, t : remove(t, ptreeNode[s]), TreeOf(A, B), R) = iter[R]
  BY DEF FoldSet, MapThenFoldSet
<1>2. ASSUME NEW S \in SUBSET R, S # {}
      PROVE  /\ x(S) \in S /\ S \ {x(S)} \in SUBSET R
             /\ left[S] = remove(left[S \ {x(S)}], ptreeNode[x(S)])
  <2>1. x(S) \in S /\ S \ {x(S)} \in SUBSET R  BY <1>2
  <2>2. left[S] = TreeOf(A \ S, B \ S)
    OBVIOUS
  <2>3. left[S \ {x(S)}] = TreeOf(A \ (S \ {x(S)}), B \ (S \ {x(S)}))
    BY <2>1
  <2> HIDE DEF x, left
  <2> DEFINE C == A \ (S \ {x(S)})
             D == B \ (S \ {x(S)})
  <2>4. /\ C \in SUBSET State /\ D \in SUBSET C /\ C \in SUBSET A
        /\ x(S) \in D /\ C \ {x(S)} = A \ S /\ D \ {x(S)} = B \ S
    BY <2>1
  <2> HIDE DEF C, D
  <2>5. Apart(C)  BY <2>4, ApartSubset
  <2>6. remove(TreeOf(C, D), ptreeNode[x(S)]) = TreeOf(C \ {x(S)}, D \ {x(S)})
    BY <2>4, <2>5, RemoveState
  <2>7. left[S \ {x(S)}] = TreeOf(C, D)  BY <2>3 DEF C, D
  <2> QED  BY <2>1, <2>2, <2>4, <2>6, <2>7
<1>3. left[{}] = TreeOf(A, B)
  <2>1. A \ {} = A /\ B \ {} = B /\ {} \in SUBSET R  OBVIOUS
  <2> QED  BY <2>1
<1>4. left = [S \in SUBSET R |-> step(left, S)]
  <2>1. ASSUME NEW S \in SUBSET R PROVE left[S] = step(left, S)
    <3> HIDE DEF left, x
    <3>1. CASE S = {}  BY <1>3, <3>1
    <3>2. CASE S # {}  BY <1>2, <3>2
    <3> QED  BY <3>1, <3>2
  <2>2. left = [S \in SUBSET R |-> left[S]]  OBVIOUS
  <2> HIDE DEF left, step
  <2> QED  BY Zenon, <2>1, <2>2
<1>5. iter = [S \in SUBSET R |-> step(iter, S)]
  <2> HIDE DEF left, step
  <2> QED  BY Zenon, <1>4
<1>6. ASSUME NEW S \in SUBSET R
      PROVE  iter[S] = IF S = {} THEN TreeOf(A, B)
                       ELSE remove(iter[S \ {x(S)}], ptreeNode[x(S)])
  <2>1. iter[S] = step(iter, S)
    <3> HIDE DEF step, iter
    <3> QED  BY <1>5
  <2> HIDE DEF iter
  <2> QED  BY <2>1
<1> HIDE DEF iter, x, left
<1>7. \A S \in SUBSET R : iter[S] = left[S]
  <2> DEFINE Bad == {S \in SUBSET R : iter[S] # left[S]}
  <2> SUFFICES ASSUME Bad # {} PROVE FALSE  OBVIOUS
  <2>1. IsFiniteSet(R)  BY Zenon, StateAssumption, FS_Subset
  <2>2. Bad \subseteq SUBSET R  OBVIOUS
  <2>3. PICK S \in Bad : \A U \in Bad : U \subseteq S => U = S
    <3> HIDE DEF Bad
    <3> QED  BY <2>1, <2>2, MinimalSubset
  <2>4. S # {}  BY Zenon, <1>3, <1>6, <2>3
  <2>5. x(S) \in S /\ S \ {x(S)} \in SUBSET R  BY <1>2, <2>3, <2>4
  <2>6. iter[S \ {x(S)}] = left[S \ {x(S)}]  BY <2>3, <2>5
  <2> QED  BY <1>2, <1>6, <2>3, <2>4, <2>6
<1> QED  BY Zenon, <1>1, <1>7 DEF left

-----------------------------------------------------------------------------
Searched == states \cup addedStates
AliveStates == Searched \cup suspended

\* The inductive invariant: the tree is the one of the states that are searched
\* or suspended.
TreeInv ==
    /\ ptreeNode \in [State -> Node]
    /\ Apart(AliveStates)
    /\ nodes = PathsTo(NodesOf(AliveStates))
    /\ activeNodes = PathsTo(NodesOf(Searched))

\* The tree as deactivate() and remove() take it.
LEMMA TreeIs == ASSUME TreeInv PROVE Tree = TreeOf(AliveStates, Searched)
BY DEF TreeInv, Tree, TreeOf, TreeAt

\* The two sides of a fork take the two children of the leaf.
LEMMA BranchNodes ==
    ASSUME ptreeNode \in [State -> Node], NEW s \in State, current \in State, s # current,
           treeBranch(s)
    PROVE  /\ ptreeNode' \in [State -> Node]
           /\ {ptreeNode'[s], ptreeNode'[current]} =
                {ptreeNode[current] \o <<"l">>, ptreeNode[current] \o <<"r">>}
           /\ ptreeNode'[s] # ptreeNode'[current]
           /\ \A t \in State \ {s, current} : ptreeNode'[t] = ptreeNode[t]
<1> DEFINE n == ptreeNode[current]
<1>1. n \in Node /\ Len(n) \in Nat  BY DEF Node
<1>2. PICK side \in {"l", "r"} :
        ptreeNode' = [ptreeNode EXCEPT ![s] = n \o <<side>>, ![current] = Sibling(n \o <<side>>)]
  BY Zenon DEF treeBranch
<1> DEFINE c == n \o <<side>>
<1> HIDE DEF n
<1>3. /\ c \in Node /\ Len(c) = Len(n) + 1 /\ c[Len(c)] = side
      /\ \A i \in 1..Len(n) : c[i] = n[i]
  BY <1>1, ChildProperties
<1> DEFINE other == IF side = "l" THEN "r" ELSE "l"
           d == n \o <<other>>
<1>4. /\ d \in Node /\ Len(d) = Len(n) + 1 /\ d[Len(d)] = other
      /\ \A i \in 1..Len(n) : d[i] = n[i]
  BY <1>1, ChildProperties
<1>5. other # side  OBVIOUS
<1>6. {c, d} = {n \o <<"l">>, n \o <<"r">>}  OBVIOUS
<1>7. ptreeNode' = [ptreeNode EXCEPT ![s] = c, ![current] = Sibling(c)]  BY <1>2
<1> HIDE DEF c, d, other
<1>8. d = Sibling(c)
  <2>1. /\ Len(c) > 0 /\ Len(d) = Len(c) /\ d[Len(c)] # c[Len(c)]
        /\ \A i \in 1..Len(c) - 1 : d[i] = c[i]
    BY <1>1, <1>3, <1>4, <1>5
  <2> QED  BY <1>3, <1>4, <2>1, SiblingUnique
<1>9. c # d  BY <1>3, <1>4, <1>5
<1> QED  BY Zenon, <1>3, <1>4, <1>6, <1>7, <1>8, <1>9 DEF n

\* After a fork the new state has joined those that were apart, and its tree
\* is the split one.
LEMMA BranchApart ==
    ASSUME ptreeNode \in [State -> Node], NEW s \in State, treeBranch(s),
           NEW A \in SUBSET State, Apart(A), current \in A, s \notin A
    PROVE  /\ Apart(A \cup {s})'
           /\ \A B \in SUBSET A : current \in B =>
                NodesOf(B \cup {s})' = Split(NodesOf(B), ptreeNode[current])
<1>1. /\ ptreeNode' \in [State -> Node]
      /\ {ptreeNode'[s], ptreeNode'[current]} =
           {ptreeNode[current] \o <<"l">>, ptreeNode[current] \o <<"r">>}
      /\ ptreeNode'[s] # ptreeNode'[current]
      /\ \A t \in State \ {s, current} : ptreeNode'[t] = ptreeNode[t]
  BY BranchNodes
<1>2. ASSUME NEW B \in SUBSET A, current \in B
      PROVE  {ptreeNode'[t] : t \in B \cup {s}} = Split(NodesOf(B), ptreeNode[current])
  <2>1. {ptreeNode'[t] : t \in B \cup {s}} =
          {ptreeNode'[t] : t \in B \ {current}} \cup {ptreeNode'[s], ptreeNode'[current]}
    BY <1>2
  <2>2. {ptreeNode'[t] : t \in B \ {current}} = {ptreeNode[t] : t \in B \ {current}}
    BY <1>1
  <2>3. {ptreeNode[t] : t \in B \ {current}} = NodesOf(B) \ {ptreeNode[current]}
    BY <1>2 DEF NodesOf, Apart
  <2> QED  BY Zenon, <1>1, <2>1, <2>2, <2>3 DEF Split
<1>3. \A B \in SUBSET A : current \in B =>
        NodesOf(B \cup {s})' = Split(NodesOf(B), ptreeNode[current])
  BY <1>2 DEF NodesOf
<1>4. Separate(Split(NodesOf(A), ptreeNode[current]))
  <2>1. NodesOf(A) \in SUBSET Node /\ Separate(NodesOf(A)) /\ ptreeNode[current] \in NodesOf(A)
    BY DEF NodesOf, Apart
  <2> QED  BY <2>1, SplitPaths
<1>5. ASSUME NEW t \in A \ {current}
      PROVE  ptreeNode[t] \notin {ptreeNode[current] \o <<"l">>, ptreeNode[current] \o <<"r">>}
  <2>1. NodesOf(A) \in SUBSET Node /\ Separate(NodesOf(A)) /\ ptreeNode[current] \in NodesOf(A)
    BY DEF NodesOf, Apart
  <2>2. ptreeNode[t] \in PathsTo(NodesOf(A))
    <3>1. ptreeNode[t] \in NodesOf(A)  BY DEF NodesOf
    <3> QED  BY <2>1, <3>1, LeafOf
  <2>3. /\ ptreeNode[current] \o <<"l">> \notin PathsTo(NodesOf(A))
        /\ ptreeNode[current] \o <<"r">> \notin PathsTo(NodesOf(A))
    BY <2>1, LeafOf
  <2> QED  BY Zenon, <2>2, <2>3
<1>6. \A t, u \in A \cup {s} : ptreeNode'[t] = ptreeNode'[u] => t = u
  <2> SUFFICES ASSUME NEW t \in A \cup {s}, NEW u \in A \cup {s}, ptreeNode'[t] = ptreeNode'[u]
               PROVE  t = u
    OBVIOUS
  <2>1. CASE t \in A \ {current} /\ u \in A \ {current}
    BY <1>1, <2>1 DEF Apart
  <2>2. CASE t \in A \ {current} /\ u \in {s, current}
    <3>1. ptreeNode'[u] \in {ptreeNode[current] \o <<"l">>, ptreeNode[current] \o <<"r">>}
      BY <1>1, <2>2
    <3>2. ptreeNode'[t] = ptreeNode[t]  BY <1>1, <2>2
    <3> QED  BY <1>5, <2>2, <3>1, <3>2
  <2>3. CASE t \in {s, current} /\ u \in A \ {current}
    <3>1. ptreeNode'[t] \in {ptreeNode[current] \o <<"l">>, ptreeNode[current] \o <<"r">>}
      BY <1>1, <2>3
    <3>2. ptreeNode'[u] = ptreeNode[u]  BY <1>1, <2>3
    <3> QED  BY <1>5, <2>3, <3>1, <3>2
  <2>4. CASE t \in {s, current} /\ u \in {s, current}
    BY <1>1, <2>4
  <2> QED  BY <2>1, <2>2, <2>3, <2>4
<1>7. Apart(A \cup {s})'
  <2>1. NodesOf(A \cup {s})' = Split(NodesOf(A), ptreeNode[current])  BY <1>3
  <2> QED  BY <1>4, <1>6, <2>1 DEF Apart
<1> QED  BY <1>3, <1>7

-----------------------------------------------------------------------------
\* A child of an active node that the walk may take is active, too.
LEMMA StepActive ==
    ASSUME TreeInv, AliveStates \subseteq State, NEW n \in Node, n \in nodes,
           NEW k \in 0..Len(n) - 1, Up(n, k) \in activeNodes, Up(n, k + 1) \in Steps(Up(n, k))
    PROVE  Up(n, k + 1) \in activeNodes
<1> DEFINE a == Up(n, k)
           b == Up(n, k + 1)
           l == a \o <<"l">>
           r == a \o <<"r">>
           N == NodesOf(AliveStates)
<1>0. Len(n) \in Nat /\ k \in Nat /\ k \in 0..Len(n) /\ k + 1 \in 0..Len(n)
  BY DEF Node
<1>1. /\ N \in SUBSET Node /\ Separate(N) /\ nodes = PathsTo(N)
      /\ activeNodes = PathsTo(NodesOf(Searched)) /\ NodesOf(Searched) \subseteq N
  BY DEF TreeInv, Apart, NodesOf, AliveStates
<1>2. activeNodes \subseteq nodes  BY <1>1 DEF PathsTo
<1>3. b \in nodes
  <2>1. PICK m \in N : \E j \in 0..Len(m) : n = Up(m, j)  BY <1>1, PathsMember
  <2>2. PICK j \in 0..Len(m) : n = Up(m, j)  BY <2>1
  <2>3. m \in Node /\ Len(m) \in Nat  BY <1>1 DEF Node
  <2>4. Len(n) = j  BY <2>2, <2>3, UpProperties
  <2>5. k + 1 \in 0..j /\ k + 1 \in 0..Len(m)  BY <1>0, <2>3, <2>4
  <2>6. b = Up(m, k + 1)  BY <2>2, <2>3, <2>5, UpUp
  <2> QED  BY <1>1, <2>5, <2>6, PathsMember
<1>4. a \in Node /\ Len(a) = k  BY <1>0, UpProperties
<1>5. b \in {l, r}
  <2> HIDE DEF a, b
  <2> QED  BY DEF Steps, a, b
<1>6. PICK m \in NodesOf(Searched) : \E j \in 0..Len(m) : a = Up(m, j)
  BY <1>1, PathsMember
<1>7. PICK j \in 0..Len(m) : a = Up(m, j)  BY <1>6
<1>8. m \in Node /\ m \in N /\ Len(m) \in Nat  BY <1>1 DEF Node
<1>9. j = k  BY <1>4, <1>7, <1>8, UpProperties
<1>10. k < Len(m)
  <2> SUFFICES ASSUME k = Len(m) PROVE FALSE  BY <1>0, <1>7, <1>8, <1>9
  <2>1. a = m  BY <1>7, <1>8, <1>9, UpWhole
  <2>2. l \notin nodes /\ r \notin nodes  BY <1>1, <1>8, <2>1, LeafOf
  <2> QED  BY Zenon, <1>3, <1>5, <2>2
<1>11. k + 1 \in 0..Len(m) /\ Up(m, k + 1) \in activeNodes
  <2>1. k + 1 \in 0..Len(m)  BY <1>0, <1>8, <1>10
  <2> QED  BY <1>1, <2>1, PathsMember
<1>12. Up(m, k + 1) \in {l, r}
  <2> DEFINE u == Up(m, k + 1)
  <2>1. u \in Node /\ Len(u) = k + 1 /\ \A i \in 1..k + 1 : u[i] = m[i]
    BY <1>8, <1>11, UpProperties
  <2>2. \A i \in 1..k : a[i] = m[i]
    BY <1>7, <1>8, <1>9, UpProperties
  <2>3. u[k + 1] \in {"l", "r"}  BY <1>0, <2>1 DEF Node
  <2>4. ASSUME NEW side \in {"l", "r"}, u[k + 1] = side PROVE u = a \o <<side>>
    <3> DEFINE c == a \o <<side>>
    <3>1. c \in Node /\ Len(c) = k + 1 /\ c[k + 1] = side /\ \A i \in 1..k : c[i] = a[i]
      BY <1>4, ChildProperties
    <3> HIDE DEF c, u, a
    <3>2. \A i \in 1..Len(u) : u[i] = c[i]
      BY <1>0, <2>1, <2>2, <2>4, <3>1
    <3>3. u = c  BY <2>1, <3>1, <3>2, NodeEqual
    <3> QED  BY <3>3 DEF c
  <2> QED  BY <2>3, <2>4
<1>13. l \in activeNodes \/ r \in activeNodes  BY Zenon, <1>11, <1>12
<1> HIDE DEF l, r, a, b
<1>14. b \in IF l \notin nodes \/ (r \in nodes /\ l \notin activeNodes) THEN {r}
             ELSE IF r \notin nodes \/ r \notin activeNodes THEN {l} ELSE {l, r}
  BY DEF Steps, a, b, l, r
<1>15. b \in activeNodes  BY <1>2, <1>13, <1>14
<1> QED  BY <1>15 DEF b

\* The random walk ends at the leaf of a state that is searched.
LEMMA WalkSelects ==
    ASSUME IInv, TreeInv, pc = "select", UpToDate, states # {}, NEW s \in State, selectState(s)
    PROVE  s \in states
<1> DEFINE n == ptreeNode[s]
<1>1. AliveStates \subseteq State  BY DEF IInv, TypeOK, AliveStates, Searched
<1>2. s \in AliveStates
  BY DEF IInv, Places, selectState, AliveStates, Searched
<1>3. n \in Node /\ Len(n) \in Nat  BY DEF TreeInv, Node
<1>4. n \in nodes /\ \A k \in 1..Len(n) : Up(n, k) \in Steps(Up(n, k - 1))
  BY DEF selectState, WalkEnds, Leaf, Tree
<1> HIDE DEF n
<1>5. Up(n, 0) \in activeNodes
  <2>1. PICK t \in Searched : TRUE  BY DEF Searched
  <2>2. ptreeNode[t] \in Node /\ ptreeNode[t] \in NodesOf(Searched)
    BY <1>1 DEF TreeInv, AliveStates, NodesOf
  <2>3. Len(ptreeNode[t]) \in Nat  BY <2>2 DEF Node
  <2>4. Up(n, 0) = Up(ptreeNode[t], 0)
    <3>1. 0 \in 0..Len(n) /\ 0 \in 0..Len(ptreeNode[t])
          /\ \A i \in 1..0 : n[i] = ptreeNode[t][i]
      BY <1>3, <2>3
    <3> QED  BY <1>3, <2>2, <3>1, UpAgree
  <2>5. 0 \in 0..Len(ptreeNode[t])  BY <2>3
  <2> QED  BY <2>2, <2>4, <2>5, PathsMember DEF TreeInv
<1>6. \A k \in 0..Len(n) : Up(n, k) \in activeNodes
  <2> DEFINE Bad == {k \in Nat : k <= Len(n) /\ Up(n, k) \notin activeNodes}
  <2> SUFFICES ASSUME Bad # {} PROVE FALSE  BY <1>3
  <2>1. PICK k \in Bad : \A j \in Bad : k <= j
    <3>1. Bad \subseteq Nat  OBVIOUS
    <3> HIDE DEF Bad
    <3> QED  BY Zenon, <3>1, LeastNat
  <2>2. k # 0  BY <1>5, <2>1
  <2>3. k - 1 \in 0..Len(n) - 1 /\ k \in 1..Len(n) /\ (k - 1) + 1 = k
    BY <1>3, <2>1, <2>2
  <2>4. Up(n, k - 1) \in activeNodes  BY <1>3, <2>1, <2>3
  <2>5. Up(n, (k - 1) + 1) \in activeNodes
    <3>1. Up(n, (k - 1) + 1) \in Steps(Up(n, k - 1))  BY <1>4, <2>3
    <3> QED  BY <1>1, <1>3, <1>4, <2>3, <2>4, <3>1, StepActive
  <2> QED  BY <2>1, <2>3, <2>5
<1>7. n \in PathsTo(NodesOf(Searched))
  <2>1. Len(n) \in 0..Len(n) /\ Up(n, Len(n)) = n  BY <1>3, UpWhole
  <2> QED  BY <1>6, <2>1 DEF TreeInv
<1>8. PICK m \in NodesOf(Searched) : n \in PathsTo({m})
  BY Zenon, <1>7, PathsUnion
<1>9. PICK t \in Searched : m = ptreeNode[t]  BY DEF NodesOf
<1>10. n \in NodesOf(AliveStates) /\ m \in NodesOf(AliveStates)
  BY <1>2, <1>9 DEF NodesOf, AliveStates, n
<1>11. n = m  BY <1>8, <1>10 DEF TreeInv, Apart, Separate
<1>12. s = t  BY <1>2, <1>9, <1>11 DEF TreeInv, Apart, AliveStates, n
<1> QED  BY <1>12 DEF Searched, UpToDate

-----------------------------------------------------------------------------
\* One state, one node.
LEMMA InitTree == ASSUME TreeInit PROVE TreeInv
<1>1. <<>> \in Node /\ Len(<<>>) = 0  BY DEF Node
<1>2. ptreeNode \in [State -> Node] /\ \A s \in State : ptreeNode[s] = <<>>
  BY <1>1 DEF TreeInit
<1>3. AliveStates = {InitialState} /\ Searched = {InitialState} /\ InitialState \in State
  BY StateAssumption DEF TreeInit, Init, AliveStates, Searched
<1>4. NodesOf(AliveStates) = {<<>>} /\ NodesOf(Searched) = {<<>>}
  BY <1>2, <1>3 DEF NodesOf
<1>5. PathsTo({<<>>}) = {<<>>}
  <2>1. Up(<<>>, 0) = <<>>  BY <1>1, UpWhole
  <2>2. 0..Len(<<>>) = {0}  BY <1>1
  <2> QED  BY <2>1, <2>2 DEF PathsTo
<1>6. Apart(AliveStates)  BY Zenon, <1>3, <1>4 DEF Apart, Separate
<1> QED  BY <1>2, <1>4, <1>5, <1>6 DEF TreeInv, TreeInit

\* In the CPU loop a state that executes is searched.
LEMMA ExecutingSearched == ASSUME QuietSuccess, IInv, Executing PROVE current \in states
BY DEF QuietSuccess, IInv, Flags, Loop, Executing, Runnable

\* PTree::split() of the running state's leaf: both sides are in the tree.
LEMMA SplitTree ==
    ASSUME ptreeNode \in [State -> Node], NEW s \in State, treeBranch(s),
           NEW A \in SUBSET State, Apart(A), s \notin A, NEW B \in SUBSET A, current \in B
    PROVE  /\ ptreeNode' \in [State -> Node] /\ Apart(A \cup {s})'
           /\ PathsTo(NodesOf(B \cup {s})') = PathsTo(NodesOf(B)) \cup
                {ptreeNode[current] \o <<"l">>, ptreeNode[current] \o <<"r">>}
<1>1. ptreeNode' \in [State -> Node]  BY BranchNodes
<1>2. Apart(A \cup {s})' /\ NodesOf(B \cup {s})' = Split(NodesOf(B), ptreeNode[current])
  BY BranchApart
<1>3. NodesOf(B) \in SUBSET Node /\ Separate(NodesOf(B)) /\ ptreeNode[current] \in NodesOf(B)
  <2>1. Apart(B)  BY ApartSubset
  <2> QED  BY <2>1 DEF NodesOf, Apart
<1>4. PathsTo(Split(NodesOf(B), ptreeNode[current])) = PathsTo(NodesOf(B)) \cup
        {ptreeNode[current] \o <<"l">>, ptreeNode[current] \o <<"r">>}
  BY <1>3, SplitPaths
<1> QED  BY <1>1, <1>2, <1>4

\* The invariant only depends on the sets of states and the tree.
LEMMA SameTree ==
    ASSUME TreeInv, UNCHANGED treeVars, UNCHANGED <<states, addedStates, suspended>>
    PROVE  TreeInv'
BY DEF TreeInv, treeVars, AliveStates, Searched, NodesOf, Apart

\* The invariant of the next state, from the sets of states it has.
LEMMA NextTree ==
    ASSUME NEW A, NEW B, AliveStates' = A, Searched' = B, ptreeNode' \in [State -> Node],
           Apart(A)', nodes' = PathsTo(NodesOf(A)'), activeNodes' = PathsTo(NodesOf(B)')
    PROVE  TreeInv'
BY DEF TreeInv, NodesOf, Apart

\* Forks, terminations, suspensions and updates keep the tree that of the
\* states.
LEMMA NextTreeInv ==
    ASSUME QuietSuccess, IInv, TreeInv, [PathNext]_pathVars PROVE TreeInv'
<1>t. /\ states \subseteq State /\ addedStates \subseteq State /\ suspended \subseteq State
      /\ current \in State
  BY DEF IInv, TypeOK
<1> DEFINE l == ptreeNode[current] \o <<"l">>
           r == ptreeNode[current] \o <<"r">>
<1>c. PICK A, B : A = AliveStates /\ B = Searched  OBVIOUS
<1>a. /\ A \in SUBSET State /\ B \in SUBSET A /\ Apart(A) /\ ptreeNode \in [State -> Node]
      /\ nodes = PathsTo(NodesOf(A)) /\ activeNodes = PathsTo(NodesOf(B))
      /\ Tree = TreeOf(A, B)
  BY <1>t, <1>c, TreeIs DEF TreeInv, AliveStates, Searched
<1>b. A \subseteq created /\ B = states \cup addedStates /\ A = B \cup suspended
  BY <1>c DEF IInv, Places, AliveStates, Searched
<1>s. ASSUME NEW s \in State, Executing, branch(s), treeBranch(s)
      PROVE  /\ current \in B /\ s \notin A /\ s # current
             /\ ptreeNode' \in [State -> Node] /\ Apart(A \cup {s})'
             /\ split(Tree, ptreeNode[current]) = TreeAt(NodesOf(A \cup {s})', NodesOf(B \cup {s})')
  <2>1. current \in B  BY <1>s, <1>b, ExecutingSearched
  <2>2. s \notin created  BY <1>s DEF branch
  <2>3. s \notin A /\ s # current  BY <1>a, <1>b, <2>1, <2>2
  <2>4. /\ ptreeNode' \in [State -> Node] /\ Apart(A \cup {s})'
        /\ PathsTo(NodesOf(B \cup {s})') = PathsTo(NodesOf(B)) \cup {l, r}
    BY Zenon, <1>s, <1>a, <2>1, <2>3, SplitTree
  <2>5. PathsTo(NodesOf(A \cup {s})') = PathsTo(NodesOf(A)) \cup {l, r}
    <3>1. A \in SUBSET A /\ current \in A  BY <1>a, <2>1
    <3> QED  BY Zenon, <1>s, <1>a, <2>3, <3>1, SplitTree
  <2>6. split(Tree, ptreeNode[current]) = TreeAt(NodesOf(A \cup {s})', NodesOf(B \cup {s})')
    BY Zenon, <1>a, <2>4, <2>5 DEF split, Tree, TreeAt
  <2> QED  BY <2>1, <2>3, <2>4, <2>6
<1>1. ASSUME NEW s \in State, treeFork(s) PROVE TreeInv'
  <2>1. Executing /\ branch(s) /\ treeBranch(s)  BY <1>1 DEF treeFork, fork
  <2>2. AliveStates' = A \cup {s} /\ Searched' = B \cup {s}
    BY <1>1, <1>b DEF treeFork, fork, AliveStates, Searched
  <2>3. /\ nodes' = PathsTo(NodesOf(A \cup {s})')
        /\ activeNodes' = PathsTo(NodesOf(B \cup {s})')
    <3>1. split(Tree, ptreeNode[current]) = TreeAt(NodesOf(A \cup {s})', NodesOf(B \cup {s})')
      BY <1>s, <2>1
    <3>2. SetTree(split(Tree, ptreeNode[current]))  BY <1>1 DEF treeFork
    <3> QED  BY <3>1, <3>2 DEF SetTree, TreeAt
  <2> QED  BY <1>s, <2>1, <2>2, <2>3, NextTree
<1>2. ASSUME NEW s \in State, treeForkTooDeep(s) PROVE TreeInv'
  <2>1. Executing /\ branch(s) /\ treeBranch(s)  BY <1>2 DEF treeForkTooDeep, forkTooDeep
  <2>2. /\ current \in B /\ s \notin A /\ s # current
        /\ ptreeNode' \in [State -> Node] /\ Apart(A \cup {s})'
        /\ split(Tree, ptreeNode[current]) = TreeAt(NodesOf(A \cup {s})', NodesOf(B \cup {s})')
    BY <1>s, <2>1
  <2> DEFINE t == split(Tree, ptreeNode[current])
  <2>3. SetTree(IF s \in deletedStates' THEN remove(t, ptreeNode'[s]) ELSE t)
    BY <1>2 DEF treeForkTooDeep
  <2>4. s \notin deletedStates
    BY <2>1 DEF branch, IInv, Places
  <2>5. CASE addedStates' = addedStates \cup {s} /\ UNCHANGED deletedStates
    <3>1. AliveStates' = A \cup {s} /\ Searched' = B \cup {s}
      BY <1>2, <1>b, <2>5 DEF treeForkTooDeep, forkTooDeep, AliveStates, Searched
    <3>2. /\ nodes' = PathsTo(NodesOf(A \cup {s})')
          /\ activeNodes' = PathsTo(NodesOf(B \cup {s})')
      <4>1. s \notin deletedStates'  BY <2>4, <2>5
      <4>2. (IF s \in deletedStates' THEN remove(t, ptreeNode'[s]) ELSE t) = t  BY <4>1
      <4>3. SetTree(split(Tree, ptreeNode[current]))  BY Zenon, <2>3, <4>2
      <4> QED  BY <2>2, <4>3 DEF SetTree, TreeAt
    <3> QED  BY <2>2, <3>1, <3>2, NextTree
  <2>6. CASE UNCHANGED addedStates /\ deletedStates' = deletedStates \cup {s}
    <3>1. AliveStates' = A /\ Searched' = B
      BY Zenon, <1>2, <1>b, <2>6 DEF treeForkTooDeep, forkTooDeep, AliveStates, Searched
    <3> DEFINE N == NodesOf(A \cup {s})'
               M == NodesOf(B \cup {s})'
    <3>2. N \in SUBSET Node /\ Separate(N) /\ M \in SUBSET N /\ ptreeNode'[s] \in M
      BY <1>a, <2>2 DEF NodesOf, Apart
    <3>3. N \ {ptreeNode'[s]} = NodesOf(A)' /\ M \ {ptreeNode'[s]} = NodesOf(B)'
      BY <1>a, <2>2 DEF NodesOf, Apart
    <3>4. Apart(A)'
      <4>1. Separate(NodesOf(A)')  BY <3>2, <3>3, SeparateSubset
      <4> QED  BY <2>2, <4>1 DEF Apart
    <3> HIDE DEF N, M
    <3>5. remove(TreeAt(N, M), ptreeNode'[s]) = TreeAt(N \ {ptreeNode'[s]}, M \ {ptreeNode'[s]})
      BY <3>2, RemoveNode
    <3>6. t = TreeAt(N, M)  BY <2>2 DEF N, M
    <3>7. SetTree(TreeAt(NodesOf(A)', NodesOf(B)'))
      <4> HIDE DEF t
      <4>1. SetTree(remove(t, ptreeNode'[s]))  BY <2>3, <2>6
      <4> QED  BY <3>3, <3>5, <3>6, <4>1
    <3>8. nodes' = PathsTo(NodesOf(A)') /\ activeNodes' = PathsTo(NodesOf(B)')
      BY <3>7 DEF SetTree, TreeAt
    <3> QED  BY Zenon, <2>2, <3>1, <3>4, <3>8, NextTree
  <2> QED  BY <1>2, <2>5, <2>6 DEF treeForkTooDeep, forkTooDeep
<1>3. ASSUME treeSucceed PROVE TreeInv'
  <2>1. current \in states /\ addedStates = {} /\ current \in B
    BY <1>3, <1>b DEF treeSucceed, succeedState
  <2>2. AliveStates' = A /\ Searched' = B \ {current}
    BY <1>3, <1>b, <2>1 DEF treeSucceed, succeedState, AliveStates, Searched
  <2>3. deactivate(Tree, ptreeNode[current]) = TreeOf(A, B \ {current})
    BY <1>a, <2>1, DeactivateState
  <2>4. UNCHANGED ptreeNode  BY <1>3 DEF treeSucceed
  <2>5. /\ nodes' = PathsTo(NodesOf(A)') /\ activeNodes' = PathsTo(NodesOf(B \ {current}))
    BY <1>3, <2>3, <2>4 DEF treeSucceed, SetTree, TreeOf, TreeAt, NodesOf
  <2> QED  BY <1>a, <2>2, <2>4, <2>5 DEF TreeInv, NodesOf, Apart
<1>4. ASSUME treeUpdate PROVE TreeInv'
  <2> DEFINE R == removedStates
  <2>1. R \in SUBSET B /\ suspended \cap R = {}
    BY <1>b DEF IInv, Flags, Places
  <2>2. AliveStates' = A \ R /\ Searched' = B \ R
    BY Zenon, <1>4, <1>b, <2>1 DEF treeUpdate, updateStates, AliveStates, Searched
  <2>3. FoldSet(LAMBDA s, t : remove(t, ptreeNode[s]), Tree, removedStates) = TreeOf(A \ R, B \ R)
    BY Zenon, <1>a, <2>1, RemoveStates
  <2>4. UNCHANGED ptreeNode  BY Zenon, <1>4 DEF treeUpdate
  <2>5. SetTree(TreeOf(A \ R, B \ R))  BY Zenon, <1>4, <2>3 DEF treeUpdate
  <2>6. nodes' = PathsTo(NodesOf(A \ R)) /\ activeNodes' = PathsTo(NodesOf(B \ R))
    BY <2>5 DEF SetTree, TreeOf, TreeAt
  <2>7. Apart(A \ R)  BY <1>a, ApartSubset
  <2> QED  BY <1>a, <2>2, <2>4, <2>6, <2>7 DEF TreeInv, NodesOf, Apart
<1>5. CASE (terminateState \/ yieldState \/ stateSwitchTimerCallback) /\ UNCHANGED treeVars
  BY <1>5, SameTree DEF terminateState, yieldState, stateSwitchTimerCallback
<1>6. ASSUME NEW s \in State, selectNextState(s) \/ terminateSpeculative(s), UNCHANGED treeVars
      PROVE  TreeInv'
  BY <1>6, SameTree DEF selectNextState, terminateSpeculative
<1>7. CASE allTerminated /\ UNCHANGED treeVars
  BY <1>7, SameTree DEF allTerminated
<1>8. CASE UNCHANGED vars /\ UNCHANGED treeVars
  BY <1>8, SameTree DEF vars
<1> QED
  BY Zenon, <1>1, <1>2, <1>3, <1>4, <1>5, <1>6, <1>7, <1>8 DEF PathNext, pathVars, stopped

-----------------------------------------------------------------------------
\* A step with the tree is a step of the executor: the walk selects one of its
\* states.
LEMMA PathStep ==
    ASSUME IInv, TreeInv, [PathNext]_pathVars PROVE [Next]_vars
<1>1. ASSUME NEW s \in State, treeFork(s) \/ treeForkTooDeep(s) PROVE Next
  BY <1>1 DEF treeFork, treeForkTooDeep, Next, Execute
<1>2. CASE terminateState \/ yieldState \/ stateSwitchTimerCallback
  BY <1>2 DEF Next, Execute
<1>3. CASE treeSucceed \/ treeUpdate
  BY Zenon, <1>3 DEF treeSucceed, treeUpdate, Next, Execute
<1>4. ASSUME pc = "select", UpToDate, states # {}, NEW s \in State, selectState(s),
             selectNextState(s) \/ terminateSpeculative(s)
      PROVE  Next
  <2>1. s \in states  BY <1>4, WalkSelects
  <2> QED  BY <1>4, <2>1 DEF Next
<1>5. CASE states = {} /\ allTerminated
  BY <1>5 DEF Next
<1>6. CASE UNCHANGED vars
  BY <1>6
<1> QED
  BY Zenon, <1>1, <1>2, <1>3, <1>4, <1>5, <1>6 DEF PathNext, pathVars, stopped

\* In every run with the random path searcher both invariants hold throughout.
THEOREM TreeInvariant == ASSUME QuietSuccess PROVE PathSpec => [](IInv /\ TreeInv)
<1>1. TreeInit => IInv /\ TreeInv
  BY InitInv, InitTree DEF TreeInit
<1>2. IInv /\ TreeInv /\ [PathNext]_pathVars => (IInv /\ TreeInv)'
  BY PathStep, NextInv, NextTreeInv
<1> QED  BY <1>1, <1>2, PTL DEF PathSpec

\* RandomPathSearcher is a way of choosing among the executor's states: with
\* it, S2E's main loop does nothing that it does not do with some searcher.
THEOREM WalkImplementsExecutor == ASSUME QuietSuccess PROVE PathSpec => PathImplementsExecutor
<1>1. TreeInit => Init  BY DEF TreeInit
<1>2. IInv /\ TreeInv /\ [PathNext]_pathVars => [Next]_vars  BY PathStep
<1> QED  BY <1>1, <1>2, TreeInvariant, PTL DEF PathSpec, Spec, PathImplementsExecutor

\* After any sequence of split(), deactivate() and remove() the leaves are the
\* nodes of the states that are searched or suspended, one each.
THEOREM LeavesAreStatesAlways == ASSUME QuietSuccess PROVE PathSpec => []LeavesAreStates
<1>1. ASSUME IInv, TreeInv PROVE LeavesAreStates
  <2> DEFINE N == NodesOf(AliveStates)
  <2>1. AliveStates = states \cup addedStates \cup suspended /\ AliveStates \subseteq State
    BY <1>1 DEF AliveStates, Searched, IInv, TypeOK
  <2>2. /\ N \in SUBSET Node /\ Separate(N) /\ nodes = PathsTo(N)
        /\ NodesOf(Searched) \subseteq N /\ activeNodes = PathsTo(NodesOf(Searched))
    BY <1>1, <2>1 DEF TreeInv, Apart, NodesOf, AliveStates
  <2>3. nodes = Paths(AliveStates)  BY <2>2, PathsNodes
  <2>4. PTreeTypeOK
    <3>1. ASSUME NEW x \in nodes PROVE x \in Node
      <4>1. PICK n \in N : \E k \in 0..Len(n) : x = Up(n, k)  BY <2>2, PathsMember
      <4> QED  BY <2>2, <4>1, UpProperties
    <3>2. activeNodes \subseteq nodes  BY <2>2 DEF PathsTo
    <3> QED  BY <1>1, <3>1, <3>2 DEF PTreeTypeOK, TreeInv, Node
  <2>5. ASSUME NEW s \in AliveStates PROVE Leaf(Tree, ptreeNode[s])
    <3>1. ptreeNode[s] \in N  BY DEF NodesOf
    <3>2. /\ ptreeNode[s] \in nodes /\ ptreeNode[s] \o <<"l">> \notin nodes
          /\ ptreeNode[s] \o <<"r">> \notin nodes
      BY <2>2, <3>1, LeafOf
    <3> QED  BY <3>2 DEF Leaf, Tree
  <2>6. \A s, t \in AliveStates : s # t => ptreeNode[t] # ptreeNode[s]
    BY <1>1 DEF TreeInv, Apart
  <2> QED  BY <2>1, <2>3, <2>4, <2>5, <2>6 DEF LeavesAreStates
<1> QED  BY <1>1, TreeInvariant, PTL

\* A node is active exactly when a searched state is below it: the assertions
\* of split() and of the random walk hold.
THEOREM ActiveIffSearchedAlways == ASSUME QuietSuccess PROVE PathSpec => []ActiveIffSearched
<1>1. ASSUME TreeInv PROVE ActiveIffSearched
  BY <1>1, PathsNodes DEF TreeInv, ActiveIffSearched, Searched
<1> QED  BY <1>1, TreeInvariant, PTL
=============================================================================
