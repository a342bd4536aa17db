---------------------- MODULE InterpreterTracer_proofs ----------------------
(***************************************************************************)
(* Proofs, for any number of states and stacks of any depth, that the call *)
(* stacks tile the thread's stack and that the high-level stacks follow    *)
(* the activations of the interpreter loop.                                *)
(***************************************************************************)
EXTENDS InterpreterTracer, SequenceTheorems, FiniteSetTheorems, TLAPS

CallFrames == [id : Nat, function : {"none"} \cup Functions, top : Int, bottom : Int]
HighLevelFrames == [id : Nat, ptr : Addresses \cup {0}]

\* A call stack: the root frame is outermost, and every other frame continues
\* its caller's and is younger than all below it.
Tiled(stack, next) ==
    /\ stack[1].top = StackTop + 1
    /\ \A i \in 1..Len(stack) :
         /\ stack[i].bottom < stack[i].top
         /\ stack[i].id \in 1..next-1
         /\ stack[i].function # "none" =>
              /\ i > 1 /\ stack[i].top = stack[i-1].bottom
              /\ \A j \in 1..i-1 : stack[j].id < stack[i].id

\* The call stacks are those of the live states.
CallInv ==
    /\ status \in [States -> {"unborn", "alive", "dead"}]
    /\ running \in States
    /\ frames \in [States -> Seq(CallFrames)]
    /\ nextId \in [States -> 2..MaxId+1]
    /\ \A l \in Alive : frames[l] # <<>> /\ Tiled(frames[l], nextId[l])
    /\ \A l \in States \ Alive : frames[l] = <<>>

\* The first HL frame of the LL frame id is at p.
FirstAt(high, id, p) == high[p].id = id /\ \A m \in 1..p-1 : high[m].id # id

\* The HL stack has frames of all activations of the loop, and those of an
\* inner one come after the first of an outer one.
Follows(high, stack) ==
    /\ \A i \in Activations(stack) : \E p \in 1..Len(high) : FirstAt(high, stack[i].id, p)
    /\ \A i, j \in Activations(stack) : \A p, q \in 1..Len(high) :
         i < j /\ FirstAt(high, stack[i].id, p) /\ FirstAt(high, stack[j].id, q) => p < q

\* The inductive invariant of the HL stacks.  The loop is detected before the
\* first fork.
HighInv ==
    /\ hl \in [States -> Seq(HighLevelFrames)]
    /\ params \in {"none", "loop"} /\ connected \in BOOLEAN
    /\ \A l \in States \ Alive : hl[l] = <<>>
    /\ \A l \in Alive : \A i \in 1..Len(hl[l]) : hl[l][i].id \in 1..nextId[l]-1
    /\ params = "none" => ~connected /\ Alive \subseteq {running} /\ hl = [l \in States |-> <<>>]
    /\ params = "loop" => \A l \in Alive : Follows(hl[l], frames[l])
    /\ running \in Alive /\ connected => Top(frames[running]).function = params

-----------------------------------------------------------------------------
\* A set of naturals has a least element.
LEMMA LeastNat ==
    ASSUME NEW T, T \subseteq Nat, T # {} PROVE \E m \in T : \A k \in T : m <= k
<1>1. PICK x \in T : \A y \in T : ~(<<y, x>> \in OpToRel(<, Nat))
  BY Zenon, NatLessThanWellFounded, WFMin
<1>2. \A y \in T : ~(y < x)
  BY Zenon, <1>1 DEF OpToRel
<1> QED BY <1>2

\* The loop of updateFrame() stops: the stack pointer is inside the root frame.
LEMMA UnwoundExists ==
    ASSUME NEW stack \in Seq(CallFrames), stack # <<>>, stack[1].top = StackTop + 1,
           NEW sp \in Int, sp <= StackTop
    PROVE  /\ unwound(stack, sp) \in 1..Len(stack)
           /\ sp < stack[unwound(stack, sp)].top
<1> DEFINE T == {k \in 0..Len(stack)-1 : sp < stack[Len(stack) - k].top}
<1>1. Len(stack) \in Nat /\ Len(stack) >= 1
  OBVIOUS
<1>2. Len(stack) - 1 \in T
  <2>1. Len(stack) - (Len(stack) - 1) = 1 /\ Len(stack) - 1 \in 0..Len(stack)-1  BY <1>1
  <2>2. sp < stack[1].top  BY StackTopAssumption
  <2>3. sp < stack[Len(stack) - (Len(stack) - 1)].top  BY <2>1, <2>2
  <2> QED  BY Zenon, <2>1, <2>3
<1>3. T \subseteq Nat /\ T # {}
  <2>1. 0..Len(stack)-1 \subseteq Nat  BY <1>1
  <2> QED  BY Zenon, <1>2, <2>1
<1> HIDE DEF T
<1>4. PICK k \in T : \A j \in T : k <= j
  BY Zenon, <1>3, LeastNat
<1> DEFINE n == Len(stack) - k
<1>5. n \in 1..Len(stack) /\ sp < stack[n].top
  BY <1>1, <1>4 DEF T
<1>6. \A m \in n+1..Len(stack) : sp >= stack[m].top
  <2> TAKE m \in n+1..Len(stack)
  <2>1. k \in 0..Len(stack)-1  BY <1>4 DEF T
  <2>2. /\ m \in 1..Len(stack) /\ Len(stack) - m < k /\ Len(stack) - (Len(stack) - m) = m
        /\ Len(stack) - m \in 0..Len(stack)-1
    BY <1>1, <2>1
  <2>3. Len(stack) - m \notin T
    BY <1>1, <1>4, <2>1, <2>2
  <2>4. ~(sp < stack[m].top)  BY <2>2, <2>3 DEF T
  <2>5. stack[m] \in CallFrames  BY <2>2
  <2> QED  BY <2>4, <2>5 DEF CallFrames
<1> HIDE DEF n
<1> QED  BY <1>5, <1>6 DEF unwound

\* newFrame() pushes a frame that continues the innermost one.
LEMMA PushTiled ==
    ASSUME NEW stack \in Seq(CallFrames), stack # <<>>, NEW next \in Nat, next >= 2,
           Tiled(stack, next), NEW function \in Functions, NEW sp \in Int, sp < Top(stack).bottom
    PROVE  LET new == Append(stack, Frame(next, function, Top(stack).bottom, sp))
           IN  new \in Seq(CallFrames) /\ new # <<>> /\ Tiled(new, next + 1)
<1> DEFINE f == Frame(next, function, Top(stack).bottom, sp)
           new == Append(stack, f)
<1>1. Len(stack) \in Nat /\ Len(stack) >= 1 /\ Top(stack) \in CallFrames /\ Top(stack) = stack[Len(stack)]
  BY DEF Top
<1>2. /\ f \in CallFrames /\ f.id = next /\ f.top = stack[Len(stack)].bottom
      /\ f.bottom < f.top /\ function # "none" /\ f.function = function
  BY <1>1 DEF Frame, CallFrames, Functions
<1> HIDE DEF f
<1>3. /\ new \in Seq(CallFrames) /\ Len(new) = Len(stack) + 1 /\ new[Len(stack) + 1] = f
      /\ \A i \in 1..Len(stack) : new[i] = stack[i]
  BY <1>1, <1>2, AppendProperties
<1> HIDE DEF new
<1>4. Tiled(new, next + 1)
  <2>1. new[1].top = StackTop + 1  BY <1>1, <1>3 DEF Tiled
  <2>2. ASSUME NEW i \in 1..Len(stack)
        PROVE  /\ new[i].bottom < new[i].top
               /\ new[i].id \in 1..next
               /\ new[i].function # "none" =>
                    /\ i > 1 /\ new[i].top = new[i-1].bottom
                    /\ \A j \in 1..i-1 : new[j].id < new[i].id
    <3>1. new[i] = stack[i] /\ \A j \in 1..i-1 : new[j] = stack[j]  BY <1>1, <1>3
    <3>2. i > 1 => i-1 \in 1..i-1  BY <1>1
    <3> QED  BY <1>1, <3>1, <3>2 DEF Tiled
  <2>3. \A j \in 1..Len(stack) : new[j].id < next
    BY <1>1, <1>3 DEF Tiled
  <2>4. new[Len(stack)] = stack[Len(stack)]  BY <1>1, <1>3
  <2> QED  BY <1>1, <1>2, <1>3, <2>1, <2>2, <2>3, <2>4 DEF Tiled
<1> QED  BY <1>1, <1>3, <1>4 DEF new, f

\* updateFrame() keeps the frames that the stack pointer is inside.
LEMMA UnwindTiled ==
    ASSUME NEW stack \in Seq(CallFrames), NEW next \in Nat, Tiled(stack, next),
           NEW n \in 1..Len(stack), NEW sp \in Int, sp < stack[n].top
    PROVE  LET new == [SubSeq(stack, 1, n) EXCEPT ![n].bottom = sp]
           IN  /\ new \in Seq(CallFrames) /\ Len(new) = n /\ Tiled(new, next)
               /\ \A i \in 1..n : new[i].id = stack[i].id /\ new[i].function = stack[i].function
<1> DEFINE kept == SubSeq(stack, 1, n)
           new == [kept EXCEPT ![n].bottom = sp]
<1>1. Len(stack) \in Nat /\ \A i \in 1..n : stack[i] \in CallFrames
  OBVIOUS
<1>2. kept \in Seq(CallFrames) /\ Len(kept) = n /\ \A i \in 1..n : kept[i] = stack[i]
  BY <1>1, SubSeqProperties
<1>3. DOMAIN kept = 1..n  BY <1>2
<1> HIDE DEF kept
<1>4. /\ new = [i \in 1..n |-> IF i = n THEN [kept[n] EXCEPT !.bottom = sp] ELSE kept[i]]
      /\ \A i \in 1..n : /\ i # n => new[i] = stack[i]
                         /\ i = n => new[i] = [stack[n] EXCEPT !.bottom = sp]
  BY Zenon, <1>2, <1>3
<1> HIDE DEF new
<1>5. ASSUME NEW i \in 1..n
      PROVE  /\ new[i] \in CallFrames /\ new[i].id = stack[i].id
             /\ new[i].function = stack[i].function /\ new[i].top = stack[i].top
             /\ i # n => new[i].bottom = stack[i].bottom
             /\ i = n => new[i].bottom = sp
  <2>1. new[i] = IF i = n THEN [stack[n] EXCEPT !.bottom = sp] ELSE stack[i]  BY <1>4
  <2>2. stack[i] \in CallFrames  BY <1>1
  <2>3. CASE i = n
    <3>1. stack[n] \in CallFrames  BY <1>1
    <3> QED  BY Zenon, <2>1, <2>3, <3>1 DEF CallFrames
  <2>4. CASE i # n  BY <2>1, <2>2, <2>4
  <2> QED  BY <2>3, <2>4
<1>6. new \in Seq(CallFrames) /\ Len(new) = n
  <2>1. new = [i \in 1..n |-> new[i]]  BY <1>4
  <2> QED  BY <1>5, <2>1
<1>7. Tiled(new, next)
  <2>1. n \in Nat /\ 1 \in 1..n  BY <1>1
  <2>2. new[1].top = StackTop + 1  BY <1>5, <2>1 DEF Tiled
  <2>3. ASSUME NEW i \in 1..n
        PROVE  /\ new[i].bottom < new[i].top
               /\ new[i].id \in 1..next-1
               /\ new[i].function # "none" =>
                    /\ i > 1 /\ new[i].top = new[i-1].bottom
                    /\ \A j \in 1..i-1 : new[j].id < new[i].id
    <3>1. i \in 1..Len(stack)  BY <1>1
    <3>2. new[i].bottom < new[i].top  BY <1>5, <3>1 DEF Tiled
    <3>3. new[i].id \in 1..next-1  BY <1>5, <3>1 DEF Tiled
    <3>4. ASSUME new[i].function # "none"
          PROVE  /\ i > 1 /\ new[i].top = new[i-1].bottom
                 /\ \A j \in 1..i-1 : new[j].id < new[i].id
      <4>1. /\ i > 1 /\ stack[i].top = stack[i-1].bottom
            /\ \A j \in 1..i-1 : stack[j].id < stack[i].id
        BY <1>5, <3>1, <3>4 DEF Tiled
      <4>2. i - 1 \in 1..n /\ i - 1 # n /\ \A j \in 1..i-1 : j \in 1..n  BY <2>1, <4>1
      <4> QED  BY <1>5, <4>1, <4>2
    <3> QED  BY <3>2, <3>3, <3>4
  <2> QED  BY <1>6, <2>2, <2>3 DEF Tiled
<1> QED  BY Zenon, <1>5, <1>6, <1>7 DEF new, kept

\* clone() copies the stack, root frame included, over a new root frame.
LEMMA CloneTiled ==
    ASSUME NEW stack \in Seq(CallFrames), stack # <<>>, NEW next \in Nat, next >= 2, Tiled(stack, next)
    PROVE  LET new == <<RootFrame>> \o stack
           IN  /\ new \in Seq(CallFrames) /\ Len(new) = Len(stack) + 1 /\ Tiled(new, next)
               /\ new[1] = RootFrame /\ \A i \in 1..Len(stack) : new[i+1] = stack[i]
<1> DEFINE new == <<RootFrame>> \o stack
<1>1. /\ RootFrame \in CallFrames /\ RootFrame.id = 1 /\ RootFrame.function = "none"
      /\ RootFrame.top = StackTop + 1 /\ RootFrame.bottom < RootFrame.top
  BY StackTopAssumption DEF RootFrame, Frame, CallFrames
<1>2. Len(stack) \in Nat /\ Len(stack) >= 1
  OBVIOUS
<1>3. /\ new \in Seq(CallFrames) /\ Len(new) = Len(stack) + 1 /\ new[1] = RootFrame
      /\ \A i \in 1..Len(stack) : new[i+1] = stack[i]
  BY <1>1, <1>2
<1> HIDE DEF new
<1>4. Tiled(new, next)
  <2>1. \A j \in 1..Len(stack) : stack[j].id \in 1..next-1
    BY DEF Tiled
  <2>2. ASSUME NEW i \in 1..Len(new)
        PROVE  /\ new[i].bottom < new[i].top
               /\ new[i].id \in 1..next-1
               /\ new[i].function # "none" =>
                    /\ i > 1 /\ new[i].top = new[i-1].bottom
                    /\ \A j \in 1..i-1 : new[j].id < new[i].id
    <3>1. CASE i = 1  BY <1>1, <1>3, <3>1
    <3>2. CASE i # 1
      <4>1. PICK k \in 1..Len(stack) : i = k + 1  BY <1>2, <1>3, <3>2
      <4>2. new[i] = stack[k]  BY <1>3, <4>1
      <4>3. new[i].bottom < new[i].top /\ new[i].id \in 1..next-1  BY <4>2 DEF Tiled
      <4>4. ASSUME new[i].function # "none"
            PROVE  /\ i > 1 /\ new[i].top = new[i-1].bottom
                   /\ \A j \in 1..i-1 : new[j].id < new[i].id
        <5>1. /\ k > 1 /\ stack[k].top = stack[k-1].bottom
              /\ \A j \in 1..k-1 : stack[j].id < stack[k].id
          BY <4>2, <4>4 DEF Tiled
        <5>2. k - 1 \in 1..Len(stack) /\ k - 1 + 1 = k /\ i - 1 = k  BY <1>2, <4>1, <5>1
        <5>3. new[i-1] = stack[k-1]  BY <1>3, <5>2
        <5>4. 1 < stack[k].id
          <6>1. 1 \in 1..k-1 /\ 1 \in 1..Len(stack)  BY <1>2, <5>1
          <6> QED  BY <2>1, <5>1, <6>1
        <5>5. ASSUME NEW j \in 1..i-1 PROVE new[j].id < new[i].id
          <6>1. CASE j = 1  BY <1>1, <1>3, <4>2, <5>4, <6>1
          <6>2. CASE j # 1
            <7>1. PICK h \in 1..k-1 : j = h + 1  BY <1>2, <4>1, <5>2, <6>2
            <7>2. h \in 1..Len(stack)  BY <1>2
            <7> QED  BY Zenon, <1>3, <4>2, <5>1, <7>1, <7>2
          <6> QED  BY <6>1, <6>2
        <5> QED  BY <4>1, <4>2, <5>1, <5>3, <5>5
      <4> QED  BY <4>3, <4>4
    <3> QED  BY <3>1, <3>2
  <2> QED  BY <1>1, <1>3, <2>2 DEF Tiled
<1> QED  BY <1>3, <1>4 DEF new

-----------------------------------------------------------------------------
\* The loop of setInterpreterStructureParams() after n frames.
LEMMA ActivationSteps ==
    ASSUME NEW stack \in Seq(CallFrames)
    PROVE  \E g : /\ ActivationFrames(stack) = g[Len(stack)] /\ g[0] = <<>>
                  /\ \A n \in 1..Len(stack) :
                       g[n] = IF n \in Activations(stack)
                              THEN Append(g[n-1], HighLevelFrame(stack[n].id, 0)) ELSE g[n-1]
<1> DEFINE next(n, high) == IF n \in Activations(stack)
                            THEN Append(high, HighLevelFrame(stack[n].id, 0)) ELSE high
           step(f, n) == IF n = 0 THEN <<>> ELSE next(n, f[n-1])
           Upto(n) == \E f : f = [m \in 0..n |-> step(f, m)]
           T == {n \in 0..Len(stack) : ~Upto(n)}
<1>0. Len(stack) \in Nat  OBVIOUS
<1>1. T = {}
  <2> SUFFICES ASSUME T # {} PROVE FALSE  OBVIOUS
  <2>1. T \subseteq Nat
    <3>1. 0..Len(stack) \subseteq Nat  BY <1>0
    <3> HIDE DEF Upto
    <3> QED  BY Zenon, <3>1
  <2> HIDE DEF T
  <2>2. PICK n \in T : \A k \in T : n <= k  BY Zenon, <2>1, LeastNat
  <2>3. n \in 0..Len(stack) /\ ~Upto(n)  BY Zenon, <2>2 DEF T
  <2>4. n # 0
    <3> SUFFICES ASSUME n = 0 PROVE FALSE  OBVIOUS
    <3> DEFINE f == [m \in 0..0 |-> <<>>]
    <3>1. f = [m \in 0..0 |-> step(f, m)]  OBVIOUS
    <3> HIDE DEF f
    <3> QED  BY <2>3, <3>1
  <2>5. n - 1 \in 0..Len(stack) /\ n \in 1..Len(stack) /\ ~(n <= n - 1)  BY <1>0, <2>3, <2>4
  <2>6. n - 1 \notin T  BY Zenon, <2>2, <2>5
  <2>7. Upto(n - 1)
    <3> HIDE DEF Upto
    <3> QED  BY Zenon, <2>5, <2>6 DEF T
  <2>8. PICK f : f = [m \in 0..n-1 |-> step(f, m)]  BY Zenon, <2>7
  <2> DEFINE g == [m \in 0..n |-> IF m = n THEN next(n, f[n-1]) ELSE f[m]]
  <2> HIDE DEF next
  <2>9. ASSUME NEW m \in 0..n PROVE g[m] = step(g, m)
    <3>1. CASE m = n
      <4>1. g[n-1] = f[n-1] /\ n # 0  BY <1>0, <2>3, <2>4, <2>5
      <4> QED  BY <3>1, <4>1
    <3>2. CASE m # n
      <4>1. m \in 0..n-1 /\ g[m] = f[m]  BY <1>0, <2>3, <2>5, <3>2
      <4>2. f[m] = step(f, m)  BY Zenon, <2>8, <4>1
      <4>3. m # 0 => m - 1 \in 0..n /\ m - 1 # n  BY <1>0, <2>3, <4>1
      <4>4. m # 0 => g[m-1] = f[m-1]  BY <4>3
      <4> QED  BY <4>1, <4>2, <4>4
    <3> QED  BY <3>1, <3>2
  <2>10. g = [m \in 0..n |-> step(g, m)]
    <3>1. g = [m \in 0..n |-> g[m]]  OBVIOUS
    <3> HIDE DEF g, step
    <3> QED  BY <2>9, <3>1
  <2> HIDE DEF g
  <2> QED  BY <2>3, <2>10
<1>2. Upto(Len(stack))
  <2>1. Len(stack) \in 0..Len(stack)  BY <1>0
  <2> HIDE DEF Upto
  <2> QED  BY Zenon, <1>1, <2>1
<1> DEFINE g == CHOOSE f : f = [m \in 0..Len(stack) |-> step(f, m)]
<1>3. g = [m \in 0..Len(stack) |-> step(g, m)]  BY Zenon, <1>2
<1>4. ActivationFrames(stack) = g[Len(stack)]
  BY Zenon DEF ActivationFrames
<1> HIDE DEF g, next
<1>5. g[0] = <<>> /\ \A n \in 1..Len(stack) : g[n] = next(n, g[n-1])
  BY <1>0, <1>3
<1> QED  BY <1>4, <1>5 DEF next

\* setInterpreterStructureParams() gives every activation its HL frame, in the
\* order of the call stack.
LEMMA ActivationsFollow ==
    ASSUME NEW stack \in Seq(CallFrames), NEW next \in Nat, Tiled(stack, next)
    PROVE  LET high == ActivationFrames(stack)
           IN  /\ high \in Seq(HighLevelFrames) /\ Follows(high, stack)
               /\ \A p \in 1..Len(high) : high[p].id \in 1..next-1
<1>0. Len(stack) \in Nat /\ \A i \in 1..Len(stack) : stack[i] \in CallFrames
  OBVIOUS
<1>1. PICK g : /\ ActivationFrames(stack) = g[Len(stack)] /\ g[0] = <<>>
               /\ \A n \in 1..Len(stack) :
                    g[n] = IF n \in Activations(stack)
                           THEN Append(g[n-1], HighLevelFrame(stack[n].id, 0)) ELSE g[n-1]
  BY ActivationSteps
<1> DEFINE Done(n) ==
             /\ g[n] \in Seq(HighLevelFrames)
             /\ \A i \in Activations(stack) :
                  i <= n => \E p \in 1..Len(g[n]) : g[n][p].id = stack[i].id
             /\ \A p \in 1..Len(g[n]) :
                  \E i \in Activations(stack) : i <= n /\ g[n][p].id = stack[i].id
             /\ \A p, q \in 1..Len(g[n]) : p < q => g[n][p].id < g[n][q].id
           T == {n \in 0..Len(stack) : ~Done(n)}
<1>2. /\ Activations(stack) \subseteq 1..Len(stack)
      /\ \A i \in Activations(stack) : stack[i].id \in 1..next-1
      /\ \A i, j \in Activations(stack) : i < j => stack[i].id < stack[j].id
  <2>1. Activations(stack) \subseteq 1..Len(stack)  BY DEF Activations
  <2>2. \A i \in Activations(stack) : stack[i].id \in 1..next-1  BY <2>1 DEF Tiled
  <2>3. ASSUME NEW i \in Activations(stack), NEW j \in Activations(stack), i < j
        PROVE  stack[i].id < stack[j].id
    <3>1. j \in 1..Len(stack) /\ i \in 1..j-1 /\ stack[j].function # "none"
      BY <1>0, <2>1, <2>3 DEF Activations
    <3> QED  BY <3>1 DEF Tiled
  <2> QED  BY <2>1, <2>2, <2>3
<1>3. Done(0)
  <2>1. Len(g[0]) = 0 /\ g[0] \in Seq(HighLevelFrames)  BY <1>1
  <2> QED  BY <1>2, <2>1
<1>4. ASSUME NEW n \in 1..Len(stack), Done(n-1) PROVE Done(n)
  <2> DEFINE old == g[n-1]  h == HighLevelFrame(stack[n].id, 0)
  <2>0. n - 1 \in Nat  BY <1>0
  <2>1. CASE n \notin Activations(stack)
    <3>1. g[n] = old  BY <1>1, <2>1
    <3>2. \A i \in Activations(stack) : i <= n <=> i <= n - 1  BY <1>0, <1>2, <2>1
    <3> HIDE DEF old
    <3>3. /\ old \in Seq(HighLevelFrames)
          /\ \A i \in Activations(stack) :
               i <= n-1 => \E p \in 1..Len(old) : old[p].id = stack[i].id
          /\ \A p \in 1..Len(old) :
               \E i \in Activations(stack) : i <= n-1 /\ old[p].id = stack[i].id
          /\ \A p, q \in 1..Len(old) : p < q => old[p].id < old[q].id
      BY Zenon, <1>4 DEF old
    <3> QED  BY Zenon, <3>1, <3>2, <3>3
  <2>2. CASE n \in Activations(stack)
    <3>1. g[n] = Append(old, h)  BY Zenon, <1>1, <2>2
    <3>2. h \in HighLevelFrames /\ h.id = stack[n].id
      BY <1>0 DEF HighLevelFrame, HighLevelFrames, CallFrames
    <3> HIDE DEF old, h
    <3>3. /\ old \in Seq(HighLevelFrames)
          /\ \A i \in Activations(stack) :
               i <= n-1 => \E p \in 1..Len(old) : old[p].id = stack[i].id
          /\ \A p \in 1..Len(old) :
               \E i \in Activations(stack) : i <= n-1 /\ old[p].id = stack[i].id
          /\ \A p, q \in 1..Len(old) : p < q => old[p].id < old[q].id
      BY Zenon, <1>4 DEF old
    <3>4. /\ g[n] \in Seq(HighLevelFrames) /\ Len(g[n]) = Len(old) + 1
          /\ g[n][Len(old) + 1] = h /\ \A p \in 1..Len(old) : g[n][p] = old[p]
      BY <3>1, <3>2, <3>3, AppendProperties
    <3>5. Len(old) \in Nat /\ Len(old) + 1 \in 1..Len(g[n])
          /\ \A p \in 1..Len(old) : p \in 1..Len(g[n])
      BY <3>3, <3>4
    <3>6. ASSUME NEW p \in 1..Len(g[n]) PROVE p \in 1..Len(old) \/ p = Len(old) + 1
      BY <3>4, <3>5
    <3>7. ASSUME NEW i \in Activations(stack), i <= n
          PROVE  \E p \in 1..Len(g[n]) : g[n][p].id = stack[i].id
      <4>1. i = n \/ i <= n - 1  BY <1>0, <1>2, <3>7
      <4> QED  BY Zenon, <3>2, <3>3, <3>4, <3>5, <4>1
    <3>8. ASSUME NEW p \in 1..Len(g[n])
          PROVE  \E i \in Activations(stack) : i <= n /\ g[n][p].id = stack[i].id
      <4>1. \A i \in Activations(stack) : i <= n - 1 => i <= n  BY <1>0, <1>2
      <4>2. CASE p \in 1..Len(old)  BY Zenon, <3>3, <3>4, <4>1, <4>2
      <4>3. CASE p = Len(old) + 1  BY <2>2, <3>2, <3>4, <4>3
      <4> QED  BY <3>6, <4>2, <4>3
    <3>9. ASSUME NEW p \in 1..Len(g[n]), NEW q \in 1..Len(g[n]), p < q
          PROVE  g[n][p].id < g[n][q].id
      <4>1. p \in 1..Len(old)  BY <3>4, <3>5, <3>9
      <4>2. CASE q \in 1..Len(old)  BY Zenon, <3>3, <3>4, <3>9, <4>1, <4>2
      <4>3. CASE q = Len(old) + 1
        <5>1. PICK i \in Activations(stack) : i <= n-1 /\ old[p].id = stack[i].id
          BY <3>3, <4>1
        <5>2. i < n  BY <1>0, <1>2, <5>1
        <5>3. stack[i].id < stack[n].id  BY <1>2, <2>2, <5>2
        <5> QED  BY <3>2, <3>4, <4>1, <4>3, <5>1, <5>3
      <4> QED  BY <3>6, <4>2, <4>3
    <3> QED  BY <3>4, <3>7, <3>8, <3>9
  <2> QED  BY <2>1, <2>2
<1> HIDE DEF Done
<1>5. T = {}
  <2> SUFFICES ASSUME T # {} PROVE FALSE  OBVIOUS
  <2>1. T \subseteq Nat
    <3>1. 0..Len(stack) \subseteq Nat  BY <1>0
    <3> QED  BY Zenon, <3>1
  <2> HIDE DEF T
  <2>2. PICK n \in T : \A k \in T : n <= k  BY Zenon, <2>1, LeastNat
  <2>3. n \in 0..Len(stack) /\ ~Done(n)  BY Zenon, <2>2 DEF T
  <2>4. n # 0  BY Zenon, <1>3, <2>3
  <2>5. n - 1 \in 0..Len(stack) /\ n \in 1..Len(stack) /\ ~(n <= n - 1)  BY <1>0, <2>3, <2>4
  <2>6. Done(n - 1)  BY Zenon, <2>2, <2>5 DEF T
  <2> QED  BY Zenon, <1>4, <2>3, <2>5, <2>6
<1> DEFINE high == ActivationFrames(stack)
<1>6. Done(Len(stack)) /\ high = g[Len(stack)]
  <2>1. Len(stack) \in 0..Len(stack)  BY <1>0
  <2> QED  BY Zenon, <1>1, <1>5, <2>1
<1> HIDE DEF high
<1>7. /\ high \in Seq(HighLevelFrames)
      /\ \A i \in Activations(stack) :
           i <= Len(stack) => \E p \in 1..Len(high) : high[p].id = stack[i].id
      /\ \A p \in 1..Len(high) : \E i \in Activations(stack) : high[p].id = stack[i].id
      /\ \A p, q \in 1..Len(high) : p < q => high[p].id < high[q].id
  BY Zenon, <1>6 DEF Done
<1>8. Len(high) \in Nat /\ \A p \in 1..Len(high) : high[p].id \in 1..next-1
  <2>1. Len(high) \in Nat  BY <1>7
  <2> QED  BY Zenon, <1>2, <1>7, <2>1
<1>9. Follows(high, stack)
  <2>1. ASSUME NEW i \in Activations(stack)
        PROVE  \E p \in 1..Len(high) : FirstAt(high, stack[i].id, p)
    <3>1. PICK p \in 1..Len(high) : high[p].id = stack[i].id  BY <1>0, <1>2, <1>7
    <3>2. ASSUME NEW m \in 1..p-1 PROVE high[m].id # stack[i].id
      <4>1. m \in 1..Len(high) /\ m < p  BY <1>8
      <4>2. high[m].id < high[p].id  BY <1>7, <4>1
      <4> QED  BY <1>8, <3>1, <4>1, <4>2
    <3> QED  BY <3>1, <3>2 DEF FirstAt
  <2>2. ASSUME NEW i \in Activations(stack), NEW j \in Activations(stack),
               NEW p \in 1..Len(high), NEW q \in 1..Len(high),
               i < j, FirstAt(high, stack[i].id, p), FirstAt(high, stack[j].id, q)
        PROVE  p < q
    <3>1. high[p].id < high[q].id  BY <1>2, <2>2 DEF FirstAt
    <3>2. p \in Int /\ q \in Int /\ high[p].id \in Int /\ high[q].id \in Int  BY <1>8
    <3>3. q < p => high[q].id < high[p].id  BY <1>7
    <3> QED  BY <3>1, <3>2, <3>3
  <2> QED  BY <2>1, <2>2 DEF Follows
<1> QED  BY <1>7, <1>8, <1>9 DEF high

-----------------------------------------------------------------------------
\* What is left of an HL stack follows what is left of an LL stack when the
\* first HL frames of the remaining activations are left.
LEMMA FollowsCut ==
    ASSUME NEW high \in Seq(HighLevelFrames), NEW stack, NEW new, Follows(high, stack),
           Activations(new) \subseteq Activations(stack),
           \A i \in Activations(new) : new[i].id = stack[i].id,
           NEW n \in 0..Len(high),
           \A i \in Activations(new) : \E p \in 1..n : FirstAt(high, stack[i].id, p)
    PROVE  /\ SubSeq(high, 1, n) \in Seq(HighLevelFrames) /\ Len(SubSeq(high, 1, n)) = n
           /\ \A i \in 1..n : SubSeq(high, 1, n)[i] = high[i]
           /\ Follows(SubSeq(high, 1, n), new)
<1> DEFINE cut == SubSeq(high, 1, n)
<1>1. Len(high) \in Nat /\ \A i \in 1..n : high[i] \in HighLevelFrames  OBVIOUS
<1>2. cut \in Seq(HighLevelFrames) /\ Len(cut) = n /\ \A i \in 1..n : cut[i] = high[i]
  BY <1>1, SubSeqProperties
<1> HIDE DEF cut
<1>3. ASSUME NEW p \in 1..n, NEW id PROVE FirstAt(cut, id, p) <=> FirstAt(high, id, p)
  <2>1. \A m \in 1..p-1 : m \in 1..n  BY <1>1
  <2> QED  BY Zenon, <1>2, <2>1 DEF FirstAt
<1>4. \A p \in 1..n : p \in 1..Len(high)  BY <1>1
<1>5. \A i \in Activations(new) : \E p \in 1..Len(cut) : FirstAt(cut, new[i].id, p)
  BY Zenon, <1>2, <1>3
<1>6. ASSUME NEW i \in Activations(new), NEW j \in Activations(new),
             NEW p \in 1..Len(cut), NEW q \in 1..Len(cut),
             i < j, FirstAt(cut, new[i].id, p), FirstAt(cut, new[j].id, q)
      PROVE  p < q
  <2>1. i \in Activations(stack) /\ j \in Activations(stack)  OBVIOUS
  <2>2. FirstAt(high, stack[i].id, p) /\ FirstAt(high, stack[j].id, q)
    BY Zenon, <1>2, <1>3, <1>6
  <2>3. p \in 1..Len(high) /\ q \in 1..Len(high)  BY Zenon, <1>2, <1>4
  <2> QED  BY Zenon, <1>6, <2>1, <2>2, <2>3 DEF Follows
<1> QED  BY <1>2, <1>5, <1>6 DEF cut, Follows

\* An HL frame more of an activation that has one changes nothing.
LEMMA FollowsEntered ==
    ASSUME NEW high \in Seq(HighLevelFrames), NEW stack, Follows(high, stack),
           NEW h \in HighLevelFrames
    PROVE  /\ Append(high, h) \in Seq(HighLevelFrames) /\ Len(Append(high, h)) = Len(high) + 1
           /\ \A i \in 1..Len(high) : Append(high, h)[i] = high[i]
           /\ Append(high, h)[Len(high) + 1] = h
           /\ Follows(Append(high, h), stack)
<1> DEFINE new == Append(high, h)
<1>1. Len(high) \in Nat  OBVIOUS
<1>2. /\ new \in Seq(HighLevelFrames) /\ Len(new) = Len(high) + 1
      /\ \A i \in 1..Len(high) : new[i] = high[i]
      /\ new[Len(high) + 1] = h
  BY AppendProperties
<1> HIDE DEF new
<1>3. ASSUME NEW p \in 1..Len(high), NEW id PROVE FirstAt(new, id, p) <=> FirstAt(high, id, p)
  <2>1. \A m \in 1..p-1 : m \in 1..Len(high)  BY <1>1
  <2> QED  BY Zenon, <1>2, <2>1 DEF FirstAt
<1>4. \A p \in 1..Len(high) : p \in 1..Len(new)  BY <1>1, <1>2
<1>5. \A i \in Activations(stack) : \E p \in 1..Len(new) : FirstAt(new, stack[i].id, p)
  BY Zenon, <1>3, <1>4 DEF Follows
<1>6. ASSUME NEW i \in Activations(stack), NEW p \in 1..Len(new), FirstAt(new, stack[i].id, p)
      PROVE  p \in 1..Len(high)
  <2>1. PICK r \in 1..Len(high) : FirstAt(high, stack[i].id, r)  BY Zenon DEF Follows
  <2>2. new[r].id = stack[i].id  BY <1>2, <2>1 DEF FirstAt
  <2>3. r \notin 1..p-1  BY <1>6, <2>2 DEF FirstAt
  <2> QED  BY <1>1, <1>2, <2>3
<1>7. ASSUME NEW i \in Activations(stack), NEW j \in Activations(stack),
             NEW p \in 1..Len(new), NEW q \in 1..Len(new),
             i < j, FirstAt(new, stack[i].id, p), FirstAt(new, stack[j].id, q)
      PROVE  p < q
  <2>1. p \in 1..Len(high) /\ q \in 1..Len(high)  BY Zenon, <1>6, <1>7
  <2>2. FirstAt(high, stack[i].id, p) /\ FirstAt(high, stack[j].id, q)
    BY Zenon, <1>3, <1>7, <2>1
  <2> QED  BY Zenon, <1>7, <2>1, <2>2 DEF Follows
<1> QED  BY <1>2, <1>5, <1>7 DEF new, Follows

\* A call of the loop function pushes a frame on both stacks.
LEMMA FollowsPush ==
    ASSUME NEW high \in Seq(HighLevelFrames), NEW stack \in Seq(CallFrames),
           NEW next \in Nat, Tiled(stack, next), Follows(high, stack),
           \A p \in 1..Len(high) : high[p].id \in 1..next-1,
           NEW h \in HighLevelFrames, h.id = next,
           NEW f \in CallFrames, f.id = next
    PROVE  Follows(Append(high, h), Append(stack, f))
<1> DEFINE new == Append(high, h)  called == Append(stack, f)
<1>1. /\ Len(high) \in Nat /\ Len(new) = Len(high) + 1 /\ new[Len(high) + 1] = h
      /\ \A i \in 1..Len(high) : new[i] = high[i]
      /\ Follows(new, stack)
  <2>1. Len(high) \in Nat  OBVIOUS
  <2> QED  BY <2>1, FollowsEntered
<1>2. /\ Len(stack) \in Nat /\ Len(called) = Len(stack) + 1 /\ called[Len(stack) + 1] = f
      /\ \A i \in 1..Len(stack) : called[i] = stack[i]
  BY AppendProperties
<1> HIDE DEF new, called
<1>3. /\ \A i \in Activations(stack) : called[i] = stack[i] /\ i \in 1..Len(stack)
      /\ \A i \in Activations(called) : i \in Activations(stack) \/ i = Len(stack) + 1
  BY <1>2 DEF Activations
<1>4. ASSUME NEW p \in 1..Len(new) PROVE FirstAt(new, next, p) <=> p = Len(high) + 1
  <2>1. \A m \in 1..Len(high) : new[m].id # next  BY <1>1
  <2>2. p \in 1..Len(high) \/ p = Len(high) + 1  BY <1>1
  <2>3. Len(high) + 1 - 1 = Len(high)  BY <1>1
  <2>4. ~(Len(high) + 1 \in 1..Len(high))  BY <1>1
  <2>5. CASE p = Len(high) + 1
    <3>1. FirstAt(new, next, Len(high) + 1)  BY <1>1, <2>1, <2>3 DEF FirstAt
    <3> QED  BY <2>5, <3>1
  <2>6. CASE p \in 1..Len(high)  BY <2>1, <2>4, <2>6 DEF FirstAt
  <2> QED  BY <2>2, <2>5, <2>6
<1>5. Len(high) + 1 \in 1..Len(new)  BY <1>1
<1>6. \A i \in Activations(called) : \E p \in 1..Len(new) : FirstAt(new, called[i].id, p)
  <2> TAKE i \in Activations(called)
  <2>1. CASE i \in Activations(stack)  BY Zenon, <1>1, <1>3, <2>1 DEF Follows
  <2>2. CASE i = Len(stack) + 1  BY Zenon, <1>2, <1>4, <1>5, <2>2
  <2> QED  BY Zenon, <1>3, <2>1, <2>2
<1>7. ASSUME NEW i \in Activations(called), NEW j \in Activations(called),
             NEW p \in 1..Len(new), NEW q \in 1..Len(new),
             i < j, FirstAt(new, called[i].id, p), FirstAt(new, called[j].id, q)
      PROVE  p < q
  <2>1. i \in Activations(stack)  BY <1>2, <1>3, <1>7
  <2>2. CASE j \in Activations(stack)  BY Zenon, <1>1, <1>3, <1>7, <2>1, <2>2 DEF Follows
  <2>3. CASE j = Len(stack) + 1
    <3>1. q = Len(high) + 1  BY Zenon, <1>2, <1>4, <1>7, <2>3
    <3>2. stack[i].id # next  BY <1>3, <2>1 DEF Tiled
    <3>3. p # Len(high) + 1  BY <1>1, <1>3, <1>7, <2>1, <3>2 DEF FirstAt
    <3> QED  BY <1>1, <3>1, <3>3
  <2> QED  BY Zenon, <1>3, <2>2, <2>3
<1> QED  BY Zenon, <1>6, <1>7 DEF Follows, new, called

\* Nothing changes for stacks with the same frame ids.
LEMMA FollowsSame ==
    ASSUME NEW high, NEW same, Len(same) = Len(high), \A p \in 1..Len(high) : same[p].id = high[p].id,
           NEW stack, NEW new, Activations(new) = Activations(stack),
           \A i \in Activations(stack) : new[i].id = stack[i].id,
           Follows(high, stack), Len(high) \in Nat
    PROVE  Follows(same, new)
<1>1. ASSUME NEW p \in 1..Len(high), NEW id PROVE FirstAt(same, id, p) <=> FirstAt(high, id, p)
  <2>1. \A m \in 1..p-1 : m \in 1..Len(high)  OBVIOUS
  <2> QED  BY Zenon, <2>1 DEF FirstAt
<1>2. ASSUME NEW i \in Activations(stack), NEW p \in 1..Len(high)
      PROVE  FirstAt(same, new[i].id, p) <=> FirstAt(high, stack[i].id, p)
  BY Zenon, <1>1
<1> QED  BY Zenon, <1>2 DEF Follows

\* A fork copies both stacks; the LL stack has one root frame more.
LEMMA FollowsClone ==
    ASSUME NEW high, NEW stack, NEW new, Len(stack) \in Nat, Len(new) = Len(stack) + 1,
           new[1] = RootFrame, \A i \in 1..Len(stack) : new[i+1] = stack[i], Follows(high, stack)
    PROVE  Follows(high, new)
<1>1. ASSUME NEW i \in Activations(new)
      PROVE  i - 1 \in Activations(stack) /\ new[i] = stack[i-1] /\ i \in Int
  <2>1. i \in 1..Len(stack) + 1 /\ new[i].function = "loop"  BY DEF Activations
  <2>2. i # 1  BY <2>1 DEF RootFrame, Frame
  <2>3. i - 1 \in 1..Len(stack) /\ i - 1 + 1 = i  BY <2>1, <2>2
  <2>4. new[i] = stack[i-1]  BY <2>3
  <2> QED  BY <2>1, <2>3, <2>4 DEF Activations
<1>2. \A i, j \in Activations(new) : i < j => i - 1 < j - 1  BY <1>1
<1>3. ASSUME NEW i \in Activations(new)
      PROVE  \E p \in 1..Len(high) : FirstAt(high, new[i].id, p)
  BY Zenon, <1>1 DEF Follows
<1>4. ASSUME NEW i \in Activations(new), NEW j \in Activations(new),
             NEW p \in 1..Len(high), NEW q \in 1..Len(high),
             i < j, FirstAt(high, new[i].id, p), FirstAt(high, new[j].id, q)
      PROVE  p < q
  <2>1. FirstAt(high, stack[i-1].id, p) /\ FirstAt(high, stack[j-1].id, q)
    BY Zenon, <1>1, <1>4
  <2>2. i - 1 \in Activations(stack) /\ j - 1 \in Activations(stack) /\ i - 1 < j - 1
    BY Zenon, <1>1, <1>2, <1>4
  <2> QED  BY Zenon, <2>1, <2>2 DEF Follows
<1> QED  BY Zenon, <1>3, <1>4 DEF Follows

\* Activations whose HL frames are above b have as many frames there.
LEMMA RoomAbove ==
    ASSUME NEW high, Len(high) \in Nat, NEW stack \in Seq(CallFrames),
           NEW next \in Nat, Tiled(stack, next), Follows(high, stack),
           NEW b \in 0..Len(high), NEW R \in SUBSET Activations(stack),
           \A j \in R : \A q \in 1..Len(high) : FirstAt(high, stack[j].id, q) => q > b
    PROVE  Cardinality(R) \in 0..Len(high) - b
<1> DEFINE at == [j \in R |-> CHOOSE q \in 1..Len(high) : FirstAt(high, stack[j].id, q)]
<1>1. ASSUME NEW j \in R
      PROVE  at[j] \in 1..Len(high) /\ FirstAt(high, stack[j].id, at[j])
  <2>1. \E q \in 1..Len(high) : FirstAt(high, stack[j].id, q)  BY Zenon DEF Follows
  <2> QED  BY Zenon, <2>1
<1>2. at \in [R -> {at[j] : j \in R}]  OBVIOUS
<1> HIDE DEF at
<1>3. at \in [R -> b+1..Len(high)]
  <2>1. ASSUME NEW j \in R PROVE at[j] \in b+1..Len(high)
    <3>1. at[j] > b /\ at[j] \in 1..Len(high)  BY Zenon, <1>1
    <3> QED  BY <3>1
  <2> QED  BY <1>2, <2>1
<1>4. Len(stack) \in Nat /\ R \subseteq 1..Len(stack)  BY DEF Activations
<1>5. IsFiniteSet(R) /\ Cardinality(R) \in Nat
  <2>1. IsFiniteSet(1..Len(stack))  BY <1>4, FS_Interval
  <2> QED  BY Zenon, <1>4, <2>1, FS_Subset, FS_CardinalityType
<1>6. IsFiniteSet(b+1..Len(high)) /\ Cardinality(b+1..Len(high)) = Len(high) - b
  <2>1. b + 1 \in Int /\ Len(high) \in Int  OBVIOUS
  <2>2. /\ IsFiniteSet(b+1..Len(high))
        /\ Cardinality(b+1..Len(high)) = IF b + 1 > Len(high) THEN 0 ELSE Len(high) - (b + 1) + 1
    BY Zenon, <2>1, FS_Interval
  <2> QED  BY <2>2
<1>7. ASSUME NEW i \in R, NEW j \in R, i < j PROVE at[i] # at[j]
  <2>1. at[i] < at[j]  BY Zenon, <1>1, <1>7 DEF Follows
  <2> QED  BY <1>1, <2>1
<1>8. ~(Cardinality(b+1..Len(high)) < Cardinality(R))
  <2> SUFFICES ASSUME Cardinality(b+1..Len(high)) < Cardinality(R) PROVE FALSE  OBVIOUS
  <2>1. PICK i, j \in R : i # j /\ at[i] = at[j]
    BY Zenon, <1>3, <1>5, <1>6, FS_PigeonHole
  <2>2. i < j \/ j < i  BY <1>4, <2>1
  <2> QED  BY <1>7, <2>1, <2>2
<1> QED  BY <1>5, <1>6, <1>8

\* onLowLevelStackFramePopping() finds a frame for each activation that is left,
\* and keeps the first of those that are not.
LEMMA FollowsPop ==
    ASSUME NEW high \in Seq(HighLevelFrames), NEW stack \in Seq(CallFrames),
           NEW next \in Nat, Tiled(stack, next), Follows(high, stack),
           NEW n \in 1..Len(stack), NEW new, Len(new) = n,
           \A i \in 1..n : new[i].id = stack[i].id /\ new[i].function = stack[i].function
    PROVE  LET m == Len(high) - Leaving(stack, n)
           IN  /\ m \in 0..Len(high)
               /\ SubSeq(high, 1, m) \in Seq(HighLevelFrames) /\ Len(SubSeq(high, 1, m)) = m
               /\ \A i \in 1..m : SubSeq(high, 1, m)[i] = high[i]
               /\ Follows(SubSeq(high, 1, m), new)
<1> DEFINE R == {i \in Activations(stack) : i > n}
           m == Len(high) - Leaving(stack, n)
<1>0. Len(high) \in Nat /\ Len(stack) \in Nat /\ Leaving(stack, n) = Cardinality(R)
  BY DEF Leaving
<1>1. R \in SUBSET Activations(stack)  OBVIOUS
<1>2. m \in 0..Len(high)
  <2>1. 0 \in 0..Len(high) /\ \A q \in 1..Len(high) : q > 0  BY <1>0
  <2>2. Cardinality(R) \in 0..Len(high) - 0
    <3> HIDE DEF R
    <3> QED  BY <1>0, <1>1, <2>1, RoomAbove
  <2> HIDE DEF R
  <2> QED  BY <1>0, <2>2
<1>3. /\ Activations(new) \subseteq Activations(stack)
      /\ \A i \in Activations(new) : new[i].id = stack[i].id /\ i <= n /\ i \in 1..Len(stack)
  BY <1>0 DEF Activations
<1>4. ASSUME NEW i \in Activations(new)
      PROVE  \E p \in 1..m : FirstAt(high, stack[i].id, p)
  <2>1. i \in Activations(stack) /\ i \in Int /\ i <= n  BY <1>0, <1>3
  <2>2. PICK p \in 1..Len(high) : FirstAt(high, stack[i].id, p)  BY Zenon, <2>1 DEF Follows
  <2>3. \A j \in R : j \in Activations(stack) /\ i < j
    BY <1>0, <2>1 DEF Activations
  <2> HIDE DEF R
  <2>4. ASSUME NEW j \in R, NEW q \in 1..Len(high), FirstAt(high, stack[j].id, q)
        PROVE  q > p
    <3>1. p < q  BY Zenon, <2>1, <2>2, <2>3, <2>4 DEF Follows
    <3> QED  BY <1>0, <3>1
  <2>5. p \in 0..Len(high)  BY <1>0
  <2>6. Cardinality(R) \in 0..Len(high) - p  BY <1>0, <1>1, <2>4, <2>5, RoomAbove
  <2>7. p \in 1..m  BY <1>0, <2>6
  <2> QED  BY <2>2, <2>7
<1> HIDE DEF m
<1>5. /\ SubSeq(high, 1, m) \in Seq(HighLevelFrames) /\ Len(SubSeq(high, 1, m)) = m
      /\ \A i \in 1..m : SubSeq(high, 1, m)[i] = high[i]
      /\ Follows(SubSeq(high, 1, m), new)
  BY <1>2, <1>3, <1>4, FollowsCut
<1> QED  BY <1>2, <1>5 DEF m

\* onDataMemoryAccess(): learning a location, entering a frame and returning to
\* one keep an HL frame of every activation, as the interpreter does not return
\* to a frame below those of the innermost one.
LEMMA FollowsWrite ==
    ASSUME NEW high \in Seq(HighLevelFrames), high # <<>>,
           NEW stack \in Seq(CallFrames), stack # <<>>, NEW next \in Nat, Tiled(stack, next),
           Top(stack).function = "loop", Follows(high, stack),
           \A p \in 1..Len(high) : high[p].id \in 1..next-1, NEW ptr \in Addresses,
           \A i \in 1..Len(high) : high[i].ptr = ptr => \E j \in 1..i : high[j].id = Top(stack).id
    PROVE  LET new == HighLevelStackFor(high, Top(stack).id, ptr)
           IN  /\ new \in Seq(HighLevelFrames) /\ Follows(new, stack)
               /\ \A p \in 1..Len(new) : new[p].id \in 1..next-1
<1> DEFINE id == Top(stack).id  new == HighLevelStackFor(high, id, ptr)
<1>0. /\ Len(high) \in Nat /\ Len(high) >= 1 /\ Len(stack) \in Nat /\ Len(stack) >= 1
      /\ \A p \in 1..Len(high) : high[p] \in HighLevelFrames
  OBVIOUS
<1>1. /\ Len(stack) \in Activations(stack) /\ id = stack[Len(stack)].id
      /\ id \in 1..next-1 /\ id \in Nat
  BY <1>0 DEF Activations, Top, Tiled
<1>2. CASE Top(high).ptr \in {0, ptr}
  <2>1. new = [high EXCEPT ![Len(high)].ptr = ptr]  BY <1>2 DEF HighLevelStackFor
  <2>2. /\ new \in Seq(HighLevelFrames) /\ Len(new) = Len(high)
        /\ \A p \in 1..Len(high) : new[p].id = high[p].id
    <3>1. Len(high) \in 1..Len(high) /\ high[Len(high)] \in HighLevelFrames  BY <1>0
    <3> DEFINE h == [high[Len(high)] EXCEPT !.ptr = ptr]
    <3>2. h \in HighLevelFrames /\ h.id = high[Len(high)].id  BY <3>1 DEF HighLevelFrames
    <3>3. new = [high EXCEPT ![Len(high)] = h]  BY <2>1
    <3> HIDE DEF h, new
    <3> QED  BY <1>0, <3>1, <3>2, <3>3
  <2> HIDE DEF new
  <2>3. Follows(new, stack)  BY Zenon, <1>0, <2>2, FollowsSame
  <2> QED  BY <2>2, <2>3 DEF new
<1>3. CASE Top(high).ptr \notin {0, ptr} /\ \E i \in 1..Len(high) : high[i].ptr = ptr
  <2> DEFINE T == {k \in 0..Len(high)-1 : high[Len(high) - k].ptr = ptr}
             In(n) == high[n].ptr = ptr /\ \A m \in n+1..Len(high) : high[m].ptr # ptr
  <2>1. PICK i \in 1..Len(high) : high[i].ptr = ptr  BY <1>3
  <2>2. Len(high) - i \in T
    <3>1. Len(high) - (Len(high) - i) = i /\ Len(high) - i \in 0..Len(high)-1  BY <1>0
    <3>2. high[Len(high) - (Len(high) - i)].ptr = ptr  BY <2>1, <3>1
    <3> QED  BY Zenon, <3>1, <3>2
  <2>3. T \subseteq Nat /\ T # {}
    <3>1. 0..Len(high)-1 \subseteq Nat  BY <1>0
    <3> QED  BY Zenon, <2>2, <3>1
  <2> HIDE DEF T
  <2>4. PICK k \in T : \A j \in T : k <= j  BY Zenon, <2>3, LeastNat
  <2>5. k \in 0..Len(high)-1 /\ high[Len(high) - k].ptr = ptr  BY Zenon, <2>4 DEF T
  <2>6. Len(high) - k \in 1..Len(high) /\ In(Len(high) - k)
    <3>1. ASSUME NEW m \in Len(high) - k + 1..Len(high) PROVE high[m].ptr # ptr
      <4>1. /\ Len(high) - m \in 0..Len(high)-1 /\ ~(k <= Len(high) - m)
            /\ Len(high) - (Len(high) - m) = m
        BY <1>0, <2>5
      <4>2. Len(high) - m \notin T  BY Zenon, <2>4, <4>1
      <4>3. high[Len(high) - (Len(high) - m)].ptr # ptr  BY Zenon, <4>1, <4>2 DEF T
      <4> QED  BY <4>1, <4>3
    <3> QED  BY <1>0, <2>5, <3>1
  <2> DEFINE n == CHOOSE n \in 1..Len(high) : In(n)
  <2>7. n \in 1..Len(high) /\ In(n)
    <3> HIDE DEF In
    <3> QED  BY Zenon, <2>6
  <2>8. new = SubSeq(high, 1, n)  BY Zenon, <1>3 DEF HighLevelStackFor
  <2> HIDE DEF n, new
  <2>9. PICK j \in 1..n : high[j].id = id  BY <2>7
  <2>10. ASSUME NEW h \in Activations(stack)
         PROVE  \E p \in 1..n : FirstAt(high, stack[h].id, p)
    <3>1. PICK p \in 1..Len(high) : FirstAt(high, stack[h].id, p)  BY Zenon DEF Follows
    <3>2. PICK q \in 1..Len(high) : FirstAt(high, id, q)  BY Zenon, <1>1 DEF Follows
    <3>3. j \notin 1..q-1  BY Zenon, <2>9, <3>2 DEF FirstAt
    <3>4. q <= j /\ j <= n /\ j \in Int /\ n \in Int  BY <1>0, <2>7, <3>3
    <3>5. h = Len(stack) \/ h < Len(stack)  BY <1>0 DEF Activations
    <3>6. CASE h = Len(stack)
      <4>1. q \in 1..n  BY <1>0, <3>4
      <4> QED  BY <1>1, <3>2, <3>6, <4>1
    <3>7. CASE h < Len(stack)
      <4>1. p < q  BY Zenon, <1>1, <3>1, <3>2, <3>7 DEF Follows
      <4>2. p \in 1..n  BY <1>0, <3>4, <4>1
      <4> QED  BY <3>1, <4>2
    <3> QED  BY <3>5, <3>6, <3>7
  <2>11. n \in 0..Len(high)  BY <1>0, <2>7
  <2>12. /\ new \in Seq(HighLevelFrames) /\ Len(new) = n /\ \A p \in 1..n : new[p] = high[p]
         /\ Follows(new, stack)
    BY <2>8, <2>10, <2>11, FollowsCut
  <2>13. \A p \in 1..n : p \in 1..Len(high)  BY <1>0, <2>7
  <2> QED  BY Zenon, <2>12, <2>13 DEF new
<1>4. CASE Top(high).ptr \notin {0, ptr} /\ ~\E i \in 1..Len(high) : high[i].ptr = ptr
  <2>1. new = Append(high, HighLevelFrame(id, ptr))  BY <1>4 DEF HighLevelStackFor
  <2>2. HighLevelFrame(id, ptr) \in HighLevelFrames /\ HighLevelFrame(id, ptr).id = id
    BY <1>1 DEF HighLevelFrame, HighLevelFrames
  <2> HIDE DEF new, id
  <2>3. /\ new \in Seq(HighLevelFrames) /\ Len(new) = Len(high) + 1
        /\ \A p \in 1..Len(high) : new[p] = high[p]
        /\ new[Len(high) + 1] = HighLevelFrame(id, ptr) /\ Follows(new, stack)
    BY <2>1, <2>2, FollowsEntered
  <2>4. \A p \in 1..Len(new) : p \in 1..Len(high) \/ p = Len(high) + 1  BY <1>0, <2>3
  <2>5. \A p \in 1..Len(new) : new[p].id \in 1..next-1
    BY Zenon, <1>1, <2>2, <2>3, <2>4
  <2> QED  BY <2>3, <2>5 DEF new, id
<1> QED  BY Zenon, <1>2, <1>3, <1>4

-----------------------------------------------------------------------------
\* Before anything runs there is one stack, with the root frame.
LEMMA InitInv == InterpInit => CallInv /\ HighInv
<1> SUFFICES ASSUME InterpInit PROVE CallInv /\ HighInv  OBVIOUS
<1> USE DEF InterpInit, CallInit
<1>1. /\ RootFrame \in CallFrames /\ RootFrame.id = 1 /\ RootFrame.function = "none"
      /\ RootFrame.top = StackTop + 1 /\ RootFrame.bottom < RootFrame.top
  BY StackTopAssumption DEF RootFrame, Frame, CallFrames
<1>2. Alive = {running}  BY DEF Alive
<1>3. 2 \in 2..MaxId+1  BY MaxIdAssumption
<1>4. Tiled(<<RootFrame>>, 2)  BY <1>1 DEF Tiled
<1>5. CallInv
  <2>1. frames \in [States -> Seq(CallFrames)]  BY <1>1
  <2>2. nextId \in [States -> 2..MaxId+1]  BY <1>3
  <2>3. frames[running] = <<RootFrame>> /\ nextId[running] = 2  OBVIOUS
  <2>4. \A l \in States \ {running} : frames[l] = <<>>  OBVIOUS
  <2> QED  BY <1>2, <1>4, <2>1, <2>2, <2>3, <2>4 DEF CallInv
<1>6. HighInv
  <2>1. hl \in [States -> Seq(HighLevelFrames)]  OBVIOUS
  <2>2. \A l \in States : hl[l] = <<>> /\ Len(hl[l]) = 0  OBVIOUS
  <2>3. \A l \in Alive : \A i \in 1..Len(hl[l]) : hl[l][i].id \in 1..nextId[l]-1
    BY <1>2, <2>2
  <2>4. params = "none" /\ ~connected /\ connected \in BOOLEAN  BY Zenon
  <2>5. params # "loop"  BY <2>4
  <2> QED  BY Zenon, <1>2, <2>1, <2>2, <2>3, <2>4, <2>5 DEF HighInv
<1> QED  BY <1>5, <1>6

\* setInterpreterStructureParams() builds the HL stack of the only state.
LEMMA SetInv ==
    ASSUME CallInv, HighInv, setInterpreterStructureParams PROVE CallInv' /\ HighInv'
<1> USE DEF setInterpreterStructureParams
<1>1. UNCHANGED <<status, running, frames, nextId>>  BY DEF callVars
<1>2. CallInv' /\ Alive' = Alive  BY <1>1 DEF CallInv, Alive, Tiled
<1>3. /\ running \in States /\ frames[running] \in Seq(CallFrames)
      /\ Tiled(frames[running], nextId[running]) /\ nextId[running] \in Nat
  BY MaxIdAssumption DEF CallInv, Alive
<1> DEFINE high == ActivationFrames(frames[running])
<1>4. /\ high \in Seq(HighLevelFrames) /\ Follows(high, frames[running])
      /\ \A p \in 1..Len(high) : high[p].id \in 1..nextId[running]-1
  BY <1>3, ActivationsFollow
<1> HIDE DEF high
<1>5. hl' = [hl EXCEPT ![running] = high]  BY DEF high
<1>6. hl' \in [States -> Seq(HighLevelFrames)] /\ hl'[running] = high
  BY <1>3, <1>4, <1>5 DEF HighInv
<1>7. \A l \in States \ Alive' : hl'[l] = <<>>
  BY <1>2, <1>5 DEF HighInv
<1>8. Alive' \subseteq {running}  BY <1>2 DEF HighInv
<1>9. \A l \in Alive' : \A i \in 1..Len(hl'[l]) : hl'[l][i].id \in 1..nextId'[l]-1
  BY <1>1, <1>4, <1>6, <1>8
<1>10. \A l \in Alive' : Follows(hl'[l], frames'[l])
  BY <1>1, <1>4, <1>6, <1>8
<1> QED  BY Zenon, <1>2, <1>6, <1>7, <1>9, <1>10 DEF HighInv

\* A call pushes a call frame, and an HL frame when it enters the loop.
LEMMA PushInv ==
    ASSUME CallInv, NEW function \in Functions, NEW sp \in 0..StackTop,
           onLowLevelStackFramePush(function, sp)
    PROVE  CallInv' /\ (HighInv => HighInv')
<1> DEFINE stack == frames[running]  next == nextId[running]
           f == Frame(next, function, Top(stack).bottom, sp)
           new == Append(stack, f)
<1>0. /\ running \in Alive /\ next <= MaxId /\ sp < Top(stack).bottom
      /\ frames' = [frames EXCEPT ![running] = new]
      /\ nextId' = [nextId EXCEPT ![running] = next + 1]
      /\ status' = status /\ running' = running
  BY DEF onLowLevelStackFramePush, newFrame
<1>1. Alive' = Alive /\ running \in States /\ Alive \subseteq States  BY <1>0 DEF Alive
<1>2. /\ stack \in Seq(CallFrames) /\ stack # <<>> /\ next \in 2..MaxId+1 /\ Tiled(stack, next)
      /\ frames \in [States -> Seq(CallFrames)] /\ nextId \in [States -> 2..MaxId+1]
  BY <1>0, <1>1 DEF CallInv
<1>3. next \in Nat /\ next >= 2 /\ next + 1 \in 2..MaxId+1 /\ sp \in Int
  BY <1>0, <1>2, MaxIdAssumption, StackTopAssumption
<1>4. Len(stack) \in Nat /\ Len(stack) >= 1 /\ Top(stack) \in CallFrames
  BY <1>2 DEF Top
<1>5. f \in CallFrames /\ f.id = next /\ f.function = function
  BY <1>3, <1>4 DEF Frame, CallFrames
<1>6. new \in Seq(CallFrames) /\ new # <<>> /\ Tiled(new, next + 1)
  BY <1>0, <1>2, <1>3, PushTiled
<1> HIDE DEF f
<1>7. /\ Len(new) = Len(stack) + 1 /\ new[Len(stack) + 1] = f
      /\ \A i \in 1..Len(stack) : new[i] = stack[i]
  BY <1>2, <1>5, AppendProperties
<1> HIDE DEF new
<1>8. /\ frames'[running] = new /\ nextId'[running] = next + 1
      /\ \A l \in States \ {running} : frames'[l] = frames[l] /\ nextId'[l] = nextId[l]
  BY <1>0, <1>1, <1>2
<1>9. CallInv'
  <2>1. frames' \in [States -> Seq(CallFrames)] /\ nextId' \in [States -> 2..MaxId+1]
    BY <1>0, <1>1, <1>2, <1>3, <1>6
  <2>2. \A l \in Alive' : frames'[l] # <<>> /\ Tiled(frames'[l], nextId'[l])
    BY <1>1, <1>6, <1>8 DEF CallInv
  <2>3. \A l \in States \ Alive' : frames'[l] = <<>>
    BY <1>0, <1>1, <1>8 DEF CallInv
  <2>4. status' \in [States -> {"unborn", "alive", "dead"}] /\ running' \in States
    BY <1>0, <1>1 DEF CallInv
  <2>5. \A l \in Alive' : Tiled(frames[l], nextId[l])' <=> Tiled(frames'[l], nextId'[l])
    BY DEF Tiled
  <2> QED  BY <2>1, <2>2, <2>3, <2>4, <2>5 DEF CallInv
<1>10. HighInv => HighInv'
  <2> SUFFICES ASSUME HighInv PROVE HighInv'  OBVIOUS
  <2> DEFINE high == hl[running]
  <2>0. /\ high \in Seq(HighLevelFrames) /\ Len(high) \in Nat
        /\ \A i \in 1..Len(high) : high[i].id \in 1..next-1
        /\ hl \in [States -> Seq(HighLevelFrames)]
    BY <1>0, <1>1 DEF HighInv
  <2>1. CASE params = "none"
    <3>1. UNCHANGED <<hl, params, connected>>
      BY <2>1 DEF onLowLevelStackFramePush, hlStackVars
    <3>2. \A l \in States : Len(hl[l]) = 0  BY <2>1 DEF HighInv
    <3> QED  BY <1>0, <1>1, <2>1, <3>1, <3>2 DEF HighInv
  <2>2. CASE params = "loop"
    <3>1. /\ connected' = (function = params) /\ params' = params
          /\ hl' = IF function = "loop" THEN [hl EXCEPT ![running] = Append(@, HighLevelFrame(next, 0))]
                                        ELSE hl
      BY <2>2 DEF onLowLevelStackFramePush, updateMemoryTracking
    <3>2. Follows(high, stack)  BY <1>0, <2>2 DEF HighInv
    <3>3. Top(frames'[running]).function = function
      BY <1>5, <1>7, <1>8 DEF Top
    <3> DEFINE h == HighLevelFrame(next, 0)
    <3>4. h \in HighLevelFrames /\ h.id = next
      BY <1>3 DEF HighLevelFrame, HighLevelFrames
    <3> HIDE DEF h, high, stack, next
    <3>5. /\ hl'[running] \in Seq(HighLevelFrames) /\ Follows(hl'[running], new)
          /\ \A i \in 1..Len(hl'[running]) : hl'[running][i].id \in 1..next
      <4>1. CASE function = "loop"
        <5>1. hl'[running] = Append(high, h)  BY <1>1, <2>0, <3>1, <4>1 DEF high, h
        <5>2. Follows(Append(high, h), new)
          BY Zenon, <1>2, <1>3, <1>5, <2>0, <3>2, <3>4, FollowsPush DEF new
        <5>3. /\ Append(high, h) \in Seq(HighLevelFrames) /\ Len(Append(high, h)) = Len(high) + 1
              /\ \A i \in 1..Len(high) : Append(high, h)[i] = high[i]
              /\ Append(high, h)[Len(high) + 1] = h
          BY <2>0, <3>4, AppendProperties
        <5>4. ASSUME NEW i \in 1..Len(high) + 1 PROVE Append(high, h)[i].id \in 1..next
          <6>1. i \in 1..Len(high) \/ i = Len(high) + 1  BY <2>0
          <6>2. CASE i \in 1..Len(high)
            <7>1. high[i].id \in 1..next-1  BY <2>0, <6>2
            <7>2. high[i].id \in 1..next  BY <1>3, <7>1
            <7> QED  BY <5>3, <6>2, <7>2
          <6>3. CASE i = Len(high) + 1
            <7>1. next \in 1..next  BY <1>3
            <7> QED  BY <3>4, <5>3, <6>3, <7>1
          <6> QED  BY <6>1, <6>2, <6>3
        <5> QED  BY <5>1, <5>2, <5>3, <5>4
      <4>2. CASE function # "loop"
        <5>1. hl'[running] = high  BY <3>1, <4>2 DEF high
        <5>2. /\ Activations(new) = Activations(stack)
              /\ \A i \in Activations(stack) : new[i].id = stack[i].id
          <6>1. \A i \in 1..Len(new) : i \in 1..Len(stack) \/ i = Len(stack) + 1  BY <1>4, <1>7
          <6>2. \A i \in 1..Len(stack) : i \in 1..Len(new)  BY <1>4, <1>7
          <6> QED  BY <1>5, <1>7, <4>2, <6>1, <6>2 DEF Activations
        <5>3. Follows(high, new)  BY <2>0, <3>2, <5>2, FollowsSame
        <5>4. \A i \in 1..Len(high) : high[i].id \in 1..next
          <6>1. \A i \in 1..next-1 : i \in 1..next  BY <1>3
          <6> QED  BY <2>0, <6>1
        <5> QED  BY <2>0, <5>1, <5>3, <5>4
      <4> QED  BY <4>1, <4>2
    <3>6. \A l \in States \ {running} : hl'[l] = hl[l]  BY <2>0, <3>1
    <3>7. hl' \in [States -> Seq(HighLevelFrames)]
      <4>1. hl' = [l \in States |-> hl'[l]]  BY Zenon, <2>0, <3>1
      <4>2. \A l \in States : hl'[l] \in Seq(HighLevelFrames)  BY <2>0, <3>5, <3>6
      <4> QED  BY Zenon, <4>1, <4>2
    <3>8. \A l \in States \ Alive' : hl'[l] = <<>>  BY <1>0, <1>1, <3>6 DEF HighInv
    <3>9. \A l \in Alive' : \A i \in 1..Len(hl'[l]) : hl'[l][i].id \in 1..nextId'[l]-1
      <4>1. nextId'[running] - 1 = next  BY <1>3, <1>8
      <4>2. \A l \in Alive' : l # running => hl'[l] = hl[l] /\ nextId'[l] = nextId[l]
        BY <1>1, <1>8, <3>6
      <4> QED  BY Zenon, <1>1, <3>5, <4>1, <4>2 DEF HighInv
    <3>10. \A l \in Alive' : Follows(hl'[l], frames'[l])
      <4>1. \A l \in Alive' : l # running => hl'[l] = hl[l] /\ frames'[l] = frames[l]
        BY <1>1, <1>8, <3>6
      <4> QED  BY Zenon, <1>1, <1>8, <2>2, <3>5, <4>1 DEF HighInv
    <3>11. params' = "loop" /\ connected' \in BOOLEAN
           /\ (connected' => Top(frames'[running]).function = params')
      BY Zenon, <2>2, <3>1, <3>3
    <3> QED  BY Zenon, <1>0, <3>7, <3>8, <3>9, <3>10, <3>11 DEF HighInv, Top
  <2> QED  BY <2>1, <2>2 DEF HighInv
<1> QED  BY <1>9, <1>10

\* A return or a longjmp unwinds the call stack; the HL frames of the activations
\* that are left are popped.
LEMMA PopInv ==
    ASSUME CallInv, NEW sp \in 0..StackTop, onLowLevelStackFramePopping(sp)
    PROVE  CallInv' /\ (HighInv => HighInv')
<1> DEFINE stack == frames[running]  next == nextId[running]  n == unwound(stack, sp)
           new == [SubSeq(stack, 1, n) EXCEPT ![n].bottom = sp]
<1>0. /\ running \in Alive /\ frames' = [frames EXCEPT ![running] = new]
      /\ status' = status /\ running' = running /\ nextId' = nextId
  BY DEF onLowLevelStackFramePopping, updateFrame
<1>1. Alive' = Alive /\ running \in States /\ Alive \subseteq States  BY <1>0 DEF Alive
<1>2. /\ stack \in Seq(CallFrames) /\ stack # <<>> /\ next \in 2..MaxId+1 /\ Tiled(stack, next)
      /\ frames \in [States -> Seq(CallFrames)] /\ nextId \in [States -> 2..MaxId+1]
  BY <1>0, <1>1 DEF CallInv
<1>3. next \in Nat /\ sp \in Int /\ sp <= StackTop /\ stack[1].top = StackTop + 1
  BY <1>2, MaxIdAssumption, StackTopAssumption DEF Tiled
<1>4. n \in 1..Len(stack) /\ sp < stack[n].top
  BY <1>2, <1>3, UnwoundExists
<1> HIDE DEF n
<1>5. /\ new \in Seq(CallFrames) /\ Len(new) = n /\ Tiled(new, next)
      /\ \A i \in 1..n : new[i].id = stack[i].id /\ new[i].function = stack[i].function
  <2> HIDE DEF stack, next
  <2> QED  BY Zenon, <1>2, <1>3, <1>4, UnwindTiled
<1> HIDE DEF new
<1>6. /\ Len(stack) \in Nat /\ n \in Nat /\ n >= 1 /\ n \in 1..n
  BY <1>2, <1>4
<1>7. new # <<>> /\ Top(new).function = stack[n].function
  <2>1. new # <<>>  BY <1>5, <1>6
  <2>2. Top(new) = new[n]  BY <1>5 DEF Top
  <2> QED  BY Zenon, <1>5, <1>6, <2>1, <2>2
<1>8. /\ frames'[running] = new
      /\ \A l \in States \ {running} : frames'[l] = frames[l]
  BY <1>0, <1>1, <1>2
<1>9. CallInv'
  <2>1. frames' \in [States -> Seq(CallFrames)] /\ nextId' \in [States -> 2..MaxId+1]
    BY <1>0, <1>1, <1>2, <1>5
  <2>2. \A l \in Alive' : frames'[l] # <<>> /\ Tiled(frames'[l], nextId'[l])
    BY <1>0, <1>1, <1>5, <1>7, <1>8 DEF CallInv
  <2>3. \A l \in States \ Alive' : frames'[l] = <<>>
    BY <1>0, <1>1, <1>8 DEF CallInv
  <2>4. status' \in [States -> {"unborn", "alive", "dead"}] /\ running' \in States
    BY <1>0, <1>1 DEF CallInv
  <2>5. \A l \in Alive' : Tiled(frames[l], nextId[l])' <=> Tiled(frames'[l], nextId'[l])
    BY DEF Tiled
  <2> QED  BY <2>1, <2>2, <2>3, <2>4, <2>5 DEF CallInv
<1>10. HighInv => HighInv'
  <2> SUFFICES ASSUME HighInv PROVE HighInv'  OBVIOUS
  <2> DEFINE high == hl[running]  m == Len(high) - Leaving(stack, n)
  <2>0. /\ high \in Seq(HighLevelFrames) /\ Len(high) \in Nat
        /\ \A i \in 1..Len(high) : high[i].id \in 1..next-1
        /\ hl \in [States -> Seq(HighLevelFrames)]
    BY <1>0, <1>1 DEF HighInv
  <2>1. CASE params = "none"
    <3>1. UNCHANGED <<hl, params, connected>>
      BY <2>1 DEF onLowLevelStackFramePopping, hlStackVars
    <3>2. \A l \in States : Len(hl[l]) = 0  BY <2>1 DEF HighInv
    <3> QED  BY <1>0, <1>1, <2>1, <3>1, <3>2 DEF HighInv
  <2>2. CASE params = "loop"
    <3>1. Follows(high, stack)  BY <1>0, <2>2 DEF HighInv
    <3>2. /\ m \in 0..Len(high)
          /\ SubSeq(high, 1, m) \in Seq(HighLevelFrames) /\ Len(SubSeq(high, 1, m)) = m
          /\ \A i \in 1..m : SubSeq(high, 1, m)[i] = high[i]
          /\ Follows(SubSeq(high, 1, m), new)
      <4> HIDE DEF high, stack, next
      <4> QED  BY Zenon, <1>2, <1>3, <1>4, <1>5, <2>0, <3>1, FollowsPop
    <3>3. CASE n = Len(stack)
      <4>1. UNCHANGED <<hl, params, connected>>
        BY <2>2, <3>3 DEF onLowLevelStackFramePopping, hlStackVars, n
      <4>2. /\ Activations(new) = Activations(stack)
            /\ \A i \in Activations(stack) : new[i].id = stack[i].id
        BY <1>5, <3>3 DEF Activations
      <4>3. Follows(high, new)
        <5> HIDE DEF high, stack
        <5> QED  BY <2>0, <3>1, <4>2, FollowsSame
      <4>4. Top(new).function = Top(stack).function  BY <1>7, <3>3 DEF Top
      <4>5. \A l \in Alive' : Follows(hl'[l], frames'[l])
        <5>1. \A l \in Alive' : l # running => frames'[l] = frames[l]  BY <1>1, <1>8
        <5> QED  BY Zenon, <1>1, <1>8, <2>2, <4>1, <4>3, <5>1 DEF HighInv
      <4>6. running \in Alive' /\ connected' => Top(frames'[running]).function = params'
        BY <1>1, <1>8, <4>1, <4>4 DEF HighInv
      <4>7. params' = "loop" /\ params' # "none"  BY <2>2, <4>1
      <4> QED  BY Zenon, <1>0, <1>1, <4>1, <4>5, <4>6, <4>7 DEF HighInv, Top
    <3>4. CASE n # Len(stack)
      <4>1. /\ connected' = (stack[n].function = params) /\ params' = params
            /\ hl' = [hl EXCEPT ![running] = SubSeq(high, 1, m)]
        BY <2>2, <3>4 DEF onLowLevelStackFramePopping, updateMemoryTracking, n
      <4> DEFINE cut == SubSeq(high, 1, m)
      <4> HIDE DEF cut, m, high, stack, next
      <4>2. \A i \in 1..Len(cut) : cut[i].id \in 1..next-1
        <5>1. \A i \in 1..m : i \in 1..Len(high)  BY <2>0, <3>2
        <5> QED  BY Zenon, <2>0, <3>2, <5>1 DEF cut
      <4>3. hl'[running] = cut /\ \A l \in States \ {running} : hl'[l] = hl[l]
        BY Zenon, <1>1, <2>0, <4>1 DEF cut
      <4>4. hl' \in [States -> Seq(HighLevelFrames)]
        BY <1>1, <2>0, <3>2, <4>1
      <4>5. \A l \in States \ Alive' : hl'[l] = <<>>  BY <1>0, <1>1, <4>3 DEF HighInv
      <4>6. \A l \in Alive' : l # running => hl'[l] = hl[l] /\ frames'[l] = frames[l]
        BY <1>1, <1>8, <4>3
      <4>7. \A l \in Alive' : \A i \in 1..Len(hl'[l]) : hl'[l][i].id \in 1..nextId'[l]-1
        BY Zenon, <1>0, <1>1, <4>2, <4>3, <4>6 DEF HighInv, next
      <4>8. \A l \in Alive' : Follows(hl'[l], frames'[l])
        BY Zenon, <1>1, <1>8, <2>2, <3>2, <4>3, <4>6 DEF HighInv, cut
      <4>9. params' = "loop" /\ params' # "none" /\ connected' \in BOOLEAN
            /\ (connected' => Top(frames'[running]).function = params')
        BY Zenon, <1>7, <1>8, <2>2, <4>1
      <4> QED  BY Zenon, <1>0, <4>4, <4>5, <4>7, <4>8, <4>9 DEF HighInv, Top
    <3> QED  BY <3>3, <3>4
  <2> QED  BY <2>1, <2>2 DEF HighInv
<1> QED  BY <1>9, <1>10

\* A write of the HLPC changes the HL stack of the running state, inside an
\* activation of the loop.
LEMMA WriteInv ==
    ASSUME ~ReuseLocations, CallInv, HighInv, NEW ptr \in Addresses, onDataMemoryAccess(ptr)
    PROVE  CallInv' /\ HighInv'
<1> DEFINE stack == frames[running]  next == nextId[running]  high == hl[running]
           new == HighLevelStackFor(high, Top(stack).id, ptr)
<1>0. /\ running \in Alive /\ connected /\ params = "loop" /\ high # <<>>
      /\ \A i \in 1..Len(high) : high[i].ptr = ptr => \E j \in 1..i : high[j].id = Top(stack).id
      /\ hl' = [hl EXCEPT ![running] = new]
      /\ UNCHANGED <<status, running, frames, nextId, params, connected>>
  BY DEF onDataMemoryAccess, callVars
<1>1. CallInv' /\ Alive' = Alive /\ running \in States /\ Alive \subseteq States
  BY <1>0 DEF CallInv, Alive, Tiled
<1>2. /\ stack \in Seq(CallFrames) /\ stack # <<>> /\ Tiled(stack, next) /\ next \in Nat
  BY <1>0, <1>1, MaxIdAssumption DEF CallInv
<1>3. /\ high \in Seq(HighLevelFrames) /\ \A i \in 1..Len(high) : high[i].id \in 1..next-1
      /\ hl \in [States -> Seq(HighLevelFrames)]
      /\ Top(stack).function = "loop" /\ Follows(high, stack)
  BY <1>0, <1>1 DEF HighInv
<1>4. /\ new \in Seq(HighLevelFrames) /\ Follows(new, stack)
      /\ \A p \in 1..Len(new) : new[p].id \in 1..next-1
  <2> HIDE DEF stack, next, high
  <2> QED  BY <1>0, <1>2, <1>3, FollowsWrite
<1> HIDE DEF new
<1>5. hl'[running] = new /\ \A l \in States \ {running} : hl'[l] = hl[l]
  BY <1>0, <1>1, <1>3
<1>6. hl' \in [States -> Seq(HighLevelFrames)]  BY <1>0, <1>1, <1>3, <1>4
<1>7. \A l \in States \ Alive' : hl'[l] = <<>>  BY <1>0, <1>1, <1>5 DEF HighInv
<1>8. \A l \in Alive' : l # running => hl'[l] = hl[l]  BY <1>1, <1>5
<1>9. \A l \in Alive' : \A i \in 1..Len(hl'[l]) : hl'[l][i].id \in 1..nextId'[l]-1
  BY Zenon, <1>0, <1>1, <1>4, <1>5, <1>8 DEF HighInv
<1>10. \A l \in Alive' : Follows(hl'[l], frames'[l])
  BY Zenon, <1>0, <1>1, <1>4, <1>5, <1>8 DEF HighInv
<1>11. params # "none" /\ Top(frames[running]).function = params  BY <1>0, <1>3
<1> QED  BY Zenon, <1>0, <1>1, <1>6, <1>7, <1>9, <1>10, <1>11 DEF HighInv, Top

\* A fork copies both stacks.
LEMMA CloneInv ==
    ASSUME CallInv, NEW l \in States, interpClone(l) PROVE CallInv' /\ (HighInv => HighInv')
<1> DEFINE stack == frames[running]  next == nextId[running]  high == hl[running]
           new == <<RootFrame>> \o stack
<1>0. /\ running \in Alive /\ status[l] = "unborn" /\ params = "loop"
      /\ status' = [status EXCEPT ![l] = "alive"]
      /\ frames' = [frames EXCEPT ![l] = new]
      /\ nextId' = [nextId EXCEPT ![l] = next]
      /\ hl' = [hl EXCEPT ![l] = high]
      /\ UNCHANGED <<running, params, connected>>
  BY DEF interpClone, clone, cloneNextId
<1>1. /\ running \in States /\ running # l /\ l \notin Alive
      /\ Alive \subseteq States /\ Alive' = Alive \cup {l}
      /\ status' \in [States -> {"unborn", "alive", "dead"}]
  BY <1>0 DEF CallInv, Alive
<1>2. /\ stack \in Seq(CallFrames) /\ stack # <<>> /\ Tiled(stack, next) /\ next \in 2..MaxId+1
      /\ frames \in [States -> Seq(CallFrames)] /\ nextId \in [States -> 2..MaxId+1]
  BY <1>0, <1>1 DEF CallInv
<1>3. next \in Nat /\ next >= 2 /\ Len(stack) \in Nat  BY <1>2, MaxIdAssumption
<1>4. /\ new \in Seq(CallFrames) /\ Len(new) = Len(stack) + 1 /\ Tiled(new, next)
      /\ new[1] = RootFrame /\ \A i \in 1..Len(stack) : new[i+1] = stack[i]
  BY <1>2, <1>3, CloneTiled
<1> HIDE DEF new
<1>5. new # <<>>  BY <1>3, <1>4
<1>6. /\ frames'[l] = new /\ nextId'[l] = next
      /\ \A k \in States \ {l} : frames'[k] = frames[k] /\ nextId'[k] = nextId[k]
  BY <1>0, <1>2
<1>7. CallInv'
  <2>1. frames' \in [States -> Seq(CallFrames)] /\ nextId' \in [States -> 2..MaxId+1]
    BY <1>0, <1>2, <1>4
  <2>2. \A k \in Alive' : frames'[k] # <<>> /\ Tiled(frames'[k], nextId'[k])
    BY <1>1, <1>4, <1>5, <1>6 DEF CallInv
  <2>3. \A k \in States \ Alive' : frames'[k] = <<>>
    BY <1>1, <1>6 DEF CallInv
  <2>4. \A k \in Alive' : Tiled(frames[k], nextId[k])' <=> Tiled(frames'[k], nextId'[k])
    BY DEF Tiled
  <2> QED  BY <1>0, <1>1, <2>1, <2>2, <2>3, <2>4 DEF CallInv
<1>8. HighInv => HighInv'
  <2> SUFFICES ASSUME HighInv PROVE HighInv'  OBVIOUS
  <2>1. /\ high \in Seq(HighLevelFrames) /\ \A i \in 1..Len(high) : high[i].id \in 1..next-1
        /\ hl \in [States -> Seq(HighLevelFrames)] /\ Follows(high, stack)
    BY <1>0, <1>1 DEF HighInv
  <2>2. hl'[l] = high /\ \A k \in States \ {l} : hl'[k] = hl[k]
    BY <1>0, <2>1
  <2>3. connected => Top(frames'[running]).function = params
    BY <1>0, <1>1, <1>6 DEF HighInv
  <2> HIDE DEF stack, next, high
  <2>4. Follows(high, new)  BY <1>3, <1>4, <2>1, FollowsClone
  <2>5. hl' \in [States -> Seq(HighLevelFrames)]  BY <1>0, <2>1
  <2>6. \A k \in States \ Alive' : hl'[k] = <<>>  BY <1>1, <2>2 DEF HighInv
  <2>7. \A k \in Alive' : k # l =>
          k \in Alive /\ hl'[k] = hl[k] /\ frames'[k] = frames[k] /\ nextId'[k] = nextId[k]
    BY <1>1, <1>6, <2>2
  <2>8. \A k \in Alive' : \A i \in 1..Len(hl'[k]) : hl'[k][i].id \in 1..nextId'[k]-1
    BY Zenon, <1>6, <2>1, <2>2, <2>7 DEF HighInv
  <2>9. \A k \in Alive' : Follows(hl'[k], frames'[k])
    BY Zenon, <1>0, <1>6, <2>2, <2>4, <2>7 DEF HighInv
  <2>10. params # "none"  BY <1>0
  <2> QED  BY Zenon, <1>0, <2>3, <2>5, <2>6, <2>8, <2>9, <2>10 DEF HighInv, Top
<1> QED  BY <1>7, <1>8

\* The stacks of a state that is killed are erased.
LEMMA KillInv ==
    ASSUME CallInv, NEW l \in States, interpKill(l) PROVE CallInv' /\ (HighInv => HighInv')
<1>0. /\ l \in Alive
      /\ status' = [status EXCEPT ![l] = "dead"] /\ frames' = [frames EXCEPT ![l] = <<>>]
      /\ nextId' = [nextId EXCEPT ![l] = 2] /\ hl' = [hl EXCEPT ![l] = <<>>]
      /\ UNCHANGED <<running, params, connected>>
  BY DEF interpKill, kill
<1>1. /\ Alive' = Alive \ {l} /\ Alive \subseteq States
      /\ status' \in [States -> {"unborn", "alive", "dead"}] /\ running \in States
  BY <1>0 DEF CallInv, Alive
<1>2. /\ frames \in [States -> Seq(CallFrames)] /\ nextId \in [States -> 2..MaxId+1]
      /\ 2 \in 2..MaxId+1
  BY MaxIdAssumption DEF CallInv
<1>3. frames' \in [States -> Seq(CallFrames)] /\ nextId' \in [States -> 2..MaxId+1]
  BY <1>0, <1>2
<1>4. /\ frames'[l] = <<>>
      /\ \A k \in States \ {l} : frames'[k] = frames[k] /\ nextId'[k] = nextId[k]
  BY <1>0, <1>2
<1>5. \A k \in Alive' : k \in Alive /\ frames'[k] = frames[k] /\ nextId'[k] = nextId[k]
  BY <1>1, <1>4
<1>6. \A k \in States \ Alive' : frames'[k] = <<>>
  BY <1>1, <1>4 DEF CallInv
<1>7. CallInv'
  <2>1. \A k \in Alive' : frames'[k] # <<>> /\ Tiled(frames'[k], nextId'[k])
    BY Zenon, <1>5 DEF CallInv
  <2>2. \A k \in Alive' : Tiled(frames[k], nextId[k])' <=> Tiled(frames'[k], nextId'[k])
    BY DEF Tiled
  <2> QED  BY <1>0, <1>1, <1>3, <1>6, <2>1, <2>2 DEF CallInv
<1>8. HighInv => HighInv'
  <2> SUFFICES ASSUME HighInv PROVE HighInv'  OBVIOUS
  <2>1. hl \in [States -> Seq(HighLevelFrames)] /\ hl' \in [States -> Seq(HighLevelFrames)]
    BY <1>0 DEF HighInv
  <2>2. hl'[l] = <<>> /\ \A k \in States \ {l} : hl'[k] = hl[k]  BY <1>0, <2>1
  <2>3. \A k \in Alive' : hl'[k] = hl[k]  BY <1>1, <2>2
  <2>4. \A k \in States \ Alive' : hl'[k] = <<>>  BY <1>1, <2>2 DEF HighInv
  <2>5. \A k \in Alive' : \A i \in 1..Len(hl'[k]) : hl'[k][i].id \in 1..nextId'[k]-1
    BY Zenon, <1>5, <2>3 DEF HighInv
  <2>6. params = "loop" => \A k \in Alive' : Follows(hl'[k], frames'[k])
    BY Zenon, <1>5, <2>3 DEF HighInv
  <2>7. running \in Alive' /\ connected => Top(frames'[running]).function = params
    BY Zenon, <1>5 DEF HighInv
  <2>8. params = "none" => ~connected /\ Alive' \subseteq {running} /\ hl' = [k \in States |-> <<>>]
    BY Zenon, <1>0, <1>1 DEF HighInv
  <2> QED  BY Zenon, <1>0, <2>1, <2>4, <2>5, <2>6, <2>7, <2>8 DEF HighInv, Top
<1> QED  BY <1>7, <1>8

\* A switch reconsiders whether memory accesses are watched.
LEMMA SwitchInv ==
    ASSUME CallInv, HighInv, NEW l \in States, onStateSwitch(l) PROVE CallInv' /\ HighInv'
<1>0. /\ l \in Alive /\ l # running /\ running' = l
      /\ connected' = (Top(frames[l]).function = params)
      /\ UNCHANGED <<status, frames, nextId, hl, params>>
  BY DEF onStateSwitch, switchTo, updateMemoryTracking
<1>1. CallInv' /\ Alive' = Alive  BY <1>0 DEF CallInv, Alive, Tiled
<1>2. params # "none"  BY <1>0 DEF HighInv
<1>3. connected' \in BOOLEAN /\ (connected' => Top(frames[running']).function = params)
  BY Zenon, <1>0
<1> QED  BY Zenon, <1>0, <1>1, <1>2, <1>3 DEF HighInv, Top

\* Every step keeps the call stacks of the live states tiled.
LEMMA NextCallInv == ASSUME CallInv, [InterpNext]_interpVars PROVE CallInv'
<1>1. ASSUME UNCHANGED callVars PROVE CallInv'
  BY <1>1 DEF callVars, CallInv, Alive, Tiled
<1>2. CASE setInterpreterStructureParams  BY <1>1, <1>2 DEF setInterpreterStructureParams
<1>3. ASSUME NEW ptr \in Addresses, onDataMemoryAccess(ptr) PROVE CallInv'
  BY <1>1, <1>3 DEF onDataMemoryAccess, callVars
<1>4. ASSUME NEW l \in States, onStateSwitch(l) PROVE CallInv'
  <2>1. l \in States /\ running' = l /\ UNCHANGED <<status, frames, nextId>>
    BY <1>4 DEF onStateSwitch, switchTo
  <2>2. Alive' = Alive  BY <2>1 DEF Alive
  <2> QED  BY Zenon, <2>1, <2>2 DEF CallInv, Tiled
<1>5. CASE UNCHANGED interpVars  BY <1>1, <1>5 DEF interpVars
<1> QED  BY Zenon, <1>2, <1>3, <1>4, <1>5, PushInv, PopInv, CloneInv, KillInv DEF InterpNext

\* Every step keeps the HL stacks in step with the call stacks.
LEMMA NextHighInv ==
    ASSUME ~ReuseLocations, CallInv, HighInv, [InterpNext]_interpVars PROVE HighInv'
<1>1. CASE InterpNext
  BY <1>1, Zenon, SetInv, PopInv, PushInv, WriteInv, CloneInv, KillInv, SwitchInv DEF InterpNext
<1>2. CASE UNCHANGED interpVars
  <2>1. UNCHANGED <<status, running, frames, nextId, hl, params, connected>>
    BY <1>2 DEF interpVars, callVars, hlStackVars
  <2>2. Alive' = Alive  BY <2>1 DEF Alive
  <2> QED  BY Zenon, <2>1, <2>2 DEF HighInv, Top
<1> QED  BY <1>1, <1>2

-----------------------------------------------------------------------------
\* In every run the call stacks are those of the live states, and tiled.
THEOREM CallInvariant == InterpSpec => []CallInv
<1>1. InterpInit => CallInv  BY InitInv
<1>2. CallInv /\ [InterpNext]_interpVars => CallInv'  BY NextCallInv
<1> QED  BY <1>1, <1>2, PTL DEF InterpSpec

\* In every run of an interpreter that does not reuse the locations of the
\* frames that it left with their activation, the HL stacks follow them.
THEOREM TracersInvariant == ASSUME ~ReuseLocations PROVE InterpSpec => [](CallInv /\ HighInv)
<1>1. InterpInit => HighInv  BY InitInv
<1>2. CallInv /\ HighInv /\ [InterpNext]_interpVars => HighInv'  BY NextHighInv
<1> QED  BY <1>1, <1>2, CallInvariant, PTL DEF InterpSpec

\* The frames of every call stack tile the thread's stack and their ids grow
\* with the depth (CallStack::newFrame() and updateFrame()).
THEOREM FramesTileAlways == InterpSpec => []FramesTile
<1>1. ASSUME CallInv PROVE FramesTile
  <2> SUFFICES ASSUME NEW l \in Alive, NEW i \in 1..Len(frames[l])
               PROVE  /\ frames[l][i].bottom < frames[l][i].top
                      /\ frames[l][i].function # "none" =>
                           /\ frames[l][i].top = frames[l][i-1].bottom
                           /\ frames[l][i].id > frames[l][i-1].id /\ frames[l][i].id < nextId[l]
    BY DEF FramesTile
  <2>1. Tiled(frames[l], nextId[l]) /\ frames[l] \in Seq(CallFrames) /\ nextId[l] \in Nat
    BY <1>1, MaxIdAssumption DEF CallInv, Alive
  <2>2. Len(frames[l]) \in Nat  BY <2>1
  <2>3. i > 1 => i - 1 \in 1..i-1 /\ i - 1 \in 1..Len(frames[l])  BY <2>2
  <2>4. \A k \in 1..Len(frames[l]) : frames[l][k].id \in 1..nextId[l]-1  BY <2>1 DEF Tiled
  <2> QED  BY <2>1, <2>2, <2>3, <2>4 DEF Tiled
<1> QED  BY <1>1, CallInvariant, PTL

\* Every live activation of the interpreter loop has an HL frame of its own, in
\* the order of the call stack, so that the assertion of
\* onLowLevelStackFramePopping() holds.
THEOREM ActivationsOnStackAlways == ASSUME ~ReuseLocations PROVE InterpSpec => []ActivationsOnStack
<1>1. ASSUME CallInv, HighInv PROVE ActivationsOnStack
  <2> SUFFICES ASSUME NEW l \in Alive, params = "loop"
               PROVE  \E at \in [Activations(frames[l]) -> 1..Len(hl[l])] :
                        \A i \in Activations(frames[l]) :
                          /\ hl[l][at[i]].id = frames[l][i].id
                          /\ \A j \in Activations(frames[l]) : j < i => at[j] < at[i]
    BY Zenon DEF ActivationsOnStack
  <2> DEFINE A == Activations(frames[l])
             at == [i \in A |-> CHOOSE p \in 1..Len(hl[l]) : FirstAt(hl[l], frames[l][i].id, p)]
  <2>1. Follows(hl[l], frames[l])  BY <1>1 DEF HighInv
  <2>2. ASSUME NEW i \in A
        PROVE  at[i] \in 1..Len(hl[l]) /\ FirstAt(hl[l], frames[l][i].id, at[i])
    <3>1. \E p \in 1..Len(hl[l]) : FirstAt(hl[l], frames[l][i].id, p)
      BY Zenon, <2>1 DEF Follows
    <3> QED  BY Zenon, <3>1
  <2>3. at \in [A -> 1..Len(hl[l])]  BY Zenon, <2>2
  <2> HIDE DEF at
  <2>4. ASSUME NEW i \in A
        PROVE  /\ hl[l][at[i]].id = frames[l][i].id
               /\ \A j \in A : j < i => at[j] < at[i]
    BY Zenon, <2>1, <2>2 DEF Follows, FirstAt
  <2> QED  BY Zenon, <2>3, <2>4
<1> QED  BY <1>1, TracersInvariant, PTL

\* Memory accesses are watched, and onDataMemoryAccess() called, only while the
\* running state is in the interpreter loop, whatever was pushed, unwound, forked,
\* killed or switched before.
THEOREM TrackingInLoopAlways ==
    ASSUME ~ReuseLocations PROVE InterpSpec => []TrackingInLoop
<1>1. ASSUME CallInv, HighInv PROVE TrackingInLoop
  <2>1. \A l \in States : (frames[l] # <<>> <=> l \in Alive) /\ nextId[l] \in 2..MaxId+1
    BY <1>1 DEF CallInv
  <2>2. ASSUME NEW l \in States, NEW i \in 1..Len(hl[l])
        PROVE  hl[l][i].id \in 1..MaxId /\ hl[l][i].ptr \in Addresses \cup {0}
    <3>1. hl[l] \in Seq(HighLevelFrames)  BY <1>1 DEF HighInv
    <3>0. hl[l][i] \in HighLevelFrames  BY <3>1
    <3>2. hl[l][i].ptr \in Addresses \cup {0}  BY <3>0 DEF HighLevelFrames
    <3>3. hl[l] # <<>>  OBVIOUS
    <3>4. l \in Alive  BY <1>1, <3>3 DEF HighInv
    <3>5. hl[l][i].id \in 1..nextId[l]-1 /\ nextId[l] \in 2..MaxId+1
      BY <1>1, <2>1, <3>4 DEF HighInv
    <3> QED  BY <3>2, <3>5, MaxIdAssumption
  <2> QED  BY Zenon, <1>1, <2>1, <2>2 DEF TrackingInLoop, InterpTypeOK, CallInv, HighInv
<1> QED  BY <1>1, TracersInvariant, PTL

\* onDataMemoryAccess() finds the HL frame its assertion asks for.
THEOREM HighLevelStackNotEmptyAlways ==
    ASSUME ~ReuseLocations PROVE InterpSpec => []HighLevelStackNotEmpty
<1>1. ASSUME CallInv, HighInv PROVE HighLevelStackNotEmpty
  <2> SUFFICES ASSUME running \in Alive, connected PROVE hl[running] # <<>>
    BY DEF HighLevelStackNotEmpty
  <2>1. params = "loop" /\ Top(frames[running]).function = "loop"  BY <1>1 DEF HighInv
  <2>2. frames[running] \in Seq(CallFrames) /\ frames[running] # <<>>
    BY <1>1 DEF CallInv
  <2>3. Len(frames[running]) \in Activations(frames[running])
    <3>1. Len(frames[running]) \in 1..Len(frames[running])  BY <2>2
    <3> QED  BY <2>1, <3>1 DEF Activations, Top
  <2>4. \E p \in 1..Len(hl[running]) : TRUE
    BY Zenon, <1>1, <2>1, <2>3 DEF HighInv, Follows
  <2> QED  BY <2>4
<1> QED  BY <1>1, TracersInvariant, PTL
=============================================================================
