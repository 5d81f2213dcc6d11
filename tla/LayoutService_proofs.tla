------------------------- MODULE LayoutService_proofs -------------------------
(***************************************************************************)
(* Theorems about LayoutService, for any layouts, outputs and builds and,  *)
(* where nothing else is said, any number of handlers suspended in each    *)
(* other.                                                                  *)
(***************************************************************************)
EXTENDS LayoutService, SequenceTheorems, FiniteSetTheorems, TLAPS

-----------------------------------------------------------------------------
(* The calls among the frames                                                *)

(* Counting the members of a set of numbers up to each of them numbers them.  *)
LEMMA RankNumbers ==
    ASSUME NEW n \in Nat, NEW D \in SUBSET (1 .. n)
    PROVE  /\ IsFiniteSet(D) /\ Cardinality(D) \in 0 .. n
           /\ \A k \in D : Rank(D, k) \in 1 .. Cardinality(D)
           /\ \A j, k \in D : Rank(D, j) = Rank(D, k) => j = k
           /\ \A m \in 1 .. Cardinality(D) : \E k \in D : Rank(D, k) = m
<1>1. IsFiniteSet(D) /\ Cardinality(D) \in 0 .. n
  <2>1. IsFiniteSet(1 .. n) /\ Cardinality(1 .. n) = n
    BY FS_Interval
  <2>2. IsFiniteSet(D) /\ Cardinality(D) <= n
    BY <2>1, FS_Subset
  <2>3. Cardinality(D) \in Nat
    BY <2>2, FS_CardinalityType
  <2> QED BY <2>2, <2>3
<1>0. \A k \in D : k \in Nat
  OBVIOUS
<1> DEFINE upTo(k) == {j \in D : j <= k}
<1>2. \A k \in D : IsFiniteSet(upTo(k)) /\ Cardinality(upTo(k)) \in 1 .. Cardinality(D)
  <2> TAKE k \in D
  <2>1. IsFiniteSet(upTo(k)) /\ Cardinality(upTo(k)) <= Cardinality(D)
    BY <1>1, FS_Subset
  <2>2. k \in upTo(k)
    OBVIOUS
  <2>3. Cardinality(upTo(k)) \in Nat /\ Cardinality(upTo(k)) # 0
    BY <2>1, <2>2, FS_CardinalityType, FS_EmptySet
  <2> QED BY <1>1, <2>1, <2>3
<1>3. ASSUME NEW j \in D, NEW k \in D, j < k
      PROVE  Cardinality(upTo(j)) < Cardinality(upTo(k))
  <2>1. upTo(j) \in SUBSET upTo(k)
    <3> SUFFICES ASSUME NEW i \in D, i <= j
                 PROVE  i <= k
      OBVIOUS
    <3> QED BY <1>0, <1>3
  <2>2. k \in upTo(k) /\ k \notin upTo(j)
    BY <1>3
  <2>3. Cardinality(upTo(j)) <= Cardinality(upTo(k))
    BY <1>2, <2>1, FS_Subset
  <2>4. Cardinality(upTo(j)) # Cardinality(upTo(k))
    BY <1>2, <2>1, <2>2, FS_Subset
  <2> QED BY <1>2, <2>3, <2>4
<1>4. \A j, k \in D : Cardinality(upTo(j)) = Cardinality(upTo(k)) => j = k
  <2> SUFFICES ASSUME NEW j \in D, NEW k \in D, Cardinality(upTo(j)) = Cardinality(upTo(k)),
                      j # k
               PROVE  FALSE
    OBVIOUS
  <2>1. j < k \/ k < j
    OBVIOUS
  <2>2. Cardinality(upTo(j)) < Cardinality(upTo(k)) \/ Cardinality(upTo(k)) < Cardinality(upTo(j))
    BY <1>3, <2>1
  <2> HIDE DEF upTo
  <2> QED BY <1>2, <2>2
<1>5. \A m \in 1 .. Cardinality(D) : \E k \in D : Cardinality(upTo(k)) = m
  <2> DEFINE number == [k \in D |-> Cardinality(upTo(k))]
             numbers == 1 .. Cardinality(D)
  <2>1. number \in [D -> numbers]
    BY <1>2
  <2>2. number \in Injection(D, numbers)
    BY <1>4, <2>1 DEF Injection, IsInjective
  <2>3. IsFiniteSet(numbers) /\ Cardinality(numbers) = Cardinality(D)
    BY <1>1, FS_Interval
  <2>4. number \in Surjection(D, numbers)
    <3> HIDE DEF number, numbers
    <3> QED BY <2>2, <2>3, FS_Injection
  <2> QED BY <2>4 DEF Surjection
<1> QED BY <1>1, <1>2, <1>4, <1>5 DEF Rank

(* The calls of a stack depend on what its frames have in common with calls.  *)
LEMMA SameCalls ==
    ASSUME NEW fs, NEW gs, DOMAIN gs = DOMAIN fs,
           \A k \in DOMAIN fs : InController(gs[k]) <=> InController(fs[k]),
           \A k \in DOMAIN fs : InController(fs[k]) => CallOf(gs[k]) = CallOf(fs[k]),
           NEW n \in Nat, DOMAIN fs = 1 .. n
    PROVE  CallsOf(gs) = CallsOf(fs)
<1>1. Inside(gs) = Inside(fs)
  BY DEF Inside
<1>2. Inside(fs) \in SUBSET (1 .. n)
  BY DEF Inside
<1>3. \A m \in 1 .. Cardinality(Inside(fs)) :
         (CHOOSE k \in Inside(fs) : Rank(Inside(fs), k) = m) \in Inside(fs)
  BY <1>2, RankNumbers
<1>4. \A k \in Inside(fs) : CallOf(gs[k]) = CallOf(fs[k])
  BY DEF Inside
<1> HIDE DEF Inside, CallOf
<1> QED BY <1>1, <1>3, <1>4 DEF CallsOf

(* The calls of a stack are a sequence, not longer than the stack.            *)
LEMMA CallsAreSequence ==
    ASSUME NEW S, NEW fs \in Seq(S), NEW C,
           \A k \in DOMAIN fs : InController(fs[k]) => CallOf(fs[k]) \in C
    PROVE  /\ CallsOf(fs) \in Seq(C)
           /\ Len(CallsOf(fs)) = Cardinality(Inside(fs))
           /\ Len(CallsOf(fs)) \in 0 .. Len(fs)
           /\ Inside(fs) \in SUBSET (1 .. Len(fs))
           /\ \A k \in Inside(fs) :
                 /\ Rank(Inside(fs), k) \in 1 .. Len(CallsOf(fs))
                 /\ CallsOf(fs)[Rank(Inside(fs), k)] = CallOf(fs[k])
           /\ \A m \in 1 .. Len(CallsOf(fs)) : \E k \in Inside(fs) : m = Rank(Inside(fs), k)
<1> DEFINE D == Inside(fs)
           c == Cardinality(D)
           at(m) == CHOOSE k \in D : Rank(D, k) = m
<1>1. DOMAIN fs = 1 .. Len(fs) /\ Len(fs) \in Nat
  BY LenProperties
<1>2. D \in SUBSET (1 .. Len(fs))
  BY <1>1 DEF Inside
<1>3. /\ c \in 0 .. Len(fs)
      /\ \A k \in D : Rank(D, k) \in 1 .. c
      /\ \A j, k \in D : Rank(D, j) = Rank(D, k) => j = k
      /\ \A m \in 1 .. c : \E k \in D : Rank(D, k) = m
  BY <1>1, <1>2, RankNumbers
<1>4. \A k \in D : CallOf(fs[k]) \in C
  BY DEF Inside
<1>5. CallsOf(fs) = [m \in 1 .. c |-> CallOf(fs[at(m)])]
  BY DEF CallsOf
<1> HIDE DEF D
<1>6. \A m \in 1 .. c : at(m) \in D
  BY <1>3
<1>7. \A k \in D : at(Rank(D, k)) = k
  BY <1>3
<1>8. CallsOf(fs) \in [1 .. c -> C]
  BY <1>4, <1>5, <1>6
<1>9. CallsOf(fs) \in Seq(C) /\ Len(CallsOf(fs)) = c
  <2>1. c \in Nat
    BY <1>3
  <2>2. CallsOf(fs) \in Seq(C)
    BY <1>8, <2>1, SeqDef
  <2>3. DOMAIN CallsOf(fs) = 1 .. c /\ DOMAIN CallsOf(fs) = 1 .. Len(CallsOf(fs))
        /\ Len(CallsOf(fs)) \in Nat
    BY <1>8, <2>2, LenProperties
  <2> QED BY <2>1, <2>2, <2>3
<1>10. \A k \in D : CallsOf(fs)[Rank(D, k)] = CallOf(fs[k])
  BY <1>3, <1>5, <1>7
<1> QED BY <1>2, <1>3, <1>9, <1>10 DEF D

(* A frame that is no call is not seen by the controller.                     *)
LEMMA PushOther ==
    ASSUME NEW S, NEW fs \in Seq(S), NEW f \in S, ~InController(f)
    PROVE  CallsOf(Append(fs, f)) = CallsOf(fs)
<1> DEFINE gs == Append(fs, f)
           n == Len(fs)
<1>1. DOMAIN fs = 1 .. n /\ n \in Nat
  BY LenProperties
<1>2. /\ DOMAIN gs = 1 .. (n + 1) /\ gs[n + 1] = f
      /\ \A k \in 1 .. n : gs[k] = fs[k]
  BY <1>1, AppendProperties, LenProperties
<1> HIDE DEF gs, n
<1>3. Inside(gs) = Inside(fs)
  BY <1>1, <1>2 DEF Inside
<1>4. Inside(fs) \in SUBSET (1 .. n)
  BY <1>1 DEF Inside
<1>5. \A m \in 1 .. Cardinality(Inside(fs)) :
         (CHOOSE k \in Inside(fs) : Rank(Inside(fs), k) = m) \in Inside(fs)
  BY <1>1, <1>4, RankNumbers
<1>6. \A k \in Inside(fs) : CallOf(gs[k]) = CallOf(fs[k])
  BY <1>2, <1>4
<1>7. CallsOf(gs) = CallsOf(fs)
  BY <1>3, <1>5, <1>6 DEF CallsOf
<1> QED BY <1>7 DEF gs

(* A frame that is a call is the controller's innermost call.                 *)
LEMMA PushCall ==
    ASSUME NEW S, NEW fs \in Seq(S), NEW f \in S, InController(f)
    PROVE  CallsOf(Append(fs, f)) = Append(CallsOf(fs), CallOf(f))
<1> DEFINE gs == Append(fs, f)
           n == Len(fs)
           C == {CallOf(x) : x \in S}
           D == Inside(fs)
           E == Inside(gs)
           c == Cardinality(D)
<1>1. DOMAIN fs = 1 .. n /\ n \in Nat /\ \A k \in 1 .. n : fs[k] \in S
  BY LenProperties, ElementOfSeq
<1>2. /\ gs \in Seq(S)
      /\ DOMAIN gs = 1 .. (n + 1) /\ gs[n + 1] = f
      /\ \A k \in 1 .. n : gs[k] = fs[k]
      /\ \A k \in 1 .. (n + 1) : gs[k] \in S
  BY <1>1, AppendProperties, LenProperties, ElementOfSeq
<1> HIDE DEF gs
<1>3. D \in SUBSET (1 .. n) /\ IsFiniteSet(D) /\ c \in Nat
  BY <1>1, RankNumbers DEF Inside
<1>4. E = D \cup {n + 1} /\ n + 1 \notin D
  BY <1>1, <1>2 DEF Inside
<1>5. Cardinality(E) = c + 1
  BY <1>3, <1>4, FS_AddElement
<1>6. /\ CallsOf(fs) \in Seq(C) /\ Len(CallsOf(fs)) = c
      /\ \A k \in D : /\ Rank(D, k) \in 1 .. c
                      /\ CallsOf(fs)[Rank(D, k)] = CallOf(fs[k])
      /\ \A m \in 1 .. c : \E k \in D : m = Rank(D, k)
  <2>1. \A k \in DOMAIN fs : InController(fs[k]) => CallOf(fs[k]) \in C
    BY <1>1
  <2> HIDE DEF C
  <2> QED BY <2>1, CallsAreSequence
<1>7. /\ CallsOf(gs) \in Seq(C) /\ Len(CallsOf(gs)) = c + 1
      /\ \A k \in E : CallsOf(gs)[Rank(E, k)] = CallOf(gs[k])
  <2>1. \A k \in DOMAIN gs : InController(gs[k]) => CallOf(gs[k]) \in C
    BY <1>2
  <2> HIDE DEF C, c
  <2> QED BY <1>2, <1>5, <2>1, CallsAreSequence
<1>8. \A k \in D : Rank(E, k) = Rank(D, k)
  <2> SUFFICES ASSUME NEW k \in D
               PROVE  {j \in E : j <= k} = {j \in D : j <= k}
    BY DEF Rank
  <2>1. ~(n + 1 <= k)
    BY <1>1, <1>3
  <2> HIDE DEF D, E
  <2> QED BY <1>4, <2>1
<1>9. Rank(E, n + 1) = c + 1
  <2>1. \A j \in E : j <= n + 1
    BY <1>1, <1>3, <1>4
  <2>2. {j \in E : j <= n + 1} = E
    BY <2>1
  <2> QED BY <1>5, <2>2 DEF Rank
<1> DEFINE as == Append(CallsOf(fs), CallOf(f))
<1>10. /\ as \in Seq(C) /\ Len(as) = c + 1 /\ as[c + 1] = CallOf(f)
       /\ \A m \in 1 .. c : as[m] = CallsOf(fs)[m]
  <2>1. CallOf(f) \in C
    OBVIOUS
  <2> HIDE DEF C, c
  <2> QED BY <1>6, <2>1, AppendProperties
<1> HIDE DEF C, D, E, c, as, n
<1>11. ASSUME NEW m \in 1 .. (c + 1)
       PROVE  CallsOf(gs)[m] = as[m]
  <2>1. CASE m = c + 1
    BY <1>2, <1>4, <1>7, <1>9, <1>10, <2>1
  <2>2. CASE m # c + 1
    <3>1. m \in 1 .. c
      BY <1>3, <2>2
    <3>2. PICK k \in D : m = Rank(D, k)
      BY <1>6, <3>1
    <3>3. k \in 1 .. n /\ k \in E
      BY <1>3, <1>4
    <3>4. CallsOf(gs)[m] = CallOf(fs[k])
      BY <1>2, <1>7, <1>8, <3>2, <3>3
    <3> QED BY <1>6, <1>10, <3>1, <3>2, <3>4
  <2> QED BY <2>1, <2>2
<1>12. CallsOf(gs) = as
  BY <1>7, <1>10, <1>11, SeqEqual
<1> QED BY <1>12 DEF gs, as

(* A frame that is a call changes in place.                                   *)
LEMMA ChangeCall ==
    ASSUME NEW S, NEW fs \in Seq(S), NEW k \in 1 .. Len(fs), NEW f \in S,
           InController(fs[k]), InController(f),
           NEW gs \in Seq(S), Len(gs) = Len(fs),
           \A i \in 1 .. Len(fs) : gs[i] = IF i = k THEN f ELSE fs[i]
    PROVE  /\ Len(CallsOf(gs)) = Len(CallsOf(fs))
           /\ \A m \in 1 .. Len(CallsOf(fs)) :
                 CallsOf(gs)[m] = IF m = Rank(Inside(fs), k) THEN CallOf(f) ELSE CallsOf(fs)[m]
<1> DEFINE n == Len(fs)
           C == {CallOf(x) : x \in S}
           D == Inside(fs)
<1>1. DOMAIN fs = 1 .. n /\ n \in Nat /\ \A i \in 1 .. n : fs[i] \in S
  BY LenProperties, ElementOfSeq
<1>2. /\ gs \in Seq(S) /\ Len(gs) = n /\ DOMAIN gs = 1 .. n
      /\ \A i \in 1 .. n : gs[i] = IF i = k THEN f ELSE fs[i]
  BY <1>1, LenProperties
<1> HIDE DEF n
<1>3. Inside(gs) = D /\ k \in D
  BY <1>1, <1>2 DEF Inside, n
<1>4. /\ CallsOf(fs) \in Seq(C) /\ Len(CallsOf(fs)) = Cardinality(D)
      /\ D \in SUBSET (1 .. n)
      /\ \A i \in D : /\ Rank(D, i) \in 1 .. Len(CallsOf(fs))
                      /\ CallsOf(fs)[Rank(D, i)] = CallOf(fs[i])
      /\ \A m \in 1 .. Len(CallsOf(fs)) : \E i \in D : m = Rank(D, i)
  <2>1. \A i \in DOMAIN fs : InController(fs[i]) => CallOf(fs[i]) \in C
    BY <1>1
  <2> HIDE DEF C
  <2> QED BY <2>1, CallsAreSequence DEF n
<1>5. /\ CallsOf(gs) \in Seq(C) /\ Len(CallsOf(gs)) = Cardinality(D)
      /\ \A i \in D : CallsOf(gs)[Rank(D, i)] = CallOf(gs[i])
  <2>1. \A i \in DOMAIN gs : InController(gs[i]) => CallOf(gs[i]) \in C
    BY <1>1, <1>2
  <2> HIDE DEF C, D
  <2> QED BY <1>2, <1>3, <2>1, CallsAreSequence
<1> HIDE DEF C, D
<1>7. ASSUME NEW m \in 1 .. Len(CallsOf(fs))
      PROVE  CallsOf(gs)[m] = IF m = Rank(D, k) THEN CallOf(f) ELSE CallsOf(fs)[m]
  <2>1. PICK i \in D : m = Rank(D, i)
    BY <1>4
  <2>2. CallsOf(gs)[m] = CallOf(IF i = k THEN f ELSE fs[i])
    BY <1>2, <1>4, <1>5, <2>1
  <2>3. i = k <=> m = Rank(D, k)
    <3>1. \A a, b \in D : Rank(D, a) = Rank(D, b) => a = b
      BY <1>1, <1>4, RankNumbers
    <3> QED BY <1>3, <2>1, <3>1
  <2> QED BY <1>4, <2>1, <2>2, <2>3
<1> QED BY <1>4, <1>5, <1>7 DEF D

-----------------------------------------------------------------------------
(* The stack of frames                                                       *)

(* A frame is where its handler can be, and works on a layout.  Only the      *)
(* backend's part of apply and revert has an effect to wait for.              *)
GoodFrame ==
    {f \in Frame :
        /\ f.op = "transaction" => f.pc \in {"prepare", "get", "set", "restore", "applied"}
        /\ f.op = "revert" => f.pc \in {"reverting", "reprepare", "get", "set"}
        /\ f.op = "start" => f.pc \in {"secrets", "outputs", "get", "set"}
        /\ f.pc # "secrets" => f.layout \in Layout
        /\ f.op = "transaction" /\ f.pc \in {"prepare", "get", "set"} => f.previous \in Layout
        /\ f.done => f.pc = "set"}

(* Handlers that run on at once are never suspended below another one.        *)
WaitingFrame == {f \in GoodFrame : f.pc \notin {"applied", "reverting"}}

StackOK(fs) ==
    /\ fs \in Seq(GoodFrame)
    /\ \A k \in 1 .. (Len(fs) - 1) : fs[k] \in WaitingFrame

(* TypeOK without the frames.                                                *)
ValuesOK ==
    /\ {m_layout, m_previousLayout, lastKept, saved, rdpLayout} \subseteq Layout
    /\ {screen, shown} \subseteq Layout \cup {NoLayout}
    /\ {m_revertTimer, server, listening} \subseteq BOOLEAN
    /\ backend \in Backends
    /\ trial \in {"none", "single", "chained"}
    /\ outputs \in [Outputs -> {"none", "starting", "ready", "rejected"}]

(* The types, with what they do not say of frames.                           *)
ServiceInv ==
    /\ ValuesOK
    /\ StackOK(frames) /\ Len(frames) <= MaxDepth

(* Good frames are frames.                                                    *)
LEMMA ServiceInvTypes == ServiceInv => TypeOK
<1>1. StackOK(frames) => frames \in Seq(Frame)
  BY SeqMonotonic DEF StackOK, GoodFrame
<1> QED BY <1>1 DEF ServiceInv, ValuesOK, TypeOK

(* A stack that is not empty is what waits and the handler on top of it.      *)
LEMMA StackSplits ==
    ASSUME StackOK(frames), frames # << >>
    PROVE  /\ Below \in Seq(WaitingFrame)
           /\ Top \in GoodFrame
           /\ frames = Append(Below, Top)
           /\ Len(frames) = Len(Below) + 1 /\ Len(Below) \in Nat
<1> DEFINE n == Len(frames)
<1>1. n \in Nat /\ n > 0 /\ frames \in Seq(GoodFrame) /\ DOMAIN frames = 1 .. n
  BY EmptySeq, LenProperties DEF StackOK
<1>2. \A k \in 1 .. n : frames[k] \in GoodFrame
  BY <1>1, ElementOfSeq
<1>3. \A k \in 1 .. (n - 1) : frames[k] \in WaitingFrame
  BY DEF StackOK
<1>4. /\ Below \in Seq(WaitingFrame)
      /\ Len(Below) = n - 1
      /\ \A k \in 1 .. (n - 1) : Below[k] = frames[k]
  <2>1. 1 \in Int /\ n - 1 \in Int
    BY <1>1
  <2> HIDE DEF n
  <2> DEFINE m == n - 1
  <2>2. \A k \in 1 .. m : frames[k] \in WaitingFrame
    BY <1>3
  <2>3. /\ SubSeq(frames, 1, m) \in Seq(WaitingFrame)
        /\ Len(SubSeq(frames, 1, m)) = IF 1 <= m THEN m - 1 + 1 ELSE 0
        /\ \A k \in 1 .. m - 1 + 1 : SubSeq(frames, 1, m)[k] = frames[1 + k - 1]
    <3> HIDE DEF m
    <3> QED BY <2>1, <2>2, SubSeqProperties DEF m
  <2>4. Below = SubSeq(frames, 1, m)
    BY DEF Below, Front, n
  <2>5. m \in Nat
    BY <1>1
  <2> HIDE DEF m
  <2>6. Len(Below) = m /\ \A k \in 1 .. m : Below[k] = frames[k]
    BY <2>3, <2>4, <2>5
  <2> QED BY <2>3, <2>4, <2>6 DEF m
<1>5. Top = frames[n] /\ Top \in GoodFrame
  BY <1>1, <1>2 DEF Top, Last
<1> DEFINE gs == Append(Below, Top)
<1>6. Below \in Seq(GoodFrame)
  BY <1>4, SeqMonotonic DEF WaitingFrame
<1>7. /\ gs \in Seq(GoodFrame) /\ Len(gs) = n /\ gs[n] = Top
      /\ \A k \in 1 .. (n - 1) : gs[k] = Below[k]
  <2>1. /\ gs \in Seq(GoodFrame) /\ Len(gs) = Len(Below) + 1 /\ gs[Len(Below) + 1] = Top
        /\ \A k \in 1 .. Len(Below) : gs[k] = Below[k]
    BY <1>5, <1>6, AppendProperties
  <2> HIDE DEF gs, n
  <2>2. Len(Below) + 1 = n /\ Len(Below) = n - 1
    BY <1>1, <1>4
  <2> QED BY <2>1, <2>2
<1>8. \A k \in 1 .. n : gs[k] = frames[k]
  <2> HIDE DEF gs, n
  <2> SUFFICES ASSUME NEW k \in 1 .. n PROVE gs[k] = frames[k]
    OBVIOUS
  <2>1. k \in 1 .. (n - 1) \/ k = n
    BY <1>1
  <2> QED BY <1>4, <1>5, <1>7, <2>1
<1>9. frames = gs
  BY <1>1, <1>7, <1>8, SeqEqual
<1> QED BY <1>1, <1>4, <1>5, <1>9

(* Frames that wait, and one on top of them.                                  *)
LEMMA StackPushed ==
    ASSUME NEW fs \in Seq(WaitingFrame), NEW f \in GoodFrame
    PROVE  /\ StackOK(Append(fs, f)) /\ Len(Append(fs, f)) = Len(fs) + 1
           /\ StackOK(fs)
           /\ Append(fs, f) # << >>
           /\ Last(Append(fs, f)) = f
<1>1. fs \in Seq(GoodFrame) /\ Len(fs) \in Nat
  BY SeqMonotonic, LenProperties DEF WaitingFrame
<1>2. \A k \in 1 .. Len(fs) : fs[k] \in WaitingFrame
  BY ElementOfSeq
<1>3. /\ Append(fs, f) \in Seq(GoodFrame) /\ Len(Append(fs, f)) = Len(fs) + 1
      /\ Append(fs, f) # << >> /\ Append(fs, f)[Len(fs) + 1] = f
      /\ \A k \in 1 .. Len(fs) : Append(fs, f)[k] = fs[k]
  BY <1>1, AppendProperties
<1>4. \A k \in 1 .. (Len(Append(fs, f)) - 1) : k \in 1 .. Len(fs)
  BY <1>1, <1>3
<1>5. \A k \in 1 .. (Len(fs) - 1) : k \in 1 .. Len(fs)
  BY <1>1
<1> QED BY <1>1, <1>2, <1>3, <1>4, <1>5 DEF StackOK, Last

(* The event loop dispatches when every frame waits.                          *)
LEMMA StackWaits ==
    ASSUME StackOK(frames), frames = << >> \/ ~Busy
    PROVE  frames \in Seq(WaitingFrame)
<1>1. CASE frames = << >>
  BY <1>1
<1>2. CASE frames # << >>
  <2>1. /\ Below \in Seq(WaitingFrame) /\ Top \in GoodFrame
        /\ frames = Append(Below, Top)
    BY <1>2, StackSplits
  <2>2. Top \in WaitingFrame
    BY <1>2, <2>1 DEF WaitingFrame, Busy, At
  <2>3. Append(Below, Top) \in Seq(WaitingFrame)
    BY <2>1, <2>2, AppendProperties
  <2> QED BY <2>1, <2>3
<1> QED BY <1>1, <1>2

(* Destroying outputs marks frames; they stay what and where they are.        *)
LEMMA FreedKeeps ==
    ASSUME NEW fs \in Seq(WaitingFrame), NEW destroyed
    PROVE  /\ Freed(fs, destroyed) \in Seq(WaitingFrame)
           /\ Len(Freed(fs, destroyed)) = Len(fs)
           /\ CallsOf(Freed(fs, destroyed)) = CallsOf(fs)
<1> DEFINE gs == Freed(fs, destroyed)
           n == Len(fs)
<1>1. DOMAIN fs = 1 .. n /\ n \in Nat /\ \A k \in 1 .. n : fs[k] \in WaitingFrame
  BY LenProperties, ElementOfSeq
<1>2. DOMAIN gs = 1 .. n
  BY <1>1 DEF Freed
<1>3. ASSUME NEW k \in 1 .. n
      PROVE  /\ gs[k] \in WaitingFrame
             /\ InController(gs[k]) <=> InController(fs[k])
             /\ CallOf(gs[k]) = CallOf(fs[k])
  <2> DEFINE d == fs[k].dangling \/ fs[k].pending \cap destroyed # {}
  <2>1. fs[k] \in WaitingFrame
    BY <1>1
  <2>2. gs[k] = [fs[k] EXCEPT !.dangling = d]
    BY <1>1 DEF Freed
  <2>3. d \in BOOLEAN
    OBVIOUS
  <2> HIDE DEF gs, n, d
  <2>4. /\ gs[k] \in Frame
        /\ gs[k].op = fs[k].op /\ gs[k].pc = fs[k].pc /\ gs[k].layout = fs[k].layout
        /\ gs[k].previous = fs[k].previous /\ gs[k].done = fs[k].done
    BY <2>1, <2>2, <2>3 DEF WaitingFrame, GoodFrame, Frame
  <2> QED BY <2>1, <2>4 DEF WaitingFrame, GoodFrame, InController, CallOf
<1>4. gs \in [1 .. n -> WaitingFrame]
  <2>1. gs = [k \in 1 .. n |-> gs[k]]
    BY <1>1 DEF Freed
  <2> HIDE DEF gs, n
  <2> QED BY <1>3, <2>1
<1> HIDE DEF gs, n
<1>5. gs \in Seq(WaitingFrame) /\ Len(gs) = n
  <2>1. gs \in Seq(WaitingFrame)
    BY <1>1, <1>4, SeqDef
  <2>2. DOMAIN gs = 1 .. Len(gs) /\ Len(gs) \in Nat
    BY <2>1, LenProperties
  <2> QED BY <1>1, <1>2, <2>1, <2>2
<1>6. CallsOf(gs) = CallsOf(fs)
  BY <1>1, <1>2, <1>3, SameCalls
<1> QED BY <1>5, <1>6 DEF gs, n

-----------------------------------------------------------------------------
(* What the controller sees of a step                                        *)

ControllerVars == Controller!vars
ControllerStep == [Controller!Next]_ControllerVars

(* The stack of calls after a step is that of the frames after it.            *)
LEMMA CallsAfter == ControllerCalls' = CallsOf(frames')
BY DEF ControllerCalls

(* A frame in the controller is one of its calls.                             *)
LEMMA CallTyped ==
    ASSUME NEW f \in GoodFrame, InController(f)
    PROVE  CallOf(f) \in Controller!Call
BY DEF GoodFrame, Frame, InController, CallOf, Controller!Call

(* The calls of frames that wait.                                             *)
LEMMA CallsTyped ==
    ASSUME NEW fs \in Seq(GoodFrame)
    PROVE  CallsOf(fs) \in Seq(Controller!Call) /\ Len(CallsOf(fs)) \in 0 .. Len(fs)
<1>1. \A k \in DOMAIN fs : InController(fs[k]) => CallOf(fs[k]) \in Controller!Call
  <2>1. \A k \in DOMAIN fs : fs[k] \in GoodFrame
    BY LenProperties, ElementOfSeq
  <2> QED BY <2>1, CallTyped
<1> QED BY <1>1, CallsAreSequence

(* The handler on top, the ones below, and what the controller sees of them.  *)
LEMMA TopView ==
    ASSUME ServiceInv, frames # << >>
    PROVE  /\ Below \in Seq(WaitingFrame) /\ Len(Below) \in Nat /\ Len(Below) < MaxDepth
           /\ Top \in GoodFrame
           /\ frames = Append(Below, Top) /\ Len(frames) = Len(Below) + 1
           /\ ~InController(Top) => ControllerCalls = CallsOf(Below)
           /\ InController(Top) =>
                 /\ ControllerCalls # << >>
                 /\ Controller!Top = CallOf(Top)
                 /\ Len(ControllerCalls) = Len(CallsOf(Below)) + 1
                 /\ CallsOf(Below) \in Seq(Controller!Call)
                 /\ ControllerCalls = Append(CallsOf(Below), CallOf(Top))
                 /\ ControllerCalls' = CallsOf(Below) => Controller!Return
<1>1. /\ Below \in Seq(WaitingFrame) /\ Top \in GoodFrame
      /\ frames = Append(Below, Top)
      /\ Len(frames) = Len(Below) + 1 /\ Len(Below) \in Nat
  BY StackSplits DEF ServiceInv
<1>2. Below \in Seq(GoodFrame)
  BY <1>1, SeqMonotonic DEF WaitingFrame
<1>3. Len(Below) < MaxDepth
  BY <1>1, ServiceAssumption DEF ServiceInv
<1>4. ASSUME ~InController(Top)
      PROVE  ControllerCalls = CallsOf(Below)
  BY <1>1, <1>2, <1>4, PushOther DEF ControllerCalls
<1>5. ASSUME InController(Top)
      PROVE  /\ ControllerCalls # << >>
             /\ Controller!Top = CallOf(Top)
             /\ Len(ControllerCalls) = Len(CallsOf(Below)) + 1
             /\ CallsOf(Below) \in Seq(Controller!Call)
             /\ ControllerCalls = Append(CallsOf(Below), CallOf(Top))
             /\ ControllerCalls' = CallsOf(Below) => Controller!Return
  <2> DEFINE cs == CallsOf(Below)
             c == CallOf(Top)
  <2>1. cs \in Seq(Controller!Call) /\ c \in Controller!Call /\ Len(cs) \in Nat
    BY <1>1, <1>2, <1>5, CallsTyped, CallTyped, LenProperties
  <2>2. ControllerCalls = Append(cs, c)
    BY <1>1, <1>2, <1>5, PushCall DEF ControllerCalls
  <2> HIDE DEF cs, c
  <2>3. /\ Append(cs, c) # << >> /\ Len(Append(cs, c)) = Len(cs) + 1
        /\ Append(cs, c)[Len(cs) + 1] = c
    BY <2>1, AppendProperties
  <2>4. SubSeq(Append(cs, c), 1, Len(cs)) = cs
    BY <2>1, SubSeqFull
  <2>5. SubSeq(ControllerCalls, 1, Len(ControllerCalls) - 1) = cs
    BY <2>1, <2>2, <2>3, <2>4
  <2> QED BY <2>1, <2>2, <2>3, <2>5 DEF Controller!Top, Controller!Return, cs, c
<1> QED BY <1>1, <1>3, <1>4, <1>5

(* A handler on top of frames that wait; if it is in the controller it has    *)
(* entered it.                                                                *)
LEMMA AfterPush ==
    ASSUME NEW fs \in Seq(WaitingFrame), NEW f \in GoodFrame, Len(fs) < MaxDepth,
           frames' = Append(fs, f)
    PROVE  /\ StackOK(frames') /\ Len(frames') <= MaxDepth
           /\ ~InController(f) => ControllerCalls' = CallsOf(fs)
           /\ InController(f) => ControllerCalls' = Append(CallsOf(fs), CallOf(f))
           /\ InController(f) /\ ControllerCalls = CallsOf(fs) => Controller!Enter(CallOf(f))
<1>1. fs \in Seq(GoodFrame) /\ Len(fs) \in Nat
  BY SeqMonotonic, LenProperties DEF WaitingFrame
<1>2. StackOK(frames') /\ Len(frames') = Len(fs) + 1
  BY StackPushed
<1>3. Len(frames') <= MaxDepth
  BY <1>1, <1>2, ServiceAssumption
<1>4. ~InController(f) => ControllerCalls' = CallsOf(fs)
  BY <1>1, PushOther, CallsAfter
<1>5. InController(f) => ControllerCalls' = Append(CallsOf(fs), CallOf(f))
  BY <1>1, PushCall, CallsAfter
<1>6. Len(CallsOf(fs)) < MaxDepth
  <2>1. Len(CallsOf(fs)) \in 0 .. Len(fs)
    BY <1>1, CallsTyped
  <2> QED BY <1>1, <2>1, ServiceAssumption
<1> QED BY <1>2, <1>3, <1>4, <1>5, <1>6 DEF Controller!Enter

(* Only frames that wait are left.                                            *)
LEMMA AfterPop ==
    ASSUME NEW fs \in Seq(WaitingFrame), Len(fs) <= MaxDepth, frames' = fs
    PROVE  /\ StackOK(frames') /\ Len(frames') <= MaxDepth
           /\ ControllerCalls' = CallsOf(fs)
<1>1. \A k \in 1 .. (Len(fs) - 1) : fs[k] \in WaitingFrame
  <2>1. \A k \in 1 .. (Len(fs) - 1) : k \in 1 .. Len(fs)
    BY LenProperties
  <2> QED BY <2>1, ElementOfSeq
<1>2. fs \in Seq(GoodFrame)
  BY SeqMonotonic DEF WaitingFrame
<1> QED BY <1>1, <1>2, CallsAfter DEF StackOK

(* A frame that waits at pc for the outputs p.                                *)
WaitsFor(f, pc, p) == [f EXCEPT !.pc = pc, !.pending = p, !.dangling = FALSE]

(* prepareLayout() has been called by the frame f on top of fs: what is gs now. *)
Prepared(gs, fs, f, pc, next) ==
    /\ Len(gs) = Len(fs) /\ CallsOf(gs) = CallsOf(fs)
    /\ \/ \E p \in SUBSET Outputs : frames' = Append(gs, WaitsFor(f, pc, p))
       \/ frames' = gs \o next
       \/ frames' = gs /\ pc = "prepare"

(* prepareLayout() changes no call, and ends in a wait or goes on.            *)
LEMMA PrepareStep ==
    ASSUME ValuesOK, NEW fs \in Seq(WaitingFrame), NEW f, NEW pc, NEW l \in Layout, NEW next,
           Prepare(fs, f, pc, l, next)
    PROVE  /\ outputs' \in [Outputs -> {"none", "starting", "ready", "rejected"}]
           /\ shown' \in Layout \cup {NoLayout}
           /\ \E gs \in Seq(WaitingFrame) : Prepared(gs, fs, f, pc, next)
<1>1. CASE backend = "embedded" /\ outputs' = Ensured(l) /\ shown' = Left(Doomed(l))
           /\ frames' = IF Missing(l) # {}
                        THEN Append(Freed(fs, Doomed(l)),
                                    [f EXCEPT !.pc = pc, !.pending = Missing(l),
                                              !.dangling = FALSE])
                        ELSE Freed(fs, Doomed(l)) \o next
  <2>1. outputs' \in [Outputs -> {"none", "starting", "ready", "rejected"}]
    BY <1>1 DEF ValuesOK, Ensured
  <2>2. Missing(l) \in SUBSET Outputs
    BY OutputAssumption DEF Missing
  <2>3. shown' \in Layout \cup {NoLayout}
    BY <1>1 DEF ValuesOK, Left
  <2> QED BY <1>1, <2>1, <2>2, <2>3, FreedKeeps DEF WaitsFor, Prepared
<1>2. CASE /\ frames' = IF pc = "prepare" /\ ~OneMonitor(l) THEN fs ELSE fs \o next
           /\ UNCHANGED <<outputs, shown>>
  BY <1>2 DEF ValuesOK, Prepared
<1> QED BY <1>1, <1>2 DEF Prepare

(* A step the controller does not see.                                        *)
LEMMA Unseen ==
    ASSUME UNCHANGED <<controllerVars, screen>>, ControllerCalls' = ControllerCalls
    PROVE  ControllerStep
BY DEF ControllerStep, ControllerVars, Controller!vars, controllerVars

-----------------------------------------------------------------------------
(* The steps                                                                 *)

Steps == ServiceInv' /\ ControllerStep

(* A frame that goes on into the backend is a call that has entered.          *)
LEMMA AskingEnters ==
    ASSUME NEW f \in GoodFrame, NEW l \in Layout,
           f.op = "transaction" => f.previous \in Layout
    PROVE  /\ Asking(f, l) \in GoodFrame
           /\ InController(Asking(f, l))
           /\ CallOf(Asking(f, l)) =
                 [op |-> IF f.op = "revert" THEN "revert" ELSE "apply", pc |-> "apply",
                  layout |-> l, confirm |-> f.op = "transaction", done |-> FALSE]
<1>1. /\ Asking(f, l) \in Frame
      /\ Asking(f, l).op = f.op /\ Asking(f, l).pc = "get" /\ Asking(f, l).layout = l
      /\ Asking(f, l).previous = f.previous /\ Asking(f, l).done = FALSE
  BY DEF Asking, GoodFrame, Frame
<1>2. f.op \in {"transaction", "revert", "start"}
  BY DEF GoodFrame, Frame
<1> HIDE DEF Asking
<1> QED BY <1>1, <1>2 DEF GoodFrame, InController, CallOf

(* A call of apply has entered the controller.                                *)
LEMMA ApplyEnters ==
    ASSUME ServiceInv, NEW fs \in Seq(WaitingFrame), Len(fs) < MaxDepth,
           ControllerCalls = CallsOf(fs),
           NEW gs \in Seq(WaitingFrame), Len(gs) = Len(fs), CallsOf(gs) = CallsOf(fs),
           NEW f \in GoodFrame, NEW l \in Layout, f.op \in {"transaction", "start"},
           f.op = "transaction" => f.previous \in Layout,
           frames' = Append(gs, Asking(f, l)),
           UNCHANGED <<controllerVars, screen>>
    PROVE  StackOK(frames') /\ Len(frames') <= MaxDepth /\ ControllerStep
<1> DEFINE c == CallOf(Asking(f, l))
<1>1. /\ Asking(f, l) \in GoodFrame /\ InController(Asking(f, l))
      /\ c = [op |-> "apply", pc |-> "apply", layout |-> l,
              confirm |-> f.op = "transaction", done |-> FALSE]
  BY AskingEnters
<1>2. StackOK(frames') /\ Len(frames') <= MaxDepth /\ Controller!Enter(c)
  BY <1>1, AfterPush
<1>3. (f.op = "transaction") \in BOOLEAN
  OBVIOUS
<1>4. Controller!ApplyCall(l, f.op = "transaction")
  BY <1>1, <1>2 DEF Controller!ApplyCall, controllerVars
<1>5. Controller!Next
  BY <1>3, <1>4 DEF Controller!Next
<1> QED BY <1>2, <1>5 DEF ControllerStep

(* BeginTransaction waits for outputs, asks KScreen, or is refused.           *)
LEMMA BeginTransactionSteps ==
    ASSUME ServiceInv, NEW l \in Layout, NEW temporary \in BOOLEAN, NEW client \in BOOLEAN,
           BeginTransaction(l, temporary, client)
    PROVE  Steps
<1> DEFINE f == [Start0 EXCEPT !.op = "transaction", !.layout = l, !.previous = m_layout,
                               !.temporary = temporary, !.client = client]
           wait(p) == WaitsFor(f, "prepare", p)
           ask == Asking(f, l)
<1>1. frames \in Seq(WaitingFrame) /\ Len(frames) < MaxDepth /\ ControllerCalls = CallsOf(frames)
  BY StackWaits DEF BeginTransaction, Dispatches, ServiceInv, ControllerCalls
<1>2. m_layout \in Layout
  BY DEF ServiceInv, ValuesOK
<1>3. f \in Frame /\ f.op = "transaction" /\ f.layout = l /\ f.previous = m_layout
      /\ f.pc = "secrets" /\ f.done = FALSE
  BY <1>2 DEF Frame, Start0
<1> DEFINE g == [f EXCEPT !.pc = "prepare"]
<1>4. g \in GoodFrame /\ g.op = "transaction" /\ g.previous \in Layout /\ ask = Asking(g, l)
  <2> HIDE DEF f
  <2> QED BY <1>2, <1>3 DEF GoodFrame, Frame, Asking
<1>5. ASSUME NEW p \in SUBSET Outputs
      PROVE  wait(p) \in GoodFrame /\ ~InController(wait(p))
  <2> HIDE DEF f
  <2> QED BY <1>2, <1>3 DEF GoodFrame, Frame, InController, WaitsFor
<1>6. UNCHANGED <<controllerVars, screen, saved, backend, server, listening, rdpLayout>>
  BY DEF BeginTransaction
<1>7. CASE listening
  <2> DEFINE on == <<ask>>
  <2>1. Prepare(frames, f, "prepare", l, on)
    BY <1>7 DEF BeginTransaction
  <2> HIDE DEF f, g, ask, on, wait
  <2>2. /\ outputs' \in [Outputs -> {"none", "starting", "ready", "rejected"}]
        /\ shown' \in Layout \cup {NoLayout}
    BY <1>1, <2>1, PrepareStep DEF ServiceInv
  <2>9. PICK gs \in Seq(WaitingFrame) : Prepared(gs, frames, f, "prepare", on)
    BY <1>1, <2>1, PrepareStep DEF ServiceInv
  <2>3. /\ Len(gs) = Len(frames) /\ CallsOf(gs) = CallsOf(frames)
        /\ \/ \E p \in SUBSET Outputs : frames' = Append(gs, wait(p))
           \/ frames' = gs \o on
           \/ frames' = gs
    BY <2>9 DEF Prepared, wait
  <2>4. ValuesOK'
    BY <1>6, <2>2 DEF ServiceInv, ValuesOK, controllerVars
  <2>5. CASE \E p \in SUBSET Outputs : frames' = Append(gs, wait(p))
    <3>1. PICK p \in SUBSET Outputs : frames' = Append(gs, wait(p))
      BY <2>5
    <3>2. wait(p) \in GoodFrame /\ ~InController(wait(p))
      BY <1>5
    <3> HIDE DEF wait
    <3>3. StackOK(frames') /\ Len(frames') <= MaxDepth /\ ControllerCalls' = CallsOf(gs)
      BY <1>1, <2>3, <3>1, <3>2, AfterPush
    <3> QED BY <1>1, <1>6, <2>3, <2>4, <3>3, Unseen DEF Steps, ServiceInv
  <2>6. CASE frames' = gs \o on
    <3>1. frames' = Append(gs, ask)
      BY <2>6, AppendIsConcat DEF on
    <3> QED BY <1>1, <1>4, <1>6, <2>3, <2>4, <3>1, ApplyEnters DEF Steps, ServiceInv
  <2>7. CASE frames' = gs
    <3>1. StackOK(frames') /\ Len(frames') <= MaxDepth /\ ControllerCalls' = CallsOf(gs)
      BY <1>1, <2>3, <2>7, AfterPop, ServiceAssumption
    <3> QED BY <1>1, <1>6, <2>3, <2>4, <3>1, Unseen DEF Steps, ServiceInv
  <2> QED BY <2>3, <2>5, <2>6, <2>7
<1>8. CASE ~listening
  <2>1. frames' = Append(frames, ask) /\ UNCHANGED <<outputs, shown>>
    BY <1>8 DEF BeginTransaction, Push
  <2> HIDE DEF f, g, ask
  <2>2. ValuesOK'
    BY <1>6, <2>1 DEF ServiceInv, ValuesOK, controllerVars
  <2> QED BY <1>1, <1>4, <1>6, <2>1, <2>2, ApplyEnters DEF Steps, ServiceInv
<1> QED BY <1>7, <1>8

(* Where the controller has no call on top, it does not see that a handler    *)
(* ends ...                                                                   *)
LEMMA Leaves ==
    ASSUME ServiceInv, NEW fs \in Seq(WaitingFrame), Len(fs) <= MaxDepth,
           ControllerCalls = CallsOf(fs),
           NEW gs \in Seq(WaitingFrame), Len(gs) = Len(fs), CallsOf(gs) = CallsOf(fs),
           frames' = gs, ValuesOK', UNCHANGED <<controllerVars, screen>>
    PROVE  Steps
BY AfterPop, Unseen DEF Steps, ServiceInv

(* ... or waits for something else.                                           *)
LEMMA Waits ==
    ASSUME ServiceInv, NEW fs \in Seq(WaitingFrame), Len(fs) < MaxDepth,
           ControllerCalls = CallsOf(fs),
           NEW gs \in Seq(WaitingFrame), Len(gs) = Len(fs), CallsOf(gs) = CallsOf(fs),
           NEW f \in GoodFrame, ~InController(f),
           frames' = Append(gs, f), ValuesOK', UNCHANGED <<controllerVars, screen>>
    PROVE  Steps
BY AfterPush, Unseen DEF Steps, ServiceInv

(* The stack when the event loop dispatches a request.                        *)
LEMMA RequestView ==
    ASSUME ServiceInv, Dispatches
    PROVE  /\ frames \in Seq(WaitingFrame) /\ Len(frames) <= MaxDepth
           /\ ControllerCalls = CallsOf(frames)
BY StackWaits DEF Dispatches, ServiceInv, ControllerCalls

(* Nothing that a value of the service can be changes with the frames.        *)
LEMMA ValuesStay ==
    ASSUME ValuesOK, UNCHANGED <<controllerVars, screen, saved, serverVars>>
    PROVE  ValuesOK'
BY DEF ValuesOK, controllerVars, serverVars

(* The frames stay.                                                           *)
LEMMA FramesStay ==
    ASSUME ServiceInv, frames' = frames, ValuesOK', UNCHANGED <<controllerVars, screen>>
    PROVE  Steps
<1>1. ControllerCalls' = ControllerCalls
  BY DEF ControllerCalls, CallsOf, Inside
<1> QED BY <1>1, Unseen DEF Steps, ServiceInv, StackOK

LEMMA OutputAnswersSteps ==
    ASSUME ServiceInv, NEW o \in Outputs, NEW answer \in Answers, OutputAnswers(o, answer)
    PROVE  Steps
<1>1. ValuesOK'
  BY ServiceAssumption DEF ServiceInv, ValuesOK, OutputAnswers, controllerVars
<1> QED BY <1>1, FramesStay DEF OutputAnswers

LEMMA ChildExitsSteps == ServiceInv /\ ChildExits => Steps
<1> SUFFICES ASSUME ServiceInv, ChildExits
             PROVE  Steps
  OBVIOUS
<1>1. ValuesOK'
  BY DEF ServiceInv, ValuesOK, ChildExits, controllerVars
<1> QED BY <1>1, FramesStay DEF ChildExits

(* The frame of a new Start().                                                *)
LEMMA NewStart == Start0 \in GoodFrame /\ ~InController(Start0)
BY DEF Start0, GoodFrame, Frame, InController

LEMMA StartSteps == ServiceInv /\ Start => Steps
<1> SUFFICES ASSUME ServiceInv, Start
             PROVE  Steps
  OBVIOUS
<1>1. /\ Dispatches /\ Len(frames) < MaxDepth /\ frames' = Append(frames, Start0)
      /\ UNCHANGED <<controllerVars, screen, saved, serverVars>>
  BY DEF Start, Push
<1>2. ValuesOK'
  BY <1>1, ValuesStay DEF ServiceInv
<1> QED BY <1>1, <1>2, NewStart, RequestView, Waits

(* A handler in no call of the controller returns.                            *)
LEMMA PopOther ==
    ASSUME ServiceInv, frames # << >>, ~InController(Top), Pop,
           UNCHANGED <<controllerVars, screen, saved, serverVars>>
    PROVE  Steps
<1>1. Below \in Seq(WaitingFrame) /\ Len(Below) <= MaxDepth /\ ControllerCalls = CallsOf(Below)
  BY TopView, ServiceAssumption
<1>2. ValuesOK'
  BY ValuesStay DEF ServiceInv
<1> QED BY <1>1, <1>2, Leaves DEF Pop

(* Outside of the backend, frames of transactions and starts are no calls.    *)
LEMMA OtherTop ==
    ASSUME ServiceInv, frames # << >>,
           Top.pc \in {"prepare", "restore", "applied", "secrets", "outputs"}
    PROVE  ~InController(Top)
<1>1. Top \in GoodFrame
  BY TopView
<1> QED BY <1>1 DEF GoodFrame, InController

LEMMA PrepareFailsSteps == ServiceInv /\ PrepareFails => Steps
BY PopOther, OtherTop DEF PrepareFails, At

LEMMA RestoreEndsSteps == ServiceInv /\ RestoreEnds => Steps
BY PopOther, OtherTop DEF RestoreEnds, At

LEMMA SecretsFailSteps == ServiceInv /\ SecretsFail => Steps
BY PopOther, OtherTop DEF SecretsFail, At

(* stop() destroys every output.                                              *)
LEMMA StopValues ==
    ASSUME ServiceInv, StopServer, UNCHANGED <<controllerVars, screen, saved>>
    PROVE  ValuesOK'
BY DEF ServiceInv, ValuesOK, StopServer, controllerVars

LEMMA StopSteps == ServiceInv /\ Stop => Steps
<1> SUFFICES ASSUME ServiceInv, Stop
             PROVE  Steps
  OBVIOUS
<1>1. Dispatches /\ frames' = Freed(frames, Outputs) /\ UNCHANGED <<controllerVars, screen>>
  BY DEF Stop
<1>2. ValuesOK'
  BY StopValues DEF Stop
<1> QED BY <1>1, <1>2, RequestView, FreedKeeps, Leaves

LEMMA ConfigureServerSteps == ServiceInv /\ ConfigureServer => Steps
<1> SUFFICES ASSUME ServiceInv, ConfigureServer
             PROVE  Steps
  OBVIOUS
<1>1. /\ Dispatches /\ Len(frames) < MaxDepth
      /\ frames' = Append(Freed(frames, Outputs), Start0)
      /\ UNCHANGED <<controllerVars, screen>>
  BY DEF ConfigureServer
<1>2. ValuesOK'
  BY StopValues DEF ConfigureServer
<1> QED BY <1>1, <1>2, NewStart, RequestView, FreedKeeps, Waits

(* What the frame on top says of where it is.                                 *)
LEMMA TopWhere ==
    ASSUME ServiceInv, frames # << >>
    PROVE  /\ Top.pc \in {"prepare", "restore", "applied"} => Top.op = "transaction"
           /\ Top.pc \in {"secrets", "outputs"} => Top.op = "start"
           /\ Top.pc \in {"reverting", "reprepare"} => Top.op = "revert"
           /\ Top.pc # "secrets" => Top.layout \in Layout
           /\ Top.op = "transaction" /\ Top.pc \in {"prepare", "get", "set"} => Top.previous \in Layout
           /\ Top.done => Top.pc = "set"
           /\ Top.done \in BOOLEAN
<1>1. Top \in GoodFrame
  BY TopView
<1> QED BY <1>1 DEF GoodFrame, Frame

LEMMA PrepareSucceedsSteps == ServiceInv /\ PrepareSucceeds => Steps
<1> SUFFICES ASSUME ServiceInv, PrepareSucceeds
             PROVE  Steps
  OBVIOUS
<1>1. /\ frames # << >> /\ Top.pc = "prepare"
      /\ frames' = Append(Below, Asking(Top, Top.layout))
      /\ UNCHANGED <<controllerVars, screen, saved, serverVars>>
  BY DEF PrepareSucceeds, At, Replace
<1>2. ~InController(Top) /\ Top.op = "transaction" /\ Top.layout \in Layout /\ Top.previous \in Layout
  BY <1>1, OtherTop, TopWhere
<1>3. /\ Below \in Seq(WaitingFrame) /\ Len(Below) < MaxDepth /\ Top \in GoodFrame
      /\ ControllerCalls = CallsOf(Below)
  BY <1>1, <1>2, TopView
<1>4. ValuesOK'
  BY <1>1, ValuesStay DEF ServiceInv
<1> QED BY <1>1, <1>2, <1>3, <1>4, ApplyEnters DEF Steps, ServiceInv

(* Start() applies the layout of this moment.                                 *)
LEMMA StartAsks ==
    ASSUME ServiceInv, frames # << >>, Top.pc \in {"secrets", "outputs"},
           Replace(Asking(Top, m_layout)), ValuesOK', UNCHANGED <<controllerVars, screen>>
    PROVE  Steps
<1>1. ~InController(Top) /\ Top.op = "start" /\ m_layout \in Layout
  BY OtherTop, TopWhere DEF ServiceInv, ValuesOK
<1>2. /\ Below \in Seq(WaitingFrame) /\ Len(Below) < MaxDepth /\ Top \in GoodFrame
      /\ ControllerCalls = CallsOf(Below)
  BY <1>1, TopView
<1> QED BY <1>1, <1>2, ApplyEnters DEF Steps, ServiceInv, Replace

LEMMA LaunchedSteps == ServiceInv /\ Launched => Steps
<1> SUFFICES ASSUME ServiceInv, Launched
             PROVE  Steps
  OBVIOUS
<1>1. ValuesOK'
  BY DEF ServiceInv, ValuesOK, Launched, controllerVars
<1> QED BY <1>1, StartAsks DEF Launched, At

LEMMA ListensSteps == ServiceInv /\ Listens => Steps
<1> SUFFICES ASSUME ServiceInv, Listens
             PROVE  Steps
  OBVIOUS
<1>1. ValuesOK'
  BY DEF ServiceInv, ValuesOK, Listens, controllerVars
<1> QED BY <1>1, StartAsks DEF Listens, At

LEMMA SecretsReadSteps == ServiceInv /\ SecretsRead => Steps
<1> SUFFICES ASSUME ServiceInv, SecretsRead
             PROVE  Steps
  OBVIOUS
<1> DEFINE f == [Top EXCEPT !.pc = "outputs", !.layout = m_layout, !.pending = Needs(m_layout)]
<1>1. /\ frames # << >> /\ Top.pc = "secrets" /\ UNCHANGED <<controllerVars, screen>>
      /\ frames' = Append(Freed(Below, Outputs), f)
  BY DEF SecretsRead, At
<1>2. ~InController(Top) /\ Top.op = "start" /\ Top.done \in BOOLEAN /\ ~Top.done
  BY <1>1, OtherTop, TopWhere
<1>3. /\ Below \in Seq(WaitingFrame) /\ Len(Below) < MaxDepth /\ Top \in GoodFrame
      /\ ControllerCalls = CallsOf(Below)
  BY <1>1, <1>2, TopView
<1>4. m_layout \in Layout /\ Needs(m_layout) \in SUBSET Outputs
  BY OutputAssumption DEF ServiceInv, ValuesOK
<1>5. f \in GoodFrame /\ ~InController(f)
  <2>1. f \in Frame /\ f.op = "start" /\ f.pc = "outputs" /\ f.layout = m_layout /\ ~f.done
    BY <1>2, <1>3, <1>4 DEF GoodFrame, Frame
  <2> HIDE DEF f
  <2> QED BY <1>4, <2>1 DEF GoodFrame, InController
<1>6. ValuesOK'
  BY DEF ServiceInv, ValuesOK, SecretsRead, controllerVars
<1> HIDE DEF f
<1> QED BY <1>1, <1>3, <1>5, <1>6, FreedKeeps, Waits

(* Keep is what the controller's Confirm is.                                  *)
LEMMA KeepConfirms ==
    ASSUME ServiceInv, Keep, ControllerCalls' = ControllerCalls, UNCHANGED screen
    PROVE  ControllerStep
BY DEF Keep, Controller!Confirm, Controller!Next, ControllerStep

LEMMA ConfirmLayoutSteps == ServiceInv /\ ConfirmLayout => Steps
<1> SUFFICES ASSUME ServiceInv, ConfirmLayout
             PROVE  Steps
  OBVIOUS
<1>1. Keep /\ UNCHANGED <<screen, serverVars, frames>>
  BY DEF ConfirmLayout
<1>2. ValuesOK'
  BY <1>1 DEF ServiceInv, ValuesOK, Keep, serverVars
<1>3. ControllerCalls' = ControllerCalls
  BY <1>1 DEF ControllerCalls, CallsOf, Inside
<1> QED BY <1>1, <1>2, <1>3, KeepConfirms DEF Steps, ServiceInv, StackOK

LEMMA TransactionSucceedsSteps == ServiceInv /\ TransactionSucceeds => Steps
<1> SUFFICES ASSUME ServiceInv, TransactionSucceeds
             PROVE  Steps
  OBVIOUS
<1>1. /\ frames # << >> /\ Top.pc = "applied" /\ frames' = Below
      /\ UpdateLayout(Top.layout)
      /\ (UNCHANGED <<controllerVars, saved>>) \/ Keep
      /\ UNCHANGED <<screen, backend, server, outputs, shown>>
  BY DEF TransactionSucceeds, At, Pop
<1>2. ~InController(Top) /\ Top.layout \in Layout
  BY <1>1, OtherTop, TopWhere
<1>3. Below \in Seq(WaitingFrame) /\ Len(Below) <= MaxDepth /\ ControllerCalls = CallsOf(Below)
  BY <1>1, <1>2, TopView, ServiceAssumption
<1>4. ValuesOK'
  BY <1>1, <1>2 DEF ServiceInv, ValuesOK, UpdateLayout, Keep, controllerVars
<1>5. CASE UNCHANGED <<controllerVars, saved>>
  BY <1>1, <1>3, <1>4, <1>5, Leaves
<1>6. CASE Keep
  <2>1. StackOK(frames') /\ Len(frames') <= MaxDepth /\ ControllerCalls' = ControllerCalls
    BY <1>1, <1>3, AfterPop
  <2> QED BY <1>1, <1>4, <1>6, <2>1, KeepConfirms DEF Steps, ServiceInv
<1> QED BY <1>1, <1>5, <1>6

LEMMA CrashSteps == ServiceInv /\ Crash => Steps
<1> SUFFICES ASSUME ServiceInv, Crash
             PROVE  Steps
  OBVIOUS
<1>1. frames' = << >> /\ << >> \in Seq(WaitingFrame) /\ Len(<< >>) <= MaxDepth
  BY EmptySeq, ServiceAssumption DEF Crash
<1>2. StackOK(frames') /\ Len(frames') <= MaxDepth /\ ControllerCalls' = CallsOf(<< >>)
  BY <1>1, AfterPop
<1>3. CallsOf(<< >>) = << >>
  <2>1. CallsOf(<< >>) \in Seq(Controller!Call) /\ Len(CallsOf(<< >>)) \in 0 .. 0
    BY EmptySeq, CallsTyped
  <2> QED BY <2>1, EmptySeq
<1>4. saved \in Layout
  BY DEF ServiceInv, ValuesOK
<1>5. ValuesOK'
  BY <1>4 DEF ServiceInv, ValuesOK, Crash
<1>6. Controller!Restart(saved)
  BY <1>2, <1>3 DEF Crash, Controller!Restart
<1>7. Controller!Next
  BY <1>4, <1>6 DEF Controller!Next
<1> QED BY <1>2, <1>5, <1>7 DEF Steps, ServiceInv, ControllerStep

LEMMA StartCrashesSteps == ServiceInv /\ StartCrashes => Steps
BY CrashSteps DEF StartCrashes

-----------------------------------------------------------------------------
(* The steps of handlers that are in the controller                          *)

(* The innermost call of a stack changes to d.                                *)
LEMMA LastCallChanges ==
    ASSUME NEW C, NEW cs \in Seq(C), NEW c \in C, NEW d
    PROVE  [Append(cs, c) EXCEPT ![Len(Append(cs, c))] = d] = Append(cs, d)
<1> DEFINE n == Len(cs)
           D == C \cup {d}
<1>1. n \in Nat /\ cs \in Seq(D) /\ c \in D /\ d \in D
  BY LenProperties, SeqMonotonic
<1> HIDE DEF D
<1>2. /\ Append(cs, c) \in Seq(D) /\ Len(Append(cs, c)) = n + 1
      /\ Append(cs, d) \in Seq(D) /\ Len(Append(cs, d)) = n + 1
      /\ Append(cs, c)[n + 1] = c /\ Append(cs, d)[n + 1] = d
      /\ \A k \in 1 .. n : Append(cs, c)[k] = cs[k] /\ Append(cs, d)[k] = cs[k]
  BY <1>1, AppendProperties
<1> DEFINE as == Append(cs, c)
           es == [as EXCEPT ![n + 1] = d]
<1>3. as \in Seq(D) /\ Len(as) = n + 1 /\ n + 1 \in 1 .. Len(as)
  BY <1>1, <1>2
<1>4. /\ es \in Seq(D) /\ Len(es) = n + 1
      /\ \A k \in 1 .. (n + 1) : es[k] = IF k = n + 1 THEN d ELSE as[k]
  <2>1. ASSUME NEW ss \in Seq(D), NEW m \in 1 .. Len(ss)
        PROVE  /\ [ss EXCEPT ![m] = d] \in Seq(D) /\ Len([ss EXCEPT ![m] = d]) = Len(ss)
               /\ \A k \in 1 .. Len(ss) : [ss EXCEPT ![m] = d][k] = IF k = m THEN d ELSE ss[k]
    BY <1>1, <2>1, ExceptSeq
  <2> HIDE DEF as
  <2>2. /\ es \in Seq(D) /\ Len(es) = Len(as)
        /\ \A k \in 1 .. Len(as) : es[k] = IF k = n + 1 THEN d ELSE as[k]
    BY <1>3, <2>1
  <2> QED BY <1>3, <2>2
<1> HIDE DEF es
<1>5. \A k \in 1 .. (n + 1) : es[k] = Append(cs, d)[k]
  <2> SUFFICES ASSUME NEW k \in 1 .. (n + 1) PROVE es[k] = Append(cs, d)[k]
    OBVIOUS
  <2>1. k \in 1 .. n \/ k = n + 1
    BY <1>1
  <2> QED BY <1>2, <1>4, <2>1
<1>6. es = Append(cs, d)
  BY <1>2, <1>4, <1>5, SeqEqual
<1> QED BY <1>2, <1>6 DEF es

(* A call goes on without the controller seeing it.                           *)
LEMMA SameCall ==
    ASSUME ServiceInv, frames # << >>, InController(Top),
           NEW gs \in Seq(WaitingFrame), Len(gs) = Len(Below), CallsOf(gs) = CallsOf(Below),
           NEW f \in GoodFrame, InController(f), CallOf(f) = CallOf(Top),
           frames' = Append(gs, f), ValuesOK', UNCHANGED <<controllerVars, screen>>
    PROVE  Steps
<1>1. Len(Below) < MaxDepth /\ ControllerCalls = Append(CallsOf(Below), CallOf(Top))
  BY TopView
<1>2. /\ StackOK(frames') /\ Len(frames') <= MaxDepth
      /\ ControllerCalls' = Append(CallsOf(gs), CallOf(f))
  BY <1>1, AfterPush
<1> QED BY <1>1, <1>2, Unseen DEF Steps, ServiceInv

LEMMA GetConfigSteps == ServiceInv /\ GetConfig => Steps
<1> SUFFICES ASSUME ServiceInv, GetConfig
             PROVE  Steps
  OBVIOUS
<1> DEFINE f == [Top EXCEPT !.pc = "set"]
<1>1. /\ frames # << >> /\ Top.pc = "get" /\ frames' = Append(Below, f)
      /\ UNCHANGED <<controllerVars, screen, saved, serverVars>>
  BY DEF GetConfig, At, Replace
<1>2. Below \in Seq(WaitingFrame) /\ Top \in GoodFrame
  BY <1>1, TopView
<1>3. f \in GoodFrame /\ InController(f) /\ InController(Top) /\ CallOf(f) = CallOf(Top)
  <2>1. /\ f \in Frame /\ f.op = Top.op /\ f.pc = "set" /\ f.layout = Top.layout
        /\ f.previous = Top.previous /\ f.done = Top.done
    BY <1>2 DEF GoodFrame, Frame
  <2> HIDE DEF f
  <2> QED BY <1>1, <1>2, <2>1 DEF GoodFrame, InController, CallOf
<1>4. ValuesOK'
  BY <1>1, ValuesStay DEF ServiceInv
<1> HIDE DEF f
<1> QED BY <1>1, <1>2, <1>3, <1>4, SameCall

(* revert() goes on into the backend.                                         *)
LEMMA RevertAsks ==
    ASSUME ServiceInv, frames # << >>, Top.pc \in {"reverting", "reprepare"},
           NEW gs \in Seq(WaitingFrame), Len(gs) = Len(Below), CallsOf(gs) = CallsOf(Below),
           frames' = Append(gs, Asking(Top, m_previousLayout)),
           ValuesOK', UNCHANGED <<controllerVars, screen>>
    PROVE  Steps
<1> DEFINE a == Asking(Top, m_previousLayout)
           cs == CallsOf(Below)
           c == CallOf(Top)
           d == [[c EXCEPT !.pc = "apply"] EXCEPT !.layout = m_previousLayout]
<1>1. Top.op = "revert" /\ m_previousLayout \in Layout /\ Top \in GoodFrame /\ ~Top.done
      /\ Top.done \in BOOLEAN
  BY TopWhere, TopView DEF ServiceInv, ValuesOK
<1>2. /\ a \in GoodFrame /\ InController(a)
      /\ CallOf(a) = [op |-> "revert", pc |-> "apply", layout |-> m_previousLayout,
                      confirm |-> FALSE, done |-> FALSE]
  BY <1>1, AskingEnters
<1>3. InController(Top)
  BY <1>1 DEF InController
<1>4. /\ Len(Below) < MaxDepth /\ cs \in Seq(Controller!Call)
      /\ ControllerCalls = Append(cs, c) /\ ControllerCalls # << >>
      /\ Controller!Top = c
  BY <1>3, TopView
<1>5. c \in Controller!Call /\ c.pc = "notify"
  BY <1>1, <1>3, CallTyped DEF CallOf
<1>6. CallOf(a) = d
  <2>1. c.op = "revert" /\ c.confirm = FALSE /\ c.done = FALSE
    BY <1>1 DEF CallOf
  <2>2. CallOf(a) \in Controller!Call
    BY <1>2, CallTyped
  <2> DEFINE e == CallOf(a)
  <2>3. e.op = "revert" /\ e.pc = "apply" /\ e.layout = m_previousLayout /\ e.confirm = FALSE
        /\ e.done = FALSE
    BY <1>2
  <2> HIDE DEF a, c, e
  <2> QED BY <1>5, <2>1, <2>2, <2>3 DEF Controller!Call, e
<1>7. /\ StackOK(frames') /\ Len(frames') <= MaxDepth
      /\ ControllerCalls' = Append(cs, d)
  BY <1>2, <1>4, <1>6, AfterPush
<1>8. Controller!RevertNotified
  <2> HIDE DEF cs, c
  <2>1. [Append(cs, c) EXCEPT ![Len(Append(cs, c))] = d] = Append(cs, d)
    <3> HIDE DEF d
    <3> QED BY <1>4, <1>5, LastCallChanges
  <2>2. Append(cs, c) \in Seq(Controller!Call) /\ Len(Append(cs, c)) \in DOMAIN Append(cs, c)
        /\ Append(cs, c)[Len(Append(cs, c))] = c
    <3>1. /\ Append(cs, c) \in Seq(Controller!Call) /\ Len(Append(cs, c)) = Len(cs) + 1
          /\ Append(cs, c)[Len(cs) + 1] = c
      BY <1>4, <1>5, AppendProperties
    <3>2. Len(cs) \in Nat /\ DOMAIN Append(cs, c) = 1 .. Len(Append(cs, c))
      BY <1>4, <3>1, LenProperties
    <3> QED BY <3>1, <3>2
  <2>3. [[Append(cs, c) EXCEPT ![Len(Append(cs, c))].pc = "apply"] EXCEPT
            ![Len(Append(cs, c))].layout = m_previousLayout]
        = [Append(cs, c) EXCEPT ![Len(Append(cs, c))] = d]
    <3> DEFINE as == Append(cs, c)
               n == Len(as)
    <3>1. n \in DOMAIN as /\ as[n] = c
      BY <2>2
    <3> HIDE DEF as, n
    <3>2. [[as EXCEPT ![n].pc = "apply"] EXCEPT ![n].layout = m_previousLayout]
          = [as EXCEPT ![n] = d]
      BY <3>1
    <3> QED BY <3>2 DEF as, n
  <2> QED BY <1>4, <1>5, <1>7, <2>1, <2>3 DEF Controller!RevertNotified, controllerVars
<1>9. Controller!Next
  BY <1>8 DEF Controller!Next
<1> QED BY <1>7, <1>9 DEF Steps, ServiceInv, ControllerStep

LEMMA ReprepareEndsSteps == ServiceInv /\ ReprepareEnds => Steps
<1> SUFFICES ASSUME ServiceInv, ReprepareEnds
             PROVE  Steps
  OBVIOUS
<1>1. /\ frames # << >> /\ Top.pc = "reprepare"
      /\ frames' = Append(Below, Asking(Top, m_previousLayout))
      /\ UNCHANGED <<controllerVars, screen, saved, serverVars>>
  BY DEF ReprepareEnds, At, Replace
<1>2. Below \in Seq(WaitingFrame)
  BY <1>1, TopView
<1>3. ValuesOK'
  BY <1>1, ValuesStay DEF ServiceInv
<1> QED BY <1>1, <1>2, <1>3, RevertAsks

LEMMA RevertingSteps == ServiceInv /\ Reverting => Steps
<1> SUFFICES ASSUME ServiceInv, Reverting
             PROVE  Steps
  OBVIOUS
<1> DEFINE on == <<Asking(Top, m_previousLayout)>>
<1>1. /\ frames # << >> /\ Top.pc = "reverting"
      /\ UNCHANGED <<controllerVars, screen, saved, backend, server, listening, rdpLayout>>
      /\ \/ Prepare(Below, Top, "reprepare", Top.layout, on)
         \/ frames' = Below \o on /\ UNCHANGED <<outputs, shown>>
  BY DEF Reverting, At
<1>2. /\ Below \in Seq(WaitingFrame) /\ Top \in GoodFrame
      /\ Top.op = "revert" /\ Top.layout \in Layout /\ InController(Top)
  BY <1>1, TopView, TopWhere DEF InController
<1> HIDE DEF on
<1>3. ASSUME NEW gs \in Seq(WaitingFrame), Len(gs) = Len(Below), CallsOf(gs) = CallsOf(Below),
             frames' = gs \o on, ValuesOK'
      PROVE  Steps
  <2>1. frames' = Append(gs, Asking(Top, m_previousLayout))
    BY <1>3, AppendIsConcat DEF on
  <2> QED BY <1>1, <1>3, <2>1, RevertAsks
<1>4. CASE Prepare(Below, Top, "reprepare", Top.layout, on)
  <2>1. /\ outputs' \in [Outputs -> {"none", "starting", "ready", "rejected"}]
        /\ shown' \in Layout \cup {NoLayout}
        /\ \E gs \in Seq(WaitingFrame) : Prepared(gs, Below, Top, "reprepare", on)
    BY <1>2, <1>4, PrepareStep DEF ServiceInv
  <2>2. ValuesOK'
    BY <1>1, <2>1 DEF ServiceInv, ValuesOK, controllerVars
  <2>3. PICK gs \in Seq(WaitingFrame) : Prepared(gs, Below, Top, "reprepare", on)
    BY <2>1
  <2>4. Len(gs) = Len(Below) /\ CallsOf(gs) = CallsOf(Below)
    BY <2>3 DEF Prepared
  <2>5. CASE \E p \in SUBSET Outputs : frames' = Append(gs, WaitsFor(Top, "reprepare", p))
    <3>1. PICK p \in SUBSET Outputs : frames' = Append(gs, WaitsFor(Top, "reprepare", p))
      BY <2>5
    <3> DEFINE f == WaitsFor(Top, "reprepare", p)
    <3>2. f \in GoodFrame /\ InController(f) /\ CallOf(f) = CallOf(Top)
      <4>1. /\ f \in Frame /\ f.op = Top.op /\ f.pc = "reprepare" /\ f.layout = Top.layout
            /\ f.done = Top.done
        BY <1>2 DEF GoodFrame, Frame, WaitsFor
      <4>2. ~Top.done
        BY <1>1, TopWhere
      <4> HIDE DEF f
      <4> QED BY <1>1, <1>2, <4>1, <4>2 DEF GoodFrame, InController, CallOf
    <3> HIDE DEF f
    <3> QED BY <1>1, <1>2, <2>2, <2>4, <3>1, <3>2, SameCall DEF f
  <2>6. CASE frames' = gs \o on
    BY <1>3, <2>2, <2>4, <2>6
  <2> QED BY <2>3, <2>5, <2>6 DEF Prepared
<1>5. CASE frames' = Below \o on /\ UNCHANGED <<outputs, shown>>
  <2>1. ValuesOK'
    BY <1>1, <1>5 DEF ServiceInv, ValuesOK, controllerVars
  <2> QED BY <1>2, <1>3, <1>5, <2>1
<1> QED BY <1>1, <1>4, <1>5

(* The controller's innermost call returns ...                                *)
LEMMA CallEnds ==
    ASSUME ServiceInv, frames # << >>, InController(Top)
    PROVE  /\ Below \in Seq(WaitingFrame) /\ Len(Below) < MaxDepth /\ Top \in GoodFrame
           /\ ControllerCalls # << >> /\ Controller!Top = CallOf(Top)
           /\ ControllerCalls' = CallsOf(Below) => Controller!Return
           /\ Top.pc \in {"get", "set"} => Controller!Resume
<1>1. /\ Below \in Seq(WaitingFrame) /\ Len(Below) < MaxDepth /\ Top \in GoodFrame
      /\ ControllerCalls # << >> /\ Controller!Top = CallOf(Top)
      /\ ControllerCalls' = CallsOf(Below) => Controller!Return
  BY TopView
<1> QED BY <1>1 DEF Controller!Resume, CallOf

(* ... and the handler as well.                                               *)
LEMMA PopCall ==
    ASSUME ServiceInv, frames # << >>, InController(Top), Pop
    PROVE  StackOK(frames') /\ Len(frames') <= MaxDepth /\ ControllerCalls' = CallsOf(Below)
BY CallEnds, AfterPop, ServiceAssumption DEF Pop

LEMMA RevertFailsSteps == ServiceInv /\ RevertFails => Steps
<1> SUFFICES ASSUME ServiceInv, RevertFails
             PROVE  Steps
  OBVIOUS
<1>1. /\ frames # << >> /\ Top.pc \in {"get", "set"} /\ ~Top.done /\ Top.op = "revert" /\ Pop
      /\ UNCHANGED <<controllerVars, screen, saved, serverVars>>
  BY DEF RevertFails, Refused, At
<1>2. InController(Top)
  BY <1>1 DEF InController
<1>3. StackOK(frames') /\ Len(frames') <= MaxDepth /\ Controller!Return /\ Controller!Resume
      /\ Controller!Top = CallOf(Top)
  BY <1>1, <1>2, CallEnds, PopCall
<1>4. ValuesOK'
  BY <1>1, ValuesStay DEF ServiceInv
<1>5. Controller!RevertFails
  BY <1>1, <1>3 DEF Controller!RevertFails, CallOf, controllerVars
<1> QED BY <1>3, <1>4, <1>5 DEF Steps, ServiceInv, ControllerStep, Controller!Next

LEMMA RevertSucceedsSteps == ServiceInv /\ RevertSucceeds => Steps
<1> SUFFICES ASSUME ServiceInv, RevertSucceeds
             PROVE  Steps
  OBVIOUS
<1>1. /\ frames # << >> /\ Top.pc = "set" /\ Top.done /\ Top.op = "revert" /\ Pop
      /\ m_layout' = m_previousLayout
      /\ trial' = IF trial = "single" THEN "none" ELSE trial
      /\ UNCHANGED <<m_previousLayout, m_revertTimer, lastKept, screen>>
  BY DEF RevertSucceeds, Accepted, At
<1>2. InController(Top)
  BY <1>1 DEF InController
<1>3. StackOK(frames') /\ Len(frames') <= MaxDepth /\ Controller!Return /\ Controller!Resume
      /\ Controller!Top = CallOf(Top)
  BY <1>1, <1>2, CallEnds, PopCall
<1>4. ValuesOK'
  BY <1>1 DEF ServiceInv, ValuesOK, RevertSucceeds, UpdateLayout, RelaunchFails
<1>5. Controller!RevertSucceeds
  BY <1>1, <1>3 DEF Controller!RevertSucceeds, CallOf
<1> QED BY <1>3, <1>4, <1>5 DEF Steps, ServiceInv, ControllerStep, Controller!Next

LEMMA StartSucceedsSteps == ServiceInv /\ StartSucceeds => Steps
<1> SUFFICES ASSUME ServiceInv, StartSucceeds
             PROVE  Steps
  OBVIOUS
<1>1. /\ frames # << >> /\ Top.pc = "set" /\ Top.done /\ Top.op = "start" /\ Pop
  BY DEF StartSucceeds, Accepted, At
<1>2. InController(Top) /\ Top.layout \in Layout
  BY <1>1, TopWhere DEF InController
<1>3. StackOK(frames') /\ Len(frames') <= MaxDepth /\ Controller!Return /\ Controller!Resume
      /\ Controller!Top = CallOf(Top)
  BY <1>1, <1>2, CallEnds, PopCall
<1>4. ValuesOK'
  BY <1>2 DEF ServiceInv, ValuesOK, StartSucceeds, serverVars
<1>5. Controller!Top.op = "apply" /\ Controller!Top.done /\ Controller!Top.confirm = FALSE
      /\ Controller!Top.layout = Top.layout
  BY <1>1, <1>3 DEF CallOf
<1>6. Controller!ApplySucceeds
  BY <1>3, <1>5 DEF StartSucceeds, Controller!ApplySucceeds
<1> QED BY <1>3, <1>4, <1>6 DEF Steps, ServiceInv, ControllerStep, Controller!Next

LEMMA TransactionAppliedSteps == ServiceInv /\ TransactionApplied => Steps
<1> SUFFICES ASSUME ServiceInv, TransactionApplied
             PROVE  Steps
  OBVIOUS
<1> DEFINE f == [Top EXCEPT !.pc = "applied", !.previous = NoLayout, !.done = FALSE]
<1>1. /\ frames # << >> /\ Top.pc = "set" /\ Top.done /\ Top.op = "transaction"
      /\ frames' = Append(Below, f)
  BY DEF TransactionApplied, Accepted, At, Replace
<1>2. InController(Top) /\ Top.layout \in Layout
  BY <1>1, TopWhere DEF InController
<1>3. Below \in Seq(WaitingFrame) /\ Len(Below) < MaxDepth /\ Top \in GoodFrame
      /\ Controller!Top = CallOf(Top) /\ Controller!Resume
  BY <1>1, <1>2, CallEnds
<1>4. f \in GoodFrame /\ ~InController(f)
  <2>1. f \in Frame /\ f.op = "transaction" /\ f.pc = "applied" /\ f.layout = Top.layout /\ ~f.done
    BY <1>1, <1>3 DEF GoodFrame, Frame
  <2> HIDE DEF f
  <2> QED BY <1>2, <2>1 DEF GoodFrame, InController
<1> HIDE DEF f
<1>5. StackOK(frames') /\ Len(frames') <= MaxDepth /\ ControllerCalls' = CallsOf(Below)
  BY <1>1, <1>3, <1>4, AfterPush
<1>6. Controller!Return
  BY <1>1, <1>2, <1>5, CallEnds
<1>7. ValuesOK'
  BY <1>2 DEF ServiceInv, ValuesOK, TransactionApplied, serverVars
<1>8. Controller!Top.op = "apply" /\ Controller!Top.done /\ Controller!Top.confirm = TRUE
      /\ Controller!Top.layout = Top.layout
  BY <1>1, <1>3 DEF CallOf
<1>9. Controller!ApplySucceeds
  BY <1>3, <1>6, <1>8 DEF TransactionApplied, Controller!ApplySucceeds
<1> QED BY <1>5, <1>7, <1>9 DEF Steps, ServiceInv, ControllerStep, Controller!Next

(* apply() fails: nothing but the call has changed.                           *)
LEMMA ApplyRefused ==
    ASSUME ServiceInv, frames # << >>, Top.pc \in {"get", "set"}, ~Top.done,
           Top.op \in {"transaction", "start"}, ControllerCalls' = CallsOf(Below),
           UNCHANGED <<controllerVars, screen>>
    PROVE  ControllerStep
<1>1. InController(Top)
  BY DEF InController
<1>2. Controller!Return /\ Controller!Resume /\ Controller!Top = CallOf(Top)
  BY <1>1, CallEnds
<1>3. Controller!ApplyFails
  BY <1>2 DEF Controller!ApplyFails, CallOf, controllerVars
<1> QED BY <1>3 DEF ControllerStep, Controller!Next

LEMMA TransactionRefusedSteps == ServiceInv /\ TransactionRefused => Steps
<1> SUFFICES ASSUME ServiceInv, TransactionRefused
             PROVE  Steps
  OBVIOUS
<1> DEFINE f == [Start0 EXCEPT !.op = "transaction", !.layout = Top.previous]
<1>1. /\ frames # << >> /\ Top.pc \in {"get", "set"} /\ ~Top.done /\ Top.op = "transaction"
      /\ UNCHANGED <<controllerVars, screen, saved, backend, server, listening, rdpLayout>>
      /\ \/ Prepare(Below, f, "restore", Top.previous, << >>)
         \/ Pop /\ UNCHANGED <<outputs, shown>>
  BY DEF TransactionRefused, Refused, At
<1>2. InController(Top) /\ Top.previous \in Layout
  BY <1>1, TopWhere DEF InController
<1>3. Below \in Seq(WaitingFrame) /\ Len(Below) < MaxDepth /\ Top \in GoodFrame
  BY <1>1, <1>2, CallEnds
<1>4. ASSUME NEW gs \in Seq(WaitingFrame), Len(gs) = Len(Below), CallsOf(gs) = CallsOf(Below),
             frames' = gs
      PROVE  StackOK(frames') /\ Len(frames') <= MaxDepth /\ ControllerStep
  <2>1. StackOK(frames') /\ Len(frames') <= MaxDepth /\ ControllerCalls' = CallsOf(Below)
    BY <1>3, <1>4, AfterPop, ServiceAssumption
  <2> QED BY <1>1, <2>1, ApplyRefused
<1>5. CASE Prepare(Below, f, "restore", Top.previous, << >>)
  <2> DEFINE on == << >>
  <2> HIDE DEF f, on
  <2>1. Prepare(Below, f, "restore", Top.previous, on)
    BY <1>5 DEF on
  <2>2. /\ outputs' \in [Outputs -> {"none", "starting", "ready", "rejected"}]
        /\ shown' \in Layout \cup {NoLayout}
        /\ \E gs \in Seq(WaitingFrame) : Prepared(gs, Below, f, "restore", on)
    BY <1>2, <1>3, <2>1, PrepareStep DEF ServiceInv
  <2>3. ValuesOK'
    BY <1>1, <2>2 DEF ServiceInv, ValuesOK, controllerVars
  <2>4. PICK gs \in Seq(WaitingFrame) : Prepared(gs, Below, f, "restore", on)
    BY <2>2
  <2>5. Len(gs) = Len(Below) /\ CallsOf(gs) = CallsOf(Below)
    BY <2>4 DEF Prepared
  <2>6. CASE \E p \in SUBSET Outputs : frames' = Append(gs, WaitsFor(f, "restore", p))
    <3>1. PICK p \in SUBSET Outputs : frames' = Append(gs, WaitsFor(f, "restore", p))
      BY <2>6
    <3> DEFINE g == WaitsFor(f, "restore", p)
    <3>2. g \in GoodFrame /\ ~InController(g)
      <4>1. /\ g \in Frame /\ g.op = "transaction" /\ g.pc = "restore"
            /\ g.layout = Top.previous /\ ~g.done
        BY <1>1, <1>2, <1>3 DEF GoodFrame, Frame, WaitsFor, Start0, f
      <4> HIDE DEF g
      <4> QED BY <1>2, <4>1 DEF GoodFrame, InController
    <3> HIDE DEF g
    <3>3. StackOK(frames') /\ Len(frames') <= MaxDepth /\ ControllerCalls' = CallsOf(gs)
      BY <1>3, <2>5, <3>1, <3>2, AfterPush DEF g
    <3>4. ControllerStep
      BY <1>1, <2>5, <3>3, ApplyRefused
    <3> QED BY <2>3, <3>3, <3>4 DEF Steps, ServiceInv
  <2>7. CASE frames' = gs \o on
    <3>1. frames' = gs
      BY <2>7, ConcatEmptySeq DEF on
    <3> QED BY <1>4, <2>3, <2>5, <3>1 DEF Steps, ServiceInv
  <2>8. CASE frames' = gs
    BY <1>4, <2>3, <2>5, <2>8 DEF Steps, ServiceInv
  <2> QED BY <2>4, <2>6, <2>7, <2>8 DEF Prepared
<1>6. CASE Pop /\ UNCHANGED <<outputs, shown>>
  <2>1. ValuesOK'
    BY <1>1, <1>6 DEF ServiceInv, ValuesOK, controllerVars
  <2> QED BY <1>3, <1>4, <1>6, <2>1 DEF Steps, ServiceInv, Pop
<1> QED BY <1>1, <1>5, <1>6

LEMMA StartFailsSteps == ServiceInv /\ StartFails => Steps
<1> SUFFICES ASSUME ServiceInv, StartFails
             PROVE  Steps
  OBVIOUS
<1>1. /\ frames # << >> /\ frames' = Freed(Below, Outputs) /\ UNCHANGED <<controllerVars, screen>>
      /\ Top.pc = "outputs" \/ (Top.pc \in {"get", "set"} /\ ~Top.done /\ Top.op = "start")
  BY DEF StartFails, Refused, At
<1>2. ValuesOK'
  BY StopValues DEF StartFails
<1>3. Below \in Seq(WaitingFrame) /\ Len(Below) <= MaxDepth
  BY <1>1, TopView, ServiceAssumption
<1>4. StackOK(frames') /\ Len(frames') <= MaxDepth /\ ControllerCalls' = CallsOf(Below)
  BY <1>1, <1>3, FreedKeeps, AfterPop
<1>5. CASE Top.pc = "outputs"
  <2>1. ControllerCalls = CallsOf(Below)
    BY <1>1, <1>5, OtherTop, TopView
  <2> QED BY <1>1, <1>2, <1>4, <2>1, Unseen DEF Steps, ServiceInv
<1>6. CASE Top.pc \in {"get", "set"} /\ ~Top.done /\ Top.op = "start"
  BY <1>1, <1>2, <1>4, <1>6, ApplyRefused DEF Steps, ServiceInv
<1> QED BY <1>1, <1>5, <1>6

(* revert() is entered, from the event loop or by the handler that runs.      *)
LEMMA RevertEnters ==
    ASSUME ServiceInv, NEW fs \in Seq(WaitingFrame), Len(fs) < MaxDepth,
           ControllerCalls = CallsOf(fs),
           NEW g \in GoodFrame, ~g.done,
           frames' = Append(fs, [g EXCEPT !.op = "revert", !.pc = "reverting",
                                          !.layout = m_previousLayout, !.client = FALSE]),
           m_revertTimer, m_revertTimer' = FALSE, ValuesOK',
           UNCHANGED <<m_layout, m_previousLayout, lastKept, trial, screen>>
    PROVE  Steps
<1> DEFINE f == [g EXCEPT !.op = "revert", !.pc = "reverting",
                          !.layout = m_previousLayout, !.client = FALSE]
<1>1. m_previousLayout \in Layout
  BY DEF ServiceInv, ValuesOK
<1>2. /\ f \in Frame /\ f.op = "revert" /\ f.pc = "reverting" /\ f.layout = m_previousLayout
      /\ f.done = FALSE
  BY <1>1 DEF GoodFrame, Frame
<1> HIDE DEF f
<1>3. /\ f \in GoodFrame /\ InController(f)
      /\ CallOf(f) = [op |-> "revert", pc |-> "notify", layout |-> m_previousLayout,
                      confirm |-> FALSE, done |-> FALSE]
  BY <1>1, <1>2 DEF GoodFrame, InController, CallOf
<1>4. StackOK(frames') /\ Len(frames') <= MaxDepth /\ Controller!Enter(CallOf(f))
  BY <1>3, AfterPush DEF f
<1>5. Controller!BeginRevert
  BY <1>3, <1>4 DEF Controller!BeginRevert
<1> QED BY <1>4, <1>5 DEF Steps, ServiceInv, ControllerStep, Controller!Next

LEMMA BeginRevertSteps == ServiceInv /\ BeginRevert => Steps
<1> SUFFICES ASSUME ServiceInv, BeginRevert
             PROVE  Steps
  OBVIOUS
<1>1. /\ Dispatches /\ Len(frames) < MaxDepth
      /\ m_revertTimer /\ m_revertTimer' = FALSE
      /\ UNCHANGED <<m_layout, m_previousLayout, lastKept, trial, screen, saved, serverVars>>
      /\ frames' = Append(frames, [Start0 EXCEPT !.op = "revert", !.pc = "reverting",
                                                 !.layout = m_previousLayout])
  BY DEF BeginRevert, Push
<1>2. [Start0 EXCEPT !.op = "revert", !.pc = "reverting", !.layout = m_previousLayout]
      = [Start0 EXCEPT !.op = "revert", !.pc = "reverting", !.layout = m_previousLayout,
                       !.client = FALSE]
  <2>1. Start0 \in Frame /\ Start0.client = FALSE
    BY NewStart DEF GoodFrame, Start0
  <2> QED BY <2>1 DEF Frame
<1>3. frames \in Seq(WaitingFrame) /\ ControllerCalls = CallsOf(frames)
  BY <1>1, RequestView
<1>4. ValuesOK'
  BY <1>1 DEF ServiceInv, ValuesOK, serverVars
<1>5. Start0.done = FALSE
  BY DEF Start0
<1> QED BY <1>1, <1>2, <1>3, <1>4, <1>5, NewStart, RevertEnters

(* The transaction that has been applied is rolled back.                      *)
LEMMA RollbackSteps ==
    ASSUME ServiceInv, At("applied"), Rollback, ValuesOK'
    PROVE  Steps
<1>1. frames # << >> /\ Top.pc = "applied"
  BY DEF At
<1>2. ~Top.done /\ ~InController(Top)
  BY <1>1, TopWhere, OtherTop
<1>3. /\ Below \in Seq(WaitingFrame) /\ Len(Below) < MaxDepth /\ Top \in GoodFrame
      /\ ControllerCalls = CallsOf(Below)
  BY <1>1, <1>2, TopView
<1>4. [Start0 EXCEPT !.op = "revert", !.pc = "reverting", !.layout = m_previousLayout]
      = [Start0 EXCEPT !.op = "revert", !.pc = "reverting", !.layout = m_previousLayout,
                       !.client = FALSE]
  <2>1. Start0 \in Frame /\ Start0.client = FALSE
    BY NewStart DEF GoodFrame, Start0
  <2> QED BY <2>1 DEF Frame
<1>5. Start0.done = FALSE
  BY DEF Start0
<1> QED BY <1>3, <1>4, <1>5, NewStart, RevertEnters DEF Rollback, Replace

LEMMA ClientRefusesSteps == ServiceInv /\ ClientRefuses => Steps
<1> SUFFICES ASSUME ServiceInv, ClientRefuses
             PROVE  Steps
  OBVIOUS
<1>1. ValuesOK'
  BY DEF ServiceInv, ValuesOK, ClientRefuses, Rollback, serverVars
<1> QED BY <1>1, RollbackSteps DEF ClientRefuses

LEMMA TransactionLosesServerSteps == ServiceInv /\ TransactionLosesServer => Steps
<1> SUFFICES ASSUME ServiceInv, TransactionLosesServer
             PROVE  Steps
  OBVIOUS
<1>1. ValuesOK'
  BY DEF ServiceInv, ValuesOK, TransactionLosesServer, Rollback, RelaunchFails
<1> QED BY <1>1, RollbackSteps DEF TransactionLosesServer

(* SetConfigOperation takes effect for any of the calls.                      *)
LEMMA SetConfigSteps ==
    ASSUME ServiceInv, NEW k \in DOMAIN frames, SetConfig(k)
    PROVE  Steps
<1> DEFINE f == [frames[k] EXCEPT !.done = TRUE]
           r == Rank(Inside(frames), k)
           c == CallOf(frames[k])
<1>1. /\ frames \in Seq(GoodFrame) /\ Len(frames) <= MaxDepth
      /\ \A j \in 1 .. (Len(frames) - 1) : frames[j] \in WaitingFrame
  BY DEF ServiceInv, StackOK
<1>2. DOMAIN frames = 1 .. Len(frames) /\ Len(frames) \in Nat /\ k \in 1 .. Len(frames)
      /\ frames[k] \in GoodFrame
  BY <1>1, LenProperties, ElementOfSeq
<1>3. /\ frames[k].pc = "set" /\ ~frames[k].done
      /\ frames' = [frames EXCEPT ![k] = f]
      /\ screen' = frames[k].layout /\ shown' \in {frames[k].layout, NoLayout}
      /\ UNCHANGED <<controllerVars, saved, backend, server, listening, rdpLayout, outputs>>
  BY DEF SetConfig
<1>4. /\ f \in WaitingFrame /\ f \in GoodFrame /\ InController(f) /\ InController(frames[k])
      /\ f.op = frames[k].op /\ f.pc = "set" /\ f.layout = frames[k].layout /\ f.done = TRUE
  <2>1. /\ f \in Frame /\ f.op = frames[k].op /\ f.pc = "set" /\ f.layout = frames[k].layout
        /\ f.previous = frames[k].previous /\ f.done = TRUE
    BY <1>2, <1>3 DEF GoodFrame, Frame
  <2> HIDE DEF f
  <2> QED BY <1>2, <1>3, <2>1 DEF WaitingFrame, GoodFrame, InController
<1>5. frames[k].layout \in Layout
  BY <1>2, <1>3 DEF GoodFrame
<1> HIDE DEF f
<1>6. /\ frames' \in Seq(GoodFrame) /\ Len(frames') = Len(frames)
      /\ \A j \in 1 .. Len(frames) : frames'[j] = IF j = k THEN f ELSE frames[j]
  BY <1>1, <1>2, <1>3, <1>4, ExceptSeq
<1>7. StackOK(frames') /\ Len(frames') <= MaxDepth
  <2>1. \A j \in 1 .. (Len(frames) - 1) : j \in 1 .. Len(frames)
    BY <1>2
  <2> QED BY <1>1, <1>4, <1>6, <2>1 DEF StackOK
<1>8. ValuesOK'
  BY <1>3, <1>5 DEF ServiceInv, ValuesOK, controllerVars, serverVars
<1>9. ControllerCalls' = [ControllerCalls EXCEPT ![r] = CallOf(f)]
  <2>1. /\ Len(CallsOf(frames')) = Len(CallsOf(frames))
        /\ \A m \in 1 .. Len(CallsOf(frames)) :
              CallsOf(frames')[m] = IF m = r THEN CallOf(f) ELSE CallsOf(frames)[m]
    BY <1>1, <1>2, <1>4, <1>6, ChangeCall
  <2>2. CallsOf(frames) \in Seq(Controller!Call) /\ CallsOf(frames') \in Seq(Controller!Call)
    BY <1>1, <1>6, CallsTyped
  <2> HIDE DEF r
  <2>3. /\ DOMAIN CallsOf(frames) = 1 .. Len(CallsOf(frames))
        /\ CallsOf(frames') = [m \in 1 .. Len(CallsOf(frames)) |-> CallsOf(frames')[m]]
    BY <2>1, <2>2, LenProperties
  <2>4. CallsOf(frames') = [CallsOf(frames) EXCEPT ![r] = CallOf(f)]
    BY <2>1, <2>3
  <2> QED BY <2>4, CallsAfter DEF ControllerCalls
<1>10. r \in DOMAIN ControllerCalls /\ ControllerCalls[r] = c
  <2>1. \A j \in DOMAIN frames : InController(frames[j]) => CallOf(frames[j]) \in Controller!Call
    BY <1>1, <1>2, ElementOfSeq, CallTyped
  <2>2. k \in Inside(frames)
    BY <1>2, <1>4 DEF Inside
  <2>3. /\ CallsOf(frames) \in Seq(Controller!Call)
        /\ r \in 1 .. Len(CallsOf(frames)) /\ CallsOf(frames)[r] = c
    BY <1>1, <2>1, <2>2, CallsAreSequence
  <2> HIDE DEF r, c
  <2>4. DOMAIN CallsOf(frames) = 1 .. Len(CallsOf(frames))
    BY <2>3, LenProperties
  <2> QED BY <2>3, <2>4 DEF ControllerCalls
<1>11. /\ c \in Controller!Call /\ c.pc = "apply" /\ c.done = FALSE
       /\ c.layout = frames[k].layout
       /\ CallOf(f) = [c EXCEPT !.done = TRUE]
  <2>1. c \in Controller!Call /\ CallOf(f) \in Controller!Call
    BY <1>2, <1>4, CallTyped
  <2>2. c.pc = "apply" /\ c.layout = frames[k].layout /\ c.done = frames[k].done
    BY <1>3 DEF CallOf
  <2> DEFINE d == CallOf(f)
  <2>3. d.op = c.op /\ d.pc = c.pc /\ d.layout = c.layout /\ d.confirm = c.confirm /\ d.done = TRUE
    BY <1>3, <1>4 DEF CallOf
  <2>4. c.done = FALSE
    BY <1>3, <2>1, <2>2 DEF Controller!Call
  <2> HIDE DEF c, d
  <2>5. d = [c EXCEPT !.done = TRUE]
    BY <2>1, <2>3 DEF Controller!Call, d
  <2> QED BY <2>1, <2>2, <2>4, <2>5 DEF d
<1>12. Controller!ScreenTakes(r)
  <2> HIDE DEF r, c
  <2>1. [ControllerCalls EXCEPT ![r].done = TRUE] = [ControllerCalls EXCEPT ![r] = CallOf(f)]
    BY <1>10, <1>11
  <2> QED BY <1>3, <1>5, <1>9, <1>10, <1>11, <2>1 DEF Controller!ScreenTakes, controllerVars
<1>13. Controller!Next
  BY <1>10, <1>12 DEF Controller!Next
<1> QED BY <1>7, <1>8, <1>13 DEF Steps, ServiceInv, ControllerStep

-----------------------------------------------------------------------------

LEMMA InitServiceInv == Init => ServiceInv
<1> SUFFICES ASSUME Init
             PROVE  ServiceInv
  OBVIOUS
<1>1. PICK l \in Layout : Booted(l)
  BY DEF Init
<1>2. StackOK(frames) /\ Len(frames) <= MaxDepth
  <2>1. frames = << >>
    BY <1>1 DEF Booted
  <2>2. << >> \in Seq(GoodFrame) /\ Len(<< >>) = 0
    BY EmptySeq
  <2> QED BY <2>1, <2>2, ServiceAssumption DEF StackOK
<1>3. ValuesOK
  BY <1>1 DEF Init, Booted, ValuesOK
<1> QED BY <1>2, <1>3 DEF ServiceInv

LEMMA NextSteps == ServiceInv /\ [Next]_vars => Steps
<1> SUFFICES ASSUME ServiceInv, [Next]_vars
             PROVE  Steps
  OBVIOUS
<1>1. CASE Request
  BY <1>1, BeginTransactionSteps, ConfirmLayoutSteps, StartSteps, StopSteps,
     ConfigureServerSteps DEF Request
<1>2. CASE Continue
  <2>1. CASE PrepareSucceeds \/ PrepareFails \/ GetConfig \/ TransactionRefused \/ RestoreEnds
             \/ TransactionApplied
    BY <2>1, PrepareSucceedsSteps, PrepareFailsSteps, GetConfigSteps, TransactionRefusedSteps,
       RestoreEndsSteps, TransactionAppliedSteps
  <2>2. CASE TransactionSucceeds \/ ClientRefuses \/ TransactionLosesServer
             \/ Reverting \/ ReprepareEnds \/ RevertSucceeds \/ RevertFails
    BY <2>2, TransactionSucceedsSteps, ClientRefusesSteps, TransactionLosesServerSteps,
       RevertingSteps, ReprepareEndsSteps, RevertSucceedsSteps, RevertFailsSteps
  <2>3. CASE SecretsFail \/ SecretsRead \/ Launched \/ Listens \/ StartFails \/ StartSucceeds
    BY <2>3, SecretsFailSteps, SecretsReadSteps, LaunchedSteps, ListensSteps, StartFailsSteps,
       StartSucceedsSteps
  <2> QED BY <1>2, <2>1, <2>2, <2>3 DEF Continue
<1>3. CASE \E k \in DOMAIN frames : SetConfig(k)
  BY <1>3, SetConfigSteps
<1>4. CASE \E o \in Outputs, answer \in Answers : OutputAnswers(o, answer)
  BY <1>4, OutputAnswersSteps
<1>5. CASE UNCHANGED vars
  <2>1. UNCHANGED <<controllerVars, screen, saved, serverVars, frames>>
    BY <1>5 DEF vars
  <2>2. ValuesOK'
    BY <2>1, ValuesStay DEF ServiceInv
  <2> QED BY <2>1, <2>2, FramesStay
<1> QED BY <1>1, <1>2, <1>3, <1>4, <1>5, BeginRevertSteps, ChildExitsSteps, CrashSteps,
        StartCrashesSteps DEF Next

(* The handlers of the service, however they overlap, keep every value and    *)
(* every suspended frame what the code expects to find there.                 *)
LEMMA ServiceInvHolds == Spec => []ServiceInv
<1>1. ServiceInv /\ [Next]_vars => ServiceInv'
  BY NextSteps DEF Steps
<1> QED BY <1>1, InitServiceInv, PTL DEF Spec

THEOREM TypeCorrect == Spec => []TypeOK
BY ServiceInvHolds, ServiceInvTypes, PTL

(* applyLayoutTransaction, Start() and the timer drive LayoutController as    *)
(* its specification allows: the suspended frames between their first wait    *)
(* and their return are its stack of calls.                                   *)
THEOREM ServiceUsesController == Spec => UsesController
<1>1. Init => Controller!Init
  <2> SUFFICES ASSUME Init
               PROVE  Controller!Init
    OBVIOUS
  <2>1. PICK l \in Layout : Booted(l)
    BY DEF Init
  <2>2. CallsOf(<< >>) = << >>
    <3>1. CallsOf(<< >>) \in Seq(Controller!Call) /\ Len(CallsOf(<< >>)) \in 0 .. 0
      BY EmptySeq, CallsTyped
    <3> QED BY <3>1, EmptySeq
  <2> QED BY <2>1, <2>2 DEF Booted, Controller!Init, ControllerCalls
<1>2. ServiceInv /\ [Next]_vars => [Controller!Next]_(Controller!vars)
  BY NextSteps DEF Steps, ControllerStep, ControllerVars
<1> QED BY <1>1, <1>2, ServiceInvHolds, PTL DEF Spec, UsesController, Controller!Spec

-----------------------------------------------------------------------------
(* What a crash falls back to                                                *)

(* FallbackInv of LayoutController, and what it means for the stored layout:  *)
(* a trial that is alone would fall back to the layout that is stored.        *)
KeptInv ==
    /\ trial = "none" => m_layout = lastKept
    /\ trial # "chained" => m_previousLayout = lastKept /\ saved = lastKept

(* Most handlers assign none of these.                                        *)
LEMMA KeptStays ==
    ASSUME KeptInv, UNCHANGED <<m_layout, m_previousLayout, lastKept, trial, saved>>
    PROVE  KeptInv'
BY DEF KeptInv

LEMMA KeepKeeps == KeptInv /\ Keep => KeptInv'
BY DEF KeptInv, Keep

LEMMA KeptStep ==
    ASSUME ServiceInv, KeptInv, [Next]_vars
    PROVE  KeptInv'
<1> USE KeptStays
<1>1. CASE Request
  <2>1. ASSUME NEW l \in Layout, NEW temporary \in BOOLEAN, NEW client \in BOOLEAN,
               BeginTransaction(l, temporary, client)
        PROVE  KeptInv'
    BY <2>1 DEF BeginTransaction, controllerVars
  <2>2. CASE ConfirmLayout
    BY <2>2, KeepKeeps DEF ConfirmLayout
  <2>3. CASE Start \/ Stop \/ ConfigureServer
    BY <2>3 DEF Start, Stop, ConfigureServer, controllerVars
  <2> QED BY <1>1, <2>1, <2>2, <2>3 DEF Request
<1>2. CASE BeginRevert
  BY <1>2 DEF BeginRevert
<1>3. CASE Crash
  BY <1>3 DEF Crash, KeptInv
<1>4. CASE Continue
  <2>1. CASE PrepareSucceeds \/ PrepareFails \/ GetConfig \/ TransactionRefused \/ RestoreEnds
             \/ Reverting \/ ReprepareEnds \/ RevertFails
    BY <2>1 DEF PrepareSucceeds, PrepareFails, GetConfig, TransactionRefused, RestoreEnds,
                Reverting, ReprepareEnds, RevertFails, controllerVars
  <2>2. CASE SecretsFail \/ SecretsRead \/ Launched \/ Listens \/ StartFails
    BY <2>2 DEF SecretsFail, SecretsRead, Launched, Listens, StartFails, controllerVars
  <2>3. CASE TransactionApplied
    BY <2>3 DEF TransactionApplied, KeptInv
  <2>4. CASE TransactionSucceeds
    BY <2>4, KeepKeeps DEF TransactionSucceeds, controllerVars
  <2>5. CASE ClientRefuses \/ TransactionLosesServer
    BY <2>5 DEF ClientRefuses, TransactionLosesServer, Rollback
  <2>6. CASE RevertSucceeds
    BY <2>6 DEF RevertSucceeds, KeptInv
  <2>7. CASE StartSucceeds
    BY <2>7 DEF StartSucceeds, KeptInv
  <2> QED BY <1>4, <2>1, <2>2, <2>3, <2>4, <2>5, <2>6, <2>7 DEF Continue
<1>9. CASE StartCrashes
  BY <1>3, <1>9 DEF StartCrashes
<1>5. CASE \E k \in DOMAIN frames : SetConfig(k)
  BY <1>5 DEF SetConfig, controllerVars
<1>6. CASE \E o \in Outputs, answer \in Answers : OutputAnswers(o, answer)
  BY <1>6 DEF OutputAnswers, controllerVars
<1>7. CASE ChildExits
  BY <1>7 DEF ChildExits, controllerVars
<1>8. CASE UNCHANGED vars
  BY <1>8 DEF vars, controllerVars
<1> QED BY <1>1, <1>2, <1>3, <1>4, <1>5, <1>6, <1>7, <1>8, <1>9 DEF Next

LEMMA KeptHolds == Spec => []KeptInv
<1>1. Init => KeptInv
  BY DEF Init, Booted, KeptInv
<1>2. ServiceInv /\ KeptInv /\ [Next]_vars => KeptInv'
  BY KeptStep
<1> QED BY <1>1, <1>2, ServiceInvHolds, PTL DEF Spec

(* Whatever is on trial and whatever handlers overlap, the stored layout is    *)
(* the one last kept, so a crash ends a trial as the timer would.  It needs    *)
(* that revert() stores m_previousLayout, which is the kept layout as long as  *)
(* one layout only is on trial.                                                *)
THEOREM CrashEndsTheTrial == Spec => []CrashEndsTrial
<1>1. KeptInv => CrashEndsTrial
  BY DEF KeptInv, CrashEndsTrial
<1> QED BY <1>1, KeptHolds, PTL

(* What the controller promises of a trial holds of the controller inside the *)
(* service, at any depth.                                                     *)
THEOREM ServiceTrialFallsBack == Spec => []Controller!TrialFallsBackToKept
<1>1. KeptInv => Controller!TrialFallsBackToKept
  BY DEF KeptInv, Controller!TrialFallsBackToKept
<1> QED BY <1>1, KeptHolds, PTL

-----------------------------------------------------------------------------
(* One handler at a time                                                     *)

(* The clients of a running server have the current layout, unless the one    *)
(* that is current was left on trial by a revert that failed.                 *)
Told == listening /\ (trial = "none" \/ m_revertTimer) => rdpLayout = m_layout

(* What a suspended handler has done so far, by what it waits for.            *)
TransactionInv(f) ==
    /\ f.pc \in {"prepare", "get", "set"} => f.previous = m_layout
    /\ f.pc = "restore" => f.layout = m_layout
    /\ f.pc = "restore" /\ listening => \A o \in Needs(m_layout) : outputs[o] # "none"
    /\ f.pc = "applied" => screen = m_layout /\ f.layout = m_layout /\ m_revertTimer
    /\ f.pc # "applied" => Told
    /\ f.pc # "applied" /\ ~f.done /\ listening => screen = m_layout
    /\ f.done => screen = f.layout

RevertInv(f) ==
    /\ ~m_revertTimer /\ trial # "none"
    /\ f.layout = m_previousLayout
    /\ ~f.done /\ listening => screen = m_layout
    /\ f.done => screen = f.layout

StartInv(f) ==
    /\ f.pc \in {"secrets", "outputs"} => ~listening
    /\ f.pc # "secrets" => rdpLayout = m_layout
    /\ f.pc # "secrets" => f.layout = m_layout
    /\ f.done => screen = f.layout

FrameInv(f) ==
    /\ f.op = "transaction" => TransactionInv(f)
    /\ f.op = "revert" => RevertInv(f)
    /\ f.op = "start" => StartInv(f)

AloneInv ==
    /\ m_revertTimer => trial # "none"
    /\ frames = << >> => Told /\ (listening => screen = m_layout)
    /\ frames # << >> => FrameInv(Top)

(* There is no frame below another one.                                       *)
LEMMA AloneView ==
    ASSUME MaxDepth = 1, ServiceInv
    PROVE  /\ Len(frames) < MaxDepth => frames = << >>
           /\ Dispatches => frames = << >>
           /\ frames # << >> =>
                 /\ Top \in GoodFrame /\ Top \in Frame
                 /\ Below = << >>
                 /\ Len(frames) = 1 /\ frames[1] = Top
<1>1. Len(frames) < MaxDepth => frames = << >>
  <2>1. frames \in Seq(GoodFrame) /\ Len(frames) \in Nat
    BY LenProperties DEF ServiceInv, StackOK
  <2> QED BY <2>1, EmptySeq
<1>2. ASSUME frames # << >>
      PROVE  /\ Top \in GoodFrame /\ Top \in Frame
             /\ Below = << >>
             /\ Len(frames) = 1 /\ frames[1] = Top
  <2>1. /\ Below \in Seq(WaitingFrame) /\ Len(Below) \in Nat /\ Len(Below) < 1
        /\ Top \in GoodFrame /\ Len(frames) = Len(Below) + 1
    BY <1>2, TopView
  <2>2. Below = << >>
    BY <2>1, EmptySeq
  <2>3. Len(frames) = 1
    BY <2>1
  <2> QED BY <2>1, <2>2, <2>3 DEF Top, Last, GoodFrame
<1> QED BY <1>1, <1>2 DEF Dispatches

LEMMA AloneFreed == ASSUME NEW destroyed PROVE Freed(<< >>, destroyed) = << >>
<1>1. << >> \in Seq(WaitingFrame) /\ Len(<< >>) = 0
  BY EmptySeq
<1>2. Freed(<< >>, destroyed) \in Seq(WaitingFrame) /\ Len(Freed(<< >>, destroyed)) = 0
  BY <1>1, FreedKeeps
<1> QED BY <1>2, EmptySeq

LEMMA AlonePushed ==
    ASSUME NEW f, frames' = Append(<< >>, f) \/ frames' = << >> \o <<f>>
    PROVE  frames' # << >> /\ Top' = f
<1>1. frames' = <<f>>
  OBVIOUS
<1> QED BY <1>1 DEF Top, Last

(* ensureVirtualOutputs(l) has been called by the only handler.               *)
LEMMA AloneEnsures ==
    ASSUME backend = "embedded", NEW f \in Frame, NEW pc, NEW l \in Layout, NEW next,
           Prepare(<< >>, f, pc, l, next)
    PROVE  /\ \A o \in Needs(l) : outputs'[o] # "none"
           /\ \/ \E p \in SUBSET Outputs : frames' # << >> /\ Top' = WaitsFor(f, pc, p)
              \/ frames' = << >> \o next
<1>1. /\ outputs' = Ensured(l)
      /\ frames' = IF Missing(l) # {}
                   THEN Append(Freed(<< >>, Doomed(l)),
                               [f EXCEPT !.pc = pc, !.pending = Missing(l), !.dangling = FALSE])
                   ELSE Freed(<< >>, Doomed(l)) \o next
  BY DEF Prepare
<1>2. \A o \in Needs(l) : outputs'[o] # "none"
  BY <1>1, OutputAssumption DEF Ensured, Doomed, Missing
<1>3. Freed(<< >>, Doomed(l)) = << >>
  BY AloneFreed
<1>4. CASE Missing(l) # {}
  <2>1. frames' = Append(<< >>, WaitsFor(f, pc, Missing(l)))
    BY <1>1, <1>3, <1>4 DEF WaitsFor
  <2>2. Missing(l) \in SUBSET Outputs
    BY OutputAssumption DEF Missing
  <2> QED BY <1>2, <2>1, <2>2, AlonePushed
<1> QED BY <1>1, <1>2, <1>3, <1>4

(* prepareLayout(l) has been called by the only handler.                      *)
LEMMA AlonePrepare ==
    ASSUME NEW f \in Frame, NEW pc, NEW l \in Layout, NEW next,
           Prepare(<< >>, f, pc, l, next)
    PROVE  /\ listening /\ backend = "embedded" => \A o \in Needs(l) : outputs'[o] # "none"
           /\ \/ \E p \in SUBSET Outputs : frames' # << >> /\ Top' = WaitsFor(f, pc, p)
              \/ frames' = << >> \o next
              \/ frames' = << >>
<1>1. CASE backend = "embedded"
  BY <1>1, AloneEnsures
<1>2. CASE backend # "embedded"
  BY <1>2 DEF Prepare
<1> QED BY <1>1, <1>2

(* A frame that goes on into the backend.                                     *)
LEMMA AskingFields ==
    ASSUME NEW f \in Frame, NEW l \in Layout
    PROVE  /\ Asking(f, l).op = f.op /\ Asking(f, l).pc = "get" /\ Asking(f, l).layout = l
           /\ Asking(f, l).previous = f.previous /\ Asking(f, l).done = FALSE
BY DEF Asking, Frame

LEMMA AloneTransactions ==
    ASSUME MaxDepth = 1, ServiceInv, AloneInv,
           \/ \E l \in Layout, temporary, client \in BOOLEAN : BeginTransaction(l, temporary, client)
           \/ PrepareSucceeds \/ PrepareFails \/ TransactionRefused \/ RestoreEnds
           \/ TransactionApplied \/ TransactionSucceeds
    PROVE  AloneInv'
<1> USE DEF AloneInv, FrameInv, TransactionInv, Told
<1>0. /\ Dispatches => frames = << >>
      /\ frames # << >> => Top \in GoodFrame /\ Top \in Frame /\ Below = << >>
      /\ {m_layout, m_previousLayout} \subseteq Layout
      /\ backend \in {"embedded", "process"}
  BY AloneView, ServiceAssumption DEF ServiceInv, ValuesOK
<1>1. ASSUME NEW l \in Layout, NEW temporary \in BOOLEAN, NEW client \in BOOLEAN,
             BeginTransaction(l, temporary, client)
      PROVE  AloneInv'
  <2> DEFINE f == [Start0 EXCEPT !.op = "transaction", !.layout = l, !.previous = m_layout,
                                 !.temporary = temporary, !.client = client]
             ask == Asking(f, l)
  <2>1. /\ frames = << >> /\ UNCHANGED <<controllerVars, screen, listening, rdpLayout>>
        /\ \/ Prepare(<< >>, f, "prepare", l, <<ask>>)
           \/ frames' = Append(<< >>, ask)
    BY <1>0, <1>1 DEF BeginTransaction, Push
  <2>2. f \in Frame /\ f.op = "transaction" /\ f.previous = m_layout /\ f.done = FALSE
    BY <1>0 DEF Frame, Start0
  <2>3. ask.op = "transaction" /\ ask.pc = "get" /\ ask.previous = m_layout /\ ask.done = FALSE
    BY <2>2, AskingFields
  <2>4. \A p \in SUBSET Outputs :
           LET w == WaitsFor(f, "prepare", p)
           IN  w.op = "transaction" /\ w.pc = "prepare" /\ w.previous = m_layout /\ w.done = FALSE
    <3> HIDE DEF f
    <3> QED BY <2>2 DEF Frame, WaitsFor
  <2> HIDE DEF f, ask
  <2>5. CASE frames' = Append(<< >>, ask) \/ frames' = << >> \o <<ask>>
    <3>1. frames' # << >> /\ Top' = ask
      BY <2>5, AlonePushed
    <3> QED BY <2>1, <2>3, <3>1 DEF controllerVars
  <2>6. CASE frames' = << >>
    BY <2>1, <2>6 DEF controllerVars
  <2>7. CASE \E p \in SUBSET Outputs : frames' # << >> /\ Top' = WaitsFor(f, "prepare", p)
    <3>1. PICK p \in SUBSET Outputs : frames' # << >> /\ Top' = WaitsFor(f, "prepare", p)
      BY <2>7
    <3> DEFINE w == WaitsFor(f, "prepare", p)
    <3>2. w.op = "transaction" /\ w.pc = "prepare" /\ w.previous = m_layout /\ w.done = FALSE
      BY <2>4
    <3> HIDE DEF w
    <3> QED BY <2>1, <3>1, <3>2 DEF controllerVars, w
  <2> QED BY <2>1, <2>2, <2>5, <2>6, <2>7, AlonePrepare
<1>2. CASE PrepareSucceeds
  <2> DEFINE ask == Asking(Top, Top.layout)
  <2>1. /\ frames # << >> /\ Top.pc = "prepare" /\ frames' = Append(<< >>, ask)
        /\ UNCHANGED <<controllerVars, screen, saved, serverVars>>
    BY <1>0, <1>2 DEF PrepareSucceeds, At, Replace
  <2>2. Top.op = "transaction" /\ Top.layout \in Layout /\ ~Top.done
    BY <2>1, TopWhere
  <2>3. ask.op = "transaction" /\ ask.pc = "get" /\ ask.previous = Top.previous /\ ask.done = FALSE
    BY <1>0, <2>1, <2>2, AskingFields
  <2> HIDE DEF ask
  <2>4. frames' # << >> /\ Top' = ask
    BY <2>1, AlonePushed
  <2> QED BY <2>1, <2>2, <2>3, <2>4 DEF controllerVars, serverVars
<1>3. CASE PrepareFails
  <2>1. /\ frames # << >> /\ Top.pc = "prepare" /\ frames' = << >>
        /\ UNCHANGED <<controllerVars, screen, saved, serverVars>>
    BY <1>0, <1>3 DEF PrepareFails, At, Pop
  <2>2. Top.op = "transaction" /\ ~Top.done
    BY <2>1, TopWhere
  <2> QED BY <2>1, <2>2 DEF controllerVars, serverVars
<1>4. CASE TransactionRefused
  <2> DEFINE f == [Start0 EXCEPT !.op = "transaction", !.layout = Top.previous]
  <2>1. /\ frames # << >> /\ Top.pc \in {"get", "set"} /\ ~Top.done /\ Top.op = "transaction"
        /\ UNCHANGED <<controllerVars, screen, saved, backend, server, listening, rdpLayout>>
        /\ \/ Prepare(<< >>, f, "restore", m_layout, << >>) /\ Top.previous = m_layout
           \/ frames' = << >>
    BY <1>0, <1>4 DEF TransactionRefused, Refused, At, Pop
  <2>2. Top.previous = m_layout
    BY <2>1
  <2>3. f \in Frame /\ f.op = "transaction" /\ f.layout = m_layout /\ f.done = FALSE
    BY <1>0, <2>1, <2>2 DEF Frame, Start0
  <2> HIDE DEF f
  <2>4. CASE frames' = << >>
    BY <2>1, <2>4 DEF controllerVars
  <2>5. CASE \E p \in SUBSET Outputs : /\ Prepare(<< >>, f, "restore", m_layout, << >>)
                                      /\ frames' # << >> /\ Top' = WaitsFor(f, "restore", p)
    <3>1. PICK p \in SUBSET Outputs : /\ Prepare(<< >>, f, "restore", m_layout, << >>)
                                      /\ frames' # << >> /\ Top' = WaitsFor(f, "restore", p)
      BY <2>5
    <3> DEFINE w == WaitsFor(f, "restore", p)
    <3>2. w.op = "transaction" /\ w.pc = "restore" /\ w.layout = m_layout /\ w.done = FALSE
      BY <2>3 DEF Frame, WaitsFor
    <3>3. backend = "embedded"
      <4>1. CASE backend = "process"
        <5>1. frames' = << >>
          BY <3>1, <4>1 DEF Prepare
        <5> QED BY <3>1, <5>1
      <4> QED BY <1>0, <4>1
    <3>4. listening => \A o \in Needs(m_layout) : outputs'[o] # "none"
      BY <1>0, <2>3, <3>1, <3>3, AlonePrepare
    <3> HIDE DEF w
    <3> QED BY <2>1, <3>1, <3>2, <3>4 DEF controllerVars, w
  <2>6. CASE Prepare(<< >>, f, "restore", m_layout, << >>)
    <3>1. << >> \o << >> = << >>
      OBVIOUS
    <3> QED BY <1>0, <2>3, <2>4, <2>5, <2>6, <3>1, AlonePrepare
  <2> QED BY <2>1, <2>4, <2>6
<1>5. CASE RestoreEnds
  <2>1. /\ frames # << >> /\ Top.pc = "restore" /\ frames' = << >>
        /\ UNCHANGED <<controllerVars, screen, saved, serverVars>>
    BY <1>0, <1>5 DEF RestoreEnds, At, Pop
  <2>2. Top.op = "transaction" /\ ~Top.done
    BY <2>1, TopWhere
  <2> QED BY <2>1, <2>2 DEF controllerVars, serverVars
<1>6. CASE TransactionApplied
  <2> DEFINE f == [Top EXCEPT !.pc = "applied", !.previous = NoLayout, !.done = FALSE]
  <2>1. /\ frames # << >> /\ Top.pc = "set" /\ Top.done /\ Top.op = "transaction"
        /\ frames' = Append(<< >>, f)
        /\ m_layout' = Top.layout /\ m_revertTimer' = TRUE /\ trial' # "none"
        /\ UNCHANGED <<screen, serverVars>>
    BY <1>0, <1>6 DEF TransactionApplied, Accepted, At, Replace
  <2>2. f.op = "transaction" /\ f.pc = "applied" /\ f.layout = Top.layout /\ f.done = FALSE
    BY <1>0, <2>1 DEF Frame
  <2> HIDE DEF f
  <2>3. frames' # << >> /\ Top' = f
    BY <2>1, AlonePushed
  <2> QED BY <2>1, <2>2, <2>3 DEF serverVars
<1>7. CASE TransactionSucceeds
  <2>1. /\ frames # << >> /\ Top.pc = "applied" /\ frames' = << >>
        /\ UpdateLayout(Top.layout) /\ UNCHANGED screen
        /\ (UNCHANGED controllerVars) \/ Keep
    BY <1>0, <1>7 DEF TransactionSucceeds, At, Pop
  <2>2. Top.op = "transaction"
    BY <2>1, TopWhere
  <2> QED BY <2>1, <2>2 DEF UpdateLayout, Keep, controllerVars
<1> QED BY <1>1, <1>2, <1>3, <1>4, <1>5, <1>6, <1>7

LEMMA AloneReverts ==
    ASSUME MaxDepth = 1, ServiceInv, AloneInv,
           \/ BeginRevert \/ ClientRefuses \/ TransactionLosesServer
           \/ Reverting \/ ReprepareEnds \/ RevertSucceeds \/ RevertFails
    PROVE  AloneInv'
<1> USE DEF AloneInv, FrameInv, RevertInv, Told
<1>0. /\ Len(frames) < MaxDepth => frames = << >>
      /\ frames # << >> => Top \in GoodFrame /\ Top \in Frame /\ Below = << >>
      /\ {m_layout, m_previousLayout} \subseteq Layout
  BY AloneView DEF ServiceInv, ValuesOK
<1>1. ASSUME frames' = Append(<< >>, [Start0 EXCEPT !.op = "revert", !.pc = "reverting",
                                                    !.layout = m_previousLayout]),
             m_revertTimer, m_revertTimer' = FALSE, listening' => listening, screen = m_layout \/ ~listening,
             UNCHANGED <<m_layout, m_previousLayout, trial, screen>>
      PROVE  AloneInv'
  <2> DEFINE f == [Start0 EXCEPT !.op = "revert", !.pc = "reverting",
                                 !.layout = m_previousLayout]
  <2>1. f.op = "revert" /\ f.pc = "reverting" /\ f.layout = m_previousLayout /\ ~f.done
    BY DEF Start0
  <2> HIDE DEF f
  <2>2. frames' # << >> /\ Top' = f
    BY <1>1, AlonePushed DEF f
  <2> QED BY <1>1, <2>1, <2>2
<1>2. CASE BeginRevert
  BY <1>0, <1>1, <1>2 DEF BeginRevert, Push, serverVars
<1>3. CASE ClientRefuses \/ TransactionLosesServer
  <2>1. /\ frames # << >> /\ Top.pc = "applied" /\ m_revertTimer /\ m_revertTimer' = FALSE
        /\ listening' => listening
        /\ UNCHANGED <<m_layout, m_previousLayout, trial, screen>>
        /\ frames' = Append(<< >>, [Start0 EXCEPT !.op = "revert", !.pc = "reverting",
                                                 !.layout = m_previousLayout])
    BY <1>0, <1>3 DEF ClientRefuses, TransactionLosesServer, RelaunchFails, Rollback, At, Replace,
                      serverVars
  <2>2. screen = m_layout
    BY <2>1, TopWhere DEF TransactionInv
  <2> QED BY <1>1, <2>1, <2>2
<1>4. ASSUME frames # << >>, Top.pc \in {"reverting", "reprepare"},
             frames' = Append(<< >>, Asking(Top, m_previousLayout))
                \/ frames' = << >> \o <<Asking(Top, m_previousLayout)>>,
             UNCHANGED <<controllerVars, screen, listening, rdpLayout>>
      PROVE  AloneInv'
  <2> DEFINE ask == Asking(Top, m_previousLayout)
  <2>1. Top.op = "revert" /\ ~Top.done
    BY <1>4, TopWhere
  <2>2. ask.op = "revert" /\ ask.layout = m_previousLayout /\ ask.done = FALSE
    BY <1>0, <1>4, <2>1, AskingFields
  <2> HIDE DEF ask
  <2>3. frames' # << >> /\ Top' = ask
    BY <1>4, AlonePushed DEF ask
  <2> QED BY <1>4, <2>1, <2>2, <2>3 DEF controllerVars
<1>5. CASE Reverting
  <2>1. /\ frames # << >> /\ Top.pc = "reverting"
        /\ UNCHANGED <<controllerVars, screen, saved, backend, server, listening, rdpLayout>>
        /\ \/ Prepare(<< >>, Top, "reprepare", Top.layout, <<Asking(Top, m_previousLayout)>>)
           \/ frames' = << >> \o <<Asking(Top, m_previousLayout)>>
    BY <1>0, <1>5 DEF Reverting, At
  <2>2. Top.op = "revert" /\ ~Top.done /\ Top.layout \in Layout
    BY <2>1, TopWhere
  <2>3. CASE \E p \in SUBSET Outputs : frames' # << >> /\ Top' = WaitsFor(Top, "reprepare", p)
    <3>1. PICK p \in SUBSET Outputs : frames' # << >> /\ Top' = WaitsFor(Top, "reprepare", p)
      BY <2>3
    <3> DEFINE w == WaitsFor(Top, "reprepare", p)
    <3>2. w.op = "revert" /\ w.layout = Top.layout /\ w.done = Top.done
      BY <1>0, <2>1, <2>2 DEF Frame, WaitsFor
    <3> HIDE DEF w
    <3> QED BY <2>1, <2>2, <3>1, <3>2 DEF controllerVars, w
  <2>4. CASE frames' = << >> \o <<Asking(Top, m_previousLayout)>>
    BY <1>4, <2>1, <2>4
  <2>5. CASE /\ Prepare(<< >>, Top, "reprepare", Top.layout, <<Asking(Top, m_previousLayout)>>)
             /\ frames' = << >>
    BY <2>4, <2>5, AloneFreed DEF Prepare
  <2> QED BY <1>0, <2>1, <2>2, <2>3, <2>4, <2>5, AlonePrepare
<1>6. CASE ReprepareEnds
  <2>1. /\ frames # << >> /\ Top.pc = "reprepare"
        /\ frames' = Append(<< >>, Asking(Top, m_previousLayout))
        /\ UNCHANGED <<controllerVars, screen, saved, serverVars>>
    BY <1>0, <1>6 DEF ReprepareEnds, At, Replace
  <2> QED BY <1>4, <2>1 DEF serverVars
<1>7. CASE RevertSucceeds
  <2>1. /\ frames # << >> /\ Top.done /\ Top.op = "revert" /\ frames' = << >>
        /\ m_layout' = m_previousLayout /\ UNCHANGED <<m_revertTimer, screen>>
        /\ UpdateLayout(m_layout') \/ RelaunchFails
    BY <1>0, <1>7 DEF RevertSucceeds, Accepted, At, Pop
  <2> QED BY <2>1 DEF UpdateLayout, RelaunchFails
<1>8. CASE RevertFails
  <2>1. /\ frames # << >> /\ ~Top.done /\ Top.op = "revert" /\ frames' = << >>
        /\ UNCHANGED <<controllerVars, screen, saved, serverVars>>
    BY <1>0, <1>8 DEF RevertFails, Refused, At, Pop
  <2> QED BY <2>1 DEF controllerVars, serverVars
<1> QED BY <1>2, <1>3, <1>5, <1>6, <1>7, <1>8

LEMMA AloneStarts ==
    ASSUME MaxDepth = 1, ServiceInv, AloneInv,
           \/ Start \/ ConfigureServer \/ SecretsFail \/ SecretsRead \/ Launched \/ Listens
           \/ StartFails \/ StartSucceeds
    PROVE  AloneInv'
<1> USE DEF AloneInv, FrameInv, StartInv, Told
<1>0. /\ Len(frames) < MaxDepth => frames = << >>
      /\ frames # << >> => Top \in GoodFrame /\ Top \in Frame /\ Below = << >>
      /\ m_layout \in Layout /\ Freed(<< >>, Outputs) = << >>
  BY AloneView, AloneFreed DEF ServiceInv, ValuesOK
<1>1. CASE Start \/ ConfigureServer
  <2>1. /\ ~listening' /\ UNCHANGED controllerVars
        /\ frames' = Append(<< >>, Start0)
    <3>1. CASE Start
      BY <1>0, <3>1 DEF Start, Push, serverVars
    <3>2. CASE ConfigureServer
      <4>1. frames = << >> /\ frames' = Append(Freed(frames, Outputs), Start0)
        BY <1>0, <3>2 DEF ConfigureServer
      <4> QED BY <1>0, <3>2, <4>1 DEF ConfigureServer, StopServer
    <3> QED BY <1>1, <3>1, <3>2
  <2>2. Start0.op = "start" /\ Start0.pc = "secrets" /\ Start0.done = FALSE
    BY DEF Start0
  <2>3. frames' # << >> /\ Top' = Start0
    BY <2>1, AlonePushed
  <2>4. UNCHANGED <<m_revertTimer, trial>>
    BY <2>1 DEF controllerVars
  <2>5. m_revertTimer' => trial' # "none"
    BY <2>4
  <2> QED BY <2>1, <2>2, <2>3, <2>5
<1>2. CASE SecretsFail
  <2>1. /\ frames # << >> /\ Top.pc = "secrets" /\ frames' = << >>
        /\ UNCHANGED <<controllerVars, screen, saved, serverVars>>
    BY <1>0, <1>2 DEF SecretsFail, At, Pop
  <2>2. Top.op = "start"
    BY <2>1, TopWhere
  <2> QED BY <2>1, <2>2 DEF controllerVars, serverVars
<1>3. CASE SecretsRead
  <2> DEFINE f == [Top EXCEPT !.pc = "outputs", !.layout = m_layout, !.pending = Needs(m_layout)]
  <2>1. /\ frames # << >> /\ Top.pc = "secrets" /\ listening' = FALSE /\ rdpLayout' = m_layout
        /\ frames' = Append(<< >>, f) /\ UNCHANGED <<controllerVars, screen>>
    BY <1>0, <1>3 DEF SecretsRead, At
  <2>2. Top.op = "start" /\ ~Top.done
    BY <2>1, TopWhere
  <2>3. f.op = "start" /\ f.pc = "outputs" /\ f.layout = m_layout /\ ~f.done
    BY <1>0, <2>1, <2>2 DEF Frame
  <2>4. frames' # << >> /\ Top' = f
    BY <2>1, AlonePushed
  <2> HIDE DEF f
  <2> QED BY <2>1, <2>3, <2>4 DEF controllerVars
<1>4. CASE Launched \/ Listens
  <2> DEFINE ask == Asking(Top, m_layout)
  <2>1. /\ frames # << >> /\ Top.pc \in {"secrets", "outputs"} /\ frames' = Append(<< >>, ask)
        /\ UNCHANGED <<controllerVars, screen>>
        /\ \/ Top.pc = "secrets" /\ (rdpLayout' = IF listening THEN rdpLayout ELSE m_layout)
           \/ Top.pc = "outputs" /\ rdpLayout' = rdpLayout
    BY <1>0, <1>4 DEF Launched, Listens, At, Replace
  <2>2. Top.op = "start"
    BY <2>1, TopWhere
  <2>3. ask.op = "start" /\ ask.pc = "get" /\ ask.layout = m_layout /\ ask.done = FALSE
    BY <1>0, <2>1, <2>2, AskingFields
  <2> HIDE DEF ask
  <2>4. frames' # << >> /\ Top' = ask
    BY <2>1, AlonePushed
  <2> QED BY <2>1, <2>2, <2>3, <2>4 DEF controllerVars
<1>5. CASE StartFails
  BY <1>0, <1>5 DEF StartFails, StopServer, Refused, At, controllerVars
<1>6. CASE StartSucceeds
  <2>1. /\ frames # << >> /\ Top.pc = "set" /\ Top.done /\ Top.op = "start" /\ frames' = << >>
        /\ m_layout' = Top.layout /\ m_revertTimer' = FALSE
        /\ UNCHANGED <<screen, serverVars>>
    BY <1>0, <1>6 DEF StartSucceeds, Accepted, At, Pop
  <2> QED BY <2>1 DEF serverVars
<1> QED BY <1>1, <1>2, <1>3, <1>4, <1>5, <1>6

LEMMA AloneOthers ==
    ASSUME MaxDepth = 1, ServiceInv, AloneInv,
           \/ ConfirmLayout \/ Stop \/ GetConfig \/ Crash \/ ChildExits
           \/ \E k \in DOMAIN frames : SetConfig(k)
           \/ \E o \in Outputs, answer \in Answers : OutputAnswers(o, answer)
           \/ UNCHANGED vars
    PROVE  AloneInv'
<1> USE DEF AloneInv, FrameInv, TransactionInv, RevertInv, StartInv, Told
<1>0. /\ Dispatches => frames = << >>
      /\ frames # << >> => /\ Top \in GoodFrame /\ Top \in Frame /\ Below = << >>
                           /\ Len(frames) = 1 /\ frames[1] = Top
      /\ Freed(<< >>, Outputs) = << >>
  BY AloneView, AloneFreed
<1>1. CASE ConfirmLayout
  BY <1>0, <1>1 DEF ConfirmLayout, Keep, serverVars
<1>2. CASE Stop
  BY <1>0, <1>2 DEF Stop, StopServer, controllerVars
<1>3. CASE GetConfig
  <2> DEFINE f == [Top EXCEPT !.pc = "set"]
  <2>1. /\ frames # << >> /\ Top.pc = "get" /\ frames' = Append(<< >>, f)
        /\ UNCHANGED <<controllerVars, screen, saved, serverVars>>
    BY <1>0, <1>3 DEF GetConfig, At, Replace
  <2>2. /\ f.op = Top.op /\ f.pc = "set" /\ f.layout = Top.layout /\ f.previous = Top.previous
        /\ f.done = Top.done
    BY <1>0, <2>1 DEF Frame
  <2> HIDE DEF f
  <2>3. frames' # << >> /\ Top' = f
    BY <2>1, AlonePushed
  <2>4. ~Top.done
    BY <2>1, TopWhere
  <2> QED BY <2>1, <2>2, <2>3, <2>4 DEF controllerVars, serverVars
<1>4. CASE Crash
  BY <1>4 DEF Crash
<1>5. CASE ChildExits
  <2>1. /\ listening' = FALSE /\ ~Busy
        /\ UNCHANGED <<controllerVars, screen, rdpLayout, outputs, frames>>
    BY <1>5 DEF ChildExits
  <2>2. Top' = Top
    BY <2>1 DEF Top, Last
  <2> QED BY <2>1, <2>2 DEF controllerVars
<1>6. ASSUME NEW k \in DOMAIN frames, SetConfig(k)
      PROVE  AloneInv'
  <2> DEFINE f == [Top EXCEPT !.done = TRUE]
  <2>1. frames # << >> /\ k = 1
    <3>1. frames \in Seq(GoodFrame) /\ DOMAIN frames = 1 .. Len(frames)
      BY LenProperties DEF ServiceInv, StackOK
    <3>2. frames # << >>
      BY <1>6
    <3> QED BY <1>0, <3>1, <3>2
  <2>2. /\ Top.pc = "set" /\ frames' = [frames EXCEPT ![1] = f] /\ screen' = Top.layout
        /\ UNCHANGED <<controllerVars, backend, server, listening, rdpLayout, outputs>>
    BY <1>0, <1>6, <2>1 DEF SetConfig
  <2>3. frames' # << >> /\ Top' = f
    <3>1. frames \in Seq(GoodFrame) /\ DOMAIN frames = 1 .. 1
      BY <1>0, <2>1, LenProperties DEF ServiceInv, StackOK
    <3> HIDE DEF f
    <3>2. frames = <<frames[1]>>
      BY <1>0, <2>1, <3>1
    <3>3. frames' = <<f>>
      BY <2>2, <3>2
    <3> QED BY <3>3 DEF Top, Last
  <2>4. /\ f.op = Top.op /\ f.pc = "set" /\ f.layout = Top.layout /\ f.previous = Top.previous
        /\ f.done
    BY <1>0, <2>1, <2>2 DEF Frame
  <2> HIDE DEF f
  <2> QED BY <2>1, <2>2, <2>3, <2>4 DEF controllerVars
<1>7. ASSUME NEW o \in Outputs, NEW answer \in Answers, OutputAnswers(o, answer)
      PROVE  AloneInv'
  <2>1. /\ outputs' = [outputs EXCEPT ![o] = answer] /\ answer # "none"
        /\ UNCHANGED <<controllerVars, screen, listening, rdpLayout, frames>>
    BY <1>7, ServiceAssumption DEF OutputAnswers
  <2>2. \A p \in Outputs : outputs[p] # "none" => outputs'[p] # "none"
    BY <2>1 DEF ServiceInv, ValuesOK
  <2>3. \A p \in Needs(m_layout) : outputs[p] # "none" => outputs'[p] # "none"
    BY <2>2, OutputAssumption DEF ServiceInv, ValuesOK
  <2>4. Top' = Top
    BY <2>1 DEF Top, Last
  <2> QED BY <2>1, <2>3, <2>4 DEF controllerVars
<1>8. CASE UNCHANGED vars
  <2>1. UNCHANGED <<controllerVars, screen, serverVars, frames>> /\ Top' = Top
    BY <1>8 DEF vars, Top, Last
  <2> QED BY <2>1 DEF controllerVars, serverVars
<1> QED BY <1>1, <1>2, <1>3, <1>4, <1>5, <1>6, <1>7, <1>8

LEMMA AloneHolds == MaxDepth = 1 /\ Spec => []AloneInv
<1> SUFFICES ASSUME MaxDepth = 1
             PROVE  Spec => []AloneInv
  OBVIOUS
<1>1. Init => AloneInv
  BY DEF Init, Booted, AloneInv, Told
<1>2. ServiceInv /\ AloneInv /\ [Next]_vars => AloneInv'
  <2> SUFFICES ASSUME ServiceInv, AloneInv, [Next]_vars
               PROVE  AloneInv'
    OBVIOUS
  <2>1. CASE Request
    BY <2>1, AloneTransactions, AloneStarts, AloneOthers DEF Request
  <2>2. CASE Continue
    BY <2>2, AloneTransactions, AloneReverts, AloneStarts, AloneOthers DEF Continue
  <2>3. CASE BeginRevert
    BY <2>3, AloneReverts
  <2>4. CASE StartCrashes
    BY <2>4, AloneOthers DEF StartCrashes
  <2> QED BY <2>1, <2>2, <2>3, <2>4, AloneOthers DEF Next
<1> QED BY <1>1, <1>2, ServiceInvHolds, PTL DEF Spec

(* Where handlers do not overlap, a running server has given KScreen and the  *)
(* RDP clients the layout that D-Bus reports and the settings store, whenever *)
(* nothing is on trial, although every handler assigns them one by one and    *)
(* may fail in between.  Where handlers nest they need not.  (Whether what    *)
(* KScreen was given is still there to be seen is AloneShows.)                *)
THEOREM AloneLayoutIsOne == MaxDepth = 1 /\ Spec => []OneLayoutEverywhere
<1>1. AloneInv /\ KeptInv => OneLayoutEverywhere
  BY DEF AloneInv, KeptInv, Told, OneLayoutEverywhere, Idle
<1> QED BY <1>1, AloneHolds, KeptHolds, PTL

(* A transaction that KScreen refuses leaves the outputs of the layout that   *)
(* stays current behind, created again if it had destroyed them.              *)
THEOREM AloneRestores == MaxDepth = 1 /\ Spec => RestoreBringsOutputsBack
<1> SUFFICES ASSUME MaxDepth = 1
             PROVE  Spec => RestoreBringsOutputsBack
  OBVIOUS
<1> DEFINE Restored ==
        backend = "embedded" /\ listening /\ listening' /\ frames' = << >>
            /\ ((Refused /\ Top.op = "transaction") \/ At("restore"))
          => \A o \in Needs(m_layout') : outputs'[o] # "none"
<1>1. ServiceInv /\ AloneInv /\ [Next]_vars => [Restored]_vars
  <2> SUFFICES ASSUME ServiceInv, AloneInv, Next,
                      backend = "embedded", listening, listening', frames' = << >>,
                      (Refused /\ Top.op = "transaction") \/ At("restore")
               PROVE  \A o \in Needs(m_layout') : outputs'[o] # "none"
    OBVIOUS
  <2>1. /\ frames # << >> /\ Top \in Frame /\ Below = << >>
        /\ Top.pc \in {"get", "set", "restore"} /\ ~Top.done /\ Top.op = "transaction"
        /\ m_layout \in Layout
    BY AloneView, TopWhere DEF Refused, At, ServiceInv, ValuesOK
  <2>2. CASE TransactionRefused
    <3>1. Top.previous = m_layout
      BY <2>1, <2>2 DEF TransactionRefused, Refused, At, AloneInv, FrameInv, TransactionInv
    <3> DEFINE f == [Start0 EXCEPT !.op = "transaction", !.layout = m_layout]
    <3>2. Prepare(<< >>, f, "restore", m_layout, << >>) /\ m_layout' = m_layout
      BY <2>1, <2>2, <3>1 DEF TransactionRefused, controllerVars
    <3>3. f \in Frame
      BY <2>1 DEF Frame, Start0
    <3> HIDE DEF f
    <3> QED BY <2>1, <3>2, <3>3, AlonePrepare
  <2>3. CASE RestoreEnds
    BY <2>1, <2>3 DEF RestoreEnds, At, AloneInv, FrameInv, TransactionInv, controllerVars, serverVars
  <2>4. CASE BeginRevert \/ Request
    BY <2>1, <2>4, AloneView DEF BeginRevert, Request, BeginTransaction, ConfirmLayout, Start, Push,
       Stop, ConfigureServer
  <2>5. CASE Crash \/ StartCrashes \/ StartFails
    BY <2>5 DEF Crash, StartCrashes, StartFails, StopServer
  <2>6. CASE \/ PrepareSucceeds \/ PrepareFails \/ TransactionApplied \/ TransactionSucceeds
             \/ ClientRefuses \/ TransactionLosesServer \/ Reverting \/ ReprepareEnds
             \/ RevertSucceeds \/ RevertFails \/ SecretsFail \/ SecretsRead \/ Launched \/ Listens
             \/ StartSucceeds
    BY <2>1, <2>6 DEF PrepareSucceeds, PrepareFails, TransactionApplied, Accepted,
       TransactionSucceeds, ClientRefuses, TransactionLosesServer, Reverting, ReprepareEnds,
       RevertSucceeds, RevertFails, SecretsFail, SecretsRead, Launched, Listens, StartSucceeds, At
  <2>7. CASE GetConfig
    <3>1. frames' = Append(<< >>, [Top EXCEPT !.pc = "set"])
      BY <2>1, <2>7 DEF GetConfig, Replace
    <3> QED BY <3>1, AlonePushed
  <2>8. ASSUME NEW k \in DOMAIN frames, SetConfig(k)
        PROVE  FALSE
    BY <2>1, <2>8 DEF SetConfig
  <2>9. CASE ChildExits \/ \E o \in Outputs, answer \in Answers : OutputAnswers(o, answer)
    BY <2>1, <2>9 DEF ChildExits, OutputAnswers
  <2> QED BY <2>2, <2>3, <2>4, <2>5, <2>6, <2>7, <2>8, <2>9 DEF Next, Continue
<1> QED BY <1>1, AloneHolds, ServiceInvHolds, PTL DEF Spec, RestoreBringsOutputsBack

-----------------------------------------------------------------------------
(* What is shown                                                             *)

(* What the handler that runs relies on, if the server listens or is being    *)
(* started: the outputs of the layout it takes to KScreen exist, and once     *)
(* KScreen has set them they show it.                                         *)
Scene(f) ==
    /\ f.pc \in {"prepare", "reprepare", "outputs", "get", "set"}
          => \A o \in Needs(f.layout) : outputs[o] # "none"
    /\ f.done \/ f.pc = "applied" => shown = f.layout

ShownInv ==
    frames # << >> /\ backend = "embedded" /\ (listening \/ Top.op = "start") => Scene(Top)

(* The step that ShownUnlessFailed is about.                                  *)
ShownStays ==
    backend = "embedded" /\ ShowsLayout /\ ~ShowsLayout'
        => PrepareFails \/ TransactionRefused \/ RestoreEnds \/ RevertFails

LEMMA BackendStays == [Next]_vars => backend' = backend
<1> SUFFICES ASSUME [Next]_vars
             PROVE  backend' = backend
  OBVIOUS
<1>1. CASE Request
  BY <1>1 DEF Request, BeginTransaction, ConfirmLayout, Start, Stop, ConfigureServer, StopServer,
     serverVars
<1>2. CASE Continue
  BY <1>2 DEF Continue, PrepareSucceeds, PrepareFails, GetConfig, TransactionRefused, RestoreEnds,
     TransactionApplied, TransactionSucceeds, ClientRefuses, TransactionLosesServer, Reverting,
     ReprepareEnds, RevertSucceeds, RevertFails, SecretsFail, SecretsRead, Launched, Listens,
     StartFails, StartSucceeds, StopServer, serverVars
<1>3. CASE BeginRevert \/ StartCrashes \/ ChildExits \/ Crash \/ UNCHANGED vars
  BY <1>3 DEF BeginRevert, StartCrashes, ChildExits, Crash, vars, serverVars
<1>4. CASE \E k \in DOMAIN frames : SetConfig(k)
  BY <1>4 DEF SetConfig
<1>5. CASE \E o \in Outputs, answer \in Answers : OutputAnswers(o, answer)
  BY <1>5 DEF OutputAnswers
<1> QED BY <1>1, <1>2, <1>3, <1>4, <1>5 DEF Next

(* The only handler goes on as f, ...                                         *)
LEMMA SceneGoesOn ==
    ASSUME NEW f, frames' # << >>, Top' = f, backend' = backend,
           backend = "embedded" /\ (listening' \/ f.op = "start")
              => /\ f.pc \in {"prepare", "reprepare", "outputs", "get", "set"}
                       => \A o \in Needs(f.layout) : outputs'[o] # "none"
                 /\ f.done \/ f.pc = "applied" => shown' = f.layout
    PROVE  ShownInv' /\ ShownStays
BY DEF ShownInv, Scene, ShownStays, ShowsLayout, Idle

(* ... or returns, and a server that listens shows the layout reported.       *)
LEMMA SceneEnds ==
    ASSUME frames' = << >>, backend = "embedded" /\ listening' => shown' = m_layout'
    PROVE  ShownInv' /\ ShownStays
BY DEF ShownInv, ShownStays, ShowsLayout, Idle

LEMMA ShownTransactions ==
    ASSUME MaxDepth = 1, ServiceInv, AloneInv, ShownInv, backend' = backend,
           \/ \E l \in Layout, temporary, client \in BOOLEAN : BeginTransaction(l, temporary, client)
           \/ PrepareSucceeds \/ PrepareFails \/ TransactionRefused \/ RestoreEnds
           \/ TransactionApplied \/ TransactionSucceeds
    PROVE  ShownInv' /\ ShownStays
<1>0. /\ Dispatches => frames = << >>
      /\ frames # << >> => Top \in GoodFrame /\ Top \in Frame /\ Below = << >>
      /\ m_layout \in Layout
  BY AloneView DEF ServiceInv, ValuesOK
<1>1. ASSUME NEW l \in Layout, NEW temporary \in BOOLEAN, NEW client \in BOOLEAN,
             BeginTransaction(l, temporary, client)
      PROVE  ShownInv' /\ ShownStays
  <2> DEFINE f == [Start0 EXCEPT !.op = "transaction", !.layout = l, !.previous = m_layout,
                                 !.temporary = temporary, !.client = client]
             ask == Asking(f, l)
  <2>1. /\ frames = << >> /\ listening' = listening
        /\ \/ Prepare(<< >>, f, "prepare", l, <<ask>>)
           \/ frames' = Append(<< >>, ask) /\ ~listening
    BY <1>0, <1>1 DEF BeginTransaction, Push
  <2>2. f \in Frame /\ f.op = "transaction" /\ f.layout = l /\ f.done = FALSE
    BY <1>0 DEF Frame, Start0
  <2>3. ask.op = "transaction" /\ ask.pc = "get" /\ ask.layout = l /\ ask.done = FALSE
    BY <2>2, AskingFields
  <2>4. \A p \in SUBSET Outputs :
           LET w == WaitsFor(f, "prepare", p)
           IN  w.op = "transaction" /\ w.pc = "prepare" /\ w.layout = l /\ w.done = FALSE
    <3> HIDE DEF f
    <3> QED BY <2>2 DEF Frame, WaitsFor
  <2> HIDE DEF f, ask
  <2>5. CASE frames' = Append(<< >>, ask) /\ ~listening
    <3>1. frames' # << >> /\ Top' = ask
      BY <2>5, AlonePushed
    <3> QED BY <2>1, <2>3, <2>5, <3>1, SceneGoesOn
  <2>6. CASE backend = "embedded" /\ Prepare(<< >>, f, "prepare", l, <<ask>>)
    <3>1. /\ \A o \in Needs(l) : outputs'[o] # "none"
          /\ \/ \E p \in SUBSET Outputs : frames' # << >> /\ Top' = WaitsFor(f, "prepare", p)
             \/ frames' = << >> \o <<ask>>
      BY <2>2, <2>6, AloneEnsures
    <3>2. CASE frames' = << >> \o <<ask>>
      <4>1. frames' # << >> /\ Top' = ask
        BY <3>2, AlonePushed
      <4> QED BY <2>3, <3>1, <4>1, SceneGoesOn
    <3>3. ASSUME NEW p \in SUBSET Outputs, frames' # << >>, Top' = WaitsFor(f, "prepare", p)
          PROVE  ShownInv' /\ ShownStays
      <4> DEFINE w == WaitsFor(f, "prepare", p)
      <4>1. w.op = "transaction" /\ w.pc = "prepare" /\ w.layout = l /\ w.done = FALSE
        BY <2>4
      <4> HIDE DEF w
      <4> QED BY <3>1, <3>3, <4>1, SceneGoesOn DEF w
    <3> QED BY <3>1, <3>2, <3>3
  <2>7. CASE backend # "embedded"
    BY <2>7 DEF ShownInv, ShownStays
  <2> QED BY <2>1, <2>5, <2>6, <2>7
<1>2. CASE PrepareSucceeds
  <2> DEFINE ask == Asking(Top, Top.layout)
  <2>1. /\ frames # << >> /\ Top.pc = "prepare" /\ frames' = Append(<< >>, ask)
        /\ UNCHANGED <<listening, outputs>>
    BY <1>0, <1>2 DEF PrepareSucceeds, At, Replace, serverVars
  <2>2. Top.op = "transaction" /\ Top.layout \in Layout
    BY <2>1, TopWhere
  <2>3. /\ ask.op = "transaction" /\ ask.pc = "get" /\ ask.layout = Top.layout
        /\ ask.done = FALSE
    BY <1>0, <2>1, <2>2, AskingFields
  <2> HIDE DEF ask
  <2>4. frames' # << >> /\ Top' = ask
    BY <2>1, AlonePushed
  <2>5. backend = "embedded" /\ listening => \A o \in Needs(Top.layout) : outputs'[o] # "none"
    BY <2>1 DEF ShownInv, Scene
  <2> QED BY <2>1, <2>3, <2>4, <2>5, SceneGoesOn
<1>3. CASE PrepareFails \/ RestoreEnds
  <2>1. frames' = << >>
    BY <1>0, <1>3 DEF PrepareFails, RestoreEnds, At, Pop
  <2> QED BY <1>3, <2>1 DEF ShownInv, ShownStays
<1>4. CASE TransactionRefused
  <2> DEFINE f == [Start0 EXCEPT !.op = "transaction", !.layout = Top.previous]
  <2>1. /\ frames # << >> /\ Top.pc \in {"get", "set"} /\ ~Top.done /\ Top.op = "transaction"
        /\ \/ Prepare(<< >>, f, "restore", Top.previous, << >>)
           \/ frames' = << >>
    BY <1>0, <1>4 DEF TransactionRefused, Refused, At, Pop
  <2>2. Top.previous \in Layout
    BY <1>0, <2>1 DEF GoodFrame
  <2>3. f \in Frame /\ f.op = "transaction" /\ f.done = FALSE
    BY <2>2 DEF Frame, Start0
  <2> HIDE DEF f
  <2>4. CASE frames' = << >>
    BY <1>4, <2>4 DEF ShownInv, ShownStays
  <2>5. CASE backend = "embedded" /\ Prepare(<< >>, f, "restore", Top.previous, << >>)
    <3>1. \/ \E p \in SUBSET Outputs : frames' # << >> /\ Top' = WaitsFor(f, "restore", p)
          \/ frames' = << >>
      <4>1. \/ \E p \in SUBSET Outputs : frames' # << >> /\ Top' = WaitsFor(f, "restore", p)
            \/ frames' = << >> \o << >>
        BY <2>2, <2>3, <2>5, AloneEnsures
      <4>2. << >> \o << >> = << >>
        OBVIOUS
      <4> QED BY <4>1, <4>2
    <3>2. ASSUME NEW p \in SUBSET Outputs, frames' # << >>, Top' = WaitsFor(f, "restore", p)
          PROVE  ShownInv' /\ ShownStays
      <4> DEFINE w == WaitsFor(f, "restore", p)
      <4>1. w.op = "transaction" /\ w.pc = "restore" /\ w.done = FALSE
        BY <2>3 DEF Frame, WaitsFor
      <4> HIDE DEF w
      <4> QED BY <3>2, <4>1, SceneGoesOn DEF w
    <3> QED BY <2>4, <3>1, <3>2
  <2>6. CASE backend # "embedded"
    BY <2>6 DEF ShownInv, ShownStays
  <2> QED BY <2>1, <2>4, <2>5, <2>6
<1>5. CASE TransactionApplied
  <2> DEFINE f == [Top EXCEPT !.pc = "applied", !.previous = NoLayout, !.done = FALSE]
  <2>1. /\ frames # << >> /\ Top.done /\ Top.op = "transaction"
        /\ frames' = Append(<< >>, f) /\ UNCHANGED <<listening, shown>>
    BY <1>0, <1>5 DEF TransactionApplied, Accepted, At, Replace, serverVars
  <2>2. /\ f.op = "transaction" /\ f.pc = "applied" /\ f.layout = Top.layout /\ f.done = FALSE
    BY <1>0, <2>1 DEF Frame
  <2> HIDE DEF f
  <2>3. frames' # << >> /\ Top' = f
    BY <2>1, AlonePushed
  <2> QED BY <2>1, <2>2, <2>3, SceneGoesOn DEF ShownInv, Scene
<1>6. CASE TransactionSucceeds
  <2>1. /\ frames # << >> /\ Top.pc = "applied" /\ frames' = << >>
        /\ UNCHANGED <<m_layout, listening, shown>>
    BY <1>0, <1>6 DEF TransactionSucceeds, UpdateLayout, Keep, controllerVars, At, Pop
  <2>2. Top.op = "transaction"
    BY <2>1, TopWhere
  <2>3. Top.layout = m_layout
    BY <2>1, <2>2 DEF AloneInv, FrameInv, TransactionInv
  <2> QED BY <2>1, <2>3, SceneEnds DEF ShownInv, Scene
<1> QED BY <1>1, <1>2, <1>3, <1>4, <1>5, <1>6

LEMMA ShownReverts ==
    ASSUME MaxDepth = 1, ServiceInv, AloneInv, ShownInv, backend' = backend,
           \/ BeginRevert \/ ClientRefuses \/ TransactionLosesServer
           \/ Reverting \/ ReprepareEnds \/ RevertSucceeds \/ RevertFails
    PROVE  ShownInv' /\ ShownStays
<1>0. /\ Dispatches => frames = << >>
      /\ frames # << >> => Top \in GoodFrame /\ Top \in Frame /\ Below = << >>
      /\ m_previousLayout \in Layout
  BY AloneView DEF ServiceInv, ValuesOK
<1>1. CASE BeginRevert \/ ClientRefuses \/ TransactionLosesServer
  <2> DEFINE f == [Start0 EXCEPT !.op = "revert", !.pc = "reverting",
                                 !.layout = m_previousLayout]
  <2>1. frames' = Append(<< >>, f)
    BY <1>0, <1>1 DEF BeginRevert, Push, ClientRefuses, TransactionLosesServer, At, Rollback,
       Replace
  <2>2. f.op = "revert" /\ f.pc = "reverting" /\ f.done = FALSE
    BY DEF Start0
  <2> HIDE DEF f
  <2>3. frames' # << >> /\ Top' = f
    BY <2>1, AlonePushed
  <2> QED BY <2>2, <2>3, SceneGoesOn
<1> DEFINE ask == Asking(Top, m_previousLayout)
<1>2. ASSUME frames # << >>, Top.op = "revert",
             frames' = Append(<< >>, ask) \/ frames' = << >> \o <<ask>>,
             backend = "embedded" /\ listening'
                => \A o \in Needs(m_previousLayout) : outputs'[o] # "none"
      PROVE  ShownInv' /\ ShownStays
  <2>1. ask.op = "revert" /\ ask.pc = "get" /\ ask.layout = m_previousLayout /\ ask.done = FALSE
    BY <1>0, <1>2, AskingFields
  <2> HIDE DEF ask
  <2>2. frames' # << >> /\ Top' = ask
    BY <1>2, AlonePushed
  <2> QED BY <1>2, <2>1, <2>2, SceneGoesOn
<1>3. CASE Reverting
  <2>1. /\ frames # << >> /\ Top.pc = "reverting" /\ listening' = listening
        /\ \/ Prepare(<< >>, Top, "reprepare", Top.layout, <<ask>>)
           \/ frames' = << >> \o <<ask>> /\ ~listening
    BY <1>0, <1>3 DEF Reverting, At
  <2>2. Top.op = "revert" /\ ~Top.done /\ Top.layout = m_previousLayout
    BY <2>1, TopWhere DEF AloneInv, FrameInv, RevertInv
  <2> HIDE DEF ask
  <2>3. CASE backend = "embedded" /\ Prepare(<< >>, Top, "reprepare", Top.layout, <<ask>>)
    <3>1. /\ \A o \in Needs(m_previousLayout) : outputs'[o] # "none"
          /\ \/ \E p \in SUBSET Outputs : frames' # << >> /\ Top' = WaitsFor(Top, "reprepare", p)
             \/ frames' = << >> \o <<ask>>
      BY <1>0, <2>1, <2>2, <2>3, AloneEnsures
    <3>2. ASSUME NEW p \in SUBSET Outputs, frames' # << >>, Top' = WaitsFor(Top, "reprepare", p)
          PROVE  ShownInv' /\ ShownStays
      <4> DEFINE w == WaitsFor(Top, "reprepare", p)
      <4>1. w.op = "revert" /\ w.pc = "reprepare" /\ w.layout = m_previousLayout /\ ~w.done
        BY <1>0, <2>1, <2>2 DEF Frame, WaitsFor
      <4> HIDE DEF w
      <4> QED BY <3>1, <3>2, <4>1, SceneGoesOn DEF w
    <3> QED BY <1>2, <2>1, <2>2, <3>1, <3>2
  <2>4. CASE frames' = << >> \o <<ask>> /\ ~listening
    BY <1>2, <2>1, <2>2, <2>4
  <2>5. CASE backend # "embedded"
    BY <2>5 DEF ShownInv, ShownStays
  <2> QED BY <2>1, <2>3, <2>4, <2>5
<1>4. CASE ReprepareEnds
  <2>1. /\ frames # << >> /\ Top.pc = "reprepare" /\ frames' = Append(<< >>, ask)
        /\ UNCHANGED <<listening, outputs>>
    BY <1>0, <1>4 DEF ReprepareEnds, At, Replace, serverVars
  <2>2. Top.op = "revert" /\ Top.layout = m_previousLayout
    BY <2>1, TopWhere DEF AloneInv, FrameInv, RevertInv
  <2>3. backend = "embedded" /\ listening
           => \A o \in Needs(m_previousLayout) : outputs'[o] # "none"
    BY <2>1, <2>2 DEF ShownInv, Scene
  <2> QED BY <1>2, <2>1, <2>2, <2>3
<1>5. CASE RevertSucceeds
  <2>1. /\ frames # << >> /\ Top.done /\ Top.op = "revert" /\ frames' = << >>
        /\ m_layout' = m_previousLayout /\ shown' = shown
        /\ backend = "embedded" => listening' = listening
    BY <1>0, <1>5 DEF RevertSucceeds, Accepted, At, Pop, UpdateLayout, RelaunchFails
  <2>2. Top.layout = m_previousLayout
    BY <2>1 DEF AloneInv, FrameInv, RevertInv
  <2> QED BY <2>1, <2>2, SceneEnds DEF ShownInv, Scene
<1>6. CASE RevertFails
  <2>1. frames' = << >>
    BY <1>0, <1>6 DEF RevertFails, Refused, At, Pop
  <2> QED BY <1>6, <2>1 DEF ShownInv, ShownStays
<1> QED BY <1>1, <1>3, <1>4, <1>5, <1>6

LEMMA ShownStarts ==
    ASSUME MaxDepth = 1, ServiceInv, AloneInv, ShownInv, backend' = backend,
           \/ Start \/ ConfigureServer \/ SecretsFail \/ SecretsRead \/ Launched \/ Listens
           \/ StartFails \/ StartSucceeds
    PROVE  ShownInv' /\ ShownStays
<1>0. /\ Len(frames) < MaxDepth => frames = << >>
      /\ frames # << >> => Top \in GoodFrame /\ Top \in Frame /\ Below = << >>
      /\ m_layout \in Layout /\ Freed(<< >>, Outputs) = << >>
  BY AloneView, AloneFreed DEF ServiceInv, ValuesOK
<1>1. CASE Start \/ ConfigureServer
  <2>1. frames' = Append(<< >>, Start0)
    <3>1. CASE Start
      BY <1>0, <3>1 DEF Start, Push
    <3>2. CASE ConfigureServer
      <4>1. frames = << >> /\ frames' = Append(Freed(frames, Outputs), Start0)
        BY <1>0, <3>2 DEF ConfigureServer
      <4> QED BY <1>0, <4>1
    <3> QED BY <1>1, <3>1, <3>2
  <2>2. Start0.op = "start" /\ Start0.pc = "secrets" /\ Start0.done = FALSE
    BY DEF Start0
  <2>3. frames' # << >> /\ Top' = Start0
    BY <2>1, AlonePushed
  <2> QED BY <2>2, <2>3, SceneGoesOn
<1>2. CASE SecretsFail
  <2>1. frames # << >> /\ Top.pc = "secrets" /\ frames' = << >> /\ listening' = listening
    BY <1>0, <1>2 DEF SecretsFail, At, Pop, serverVars
  <2>2. ~listening
    BY <2>1, TopWhere DEF AloneInv, FrameInv, StartInv
  <2> QED BY <2>1, <2>2, SceneEnds
<1>3. CASE SecretsRead
  <2> DEFINE f == [Top EXCEPT !.pc = "outputs", !.layout = m_layout, !.pending = Needs(m_layout)]
  <2>1. /\ frames # << >> /\ Top.pc = "secrets" /\ frames' = Append(<< >>, f)
        /\ outputs' = [o \in Outputs |-> IF o \in Needs(m_layout) THEN "starting" ELSE "none"]
    BY <1>0, <1>3 DEF SecretsRead, At
  <2>2. ~Top.done
    BY <2>1, TopWhere
  <2>3. f.pc = "outputs" /\ f.layout = m_layout /\ ~f.done
    BY <1>0, <2>1, <2>2 DEF Frame
  <2>4. frames' # << >> /\ Top' = f
    BY <2>1, AlonePushed
  <2>5. \A o \in Needs(m_layout) : outputs'[o] # "none"
    BY <1>0, <2>1, OutputAssumption
  <2> HIDE DEF f
  <2> QED BY <2>3, <2>4, <2>5, SceneGoesOn
<1>4. CASE Launched
  BY <1>4 DEF Launched, ShownInv, ShownStays
<1>5. CASE Listens
  <2> DEFINE ask == Asking(Top, m_layout)
  <2>1. /\ frames # << >> /\ Top.pc = "outputs" /\ frames' = Append(<< >>, ask)
        /\ outputs' = outputs
    BY <1>0, <1>5 DEF Listens, At, Replace
  <2>2. Top.op = "start"
    BY <2>1, TopWhere
  <2>3. Top.layout = m_layout
    BY <2>1, <2>2 DEF AloneInv, FrameInv, StartInv
  <2>4. ask.op = "start" /\ ask.pc = "get" /\ ask.layout = m_layout /\ ask.done = FALSE
    BY <1>0, <2>1, <2>2, AskingFields
  <2>5. frames' # << >> /\ Top' = ask
    BY <2>1, AlonePushed
  <2> HIDE DEF ask
  <2>6. backend = "embedded" => \A o \in Needs(m_layout) : outputs'[o] # "none"
    BY <2>1, <2>2, <2>3 DEF ShownInv, Scene
  <2> QED BY <2>4, <2>5, <2>6, SceneGoesOn
<1>6. CASE StartFails
  <2>1. frames' = << >> /\ ~listening'
    BY <1>0, <1>6 DEF StartFails, StopServer, Refused, At
  <2> QED BY <2>1, SceneEnds
<1>7. CASE StartSucceeds
  <2>1. /\ frames # << >> /\ Top.done /\ Top.op = "start" /\ frames' = << >>
        /\ m_layout' = Top.layout /\ UNCHANGED <<shown, listening>>
    BY <1>0, <1>7 DEF StartSucceeds, Accepted, At, Pop, serverVars
  <2> QED BY <2>1, SceneEnds DEF ShownInv, Scene
<1> QED BY <1>1, <1>2, <1>3, <1>4, <1>5, <1>6, <1>7

LEMMA ShownOthers ==
    ASSUME MaxDepth = 1, ServiceInv, AloneInv, ShownInv, backend' = backend,
           \/ ConfirmLayout \/ Stop \/ GetConfig \/ Crash \/ ChildExits
           \/ \E k \in DOMAIN frames : SetConfig(k)
           \/ \E o \in Outputs, answer \in Answers : OutputAnswers(o, answer)
           \/ UNCHANGED vars
    PROVE  ShownInv' /\ ShownStays
<1>0. /\ Dispatches => frames = << >>
      /\ frames # << >> => /\ Top \in GoodFrame /\ Top \in Frame /\ Below = << >>
                           /\ Len(frames) = 1 /\ frames[1] = Top
      /\ Freed(<< >>, Outputs) = << >>
  BY AloneView, AloneFreed
<1>1. ASSUME UNCHANGED <<m_layout, listening, shown, frames>>,
             \A o \in Outputs : outputs[o] # "none" => outputs'[o] # "none"
      PROVE  ShownInv' /\ ShownStays
  <2>1. Top' = Top
    BY <1>1 DEF Top, Last
  <2>2. frames # << >> /\ Top.pc # "secrets" => Needs(Top.layout) \subseteq Outputs
    BY <1>0, OutputAssumption DEF GoodFrame
  <2> QED BY <1>1, <2>1, <2>2 DEF ShownInv, Scene, ShownStays, ShowsLayout, Idle
<1>2. CASE ConfirmLayout
  BY <1>0, <1>1, <1>2 DEF ConfirmLayout, Keep, serverVars
<1>3. CASE Stop
  <2>1. frames' = << >> /\ ~listening'
    BY <1>0, <1>3 DEF Stop, StopServer
  <2> QED BY <2>1, SceneEnds
<1>4. CASE GetConfig
  <2> DEFINE f == [Top EXCEPT !.pc = "set"]
  <2>1. /\ frames # << >> /\ Top.pc = "get" /\ frames' = Append(<< >>, f)
        /\ UNCHANGED <<outputs, listening, shown>>
    BY <1>0, <1>4 DEF GetConfig, At, Replace, serverVars
  <2>2. ~Top.done
    BY <2>1, TopWhere
  <2>3. f.op = Top.op /\ f.pc = "set" /\ f.layout = Top.layout /\ ~f.done
    BY <1>0, <2>1, <2>2 DEF Frame
  <2> HIDE DEF f
  <2>4. frames' # << >> /\ Top' = f
    BY <2>1, AlonePushed
  <2> QED BY <2>1, <2>3, <2>4, SceneGoesOn DEF ShownInv, Scene
<1>5. CASE Crash
  <2>1. frames' = << >> /\ ~listening'
    BY <1>5 DEF Crash
  <2> QED BY <2>1, SceneEnds
<1>6. CASE ChildExits
  BY <1>6 DEF ChildExits, ShownInv, ShownStays
<1>7. ASSUME NEW k \in DOMAIN frames, SetConfig(k)
      PROVE  ShownInv' /\ ShownStays
  <2> DEFINE f == [Top EXCEPT !.done = TRUE]
  <2>1. frames # << >> /\ k = 1
    <3>1. frames \in Seq(GoodFrame) /\ DOMAIN frames = 1 .. Len(frames)
      BY LenProperties DEF ServiceInv, StackOK
    <3>2. frames # << >>
      BY <1>7
    <3> QED BY <1>0, <3>1, <3>2
  <2>2. /\ Top.pc = "set" /\ frames' = [frames EXCEPT ![1] = f]
        /\ shown' = IF /\ backend = "embedded"
                       /\ \A o \in Needs(Top.layout) : outputs[o] # "none"
                    THEN Top.layout ELSE NoLayout
        /\ UNCHANGED <<listening, outputs>>
    BY <1>0, <1>7, <2>1 DEF SetConfig
  <2>3. frames' # << >> /\ Top' = f
    <3>1. frames \in Seq(GoodFrame) /\ DOMAIN frames = 1 .. 1
      BY <1>0, <2>1, LenProperties DEF ServiceInv, StackOK
    <3> HIDE DEF f
    <3>2. frames = <<frames[1]>>
      BY <1>0, <2>1, <3>1
    <3>3. frames' = <<f>>
      BY <2>2, <3>2
    <3> QED BY <3>3 DEF Top, Last
  <2>4. f.op = Top.op /\ f.pc = "set" /\ f.layout = Top.layout
    BY <1>0, <2>1, <2>2 DEF Frame
  <2> HIDE DEF f
  <2> QED BY <2>1, <2>2, <2>3, <2>4, SceneGoesOn DEF ShownInv, Scene
<1>8. ASSUME NEW o \in Outputs, NEW answer \in Answers, OutputAnswers(o, answer)
      PROVE  ShownInv' /\ ShownStays
  <2>1. /\ outputs' = [outputs EXCEPT ![o] = answer] /\ answer # "none"
        /\ UNCHANGED <<m_layout, listening, shown, frames>>
    BY <1>8, ServiceAssumption DEF OutputAnswers, controllerVars
  <2>2. \A p \in Outputs : outputs[p] # "none" => outputs'[p] # "none"
    BY <2>1 DEF ServiceInv, ValuesOK
  <2> QED BY <1>1, <2>1, <2>2
<1>9. CASE UNCHANGED vars
  BY <1>1, <1>9 DEF vars, controllerVars, serverVars
<1> QED BY <1>2, <1>3, <1>4, <1>5, <1>6, <1>7, <1>8, <1>9

(* Where handlers do not overlap, an embedded server that shows the layout it *)
(* reports goes on showing it through every request, confirmation, timer and  *)
(* answer of KWin, and shows the new one whenever a layout is adopted: what   *)
(* ends it is a transaction or a revert that fails.  It needs that the        *)
(* outputs are prepared before KScreen is asked, also by a revert, and that   *)
(* nothing destroys one in between.                                           *)
THEOREM AloneShows == MaxDepth = 1 /\ Spec => ShownUnlessFailed
<1> SUFFICES ASSUME MaxDepth = 1
             PROVE  Spec => ShownUnlessFailed
  OBVIOUS
<1>1. Init => ShownInv
  BY DEF Init, Booted, ShownInv
<1>2. ServiceInv /\ AloneInv /\ ShownInv /\ [Next]_vars => ShownInv' /\ ShownStays
  <2> SUFFICES ASSUME ServiceInv, AloneInv, ShownInv, [Next]_vars
               PROVE  ShownInv' /\ ShownStays
    OBVIOUS
  <2>0. backend' = backend
    BY BackendStays
  <2>1. CASE Request
    BY <2>0, <2>1, ShownTransactions, ShownStarts, ShownOthers DEF Request
  <2>2. CASE Continue
    BY <2>0, <2>2, ShownTransactions, ShownReverts, ShownStarts, ShownOthers DEF Continue
  <2>3. CASE BeginRevert
    BY <2>0, <2>3, ShownReverts
  <2>4. CASE StartCrashes
    BY <2>0, <2>4, ShownOthers DEF StartCrashes
  <2> QED BY <2>0, <2>1, <2>2, <2>3, <2>4, ShownOthers DEF Next
<1> QED BY <1>1, <1>2, AloneHolds, ServiceInvHolds, PTL
        DEF Spec, ShownUnlessFailed, ShownStays

=============================================================================
