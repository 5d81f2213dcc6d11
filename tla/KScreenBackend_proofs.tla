------------------------- MODULE KScreenBackend_proofs -------------------------
(***************************************************************************)
(* Theorems about KScreenBackend, for any layouts and any outputs of KWin. *)
(***************************************************************************)
EXTENDS KScreenBackend, SequenceTheorems, WellFoundedInduction, TLAPS

(* The first output of some is one of them.                                  *)
LEMMA FirstIsOne ==
    ASSUME NEW outputs, outputs \subseteq Nat, outputs # {}
    PROVE  First(outputs) \in outputs
<1> DEFINE less == {ss \in Nat \X Nat : ss[1] < ss[2]}
<1>1. IsWellFoundedOn(less, Nat)
  BY NatLessThanWellFounded DEF OpToRel
<1>2. \A p, o \in Nat : p < o => <<p, o>> \in less
  OBVIOUS
<1> HIDE DEF less
<1>3. PICK o \in outputs : \A p \in outputs : ~(<<p, o>> \in less)
  BY <1>1, WFMin
<1>4. ASSUME NEW p \in outputs
      PROVE  o <= p
  <2>1. p \in Nat /\ o \in Nat /\ ~(<<p, o>> \in less)
    BY <1>3
  <2>2. ~(p < o)
    BY <1>2, <2>1
  <2> QED BY <2>1, <2>2
<1> QED BY <1>4 DEF First

-----------------------------------------------------------------------------
(* One turn of the loop                                                      *)

Turn(n) == [config : [1..n -> Output], used : SUBSET (1..n), missing : BOOLEAN]

(* No candidate is found, and the turn changes nothing but missing.          *)
FindsNone(old, new, monitor) ==
    /\ Named(monitor, old.config) = {}
    /\ new.config = old.config /\ new.used = old.used
    /\ new.missing <=> old.missing \/ monitor.enabled

(* Or output o is taken: one named after the monitor, or one not in use.     *)
Takes(old, new, monitor, o) ==
    /\ \/ o \in Named(monitor, old.config)
       \/ Named(monitor, old.config) = {} /\ o \notin old.used
    /\ new.missing <=> old.missing
    /\ new.used = old.used \cup {o}
    /\ new.config[o].enabled <=> monitor.enabled
    /\ monitor.enabled => new.config[o].shows = monitor.id
    /\ \A p \in DOMAIN old.config : p # o => new.config[p] = old.config[p]

(* One turn of the loop takes an output or finds none.                       *)
LEMMA ArrangeStep ==
    ASSUME NEW n \in Nat, NEW old \in Turn(n),
           NEW monitor, monitor.id \in Ids, monitor.enabled \in BOOLEAN
    PROVE  /\ Arrange(old, monitor) \in Turn(n)
           /\ \A p \in 1..n : Arrange(old, monitor).config[p].name = old.config[p].name
           /\ \/ FindsNone(old, Arrange(old, monitor), monitor)
              \/ \E o \in 1..n : Takes(old, Arrange(old, monitor), monitor, o)
<1> DEFINE found == Candidates(monitor, old.config, old.used)
           o == First(found)
           new == Arrange(old, monitor)
           Names == {output.name : output \in Outputs}
           Shows == Ids \cup {output.shows : output \in Outputs}
<1>1. /\ old.config \in [1..n -> Output] /\ old.used \subseteq 1..n
      /\ old.missing \in BOOLEAN
      /\ old = [config |-> old.config, used |-> old.used, missing |-> old.missing]
  BY DEF Turn
<1>2. /\ Named(monitor, old.config) \subseteq 1..n
      /\ Spare(old.config, old.used) \subseteq 1..n
      /\ 1..n \subseteq Nat
  BY <1>1 DEF Named, Spare
<1>3. CASE found = {}
  <2>1. Named(monitor, old.config) = {}
    BY <1>3 DEF Candidates
  <2>2. new = [old EXCEPT !.missing = @ \/ monitor.enabled]
    BY <1>3 DEF Arrange
  <2> HIDE DEF new
  <2>3. /\ new.config = old.config /\ new.used = old.used
        /\ new.missing = (old.missing \/ monitor.enabled)
        /\ new \in Turn(n)
    BY <1>1, <2>2 DEF Turn
  <2> QED BY <2>1, <2>3 DEF FindsNone, new
<1>4. CASE found # {}
  <2>1. /\ o \in 1..n
        /\ \/ o \in Named(monitor, old.config)
           \/ Named(monitor, old.config) = {} /\ o \notin old.used
    <3>1. CASE Named(monitor, old.config) # {}
      <4>1. First(Named(monitor, old.config)) \in Named(monitor, old.config)
        BY <1>2, <3>1, FirstIsOne
      <4>2. found = {First(Named(monitor, old.config))}
        BY <3>1 DEF Candidates
      <4>3. o \in found
        BY <1>2, <4>1, <4>2, FirstIsOne
      <4> QED BY <1>2, <4>1, <4>2, <4>3
    <3>2. CASE Named(monitor, old.config) = {}
      <4>1. found = {First(Spare(old.config, old.used))} /\ Spare(old.config, old.used) # {}
        BY <1>4, <3>2 DEF Candidates
      <4>2. First(Spare(old.config, old.used)) \in Spare(old.config, old.used)
        BY <1>2, <4>1, FirstIsOne
      <4>3. o \in found
        BY <1>2, <4>1, <4>2, FirstIsOne
      <4> QED BY <1>2, <3>2, <4>1, <4>2, <4>3 DEF Spare
    <3> QED BY <3>1, <3>2
  <2>2. new = [old EXCEPT
                  !.used = @ \cup {o},
                  !.config[o].enabled = monitor.enabled,
                  !.config[o].shows = IF monitor.enabled THEN monitor.id ELSE @]
    BY <1>4 DEF Arrange
  <2> HIDE DEF new, o
  <2> DEFINE put == [[old.config[o] EXCEPT !.enabled = monitor.enabled]
                        EXCEPT !.shows = IF monitor.enabled THEN monitor.id ELSE @]
  <2>3. new = [config |-> [old.config EXCEPT ![o] = put], used |-> old.used \cup {o},
               missing |-> old.missing]
    <3> DEFINE mid == [old.config EXCEPT ![o].enabled = monitor.enabled]
               arranged == [mid EXCEPT ![o].shows =
                               IF monitor.enabled THEN monitor.id ELSE @]
    <3>1. new = [config |-> arranged, used |-> old.used \cup {o}, missing |-> old.missing]
      BY <1>1, <2>2
    <3>2. mid = [old.config EXCEPT ![o] = [old.config[o] EXCEPT !.enabled = monitor.enabled]]
      OBVIOUS
    <3>3. mid \in [1..n -> Output] /\ mid[o] = [old.config[o] EXCEPT !.enabled = monitor.enabled]
      BY <1>1, <2>1, <3>2 DEF Output
    <3>4. arranged = [mid EXCEPT ![o] = put]
      BY <3>3
    <3>5. [mid EXCEPT ![o] = put] = [old.config EXCEPT ![o] = put]
      BY <1>1, <2>1, <3>2
    <3> QED BY <3>1, <3>4, <3>5
  <2>4. /\ old.config[o] \in Output
        /\ put \in Output /\ put.name = old.config[o].name
        /\ put.enabled = monitor.enabled
        /\ monitor.enabled => put.shows = monitor.id
    BY <1>1, <2>1 DEF Output
  <2> HIDE DEF put
  <2>5. new \in Turn(n)
    BY <1>1, <2>1, <2>3, <2>4 DEF Turn
  <2>6. /\ new.config[o] = put
        /\ \A p \in 1..n : p # o => new.config[p] = old.config[p]
    BY <1>1, <2>1, <2>3
  <2>7. new.missing = old.missing /\ new.used = old.used \cup {o}
    BY <2>3
  <2>8. Takes(old, new, monitor, o)
    <3>1. new.missing <=> old.missing
      BY <2>7
    <3>2. new.config[o].enabled <=> monitor.enabled
      BY <2>4, <2>6
    <3>3. monitor.enabled => new.config[o].shows = monitor.id
      BY <2>4, <2>6
    <3>4. \A p \in DOMAIN old.config : p # o => new.config[p] = old.config[p]
      BY <1>1, <2>6
    <3> QED BY <2>1, <2>7, <3>1, <3>2, <3>3, <3>4 DEF Takes
  <2> QED BY <2>1, <2>4, <2>5, <2>6, <2>8 DEF new
<1> QED BY <1>3, <1>4

-----------------------------------------------------------------------------
(* The inductive invariant                                                   *)

(* The monitors of a layout that validate() accepts.                         *)
LEMMA Monitor ==
    ASSUME NEW monitors \in Monitors
    PROVE  /\ Len(monitors) \in Nat /\ DOMAIN monitors = 1..Len(monitors)
           /\ \A k \in 1..Len(monitors) :
                 monitors[k].id \in Ids /\ monitors[k].enabled \in BOOLEAN
           /\ \A j, k \in 1..Len(monitors) : monitors[j].id = monitors[k].id => j = k
<1> DEFINE Names == {monitors[k].name : k \in DOMAIN monitors}
           S == [id : Ids, enabled : BOOLEAN, name : Names]
<1>1. monitors \in Seq(S)
  BY KScreenAssumption
<1>2. \A m \in S : m.id \in Ids /\ m.enabled \in BOOLEAN
  OBVIOUS
<1>3. \A j, k \in DOMAIN monitors : monitors[j].id = monitors[k].id => j = k
  BY KScreenAssumption
<1> HIDE DEF S
<1>4. Len(monitors) \in Nat /\ DOMAIN monitors = 1..Len(monitors)
  BY <1>1, LenProperties
<1>5. \A k \in 1..Len(monitors) : monitors[k] \in S
  BY <1>1, ElementOfSeq
<1> QED BY <1>2, <1>3, <1>4, <1>5

(* A function on 1..n is a sequence of length n.                             *)
LEMMA FunctionIsSeq ==
    ASSUME NEW S, NEW n \in Nat, NEW f \in [1..n -> S]
    PROVE  f \in Seq(S) /\ Len(f) = n
<1>1. f \in Seq(S)
  BY SeqDef
<1>2. DOMAIN f = 1..n /\ DOMAIN f = 1..Len(f) /\ Len(f) \in Nat
  BY <1>1, LenProperties
<1>3. Len(f) = n
  BY <1>2
<1> QED BY <1>1, <1>3

(* KWin's outputs as KScreen reports them.                                   *)
LEMMA Configuration ==
    ASSUME NEW config \in Configs
    PROVE  Len(config) \in Nat /\ config \in [1..Len(config) -> Output]
<1>1. config \in Seq(Output)
  BY KScreenAssumption
<1>2. Len(config) \in Nat /\ DOMAIN config = 1..Len(config)
  BY <1>1, LenProperties
<1>3. \A k \in 1..Len(config) : config[k] \in Output
  BY <1>1, ElementOfSeq
<1>4. config = [k \in 1..Len(config) |-> config[k]]
  BY <1>1, SeqDef, <1>2
<1> QED BY <1>2, <1>3, <1>4

n == Len(before)

KTypes ==
    /\ layout \in Monitors
    /\ before \in Configs
    /\ kwin \in [1..n -> Output]
    /\ turn \in Turn(n)
    /\ pc \in {"get", "loop", "set", "true", "false"}
    /\ next \in 1..(Len(layout) + 1)

(* Where the call is says what has been done.                                *)
Progress ==
    /\ pc = "get" => next = 1
    /\ pc # "true" => kwin = before
    /\ pc = "true" => kwin = turn.config
    /\ pc \in {"set", "true"} => next = Len(layout) + 1
    /\ pc \in {"get", "loop", "set", "true"} => ~turn.missing
    /\ \A o \in 1..n : turn.config[o].name = before[o].name

(* Monitor k has an output that no later monitor can take away.              *)
Has(k, o) ==
    o \in turn.used /\ turn.config[o].enabled /\ turn.config[o].shows = layout[k].id

OwnOutputsTaken ==
    OutputsAreOwn =>
        /\ ~turn.missing
        /\ \A k \in 1..(next - 1) : layout[k].enabled => \E o \in OwnOutput(k) : Has(k, o)

StockOutputsTaken ==
    OutputsAreStock /\ ~turn.missing =>
        \A k \in 1..(next - 1) : layout[k].enabled => \E o \in 1..n : Has(k, o)

KInv == KTypes /\ Progress /\ OwnOutputsTaken /\ StockOutputsTaken

(* The call begins with KWin's outputs and an unchanged configuration.       *)
LEMMA KScreenInit == Init => KInv
<1> SUFFICES ASSUME Init PROVE KInv
  OBVIOUS
<1>1. /\ n \in Nat /\ before \in [1..n -> Output] /\ Len(layout) \in Nat
      /\ kwin = before
  BY Configuration, Monitor DEF Init, n
<1>2. Fresh(kwin) \in Turn(n) /\ Fresh(kwin).config = before /\ ~Fresh(kwin).missing
  BY <1>1 DEF Fresh, Turn
<1>3. KTypes
  BY <1>1, <1>2 DEF Init, KTypes
<1>4. Progress
  BY <1>1, <1>2 DEF Init, Progress
<1>5. 1..(next - 1) = {}
  BY DEF Init
<1>6. OwnOutputsTaken /\ StockOutputsTaken
  BY <1>2, <1>5 DEF Init, OwnOutputsTaken, StockOutputsTaken
<1> QED BY <1>3, <1>4, <1>6 DEF KInv

(* Steps that end or begin the loop or write its outcome.                    *)
LEMMA OtherSteps ==
    ASSUME KInv, GetConfig \/ Matched \/ SetConfig \/ OperationFails
    PROVE  KInv'
<1>1. /\ n \in Nat /\ before \in [1..n -> Output] /\ Len(layout) \in Nat
      /\ UNCHANGED <<before, layout, next>> /\ n' = n
  BY Configuration, Monitor DEF KInv, KTypes, n, GetConfig, Matched, SetConfig, OperationFails
<1>2. CASE GetConfig
  <2>1. /\ turn' = Fresh(kwin) /\ kwin = before /\ next = 1 /\ kwin' = kwin /\ pc' = "loop"
        /\ next' = 1
    BY <1>2 DEF GetConfig, KInv, Progress
  <2>2. Fresh(kwin) \in Turn(n) /\ Fresh(kwin).config = before /\ ~Fresh(kwin).missing
    BY <1>1, <2>1 DEF Fresh, Turn
  <2>3. 1..(next' - 1) = {}
    BY <2>1
  <2>4. KTypes'
    BY <1>1, <2>1, <2>2 DEF KInv, KTypes
  <2>5. Progress'
    BY <1>1, <2>1, <2>2 DEF Progress
  <2> QED BY <2>1, <2>2, <2>3, <2>4, <2>5 DEF KInv, OwnOutputsTaken, StockOutputsTaken
<1>3. CASE Matched \/ SetConfig \/ OperationFails
  <2>1. UNCHANGED turn
    BY <1>3 DEF Matched, SetConfig, OperationFails
  <2>2. KTypes'
    BY <1>1, <1>3, <2>1 DEF KInv, KTypes, Matched, SetConfig, OperationFails, Turn
  <2>3. Progress'
    BY <1>1, <1>3, <2>1 DEF KInv, KTypes, Progress, Matched, SetConfig, OperationFails
  <2>4. /\ OutputsAreOwn' = OutputsAreOwn /\ OutputsAreStock' = OutputsAreStock
        /\ \A k : OwnOutput(k)' = OwnOutput(k)
        /\ \A k, o : Has(k, o)' <=> Has(k, o)
    BY <1>1, <2>1 DEF OutputsAreOwn, OutputsAreStock, OwnOutput, Enabled, Has
  <2> HIDE DEF OutputsAreOwn, OutputsAreStock, OwnOutput, Has
  <2>5. OwnOutputsTaken' /\ StockOutputsTaken'
    BY <1>1, <2>1, <2>4 DEF KInv, OwnOutputsTaken, StockOutputsTaken
  <2> QED BY <2>2, <2>3, <2>5 DEF KInv
<1> QED BY <1>2, <1>3

(* The monitor whose turn it is gets an output, or the call ends.            *)
LEMMA MatchStep ==
    ASSUME KInv, MatchNext
    PROVE  KInv'
<1> DEFINE monitor == layout[next]
<1>1. /\ n \in Nat /\ before \in [1..n -> Output] /\ Len(layout) \in Nat
      /\ DOMAIN before = 1..n /\ DOMAIN layout = 1..Len(layout)
      /\ UNCHANGED <<kwin, before, layout>> /\ n' = n
      /\ next \in 1..Len(layout) /\ next' = next + 1 /\ pc = "loop"
      /\ pc' = IF turn'.missing THEN "false" ELSE "loop"
  BY Configuration, Monitor DEF KInv, KTypes, n, MatchNext
<1>2. /\ \A k \in 1..Len(layout) : layout[k].id \in Ids /\ layout[k].enabled \in BOOLEAN
      /\ \A j, k \in 1..Len(layout) : layout[j].id = layout[k].id => j = k
  BY Monitor DEF KInv, KTypes
<1>3. /\ turn \in Turn(n) /\ turn.config \in [1..n -> Output]
      /\ \A o \in 1..n : turn.config[o].name = before[o].name
  BY DEF KInv, KTypes, Turn, Progress
<1>4. /\ turn' \in Turn(n)
      /\ \A o \in 1..n : turn'.config[o].name = before[o].name
      /\ \/ FindsNone(turn, turn', monitor)
         \/ \E o \in 1..n : Takes(turn, turn', monitor, o)
  <2>1. turn' = Arrange(turn, monitor)
    BY DEF MatchNext
  <2>2. monitor.id \in Ids /\ monitor.enabled \in BOOLEAN
    BY <1>1, <1>2
  <2> HIDE DEF monitor
  <2> QED BY <1>1, <1>3, <2>1, <2>2, ArrangeStep
<1>5. KTypes'
  BY <1>1, <1>4 DEF KInv, KTypes
<1>6. Progress'
  BY <1>1, <1>4 DEF KInv, Progress
<1>7. \A k \in 1..Len(layout) :
         Named(layout[k], turn.config) = Named(layout[k], before)
  BY <1>1, <1>3 DEF Named
<1>8. ASSUME NEW k \in 1..(next - 1), NEW o \in 1..n, Has(k, o),
             layout[k].enabled, OutputsAreStock \/ (OutputsAreOwn /\ o \in OwnOutput(k))
      PROVE  Has(k, o)'
  <2>1. k \in 1..Len(layout) /\ k # next /\ o \in turn.used
    BY <1>1, <1>8 DEF Has
  <2>2. CASE FindsNone(turn, turn', monitor)
    BY <1>1, <1>8, <2>2 DEF FindsNone, Has
  <2>3. ASSUME NEW p \in 1..n, Takes(turn, turn', monitor, p)
        PROVE  Has(k, o)'
    <3>1. p # o
      <4>1. CASE p \in Named(monitor, turn.config)
        <5>1. p \in Named(monitor, before)
          BY <1>1, <1>7, <4>1
        <5>2. before[p].name \in {monitor.id, monitor.name}
          BY <5>1 DEF Named
        <5>3. ~OutputsAreStock
          BY <1>1, <5>1 DEF OutputsAreStock
        <5>4. before[o].name = layout[k].id /\ layout[next].name # layout[k].id
          BY <1>1, <1>8, <2>1, <5>3 DEF OutputsAreOwn, OwnOutput, Enabled
        <5>5. layout[next].id # layout[k].id
          BY <1>1, <1>2, <2>1
        <5> QED BY <5>2, <5>4, <5>5
      <4>2. CASE p \notin turn.used
        BY <2>1, <4>2
      <4> QED BY <2>3, <4>1, <4>2 DEF Takes
    <3>2. /\ turn'.used = turn.used \cup {p} /\ turn'.config[o] = turn.config[o]
      BY <1>3, <2>3, <3>1 DEF Takes
    <3> QED BY <1>1, <1>8, <3>2 DEF Has
  <2> QED BY <1>4, <2>2, <2>3
<1>9. ASSUME monitor.enabled, NEW o \in 1..n, Takes(turn, turn', monitor, o),
             NEW k, k = next
      PROVE  Has(k, o)'
  <2>1. /\ o \in turn'.used /\ turn'.config[o].enabled
        /\ turn'.config[o].shows = layout[k].id
    BY <1>9 DEF Takes
  <2>2. layout' = layout
    BY <1>1
  <2> QED BY <2>1, <2>2 DEF Has
<1>10. /\ OutputsAreOwn' = OutputsAreOwn /\ OutputsAreStock' = OutputsAreStock
       /\ \A k : OwnOutput(k)' = OwnOutput(k)
       /\ next' - 1 = next /\ ~turn.missing
       /\ \A k \in 1..next : k \in 1..(next - 1) \/ k = next
       /\ \A k : OwnOutput(k) \subseteq 1..n
  BY <1>1 DEF OutputsAreOwn, OutputsAreStock, OwnOutput, Enabled, KInv, Progress
<1>11. ASSUME OutputsAreOwn
       PROVE  /\ ~turn'.missing
              /\ \A k \in 1..next : layout[k].enabled => \E o \in OwnOutput(k) : Has(k, o)'
  <2>1. ASSUME monitor.enabled
        PROVE  \E o \in OwnOutput(next) : Takes(turn, turn', monitor, o)
    <3>1. PICK p \in 1..n : OwnOutput(next) = {p} /\ Named(monitor, before) = {p}
      BY <1>1, <1>11, <2>1 DEF OutputsAreOwn, Enabled
    <3>2. Named(monitor, turn.config) = {p}
      BY <1>1, <1>7, <3>1
    <3>3. ~FindsNone(turn, turn', monitor)
      BY <3>2 DEF FindsNone
    <3>4. PICK o \in 1..n : Takes(turn, turn', monitor, o)
      BY <1>4, <3>3
    <3>5. o = p
      BY <3>2, <3>4 DEF Takes
    <3> QED BY <3>1, <3>4, <3>5
  <2>2. ~turn'.missing
    <3>1. CASE FindsNone(turn, turn', monitor)
      <4>1. ~monitor.enabled
        <5>1. SUFFICES ASSUME monitor.enabled PROVE FALSE
          OBVIOUS
        <5>2. PICK o \in OwnOutput(next) : Takes(turn, turn', monitor, o)
          BY <2>1, <5>1
        <5>3. PICK p \in 1..n : Named(monitor, before) = {p}
          BY <1>1, <1>11, <5>1 DEF OutputsAreOwn, Enabled
        <5> QED BY <1>1, <1>7, <3>1, <5>3 DEF FindsNone
      <4> QED BY <3>1, <4>1, <1>10 DEF FindsNone
    <3>2. CASE \E o \in 1..n : Takes(turn, turn', monitor, o)
      BY <3>2, <1>10 DEF Takes
    <3> QED BY <1>4, <3>1, <3>2
  <2>3. ASSUME NEW k \in 1..next, layout[k].enabled
        PROVE  \E o \in OwnOutput(k) : Has(k, o)'
    <3>1. CASE k = next
      <4>1. PICK o \in OwnOutput(next) : Takes(turn, turn', monitor, o)
        BY <2>1, <2>3, <3>1
      <4>2. o \in 1..n
        BY <1>10
      <4>3. Has(k, o)'
        BY <1>9, <2>3, <3>1, <4>1, <4>2
      <4> HIDE DEF Has
      <4> QED BY <3>1, <4>3
    <3>2. CASE k \in 1..(next - 1)
      <4>1. PICK o \in OwnOutput(k) : Has(k, o)
        BY <1>11, <2>3, <3>2 DEF KInv, OwnOutputsTaken
      <4>2. o \in 1..n
        BY <1>10
      <4>3. Has(k, o)'
        BY <1>8, <1>11, <2>3, <3>2, <4>1, <4>2
      <4> HIDE DEF Has
      <4> QED BY <4>3
    <3> QED BY <1>10, <3>1, <3>2
  <2> QED BY <2>2, <2>3
<1>12. ASSUME OutputsAreStock, ~turn'.missing, NEW k \in 1..next, layout[k].enabled
       PROVE  \E o \in 1..n : Has(k, o)'
  <2>1. CASE k = next
    <3>1. ~FindsNone(turn, turn', monitor)
      BY <1>12, <2>1 DEF FindsNone
    <3>2. PICK o \in 1..n : Takes(turn, turn', monitor, o)
      BY <1>4, <3>1
    <3>3. Has(k, o)'
      BY <1>9, <1>12, <2>1, <3>2
    <3> HIDE DEF Has
    <3> QED BY <2>1, <3>3
  <2>2. CASE k \in 1..(next - 1)
    <3>1. PICK o \in 1..n : Has(k, o)
      BY <1>10, <1>12, <2>2 DEF KInv, StockOutputsTaken
    <3>2. Has(k, o)'
      BY <1>8, <1>12, <2>2, <3>1
    <3> HIDE DEF Has
    <3> QED BY <3>2
  <2> QED BY <1>10, <2>1, <2>2
<1> HIDE DEF Has, OutputsAreOwn, OutputsAreStock, OwnOutput
<1>13. OwnOutputsTaken' /\ StockOutputsTaken'
  BY <1>1, <1>10, <1>11, <1>12 DEF OwnOutputsTaken, StockOutputsTaken
<1> QED BY <1>5, <1>6, <1>13 DEF KInv

(* The invariant always holds.                                               *)
LEMMA KScreenAlways == Spec => []KInv
<1>1. KInv /\ UNCHANGED vars => KInv'
  <2> SUFFICES ASSUME KInv, UNCHANGED vars PROVE KInv'
    OBVIOUS
  <2>1. UNCHANGED <<kwin, before, layout, pc, next, turn>> /\ n' = n
    BY DEF vars, n
  <2>2. KTypes' /\ Progress'
    BY <2>1 DEF KInv, KTypes, Progress
  <2>3. /\ OutputsAreOwn' = OutputsAreOwn /\ OutputsAreStock' = OutputsAreStock
        /\ \A k : OwnOutput(k)' = OwnOutput(k)
        /\ \A k, o : Has(k, o)' <=> Has(k, o)
    BY <2>1 DEF OutputsAreOwn, OutputsAreStock, OwnOutput, Enabled, Has
  <2> HIDE DEF OutputsAreOwn, OutputsAreStock, OwnOutput, Has
  <2>4. OwnOutputsTaken' /\ StockOutputsTaken'
    BY <2>1, <2>3 DEF KInv, OwnOutputsTaken, StockOutputsTaken
  <2> QED BY <2>2, <2>4 DEF KInv
<1>2. KInv /\ [Next]_vars => KInv'
  BY <1>1, OtherSteps, MatchStep DEF Next
<1> QED BY <1>2, KScreenInit, PTL DEF Spec

-----------------------------------------------------------------------------
(* The properties                                                            *)

(* The copy keeps the outputs of KWin, and the loop stays within the layout. *)
THEOREM TypeCorrect == Spec => []TypeOK
<1>1. ASSUME KInv PROVE TypeOK
  <2>1. n \in Nat /\ DOMAIN before = 1..n
    BY <1>1, Configuration DEF KInv, KTypes, n
  <2>2. turn.config \in [1..n -> Output] /\ turn.used \subseteq 1..n /\ turn.missing \in BOOLEAN
    BY <1>1 DEF KInv, KTypes, Turn
  <2>3. kwin \in [1..n -> Output]
    BY <1>1 DEF KInv, KTypes
  <2> HIDE DEF n
  <2>4. /\ kwin \in Seq(Output) /\ Len(kwin) = n
        /\ turn.config \in Seq(Output) /\ Len(turn.config) = n
    BY <2>1, <2>2, <2>3, FunctionIsSeq
  <2> QED BY <1>1, <2>1, <2>2, <2>4 DEF KInv, KTypes, TypeOK, n
<1> QED BY <1>1, KScreenAlways, PTL

(* A call that returns false has left the outputs of KWin alone.             *)
THEOREM FailureIsClean == Spec => []FailureChangesNothing
<1>1. KInv => FailureChangesNothing
  BY DEF KInv, Progress, FailureChangesNothing
<1> QED BY <1>1, KScreenAlways, PTL

(* With outputs as the patched KRdp names them no monitor goes without.      *)
THEOREM OwnSuffice == Spec => []OwnOutputsSuffice
<1>1. KInv => OwnOutputsSuffice
  BY DEF KInv, OwnOutputsTaken, OwnOutputsSuffice
<1> QED BY <1>1, KScreenAlways, PTL

(* Then each keeps its own output until the end: the loop never gives the    *)
(* output of one monitor to a later one.                                     *)
THEOREM OwnAreShown == Spec => []OwnOutputsAreShown
<1>1. ASSUME KInv PROVE OwnOutputsAreShown
  <2> SUFFICES ASSUME pc = "true", OutputsAreOwn, NEW k \in Enabled
               PROVE  \E o \in OwnOutput(k) : kwin[o].enabled /\ kwin[o].shows = layout[k].id
    BY DEF OwnOutputsAreShown
  <2>1. kwin = turn.config /\ next = Len(layout) + 1
    BY <1>1 DEF KInv, Progress
  <2>2. k \in 1..(next - 1) /\ layout[k].enabled
    BY <1>1, <2>1, Monitor DEF Enabled, KInv, KTypes
  <2>3. PICK o \in OwnOutput(k) : Has(k, o)
    BY <1>1, <2>2 DEF KInv, OwnOutputsTaken
  <2> QED BY <2>1, <2>3 DEF Has
<1> QED BY <1>1, KScreenAlways, PTL

(* With outputs of stock KRdp, which nothing names, each monitor gets one.   *)
THEOREM StockAreShown == Spec => []StockOutputsAreShown
<1>1. ASSUME KInv PROVE StockOutputsAreShown
  <2> SUFFICES ASSUME pc = "true", OutputsAreStock, NEW k \in Enabled
               PROVE  Shown(layout[k].id)
    BY DEF StockOutputsAreShown
  <2>1. kwin = turn.config /\ next = Len(layout) + 1 /\ ~turn.missing
    BY <1>1 DEF KInv, Progress
  <2>2. k \in 1..(next - 1) /\ layout[k].enabled
    BY <1>1, <2>1, Monitor DEF Enabled, KInv, KTypes
  <2>3. PICK o \in 1..n : Has(k, o)
    BY <1>1, <2>1, <2>2 DEF KInv, StockOutputsTaken
  <2>4. DOMAIN kwin = 1..n
    BY <1>1 DEF KInv, KTypes
  <2> QED BY <2>1, <2>3, <2>4 DEF Has, Shown
<1> QED BY <1>1, KScreenAlways, PTL
=============================================================================
