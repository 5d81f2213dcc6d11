------------------------ MODULE LayoutController_proofs ------------------------
(***************************************************************************)
(* Theorems about LayoutController, for every set of layouts and, where    *)
(* nothing else is said, for every number of overlapping calls.            *)
(***************************************************************************)
EXTENDS LayoutController, SequenceTheorems, TLAPS

-----------------------------------------------------------------------------
(* The stack of calls                                                        *)

(* Entering a call keeps the stack a sequence of calls within its bound, with *)
(* the new call on top.                                                      *)
LEMMA EnterStack ==
    ASSUME calls \in Seq(Call), NEW call \in Call, Enter(call)
    PROVE  /\ calls' \in Seq(Call)
           /\ Len(calls') = Len(calls) + 1
           /\ Len(calls') \in 0..MaxDepth
           /\ calls'[Len(calls')] = call
<1>1. Len(calls) \in Nat
  BY LenProperties
<1>2. calls' = Append(calls, call) /\ Len(calls) < MaxDepth
  BY DEF Enter
<1> QED BY <1>1, <1>2, BoundAssumption

(* Returning from the innermost call keeps the others.                       *)
LEMMA ReturnStack ==
    ASSUME calls \in Seq(Call), Len(calls) \in 0..MaxDepth, calls # << >>, Return
    PROVE  /\ calls' \in Seq(Call)
           /\ Len(calls') = Len(calls) - 1
           /\ Len(calls') \in 0..MaxDepth
           /\ Top \in Call
<1>1. Len(calls) \in Nat /\ Len(calls) > 0
  BY EmptySeq
<1>2. \A i \in 1..(Len(calls) - 1) : calls[i] \in Call
  BY <1>1, ElementOfSeq
<1>3. /\ calls' \in Seq(Call)
      /\ Len(calls') = IF 1 <= Len(calls) - 1 THEN (Len(calls) - 1) - 1 + 1 ELSE 0
  BY <1>1, <1>2, SubSeqProperties DEF Return
<1>4. Top \in Call
  BY <1>1, ElementOfSeq DEF Top
<1>5. Len(calls') = Len(calls) - 1
  <2> DEFINE n == Len(calls)
  <2>1. n \in Nat /\ n > 0 /\ Len(calls') = IF 1 <= n - 1 THEN (n - 1) - 1 + 1 ELSE 0
    BY <1>1, <1>3
  <2> HIDE DEF n
  <2>2. Len(calls') = n - 1
    BY <2>1
  <2> QED BY <2>2 DEF n
<1>6. Len(calls') \in 0..MaxDepth
  BY <1>1, <1>5, BoundAssumption
<1> QED BY <1>3, <1>4, <1>5, <1>6

(* Changing a suspended call in place keeps the stack a sequence of calls.   *)
LEMMA ChangeStack ==
    ASSUME calls \in Seq(Call), Len(calls) \in 0..MaxDepth,
           NEW k \in 1..Len(calls), NEW call \in Call,
           calls' = [calls EXCEPT ![k] = call]
    PROVE  /\ calls' \in Seq(Call)
           /\ Len(calls') = Len(calls)
           /\ Len(calls') \in 0..MaxDepth
           /\ calls'[k] = call
<1>1. /\ calls' \in Seq(Call)
      /\ Len(calls') = Len(calls)
      /\ \A j \in 1..Len(calls) : calls'[j] = IF j = k THEN call ELSE calls[j]
  BY ExceptSeq
<1> QED BY <1>1

(* The innermost call of a stack that is not empty.                          *)
LEMMA TopIsCall ==
    ASSUME calls \in Seq(Call), calls # << >>
    PROVE  Len(calls) \in 1..Len(calls) /\ Top \in Call
<1>1. Len(calls) \in Nat /\ Len(calls) > 0
  BY EmptySeq
<1> QED BY <1>1, ElementOfSeq DEF Top

-----------------------------------------------------------------------------
(* Type correctness                                                          *)

(* The initial layouts are layouts.                                          *)
LEMMA TypeInit ==
    ASSUME Init
    PROVE  TypeOK
<1>1. calls \in Seq(Call) /\ Len(calls) \in 0..MaxDepth
  BY BoundAssumption DEF Init
<1> QED BY <1>1 DEF Init, TypeOK

(* Every step keeps the types.                                               *)
LEMMA TypeStep == TypeOK /\ [Next]_vars => TypeOK'
<1> SUFFICES ASSUME TypeOK, [Next]_vars PROVE TypeOK'
  OBVIOUS
<1>0. calls \in Seq(Call) /\ Len(calls) \in 0..MaxDepth
  BY DEF TypeOK
<1>1. ASSUME NEW l \in Layout, ApplyInvalid(l) PROVE TypeOK'
  BY <1>1 DEF ApplyInvalid, TypeOK
<1>2. ASSUME NEW l \in Layout, NEW confirm \in BOOLEAN, ApplyCall(l, confirm)
      PROVE  TypeOK'
  <2> DEFINE call == [op |-> "apply", pc |-> "apply", layout |-> l,
                      confirm |-> confirm, done |-> FALSE]
  <2>1. call \in Call
    BY <1>2 DEF ApplyCall, Call
  <2>2. Enter(call)
    BY <1>2 DEF ApplyCall
  <2> HIDE DEF call
  <2> QED BY <1>0, <1>2, <2>1, <2>2, EnterStack DEF ApplyCall, TypeOK
<1>3. ASSUME NEW k \in DOMAIN calls, ScreenTakes(k) PROVE TypeOK'
  <2>1. k \in 1..Len(calls) /\ calls[k] \in Call
    BY <1>0, LenProperties, ElementOfSeq
  <2> DEFINE call == [calls[k] EXCEPT !.done = TRUE]
  <2>2. call \in Call
    BY <2>1 DEF Call
  <2>3. calls' = [calls EXCEPT ![k] = call]
    BY <1>3 DEF ScreenTakes
  <2> HIDE DEF call
  <2>4. calls' \in Seq(Call) /\ Len(calls') \in 0..MaxDepth
    BY <1>0, <2>1, <2>2, <2>3, ChangeStack
  <2>5. screen' \in ValidLayout
    BY <1>3, <2>1, LayoutAssumption DEF ScreenTakes, Call
  <2> QED BY <1>3, <2>4, <2>5 DEF ScreenTakes, TypeOK
<1>4. CASE ApplySucceeds
  BY <1>0, <1>4, ReturnStack DEF ApplySucceeds, Resume, TypeOK, Call
<1>5. CASE ApplyFails
  BY <1>0, <1>5, ReturnStack DEF ApplyFails, Resume, TypeOK
<1>6. CASE Confirm
  BY <1>6 DEF Confirm, TypeOK
<1>7. CASE BeginRevert
  <2> DEFINE call == [op |-> "revert", pc |-> "notify", layout |-> m_previousLayout,
                      confirm |-> FALSE, done |-> FALSE]
  <2>1. call \in Call
    BY DEF TypeOK, Call
  <2>2. Enter(call)
    BY <1>7 DEF BeginRevert
  <2> HIDE DEF call
  <2> QED BY <1>0, <1>7, <2>1, <2>2, EnterStack DEF BeginRevert, TypeOK
<1>8. CASE RevertNotified
  <2>1. Len(calls) \in 1..Len(calls) /\ Top \in Call
    BY <1>0, <1>8, TopIsCall DEF RevertNotified
  <2> DEFINE call == [Top EXCEPT !.pc = "apply", !.layout = m_previousLayout]
  <2>2. call \in Call
    BY <2>1 DEF Call, TypeOK
  <2>3. calls' = [calls EXCEPT ![Len(calls)] = call]
    BY <1>0, <1>8, <2>1, LenProperties DEF RevertNotified, Top, Call
  <2> HIDE DEF call
  <2>4. calls' \in Seq(Call) /\ Len(calls') \in 0..MaxDepth
    BY <1>0, <2>1, <2>2, <2>3, ChangeStack
  <2> QED BY <1>8, <2>4 DEF RevertNotified, TypeOK
<1>9. CASE RevertSucceeds
  BY <1>0, <1>9, ReturnStack DEF RevertSucceeds, Resume, TypeOK
<1>10. CASE RevertFails
  BY <1>0, <1>10, ReturnStack DEF RevertFails, Resume, TypeOK
<1>11. ASSUME NEW l \in ValidLayout, Restart(l) PROVE TypeOK'
  <2>1. calls' \in Seq(Call) /\ Len(calls') \in 0..MaxDepth
    BY <1>11, BoundAssumption DEF Restart
  <2> QED BY <1>11, <2>1 DEF Restart, TypeOK
<1>12. CASE UNCHANGED vars
  BY <1>12 DEF vars, TypeOK
<1> QED
  BY <1>1, <1>2, <1>3, <1>4, <1>5, <1>6, <1>7, <1>8, <1>9, <1>10, <1>11, <1>12 DEF Next

(* In every state of the controller, however calls overlap, its layouts are  *)
(* valid ones and the stack of calls respects its bound.                     *)
THEOREM TypeCorrect == Spec => []TypeOK
<1> QED BY TypeInit, TypeStep, PTL DEF Spec

-----------------------------------------------------------------------------
(* The fallback of a trial                                                   *)

(* TrialFallsBackToKept is not inductive: a revert that was entered during a *)
(* trial may end after the trial, and sets m_layout once more.  It does no   *)
(* harm as long as the fallback of a kept layout is that layout.             *)
FallbackInv ==
    /\ trial = "none" => m_layout = lastKept
    /\ trial # "chained" => m_previousLayout = lastKept

(* Every step keeps FallbackInv.                                             *)
LEMMA FallbackStep ==
    ASSUME TypeOK, FallbackInv, [Next]_vars
    PROVE  FallbackInv'
<1> USE DEF FallbackInv
<1>1. ASSUME NEW l \in Layout, ApplyInvalid(l) PROVE FallbackInv'
  BY <1>1 DEF ApplyInvalid
<1>2. ASSUME NEW l \in Layout, NEW confirm \in BOOLEAN, ApplyCall(l, confirm)
      PROVE  FallbackInv'
  BY <1>2 DEF ApplyCall
<1>3. ASSUME NEW k \in DOMAIN calls, ScreenTakes(k) PROVE FallbackInv'
  BY <1>3 DEF ScreenTakes
<1>4. CASE ApplySucceeds
  <2>1. CASE ~Top.confirm
    BY <1>4, <2>1 DEF ApplySucceeds
  <2>2. CASE Top.confirm /\ trial = "none"
    BY <1>4, <2>2 DEF ApplySucceeds
  <2>3. CASE Top.confirm /\ trial # "none"
    BY <1>4, <2>3 DEF ApplySucceeds
  <2> QED BY <2>1, <2>2, <2>3
<1>5. CASE ApplyFails
  BY <1>5 DEF ApplyFails
<1>6. CASE Confirm
  BY <1>6 DEF Confirm
<1>7. CASE BeginRevert
  BY <1>7 DEF BeginRevert
<1>8. CASE RevertNotified
  BY <1>8 DEF RevertNotified
<1>9. CASE RevertSucceeds
  BY <1>9 DEF RevertSucceeds
<1>10. CASE RevertFails
  BY <1>10 DEF RevertFails
<1>11. ASSUME NEW l \in ValidLayout, Restart(l) PROVE FallbackInv'
  BY <1>11 DEF Restart
<1>12. CASE UNCHANGED vars
  BY <1>12 DEF vars
<1> QED
  BY <1>1, <1>2, <1>3, <1>4, <1>5, <1>6, <1>7, <1>8, <1>9, <1>10, <1>11, <1>12 DEF Next

(* However applies, reverts, confirmations and failures overlap, a layout    *)
(* that is alone on trial falls back to the layout last kept, and without a  *)
(* trial the reported layout is the one kept.                                *)
THEOREM FallbackSafe == Spec => []TrialFallsBackToKept
<1>1. Init => FallbackInv
  BY DEF Init, FallbackInv
<1>2. FallbackInv => TrialFallsBackToKept
  BY DEF FallbackInv, TrialFallsBackToKept
<1> QED BY <1>1, <1>2, TypeCorrect, FallbackStep, PTL DEF Spec

-----------------------------------------------------------------------------
(* The end of a trial                                                        *)

(* The calls below the innermost one stay where they are when it returns.    *)
LEMMA ReturnKeeps ==
    ASSUME calls \in Seq(Call), calls # << >>, Return,
           NEW k \in DOMAIN calls, k # Len(calls)
    PROVE  k \in DOMAIN calls' /\ calls'[k] = calls[k]
<1> DEFINE n == Len(calls)
<1>1. n \in Nat /\ n > 0 /\ k \in 1..n /\ k # n
  BY EmptySeq, LenProperties
<1>2. \A i \in 1..(n - 1) : calls[i] \in Call
  BY <1>1, ElementOfSeq
<1>3. calls' = SubSeq(calls, 1, n - 1)
  BY DEF Return
<1> HIDE DEF n
<1>4. k \in 1..(n - 1) /\ 1 <= n - 1
  BY <1>1
<1>5. /\ calls' \in Seq(Call)
      /\ Len(calls') = IF 1 <= n - 1 THEN (n - 1) - 1 + 1 ELSE 0
      /\ \A i \in 1..((n - 1) - 1 + 1) : calls'[i] = calls[1 + i - 1]
  BY <1>1, <1>2, <1>3, SubSeqProperties
<1>6. Len(calls') = n - 1 /\ (n - 1) - 1 + 1 = n - 1 /\ 1 + k - 1 = k
  BY <1>1, <1>4, <1>5
<1>7. calls'[k] = calls[k]
  BY <1>4, <1>5, <1>6
<1>8. k \in DOMAIN calls'
  BY <1>4, <1>5, <1>6, LenProperties
<1> QED BY <1>7, <1>8

(* Every step but a failed revert leaves a layout that is alone on trial     *)
(* something that will end the trial.                                        *)
LEMMA EndStep ==
    ASSUME TypeOK, [Next]_vars, trial = "single" => HasAnEnd, ~RevertFails,
           trial' = "single"
    PROVE  HasAnEnd'
<1> USE DEF HasAnEnd
<1>0. calls \in Seq(Call) /\ Len(calls) \in 0..MaxDepth
  BY DEF TypeOK
<1>1. ASSUME NEW l \in Layout, ApplyInvalid(l) PROVE HasAnEnd'
  BY <1>1 DEF ApplyInvalid
<1>2. ASSUME NEW l \in Layout, NEW confirm \in BOOLEAN, ApplyCall(l, confirm)
      PROVE  HasAnEnd'
  <2> DEFINE call == [op |-> "apply", pc |-> "apply", layout |-> l,
                      confirm |-> confirm, done |-> FALSE]
  <2>1. call \in Call /\ calls' = Append(calls, call)
    BY <1>2 DEF ApplyCall, Call, Enter
  <2> HIDE DEF call
  <2>2. ASSUME NEW k \in DOMAIN calls PROVE k \in DOMAIN calls' /\ calls'[k] = calls[k]
    BY <1>0, <2>1, AppendProperties, LenProperties
  <2> QED BY <1>2, <2>2 DEF ApplyCall
<1>3. ASSUME NEW k \in DOMAIN calls, ScreenTakes(k) PROVE HasAnEnd'
  <2>1. calls[k] \in Call /\ DOMAIN calls' = DOMAIN calls
    BY <1>0, <1>3, LenProperties, ElementOfSeq DEF ScreenTakes
  <2>2. ASSUME NEW j \in DOMAIN calls PROVE calls'[j].op = calls[j].op
    BY <1>3, <2>1 DEF ScreenTakes, Call
  <2> QED BY <1>3, <2>1, <2>2 DEF ScreenTakes
<1>4. CASE ApplySucceeds
  BY <1>4 DEF ApplySucceeds, TypeOK, Call
<1>5. CASE ApplyFails
  <2>1. calls # << >> /\ Return /\ Top.op = "apply"
    BY <1>5 DEF ApplyFails, Resume
  <2>2. ASSUME NEW k \in DOMAIN calls, calls[k].op = "revert"
        PROVE  k \in DOMAIN calls' /\ calls'[k].op = "revert"
    <3>1. k # Len(calls)
      BY <2>1, <2>2 DEF Top
    <3> QED BY <1>0, <2>1, <2>2, <3>1, ReturnKeeps
  <2> QED BY <1>5, <2>2 DEF ApplyFails
<1>6. CASE Confirm
  BY <1>6 DEF Confirm
<1>7. CASE BeginRevert
  <2> DEFINE call == [op |-> "revert", pc |-> "notify", layout |-> m_previousLayout,
                      confirm |-> FALSE, done |-> FALSE]
  <2>1. call \in Call /\ call.op = "revert"
    BY DEF TypeOK, Call
  <2>2. Enter(call)
    BY <1>7 DEF BeginRevert
  <2> HIDE DEF call
  <2>3. calls' \in Seq(Call) /\ Len(calls') = Len(calls) + 1 /\ calls'[Len(calls')] = call
    BY <1>0, <2>1, <2>2, EnterStack
  <2>4. Len(calls') \in DOMAIN calls'
    BY <1>0, <2>3, LenProperties
  <2> QED BY <2>1, <2>3, <2>4
<1>8. CASE RevertNotified
  <2>1. Len(calls) \in DOMAIN calls /\ Top \in Call
    BY <1>0, <1>8, TopIsCall, LenProperties DEF RevertNotified
  <2>2. DOMAIN calls' = DOMAIN calls
    BY <1>8 DEF RevertNotified
  <2>3. ASSUME NEW k \in DOMAIN calls PROVE calls'[k].op = calls[k].op
    <3>1. calls[k] \in Call
      BY <1>0, LenProperties, ElementOfSeq
    <3> QED BY <1>8, <2>1, <3>1 DEF RevertNotified, Call
  <2> QED BY <1>8, <2>2, <2>3 DEF RevertNotified
<1>9. CASE RevertSucceeds
  BY <1>9 DEF RevertSucceeds
<1>10. ASSUME NEW l \in ValidLayout, Restart(l) PROVE HasAnEnd'
  BY <1>10 DEF Restart
<1>11. CASE UNCHANGED vars
  BY <1>11 DEF vars
<1> QED
  BY <1>1, <1>2, <1>3, <1>4, <1>5, <1>6, <1>7, <1>8, <1>9, <1>10, <1>11 DEF Next

(* However calls overlap, only a revert that fails can leave a layout alone  *)
(* on trial with neither the timer running nor a revert under way.           *)
THEOREM TrialEnds == Spec => TrialKeepsItsEnd
<1>1. TypeOK /\ [Next]_vars
        => [(trial = "single" => HasAnEnd) /\ ~RevertFails
              => (trial' = "single" => HasAnEnd')]_vars
  BY EndStep
<1> QED BY <1>1, TypeCorrect, PTL DEF Spec, TrialKeepsItsEnd

-----------------------------------------------------------------------------
(* Calls that do not overlap                                                 *)

(* The only call under way, and what the screen shows: the layout of that    *)
(* call once the backend has set it, before that the layout reported.  A     *)
(* revert under way has stopped the timer, so that nothing moves             *)
(* m_previousLayout, which it reports in the end, under it.                  *)
AloneInv ==
    /\ calls = << >> => screen \in {NoLayout, Normal[m_layout]}
    /\ calls # << >> =>
          /\ Len(calls) = 1
          /\ Top.done => Top.pc = "apply" /\ screen = Normal[Top.layout]
          /\ ~Top.done => screen \in {NoLayout, Normal[m_layout]}
          /\ Top.op = "apply" => Top.pc = "apply"
          /\ Top.op = "revert" => ~m_revertTimer /\ Top.layout = m_previousLayout

(* With MaxDepth = 1 a call is entered when none is under way, and then      *)
(* returns before another is entered.                                        *)
LEMMA EnterAlone ==
    ASSUME MaxDepth = 1, TypeOK, NEW call \in Call, Enter(call)
    PROVE  calls = << >> /\ calls' # << >> /\ Len(calls') = 1 /\ Top' = call
<1>1. calls \in Seq(Call) /\ Len(calls) \in Nat
  BY LenProperties DEF TypeOK
<1>2. Len(calls) = 0
  BY <1>1 DEF Enter
<1>3. calls = << >>
  BY <1>1, <1>2, EmptySeq
<1>4. Len(calls') = 1 /\ calls'[1] = call
  BY <1>1, <1>2, EnterStack DEF TypeOK
<1>5. calls' # << >>
  BY <1>4
<1>6. Top' = call
  BY <1>4 DEF Top
<1> QED BY <1>3, <1>4, <1>5, <1>6

(* The only call under way returns.                                          *)
LEMMA ReturnAlone ==
    ASSUME TypeOK, Len(calls) = 1, Return
    PROVE  calls' = << >>
BY SubSeqEmpty DEF TypeOK, Return

(* Every step of a controller whose calls do not overlap preserves AloneInv. *)
LEMMA AloneStep ==
    ASSUME MaxDepth = 1, TypeOK, AloneInv, [Next]_vars
    PROVE  AloneInv'
<1> USE DEF AloneInv
<1>0. calls \in Seq(Call) /\ Len(calls) \in 0..MaxDepth
  BY DEF TypeOK
<1>1. ASSUME NEW l \in Layout, ApplyInvalid(l) PROVE AloneInv'
  BY <1>1 DEF ApplyInvalid, Top
<1>2. ASSUME NEW l \in Layout, NEW confirm \in BOOLEAN, ApplyCall(l, confirm)
      PROVE  AloneInv'
  <2> DEFINE call == [op |-> "apply", pc |-> "apply", layout |-> l,
                      confirm |-> confirm, done |-> FALSE]
  <2>1. call \in Call /\ call.op = "apply" /\ call.pc = "apply" /\ call.done = FALSE
    BY <1>2 DEF ApplyCall, Call
  <2>2. Enter(call)
    BY <1>2 DEF ApplyCall
  <2> HIDE DEF call
  <2>3. calls = << >> /\ calls' # << >> /\ Len(calls') = 1 /\ Top' = call
    BY <2>1, <2>2, EnterAlone
  <2> QED BY <1>2, <2>1, <2>3 DEF ApplyCall
<1>3. ASSUME NEW k \in DOMAIN calls, ScreenTakes(k) PROVE AloneInv'
  <2>1. k \in 1..Len(calls) /\ calls # << >>
    BY <1>0, LenProperties
  <2>2. k = 1 /\ Len(calls) = 1 /\ calls[k] = Top /\ Top \in Call
    <3>1. k = 1 /\ Len(calls) = 1 /\ Top \in Call
      BY <1>0, <2>1, TopIsCall
    <3> QED BY <3>1 DEF Top
  <2> DEFINE call == [Top EXCEPT !.done = TRUE]
  <2>3. call \in Call /\ call.done = TRUE /\ call.op = Top.op /\ call.pc = Top.pc
        /\ call.layout = Top.layout
    BY <2>2 DEF Call
  <2>4. calls' = [calls EXCEPT ![k] = call]
    BY <1>3, <2>2 DEF ScreenTakes
  <2> HIDE DEF call
  <2>5. Len(calls') = 1 /\ calls'[1] = call /\ calls' # << >>
    BY <1>0, <2>1, <2>2, <2>3, <2>4, ChangeStack
  <2>6. Top' = call
    BY <2>5 DEF Top
  <2> QED BY <1>3, <2>1, <2>2, <2>3, <2>5, <2>6 DEF ScreenTakes
<1>4. CASE ApplySucceeds
  <2>1. calls' = << >>
    BY <1>4, ReturnAlone DEF ApplySucceeds, Resume
  <2> QED BY <1>4, <2>1 DEF ApplySucceeds, Resume
<1>5. CASE ApplyFails
  <2>1. calls' = << >>
    BY <1>5, ReturnAlone DEF ApplyFails, Resume
  <2> QED BY <1>5, <2>1 DEF ApplyFails, Resume
<1>6. CASE Confirm
  <2>1. calls # << >> => Top.op = "apply"
    BY <1>0, <1>6, TopIsCall DEF Confirm, Call
  <2> QED BY <1>6, <2>1 DEF Confirm, Top
<1>7. CASE BeginRevert
  <2> DEFINE call == [op |-> "revert", pc |-> "notify", layout |-> m_previousLayout,
                      confirm |-> FALSE, done |-> FALSE]
  <2>1. call \in Call /\ call.op = "revert" /\ call.layout = m_previousLayout
        /\ call.done = FALSE
    BY DEF TypeOK, Call
  <2>2. Enter(call)
    BY <1>7 DEF BeginRevert
  <2> HIDE DEF call
  <2>3. calls = << >> /\ calls' # << >> /\ Len(calls') = 1 /\ Top' = call
    BY <2>1, <2>2, EnterAlone
  <2> QED BY <1>7, <2>1, <2>3 DEF BeginRevert
<1>8. CASE RevertNotified
  <2>1. calls # << >> /\ Len(calls) = 1 /\ Top \in Call /\ Top.pc = "notify"
    BY <1>0, <1>8, TopIsCall DEF RevertNotified
  <2> DEFINE call == [Top EXCEPT !.pc = "apply", !.layout = m_previousLayout]
  <2>2. call \in Call /\ call.op = Top.op /\ call.pc = "apply"
        /\ call.layout = m_previousLayout /\ call.done = Top.done
    BY <2>1 DEF Call, TypeOK
  <2>3. calls' = [calls EXCEPT ![1] = call]
    BY <1>0, <1>8, <2>1, LenProperties DEF RevertNotified, Top, Call
  <2> HIDE DEF call
  <2>4. Len(calls') = 1 /\ calls'[1] = call /\ calls' # << >>
    BY <1>0, <2>1, <2>2, <2>3, ChangeStack
  <2>5. Top' = call
    BY <2>4 DEF Top
  <2>6. ~Top.done /\ Top.op = "revert"
    BY <2>1 DEF Call
  <2> QED BY <1>8, <2>1, <2>2, <2>4, <2>5, <2>6 DEF RevertNotified
<1>9. CASE RevertSucceeds
  <2>1. calls' = << >>
    BY <1>9, ReturnAlone DEF RevertSucceeds, Resume
  <2> QED BY <1>9, <2>1 DEF RevertSucceeds, Resume
<1>10. CASE RevertFails
  <2>1. calls' = << >>
    BY <1>10, ReturnAlone DEF RevertFails, Resume
  <2> QED BY <1>10, <2>1 DEF RevertFails, Resume
<1>11. ASSUME NEW l \in ValidLayout, Restart(l) PROVE AloneInv'
  BY <1>11 DEF Restart
<1>12. CASE UNCHANGED vars
  BY <1>12 DEF vars, Top
<1> QED
  BY <1>1, <1>2, <1>3, <1>4, <1>5, <1>6, <1>7, <1>8, <1>9, <1>10, <1>11, <1>12 DEF Next

(* AloneInv always holds.                                                    *)
LEMMA AloneAlways ==
    ASSUME MaxDepth = 1
    PROVE  Spec => [](TypeOK /\ AloneInv)
<1>1. Init => AloneInv
  BY DEF Init, AloneInv
<1>2. TypeOK /\ AloneInv /\ [Next]_vars => AloneInv'
  BY AloneStep
<1> QED BY <1>1, <1>2, TypeCorrect, PTL DEF Spec

(* Where calls do not overlap, the screen shows the reported layout whenever *)
(* no call is under way.                                                     *)
THEOREM ScreenFollows ==
    ASSUME MaxDepth = 1
    PROVE  Spec => []ScreenShowsLayout
<1>1. AloneInv => ScreenShowsLayout
  BY DEF AloneInv, ScreenShowsLayout
<1> QED BY <1>1, AloneAlways, PTL
=============================================================================
