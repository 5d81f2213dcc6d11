--------------------------- MODULE LayoutController ---------------------------
(***************************************************************************)
(* KHeadless::LayoutController (src/core/layoutcontroller.cpp): the layout *)
(* the daemon holds to be current, the one it would fall back to, and the  *)
(* 15-second timer that falls back unless the user confirms.               *)
(*                                                                         *)
(* m_backend->apply() is not atomic.  KScreenBackend waits for two KScreen *)
(* operations in nested event loops, and so does a slot of the             *)
(* layoutReverting signal; while one waits, the daemon's only thread       *)
(* dispatches D-Bus calls and timers, which may enter the controller       *)
(* again.  Entered calls form a stack: only the innermost can return.      *)
(* MaxDepth = 1 is the controller whose calls never overlap                *)
(* (MemoryOutputBackend, the unit tests).                                  *)
(***************************************************************************)
EXTENDS Naturals, Sequences

CONSTANTS
    Layout,         \* the layouts a caller can ask for
    ValidLayout,    \* those that MonitorLayout::validate accepts
    Normal,         \* MonitorLayout::normalized, as a function on Layout
    NoLayout,       \* this process has not put a layout on the screen yet
    MaxDepth        \* bound: calls suspended at the same time

ASSUME LayoutAssumption ==
    /\ ValidLayout \subseteq Layout
    /\ NoLayout \notin Layout
    /\ Normal \in [Layout -> Layout]
    /\ \A l \in ValidLayout : Normal[l] \in ValidLayout /\ Normal[Normal[l]] = Normal[l]

ASSUME BoundAssumption == MaxDepth \in Nat \ {0}

VARIABLES
    m_layout,           \* the layout the controller reports
    m_previousLayout,   \* the layout revert() goes back to
    m_revertTimer,      \* m_revertTimer.isActive()
    calls,              \* the suspended calls of apply and revert, innermost last
    screen,             \* the layout the output backend has put on the screen
    lastKept,           \* history: the layout last confirmed or applied for good
    trial               \* history: layouts on trial since then: none, one, several

vars == <<m_layout, m_previousLayout, m_revertTimer, calls, screen, lastKept,
          trial>>

(* A suspended call.  A revert first waits in the slots of layoutReverting   *)
(* ("notify"), then both kinds wait in m_backend->apply ("apply"); done says *)
(* that the backend has put the frame's layout on the screen.                *)
Call == [op : {"apply", "revert"}, pc : {"notify", "apply"}, layout : ValidLayout,
         confirm : BOOLEAN, done : BOOLEAN]

TypeOK ==
    /\ m_layout \in ValidLayout
    /\ m_previousLayout \in ValidLayout
    /\ m_revertTimer \in BOOLEAN
    /\ calls \in Seq(Call)
    /\ Len(calls) \in 0..MaxDepth
    /\ screen \in ValidLayout \cup {NoLayout}
    /\ lastKept \in ValidLayout
    /\ trial \in {"none", "single", "chained"}

(* A new process: Service::initialize hands setInitialLayout the layout it    *)
(* has stored before it serves anyone; the screen is left to Start().         *)
Init ==
    /\ m_layout \in ValidLayout
    /\ m_previousLayout = m_layout
    /\ m_revertTimer = FALSE
    /\ calls = << >>
    /\ screen = NoLayout
    /\ lastKept = m_layout
    /\ trial = "none"

-----------------------------------------------------------------------------

Top == calls[Len(calls)]
Enter(call) == Len(calls) < MaxDepth /\ calls' = Append(calls, call)
Resume == calls # << >> /\ Top.pc = "apply"
Return == calls' = SubSeq(calls, 1, Len(calls) - 1)

(* apply() refuses a layout that does not validate and touches nothing.      *)
ApplyInvalid(l) ==
    /\ l \notin ValidLayout
    /\ UNCHANGED <<m_layout, m_previousLayout, m_revertTimer, calls, screen,
                   lastKept, trial>>

(* apply() up to the wait in m_backend->apply.                               *)
ApplyCall(l, requireConfirmation) ==
    /\ l \in ValidLayout
    /\ Enter([op |-> "apply", pc |-> "apply", layout |-> l,
              confirm |-> requireConfirmation, done |-> FALSE])
    /\ UNCHANGED <<m_layout, m_previousLayout, m_revertTimer, screen, lastKept, trial>>

(* The backend puts the layout of a suspended call on the screen.  A nested  *)
(* call may take effect before or after the one it interrupts, which can be  *)
(* in either of its two KScreen operations.                                  *)
ScreenTakes(k) ==
    /\ calls[k].pc = "apply" /\ ~calls[k].done
    /\ calls' = [calls EXCEPT ![k].done = TRUE]
    /\ screen' = Normal[calls[k].layout]
    /\ UNCHANGED <<m_layout, m_previousLayout, m_revertTimer, lastKept, trial>>

(* Mutant: apply() saves the new layout as the previous one.                 *)
ApplySucceedsSwapped ==
    /\ Resume /\ Top.op = "apply" /\ Top.done
    /\ Return
    /\ m_layout' = Top.layout
    /\ m_previousLayout' = Top.layout
    /\ m_revertTimer' = Top.confirm
    /\ lastKept' = IF Top.confirm THEN lastKept ELSE Top.layout
    /\ trial' = IF ~Top.confirm THEN "none"
                ELSE IF trial = "none" THEN "single" ELSE "chained"
    /\ UNCHANGED screen

(* The rest of apply() after m_backend->apply returned true ...              *)
ApplySucceeds ==
    /\ Resume /\ Top.op = "apply" /\ Top.done
    /\ Return
    /\ m_layout' = Top.layout
    /\ m_previousLayout' = IF Top.confirm THEN m_layout ELSE Top.layout
    /\ m_revertTimer' = Top.confirm
    /\ lastKept' = IF Top.confirm THEN lastKept ELSE Top.layout
    /\ trial' = IF ~Top.confirm THEN "none"
                ELSE IF trial = "none" THEN "single" ELSE "chained"
    /\ UNCHANGED screen

(* Mutant: apply() reports the layout although the backend refused it.       *)
ApplyFailsAssigning ==
    /\ Resume /\ Top.op = "apply" /\ ~Top.done
    /\ Return
    /\ m_layout' = Top.layout
    /\ UNCHANGED <<m_previousLayout, m_revertTimer, screen, lastKept, trial>>

(* Mutant: apply() stops the timer before it asks the backend.               *)
ApplyFailsDisarmed ==
    /\ Resume /\ Top.op = "apply" /\ ~Top.done
    /\ Return
    /\ m_revertTimer' = FALSE
    /\ UNCHANGED <<m_layout, m_previousLayout, screen, lastKept, trial>>

(* ... and after it returned false: nothing has changed.                     *)
ApplyFails ==
    /\ Resume /\ Top.op = "apply" /\ ~Top.done
    /\ Return
    /\ UNCHANGED <<m_layout, m_previousLayout, m_revertTimer, screen, lastKept,
                   trial>>

Confirm ==
    /\ m_revertTimer
    /\ m_revertTimer' = FALSE
    /\ m_previousLayout' = m_layout
    /\ lastKept' = m_layout
    /\ trial' = "none"
    /\ UNCHANGED <<m_layout, calls, screen>>

(* The timer fires, or a caller reverts: revert() up to the slots of          *)
(* layoutReverting, which are handed the layout of that moment.              *)
BeginRevert ==
    /\ m_revertTimer
    /\ m_revertTimer' = FALSE
    /\ Enter([op |-> "revert", pc |-> "notify", layout |-> m_previousLayout,
              confirm |-> FALSE, done |-> FALSE])
    /\ UNCHANGED <<m_layout, m_previousLayout, screen, lastKept, trial>>

(* The slots return; m_previousLayout is read again for the backend.         *)
RevertNotified ==
    /\ calls # << >> /\ Top.pc = "notify"
    /\ calls' = [calls EXCEPT ![Len(calls)].pc = "apply",
                              ![Len(calls)].layout = m_previousLayout]
    /\ UNCHANGED <<m_layout, m_previousLayout, m_revertTimer, screen, lastKept,
                   trial>>

(* m_previousLayout is read a third time, after the backend's wait.          *)
RevertSucceeds ==
    /\ Resume /\ Top.op = "revert" /\ Top.done
    /\ Return
    /\ m_layout' = m_previousLayout
    /\ trial' = IF trial = "single" THEN "none" ELSE trial
    /\ UNCHANGED <<m_previousLayout, m_revertTimer, screen, lastKept>>

(* The backend could not go back: the layout on trial stays, without a timer.*)
RevertFails ==
    /\ Resume /\ Top.op = "revert" /\ ~Top.done
    /\ Return
    /\ UNCHANGED <<m_layout, m_previousLayout, m_revertTimer, screen, lastKept,
                   trial>>

(* systemd restarts the daemon after a crash; the new process adopts the      *)
(* stored layout.                                                            *)
Restart(l) ==
    /\ m_layout' = l
    /\ m_previousLayout' = l
    /\ m_revertTimer' = FALSE
    /\ calls' = << >>
    /\ screen' = NoLayout
    /\ lastKept' = l
    /\ trial' = "none"

Next ==
    \/ \E l \in Layout : ApplyInvalid(l)
    \/ \E l \in Layout, confirm \in BOOLEAN : ApplyCall(l, confirm)
    \/ \E k \in DOMAIN calls : ScreenTakes(k)
    \/ ApplySucceeds
    \/ ApplyFails
    \/ Confirm
    \/ BeginRevert
    \/ RevertNotified
    \/ RevertSucceeds
    \/ RevertFails
    \/ \E l \in ValidLayout : Restart(l)

Spec == Init /\ [][Next]_vars

(* A started timer expires (Qt fires an expired timer as soon as an event    *)
(* loop runs) and a backend call returns (the KScreen operations end).       *)
Fairness ==
    /\ WF_vars(BeginRevert)
    /\ WF_vars(RevertNotified)
    /\ WF_vars(ApplySucceeds \/ ApplyFails \/ RevertSucceeds \/ RevertFails)

FairSpec == Spec /\ Fairness

-----------------------------------------------------------------------------
(* Properties                                                                *)

(* When no call is under way, what the backend was last told to show is the  *)
(* layout the controller reports, however applies failed, trials expired or  *)
(* were confirmed.  (apply and revert assign m_layout only after the backend *)
(* returned.  It is a property of calls that do not overlap: nested ones may *)
(* reach KScreen in another order than they return.)                         *)
ScreenShowsLayout ==
    calls = << >> => screen \in {NoLayout, Normal[m_layout]}

(* A layout that is alone on trial can only fall back to the layout last     *)
(* kept, and without a trial the reported layout is the one kept: failed     *)
(* calls, the timer, reverts that fail and calls that are entered while      *)
(* others wait never lose it.  (Three assignments in apply, two in confirm   *)
(* and one in revert keep m_layout and m_previousLayout apart.)              *)
TrialFallsBackToKept ==
    /\ trial = "none" => m_layout = lastKept
    /\ trial = "single" => m_previousLayout = lastKept

(* A layout that is alone on trial has something that will end the trial: the *)
(* timer runs, or a revert is under way.  No step takes that from it, however *)
(* calls overlap, but a revert that fails.  (Four assignments to the timer,   *)
(* among them one before and one after a wait of the backend.)                *)
HasAnEnd == m_revertTimer \/ \E k \in DOMAIN calls : calls[k].op = "revert"

TrialKeepsItsEnd ==
    [][(trial = "single" => HasAnEnd) /\ ~RevertFails
          => (trial' = "single" => HasAnEnd')]_vars

(* What "--temporary" promises ("Require confirmation and revert after 15    *)
(* seconds"): a fallback that succeeds ends at a layout that somebody kept,  *)
(* not at another one that was only on trial.                                *)
FallbackRestoresKept ==
    [][RevertSucceeds => m_layout' = lastKept]_vars
=============================================================================
