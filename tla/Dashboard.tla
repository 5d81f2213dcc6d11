------------------------------ MODULE Dashboard ------------------------------
(***************************************************************************)
(* DashboardController (src/ui/dashboardcontroller.cpp), the layout editor *)
(* of the control panel, together with the LayoutController of the daemon  *)
(* it talks to over D-Bus.                                                 *)
(*                                                                         *)
(* The editor blocks in its calls; the daemon goes on serving other        *)
(* callers and its own timer meanwhile.  A refresh asks for the status and *)
(* then for the monitors, and in between the daemon may change the layout, *)
(* die or come back.  A call that takes longer than D-Bus waits fails for  *)
(* the editor and is still carried out by the daemon.                      *)
(*                                                                         *)
(* A layout, valid or not, is represented by its number in Drafts; Nothing *)
(* is the number of the empty list.                                        *)
(***************************************************************************)
EXTENDS LayoutController, Geometry

CONSTANTS
    Drafts,         \* a bound: the sequence of the layouts that can come up
    Nothing,        \* the empty list of monitors is Drafts[Nothing]
    OtherLayout,    \* the layouts that other callers, and profiles, ask for
    Position,       \* where the user drags a monitor to: <<x, y>>
    Change,         \* what the user sets of a monitor: <<key, value>>
    MaxEvents       \* bound: edits, applies, timeouts and crashes in a behaviour

ASSUME DraftAssumption ==
    /\ Drafts \in Seq(Seq(Monitor)) /\ Layout = DOMAIN Drafts
    /\ \A j, k \in Layout : Drafts[j] = Drafts[k] => j = k
    /\ Nothing \in Layout /\ Drafts[Nothing] = << >>
    /\ ValidLayout = {l \in Layout : Validates(Drafts[l])}
    /\ \A l \in ValidLayout : Drafts[Normal[l]] = Normalized(Drafts[l])
    /\ OtherLayout \subseteq ValidLayout
    /\ Supported(fallback[1])
    /\ MaxEvents \in Nat

(* The widgets of DisplaysPage.qml offer nothing else.                       *)
ASSUME ChangeAssumption ==
    Change \subseteq
        ({"width", "height"} \X (MinimumDimension..MaximumDimension))
        \cup ({"scale"} \X {500, 750, 1000, 1250, 1500, 2000, 2500, 3000, 4000})
        \cup ({"rotation"} \X {0, 90, 180, 270})

VARIABLES
    m_monitors,     \* the monitors shown by the editor
    m_layoutDirty,  \* they are a draft of the user
    at,             \* where the editor is: idle, or in which blocking call
    refreshes,      \* refreshes it has to finish before it is idle again
    asked,          \* the request of the current or last callBool
    queued,         \* the daemon has not dispatched that request yet
    ours,           \* the suspended call that will answer the editor, or 0
    up,             \* the daemon owns its name on the bus
    stored,         \* the layout in the settings file
    spoilt,         \* history: the draft went a way that need not be accepted
    events          \* how many of MaxEvents have happened

editor == <<m_monitors, m_layoutDirty, spoilt>>
waiting == <<at, refreshes, asked>>
daemon == <<vars, ours, up, stored>>
allVars == <<vars, editor, waiting, queued, ours, up, stored, events>>

Request == [op : {"apply", "profile", "confirm", "revert"}, layout : Layout]
NoRequest == [op |-> "none", layout |-> Nothing]

DashboardTypeOK ==
    /\ TypeOK
    /\ m_monitors \in Layout
    /\ m_layoutDirty \in BOOLEAN /\ queued \in BOOLEAN
    /\ up \in BOOLEAN /\ spoilt \in BOOLEAN
    /\ at \in {"idle", "call", "status", "monitors"}
    /\ refreshes \in IF at \in {"status", "monitors"} THEN 1..2 ELSE {0}
    /\ asked \in Request \cup {NoRequest}
    /\ stored \in ValidLayout
    /\ events \in 0..MaxEvents
    /\ ours \in 0..Len(calls)
    /\ ours # 0 => at = "call" /\ ~queued
    /\ queued => up

DashboardInit ==
    /\ Init /\ m_layout \in OtherLayout
    /\ m_monitors = m_layout
    /\ m_layoutDirty = FALSE
    /\ at = "idle"
    /\ refreshes = 0
    /\ asked = NoRequest
    /\ queued = FALSE
    /\ ours = 0
    /\ up = TRUE
    /\ stored = m_layout
    /\ spoilt = FALSE
    /\ events = 0

Event == events < MaxEvents /\ events' = events + 1

-----------------------------------------------------------------------------
(* Editing.  A bound: only drafts that are members of Layout.                *)

RightEdge(l) ==
    LET edges == {l[k].x + l[k].width : k \in Enabled(l)} \cup {0}
    IN  CHOOSE e \in edges : \A other \in edges : other <= e

(* Mutant: the new monitor is put at the origin.                             *)
AddedAtOrigin(l) ==
    Append(l, [fallback[1] EXCEPT !.id = Len(l) + 1, !.primary = FALSE])

Added(l) ==
    Append(l, [fallback[1] EXCEPT !.id = Len(l) + 1, !.x = RightEdge(l),
                                  !.primary = FALSE])

WithPrimary(l, index) == [k \in DOMAIN l |-> [l[k] EXCEPT !.primary = k = index]]

Removed(l, index) ==
    LET rest == SubSeq(l, 1, index - 1) \o SubSeq(l, index + 1, Len(l))
    IN  IF l[index].primary THEN WithPrimary(rest, 1) ELSE rest

Changed(l, index, key, value) == [l EXCEPT ![index][key] = value]

Moved(l, index, position) ==
    [l EXCEPT ![index].x = position[1], ![index].y = position[2]]

Shown == Drafts[m_monitors]

Edit(monitors, spoils) ==
    /\ at = "idle"
    /\ Event
    /\ \E draft \in Layout : Drafts[draft] = monitors /\ m_monitors' = draft
    /\ m_layoutDirty' = TRUE
    /\ spoilt' = (spoilt \/ spoils)
    /\ UNCHANGED <<daemon, waiting, queued>>

(* The desktop has grown beyond the limit, to the right or downwards.        *)
NoRoom(l) ==
    \E j, k \in Enabled(l) :
        \/ l[j].x + l[j].width - l[k].x > MaximumDesktopDimension
        \/ l[j].y + l[j].height - l[k].y > MaximumDesktopDimension

(* Two monitors have come to lie over each other, or no room is left.         *)
Crowded(l) ==
    \/ \E j, k \in Enabled(l) : j # k /\ Intersects(l[j], l[k])
    \/ NoRoom(l)

(* The number of the new monitor may be taken when another one was removed,  *)
(* there may be no room for it, and there is no primary one if the list was  *)
(* empty.                                                                    *)
addMonitor ==
    /\ Len(Shown) < MaximumMonitors
    /\ Edit(Added(Shown),
            \/ Shown = << >>
            \/ \E k \in DOMAIN Shown : Shown[k].id = Len(Shown) + 1
            \/ NoRoom(Added(Shown)))

(* The monitor that becomes the primary one may be disabled.                 *)
removeMonitor(index) ==
    /\ Len(Shown) > 1
    /\ Edit(Removed(Shown, index),
            Shown[index].primary /\ ~Removed(Shown, index)[1].enabled)

makePrimary(index) == Edit(WithPrimary(Shown, index), ~Shown[index].enabled)

(* Width, height, scale or rotation; nothing moves out of the way.           *)
updateMonitor(index, key, value) ==
    LET l == Changed(Shown, index, key, value) IN Edit(l, Crowded(l))

updateMonitorPosition(index, position) ==
    LET l == Moved(Shown, index, position) IN Edit(l, Crowded(l))

-----------------------------------------------------------------------------
(* Refreshing                                                                *)

BeginRefreshes(n) == at' = "status" /\ refreshes' = n

(* The 2-second timer and the signals of the daemon.  (Without a daemon on   *)
(* the bus, reconnect() finds nothing to ask.)                               *)
Poll ==
    /\ at = "idle" /\ up
    /\ BeginRefreshes(1)
    /\ UNCHANGED <<daemon, events, editor, asked, queued>>

reloadLayout ==
    /\ at = "idle"
    /\ m_layoutDirty' = FALSE
    /\ IF up THEN BeginRefreshes(1) ELSE UNCHANGED <<at, refreshes>>
    /\ UNCHANGED <<daemon, events, m_monitors, spoilt, asked, queued>>

RefreshEnds ==
    /\ refreshes' = refreshes - 1
    /\ at' = IF refreshes = 1 THEN "idle" ELSE "status"

(* Calls of one sender are dispatched in order.                              *)
StatusAnswered ==
    /\ at = "status" /\ up /\ ~queued
    /\ at' = "monitors"
    /\ UNCHANGED <<daemon, events, editor, refreshes, asked, queued>>

StatusFails ==
    /\ at = "status" /\ ~up
    /\ RefreshEnds
    /\ UNCHANGED <<daemon, events, editor, asked, queued>>

(* Mutant: only an empty list is filled by a refresh.                        *)
ShowOnce(layout) ==
    IF m_layoutDirty \/ m_monitors # Nothing
    THEN UNCHANGED editor
    ELSE m_monitors' = layout /\ spoilt' = (layout = Nothing) /\ UNCHANGED m_layoutDirty

(* A draft stays; otherwise the reply is shown, an empty one if it failed.   *)
Show(layout) ==
    IF m_layoutDirty
    THEN UNCHANGED editor
    ELSE m_monitors' = layout /\ spoilt' = (layout = Nothing) /\ UNCHANGED m_layoutDirty

MonitorsAnswered ==
    /\ at = "monitors" /\ up
    /\ Show(m_layout)
    /\ RefreshEnds
    /\ UNCHANGED <<daemon, events, asked, queued>>

MonitorsFails ==
    /\ at = "monitors" /\ ~up
    /\ Show(Nothing)
    /\ RefreshEnds
    /\ UNCHANGED <<daemon, events, asked, queued>>

-----------------------------------------------------------------------------
(* Calling                                                                   *)

(* callBool up to the reply.  A bound: one request is queued at a time.      *)
Ask(op, layout) ==
    /\ at = "idle" /\ ~queued
    /\ at' = "call"
    /\ asked' = [op |-> op, layout |-> layout]
    /\ queued' = up
    /\ UNCHANGED <<daemon, editor, refreshes>>

applyLayout == Event /\ Ask("apply", m_monitors)
applyProfile(layout) == Event /\ Ask("profile", layout)
confirmLayout == Ask("confirm", Nothing) /\ UNCHANGED events
revertLayout == Ask("revert", Nothing) /\ UNCHANGED events

(* The request is remembered while the daemon or the editor needs it.        *)
Forgets == asked' = IF at' = "call" \/ queued' THEN asked ELSE NoRequest

(* Mutant: the draft is given up whatever the daemon says.                   *)
AnsweredTaken(reply) ==
    /\ m_layoutDirty' = (m_layoutDirty /\ asked.op = "confirm")
    /\ IF asked.op # "confirm" THEN BeginRefreshes(IF reply = "false" THEN 2 ELSE 1)
       ELSE IF reply = "false" THEN BeginRefreshes(1)
       ELSE at' = "idle" /\ UNCHANGED refreshes
    /\ Forgets
    /\ UNCHANGED <<m_monitors, spoilt>>

(* The rest of callBool, which refreshes when the daemon said no, and of its *)
(* caller, which refreshes in any case; confirmLayout does not.              *)
Answered(reply) ==
    /\ m_layoutDirty' = (m_layoutDirty /\ (asked.op = "confirm" \/ reply # "true"))
    /\ IF asked.op # "confirm" THEN BeginRefreshes(IF reply = "false" THEN 2 ELSE 1)
       ELSE IF reply = "false" THEN BeginRefreshes(1)
       ELSE at' = "idle" /\ UNCHANGED refreshes
    /\ Forgets
    /\ UNCHANGED <<m_monitors, spoilt>>

ReplyIf(awaited, reply) ==
    \/ awaited /\ Answered(reply)
    \/ ~awaited /\ UNCHANGED <<editor, at, refreshes>> /\ Forgets

(* Mutant: the late reply is still taken for the editor's.                   *)
CallTimesOutWaiting ==
    /\ at = "call"
    /\ Event
    /\ UNCHANGED queued
    /\ Answered("error")
    /\ UNCHANGED <<vars, ours, up, stored>>

(* D-Bus has waited for 25 seconds; the daemon will still do what was asked. *)
CallTimesOut ==
    /\ at = "call"
    /\ Event
    /\ UNCHANGED queued
    /\ Answered("error")
    /\ ours' = 0
    /\ UNCHANGED <<vars, up, stored>>

(* There was no daemon, or it died with the request.                         *)
CallIsLost ==
    /\ at = "call" /\ ~queued /\ ours = 0
    /\ UNCHANGED queued
    /\ Answered("error")
    /\ UNCHANGED <<daemon, events>>

-----------------------------------------------------------------------------
(* The daemon.  The settings are saved whenever no confirmation is pending.  *)

Saves == stored' = IF m_revertTimer' THEN stored ELSE m_layout'

DispatchApply ==
    /\ queued /\ asked.op \in {"apply", "profile"}
    /\ queued' = FALSE
    /\ \/ /\ ApplyInvalid(asked.layout)
          /\ ReplyIf(at = "call", "false")
          /\ UNCHANGED ours
       \/ /\ ApplyCall(asked.layout, TRUE)
          /\ ours' = IF at = "call" THEN Len(calls') ELSE 0
          /\ UNCHANGED <<editor, at, refreshes>>
          /\ Forgets
    /\ UNCHANGED <<up, stored, events>>

DispatchConfirm ==
    /\ queued /\ asked.op = "confirm"
    /\ queued' = FALSE
    /\ \/ Confirm /\ Saves /\ ReplyIf(at = "call", "true")
       \/ ~m_revertTimer /\ UNCHANGED <<vars, stored>> /\ ReplyIf(at = "call", "false")
    /\ UNCHANGED <<ours, up, events>>

DispatchRevert ==
    /\ queued /\ asked.op = "revert"
    /\ queued' = FALSE
    /\ \/ /\ BeginRevert
          /\ ours' = IF at = "call" THEN Len(calls') ELSE 0
          /\ UNCHANGED <<editor, at, refreshes>>
          /\ Forgets
       \/ /\ ~m_revertTimer /\ UNCHANGED <<vars, ours>>
          /\ ReplyIf(at = "call", "false")
    /\ UNCHANGED <<up, stored, events>>

(* The innermost call returns, and answers the editor if that waits for it.   *)
CallEnds == ours' = IF ours = Len(calls) THEN 0 ELSE ours

CallSucceeds ==
    /\ ApplySucceeds \/ RevertSucceeds
    /\ Saves
    /\ UNCHANGED queued
    /\ ReplyIf(ours = Len(calls), "true")
    /\ CallEnds
    /\ UNCHANGED <<up, events>>

CallFails ==
    /\ ApplyFails \/ RevertFails
    /\ UNCHANGED queued
    /\ ReplyIf(ours = Len(calls), "false")
    /\ CallEnds
    /\ UNCHANGED <<up, stored, events>>

(* The backend, the slots of layoutReverting, the timer and other callers.   *)
Backend ==
    /\ RevertNotified \/ \E k \in DOMAIN calls : ScreenTakes(k)
    /\ UNCHANGED <<editor, waiting, queued, ours, up, stored, events>>

TimerFires ==
    /\ up
    /\ BeginRevert
    /\ UNCHANGED <<editor, waiting, queued, ours, up, stored, events>>

OtherApplies(l, confirm) ==
    /\ up
    /\ Event
    /\ ApplyCall(l, confirm)
    /\ UNCHANGED <<editor, waiting, queued, ours, up, stored>>

OtherConfirms ==
    /\ up
    /\ Confirm
    /\ Saves
    /\ UNCHANGED <<editor, waiting, queued, ours, up, events>>

(* A crash; what Restart does is only seen by callers once the name is owned *)
(* again.                                                                    *)
Dies ==
    /\ up
    /\ Event
    /\ up' = FALSE
    /\ queued' = FALSE
    /\ ours' = 0
    /\ Restart(stored)
    /\ UNCHANGED <<editor, at, refreshes, stored>>
    /\ Forgets

Boots ==
    /\ ~up
    /\ up' = TRUE
    /\ UNCHANGED <<vars, editor, waiting, queued, ours, stored, events>>

DashboardNext ==
    \/ addMonitor
    \/ \E k \in DOMAIN Shown : removeMonitor(k) \/ makePrimary(k)
    \/ \E k \in DOMAIN Shown, position \in Position :
          updateMonitorPosition(k, position)
    \/ \E k \in DOMAIN Shown, change \in Change : updateMonitor(k, change[1], change[2])
    \/ Poll \/ reloadLayout
    \/ StatusAnswered \/ StatusFails \/ MonitorsAnswered \/ MonitorsFails
    \/ applyLayout \/ confirmLayout \/ revertLayout
    \/ \E l \in OtherLayout : applyProfile(l)
    \/ CallTimesOut \/ CallIsLost
    \/ DispatchApply \/ DispatchConfirm \/ DispatchRevert
    \/ CallSucceeds \/ CallFails \/ Backend \/ TimerFires
    \/ \E l \in OtherLayout, confirm \in BOOLEAN : OtherApplies(l, confirm)
    \/ OtherConfirms
    \/ Dies \/ Boots

DashboardSpec == DashboardInit /\ [][DashboardNext]_allVars

(* The timers fire, backend calls and event loops return, systemd brings the *)
(* daemon back.                                                              *)
DashboardFairness ==
    /\ WF_allVars(Poll)
    /\ WF_allVars(StatusAnswered \/ StatusFails \/ MonitorsAnswered \/ MonitorsFails)
    /\ WF_allVars(DispatchApply \/ DispatchConfirm \/ DispatchRevert)
    /\ WF_allVars(CallSucceeds \/ CallFails)
    /\ WF_allVars(CallIsLost)
    /\ WF_allVars(TimerFires)
    /\ WF_allVars(RevertNotified /\ UNCHANGED <<editor, waiting, queued, ours, up, stored, events>>)
    /\ WF_allVars(Boots)

DashboardFairSpec == DashboardSpec /\ DashboardFairness

-----------------------------------------------------------------------------
(* Properties                                                                *)

(* A draft of the user is given up only at the user's wish, or once the      *)
(* daemon reports exactly this draft: no refresh, refusal, timeout or crash  *)
(* loses an edit.  (m_layoutDirty against m_layout of another process.)      *)
EditsSurvive ==
    [][m_layoutDirty =>
          \/ m_layoutDirty' /\ (at = "idle" \/ m_monitors' = m_monitors)
          \/ reloadLayout
          \/ asked.op \in {"revert", "profile"}
          \/ m_layout' = m_monitors]_allVars

(* What the editor lets its user do leads from a layout of the daemon to one *)
(* the daemon accepts, with the exceptions spoilt names: a number used twice *)
(* after a removal, a disabled monitor made primary, an empty reply, and     *)
(* enabled monitors that were dragged, resized or added so that two overlap  *)
(* or there is no room left.  (Every edit against each test of validate().)  *)
DraftIsAccepted == ~spoilt => m_monitors \in ValidLayout

(* Once nobody applies layouts and the daemon stays alive, the editor shows  *)
(* the layout of the daemon, or a draft, again and again; whatever was lost, *)
(* torn or answered too late before.                                         *)
Calm ==
    <>[][/\ ~Dies
         /\ \A l \in Layout, confirm \in BOOLEAN : ~ApplyCall(l, confirm)]_allVars

EditorCatchesUp == Calm => []<>(m_layoutDirty \/ m_monitors = m_layout)
=============================================================================
