---------------------------- MODULE KScreenBackend ----------------------------
(***************************************************************************)
(* KScreenBackend::apply (src/core/kscreenbackend.cpp): read the outputs   *)
(* of KWin (GetConfigOperation), match and arrange them monitor by monitor *)
(* on a copy, write the copy back (SetConfigOperation).  KScreen and KWin  *)
(* are external: either operation may fail, and a failed write changes     *)
(* nothing.  One call runs at a time here; LayoutService lets them overlap.*)
(***************************************************************************)
EXTENDS KScreenMatching, FiniteSets

CONSTANTS
    Monitors,   \* the layouts: sequences of monitors with distinct ids
    Configs     \* the configurations KWin can be in

VARIABLES
    kwin,       \* the outputs of KWin
    before,     \* history: those outputs when the call began
    layout,     \* the monitors of the call, in the order of the layout
    pc,         \* where the call is: a KScreen operation, the loop, or its result
    next,       \* the monitor whose turn it is
    turn        \* the copy of the configuration, the outputs used, and whether
                \* an enabled monitor has found no output

vars == <<kwin, before, layout, pc, next, turn>>

Fresh(config) == [config |-> config, used |-> {}, missing |-> FALSE]

Outputs == UNION {{config[o] : o \in DOMAIN config} : config \in Configs}
Ids == UNION {{monitors[k].id : k \in DOMAIN monitors} : monitors \in Monitors}
Output == [name : {output.name : output \in Outputs}, compatible : BOOLEAN,
           enabled : BOOLEAN, shows : Ids \cup {output.shows : output \in Outputs}]

(* MonitorLayout::validate refuses two monitors of one id.                    *)
ASSUME KScreenAssumption ==
    /\ \A monitors \in Monitors :
          /\ monitors \in Seq([id : Ids, enabled : BOOLEAN,
                               name : {monitors[k].name : k \in DOMAIN monitors}])
          /\ \A j, k \in DOMAIN monitors : monitors[j].id = monitors[k].id => j = k
    /\ Configs \subseteq Seq(Output)

TypeOK ==
    /\ layout \in Monitors
    /\ before \in Configs
    /\ kwin \in Seq(Output) /\ Len(kwin) = Len(before)
    /\ turn.config \in Seq(Output) /\ Len(turn.config) = Len(before)
    /\ turn.used \subseteq DOMAIN before
    /\ turn.missing \in BOOLEAN
    /\ pc \in {"get", "loop", "set", "true", "false"}
    /\ next \in 1..(Len(layout) + 1)

Init ==
    /\ kwin \in Configs
    /\ before = kwin
    /\ layout \in Monitors
    /\ pc = "get"
    /\ next = 1
    /\ turn = Fresh(kwin)

(* Mutant: the loop starts before the first monitor.                          *)
GetConfigTooEarly ==
    /\ pc = "get"
    /\ pc' = "loop"
    /\ turn' = Fresh(kwin)
    /\ next' = 0
    /\ UNCHANGED <<kwin, before, layout>>

GetConfig ==
    /\ pc = "get"
    /\ pc' = "loop"
    /\ turn' = Fresh(kwin)
    /\ UNCHANGED <<kwin, before, layout, next>>

(* Mutant: every output is written as soon as it is arranged.                 *)
MatchNextInPlace ==
    /\ pc = "loop" /\ next <= Len(layout)
    /\ turn' = Arrange(turn, layout[next])
    /\ kwin' = turn'.config
    /\ next' = next + 1
    /\ pc' = IF turn'.missing THEN "false" ELSE "loop"
    /\ UNCHANGED <<before, layout>>

MatchNext ==
    /\ pc = "loop" /\ next <= Len(layout)
    /\ turn' = Arrange(turn, layout[next])
    /\ next' = next + 1
    /\ pc' = IF turn'.missing THEN "false" ELSE "loop"
    /\ UNCHANGED <<kwin, before, layout>>

Matched ==
    /\ pc = "loop" /\ next > Len(layout)
    /\ pc' = "set"
    /\ UNCHANGED <<kwin, before, layout, next, turn>>

SetConfig ==
    /\ pc = "set"
    /\ kwin' = turn.config
    /\ pc' = "true"
    /\ UNCHANGED <<before, layout, next, turn>>

OperationFails ==
    /\ pc \in {"get", "set"}
    /\ pc' = "false"
    /\ UNCHANGED <<kwin, before, layout, next, turn>>

Next ==
    \/ GetConfig
    \/ MatchNext
    \/ Matched
    \/ SetConfig
    \/ OperationFails

Spec == Init /\ [][Next]_vars

-----------------------------------------------------------------------------
(* Properties                                                                *)

Enabled == {k \in DOMAIN layout : layout[k].enabled}

Shown(id) == \E o \in DOMAIN kwin : kwin[o].enabled /\ kwin[o].shows = id

(* The situation the patched KRdp makes: every enabled monitor has an output  *)
(* of its own, named after its id, and no other output and no other monitor   *)
(* goes by that name.                                                         *)
OwnOutput(k) == {o \in DOMAIN before : before[o].name = layout[k].id}
OutputsAreOwn ==
    \A k \in Enabled :
        /\ \E o \in DOMAIN before :
               OwnOutput(k) = {o} /\ Named(layout[k], before) = {o}
        /\ \A j \in DOMAIN layout : j # k => layout[j].name # layout[k].id

(* Then every enabled monitor gets its own output and keeps it, although      *)
(* disabled monitors take compatible outputs on the way and turn them off.    *)
OwnOutputsAreShown ==
    pc = "true" /\ OutputsAreOwn =>
        \A k \in Enabled : \E o \in OwnOutput(k) :
            kwin[o].enabled /\ kwin[o].shows = layout[k].id

(* Then no monitor is refused for want of an output.                          *)
OwnOutputsSuffice == OutputsAreOwn => ~turn.missing

(* The situation stock KRdp makes: no output is named after a monitor.  A     *)
(* call that succeeds shows every enabled monitor on an output of its own.    *)
OutputsAreStock ==
    \A k \in DOMAIN layout : Named(layout[k], before) = {}
StockOutputsAreShown ==
    pc = "true" /\ OutputsAreStock => \A k \in Enabled : Shown(layout[k].id)

(* A call that returns false leaves KWin as it was, at whichever monitor or   *)
(* operation it failed: OutputBackend::apply is all or nothing.               *)
FailureChangesNothing == pc = "false" => kwin = before

(* "Unknown-type outputs are therefore a safe compatibility match": whatever  *)
(* the outputs are named, a call that succeeds shows every enabled monitor.   *)
CompatibilityMatchIsSafe ==
    pc = "true" => \A k \in Enabled : Shown(layout[k].id)
=============================================================================
