--------------------------- MODULE KScreenMatching ---------------------------
(***************************************************************************)
(* The loop of KScreenBackend::apply (src/core/kscreenbackend.cpp) that    *)
(* finds an output of KWin for every monitor of a layout, as an operator   *)
(* on the configuration that KScreen handed out.                           *)
(*                                                                         *)
(* A monitor is a record of id, name and enabled.  A configuration is a    *)
(* sequence of outputs in the order of their KScreen ids; an output has a  *)
(* name, is compatible (connected and of Unknown type) or not, is enabled  *)
(* or not, and shows a monitor's part of the desktop: position, scale,     *)
(* priority, rotation and mode, which are set together, are one value.     *)
(***************************************************************************)
EXTENDS Naturals, Sequences

First(outputs) == CHOOSE o \in outputs : \A p \in outputs : o <= p

Named(monitor, config) ==
    {o \in DOMAIN config : config[o].name \in {monitor.id, monitor.name}}

Spare(config, used) == {o \in DOMAIN config : config[o].compatible /\ o \notin used}

(* Mutant: the name is looked for among the unused outputs only.              *)
CandidatesUnused(monitor, config, used) ==
    IF Named(monitor, config) \ used # {} THEN {First(Named(monitor, config) \ used)}
    ELSE IF Spare(config, used) # {} THEN {First(Spare(config, used))}
    ELSE {}

(* The output that is taken for a monitor, as a set of at most one: the first *)
(* one named after it, used or not; else the first compatible one not used.   *)
Candidates(monitor, config, used) ==
    IF Named(monitor, config) # {} THEN {First(Named(monitor, config))}
    ELSE IF Spare(config, used) # {} THEN {First(Spare(config, used))}
    ELSE {}

(* Mutant: the output that was taken is not noted as used.                    *)
ArrangeReusing(turn, monitor) ==
    LET found == Candidates(monitor, turn.config, turn.used)
        o == First(found)
    IN  IF found = {}
        THEN [turn EXCEPT !.missing = @ \/ monitor.enabled]
        ELSE [turn EXCEPT
                !.config[o].enabled = monitor.enabled,
                !.config[o].shows = IF monitor.enabled THEN monitor.id ELSE @]

(* One turn of the loop on the modified copy of the configuration.  A monitor *)
(* without an output ends the call unless the monitor is disabled.            *)
Arrange(turn, monitor) ==
    LET found == Candidates(monitor, turn.config, turn.used)
        o == First(found)
    IN  IF found = {}
        THEN [turn EXCEPT !.missing = @ \/ monitor.enabled]
        ELSE [turn EXCEPT
                !.used = @ \cup {o},
                !.config[o].enabled = monitor.enabled,
                !.config[o].shows = IF monitor.enabled THEN monitor.id ELSE @]
=============================================================================
