-------------------------- MODULE MCKScreenBackend --------------------------
(* KScreenBackend for TLC: two or three monitors in every order and every     *)
(* choice of those enabled, whose display name may be the id of another one,  *)
(* and three outputs with every choice of names and types.                    *)
EXTENDS KScreenBackend

Ids3 == {"A", "B", "C"}
Labels == {"label", "B"}

Monitor == [id : Ids3, name : Labels, enabled : BOOLEAN]
MCMonitors ==
    {m \in UNION {[1..n -> Monitor] : n \in 1..2}
            \cup [1..3 -> [id : Ids3, name : {"label"}, enabled : BOOLEAN]] :
        /\ \A j, k \in DOMAIN m : m[j].id = m[k].id => j = k
        /\ \E k \in DOMAIN m : m[k].enabled}

MCOutput == [name : {"A", "B", "other"}, compatible : BOOLEAN, enabled : {TRUE},
             shows : {"nothing"}]
MCConfigs == UNION {[1..n -> MCOutput] : n \in 0..3}
=============================================================================
