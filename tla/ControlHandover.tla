--------------------------- MODULE ControlHandover ---------------------------
(***************************************************************************)
(* What session ownership promises to the clients of the desktop: a        *)
(* writable client takes control when it joins; control moves at no other  *)
(* time than when its owner leaves, and then to the youngest client left.  *)
(* Read-only clients do not appear here: they never take part.             *)
(***************************************************************************)
CONSTANTS ConnId, NoId

VARIABLES
    joined,     \* the writable clients
    before,     \* <<c, d>>: c joined before d
    owner       \* who controls the desktop

Init == joined = {} /\ before = {} /\ owner = NoId

Join(c) ==
    /\ c \notin joined
    /\ joined' = joined \cup {c}
    /\ before' = before \cup (joined \X {c})
    /\ owner' = c

(* All the others joined before c.                                           *)
Youngest(c, clients, order) ==
    c \in clients /\ \A d \in clients \ {c} : <<d, c>> \in order

Leave(c) ==
    /\ c \in joined
    /\ joined' = joined \ {c}
    /\ before' = before \cap (joined' \X joined')
    /\ \/ owner # c /\ owner' = owner
       \/ owner = c /\ Youngest(owner', joined', before)
       \/ owner = c /\ joined' = {} /\ owner' = NoId

Next == \E c \in ConnId : Join(c) \/ Leave(c)

Spec == Init /\ [][Next]_<<joined, before, owner>>
=============================================================================
