--------------------------- MODULE MCLayoutService ---------------------------
(* LayoutService for TLC.  "one" and "big" differ in the size of their only   *)
(* monitor, "two" adds a monitor in front of it.                              *)
EXTENDS LayoutService

Screen(id, shape) == [id |-> id, name |-> "label", enabled |-> TRUE, shape |-> shape]

MCmonitors ==
    [one |-> <<Screen("A", "small")>>,
     big |-> <<Screen("A", "large")>>,
     two |-> <<Screen("B", "small"), Screen("A", "small")>>]

MCoutputOrder == <<<<"A", "small">>, <<"A", "large">>, <<"B", "small">>>>
=============================================================================
