----------------------------- MODULE MCDashboard -----------------------------
(* An instance of Dashboard for TLC: the limits of the code, at most two     *)
(* monitors, and the drafts that a few edits reach from the default layout   *)
(* and from one whose first monitor is disabled; a monitor is widened so     *)
(* that the next one has room, has none, or is added afterwards.             *)
EXTENDS Dashboard

CONSTANT none

MCPosition == {<<0, 0>>}

MCChange == {<<"width", 2560>>, <<"rotation", 90>>}

(* 1, 2: the first and the second display, <<x, primary>> each; 0: none.     *)
First(x, enabled, primary) ==
    [fallback[1] EXCEPT !.x = x, !.enabled = enabled, !.primary = primary]
Second(x, primary) == [fallback[1] EXCEPT !.id = 2, !.x = x, !.primary = primary]
Wide == [fallback[1] EXCEPT !.width = 2560]

MCDrafts == <<
    fallback,
    <<First(0, TRUE, TRUE), Second(1920, FALSE)>>,
    <<First(0, TRUE, FALSE), Second(1920, TRUE)>>,
    <<First(0, TRUE, TRUE), Second(0, FALSE)>>,
    <<Second(1920, TRUE)>>,
    <<Second(0, TRUE)>>,
    <<Second(1920, TRUE), Second(3840, FALSE)>>,
    <<First(0, FALSE, FALSE), Second(1920, TRUE)>>,
    <<First(0, FALSE, FALSE), Second(0, TRUE)>>,
    <<First(0, FALSE, TRUE), Second(1920, FALSE)>>,
    <<First(0, FALSE, TRUE)>>,
    << >>,
    <<Wide>>,
    <<Wide, Second(1920, FALSE)>>,
    <<Wide, Second(2560, FALSE)>>,
    <<First(0, TRUE, TRUE), [Second(1920, FALSE) EXCEPT !.rotation = 90]>> >>

MCNormal == <<1, 2, 3, 4, 6, 6, 7, 9, 9, 10, 11, 12, 13, 14, 15, 16>>

(* A client's layout that is accepted goes back to the client as it came:     *)
(* fromKrdpLayout, with its change of unit, then toKrdpLayout.                *)
WireMonitor == [position : {<<0, 0>>, <<-5, 7>>}, size : {<<200, 8192>>},
                orientation : {0, 90}, desktopScaleFactor : {0, 99, 100, 133},
                primary : BOOLEAN]

ASSUME RoundTrip ==
    \A n \in 0 .. 2 : \A wire \in [1 .. n -> WireMonitor] :
        toKrdpLayout(fromKrdpLayout(wire)) = wire
=============================================================================
