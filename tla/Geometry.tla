------------------------------ MODULE Geometry ------------------------------
(***************************************************************************)
(* Layouts as data: MonitorLayout (src/core/monitorlayout.cpp) and its     *)
(* conversion to the layouts of KRdp and back                              *)
(* (src/daemon/rdplayoutconversion.cpp).                                   *)
(*                                                                         *)
(* A layout is a sequence of monitors.  The id n stands for "KHEADLESS-n"  *)
(* and 0 for an id that is empty; a scale is given in thousandths.  Names  *)
(* are left out.                                                           *)
(***************************************************************************)
EXTENDS Integers, Sequences, FiniteSets

CONSTANTS
    MaximumMonitors, MinimumDimension, MaximumDimension, MaximumDesktopDimension,
    IntLimit        \* an int holds -IntLimit .. IntLimit - 1

ASSUME GeometryAssumption ==
    /\ {MaximumMonitors, MinimumDimension, MaximumDimension, MaximumDesktopDimension,
        IntLimit} \subseteq Nat \ {0}
    /\ MinimumDimension <= MaximumDimension
    /\ MaximumDimension <= MaximumDesktopDimension
    /\ MaximumDesktopDimension < IntLimit

CInt == -IntLimit .. IntLimit - 1
AsInt(n) == ((n + IntLimit) % (2 * IntLimit)) - IntLimit

Monitor == [id : Nat, x : CInt, y : CInt, width : CInt, height : CInt,
            scale : Nat, rotation : CInt, enabled : BOOLEAN, primary : BOOLEAN]

fallback == <<[id |-> 1, x |-> 0, y |-> 0, width |-> 1920, height |-> 1080,
               scale |-> 1000, rotation |-> 0, enabled |-> TRUE, primary |-> TRUE]>>

Enabled(l) == {k \in DOMAIN l : l[k].enabled}

-----------------------------------------------------------------------------
(* MonitorLayout::validate                                                   *)

(* QRect keeps its right and bottom edge, computed as ints.                  *)
Right(m) == AsInt(m.x + m.width - 1)
Bottom(m) == AsInt(m.y + m.height - 1)

Intersects(m, n) ==
    /\ m.x <= Right(n) /\ n.x <= Right(m)
    /\ m.y <= Bottom(n) /\ n.y <= Bottom(m)

(* What the united rectangle of all enabled monitors reports as its size: it  *)
(* exceeds a limit when two edges are too far apart.                         *)
Exceeds(l, limit) ==
    \E j, k \in Enabled(l) :
        /\ \A i \in Enabled(l) : l[j].x <= l[i].x /\ Right(l[i]) <= Right(l[k])
        /\ AsInt(Right(l[k]) - l[j].x + 1) > limit

ExceedsHeight(l, limit) ==
    \E j, k \in Enabled(l) :
        /\ \A i \in Enabled(l) : l[j].y <= l[i].y /\ Bottom(l[i]) <= Bottom(l[k])
        /\ AsInt(Bottom(l[k]) - l[j].y + 1) > limit

Supported(m) ==
    /\ m.width \in MinimumDimension..MaximumDimension
    /\ m.height \in MinimumDimension..MaximumDimension
    /\ m.scale \in 500..4000
    /\ m.rotation \in {0, 90, 180, 270}

Validates(l) ==
    /\ Cardinality(Enabled(l)) \in 1..MaximumMonitors
    /\ \A k \in DOMAIN l : l[k].id # 0
    /\ \A j, k \in DOMAIN l : l[j].id = l[k].id => j = k
    /\ \A k \in Enabled(l) : Supported(l[k])
    /\ \A j, k \in Enabled(l) : j # k => ~Intersects(l[j], l[k])
    /\ \E k \in Enabled(l) :
          \A j \in Enabled(l) : l[j].primary <=> j = k
    /\ ~Exceeds(l, MaximumDesktopDimension)
    /\ ~ExceedsHeight(l, MaximumDesktopDimension)

-----------------------------------------------------------------------------
(* MonitorLayout::normalized                                                 *)

Least(S) == CHOOSE n \in S : \A other \in S : n <= other

Shift(l, dx, dy) ==
    [k \in DOMAIN l |->
        IF l[k].enabled
        THEN [l[k] EXCEPT !.x = AsInt(@ - dx), !.y = AsInt(@ - dy)]
        ELSE l[k]]

Normalized(l) ==
    IF Enabled(l) = {} THEN l
    ELSE Shift(l, Least({l[k].x : k \in Enabled(l)}), Least({l[k].y : k \in Enabled(l)}))

-----------------------------------------------------------------------------
(* The layouts of KRdp: desktopScaleFactor is in percent.                    *)

toKrdpLayout(l) ==
    LET shown == SelectSeq(l, LAMBDA m : m.enabled)
    IN  [k \in DOMAIN shown |->
            [position |-> <<shown[k].x, shown[k].y>>,
             size |-> <<shown[k].width, shown[k].height>>,
             orientation |-> shown[k].rotation,
             desktopScaleFactor |-> (shown[k].scale + 5) \div 10,
             primary |-> shown[k].primary]]

fromKrdpLayout(w) ==
    [k \in DOMAIN w |->
        [id |-> k, x |-> w[k].position[1], y |-> w[k].position[2],
         width |-> w[k].size[1], height |-> w[k].size[2],
         scale |-> w[k].desktopScaleFactor * 10,
         rotation |-> w[k].orientation,
         enabled |-> TRUE, primary |-> w[k].primary]]
=============================================================================
