------------------------- MODULE MCLayoutController -------------------------
(* Instances of LayoutController for TLC: a fallback, a layout that is away  *)
(* from the origin, its normal form, and one that does not validate.         *)
EXTENDS LayoutController

CONSTANTS fallback, shifted, atOrigin, overlapping, none

MCLayout == {fallback, shifted, atOrigin, overlapping}
MCValidLayout == {fallback, shifted, atOrigin}
MCNormal == [l \in MCLayout |-> IF l = shifted THEN atOrigin ELSE l]
=============================================================================
