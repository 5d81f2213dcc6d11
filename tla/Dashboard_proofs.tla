--------------------------- MODULE Dashboard_proofs ---------------------------
(***************************************************************************)
(* Theorems about Dashboard and about Geometry, whose layouts it edits.    *)
(***************************************************************************)
EXTENDS Dashboard, LayoutController_proofs, SequenceTheorems, FiniteSetTheorems,
        WellFoundedInduction, TLAPS

-----------------------------------------------------------------------------
(* The normal form of a valid layout, for every limit and number of          *)
(* monitors: what LayoutController assumes of MonitorLayout.                 *)

Room == IntLimit - MaximumDesktopDimension - MaximumDimension

(* The layouts whose coordinates leave the ints room, which the code does    *)
(* not check.                                                                *)
Small(l) ==
    \A k \in Enabled(l) : 2 * l[k].x \in -Room .. Room /\ 2 * l[k].y \in -Room .. Room

(* The limits are ordered as the code has them.                            *)
LEMMA Limits ==
    /\ MinimumDimension \in Nat /\ MaximumDimension \in Nat
    /\ MaximumDesktopDimension \in Nat /\ MaximumMonitors \in Nat
    /\ IntLimit \in Nat \ {0}
    /\ MinimumDimension > 0
    /\ MinimumDimension <= MaximumDimension
    /\ MaximumDimension <= MaximumDesktopDimension
    /\ MaximumDesktopDimension < IntLimit
BY GeometryAssumption

(* What is known of an enabled monitor of a small layout.                  *)
LEMMA Coordinates ==
    ASSUME NEW l \in Seq(Monitor), NEW k \in Enabled(l), Small(l)
    PROVE  /\ k \in DOMAIN l /\ l[k] \in Monitor /\ l[k].enabled
           /\ l[k].x \in Int /\ l[k].y \in Int
           /\ l[k].width \in Int /\ l[k].height \in Int
           /\ -Room <= 2 * l[k].x /\ 2 * l[k].x <= Room
           /\ -Room <= 2 * l[k].y /\ 2 * l[k].y <= Room
           /\ Room \in Int /\ Room = IntLimit - MaximumDesktopDimension - MaximumDimension
<1>1. Room \in Int /\ Room = IntLimit - MaximumDesktopDimension - MaximumDimension
  BY Limits DEF Room
<1>2. k \in DOMAIN l /\ l[k] \in Monitor /\ l[k].enabled
  BY DEF Enabled
<1>3. CInt \in SUBSET Int
  BY Limits DEF CInt
<1>4. /\ l[k].x \in Int /\ l[k].y \in Int
      /\ l[k].width \in Int /\ l[k].height \in Int
  BY <1>2, <1>3 DEF Monitor
<1>5. 2 * l[k].x \in -Room .. Room /\ 2 * l[k].y \in -Room .. Room
  BY DEF Small
<1>. QED BY <1>1, <1>2, <1>4, <1>5

(* Arithmetic that stays within int is exact.                              *)
LEMMA AsIntExact ==
    ASSUME NEW n \in CInt
    PROVE  AsInt(n) = n
<1>1. IntLimit \in Nat \ {0}
  BY GeometryAssumption
<1>. DEFINE m == n + IntLimit
            d == 2 * IntLimit
<1>2. m \in Nat /\ d \in Nat \ {0} /\ m < d
  BY <1>1 DEF CInt
<1>3. m % d = m
  BY <1>2
<1>. QED BY <1>1, <1>3 DEF AsInt, CInt

-----------------------------------------------------------------------------
(* Every set of coordinates has a least element.                             *)

Less == {p \in Nat \X Nat : p[1] < p[2]}

(* A set of naturals has a least element.                                  *)
LEMMA LeastNatural ==
    ASSUME NEW S \in SUBSET Nat, S # {}
    PROVE  \E n \in S : \A m \in S : n <= m
<1>1. IsWellFoundedOn(Less, Nat)
  BY ONLY NatLessThanWellFounded, Zenon DEF OpToRel, Less
<1>2. PICK n \in S : \A m \in S : ~(<<m, n>> \in Less)
  BY <1>1, WFMin, Zenon
<1>3. \A m \in S : ~(m < n)
  BY <1>2 DEF Less
<1>. QED BY <1>3

(* So has a set of integers bounded below.                                 *)
LEMMA LeastExists ==
    ASSUME NEW S \in SUBSET Int, S # {},
           NEW b \in Int, \A n \in S : b <= n
    PROVE  Least(S) \in S /\ \A n \in S : Least(S) <= n
<1>. DEFINE T == {n - b : n \in S}
<1>0. \A n \in S : n \in Int /\ n - b \in Nat
  OBVIOUS
<1>1. T \in SUBSET Nat /\ T # {}
  BY <1>0
<1>2. PICK t \in T : \A m \in T : t <= m
  BY <1>1, LeastNatural
<1>3. PICK n \in S : t = n - b
  OBVIOUS
<1>4. \A m \in S : n <= m
  <2>. SUFFICES ASSUME NEW m \in S PROVE n <= m
    OBVIOUS
  <2>1. t <= m - b
    BY <1>2
  <2>. QED BY <1>0, <1>3, <2>1
<1>. QED BY <1>4 DEF Least

(* There is one least element only.                                        *)
LEMMA LeastIs ==
    ASSUME NEW S \in SUBSET Int, NEW n \in S, \A m \in S : n <= m
    PROVE  Least(S) = n
<1>1. Least(S) \in S /\ \A m \in S : Least(S) <= m
  BY DEF Least
<1>2. Least(S) <= n /\ n <= Least(S) /\ n \in Int /\ Least(S) \in Int
  BY <1>1
<1>. QED BY <1>2

-----------------------------------------------------------------------------
(* Moving a whole layout.                                                    *)

(* Arithmetic as int ends within int.                                      *)
LEMMA AsIntRange ==
    ASSUME NEW n \in Int
    PROVE  AsInt(n) \in CInt
<1>1. IntLimit \in Nat \ {0}
  BY Limits
<1>. DEFINE d == 2 * IntLimit
            r == (n + IntLimit) % d
<1>2. d \in Nat \ {0} /\ n + IntLimit \in Int
  BY <1>1
<1>3. r \in 0 .. d - 1
  BY <1>2
<1>. QED BY <1>1, <1>3 DEF AsInt, CInt

(* An edge of a monitor with room around it is an int.                     *)
LEMMA EdgeInCInt ==
    ASSUME NEW x \in Int, NEW w \in 1 .. MaximumDimension, -Room <= x, x <= Room
    PROVE  x \in CInt /\ x + w - 1 \in CInt
<1>1. Room \in Int /\ Room = IntLimit - MaximumDesktopDimension - MaximumDimension
  BY Limits DEF Room
<1>2. w \in Int /\ 1 <= w /\ w <= MaximumDimension
  BY Limits
<1>3. x < IntLimit /\ x + w - 1 < IntLimit
  BY <1>1, <1>2, Limits
<1>4. -IntLimit <= x /\ -IntLimit <= x + w - 1
  BY <1>1, <1>2, Limits
<1>5. x <= IntLimit - 1 /\ x + w - 1 <= IntLimit - 1
  BY <1>2, <1>3, Limits
<1>. QED BY <1>2, <1>4, <1>5, Limits DEF CInt

(* Two coordinates of half the room are at most the room apart.            *)
LEMMA HalfRange ==
    ASSUME NEW x \in Int, NEW d \in Int, -Room <= 2 * x, 2 * x <= Room,
           -Room <= 2 * d, 2 * d <= Room
    PROVE  /\ -Room <= x /\ x <= Room
           /\ -Room <= x - d /\ x - d <= Room
<1>1. Room \in Int
  BY Limits DEF Room
<1>. QED BY <1>1

(* Subtraction of integers.                                                *)
LEMMA Difference ==
    ASSUME NEW a \in Int, NEW b \in Int
    PROVE  a - b \in Int
OBVIOUS

(* An edge moves with its monitor.                                         *)
LEMMA EdgeMoves ==
    ASSUME NEW a \in Int, NEW b \in Int, NEW w \in Int
    PROVE  (a - b) + w - 1 = (a + w - 1) - b
OBVIOUS

(* The edges of a small layout are computed exactly.                       *)
LEMMA SmallEdges ==
    ASSUME NEW l \in Seq(Monitor), NEW k \in Enabled(l), Small(l), Supported(l[k])
    PROVE  /\ k \in DOMAIN l /\ l[k] \in Monitor
           /\ Right(l[k]) = l[k].x + l[k].width - 1
           /\ Bottom(l[k]) = l[k].y + l[k].height - 1
           /\ Right(l[k]) \in Int /\ Bottom(l[k]) \in Int
<1>0. /\ l[k].x \in Int /\ l[k].y \in Int
      /\ l[k].width \in Int /\ l[k].height \in Int
      /\ -Room <= 2 * l[k].x /\ 2 * l[k].x <= Room
      /\ -Room <= 2 * l[k].y /\ 2 * l[k].y <= Room
      /\ Room \in Int /\ Room = IntLimit - MaximumDesktopDimension - MaximumDimension
  BY Coordinates
<1>1. /\ l[k].width \in 1 .. MaximumDimension /\ l[k].height \in 1 .. MaximumDimension
  BY Limits DEF Supported
<1>2. /\ l[k].x + l[k].width - 1 \in CInt
      /\ l[k].y + l[k].height - 1 \in CInt
  BY <1>0, <1>1, HalfRange, EdgeInCInt
<1>3. /\ Right(l[k]) = l[k].x + l[k].width - 1
      /\ Bottom(l[k]) = l[k].y + l[k].height - 1
  BY <1>2, AsIntExact DEF Right, Bottom
<1>4. Right(l[k]) \in CInt /\ Bottom(l[k]) \in CInt
  BY <1>2, <1>3, Zenon
<1>5. CInt \in SUBSET Int
  BY Limits DEF CInt
<1>. QED BY <1>3, <1>4, <1>5, Coordinates

(* Shifting a small layout shifts its edges, and nothing wraps.            *)
LEMMA ShiftEdges ==
    ASSUME NEW l \in Seq(Monitor), NEW k \in Enabled(l), Small(l), Supported(l[k]),
           NEW left \in Int, NEW top \in Int,
           -Room <= 2 * left, 2 * left <= Room, -Room <= 2 * top, 2 * top <= Room
    PROVE  LET m == Shift(l, left, top)[k]
           IN  /\ m.x = l[k].x - left /\ m.y = l[k].y - top
               /\ Right(m) = Right(l[k]) - left /\ Bottom(m) = Bottom(l[k]) - top
               /\ m.width = l[k].width /\ m.height = l[k].height
               /\ m.scale = l[k].scale /\ m.rotation = l[k].rotation
               /\ m.id = l[k].id /\ m.primary = l[k].primary
<1>0. /\ l[k].x \in Int /\ l[k].y \in Int
      /\ l[k].width \in Int /\ l[k].height \in Int
      /\ -Room <= 2 * l[k].x /\ 2 * l[k].x <= Room
      /\ -Room <= 2 * l[k].y /\ 2 * l[k].y <= Room
      /\ Room \in Int /\ Room = IntLimit - MaximumDesktopDimension - MaximumDimension
  BY Coordinates
<1>. DEFINE m == Shift(l, left, top)[k]
<1>1. k \in DOMAIN l /\ l[k] \in Monitor /\ l[k].enabled
  BY Coordinates
<1>2. m = [l[k] EXCEPT !.x = AsInt(l[k].x - left), !.y = AsInt(l[k].y - top)]
  BY <1>1 DEF Shift
<1>11. /\ -Room <= l[k].x - left /\ l[k].x - left <= Room
       /\ -Room <= l[k].y - top /\ l[k].y - top <= Room
  BY <1>0, HalfRange
<1>14. l[k].x - left \in Int /\ l[k].y - top \in Int
  BY <1>0, Difference
<1>12. 1 \in 1 .. MaximumDimension
  BY Limits
<1>3. l[k].x - left \in CInt /\ l[k].y - top \in CInt
  BY <1>11, <1>12, <1>14, EdgeInCInt
<1>4. m.x = l[k].x - left /\ m.y = l[k].y - top
  BY <1>1, <1>2, <1>3, AsIntExact DEF Monitor
<1>5. /\ m.width = l[k].width /\ m.height = l[k].height
      /\ m.scale = l[k].scale /\ m.rotation = l[k].rotation
      /\ m.id = l[k].id /\ m.primary = l[k].primary
  BY <1>1, <1>2 DEF Monitor
<1>. HIDE DEF m
<1>15. /\ m.x \in Int /\ m.y \in Int /\ m.width \in Int /\ m.height \in Int
  BY <1>0, <1>4, <1>5, <1>14
<1>10. /\ m.width \in 1 .. MaximumDimension /\ m.height \in 1 .. MaximumDimension
  BY <1>5, Limits DEF Supported
<1>6. /\ m.x + m.width - 1 \in CInt
      /\ m.y + m.height - 1 \in CInt
  BY <1>4, <1>10, <1>11, <1>14, EdgeInCInt
<1>7. Right(m) = m.x + m.width - 1 /\ Bottom(m) = m.y + m.height - 1
  BY <1>6, AsIntExact DEF Right, Bottom
<1>8. /\ Right(l[k]) = l[k].x + l[k].width - 1
      /\ Bottom(l[k]) = l[k].y + l[k].height - 1
  BY SmallEdges
<1>9. Right(m) = Right(l[k]) - left /\ Bottom(m) = Bottom(l[k]) - top
  <2>0. l[k].x \in Int /\ l[k].width \in Int /\ left \in Int
    BY <1>0
  <2>1. (l[k].x - left) + l[k].width - 1 = (l[k].x + l[k].width - 1) - left
    BY ONLY <2>0, EdgeMoves
  <2>3. l[k].y \in Int /\ l[k].height \in Int /\ top \in Int
    BY <1>0
  <2>2. (l[k].y - top) + l[k].height - 1 = (l[k].y + l[k].height - 1) - top
    BY ONLY <2>3, EdgeMoves
  <2>. QED BY <1>4, <1>5, <1>7, <1>8, <2>1, <2>2, Zenon
<1>. QED BY <1>4, <1>5, <1>9 DEF m

(* Shifting leaves alone who is enabled, and the ids.                      *)
LEMMA ShiftKeeps ==
    ASSUME NEW l \in Seq(Monitor), NEW left, NEW top
    PROVE  /\ DOMAIN Shift(l, left, top) = DOMAIN l
           /\ Enabled(Shift(l, left, top)) = Enabled(l)
           /\ \A k \in DOMAIN l : Shift(l, left, top)[k].id = l[k].id
<1>. DEFINE s == Shift(l, left, top)
<1>1. DOMAIN s = DOMAIN l
  BY DEF Shift
<1>2. \A k \in DOMAIN l : s[k].enabled = l[k].enabled /\ s[k].id = l[k].id
  <2>. SUFFICES ASSUME NEW k \in DOMAIN l
                PROVE  s[k].enabled = l[k].enabled /\ s[k].id = l[k].id
    OBVIOUS
  <2>1. l[k] \in Monitor
    OBVIOUS
  <2>2. CASE l[k].enabled
    <3>1. s[k] = [l[k] EXCEPT !.x = AsInt(l[k].x - left), !.y = AsInt(l[k].y - top)]
      BY <2>2 DEF Shift
    <3>. QED BY <2>1, <3>1 DEF Monitor
  <2>3. CASE ~l[k].enabled
    BY <2>3 DEF Shift
  <2>. QED BY <2>2, <2>3
<1>. QED BY <1>1, <1>2 DEF Enabled

(* Where a monitor is does not matter for what it supports.                *)
LEMMA SupportedAlike ==
    ASSUME NEW m, NEW n, Supported(m), n.width = m.width, n.height = m.height,
           n.scale = m.scale, n.rotation = m.rotation
    PROVE  Supported(n)
BY DEF Supported

(* What validate() accepts it accepts anywhere on the plane.                 *)
LEMMA ShiftValidates ==
    ASSUME NEW l \in Seq(Monitor), Validates(l), Small(l),
           NEW left \in Int, NEW top \in Int,
           -Room <= 2 * left, 2 * left <= Room, -Room <= 2 * top, 2 * top <= Room
    PROVE  Validates(Shift(l, left, top))
<1>. DEFINE s == Shift(l, left, top)
<1>1. /\ DOMAIN s = DOMAIN l /\ Enabled(s) = Enabled(l)
      /\ \A k \in DOMAIN l : s[k].id = l[k].id
  BY ShiftKeeps
<1>2. \A k \in Enabled(l) : Supported(l[k])
  BY DEF Validates
<1>3. \A k \in Enabled(l) :
          /\ s[k].x = l[k].x - left /\ s[k].y = l[k].y - top
          /\ Right(s[k]) = Right(l[k]) - left /\ Bottom(s[k]) = Bottom(l[k]) - top
          /\ s[k].width = l[k].width /\ s[k].height = l[k].height
          /\ s[k].scale = l[k].scale /\ s[k].rotation = l[k].rotation
          /\ s[k].primary = l[k].primary
  BY <1>2, ShiftEdges
<1>4. \A k \in Enabled(l) :
          /\ l[k].x \in Int /\ l[k].y \in Int
          /\ Right(l[k]) \in Int /\ Bottom(l[k]) \in Int
  BY <1>2, SmallEdges, Coordinates
<1>. HIDE DEF s
<1>5. \A j, k \in Enabled(l) :
          /\ (s[j].x <= s[k].x) <=> (l[j].x <= l[k].x)
          /\ (s[j].y <= s[k].y) <=> (l[j].y <= l[k].y)
          /\ (s[j].x <= Right(s[k])) <=> (l[j].x <= Right(l[k]))
          /\ (s[j].y <= Bottom(s[k])) <=> (l[j].y <= Bottom(l[k]))
          /\ (Right(s[j]) <= Right(s[k])) <=> (Right(l[j]) <= Right(l[k]))
          /\ (Bottom(s[j]) <= Bottom(s[k])) <=> (Bottom(l[j]) <= Bottom(l[k]))
          /\ Right(s[k]) - s[j].x + 1 = Right(l[k]) - l[j].x + 1
          /\ Bottom(s[k]) - s[j].y + 1 = Bottom(l[k]) - l[j].y + 1
  <2>. TAKE j, k \in Enabled(l)
  <2>. DEFINE jx == l[j].x  kx == l[k].x  jy == l[j].y  ky == l[k].y
              sjx == s[j].x  skx == s[k].x  sjy == s[j].y  sky == s[k].y
              jr == Right(l[j])  kr == Right(l[k])  jb == Bottom(l[j])  kb == Bottom(l[k])
              sjr == Right(s[j])  skr == Right(s[k])
              sjb == Bottom(s[j])  skb == Bottom(s[k])
  <2>0. /\ jx \in Int /\ kx \in Int /\ jy \in Int /\ ky \in Int
        /\ jr \in Int /\ kr \in Int /\ jb \in Int /\ kb \in Int
    BY <1>4
  <2>1. /\ sjx = jx - left /\ skx = kx - left /\ sjy = jy - top /\ sky = ky - top
        /\ sjr = jr - left /\ skr = kr - left /\ sjb = jb - top /\ skb = kb - top
    BY <1>3
  <2>. HIDE DEF jx, kx, jy, ky, sjx, skx, sjy, sky, jr, kr, jb, kb, sjr, skr, sjb, skb
  <2>2. /\ (sjx <= skx) <=> (jx <= kx)
        /\ (sjx <= skr) <=> (jx <= kr)
        /\ (sjr <= skr) <=> (jr <= kr)
        /\ skr - sjx + 1 = kr - jx + 1
    BY ONLY <2>0, <2>1, left \in Int
  <2>3. /\ (sjy <= sky) <=> (jy <= ky)
        /\ (sjy <= skb) <=> (jy <= kb)
        /\ (sjb <= skb) <=> (jb <= kb)
        /\ skb - sjy + 1 = kb - jy + 1
    BY ONLY <2>0, <2>1, top \in Int
  <2>. QED
    BY <2>2, <2>3
    DEF jx, kx, jy, ky, sjx, skx, sjy, sky, jr, kr, jb, kb, sjr, skr, sjb, skb
<1>6. \A j, k \in Enabled(l) : Intersects(s[j], s[k]) <=> Intersects(l[j], l[k])
  BY <1>5 DEF Intersects
<1>7. \A k \in Enabled(l) : Supported(s[k])
  BY <1>2, <1>3, SupportedAlike
<1>8. ~Exceeds(s, MaximumDesktopDimension)
  BY <1>1, <1>5 DEF Exceeds, Validates
<1>9. ~ExceedsHeight(s, MaximumDesktopDimension)
  BY <1>1, <1>5 DEF ExceedsHeight, Validates
<1>10. /\ \A k \in DOMAIN s : s[k].id # 0
       /\ \A j, k \in DOMAIN s : s[j].id = s[k].id => j = k
  BY <1>1 DEF Validates
<1>11. \E k \in Enabled(s) : \A j \in Enabled(s) : s[j].primary <=> j = k
  BY <1>1, <1>3 DEF Validates
<1>12. Validates(s)
  BY <1>1, <1>6, <1>7, <1>8, <1>9, <1>10, <1>11 DEF Validates
<1>. QED BY <1>12 DEF s

-----------------------------------------------------------------------------
(* The normal form.                                                          *)

(* Normalizing a small valid layout shifts it by two of its coordinates.   *)
LEMMA NormalizedShifts ==
    ASSUME NEW l \in Seq(Monitor), Validates(l), Small(l)
    PROVE  \E left, top \in Int :
              /\ Normalized(l) = Shift(l, left, top)
              /\ -Room <= 2 * left /\ 2 * left <= Room
              /\ -Room <= 2 * top /\ 2 * top <= Room
              /\ \E k \in Enabled(l) : left = l[k].x
              /\ \E k \in Enabled(l) : top = l[k].y
              /\ \A k \in Enabled(l) : left <= l[k].x /\ top <= l[k].y
<1>. DEFINE X == {l[k].x : k \in Enabled(l)}
            Y == {l[k].y : k \in Enabled(l)}
<1>1. Enabled(l) # {}
  BY DEF Validates
<1>2. \A k \in Enabled(l) :
         /\ l[k].x \in Int /\ l[k].y \in Int
         /\ -Room <= 2 * l[k].x /\ 2 * l[k].x <= Room
         /\ -Room <= 2 * l[k].y /\ 2 * l[k].y <= Room
         /\ -Room <= l[k].x /\ -Room <= l[k].y
  BY Coordinates, HalfRange
<1>3. -Room \in Int
  BY Limits DEF Room
<1>4. X \in SUBSET Int /\ X # {} /\ Y \in SUBSET Int /\ Y # {}
  BY <1>1, <1>2
<1>5. (\A n \in X : -Room <= n) /\ (\A n \in Y : -Room <= n)
  BY <1>2
<1>6. Least(X) \in X /\ \A n \in X : Least(X) <= n
  BY <1>3, <1>4, <1>5, LeastExists
<1>7. Least(Y) \in Y /\ \A n \in Y : Least(Y) <= n
  BY <1>3, <1>4, <1>5, LeastExists
<1>8. Normalized(l) = Shift(l, Least(X), Least(Y))
  BY <1>1 DEF Normalized
<1>9. PICK i \in Enabled(l) : Least(X) = l[i].x
  BY <1>6
<1>10. PICK j \in Enabled(l) : Least(Y) = l[j].y
  BY <1>7
<1>11. \A k \in Enabled(l) : Least(X) <= l[k].x /\ Least(Y) <= l[k].y
  BY <1>6, <1>7
<1>12. l[i].x \in Int /\ l[j].y \in Int
  BY <1>2
<1>. HIDE DEF X, Y
<1>. QED BY <1>2, <1>8, <1>9, <1>10, <1>11, <1>12

(* A valid layout whose coordinates leave the ints room has a normal form    *)
(* that is valid as well: what LayoutController hands to its backend needs   *)
(* no second validation (LayoutController::apply, revert).                   *)
THEOREM NormalFormValidates ==
    ASSUME NEW l \in Seq(Monitor), Validates(l), Small(l)
    PROVE  Validates(Normalized(l))
BY NormalizedShifts, ShiftValidates

(* Subtraction of zero.                                                    *)
LEMMA MinusZero ==
    ASSUME NEW n \in Nat
    PROVE  n - 0 = n
OBVIOUS

(* The normal form starts at the origin.                                   *)
LEMMA NormalizedIsSmall ==
    ASSUME NEW l \in Seq(Monitor), Validates(l), Small(l)
    PROVE  LET n == Normalized(l)
           IN  /\ Enabled(n) = Enabled(l)
               /\ \A k \in Enabled(l) : n[k].x \in Nat /\ n[k].y \in Nat
               /\ \E k \in Enabled(l) : n[k].x = 0
               /\ \E k \in Enabled(l) : n[k].y = 0
<1>1. PICK left \in Int, top \in Int :
              /\ Normalized(l) = Shift(l, left, top)
              /\ -Room <= 2 * left /\ 2 * left <= Room
              /\ -Room <= 2 * top /\ 2 * top <= Room
              /\ \E k \in Enabled(l) : left = l[k].x
              /\ \E k \in Enabled(l) : top = l[k].y
              /\ \A k \in Enabled(l) : left <= l[k].x /\ top <= l[k].y
  BY NormalizedShifts
<1>. DEFINE n == Normalized(l)
<1>2. Enabled(n) = Enabled(l)
  BY <1>1, ShiftKeeps
<1>3. \A k \in Enabled(l) : n[k].x = l[k].x - left /\ n[k].y = l[k].y - top
  <2>. TAKE k \in Enabled(l)
  <2>1. Supported(l[k])
    BY DEF Validates
  <2>2. LET m == Shift(l, left, top)[k] IN m.x = l[k].x - left /\ m.y = l[k].y - top
    BY <1>1, <2>1, ShiftEdges
  <2>. QED BY <1>1, <2>2
<1>4. \A k \in Enabled(l) : l[k].x \in Int /\ l[k].y \in Int
  BY Coordinates
<1>. HIDE DEF n
<1>5. \A k \in Enabled(l) : n[k].x \in Nat /\ n[k].y \in Nat
  <2>. TAKE k \in Enabled(l)
  <2>. DEFINE x == l[k].x  y == l[k].y  nx == n[k].x  ny == n[k].y
  <2>1. x \in Int /\ y \in Int /\ left <= x /\ top <= y
    BY <1>1, <1>4
  <2>2. nx = x - left /\ ny = y - top
    BY <1>3
  <2>. HIDE DEF x, y, nx, ny
  <2>3. nx \in Nat /\ ny \in Nat
    BY <2>1, <2>2
  <2>. QED BY <2>3 DEF nx, ny
<1>6. PICK i \in Enabled(l) : left = l[i].x
  BY <1>1
<1>7. PICK j \in Enabled(l) : top = l[j].y
  BY <1>1
<1>8. n[i].x = 0 /\ n[j].y = 0
  <2>1. n[i].x = left - left /\ n[j].y = top - top
    BY <1>3, <1>6, <1>7, Zenon
  <2>2. left - left = 0 /\ top - top = 0
    OBVIOUS
  <2>. QED BY <2>1, <2>2, Zenon
<1>9. (\E k \in Enabled(l) : n[k].x = 0) /\ (\E k \in Enabled(l) : n[k].y = 0)
  BY <1>8
<1>. QED BY <1>2, <1>5, <1>9 DEF n

(* Normalizing twice is normalizing once, so that a layout that was applied  *)
(* and read back is stable (LayoutController::apply and the output backends).*)
THEOREM NormalFormIsStable ==
    ASSUME NEW l \in Seq(Monitor), Validates(l), Small(l)
    PROVE  Normalized(Normalized(l)) = Normalized(l)
<1>. DEFINE n == Normalized(l)
            X == {n[k].x : k \in Enabled(n)}
            Y == {n[k].y : k \in Enabled(n)}
<1>1. /\ Enabled(n) = Enabled(l)
      /\ \A k \in Enabled(n) : n[k].x \in Nat /\ n[k].y \in Nat
      /\ 0 \in X /\ 0 \in Y
  BY NormalizedIsSmall
<1>2. PICK left \in Int, top \in Int : n = Shift(l, left, top)
  BY NormalizedShifts
<1>3. DOMAIN n = DOMAIN l
  BY <1>2, ShiftKeeps
<1>9. /\ X \in SUBSET Int /\ \A m \in X : 0 <= m
      /\ Y \in SUBSET Int /\ \A m \in Y : 0 <= m
  BY <1>1
<1>4. Least(X) = 0
  BY <1>1, <1>9, LeastIs
<1>5. Least(Y) = 0
  BY <1>1, <1>9, LeastIs
<1>6. Normalized(n) = Shift(n, 0, 0)
  BY <1>1, <1>4, <1>5 DEF Normalized
<1>7. \A k \in DOMAIN n : Shift(n, 0, 0)[k] = n[k]
  <2>. TAKE k \in DOMAIN n
  <2>1. CASE ~n[k].enabled
    BY <2>1 DEF Shift
  <2>2. CASE n[k].enabled
    <3>1. k \in Enabled(n) /\ k \in Enabled(l) /\ l[k] \in Monitor
      BY <2>2, <1>1, <1>3 DEF Enabled
    <3>2. n[k] = [l[k] EXCEPT !.x = AsInt(l[k].x - left), !.y = AsInt(l[k].y - top)]
      BY <1>2, <3>1 DEF Shift, Enabled
    <3>7. l[k].x - left \in Int /\ l[k].y - top \in Int
      BY <3>1, Coordinates, Difference
    <3>3. n[k] \in Monitor
      BY <3>1, <3>2, <3>7, AsIntRange DEF Monitor
    <3>4. n[k].x \in CInt /\ n[k].y \in CInt
      BY <3>3 DEF Monitor
    <3>5. AsInt(n[k].x - 0) = n[k].x /\ AsInt(n[k].y - 0) = n[k].y
      <4>1. n[k].x - 0 = n[k].x /\ n[k].y - 0 = n[k].y
        BY <1>1, <3>1, MinusZero
      <4>. QED BY <3>4, <4>1, AsIntExact
    <3>6. Shift(n, 0, 0)[k] = [n[k] EXCEPT !.x = AsInt(n[k].x - 0), !.y = AsInt(n[k].y - 0)]
      BY <2>2 DEF Shift
    <3>. QED BY <3>3, <3>5, <3>6 DEF Monitor
  <2>. QED BY <2>1, <2>2
<1>8. Shift(n, 0, 0) = n
  BY <1>2, <1>3, <1>7 DEF Shift
<1>. QED BY <1>6, <1>8

-----------------------------------------------------------------------------
(* The calls of the daemon's controller                                      *)

(* The call at place j applies the layout l.                                 *)
Serves(j, l) == calls[j].op = "apply" /\ calls[j].pc = "apply" /\ calls[j].layout = l

(* Of n calls those that apply a layout still apply it.                      *)
StillServe(n) == \A j \in 1..n : \A l : Serves(j, l) => Serves(j, l)'

(* The stack grows by a call.                                                *)
LEMMA CallEnters ==
    ASSUME TypeOK, NEW call \in Call, Enter(call)
    PROVE  /\ Len(calls) \in Nat /\ Len(calls') = Len(calls) + 1
           /\ StillServe(Len(calls))
           /\ calls'[Len(calls')] = call
<1>1. calls \in Seq(Call) /\ Len(calls) \in Nat /\ calls' = Append(calls, call)
  BY LenProperties DEF TypeOK, Enter
<1>2. /\ Len(calls') = Len(calls) + 1 /\ calls'[Len(calls) + 1] = call
      /\ \A j \in 1..Len(calls) : calls'[j] = calls[j]
  BY <1>1, AppendProperties
<1> QED BY <1>1, <1>2 DEF StillServe, Serves

(* A call of apply.                                                          *)
LEMMA ApplyEnters ==
    ASSUME TypeOK, NEW l, NEW confirm \in BOOLEAN, ApplyCall(l, confirm)
    PROVE  /\ Len(calls) \in Nat /\ Len(calls') = Len(calls) + 1
           /\ StillServe(Len(calls))
           /\ Serves(Len(calls), l)'
<1> DEFINE call == [op |-> "apply", pc |-> "apply", layout |-> l,
                    confirm |-> confirm, done |-> FALSE]
<1>1. call \in Call /\ Enter(call)
  BY DEF ApplyCall, Call
<1>2. call.op = "apply" /\ call.pc = "apply" /\ call.layout = l
  OBVIOUS
<1> HIDE DEF call
<1> QED BY <1>1, <1>2, CallEnters DEF Serves

(* A call of revert.                                                         *)
LEMMA RevertEnters ==
    ASSUME TypeOK, BeginRevert
    PROVE  /\ Len(calls) \in Nat /\ Len(calls') = Len(calls) + 1
           /\ StillServe(Len(calls))
<1> DEFINE call == [op |-> "revert", pc |-> "notify", layout |-> m_previousLayout,
                    confirm |-> FALSE, done |-> FALSE]
<1>1. call \in Call /\ Enter(call)
  BY DEF BeginRevert, Call, TypeOK
<1> HIDE DEF call
<1> QED BY <1>1, CallEnters

(* The innermost call returns.                                               *)
LEMMA CallLeaves ==
    ASSUME TypeOK, calls # << >>, Return
    PROVE  /\ Len(calls) \in Nat \ {0} /\ Len(calls') = Len(calls) - 1
           /\ StillServe(Len(calls) - 1)
<1>1. calls \in Seq(Call) /\ Len(calls) \in Nat \ {0} /\ Len(calls) \in 0..MaxDepth
  BY LenProperties, EmptySeq DEF TypeOK
<1>2. Len(calls') = Len(calls) - 1
  BY <1>1, ReturnStack
<1>3. \A j \in 1..(Len(calls) - 1) : calls'[j] = calls[j]
  <2> DEFINE n == Len(calls)
  <2>1. \A i \in 1..(n - 1) : calls[i] \in Call
    BY <1>1, ElementOfSeq
  <2>2. n \in Nat /\ n > 0
    BY <1>1
  <2> HIDE DEF n
  <2>3. \A i \in 1..(n - 1) - 1 + 1 : SubSeq(calls, 1, n - 1)[i] = calls[1 + i - 1]
    BY <2>1, <2>2, SubSeqProperties
  <2>4. \A i \in 1..(n - 1) : i \in 1..(n - 1) - 1 + 1 /\ 1 + i - 1 = i
    BY <2>2
  <2>5. calls' = SubSeq(calls, 1, n - 1)
    BY DEF Return, n
  <2> QED BY <2>3, <2>4, <2>5 DEF n
<1> QED BY <1>1, <1>2, <1>3 DEF StillServe, Serves

(* A suspended call goes on.                                                 *)
LEMMA CallGoesOn ==
    ASSUME TypeOK, RevertNotified \/ \E k \in DOMAIN calls : ScreenTakes(k)
    PROVE  Len(calls') = Len(calls) /\ StillServe(Len(calls))
<1>1. calls \in Seq(Call) /\ DOMAIN calls = 1..Len(calls) /\ Len(calls) \in Nat
  BY LenProperties DEF TypeOK
<1>2. \A k \in 1..Len(calls) : calls[k] \in Call
  BY <1>1, ElementOfSeq
<1>3. CASE RevertNotified
  <2> DEFINE n == Len(calls)
             call == [calls[n] EXCEPT !.pc = "apply", !.layout = m_previousLayout]
  <2>1. n \in 1..n /\ calls[n].pc = "notify"
    BY <1>1, <1>3, EmptySeq DEF RevertNotified, Top
  <2>2. calls' = [calls EXCEPT ![n] = call]
    BY <1>1, <1>2, <1>3, <2>1 DEF RevertNotified, Call
  <2>3. call \in Call
    BY <1>2, <2>1 DEF Call, TypeOK
  <2> HIDE DEF call, n
  <2>4. /\ Len(calls') = n
        /\ \A j \in 1..n : j # n => calls'[j] = calls[j]
    <3>1. calls \in Seq(Call) /\ n \in 1..Len(calls) /\ Len(calls) = n
      BY <1>1, <2>1 DEF n
    <3>2. /\ Len(calls') = Len(calls)
          /\ \A j \in 1..Len(calls) : calls'[j] = IF j = n THEN call ELSE calls[j]
      BY <2>2, <2>3, <3>1, ExceptSeq
    <3> QED BY <3>1, <3>2
  <2>5. StillServe(n)
    BY <2>1, <2>4 DEF StillServe, Serves
  <2> QED BY <2>4, <2>5 DEF n
<1>4. ASSUME NEW k \in 1..Len(calls), ScreenTakes(k)
      PROVE  Len(calls') = Len(calls) /\ StillServe(Len(calls))
  <2> DEFINE call == [calls[k] EXCEPT !.done = TRUE]
  <2>1. /\ call \in Call /\ call.op = calls[k].op /\ call.pc = calls[k].pc
        /\ call.layout = calls[k].layout
    BY <1>2 DEF Call
  <2>2. calls' = [calls EXCEPT ![k] = call]
    BY <1>4 DEF ScreenTakes
  <2> HIDE DEF call
  <2>3. /\ Len(calls') = Len(calls)
        /\ \A j \in 1..Len(calls) : calls'[j] = IF j = k THEN call ELSE calls[j]
    BY <1>1, <2>1, <2>2, ExceptSeq
  <2>4. StillServe(Len(calls))
    BY <2>1, <2>3 DEF StillServe, Serves
  <2> QED BY <2>3, <2>4
<1> QED BY <1>1, <1>3, <1>4

-----------------------------------------------------------------------------
(* The editor and the daemon together                                        *)

(* DashboardTypeOK without the controller's own types.                       *)
EditorTypes ==
    /\ m_monitors \in Layout
    /\ m_layoutDirty \in BOOLEAN /\ queued \in BOOLEAN
    /\ up \in BOOLEAN /\ spoilt \in BOOLEAN
    /\ at \in {"idle", "call", "status", "monitors"}
    /\ refreshes \in IF at \in {"status", "monitors"} THEN 1..2 ELSE {0}
    /\ asked \in Request \cup {NoRequest}
    /\ stored \in ValidLayout
    /\ events \in 0..MaxEvents
    /\ ours \in 0..Len(calls)
    /\ ours # 0 => at = "call" /\ ~queued
    /\ queued => up

(* While the editor waits for the answer to an apply it shows what it asked  *)
(* for, and the call that will answer it applies just that.                  *)
AppliesWhatIsShown ==
    /\ at = "call" \/ queued => asked \in Request
    /\ at = "call" /\ asked.op = "apply" => asked.layout = m_monitors
    /\ ours # 0 /\ asked.op = "apply" => Serves(ours, asked.layout)

DashboardInv == TypeOK /\ EditorTypes /\ AppliesWhatIsShown

(* What EditsSurvive says of a step.                                         *)
Survives ==
    m_layoutDirty =>
        \/ m_layoutDirty' /\ (at = "idle" \/ m_monitors' = m_monitors)
        \/ reloadLayout
        \/ asked.op \in {"revert", "profile"}
        \/ m_layout' = m_monitors

(* Fields of requests.                                                       *)
LEMMA RequestFields ==
    /\ \A q \in Request : /\ q.op \in {"apply", "profile", "confirm", "revert"}
                          /\ q.layout \in Layout
    /\ NoRequest.op = "none" /\ NoRequest.layout = Nothing
    /\ Nothing \in Layout
BY DraftAssumption DEF Request, NoRequest

(* The controller's lengths and types.                                       *)
LEMMA CallsTyped ==
    ASSUME TypeOK
    PROVE  calls \in Seq(Call) /\ Len(calls) \in Nat
BY LenProperties DEF TypeOK

(* The answer to a call ends the editor's wait.  A draft is only given up if *)
(* the answer is true.                                                       *)
LEMMA AnswerEnds ==
    ASSUME EditorTypes, at = "call", NEW reply, Answered(reply)
    PROVE  /\ m_monitors' = m_monitors /\ spoilt' = spoilt
           /\ m_layoutDirty' \in BOOLEAN
           /\ m_layoutDirty /\ (reply # "true" \/ asked.op = "confirm") => m_layoutDirty'
           /\ at' \in {"idle", "status"}
           /\ refreshes' \in IF at' \in {"status", "monitors"} THEN 1..2 ELSE {0}
           /\ asked' \in {asked, NoRequest} /\ (queued' => asked' = asked)
<1>1. refreshes = 0 /\ m_layoutDirty \in BOOLEAN
  BY DEF EditorTypes
<1>2. /\ m_monitors' = m_monitors /\ spoilt' = spoilt
      /\ m_layoutDirty' = (m_layoutDirty /\ (asked.op = "confirm" \/ reply # "true"))
  BY DEF Answered
<1>3. \/ at' = "status" /\ refreshes' \in 1..2
      \/ at' = "idle" /\ refreshes' = 0
  BY <1>1 DEF Answered, BeginRefreshes
<1>4. asked' \in {asked, NoRequest} /\ (queued' => asked' = asked)
  BY DEF Answered, Forgets
<1> QED BY <1>1, <1>2, <1>3, <1>4

(* An answer that may not be for the editor.                                 *)
LEMMA ReplyEnds ==
    ASSUME EditorTypes, NEW awaited \in BOOLEAN, awaited => at = "call",
           NEW reply, ReplyIf(awaited, reply)
    PROVE  /\ m_monitors' = m_monitors /\ spoilt' = spoilt
           /\ m_layoutDirty' \in BOOLEAN
           /\ m_layoutDirty /\ ~(awaited /\ reply = "true" /\ asked.op # "confirm")
                => m_layoutDirty'
           /\ at' \in {"idle", "call", "status", "monitors"}
           /\ at' = "call" => at = "call" /\ ~awaited
           /\ refreshes' \in IF at' \in {"status", "monitors"} THEN 1..2 ELSE {0}
           /\ asked' \in {asked, NoRequest}
           /\ (at' = "call" \/ queued' => asked' = asked)
<1>1. CASE awaited
  <2>1. Answered(reply) /\ at = "call"
    BY <1>1 DEF ReplyIf
  <2> QED BY <1>1, <2>1, AnswerEnds
<1>2. CASE ~awaited
  <2>1. UNCHANGED <<editor, at, refreshes>> /\ Forgets
    BY <1>2 DEF ReplyIf
  <2> QED BY <1>2, <2>1 DEF editor, Forgets, EditorTypes
<1> QED BY <1>1, <1>2

(* Editing.                                                                  *)
LEMMA EditStep ==
    ASSUME DashboardInv, NEW monitors, NEW spoils \in BOOLEAN, Edit(monitors, spoils)
    PROVE  EditorTypes' /\ AppliesWhatIsShown' /\ Survives
<1>1. /\ at = "idle" /\ events' \in 0..MaxEvents
      /\ m_monitors' \in Layout /\ m_layoutDirty' = TRUE /\ spoilt' \in BOOLEAN
      /\ UNCHANGED <<daemon, waiting, queued>>
  BY DraftAssumption DEF Edit, Event, DashboardInv, EditorTypes
<1>2. /\ UNCHANGED <<calls, ours, up, stored, at, refreshes, asked, queued>>
  BY <1>1 DEF daemon, waiting, vars
<1>3. EditorTypes'
  BY <1>1, <1>2 DEF DashboardInv, EditorTypes
<1>4. ours = 0
  BY <1>1 DEF DashboardInv, EditorTypes
<1>5. AppliesWhatIsShown'
  BY <1>1, <1>2, <1>4 DEF DashboardInv, AppliesWhatIsShown
<1>6. Survives
  BY <1>1 DEF Survives
<1> QED BY <1>3, <1>5, <1>6

(* Refreshing.                                                               *)
LEMMA RefreshStep ==
    ASSUME DashboardInv,
           \/ Poll \/ reloadLayout \/ StatusAnswered \/ StatusFails
           \/ MonitorsAnswered \/ MonitorsFails
    PROVE  EditorTypes' /\ AppliesWhatIsShown' /\ Survives
<1>1. /\ UNCHANGED <<daemon, events, asked, queued>>
      /\ at # "call" /\ at' # "call"
  BY DEF Poll, reloadLayout, StatusAnswered, StatusFails, MonitorsAnswered, MonitorsFails,
         BeginRefreshes, RefreshEnds
<1>2. UNCHANGED <<calls, m_layout, ours, up, stored, asked, queued>>
  BY <1>1 DEF daemon, vars
<1>3. /\ at' \in {"idle", "status", "monitors"}
      /\ refreshes' \in IF at' \in {"status", "monitors"} THEN 1..2 ELSE {0}
  BY DEF Poll, reloadLayout, StatusAnswered, StatusFails, MonitorsAnswered, MonitorsFails,
         BeginRefreshes, RefreshEnds, DashboardInv, EditorTypes
<1>4. /\ m_monitors' \in Layout /\ m_layoutDirty' \in BOOLEAN /\ spoilt' \in BOOLEAN
      /\ reloadLayout \/ (m_layoutDirty => m_layoutDirty' /\ m_monitors' = m_monitors)
  <2>1. m_layout \in Layout /\ Nothing \in Layout
    BY LayoutAssumption, DraftAssumption DEF DashboardInv, TypeOK
  <2>2. CASE Poll \/ StatusAnswered \/ StatusFails
    BY <2>2 DEF Poll, StatusAnswered, StatusFails, editor, DashboardInv, EditorTypes
  <2>3. CASE reloadLayout
    BY <2>3 DEF reloadLayout, DashboardInv, EditorTypes
  <2>4. CASE MonitorsAnswered \/ MonitorsFails
    BY <2>1, <2>4 DEF MonitorsAnswered, MonitorsFails, Show, editor, DashboardInv, EditorTypes
  <2> QED BY <2>2, <2>3, <2>4
<1>5. EditorTypes'
  BY <1>1, <1>2, <1>3, <1>4 DEF DashboardInv, EditorTypes,
         Poll, reloadLayout, StatusAnswered, StatusFails, MonitorsAnswered, MonitorsFails
<1>6. AppliesWhatIsShown'
  BY <1>1, <1>2 DEF DashboardInv, EditorTypes, AppliesWhatIsShown
<1>7. Survives
  BY <1>4 DEF Survives
<1> QED BY <1>5, <1>6, <1>7

(* The bound on what the environment does.                                   *)
LEMMA EventsCounted ==
    ASSUME events \in 0..MaxEvents, Event
    PROVE  events' \in 0..MaxEvents
<1>1. MaxEvents \in Nat
  BY DraftAssumption
<1> QED BY <1>1 DEF Event

(* Calling.                                                                  *)
LEMMA AskStep ==
    ASSUME DashboardInv,
           \/ applyLayout \/ confirmLayout \/ revertLayout
           \/ \E l \in OtherLayout : applyProfile(l)
    PROVE  EditorTypes' /\ AppliesWhatIsShown' /\ Survives
<1>1. PICK op \in {"apply", "profile", "confirm", "revert"}, layout \in Layout :
         /\ Ask(op, layout) /\ events' \in 0..MaxEvents
         /\ op = "apply" => layout = m_monitors
  <2>1. m_monitors \in Layout /\ Nothing \in Layout /\ OtherLayout \subseteq Layout
    BY DraftAssumption, LayoutAssumption DEF DashboardInv, EditorTypes
  <2>2. events \in 0..MaxEvents /\ (Event => events' \in 0..MaxEvents)
    <3>1. events \in 0..MaxEvents
      BY DEF DashboardInv, EditorTypes
    <3> QED BY <3>1, EventsCounted
  <2>3. CASE applyLayout
    BY <2>1, <2>2, <2>3 DEF applyLayout
  <2>4. CASE confirmLayout
    BY <2>1, <2>2, <2>4 DEF confirmLayout
  <2>5. CASE revertLayout
    BY <2>1, <2>2, <2>5 DEF revertLayout
  <2>6. ASSUME NEW l \in OtherLayout, applyProfile(l)
        PROVE  Ask("profile", l) /\ events' \in 0..MaxEvents /\ l \in Layout
    BY <2>1, <2>2, <2>6 DEF applyProfile
  <2> QED BY <2>3, <2>4, <2>5, <2>6
<1>2. /\ at = "idle" /\ at' = "call" /\ queued' = up
      /\ UNCHANGED <<calls, ours, up, stored, editor, refreshes>>
      /\ asked' \in Request /\ asked'.op = op /\ asked'.layout = layout
  BY <1>1 DEF Ask, daemon, vars, Request
<1>3. ours = 0
  BY <1>2 DEF DashboardInv, EditorTypes
<1>4. EditorTypes'
  BY <1>1, <1>2, <1>3 DEF DashboardInv, EditorTypes, editor
<1>5. AppliesWhatIsShown'
  BY <1>1, <1>2, <1>3 DEF AppliesWhatIsShown, editor
<1>6. Survives
  BY <1>2 DEF Survives, editor
<1> QED BY <1>4, <1>5, <1>6

(* A call that the daemon does not answer.                                   *)
LEMMA NoAnswerStep ==
    ASSUME DashboardInv, CallTimesOut \/ CallIsLost
    PROVE  EditorTypes' /\ AppliesWhatIsShown' /\ Survives
<1>1. /\ at = "call" /\ Answered("error") /\ ours' = 0
      /\ UNCHANGED <<calls, up, stored, queued>>
      /\ events' \in 0..MaxEvents
  <2>1. events \in 0..MaxEvents
    BY DEF DashboardInv, EditorTypes
  <2>2. Event \/ UNCHANGED events
    BY DEF CallTimesOut, CallIsLost
  <2>3. events' \in 0..MaxEvents
    BY <2>1, <2>2, EventsCounted
  <2> QED BY <2>3 DEF CallTimesOut, CallIsLost, daemon, vars
<1>2. /\ m_monitors' = m_monitors /\ spoilt' = spoilt
      /\ m_layoutDirty' \in BOOLEAN /\ (m_layoutDirty => m_layoutDirty')
      /\ at' \in {"idle", "status"}
      /\ refreshes' \in IF at' \in {"status", "monitors"} THEN 1..2 ELSE {0}
      /\ asked' \in {asked, NoRequest} /\ (queued' => asked' = asked)
  BY <1>1, AnswerEnds DEF DashboardInv
<1>3. Len(calls') \in Nat
  BY <1>1, CallsTyped DEF DashboardInv
<1>4. EditorTypes'
  BY <1>1, <1>2, <1>3 DEF DashboardInv, EditorTypes
<1>5. AppliesWhatIsShown'
  BY <1>1, <1>2 DEF DashboardInv, AppliesWhatIsShown
<1>6. Survives
  BY <1>2 DEF Survives
<1> QED BY <1>4, <1>5, <1>6

(* A step in which the editor takes no part: the calls under way stay where  *)
(* they are, others may be entered.                                          *)
LEMMA EditorRests ==
    ASSUME DashboardInv, UNCHANGED <<editor, waiting, queued, ours>>,
           up' \in BOOLEAN, queued => up', stored' \in ValidLayout,
           events' \in 0..MaxEvents,
           Len(calls') \in Nat, Len(calls') >= Len(calls), StillServe(Len(calls))
    PROVE  EditorTypes' /\ AppliesWhatIsShown' /\ Survives
<1>1. /\ UNCHANGED <<m_monitors, m_layoutDirty, spoilt, at, refreshes, asked, queued, ours>>
  BY DEF editor, waiting
<1>2. Len(calls) \in Nat /\ ours \in 0..Len(calls)
  BY CallsTyped DEF DashboardInv, EditorTypes
<1>3. ours' \in 0..Len(calls')
  BY <1>1, <1>2
<1>4. EditorTypes'
  BY <1>1, <1>3 DEF DashboardInv, EditorTypes
<1>5. ours # 0 => ours \in 1..Len(calls)
  BY <1>2
<1>6. ours # 0 /\ asked.op = "apply" => Serves(ours, asked.layout)'
  BY <1>1, <1>5 DEF DashboardInv, AppliesWhatIsShown, StillServe, Serves
<1>7. AppliesWhatIsShown'
  BY <1>1, <1>6 DEF DashboardInv, AppliesWhatIsShown
<1>8. Survives
  BY <1>1 DEF Survives
<1> QED BY <1>4, <1>7, <1>8

(* Confirmation saves the layout it keeps.                                   *)
LEMMA ConfirmSaves ==
    ASSUME TypeOK, Confirm, Saves
    PROVE  calls' = calls /\ m_layout' = m_layout /\ stored' \in ValidLayout
BY DEF TypeOK, Confirm, Saves

(* The calls stay as they are.                                               *)
LEMMA SameCalls ==
    ASSUME TypeOK, calls' = calls
    PROVE  Len(calls') \in Nat /\ Len(calls') >= Len(calls) /\ StillServe(Len(calls))
<1>1. Len(calls) \in Nat
  BY CallsTyped
<1> QED BY <1>1 DEF StillServe, Serves

(* The backend, the timer, other callers, a daemon that comes back.          *)
LEMMA OthersStep ==
    ASSUME DashboardInv,
           \/ Backend \/ TimerFires \/ OtherConfirms \/ Boots \/ UNCHANGED allVars
           \/ \E l \in OtherLayout, confirm \in BOOLEAN : OtherApplies(l, confirm)
    PROVE  EditorTypes' /\ AppliesWhatIsShown' /\ Survives
<1>0. /\ TypeOK /\ up \in BOOLEAN /\ (queued => up) /\ stored \in ValidLayout
      /\ events \in 0..MaxEvents /\ (Event => events' \in 0..MaxEvents)
      /\ Len(calls) \in Nat
  BY DraftAssumption, CallsTyped DEF DashboardInv, EditorTypes, Event
<1>1. CASE Backend
  <2>1. Len(calls') = Len(calls) /\ StillServe(Len(calls))
    BY <1>0, <1>1, CallGoesOn DEF Backend
  <2>2. UNCHANGED <<editor, waiting, queued, ours, up, stored, events>>
    BY <1>1 DEF Backend
  <2> QED BY <1>0, <2>1, <2>2, EditorRests
<1>2. CASE TimerFires
  <2>1. Len(calls') = Len(calls) + 1 /\ StillServe(Len(calls))
    BY <1>0, <1>2, RevertEnters DEF TimerFires
  <2>2. UNCHANGED <<editor, waiting, queued, ours, up, stored, events>>
    BY <1>2 DEF TimerFires
  <2> QED BY <1>0, <2>1, <2>2, EditorRests
<1>3. CASE OtherConfirms
  <2>1. calls' = calls /\ stored' \in ValidLayout
    BY <1>0, <1>3, ConfirmSaves DEF OtherConfirms
  <2>2. UNCHANGED <<editor, waiting, queued, ours, up, events>>
    BY <1>3 DEF OtherConfirms
  <2> QED BY <1>0, <2>1, <2>2, SameCalls, EditorRests
<1>4. CASE Boots
  <2>1. /\ UNCHANGED <<editor, waiting, queued, ours, stored, events>> /\ up' = TRUE
        /\ calls' = calls
    BY <1>4 DEF Boots, vars
  <2> QED BY <1>0, <2>1, SameCalls, EditorRests
<1>5. CASE UNCHANGED allVars
  <2>1. /\ UNCHANGED <<editor, waiting, queued, ours, up, stored, events>>
        /\ calls' = calls
    BY <1>5 DEF allVars, vars, waiting
  <2> QED BY <1>0, <2>1, SameCalls, EditorRests
<1>6. ASSUME NEW l \in OtherLayout, NEW confirm \in BOOLEAN, OtherApplies(l, confirm)
      PROVE  EditorTypes' /\ AppliesWhatIsShown' /\ Survives
  <2>1. Len(calls') = Len(calls) + 1 /\ StillServe(Len(calls))
    BY <1>0, <1>6, ApplyEnters DEF OtherApplies
  <2>2. UNCHANGED <<editor, waiting, queued, ours, up, stored>> /\ events' \in 0..MaxEvents
    BY <1>0, <1>6 DEF OtherApplies
  <2> QED BY <1>0, <2>1, <2>2, EditorRests
<1> QED BY <1>1, <1>2, <1>3, <1>4, <1>5, <1>6

(* The daemon dies with what was asked of it.                                *)
LEMMA DiesStep ==
    ASSUME DashboardInv, Dies
    PROVE  EditorTypes' /\ AppliesWhatIsShown' /\ Survives
<1>1. /\ up' = FALSE /\ queued' = FALSE /\ ours' = 0 /\ calls' = << >>
      /\ UNCHANGED <<editor, at, refreshes, stored>>
      /\ events' \in 0..MaxEvents
      /\ asked' \in {asked, NoRequest} /\ (at = "call" => asked' = asked)
  BY DraftAssumption DEF Dies, Restart, Event, Forgets, DashboardInv, EditorTypes
<1>2. ours' \in 0..Len(calls')
  BY <1>1
<1>3. EditorTypes'
  BY <1>1, <1>2 DEF DashboardInv, EditorTypes, editor
<1>4. AppliesWhatIsShown'
  BY <1>1 DEF DashboardInv, AppliesWhatIsShown, editor
<1>5. Survives
  BY <1>1 DEF Survives, editor
<1> QED BY <1>3, <1>4, <1>5

(* The daemon dispatches a request that it can answer at once: the calls     *)
(* under way and the reported layout stay.                                   *)
LEMMA AnswersAtOnce ==
    ASSUME DashboardInv, queued, queued' = FALSE,
           UNCHANGED <<calls, ours, up, events>>, stored' \in ValidLayout,
           NEW reply, ReplyIf(at = "call", reply),
           reply # "true" \/ asked.op = "confirm"
    PROVE  EditorTypes' /\ AppliesWhatIsShown' /\ Survives
<1>1. ours = 0 /\ Len(calls) \in Nat /\ EditorTypes
  BY CallsTyped DEF DashboardInv, EditorTypes
<1>2. /\ m_monitors' = m_monitors /\ spoilt' = spoilt
      /\ m_layoutDirty' \in BOOLEAN /\ (m_layoutDirty => m_layoutDirty')
      /\ at' \in {"idle", "call", "status", "monitors"} /\ at' # "call"
      /\ refreshes' \in IF at' \in {"status", "monitors"} THEN 1..2 ELSE {0}
      /\ asked' \in {asked, NoRequest}
  <2> DEFINE awaited == at = "call"
  <2>1. awaited \in BOOLEAN /\ (awaited => at = "call") /\ (at = "call" => awaited)
    OBVIOUS
  <2>2. ReplyIf(awaited, reply)
    OBVIOUS
  <2> HIDE DEF awaited
  <2> QED BY <1>1, <2>1, <2>2, ReplyEnds
<1>3. EditorTypes'
  BY <1>1, <1>2 DEF EditorTypes
<1>4. AppliesWhatIsShown'
  BY <1>1, <1>2 DEF AppliesWhatIsShown
<1>5. Survives
  BY <1>2 DEF Survives
<1> QED BY <1>3, <1>4, <1>5

(* The daemon dispatches a request that enters a call.                       *)
LEMMA EntersACall ==
    ASSUME DashboardInv, queued, queued' = FALSE, UNCHANGED <<up, stored, events>>,
           UNCHANGED <<editor, at, refreshes>>, Forgets,
           Len(calls) \in Nat, Len(calls') = Len(calls) + 1,
           ours' = IF at = "call" THEN Len(calls') ELSE 0,
           at = "call" /\ asked.op = "apply" => Serves(Len(calls), asked.layout)'
    PROVE  EditorTypes' /\ AppliesWhatIsShown' /\ Survives
<1>1. /\ m_monitors' = m_monitors /\ m_layoutDirty' = m_layoutDirty /\ spoilt' = spoilt
      /\ asked' \in {asked, NoRequest} /\ (at = "call" => asked' = asked)
  BY DEF editor, Forgets
<1>2. ours' \in 0..Len(calls') /\ (ours' # 0 => at' = "call")
  OBVIOUS
<1>3. EditorTypes'
  BY <1>1, <1>2 DEF DashboardInv, EditorTypes
<1>4. ours' # 0 /\ asked'.op = "apply" => Serves(ours, asked.layout)'
  BY <1>1, <1>2 DEF Serves
<1>5. AppliesWhatIsShown'
  BY <1>1, <1>4 DEF DashboardInv, AppliesWhatIsShown
<1>6. Survives
  BY <1>1 DEF Survives
<1> QED BY <1>3, <1>5, <1>6

(* Dispatching.                                                              *)
LEMMA DispatchStep ==
    ASSUME DashboardInv, DispatchApply \/ DispatchConfirm \/ DispatchRevert
    PROVE  EditorTypes' /\ AppliesWhatIsShown' /\ Survives
<1>0. TypeOK /\ stored \in ValidLayout
  BY DEF DashboardInv, EditorTypes
<1>1. CASE DispatchApply
  <2>0. queued /\ queued' = FALSE /\ UNCHANGED <<up, stored, events>>
    BY <1>1 DEF DispatchApply
  <2>1. CASE ApplyInvalid(asked.layout) /\ ReplyIf(at = "call", "false") /\ UNCHANGED ours
    <3>1. UNCHANGED <<calls, ours, up, events>> /\ stored' \in ValidLayout
      BY <1>0, <2>0, <2>1 DEF ApplyInvalid
    <3> QED BY <2>0, <2>1, <3>1, AnswersAtOnce
  <2>2. CASE /\ ApplyCall(asked.layout, TRUE)
             /\ ours' = IF at = "call" THEN Len(calls') ELSE 0
             /\ UNCHANGED <<editor, at, refreshes>>
             /\ Forgets
    <3>1. /\ Len(calls) \in Nat /\ Len(calls') = Len(calls) + 1
          /\ at = "call" => Serves(Len(calls), asked.layout)'
      <4> DEFINE l == asked.layout
      <4>1. ApplyCall(l, TRUE)
        BY <2>2
      <4>2. /\ Len(calls) \in Nat /\ Len(calls') = Len(calls) + 1
            /\ calls'[Len(calls')].op = "apply" /\ calls'[Len(calls')].pc = "apply"
            /\ calls'[Len(calls')].layout = l
        <5> HIDE DEF l
        <5> QED BY <1>0, <4>1, ApplyEnters DEF Serves
      <4>3. Forgets /\ (at = "call" => asked' = asked)
        BY <2>2 DEF Forgets
      <4> QED BY <4>2, <4>3 DEF Serves
    <3> QED BY <2>0, <2>2, <3>1, EntersACall
  <2> QED BY <1>1, <2>1, <2>2 DEF DispatchApply
<1>2. CASE DispatchConfirm
  <2>0. queued /\ queued' = FALSE /\ asked.op = "confirm" /\ UNCHANGED <<ours, up, events>>
    BY <1>2 DEF DispatchConfirm
  <2>1. CASE Confirm /\ Saves /\ ReplyIf(at = "call", "true")
    <3>1. UNCHANGED <<calls, ours, up, events>> /\ stored' \in ValidLayout
      BY <1>0, <2>0, <2>1, ConfirmSaves
    <3> QED BY <2>0, <2>1, <3>1, AnswersAtOnce
  <2>2. CASE UNCHANGED <<vars, stored>> /\ ReplyIf(at = "call", "false")
    <3>1. UNCHANGED <<calls, ours, up, events>> /\ stored' \in ValidLayout
      BY <1>0, <2>0, <2>2 DEF vars
    <3> QED BY <2>0, <2>2, <3>1, AnswersAtOnce
  <2> QED BY <1>2, <2>1, <2>2 DEF DispatchConfirm
<1>3. CASE DispatchRevert
  <2>0. queued /\ queued' = FALSE /\ asked.op = "revert" /\ UNCHANGED <<up, stored, events>>
    BY <1>3 DEF DispatchRevert
  <2>1. CASE /\ BeginRevert
             /\ ours' = IF at = "call" THEN Len(calls') ELSE 0
             /\ UNCHANGED <<editor, at, refreshes>>
             /\ Forgets
    <3>1. Len(calls) \in Nat /\ Len(calls') = Len(calls) + 1
      BY <1>0, <2>1, RevertEnters
    <3> QED BY <2>0, <2>1, <3>1, EntersACall
  <2>2. CASE UNCHANGED <<vars, ours>> /\ ReplyIf(at = "call", "false")
    <3>1. UNCHANGED <<calls, ours, up, events>> /\ stored' \in ValidLayout
      BY <1>0, <2>0, <2>2 DEF vars
    <3> QED BY <2>0, <2>2, <3>1, AnswersAtOnce
  <2> QED BY <1>3, <2>1, <2>2 DEF DispatchRevert
<1> QED BY <1>1, <1>2, <1>3

(* A call returns.                                                           *)
LEMMA CallReturnsStep ==
    ASSUME DashboardInv, TypeOK', CallSucceeds \/ CallFails
    PROVE  EditorTypes' /\ AppliesWhatIsShown' /\ Survives
<1> DEFINE awaited == ours = Len(calls)
<1>1. PICK reply \in {"true", "false"} :
         /\ ReplyIf(awaited, reply)
         /\ reply = "true" => CallSucceeds
  BY DEF CallSucceeds, CallFails
<1>2. /\ UNCHANGED <<queued, up, events>> /\ CallEnds /\ Return /\ calls # << >>
      /\ stored' \in ValidLayout
  <2>1. stored \in ValidLayout /\ m_layout' \in ValidLayout
    BY DEF DashboardInv, EditorTypes, TypeOK
  <2>2. stored' \in ValidLayout
    BY <2>1 DEF CallSucceeds, CallFails, Saves
  <2>3. ApplySucceeds \/ RevertSucceeds \/ ApplyFails \/ RevertFails
    BY DEF CallSucceeds, CallFails
  <2>4. calls # << >> /\ Return
    BY <2>3 DEF ApplySucceeds, RevertSucceeds, ApplyFails, RevertFails, Resume
  <2> QED BY <2>2, <2>4 DEF CallSucceeds, CallFails
<1>3. /\ Len(calls) \in Nat \ {0} /\ Len(calls') = Len(calls) - 1
      /\ StillServe(Len(calls) - 1)
  BY <1>2, CallLeaves DEF DashboardInv
<1>4. EditorTypes /\ ours \in 0..Len(calls) /\ (ours # 0 => at = "call" /\ ~queued)
  BY DEF DashboardInv, EditorTypes
<1>5. awaited \in BOOLEAN /\ (awaited => at = "call" /\ ~queued /\ ours # 0)
  BY <1>3, <1>4
<1>6. /\ m_monitors' = m_monitors /\ spoilt' = spoilt
      /\ m_layoutDirty' \in BOOLEAN
      /\ m_layoutDirty /\ ~(awaited /\ reply = "true" /\ asked.op # "confirm")
           => m_layoutDirty'
      /\ at' \in {"idle", "call", "status", "monitors"}
      /\ at' = "call" => at = "call" /\ ~awaited
      /\ refreshes' \in IF at' \in {"status", "monitors"} THEN 1..2 ELSE {0}
      /\ asked' \in {asked, NoRequest}
      /\ (at' = "call" \/ queued' => asked' = asked)
  <2> HIDE DEF awaited
  <2> QED BY <1>1, <1>4, <1>5, ReplyEnds
<1>7. /\ awaited => ours' = 0
      /\ ~awaited => ours' = ours /\ ours \in 0..(Len(calls) - 1) /\ at' = at
  <2>1. ~awaited => at' = at
    BY <1>1 DEF ReplyIf
  <2>2. ~awaited => ours \in 0..(Len(calls) - 1)
    BY <1>3, <1>4
  <2> QED BY <1>2, <2>1, <2>2 DEF CallEnds
<1>8. ours' \in 0..Len(calls') /\ (ours' # 0 => at' = "call" /\ ~queued')
  BY <1>2, <1>3, <1>4, <1>7
<1>9. EditorTypes'
  BY <1>2, <1>6, <1>8 DEF DashboardInv, EditorTypes
<1>10. ours' # 0 /\ asked'.op = "apply" => Serves(ours, asked.layout)'
  <2> SUFFICES ASSUME ours' # 0, asked'.op = "apply" PROVE Serves(ours, asked.layout)'
    OBVIOUS
  <2>1. ~awaited /\ ours' = ours /\ ours # 0 /\ ours \in 1..(Len(calls) - 1)
    BY <1>3, <1>7
  <2>2. asked' = asked
    BY <1>6, <1>8
  <2>3. Serves(ours, asked.layout)
    BY <2>1, <2>2 DEF DashboardInv, AppliesWhatIsShown
  <2> QED BY <1>3, <2>1, <2>2, <2>3 DEF StillServe, Serves
<1>11. AppliesWhatIsShown'
  BY <1>2, <1>6, <1>10 DEF DashboardInv, AppliesWhatIsShown
<1>12. awaited /\ reply = "true" /\ asked.op = "apply" => m_layout' = m_monitors
  <2> SUFFICES ASSUME awaited, reply = "true", asked.op = "apply"
               PROVE  m_layout' = m_monitors
    OBVIOUS
  <2>1. Serves(ours, asked.layout) /\ asked.layout = m_monitors /\ ours = Len(calls)
    BY <1>5 DEF DashboardInv, AppliesWhatIsShown
  <2>2. Top.op = "apply" /\ Top.layout = m_monitors
    BY <2>1 DEF Serves, Top
  <2>3. ApplySucceeds
    BY <1>1, <2>2 DEF CallSucceeds, RevertSucceeds
  <2> QED BY <2>2, <2>3 DEF ApplySucceeds
<1>13. awaited => asked.op \in {"apply", "profile", "confirm", "revert"}
  BY <1>5, RequestFields DEF DashboardInv, AppliesWhatIsShown
<1>14. Survives
  <2> HIDE DEF awaited
  <2> QED BY <1>6, <1>12, <1>13 DEF Survives
<1> QED BY <1>9, <1>11, <1>14

-----------------------------------------------------------------------------
(* The daemon under the editor is LayoutController                           *)

(* The first layout is one of the controller's.                              *)
LEMMA DashboardStarts == DashboardInit => Init /\ DashboardInv
<1> SUFFICES ASSUME DashboardInit PROVE Init /\ DashboardInv
  OBVIOUS
<1>1. Init /\ TypeOK
  BY TypeInit DEF DashboardInit
<1>2. Len(calls) \in Nat
  BY <1>1, CallsTyped
<1>3. m_layout \in Layout /\ m_layout \in ValidLayout /\ MaxEvents \in Nat
  BY <1>1, LayoutAssumption, DraftAssumption DEF TypeOK
<1>4. EditorTypes
  <2>1. /\ m_monitors = m_layout /\ m_layoutDirty = FALSE /\ at = "idle" /\ refreshes = 0
        /\ asked = NoRequest /\ queued = FALSE /\ ours = 0 /\ up = TRUE
        /\ stored = m_layout /\ spoilt = FALSE /\ events = 0
    BY DEF DashboardInit
  <2>2. events \in 0..MaxEvents /\ ours \in 0..Len(calls)
    BY <1>2, <1>3, <2>1
  <2> QED BY <1>3, <2>1, <2>2 DEF EditorTypes
<1>5. AppliesWhatIsShown
  BY DEF DashboardInit, AppliesWhatIsShown
<1> QED BY <1>1, <1>4, <1>5 DEF DashboardInv

(* Every step is a step of the controller, or leaves it alone.               *)
LEMMA ControllerStep == DashboardInv /\ [DashboardNext]_allVars => [Next]_vars
<1> SUFFICES ASSUME DashboardInv, [DashboardNext]_allVars PROVE [Next]_vars
  OBVIOUS
<1>0. /\ OtherLayout \subseteq Layout /\ stored \in ValidLayout
      /\ queued => asked.layout \in Layout
  BY LayoutAssumption, DraftAssumption, RequestFields
     DEF DashboardInv, EditorTypes, AppliesWhatIsShown
<1>1. CASE addMonitor
  BY <1>1 DEF addMonitor, Edit, daemon
<1>2. ASSUME NEW k \in DOMAIN Shown, removeMonitor(k) \/ makePrimary(k) PROVE UNCHANGED vars
  BY <1>2 DEF removeMonitor, makePrimary, Edit, daemon
<1>3. ASSUME NEW k \in DOMAIN Shown, NEW position \in Position,
             updateMonitorPosition(k, position)
      PROVE  UNCHANGED vars
  BY <1>3 DEF updateMonitorPosition, Edit, daemon
<1>12. ASSUME NEW k \in DOMAIN Shown, NEW change \in Change,
              updateMonitor(k, change[1], change[2])
      PROVE  UNCHANGED vars
  BY <1>12 DEF updateMonitor, Edit, daemon
<1>4. CASE \/ Poll \/ reloadLayout \/ StatusAnswered \/ StatusFails
           \/ MonitorsAnswered \/ MonitorsFails
  BY <1>4 DEF Poll, reloadLayout, StatusAnswered, StatusFails, MonitorsAnswered,
              MonitorsFails, daemon
<1>5. CASE applyLayout \/ confirmLayout \/ revertLayout \/ CallTimesOut \/ CallIsLost
  BY <1>5 DEF applyLayout, confirmLayout, revertLayout, Ask, CallTimesOut, CallIsLost, daemon
<1>6. ASSUME NEW l \in OtherLayout, applyProfile(l) PROVE UNCHANGED vars
  BY <1>6 DEF applyProfile, Ask, daemon
<1>7. CASE DispatchApply \/ DispatchConfirm \/ DispatchRevert
  <2>1. ASSUME DispatchApply PROVE Next
    BY <1>0, <2>1 DEF DispatchApply, Next
  <2>2. ASSUME DispatchConfirm PROVE Next \/ UNCHANGED vars
    BY <2>2 DEF DispatchConfirm, Next
  <2>3. ASSUME DispatchRevert PROVE Next \/ UNCHANGED vars
    BY <2>3 DEF DispatchRevert, Next
  <2> QED BY <1>7, <2>1, <2>2, <2>3
<1>8. CASE CallSucceeds \/ CallFails \/ Backend \/ TimerFires \/ OtherConfirms
  BY <1>8 DEF CallSucceeds, CallFails, Backend, TimerFires, OtherConfirms, Next
<1>9. ASSUME NEW l \in OtherLayout, NEW confirm \in BOOLEAN, OtherApplies(l, confirm)
      PROVE  Next
  BY <1>0, <1>9 DEF OtherApplies, Next
<1>10. CASE Dies
  BY <1>0, <1>10 DEF Dies, Next
<1>11. CASE Boots \/ UNCHANGED allVars
  BY <1>11 DEF Boots, allVars
<1> QED BY <1>1, <1>2, <1>3, <1>4, <1>5, <1>6, <1>7, <1>8, <1>9, <1>10, <1>11, <1>12
        DEF DashboardNext

(* Every step of the two together.                                           *)
LEMMA DashboardStep ==
    DashboardInv /\ [DashboardNext]_allVars => DashboardInv' /\ Survives
<1> SUFFICES ASSUME DashboardInv, [DashboardNext]_allVars PROVE DashboardInv' /\ Survives
  OBVIOUS
<1>0. TypeOK'
  BY ControllerStep, TypeStep DEF DashboardInv
<1>1. CASE addMonitor
  <2>1. Edit(Added(Shown),
             \/ Shown = << >>
             \/ \E k \in DOMAIN Shown : Shown[k].id = Len(Shown) + 1
             \/ NoRoom(Added(Shown)))
    BY <1>1 DEF addMonitor
  <2> QED BY <1>0, <2>1, EditStep DEF DashboardInv
<1>2. ASSUME NEW k \in DOMAIN Shown, removeMonitor(k) PROVE DashboardInv' /\ Survives
  BY <1>0, <1>2, EditStep DEF removeMonitor, DashboardInv
<1>3. ASSUME NEW k \in DOMAIN Shown, makePrimary(k) PROVE DashboardInv' /\ Survives
  BY <1>0, <1>3, EditStep DEF makePrimary, DashboardInv
<1>4. ASSUME NEW k \in DOMAIN Shown, NEW position \in Position,
             updateMonitorPosition(k, position)
      PROVE  DashboardInv' /\ Survives
  <2>1. /\ Edit(Moved(Shown, k, position), Crowded(Moved(Shown, k, position)))
        /\ Crowded(Moved(Shown, k, position)) \in BOOLEAN
    BY <1>4 DEF updateMonitorPosition, Crowded
  <2> QED BY <1>0, <2>1, EditStep DEF DashboardInv
<1>12. ASSUME NEW k \in DOMAIN Shown, NEW change \in Change,
              updateMonitor(k, change[1], change[2])
      PROVE  DashboardInv' /\ Survives
  <2> DEFINE l == Changed(Shown, k, change[1], change[2])
  <2>1. Edit(l, Crowded(l)) /\ Crowded(l) \in BOOLEAN
    BY <1>12 DEF updateMonitor, Crowded
  <2> QED BY <1>0, <2>1, EditStep DEF DashboardInv
<1>5. CASE \/ Poll \/ reloadLayout \/ StatusAnswered \/ StatusFails
           \/ MonitorsAnswered \/ MonitorsFails
  BY <1>0, <1>5, RefreshStep DEF DashboardInv
<1>6. CASE \/ applyLayout \/ confirmLayout \/ revertLayout
           \/ \E l \in OtherLayout : applyProfile(l)
  BY <1>0, <1>6, AskStep DEF DashboardInv
<1>7. CASE CallTimesOut \/ CallIsLost
  BY <1>0, <1>7, NoAnswerStep DEF DashboardInv
<1>8. CASE DispatchApply \/ DispatchConfirm \/ DispatchRevert
  BY <1>0, <1>8, DispatchStep DEF DashboardInv
<1>9. CASE CallSucceeds \/ CallFails
  BY <1>0, <1>9, CallReturnsStep DEF DashboardInv
<1>10. CASE \/ Backend \/ TimerFires \/ OtherConfirms \/ Boots \/ UNCHANGED allVars
            \/ \E l \in OtherLayout, confirm \in BOOLEAN : OtherApplies(l, confirm)
  BY <1>0, <1>10, OthersStep DEF DashboardInv
<1>11. CASE Dies
  BY <1>0, <1>11, DiesStep DEF DashboardInv
<1> QED BY <1>1, <1>2, <1>3, <1>4, <1>5, <1>6, <1>7, <1>8, <1>9, <1>10, <1>11, <1>12
        DEF DashboardNext

(* The invariant always holds.                                               *)
LEMMA DashboardAlways == DashboardSpec => []DashboardInv
<1> QED BY DashboardStarts, DashboardStep, PTL DEF DashboardSpec

(* Editor, requests, replies and the daemon keep their types; in particular  *)
(* a reply that is awaited comes from a call that is under way.              *)
THEOREM DashboardTypeCorrect == DashboardSpec => []DashboardTypeOK
<1>1. DashboardInv => DashboardTypeOK
  BY DEF DashboardInv, EditorTypes, DashboardTypeOK
<1> QED BY <1>1, DashboardAlways, PTL

(* The daemon that the editor and other callers talk to is LayoutController: *)
(* what is proved of that holds however requests queue, time out, are lost   *)
(* or outlive their caller.                                                  *)
THEOREM DashboardUsesController == DashboardSpec => Spec
<1> QED BY DashboardStarts, DashboardAlways, ControllerStep, PTL DEF DashboardSpec, Spec

(* However callers overlap with the editor, time out or die, a layout that   *)
(* is alone on trial falls back to the one last kept.                        *)
THEOREM DashboardTrialFallsBack == DashboardSpec => []TrialFallsBackToKept
<1> QED BY DashboardUsesController, FallbackSafe, PTL

(* No refresh, refusal, timeout or crash takes a draft from the user: it is  *)
(* given up at his wish, or once the daemon reports exactly this draft.      *)
THEOREM DraftsSurvive == DashboardSpec => EditsSurvive
<1>1. DashboardInv /\ [DashboardNext]_allVars => [Survives]_allVars
  BY DashboardStep
<1>2. [Survives]_allVars =>
        [m_layoutDirty =>
          \/ m_layoutDirty' /\ (at = "idle" \/ m_monitors' = m_monitors)
          \/ reloadLayout
          \/ asked.op \in {"revert", "profile"}
          \/ m_layout' = m_monitors]_allVars
  BY DEF Survives
<1> QED BY <1>1, <1>2, DashboardAlways, PTL DEF DashboardSpec, EditsSurvive

-----------------------------------------------------------------------------
(* The size of the desktop                                                   *)

(* Integers that are bounded below have a least one among them ...           *)
LEMMA LeastAt ==
    ASSUME NEW E, E # {}, NEW f \in [E -> Int], NEW b \in Int, \A k \in E : b <= f[k]
    PROVE  \E a \in E : \A k \in E : f[a] <= f[k]
<1> DEFINE S == {f[k] : k \in E}
<1>1. S \in SUBSET Int /\ S # {} /\ \A n \in S : b <= n
  OBVIOUS
<1>2. Least(S) \in S /\ \A n \in S : Least(S) <= n
  <2> HIDE DEF S
  <2> QED BY <1>1, LeastExists
<1>3. PICK a \in E : Least(S) = f[a]
  BY <1>2
<1> QED BY <1>2, <1>3

(* ... and those that are bounded above a greatest.                          *)
LEMMA GreatestAt ==
    ASSUME NEW E, E # {}, NEW f \in [E -> Int], NEW b \in Int, \A k \in E : f[k] <= b
    PROVE  \E a \in E : \A k \in E : f[k] <= f[a]
<1> DEFINE g == [k \in E |-> -f[k]]
<1>1. \A k \in E : f[k] \in Int /\ g[k] = -f[k] /\ f[k] <= b
  OBVIOUS
<1>2. g \in [E -> Int] /\ -b \in Int /\ \A k \in E : -b <= g[k]
  BY <1>1
<1> HIDE DEF g
<1>3. PICK a \in E : \A k \in E : g[a] <= g[k]
  BY <1>2, LeastAt
<1>4. \A k \in E : f[k] <= f[a]
  BY <1>1, <1>3
<1> QED BY <1>4

(* The size of a supported monitor.                                          *)
LEMMA SupportedSize ==
    ASSUME NEW m, Supported(m)
    PROVE  m.width \in 1..MaximumDimension /\ m.height \in 1..MaximumDimension
<1>1. m.width \in MinimumDimension..MaximumDimension
  BY DEF Supported
<1>2. m.height \in MinimumDimension..MaximumDimension
  BY DEF Supported
<1>3. MinimumDimension \in Nat \ {0} /\ MaximumDimension \in Nat
  BY GeometryAssumption
<1> QED BY <1>1, <1>2, <1>3

(* What is known of the edges of an enabled monitor of a small layout.       *)
LEMMA Edges ==
    ASSUME NEW l \in Seq(Monitor), Small(l), \A k \in Enabled(l) : Supported(l[k])
    PROVE  \A k \in Enabled(l) :
              /\ l[k].x \in Int /\ l[k].y \in Int
              /\ l[k].width \in 1..MaximumDimension /\ l[k].height \in 1..MaximumDimension
              /\ -Room <= 2 * l[k].x /\ 2 * l[k].x <= Room
              /\ -Room <= 2 * l[k].y /\ 2 * l[k].y <= Room
              /\ Right(l[k]) = l[k].x + l[k].width - 1
              /\ Bottom(l[k]) = l[k].y + l[k].height - 1
<1> TAKE k \in Enabled(l)
<1>1. Supported(l[k])
  OBVIOUS
<1>2. l[k].width \in 1..MaximumDimension /\ l[k].height \in 1..MaximumDimension
  BY <1>1, SupportedSize
<1> QED BY <1>1, <1>2, Coordinates, SmallEdges

(* The distance of two edges of small layouts is an int.                     *)
LEMMA SpanInCInt ==
    ASSUME NEW x \in Int, NEW d \in Int, NEW w \in 1..MaximumDimension,
           -Room <= 2 * x, 2 * x <= Room, -Room <= 2 * d, 2 * d <= Room
    PROVE  /\ (x + w - 1) - d + 1 = x + w - d
           /\ x + w - d \in CInt
<1>1. -Room <= x - d /\ x - d <= Room
  BY HalfRange
<1>2. Room = IntLimit - MaximumDesktopDimension - MaximumDimension
      /\ MaximumDesktopDimension \in Nat \ {0} /\ w \in Int /\ 1 <= w /\ w <= MaximumDimension
  BY Limits DEF Room
<1>3. x + w - d = (x - d) + w /\ (x + w - 1) - d + 1 = x + w - d /\ x + w - d \in Int
  BY <1>2
<1>4. -IntLimit <= x + w - d /\ x + w - d <= IntLimit - 1
  <2> DEFINE e == x - d
  <2>1. e \in Int /\ -Room <= e /\ e <= Room
    BY <1>1
  <2> HIDE DEF e
  <2>2. -IntLimit <= e + w /\ e + w <= IntLimit - 1
    BY <1>2, <2>1, Limits
  <2> QED BY <1>3, <2>2 DEF e
<1> QED BY <1>3, <1>4, Limits DEF CInt

(* The distance of two edges is an integer.                                  *)
LEMMA SpanIsInt ==
    ASSUME NEW x \in Int, NEW w \in Int, NEW d \in Int
    PROVE  x + w - d \in Int
OBVIOUS

(* Two enabled monitors of a small layout: the distance of their edges as    *)
(* validate() computes it.                                                   *)
LEMMA Spans ==
    ASSUME NEW l \in Seq(Monitor), Small(l), \A k \in Enabled(l) : Supported(l[k])
    PROVE  \A j, k \in Enabled(l) :
              /\ AsInt(Right(l[k]) - l[j].x + 1) = l[k].x + l[k].width - l[j].x
              /\ AsInt(Bottom(l[k]) - l[j].y + 1) = l[k].y + l[k].height - l[j].y
<1> TAKE j, k \in Enabled(l)
<1> DEFINE jx == l[j].x  kx == l[k].x  kw == l[k].width
           jy == l[j].y  ky == l[k].y  kh == l[k].height
<1>1. /\ jx \in Int /\ kx \in Int /\ kw \in 1..MaximumDimension
      /\ -Room <= 2 * kx /\ 2 * kx <= Room /\ -Room <= 2 * jx /\ 2 * jx <= Room
      /\ jy \in Int /\ ky \in Int /\ kh \in 1..MaximumDimension
      /\ -Room <= 2 * ky /\ 2 * ky <= Room /\ -Room <= 2 * jy /\ 2 * jy <= Room
      /\ Right(l[k]) = kx + kw - 1 /\ Bottom(l[k]) = ky + kh - 1
  BY Edges
<1>2. (kx + kw - 1) - jx + 1 = kx + kw - jx /\ kx + kw - jx \in CInt
  <2> HIDE DEF jx, kx, kw
  <2> QED BY <1>1, SpanInCInt
<1>3. (ky + kh - 1) - jy + 1 = ky + kh - jy /\ ky + kh - jy \in CInt
  <2> HIDE DEF jy, ky, kh
  <2> QED BY <1>1, SpanInCInt
<1> QED BY <1>1, <1>2, <1>3, AsIntExact, Zenon

(* For small layouts the test of validate() on the rectangle that unites the *)
(* monitors is one on every two of them.                                     *)
LEMMA RoomIsValidated ==
    ASSUME NEW l \in Seq(Monitor), Small(l), \A k \in Enabled(l) : Supported(l[k])
    PROVE  NoRoom(l) <=> \/ Exceeds(l, MaximumDesktopDimension)
                         \/ ExceedsHeight(l, MaximumDesktopDimension)
<1> DEFINE E == Enabled(l)
           across(j, k) == l[k].x + l[k].width - l[j].x
           down(j, k) == l[k].y + l[k].height - l[j].y
<1>1. \A j, k \in E : /\ AsInt(Right(l[k]) - l[j].x + 1) = across(j, k)
                      /\ AsInt(Bottom(l[k]) - l[j].y + 1) = down(j, k)
  BY Spans
<1>2. ASSUME Exceeds(l, MaximumDesktopDimension) PROVE NoRoom(l)
  BY <1>1, <1>2 DEF Exceeds, NoRoom
<1>3. ASSUME ExceedsHeight(l, MaximumDesktopDimension) PROVE NoRoom(l)
  BY <1>1, <1>3 DEF ExceedsHeight, NoRoom
<1>4. ASSUME NoRoom(l)
      PROVE  \/ Exceeds(l, MaximumDesktopDimension)
             \/ ExceedsHeight(l, MaximumDesktopDimension)
  <2>1. PICK j \in E, k \in E : \/ across(j, k) > MaximumDesktopDimension
                                \/ down(j, k) > MaximumDesktopDimension
    BY <1>4 DEF NoRoom
  <2> DEFINE x == [i \in E |-> l[i].x]
             y == [i \in E |-> l[i].y]
             right == [i \in E |-> l[i].x + l[i].width - 1]
             bottom == [i \in E |-> l[i].y + l[i].height - 1]
  <2>2. \A i \in E : /\ l[i].x \in Int /\ l[i].y \in Int
                     /\ l[i].width \in Int /\ l[i].height \in Int
                     /\ Right(l[i]) = l[i].x + l[i].width - 1
                     /\ Bottom(l[i]) = l[i].y + l[i].height - 1
    BY Edges
  <2>3. /\ -Room \in Int /\ Room + MaximumDimension \in Int
        /\ \A i \in E : /\ -Room <= l[i].x /\ -Room <= l[i].y
                        /\ l[i].x + l[i].width - 1 <= Room + MaximumDimension
                        /\ l[i].y + l[i].height - 1 <= Room + MaximumDimension
    <3>1. Room \in Int /\ MaximumDimension \in Int
      BY Limits DEF Room
    <3>2. ASSUME NEW i \in E
          PROVE  /\ -Room <= l[i].x /\ -Room <= l[i].y
                 /\ l[i].x + l[i].width - 1 <= Room + MaximumDimension
                 /\ l[i].y + l[i].height - 1 <= Room + MaximumDimension
      <4> DEFINE ix == l[i].x  iy == l[i].y  iw == l[i].width  ih == l[i].height
      <4>1. /\ ix \in Int /\ iy \in Int
            /\ iw \in 1..MaximumDimension /\ ih \in 1..MaximumDimension
            /\ -Room <= 2 * ix /\ 2 * ix <= Room /\ -Room <= 2 * iy /\ 2 * iy <= Room
        BY Edges
      <4> HIDE DEF ix, iy, iw, ih
      <4>2. /\ -Room <= ix /\ ix <= Room /\ -Room <= iy /\ iy <= Room
        BY <3>1, <4>1
      <4>3. /\ ix + iw - 1 <= Room + MaximumDimension
            /\ iy + ih - 1 <= Room + MaximumDimension
        BY <3>1, <4>1, <4>2
      <4> QED BY <4>2, <4>3 DEF ix, iy, iw, ih
    <3> QED BY <3>1, <3>2
  <2>4. /\ x \in [E -> Int] /\ y \in [E -> Int]
        /\ right \in [E -> Int] /\ bottom \in [E -> Int]
    BY <2>2
  <2>5. PICK a \in E : \A i \in E : x[a] <= x[i]
    <3> HIDE DEF E
    <3>1. E # {} /\ \A i \in E : -Room <= x[i]
      BY <2>3
    <3> HIDE DEF x
    <3> QED BY <2>3, <2>4, <3>1, LeastAt
  <2>6. PICK b \in E : \A i \in E : right[i] <= right[b]
    <3> HIDE DEF E
    <3>1. E # {} /\ \A i \in E : right[i] <= Room + MaximumDimension
      BY <2>3
    <3> HIDE DEF right
    <3> QED BY <2>3, <2>4, <3>1, GreatestAt
  <2>7. PICK c \in E : \A i \in E : y[c] <= y[i]
    <3> HIDE DEF E
    <3>1. E # {} /\ \A i \in E : -Room <= y[i]
      BY <2>3
    <3> HIDE DEF y
    <3> QED BY <2>3, <2>4, <3>1, LeastAt
  <2>8. PICK d \in E : \A i \in E : bottom[i] <= bottom[d]
    <3> HIDE DEF E
    <3>1. E # {} /\ \A i \in E : bottom[i] <= Room + MaximumDimension
      BY <2>3
    <3> HIDE DEF bottom
    <3> QED BY <2>3, <2>4, <3>1, GreatestAt
  <2>9. /\ \A i \in E : l[a].x <= l[i].x /\ Right(l[i]) <= Right(l[b])
        /\ \A i \in E : l[c].y <= l[i].y /\ Bottom(l[i]) <= Bottom(l[d])
    BY <2>2, <2>5, <2>6, <2>7, <2>8
  <2>10. across(j, k) <= across(a, b) /\ down(j, k) <= down(c, d)
    <3>1. l[a].x <= l[j].x /\ Right(l[k]) <= Right(l[b])
      BY <2>9
    <3>2. l[c].y <= l[j].y /\ Bottom(l[k]) <= Bottom(l[d])
      BY <2>9
    <3>3. across(j, k) <= across(a, b)
      <4> DEFINE jx == l[j].x  ax == l[a].x  kx == l[k].x  kw == l[k].width
                 bx == l[b].x  bw == l[b].width
      <4>1. /\ jx \in Int /\ ax \in Int /\ kx \in Int /\ kw \in Int /\ bx \in Int /\ bw \in Int
            /\ ax <= jx /\ kx + kw - 1 <= bx + bw - 1
        BY <2>2, <3>1
      <4> HIDE DEF jx, ax, kx, kw, bx, bw
      <4>2. kx + kw - jx <= bx + bw - ax
        BY <4>1
      <4> QED BY <4>2 DEF jx, ax, kx, kw, bx, bw
    <3>4. down(j, k) <= down(c, d)
      <4> DEFINE jy == l[j].y  cy == l[c].y  ky == l[k].y  kh == l[k].height
                 dy == l[d].y  dh == l[d].height
      <4>1. /\ jy \in Int /\ cy \in Int /\ ky \in Int /\ kh \in Int /\ dy \in Int /\ dh \in Int
            /\ cy <= jy /\ ky + kh - 1 <= dy + dh - 1
        BY <2>2, <3>2
      <4> HIDE DEF jy, cy, ky, kh, dy, dh
      <4>2. ky + kh - jy <= dy + dh - cy
        BY <4>1
      <4> QED BY <4>2 DEF jy, cy, ky, kh, dy, dh
    <3> QED BY <3>3, <3>4
  <2>11. /\ across(j, k) \in Int /\ across(a, b) \in Int
         /\ down(j, k) \in Int /\ down(c, d) \in Int
    BY <2>2, SpanIsInt
  <2> DEFINE ac == across(a, b)  dn == down(c, d)  acjk == across(j, k)  dnjk == down(j, k)
  <2>12. ac > MaximumDesktopDimension \/ dn > MaximumDesktopDimension
    <3>1. /\ acjk \in Int /\ ac \in Int /\ dnjk \in Int /\ dn \in Int
          /\ acjk <= ac /\ dnjk <= dn
          /\ acjk > MaximumDesktopDimension \/ dnjk > MaximumDesktopDimension
      BY <2>1, <2>10, <2>11
    <3> HIDE DEF ac, dn, acjk, dnjk
    <3> QED BY <3>1, Limits
  <2>13. CASE ac > MaximumDesktopDimension
    <3>1. AsInt(Right(l[b]) - l[a].x + 1) > MaximumDesktopDimension
      BY <1>1, <2>13, Zenon
    <3> QED BY <2>9, <3>1 DEF Exceeds
  <2>14. CASE dn > MaximumDesktopDimension
    <3>1. AsInt(Bottom(l[d]) - l[c].y + 1) > MaximumDesktopDimension
      BY <1>1, <2>14, Zenon
    <3> QED BY <2>9, <3>1 DEF ExceedsHeight
  <2> QED BY <2>12, <2>13, <2>14
<1> QED BY <1>2, <1>3, <1>4

-----------------------------------------------------------------------------
(* What edits do to a valid layout                                           *)

(* Two monitors take the same place with the same properties.                *)
Alike(m, n) ==
    /\ m.x = n.x /\ m.y = n.y /\ m.width = n.width /\ m.height = n.height
    /\ m.scale = n.scale /\ m.rotation = n.rotation

(* A layout has finitely many monitors.                                      *)
LEMMA EnabledIsFinite ==
    ASSUME NEW l \in Seq(Monitor)
    PROVE  /\ Len(l) \in Nat /\ DOMAIN l = 1..Len(l)
           /\ IsFiniteSet(Enabled(l)) /\ Cardinality(Enabled(l)) \in 0..Len(l)
<1>1. Len(l) \in Nat /\ DOMAIN l = 1..Len(l)
  BY LenProperties
<1>2. IsFiniteSet(1..Len(l)) /\ Cardinality(1..Len(l)) = Len(l)
  <2>1. /\ IsFiniteSet(1..Len(l))
        /\ Cardinality(1..Len(l)) = IF 1 > Len(l) THEN 0 ELSE Len(l) - 1 + 1
    BY <1>1, FS_Interval
  <2> QED BY <1>1, <2>1
<1>3. Enabled(l) \in SUBSET (1..Len(l))
  BY <1>1 DEF Enabled
<1>4. IsFiniteSet(Enabled(l)) /\ Cardinality(Enabled(l)) <= Len(l)
  BY <1>2, <1>3, FS_Subset
<1>5. Cardinality(Enabled(l)) \in Nat
  BY <1>4, FS_CardinalityType
<1> QED BY <1>1, <1>4, <1>5

(* A layout made of different monitors of a valid layout, or of their like,  *)
(* is valid, if it has one primary monitor among those that are enabled.     *)
LEMMA PartValidates ==
    ASSUME NEW l \in Seq(Monitor), NEW r \in Seq(Monitor), Validates(l), Small(l),
           NEW e \in [DOMAIN r -> DOMAIN l],
           \A j, k \in DOMAIN r : e[j] = e[k] => j = k,
           \A k \in DOMAIN r : r[k].id = l[e[k]].id /\ r[k].enabled = l[e[k]].enabled,
           \A k \in Enabled(r) : Alike(r[k], l[e[k]]),
           \E k \in Enabled(r) : \A j \in Enabled(r) : r[j].primary <=> j = k
    PROVE  Validates(r)
<1>1. \A k \in Enabled(r) : e[k] \in Enabled(l)
  BY DEF Enabled
<1>2. \A k \in Enabled(l) : Supported(l[k])
  BY DEF Validates
<1>3. \A k \in Enabled(r) : Supported(r[k])
  <2> TAKE k \in Enabled(r)
  <2> DEFINE m == l[e[k]]  n == r[k]
  <2>1. Supported(m) /\ Alike(n, m)
    BY <1>1, <1>2
  <2> HIDE DEF m, n
  <2>2. Supported(n)
    BY <2>1, SupportedAlike DEF Alike
  <2> QED BY <2>2 DEF n
<1>4. Small(r)
  BY <1>1 DEF Small, Alike
<1>5. \A j, k \in Enabled(r) : j # k => ~Intersects(r[j], r[k])
  <2> TAKE j, k \in Enabled(r)
  <2>1. ASSUME j # k PROVE ~Intersects(l[e[j]], l[e[k]])
    <3>1. e[j] # e[k]
      BY <2>1 DEF Enabled
    <3> QED BY <1>1, <3>1 DEF Validates
  <2>2. Intersects(r[j], r[k]) = Intersects(l[e[j]], l[e[k]])
    BY DEF Intersects, Right, Bottom, Alike
  <2> QED BY <2>1, <2>2
<1>6. ~NoRoom(l)
  BY <1>2, RoomIsValidated DEF Validates
<1>7. ~NoRoom(r)
  BY <1>1, <1>6 DEF NoRoom, Alike
<1>8. ~Exceeds(r, MaximumDesktopDimension) /\ ~ExceedsHeight(r, MaximumDesktopDimension)
  BY <1>3, <1>4, <1>7, RoomIsValidated
<1>9. /\ \A k \in DOMAIN r : r[k].id # 0
      /\ \A j, k \in DOMAIN r : r[j].id = r[k].id => j = k
  BY DEF Validates
<1>10. Cardinality(Enabled(r)) \in 1..MaximumMonitors
  <2> DEFINE f == [k \in Enabled(r) |-> e[k]]
  <2>1. f \in Injection(Enabled(r), Enabled(l))
    <3>1. f \in [Enabled(r) -> Enabled(l)]
      BY <1>1
    <3>2. \A j, k \in Enabled(r) : f[j] = f[k] => j = k
      BY DEF Enabled
    <3> HIDE DEF f
    <3> QED BY <3>1, <3>2 DEF Injection, IsInjective
  <2>2. IsFiniteSet(Enabled(l)) /\ IsFiniteSet(Enabled(r))
    BY EnabledIsFinite
  <2> HIDE DEF f
  <2>3. Cardinality(Enabled(r)) <= Cardinality(Enabled(l))
    BY <2>1, <2>2, FS_Injection
  <2>4. Cardinality(Enabled(r)) # 0
    BY <2>2, FS_EmptySet
  <2>5. Cardinality(Enabled(r)) \in Nat /\ Cardinality(Enabled(l)) \in 1..MaximumMonitors
    BY <2>2, FS_CardinalityType DEF Validates
  <2> QED BY <2>3, <2>4, <2>5, Limits
<1> QED BY <1>3, <1>5, <1>8, <1>9, <1>10 DEF Validates

(* The edge at which a new monitor is put.                                   *)
LEMMA RightEdgeIs ==
    ASSUME NEW l \in Seq(Monitor), Small(l), \A k \in Enabled(l) : Supported(l[k])
    PROVE  /\ RightEdge(l) \in CInt
           /\ \A k \in Enabled(l) : l[k].x + l[k].width <= RightEdge(l)
<1> DEFINE edges == {l[k].x + l[k].width : k \in Enabled(l)} \cup {0}
           id == [e \in edges |-> e]
<1>1. Room \in Int /\ Room = IntLimit - MaximumDesktopDimension - MaximumDimension
  BY Limits DEF Room
<1>2. \A k \in Enabled(l) : /\ l[k].x + l[k].width \in Int
                            /\ l[k].x + l[k].width <= IntLimit - 1
  <2> TAKE k \in Enabled(l)
  <2> DEFINE x == l[k].x  w == l[k].width
  <2>1. x \in Int /\ w \in 1..MaximumDimension /\ -Room <= 2 * x /\ 2 * x <= Room
    BY Edges
  <2> HIDE DEF x, w
  <2>2. x <= Room /\ x + w \in Int
    BY <1>1, <2>1
  <2>3. x + w <= IntLimit - 1
    BY <1>1, <2>1, <2>2, Limits
  <2> QED BY <2>2, <2>3 DEF x, w
<1>3. IntLimit - 1 \in Int /\ 0 <= IntLimit - 1 /\ -IntLimit <= 0
  BY Limits
<1>4. id \in [edges -> Int] /\ edges # {} /\ \A e \in edges : id[e] <= IntLimit - 1
  BY <1>2, <1>3
<1>5. PICK a \in edges : \A e \in edges : id[e] <= id[a]
  <2> HIDE DEF edges, id
  <2> QED BY <1>3, <1>4, GreatestAt
<1>6. RightEdge(l) \in edges /\ \A e \in edges : e <= RightEdge(l)
  <2>1. \A e \in edges : e <= a
    BY <1>5
  <2>2. RightEdge(l) = CHOOSE e \in edges : \A other \in edges : other <= e
    BY DEF RightEdge
  <2> HIDE DEF edges
  <2> QED BY <2>1, <2>2
<1>7. RightEdge(l) \in Int /\ 0 <= RightEdge(l) /\ RightEdge(l) <= IntLimit - 1
  BY <1>2, <1>3, <1>6
<1>8. RightEdge(l) \in CInt
  BY <1>3, <1>7, Limits DEF CInt
<1> QED BY <1>6, <1>8

(* A layout to which a monitor was added is valid if it has room for it and  *)
(* the new monitor's number is free.                                         *)
LEMMA AddedValidates ==
    ASSUME NEW l \in Seq(Monitor), Validates(l), Small(l),
           Len(l) < MaximumMonitors, Small(Added(l)), ~NoRoom(Added(l)),
           \A k \in DOMAIN l : l[k].id # Len(l) + 1
    PROVE  Validates(Added(l))
<1> DEFINE n == Len(l)
           m == [fallback[1] EXCEPT !.id = Len(l) + 1, !.x = RightEdge(l), !.primary = FALSE]
           a == Added(l)
<1>1. n \in Nat /\ DOMAIN l = 1..n /\ Cardinality(Enabled(l)) \in 0..n
      /\ IsFiniteSet(Enabled(l)) /\ n < MaximumMonitors
  BY EnabledIsFinite
<1>2. \A k \in Enabled(l) : Supported(l[k])
  BY DEF Validates
<1>3. RightEdge(l) \in CInt /\ \A k \in Enabled(l) : l[k].x + l[k].width <= RightEdge(l)
  BY <1>2, RightEdgeIs
<1>4. Supported(fallback[1])
  BY DraftAssumption
<1>5. fallback[1] \in Monitor /\ fallback[1].enabled
  <2>1. 1920 \in CInt /\ 1080 \in CInt /\ 0 \in CInt
    <3>1. 1920 <= MaximumDimension /\ 1080 <= MaximumDimension
      BY <1>4, Limits DEF Supported, fallback
    <3> QED BY <3>1, Limits DEF CInt
  <2> QED BY <2>1 DEF fallback, Monitor
<1>6. /\ m \in Monitor /\ m.id = n + 1 /\ m.x = RightEdge(l) /\ m.primary = FALSE
      /\ m.enabled /\ m.width = fallback[1].width /\ m.height = fallback[1].height
      /\ m.scale = fallback[1].scale /\ m.rotation = fallback[1].rotation
  <2> DEFINE first == fallback[1]  edge == RightEdge(l)  number == n + 1
  <2>1. first \in Monitor /\ first.enabled /\ edge \in CInt /\ number \in Nat
    BY <1>1, <1>3, <1>5
  <2>2. m = [first EXCEPT !.id = number, !.x = edge, !.primary = FALSE]
    OBVIOUS
  <2> HIDE DEF first, edge, number, m
  <2>3. /\ m \in Monitor /\ m.id = number /\ m.x = edge /\ m.primary = FALSE
        /\ m.enabled /\ m.width = first.width /\ m.height = first.height
        /\ m.scale = first.scale /\ m.rotation = first.rotation
    BY <2>1, <2>2 DEF Monitor
  <2> QED BY <2>3 DEF first, edge, number
<1>7. a = Append(l, m)
  BY DEF Added
<1> HIDE DEF m, a
<1>8. /\ a \in Seq(Monitor) /\ Len(a) = n + 1
      /\ \A k \in 1..n : a[k] = l[k]
      /\ a[n + 1] = m
  BY <1>6, <1>7, AppendProperties
<1>9. DOMAIN a = 1..(n + 1)
  BY <1>8, LenProperties
<1>10. Enabled(a) = Enabled(l) \cup {n + 1} /\ n + 1 \notin Enabled(l)
  <2>1. DOMAIN a = DOMAIN l \cup {n + 1} /\ n + 1 \notin DOMAIN l
    BY <1>1, <1>9
  <2> QED BY <1>1, <1>6, <1>8, <2>1 DEF Enabled
<1>11. \A k \in Enabled(l) : a[k] = l[k] /\ k \in DOMAIN l
  BY <1>1, <1>8 DEF Enabled
<1>12. \A k \in Enabled(a) : Supported(a[k])
  BY <1>2, <1>4, <1>6, <1>8, <1>10, <1>11, SupportedAlike
<1>13. ~Exceeds(a, MaximumDesktopDimension) /\ ~ExceedsHeight(a, MaximumDesktopDimension)
  <2>1. Small(a) /\ ~NoRoom(a)
    BY DEF a
  <2> QED BY <1>8, <1>12, <2>1, RoomIsValidated
<1>14. \A k \in Enabled(l) : ~Intersects(l[k], m) /\ ~Intersects(m, l[k])
  <2> TAKE k \in Enabled(l)
  <2>1. ~(m.x <= Right(l[k]))
    <3> DEFINE x == l[k].x  w == l[k].width  edge == RightEdge(l)
    <3>1. x \in Int /\ w \in Int /\ Right(l[k]) = x + w - 1
      BY <1>2, Edges
    <3>2. edge \in Int /\ x + w <= edge
      BY <1>3, Limits DEF CInt
    <3> HIDE DEF x, w, edge
    <3>3. ~(edge <= x + w - 1)
      BY <3>1, <3>2
    <3> QED BY <1>6, <3>1, <3>3 DEF edge
  <2> QED BY <2>1 DEF Intersects
<1>15. \A j, k \in Enabled(a) : j # k => ~Intersects(a[j], a[k])
  <2>1. \A j, k \in Enabled(l) : j # k => ~Intersects(a[j], a[k])
    BY <1>11 DEF Validates
  <2> QED BY <1>8, <1>10, <1>11, <1>14, <2>1
<1>16. Cardinality(Enabled(a)) \in 1..MaximumMonitors
  <2>1. Cardinality(Enabled(a)) = Cardinality(Enabled(l)) + 1
    BY <1>1, <1>10, FS_AddElement
  <2> QED BY <1>1, <2>1, Limits
<1>17. /\ \A k \in DOMAIN a : a[k].id # 0
       /\ \A j, k \in DOMAIN a : a[j].id = a[k].id => j = k
  <2>1. \A k \in 1..n : a[k].id # 0 /\ a[k].id # n + 1
    BY <1>1, <1>8 DEF Validates
  <2>2. \A j, k \in 1..n : a[j].id = a[k].id => j = k
    BY <1>1, <1>8 DEF Validates
  <2>3. a[n + 1].id = n + 1 /\ n + 1 # 0 /\ DOMAIN a = 1..n \cup {n + 1}
    BY <1>1, <1>6, <1>8, <1>9
  <2> QED BY <2>1, <2>2, <2>3
<1>18. \E k \in Enabled(a) : \A j \in Enabled(a) : a[j].primary <=> j = k
  <2>1. PICK k \in Enabled(l) : \A j \in Enabled(l) : l[j].primary <=> j = k
    BY DEF Validates
  <2>2. ~a[n + 1].primary /\ n + 1 # k
    BY <1>6, <1>8, <1>10, <2>1
  <2> QED BY <1>10, <1>11, <2>1, <2>2
<1> QED BY <1>12, <1>13, <1>15, <1>16, <1>17, <1>18 DEF Validates, a

(* Choosing a primary monitor changes nothing else.                          *)
LEMMA WithPrimaryIs ==
    ASSUME NEW l \in Seq(Monitor), NEW index
    PROVE  LET w == WithPrimary(l, index)
           IN  /\ w \in Seq(Monitor) /\ DOMAIN w = DOMAIN l
               /\ \A k \in DOMAIN l :
                     /\ w[k].id = l[k].id /\ w[k].enabled = l[k].enabled
                     /\ Alike(w[k], l[k])
                     /\ w[k].primary <=> k = index
<1> DEFINE w == WithPrimary(l, index)
<1>1. Len(l) \in Nat /\ DOMAIN l = 1..Len(l)
  BY LenProperties
<1>2. DOMAIN w = DOMAIN l
  BY DEF WithPrimary
<1>3. ASSUME NEW k \in DOMAIN l
      PROVE  /\ w[k] \in Monitor
             /\ w[k].id = l[k].id /\ w[k].enabled = l[k].enabled
             /\ Alike(w[k], l[k])
             /\ w[k].primary <=> k = index
  <2> DEFINE m == l[k]  n == w[k]  chosen == k = index
  <2>1. m \in Monitor
    BY <1>1, ElementOfSeq
  <2>2. n = [m EXCEPT !.primary = chosen] /\ chosen \in BOOLEAN
    BY DEF WithPrimary
  <2> HIDE DEF m, n, chosen
  <2>3. /\ n \in Monitor /\ n.id = m.id /\ n.enabled = m.enabled
        /\ Alike(n, m) /\ n.primary = chosen
    BY <2>1, <2>2 DEF Monitor, Alike
  <2> QED BY <2>3 DEF m, n, chosen
<1>4. w \in Seq(Monitor)
  <2>1. w = [k \in 1..Len(l) |-> w[k]] /\ \A k \in 1..Len(l) : w[k] \in Monitor
    BY <1>1, <1>2, <1>3 DEF WithPrimary
  <2>2. w \in [1..Len(l) -> Monitor]
    BY <2>1
  <2> HIDE DEF w
  <2> QED BY <1>1, <2>2
<1> QED BY <1>2, <1>3, <1>4

(* Any enabled monitor can be made the primary one.                          *)
LEMMA WithPrimaryValidates ==
    ASSUME NEW l \in Seq(Monitor), Validates(l), Small(l),
           NEW index \in DOMAIN l, l[index].enabled
    PROVE  Validates(WithPrimary(l, index))
<1> DEFINE w == WithPrimary(l, index)
           e == [k \in DOMAIN w |-> k]
<1>1. /\ w \in Seq(Monitor) /\ DOMAIN w = DOMAIN l
      /\ \A k \in DOMAIN l :
            /\ w[k].id = l[k].id /\ w[k].enabled = l[k].enabled
            /\ Alike(w[k], l[k])
            /\ w[k].primary <=> k = index
  BY WithPrimaryIs
<1> HIDE DEF w
<1>2. e \in [DOMAIN w -> DOMAIN l] /\ \A k \in DOMAIN w : e[k] = k
  BY <1>1
<1> HIDE DEF e
<1>3. \A k \in Enabled(w) : k \in DOMAIN w /\ Alike(w[k], l[e[k]])
  BY <1>1, <1>2 DEF Enabled
<1>4. \E k \in Enabled(w) : \A j \in Enabled(w) : w[j].primary <=> j = k
  <2>1. index \in Enabled(w)
    BY <1>1 DEF Enabled
  <2>2. \A j \in Enabled(w) : w[j].primary <=> j = index
    BY <1>1, <1>3
  <2> QED BY <2>1, <2>2
<1>5. \A j, k \in DOMAIN w : e[j] = e[k] => j = k
  BY <1>2
<1>6. \A k \in DOMAIN w : w[k].id = l[e[k]].id /\ w[k].enabled = l[e[k]].enabled
  BY <1>1, <1>2
<1>7. Validates(w)
  BY <1>1, <1>2, <1>3, <1>4, <1>5, <1>6, PartValidates
<1> QED BY <1>7 DEF w

(* The place in l of the k-th monitor that is left without the one at index. *)
Skip(index, k) == IF k < index THEN k ELSE k + 1

(* What is left without a monitor.                                           *)
LEMMA RestIs ==
    ASSUME NEW l \in Seq(Monitor), NEW index \in 1..Len(l)
    PROVE  LET rest == SubSeq(l, 1, index - 1) \o SubSeq(l, index + 1, Len(l))
           IN  /\ rest \in Seq(Monitor) /\ Len(rest) = Len(l) - 1
               /\ DOMAIN rest = 1..(Len(l) - 1)
               /\ \A k \in 1..(Len(l) - 1) : rest[k] = l[Skip(index, k)]
<1> DEFINE n == Len(l)
           low == SubSeq(l, 1, index - 1)
           high == SubSeq(l, index + 1, n)
           rest == low \o high
<1>1. n \in Nat /\ \A k \in 1..n : l[k] \in Monitor
  BY LenProperties, ElementOfSeq
<1>2. index \in Int /\ 1 <= index /\ index <= n
  BY <1>1
<1> HIDE DEF n
<1>3. /\ low \in Seq(Monitor) /\ Len(low) = index - 1
      /\ \A k \in 1..(index - 1) : low[k] = l[k]
  <2>1. index - 1 \in Int /\ \A k \in 1..(index - 1) : l[k] \in Monitor
    BY <1>1, <1>2
  <2>2. /\ low \in Seq(Monitor)
        /\ Len(low) = IF 1 <= index - 1 THEN (index - 1) - 1 + 1 ELSE 0
        /\ \A k \in 1..((index - 1) - 1 + 1) : low[k] = l[1 + k - 1]
    BY <2>1, SubSeqProperties
  <2> HIDE DEF low
  <2>3. Len(low) = index - 1
    BY <1>2, <2>2
  <2>4. \A k \in 1..(index - 1) : k \in 1..((index - 1) - 1 + 1) /\ 1 + k - 1 = k
    BY <1>2
  <2> QED BY <2>2, <2>3, <2>4
<1>4. /\ high \in Seq(Monitor) /\ Len(high) = n - index
      /\ \A k \in 1..(n - index) : high[k] = l[index + k]
  <2>1. index + 1 \in Int /\ n \in Int /\ \A k \in (index + 1)..n : l[k] \in Monitor
    BY <1>1, <1>2
  <2>2. /\ high \in Seq(Monitor)
        /\ Len(high) = IF index + 1 <= n THEN n - (index + 1) + 1 ELSE 0
        /\ \A k \in 1..(n - (index + 1) + 1) : high[k] = l[(index + 1) + k - 1]
    BY <2>1, SubSeqProperties
  <2> HIDE DEF high
  <2>3. Len(high) = n - index
    BY <1>1, <1>2, <2>2
  <2>4. \A k \in 1..(n - index) : /\ k \in 1..(n - (index + 1) + 1)
                                  /\ (index + 1) + k - 1 = index + k
    BY <1>1, <1>2
  <2> QED BY <2>2, <2>3, <2>4
<1> HIDE DEF low, high
<1>5. /\ rest \in Seq(Monitor) /\ Len(rest) = Len(low) + Len(high)
      /\ \A k \in 1..(Len(low) + Len(high)) :
            rest[k] = IF k <= Len(low) THEN low[k] ELSE high[k - Len(low)]
  BY <1>3, <1>4, ConcatProperties
<1> HIDE DEF rest
<1>6. Len(rest) = n - 1 /\ DOMAIN rest = 1..(n - 1)
  BY <1>1, <1>2, <1>3, <1>4, <1>5, LenProperties
<1>7. ASSUME NEW k \in 1..(n - 1) PROVE rest[k] = l[Skip(index, k)]
  <2>1. rest[k] = IF k <= index - 1 THEN low[k] ELSE high[k - (index - 1)]
    BY <1>1, <1>2, <1>3, <1>4, <1>5, <1>7
  <2>2. CASE k < index
    <3>1. k \in 1..(index - 1) /\ k <= index - 1
      BY <1>2, <1>7, <2>2
    <3> QED BY <1>3, <2>1, <2>2, <3>1 DEF Skip
  <2>3. CASE ~(k < index)
    <3>1. /\ k - (index - 1) \in 1..(n - index) /\ ~(k <= index - 1)
          /\ index + (k - (index - 1)) = k + 1
      BY <1>1, <1>2, <1>7, <2>3
    <3>2. rest[k] = l[index + (k - (index - 1))]
      BY <1>4, <2>1, <3>1
    <3> QED BY <2>3, <3>1, <3>2 DEF Skip
  <2> QED BY <2>2, <2>3
<1> QED BY <1>5, <1>6, <1>7 DEF n, low, high, rest

(* Removing a monitor leaves a valid layout; but if it was the primary one,  *)
(* only if the monitor that takes over is enabled.                           *)
LEMMA RemovedValidates ==
    ASSUME NEW l \in Seq(Monitor), Validates(l), Small(l), Len(l) > 1,
           NEW index \in DOMAIN l,
           ~(l[index].primary /\ ~Removed(l, index)[1].enabled)
    PROVE  Validates(Removed(l, index))
<1> DEFINE n == Len(l)
           rest == SubSeq(l, 1, index - 1) \o SubSeq(l, index + 1, Len(l))
           e == [k \in 1..(n - 1) |-> Skip(index, k)]
<1>1. n \in Nat /\ n > 1 /\ DOMAIN l = 1..n /\ index \in 1..n
  BY LenProperties
<1>2. /\ rest \in Seq(Monitor) /\ DOMAIN rest = 1..(n - 1)
      /\ \A k \in 1..(n - 1) : rest[k] = l[Skip(index, k)]
  BY <1>1, RestIs
<1>3. Removed(l, index) = IF l[index].primary THEN WithPrimary(rest, 1) ELSE rest
  BY DEF Removed
<1> HIDE DEF rest
<1>4. \A k \in 1..(n - 1) : e[k] \in 1..n /\ e[k] # index /\ rest[k] = l[e[k]]
  BY <1>1, <1>2 DEF Skip
<1>5. \A j, k \in 1..(n - 1) : e[j] = e[k] => j = k
  BY <1>1 DEF Skip
<1>6. e \in [1..(n - 1) -> 1..n]
  BY <1>4
<1>7. \A k \in 1..n : k # index => \E j \in 1..(n - 1) : e[j] = k
  <2> SUFFICES ASSUME NEW k \in 1..n, k # index PROVE \E j \in 1..(n - 1) : e[j] = k
    OBVIOUS
  <2> DEFINE j == IF k < index THEN k ELSE k - 1
  <2>1. j \in 1..(n - 1) /\ Skip(index, j) = k
    BY <1>1 DEF Skip
  <2> HIDE DEF j
  <2> QED BY <2>1
<1> HIDE DEF e, n
<1>8. PICK p \in Enabled(l) : \A j \in Enabled(l) : l[j].primary <=> j = p
  BY DEF Validates
<1>9. CASE ~l[index].primary
  <2>1. p \in 1..n /\ p # index
    BY <1>1, <1>8, <1>9 DEF Enabled
  <2>2. PICK q \in 1..(n - 1) : e[q] = p
    BY <1>7, <2>1
  <2>3. \A k \in Enabled(rest) : k \in 1..(n - 1) /\ e[k] \in Enabled(l) /\ rest[k] = l[e[k]]
    BY <1>1, <1>2, <1>4 DEF Enabled
  <2>4. q \in Enabled(rest)
    BY <1>2, <1>4, <1>8, <2>2 DEF Enabled
  <2>5. \A j \in Enabled(rest) : rest[j].primary <=> j = q
    BY <1>5, <1>8, <2>2, <2>3
  <2>6. \E k \in Enabled(rest) : \A j \in Enabled(rest) : rest[j].primary <=> j = k
    BY <2>4, <2>5
  <2>7. \A k \in Enabled(rest) : Alike(rest[k], l[e[k]])
    BY <2>3 DEF Alike
  <2>8. Validates(rest)
    <3>1. e \in [DOMAIN rest -> DOMAIN l]
      BY <1>1, <1>2, <1>6
    <3>2. \A j, k \in DOMAIN rest : e[j] = e[k] => j = k
      BY <1>2, <1>5
    <3>3. \A k \in DOMAIN rest : rest[k].id = l[e[k]].id /\ rest[k].enabled = l[e[k]].enabled
      BY <1>2, <1>4
    <3> QED BY <1>2, <2>6, <2>7, <3>1, <3>2, <3>3, PartValidates
  <2> QED BY <1>3, <1>9, <2>8
<1>10. CASE l[index].primary
  <2> DEFINE w == WithPrimary(rest, 1)
  <2>1. /\ w \in Seq(Monitor) /\ DOMAIN w = DOMAIN rest
        /\ \A k \in DOMAIN rest :
              /\ w[k].id = rest[k].id /\ w[k].enabled = rest[k].enabled
              /\ Alike(w[k], rest[k])
              /\ w[k].primary <=> k = 1
    BY <1>2, WithPrimaryIs
  <2>2. w = Removed(l, index)
    BY <1>3, <1>10
  <2> HIDE DEF w
  <2>3. w[1].enabled /\ 1 \in DOMAIN w
    BY <1>1, <1>2, <1>10, <2>1, <2>2
  <2>4. \A k \in Enabled(w) : k \in DOMAIN w
    BY DEF Enabled
  <2>5. \E k \in Enabled(w) : \A j \in Enabled(w) : w[j].primary <=> j = k
    <3>1. 1 \in Enabled(w)
      BY <2>3 DEF Enabled
    <3> QED BY <2>1, <2>4, <3>1
  <2>6. \A k \in Enabled(w) : Alike(w[k], l[e[k]])
    BY <1>2, <1>4, <2>1, <2>4
  <2>7. Validates(w)
    <3>1. e \in [DOMAIN w -> DOMAIN l]
      BY <1>1, <1>2, <1>6, <2>1
    <3>2. \A j, k \in DOMAIN w : e[j] = e[k] => j = k
      BY <1>2, <1>5, <2>1
    <3>3. \A k \in DOMAIN w : w[k].id = l[e[k]].id /\ w[k].enabled = l[e[k]].enabled
      BY <1>2, <1>4, <2>1
    <3> QED BY <2>1, <2>5, <2>6, <3>1, <3>2, <3>3, PartValidates
  <2> QED BY <2>2, <2>7
<1> QED BY <1>9, <1>10

(* Whatever was changed of a valid layout, it stays valid as long as no      *)
(* monitor is renamed, switched or promoted, what is enabled is supported,   *)
(* and the enabled monitors neither overlap nor run out of room.             *)
LEMMA EditedValidates ==
    ASSUME NEW l \in Seq(Monitor), NEW r \in Seq(Monitor), Validates(l), Small(r),
           DOMAIN r = DOMAIN l,
           \A k \in DOMAIN l : /\ r[k].id = l[k].id /\ r[k].enabled = l[k].enabled
                               /\ r[k].primary = l[k].primary
                               /\ Supported(l[k]) => Supported(r[k]),
           ~Crowded(r)
    PROVE  Validates(r)
<1>1. Enabled(r) = Enabled(l) /\ \A k \in Enabled(l) : k \in DOMAIN l
  BY DEF Enabled
<1>2. \A k \in Enabled(r) : Supported(r[k])
  BY <1>1 DEF Validates
<1>3. ~Exceeds(r, MaximumDesktopDimension) /\ ~ExceedsHeight(r, MaximumDesktopDimension)
  BY <1>2, RoomIsValidated DEF Crowded
<1>4. \A j, k \in Enabled(r) : j # k => ~Intersects(r[j], r[k])
  BY DEF Crowded
<1>5. \E k \in Enabled(r) : \A j \in Enabled(r) : r[j].primary <=> j = k
  <2>1. PICK p \in Enabled(l) : \A j \in Enabled(l) : l[j].primary <=> j = p
    BY DEF Validates
  <2> QED BY <1>1, <2>1
<1>6. /\ \A k \in DOMAIN r : r[k].id # 0
      /\ \A j, k \in DOMAIN r : r[j].id = r[k].id => j = k
  BY DEF Validates
<1>7. Cardinality(Enabled(r)) \in 1..MaximumMonitors
  BY <1>1 DEF Validates
<1> QED BY <1>2, <1>3, <1>4, <1>5, <1>6, <1>7 DEF Validates

(* Dragging a monitor.                                                       *)
LEMMA MovedValidates ==
    ASSUME NEW l \in Seq(Monitor), Validates(l), NEW index \in DOMAIN l, NEW position,
           Moved(l, index, position) \in Seq(Monitor), Small(Moved(l, index, position)),
           ~Crowded(Moved(l, index, position))
    PROVE  Validates(Moved(l, index, position))
<1> DEFINE r == Moved(l, index, position)
<1>1. DOMAIN r = DOMAIN l /\ \A k \in DOMAIN l : k # index => r[k] = l[k]
  BY DEF Moved
<1>2. /\ r[index].id = l[index].id /\ r[index].enabled = l[index].enabled
      /\ r[index].primary = l[index].primary
      /\ Supported(l[index]) => Supported(r[index])
  <2> DEFINE m == l[index]
  <2>1. m \in Monitor
    BY LenProperties, ElementOfSeq
  <2>2. r[index] = [[m EXCEPT !.x = position[1]] EXCEPT !.y = position[2]]
    BY DEF Moved
  <2> HIDE DEF m, r
  <2>3. /\ r[index].id = m.id /\ r[index].enabled = m.enabled
        /\ r[index].primary = m.primary
        /\ r[index].width = m.width /\ r[index].height = m.height
        /\ r[index].scale = m.scale /\ r[index].rotation = m.rotation
    BY <2>1, <2>2 DEF Monitor
  <2>4. Supported(m) => Supported(r[index])
    BY <2>3, SupportedAlike
  <2> QED BY <2>3, <2>4 DEF m
<1>3. r \in Seq(Monitor) /\ Small(r) /\ ~Crowded(r)
  OBVIOUS
<1> HIDE DEF r
<1>4. Validates(r)
  BY <1>1, <1>2, <1>3, EditedValidates
<1> QED BY <1>4 DEF r

(* What the widgets offer is supported.                                      *)
LEMMA ChangeIsSupported ==
    ASSUME NEW m \in Monitor, Supported(m), NEW change \in Change
    PROVE  Supported([m EXCEPT ![change[1]] = change[2]])
<1> DEFINE n == [m EXCEPT ![change[1]] = change[2]]
<1>1. CASE change[1] = "width" /\ change[2] \in MinimumDimension..MaximumDimension
  <2>1. n = [m EXCEPT !.width = change[2]]
    BY <1>1
  <2> HIDE DEF n
  <2>2. /\ n.width = change[2] /\ n.height = m.height
        /\ n.scale = m.scale /\ n.rotation = m.rotation
    BY <2>1 DEF Monitor
  <2>3. Supported(n)
    BY <1>1, <2>2 DEF Supported
  <2> QED BY <2>3 DEF n
<1>2. CASE change[1] = "height" /\ change[2] \in MinimumDimension..MaximumDimension
  <2>1. n = [m EXCEPT !.height = change[2]]
    BY <1>2
  <2> HIDE DEF n
  <2>2. /\ n.width = m.width /\ n.height = change[2]
        /\ n.scale = m.scale /\ n.rotation = m.rotation
    BY <2>1 DEF Monitor
  <2>3. Supported(n)
    BY <1>2, <2>2 DEF Supported
  <2> QED BY <2>3 DEF n
<1>3. CASE /\ change[1] = "scale"
           /\ change[2] \in {500, 750, 1000, 1250, 1500, 2000, 2500, 3000, 4000}
  <2>1. n = [m EXCEPT !.scale = change[2]]
    BY <1>3
  <2> HIDE DEF n
  <2>2. /\ n.width = m.width /\ n.height = m.height
        /\ n.scale = change[2] /\ n.rotation = m.rotation
    BY <2>1 DEF Monitor
  <2>3. change[2] \in 500..4000
    BY <1>3
  <2>4. Supported(n)
    BY <2>2, <2>3 DEF Supported
  <2> QED BY <2>4 DEF n
<1>4. CASE change[1] = "rotation" /\ change[2] \in {0, 90, 180, 270}
  <2>1. n = [m EXCEPT !.rotation = change[2]]
    BY <1>4
  <2> HIDE DEF n
  <2>2. /\ n.width = m.width /\ n.height = m.height
        /\ n.scale = m.scale /\ n.rotation = change[2]
    BY <2>1 DEF Monitor
  <2>3. Supported(n)
    BY <1>4, <2>2 DEF Supported
  <2> QED BY <2>3 DEF n
<1> QED BY <1>1, <1>2, <1>3, <1>4, ChangeAssumption

(* Resizing, scaling or rotating a monitor.                                  *)
LEMMA ChangedValidates ==
    ASSUME NEW l \in Seq(Monitor), Validates(l), NEW index \in DOMAIN l,
           NEW change \in Change,
           Changed(l, index, change[1], change[2]) \in Seq(Monitor),
           Small(Changed(l, index, change[1], change[2])),
           ~Crowded(Changed(l, index, change[1], change[2]))
    PROVE  Validates(Changed(l, index, change[1], change[2]))
<1> DEFINE r == Changed(l, index, change[1], change[2])
<1>1. DOMAIN r = DOMAIN l /\ \A k \in DOMAIN l : k # index => r[k] = l[k]
  BY DEF Changed
<1>2. /\ r[index].id = l[index].id /\ r[index].enabled = l[index].enabled
      /\ r[index].primary = l[index].primary
      /\ Supported(l[index]) => Supported(r[index])
  <2> DEFINE m == l[index]
  <2>1. m \in Monitor
    BY LenProperties, ElementOfSeq
  <2>2. r[index] = [m EXCEPT ![change[1]] = change[2]]
    BY DEF Changed
  <2>3. change[1] \in {"width", "height", "scale", "rotation"}
    BY ChangeAssumption
  <2> HIDE DEF m, r
  <2>4. r[index].id = m.id /\ r[index].enabled = m.enabled /\ r[index].primary = m.primary
    BY <2>1, <2>2, <2>3 DEF Monitor
  <2>5. Supported(m) => Supported(r[index])
    BY <2>1, <2>2, ChangeIsSupported
  <2> QED BY <2>4, <2>5 DEF m
<1>3. r \in Seq(Monitor) /\ Small(r) /\ ~Crowded(r)
  OBVIOUS
<1> HIDE DEF r
<1>4. Validates(r)
  BY <1>1, <1>2, <1>3, EditedValidates
<1> QED BY <1>4 DEF r

-----------------------------------------------------------------------------
(* Drafts that went no way named by spoilt                                   *)

(* The layouts that come up leave the ints room.                             *)
SmallDrafts == \A l \in Layout : Small(Drafts[l])

(* An edit that does not spoil leads from an accepted draft to another.      *)
LEMMA EditIsAccepted ==
    ASSUME DashboardInv, NEW monitors, NEW spoils \in BOOLEAN, Edit(monitors, spoils),
           spoilt \/ spoils \/ Validates(monitors)
    PROVE  DraftIsAccepted'
<1>1. PICK draft \in Layout : Drafts[draft] = monitors /\ m_monitors' = draft
  BY DEF Edit
<1>2. spoilt' = (spoilt \/ spoils)
  BY DEF Edit
<1>3. Validates(monitors) => m_monitors' \in ValidLayout
  BY <1>1, DraftAssumption
<1> QED BY <1>2, <1>3 DEF DraftIsAccepted

(* Every step keeps DraftIsAccepted.                                         *)
LEMMA AcceptedStep ==
    ASSUME SmallDrafts
    PROVE  DashboardInv /\ DraftIsAccepted /\ [DashboardNext]_allVars => DraftIsAccepted'
<1> SUFFICES ASSUME DashboardInv, DraftIsAccepted, [DashboardNext]_allVars
             PROVE  DraftIsAccepted'
  OBVIOUS
<1> DEFINE l == Shown
<1>1. /\ l \in Seq(Monitor) /\ Small(l) /\ (~spoilt => Validates(l))
      /\ Len(l) \in Nat /\ DOMAIN l = 1..Len(l)
      /\ \A k \in DOMAIN l : l[k] \in Monitor
      /\ \A draft \in Layout : Small(Drafts[draft]) /\ Drafts[draft] \in Seq(Monitor)
  <2>1. /\ m_monitors \in Layout
        /\ \A draft \in Layout : Small(Drafts[draft]) /\ Drafts[draft] \in Seq(Monitor)
    BY DraftAssumption DEF DashboardInv, EditorTypes, SmallDrafts
  <2>2. l \in Seq(Monitor) /\ Small(l)
    BY <2>1 DEF Shown
  <2>3. ~spoilt => Validates(l)
    BY DraftAssumption DEF DraftIsAccepted, Shown
  <2> HIDE DEF l
  <2> QED BY <2>1, <2>2, <2>3, LenProperties, ElementOfSeq
<1>2. CASE addMonitor
  <2> DEFINE spoils == \/ l = << >>
                       \/ \E k \in DOMAIN l : l[k].id = Len(l) + 1
                       \/ NoRoom(Added(l))
  <2>1. Len(l) < MaximumMonitors /\ Edit(Added(l), spoils) /\ spoils \in BOOLEAN
    BY <1>2 DEF addMonitor
  <2>2. Small(Added(l))
    BY <1>1, <2>1 DEF Edit
  <2>3. spoilt \/ spoils \/ Validates(Added(l))
    <3> HIDE DEF l
    <3> QED BY <1>1, <2>1, <2>2, AddedValidates
  <2> HIDE DEF spoils, l
  <2> QED BY <2>1, <2>3, EditIsAccepted
<1>3. ASSUME NEW k \in DOMAIN Shown, removeMonitor(k) PROVE DraftIsAccepted'
  <2> DEFINE spoils == l[k].primary /\ ~Removed(l, k)[1].enabled
  <2>1. Len(l) > 1 /\ Edit(Removed(l, k), spoils) /\ spoils \in BOOLEAN /\ k \in DOMAIN l
    BY <1>3 DEF removeMonitor
  <2> HIDE DEF l
  <2>2. spoilt \/ spoils \/ Validates(Removed(l, k))
    BY <1>1, <2>1, RemovedValidates
  <2> HIDE DEF spoils
  <2> QED BY <2>1, <2>2, EditIsAccepted
<1>4. ASSUME NEW k \in DOMAIN Shown, makePrimary(k) PROVE DraftIsAccepted'
  <2> DEFINE spoils == ~l[k].enabled
  <2>1. Edit(WithPrimary(l, k), spoils) /\ spoils \in BOOLEAN /\ k \in DOMAIN l
    BY <1>4 DEF makePrimary
  <2> HIDE DEF l
  <2>2. spoilt \/ spoils \/ Validates(WithPrimary(l, k))
    BY <1>1, <2>1, WithPrimaryValidates
  <2> HIDE DEF spoils
  <2> QED BY <2>1, <2>2, EditIsAccepted
<1>5. ASSUME NEW k \in DOMAIN Shown, NEW position \in Position,
             updateMonitorPosition(k, position)
      PROVE  DraftIsAccepted'
  <2> DEFINE r == Moved(l, k, position)
  <2>1. Edit(r, Crowded(r)) /\ k \in DOMAIN l /\ Crowded(r) \in BOOLEAN
    BY <1>5 DEF updateMonitorPosition, Crowded
  <2>2. r \in Seq(Monitor) /\ Small(r)
    <3> HIDE DEF r, l
    <3> QED BY <1>1, <2>1 DEF Edit
  <2> HIDE DEF l
  <2>3. spoilt \/ Crowded(r) \/ Validates(r)
    BY <1>1, <2>1, <2>2, MovedValidates
  <2> HIDE DEF r
  <2> QED BY <2>1, <2>3, EditIsAccepted
<1>13. ASSUME NEW k \in DOMAIN Shown, NEW change \in Change,
             updateMonitor(k, change[1], change[2])
      PROVE  DraftIsAccepted'
  <2> DEFINE r == Changed(l, k, change[1], change[2])
  <2>1. Edit(r, Crowded(r)) /\ k \in DOMAIN l /\ Crowded(r) \in BOOLEAN
    BY <1>13 DEF updateMonitor, Crowded
  <2>2. r \in Seq(Monitor) /\ Small(r)
    <3> HIDE DEF r, l
    <3> QED BY <1>1, <2>1 DEF Edit
  <2> HIDE DEF l
  <2>3. spoilt \/ Crowded(r) \/ Validates(r)
    BY <1>1, <2>1, <2>2, ChangedValidates
  <2> HIDE DEF r
  <2> QED BY <2>1, <2>3, EditIsAccepted
<1>6. CASE MonitorsAnswered \/ MonitorsFails
  <2>1. m_layout \in ValidLayout
    BY DEF DashboardInv, TypeOK
  <2>2. \/ UNCHANGED <<m_monitors, spoilt>>
        \/ m_monitors' = m_layout
        \/ m_monitors' = Nothing /\ spoilt' = TRUE
    BY <1>6 DEF MonitorsAnswered, MonitorsFails, Show, editor
  <2> QED BY <2>1, <2>2 DEF DraftIsAccepted
<1>7. CASE UNCHANGED <<m_monitors, spoilt>>
  BY <1>7 DEF DraftIsAccepted
<1>8. CASE Poll \/ reloadLayout \/ StatusAnswered \/ StatusFails
  BY <1>7, <1>8 DEF Poll, reloadLayout, StatusAnswered, StatusFails, editor
<1>9. CASE \/ applyLayout \/ confirmLayout \/ revertLayout
           \/ \E asks \in OtherLayout : applyProfile(asks)
  BY <1>7, <1>9 DEF applyLayout, confirmLayout, revertLayout, applyProfile, Ask, editor
<1>10. CASE CallTimesOut \/ CallIsLost
  BY <1>7, <1>10 DEF CallTimesOut, CallIsLost, Answered
<1>11. CASE \/ DispatchApply \/ DispatchConfirm \/ DispatchRevert
            \/ CallSucceeds \/ CallFails
  BY <1>7, <1>11 DEF DispatchApply, DispatchConfirm, DispatchRevert, CallSucceeds,
         CallFails, ReplyIf, Answered, editor
<1>12. CASE \/ Backend \/ TimerFires \/ OtherConfirms \/ Dies \/ Boots \/ UNCHANGED allVars
            \/ \E other \in OtherLayout, confirm \in BOOLEAN : OtherApplies(other, confirm)
  BY <1>7, <1>12 DEF Backend, TimerFires, OtherConfirms, Dies, Boots, OtherApplies,
         allVars, editor
<1> HIDE DEF l
<1> QED BY <1>2, <1>3, <1>4, <1>5, <1>6, <1>8, <1>9, <1>10, <1>11, <1>12, <1>13
        DEF DashboardNext

(* Where all layouts that come up leave the ints room, every draft the      *)
(* editor can make of a layout of the daemon by adding, removing, promoting, *)
(* dragging, resizing, scaling and rotating is one the daemon accepts, unless *)
(* one of the edits went a way that spoilt names: a number used twice, a     *)
(* disabled primary monitor, an empty list, and overlaps and desktops too    *)
(* large, which no edit prevents.                                            *)
THEOREM DraftsAreAccepted ==
    ASSUME SmallDrafts
    PROVE  DashboardSpec => []DraftIsAccepted
<1>1. DashboardInit => DraftIsAccepted
  BY DEF DashboardInit, Init, DraftIsAccepted
<1>2. DashboardInv /\ DraftIsAccepted /\ [DashboardNext]_allVars => DraftIsAccepted'
  BY AcceptedStep
<1> QED BY <1>1, <1>2, DashboardAlways, PTL DEF DashboardSpec
=============================================================================
