---------------------------- MODULE TorusProofs ----------------------------
(***************************************************************************)
(* Facts about the geometry of every map, however large.                   *)
(***************************************************************************)
EXTENDS Torus, WellFoundedInduction, TLAPS

(* Of natural numbers, one is the least: what an induction comes down to. *)
LEMMA SmallestOf ==
  ASSUME NEW S, S \subseteq Nat, S # {}
  PROVE  \E m \in S : \A n \in S : m <= n
<1>1. \A m, n \in Nat : n < m => <<n, m>> \in OpToRel(<, Nat)
  BY Zenon DEF OpToRel
<1>2. PICK R : /\ IsWellFoundedOn(R, Nat)
               /\ \A m, n \in Nat : n < m => <<n, m>> \in R
  BY <1>1, NatLessThanWellFounded, Zenon
<1>3. PICK m \in S : \A n \in S : ~(<<n, m>> \in R)
  BY <1>2, WFMin, Zenon
<1>4. \A n \in S : ~(n < m)
  BY <1>2, <1>3
<1>5. \A n \in S : m <= n
  BY <1>4
<1> QED  BY <1>5

(* A remainder lies between 0 and its divisor: what every step relies on. *)
LEMMA RemainderRange ==
  ASSUME NEW a \in Int, NEW n \in Nat \ {0}
  PROVE  a % n \in 0 .. n - 1
BY SMT

(* Arithmetic modulo a number that is not fixed. *)
LEMMA RemainderIsItself ==
  ASSUME NEW n \in Nat \ {0}, NEW r \in 0 .. n - 1
  PROVE  r % n = r
OBVIOUS

LEMMA RemainderIs ==
  ASSUME NEW n \in Nat \ {0}, NEW q \in Int, NEW r \in 0 .. n - 1
  PROVE  (n * q + r) % n = r
OBVIOUS

LEMMA Quotient ==
  ASSUME NEW a \in Int, NEW n \in Nat \ {0}
  PROVE  \E q \in Int, r \in 0 .. n - 1 : a = n * q + r /\ a % n = r
<1>1. a = n * (a \div n) + (a % n)
  OBVIOUS
<1>2. a \div n \in Int /\ a % n \in 0 .. n - 1
  OBVIOUS
<1> QED  BY <1>1, <1>2

LEMMA Congruent ==
  ASSUME NEW n \in Nat \ {0}, NEW a \in Int, NEW q \in Int
  PROVE  (n * q + a) % n = a % n
<1>1. PICK p \in Int, r \in 0 .. n - 1 : a = n * p + r /\ a % n = r
  BY Quotient
<1>2. n * q + a = n * (q + p) + r
  BY <1>1
<1>3. q + p \in Int
  OBVIOUS
<1> QED  BY <1>1, <1>2, <1>3, RemainderIs

LEMMA RemainderOfSum ==
  ASSUME NEW n \in Nat \ {0}, NEW a \in Int, NEW b \in Int
  PROVE  ((a % n) + b) % n = (a + b) % n
<1>1. PICK q \in Int, r \in 0 .. n - 1 : a = n * q + r /\ a % n = r
  BY Quotient
<1>2. a + b = n * q + (r + b)
  BY <1>1
<1>3. (a + b) % n = (r + b) % n
  <2>1. r + b \in Int
    OBVIOUS
  <2> QED  BY <1>2, <2>1, Congruent, ZenonT(40)
<1> QED  BY <1>1, <1>3

LEMMA RemainderOfDifference ==
  ASSUME NEW n \in Nat \ {0}, NEW a \in Int, NEW b \in Int
  PROVE  (b - (a % n)) % n = (b - a) % n
<1>1. PICK q \in Int, r \in 0 .. n - 1 : a = n * q + r /\ a % n = r
  BY Quotient
<1>2. b - r = n * q + (b - a)
  BY <1>1
<1>3. (b - r) % n = (b - a) % n
  <2>1. b - a \in Int
    OBVIOUS
  <2> QED  BY <1>2, <2>1, Congruent
<1> QED  BY <1>1, <1>3

LEMMA Around ==
  ASSUME NEW n \in Nat \ {0}, NEW a \in Int
  PROVE  (a + n) % n = a % n
<1>1. PICK one \in Int : one = 1
  OBVIOUS
<1>2. (n * one + a) % n = a % n
  BY Congruent
<1>3. n * one + a = a + n
  BY <1>1
<1> QED  BY <1>2, <1>3

LEMMA AxisOfSum ==
  ASSUME NEW n \in Nat \ {0}, NEW x \in Int, NEW a \in Int
  PROVE  /\ ((x + a) % n) % n = ((x % n) + a) % n
         /\ (-((x + a) % n)) % n = (((-x) % n) - a) % n
<1>1. PICK y \in Int : y = x + a
  OBVIOUS
<1>2. (y % n) % n = y % n
  BY RemainderRange, RemainderIsItself
<1>3. PICK zero \in Int : zero = 0
  OBVIOUS
<1>4. (-(y % n)) % n = (-y) % n
  <2>1. (zero - (y % n)) % n = (zero - y) % n
    BY RemainderOfDifference
  <2>2. y % n \in Int
    BY RemainderRange
  <2> QED  BY <1>3, <2>1, <2>2
<1>5. ((x % n) + a) % n = (x + a) % n
  BY RemainderOfSum
<1>6. PICK u \in Int, v \in Int : u = -x /\ v = -a
  OBVIOUS
<1>7. ((u % n) + v) % n = (u + v) % n
  BY RemainderOfSum
<1>8. u % n \in Int
  BY RemainderRange
<1>9. -y = u + v /\ (u % n) - a = (u % n) + v
  BY <1>1, <1>6, <1>8
<1> QED  BY <1>1, <1>2, <1>4, <1>5, <1>6, <1>7, <1>9

LEMMA SameResidue ==
  ASSUME NEW n \in Nat \ {0}, NEW a \in 0 .. n - 1, NEW b \in 0 .. n - 1, (a - b) % n = 0
  PROVE  a = b
OBVIOUS

LEMMA NegativesDiffer ==
  ASSUME NEW n \in Nat \ {0}, NEW a \in 0 .. n - 1, NEW b \in 0 .. n - 1, (-a) % n = (-b) % n
  PROVE  a = b
OBVIOUS

-----------------------------------------------------------------------------
(***************************************************************************)
(* A step never leaves the map: World::moveTrantorian can index _map with  *)
(* the coordinates Trantorian::move computes.                              *)
(***************************************************************************)
THEOREM MoveStaysOnMap ==
  ASSUME NEW t \in Tile, NEW d \in Direction
  PROVE  Move(t, d) \in Tile
<1>1. /\ t[1] \in 0 .. Width - 1
      /\ t[2] \in 0 .. Height - 1
      /\ t = <<t[1], t[2]>>
  BY DEF Tile
<1>2. /\ Width \in Nat \ {0}
      /\ Height \in Nat \ {0}
  BY SizeAssumption
<1>3. /\ (t[1] + Width - 1) % Width \in 0 .. Width - 1
      /\ (t[1] + 1) % Width \in 0 .. Width - 1
      /\ (t[2] + Height - 1) % Height \in 0 .. Height - 1
      /\ (t[2] + 1) % Height \in 0 .. Height - 1
  <2>1. /\ t[1] + Width - 1 \in Int
        /\ t[1] + 1 \in Int
        /\ t[2] + Height - 1 \in Int
        /\ t[2] + 1 \in Int
    BY <1>1, <1>2
  <2> QED  BY <1>2, <2>1, RemainderRange
<1>4. CASE d = "UP"
  BY <1>1, <1>3, <1>4 DEF Move, Tile
<1>5. CASE d = "DOWN"
  BY <1>1, <1>3, <1>5 DEF Move, Tile
<1>6. CASE d = "LEFT"
  BY <1>1, <1>3, <1>6 DEF Move, Tile
<1>7. CASE d = "RIGHT"
  BY <1>1, <1>3, <1>7 DEF Move, Tile
<1> QED  BY <1>4, <1>5, <1>6, <1>7 DEF Direction

(* A step, as what it adds to the coordinates. *)
LEMMA MoveAdds ==
  ASSUME NEW t \in Tile, NEW d \in Direction
  PROVE  Move(t, d) = <<(t[1] + Forward(d)[1]) % Width, (t[2] + Forward(d)[2]) % Height>>
<1>1. t[1] \in 0 .. Width - 1 /\ t[2] \in 0 .. Height - 1
  BY DEF Tile
<1>2. t[1] % Width = t[1] /\ t[2] % Height = t[2]
  BY <1>1, SizeAssumption, RemainderIsItself
<1>3. /\ (t[1] + Width - 1) % Width = (t[1] - 1) % Width
      /\ (t[2] + Height - 1) % Height = (t[2] - 1) % Height
  <2>1. PICK x \in Int, y \in Int : x = t[1] - 1 /\ y = t[2] - 1
    BY <1>1
  <2>2. (x + Width) % Width = x % Width /\ (y + Height) % Height = y % Height
    BY SizeAssumption, Around
  <2>3. x + Width = t[1] + Width - 1 /\ y + Height = t[2] + Height - 1
    BY <1>1, <2>1, SizeAssumption
  <2> QED  BY <2>1, <2>2, <2>3
<1>4. CASE d = "UP"
  BY <1>1, <1>2, <1>3, <1>4 DEF Move, Forward
<1>5. CASE d = "DOWN"
  BY <1>1, <1>2, <1>5 DEF Move, Forward
<1>6. CASE d = "LEFT"
  BY <1>1, <1>2, <1>3, <1>6 DEF Move, Forward
<1>7. CASE d = "RIGHT"
  BY <1>1, <1>2, <1>7 DEF Move, Forward
<1> QED  BY <1>4, <1>5, <1>6, <1>7 DEF Direction

(* What look() computes is the remainder it would be without C++'s sign. *)
LEMMA LookAdds ==
  ASSUME NEW t \in Tile, NEW d \in Direction, NEW lvl \in Nat,
         lvl <= Width, lvl <= Height, NEW c \in View(lvl)
  PROVE  LookTile(t, d, c[1], c[2]) =
           <<(t[1] + Forward(d)[1] * c[1] + Side(d)[1] * c[2]) % Width,
             (t[2] + Forward(d)[2] * c[1] + Side(d)[2] * c[2]) % Height>>
<1>1. /\ t[1] \in 0 .. Width - 1 /\ t[2] \in 0 .. Height - 1
      /\ c[1] \in 0 .. lvl /\ c[2] \in -lvl .. lvl
      /\ Width \in Nat \ {0} /\ Height \in Nat \ {0}
  BY SizeAssumption DEF Tile, View
<1> DEFINE x == t[1] + Forward(d)[1] * c[1] + Side(d)[1] * c[2]
           y == t[2] + Forward(d)[2] * c[1] + Side(d)[2] * c[2]
<1>2. x \in Int /\ x + Width >= 0 /\ y \in Int /\ y + Height >= 0
  <2>1. CASE d = "UP"
    BY <1>1, <2>1 DEF Forward, Side
  <2>2. CASE d = "DOWN"
    BY <1>1, <2>2 DEF Forward, Side
  <2>3. CASE d = "LEFT"
    BY <1>1, <2>3 DEF Forward, Side
  <2>4. CASE d = "RIGHT"
    BY <1>1, <2>4 DEF Forward, Side
  <2> QED  BY <2>1, <2>2, <2>3, <2>4 DEF Direction
<1>3. LookTile(t, d, c[1], c[2]) = <<(x + Width) % Width, (y + Height) % Height>>
  BY <1>2 DEF LookTile, CRemainder
<1> HIDE DEF x, y
<1>4. (x + Width) % Width = x % Width /\ (y + Height) % Height = y % Height
  BY <1>1, <1>2, Around
<1> QED  BY <1>3, <1>4 DEF x, y

(***************************************************************************)
(* look() indexes tiles of the map only, if the player's level is not      *)
(* larger than either side of the map.                                     *)
(***************************************************************************)
THEOREM LookStaysOnLargeMap ==
  ASSUME NEW t \in Tile, NEW d \in Direction, NEW lvl \in Nat,
         lvl <= Width, lvl <= Height, NEW c \in View(lvl)
  PROVE  LookTile(t, d, c[1], c[2]) \in Tile
<1>1. PICK x \in Int, y \in Int :
        /\ x = t[1] + Forward(d)[1] * c[1] + Side(d)[1] * c[2]
        /\ y = t[2] + Forward(d)[2] * c[1] + Side(d)[2] * c[2]
  <2>1. t[1] \in Int /\ t[2] \in Int /\ c[1] \in Int /\ c[2] \in Int
    BY DEF Tile, View
  <2> QED  BY <2>1 DEF Forward, Side, Direction
<1>2. LookTile(t, d, c[1], c[2]) = <<x % Width, y % Height>>
  BY <1>1, LookAdds
<1>3. x % Width \in 0 .. Width - 1 /\ y % Height \in 0 .. Height - 1
  BY SizeAssumption, RemainderRange
<1> QED  BY <1>2, <1>3 DEF Tile
=============================================================================
