--------------------------- MODULE WalkersProofs ---------------------------
(***************************************************************************)
(* What a player hears and sees agrees with what walking shows, on maps of *)
(* every size.                                                             *)
(***************************************************************************)
EXTENDS Walkers, TorusProofs

WalkersTypeOK ==
  /\ at \in Tile /\ facing \in Direction /\ emitter \in Tile /\ lvl \in Nat

LEMMA TurnsStay ==
  ASSUME NEW d \in Direction
  PROVE  TurnLeft(d) \in Direction /\ TurnRight(d) \in Direction
BY DEF Direction, TurnLeft, TurnRight

LEMMA WalkersTypes == Spec => []WalkersTypeOK
<1>1. Init => WalkersTypeOK
  BY SizeAssumption, WalkersAssumption DEF Init, WalkersTypeOK, Tile, Direction
<1>2. WalkersTypeOK /\ [Next]_vars => WalkersTypeOK'
  <2> SUFFICES ASSUME WalkersTypeOK, [Next]_vars PROVE WalkersTypeOK'
    OBVIOUS
  <2>1. CASE Walk
    BY <2>1, MoveStaysOnMap DEF Walk, WalkersTypeOK
  <2>2. CASE Turn
    BY <2>2, TurnsStay DEF Turn, WalkersTypeOK
  <2>3. CASE EmitterWalks
    BY <2>3, MoveStaysOnMap DEF EmitterWalks, WalkersTypeOK
  <2>4. CASE UNCHANGED vars
    BY <2>4 DEF vars, WalkersTypeOK
  <2> QED  BY <2>1, <2>2, <2>3, <2>4 DEF Next
<1> QED  BY <1>1, <1>2, PTL DEF Spec

-----------------------------------------------------------------------------
(***************************************************************************)
(* One axis of the map: the shorter way round, and a step along it.        *)
(***************************************************************************)
LEMMA WrappedIsRing ==
  ASSUME NEW n \in Nat \ {0}, NEW a \in 0 .. n - 1, NEW e \in 0 .. n - 1,
         NEW d, d = Wrapped(e - a, n)
  PROVE  /\ d \in Int
         /\ d = 0 <=> a = e
         /\ d >= 0 => Ring(a, e, n) = d
         /\ d <= 0 => Ring(a, e, n) = -d
         /\ d > 0 => Ring((a + 1) % n, e, n) = d - 1
         /\ d < 0 => Ring((a + n - 1) % n, e, n) = -d - 1
<1>1. \A x \in Int : /\ 0 <= x /\ x < n => x % n = x
                     /\ -n <= x /\ x < 0 => x % n = x + n
                     /\ n <= x /\ x < 2 * n => x % n = x - n
  OBVIOUS
<1>2. PICK half \in Nat : half = n \div 2 /\ (n = 2 * half \/ n = 2 * half + 1)
  OBVIOUS
<1>3. PICK x \in Int : x = a - e
  OBVIOUS
<1>4. (a - e) % n = IF a >= e THEN a - e ELSE a - e + n
  BY <1>1, <1>3
<1>5. /\ (a + 1) % n = IF a + 1 = n THEN 0 ELSE a + 1
      /\ (a + n - 1) % n = IF a = 0 THEN n - 1 ELSE a - 1
  <2>1. PICK y \in Int, z \in Int : y = a + 1 /\ z = a + n - 1
    OBVIOUS
  <2> QED  BY <1>1, <2>1
<1>6. \A b \in 0 .. n - 1 : (b - e) % n = IF b >= e THEN b - e ELSE b - e + n
  <2> SUFFICES ASSUME NEW b \in 0 .. n - 1
               PROVE  (b - e) % n = IF b >= e THEN b - e ELSE b - e + n
    OBVIOUS
  <2>1. PICK y \in Int : y = b - e
    OBVIOUS
  <2> QED  BY <1>1, <2>1
<1>7. \A b \in 0 .. n - 1 :
        Ring(b, e, n) = LET r == IF b >= e THEN b - e ELSE b - e + n
                        IN  IF r <= n - r THEN r ELSE n - r
  BY <1>6 DEF Ring
<1>8. d = CASE e - a > half -> e - a - n [] e - a < -half -> e - a + n [] OTHER -> e - a
  BY <1>2 DEF Wrapped
<1>9. d \in Int /\ (d = 0 <=> a = e)
  BY <1>2, <1>8
<1>10. (d >= 0 => Ring(a, e, n) = d) /\ (d <= 0 => Ring(a, e, n) = -d)
  BY <1>2, <1>7, <1>8
<1>11. ASSUME d > 0 PROVE Ring((a + 1) % n, e, n) = d - 1
  <2>1. PICK b \in 0 .. n - 1 : b = (a + 1) % n /\ b = IF a + 1 = n THEN 0 ELSE a + 1
    BY <1>5
  <2>2. Ring(b, e, n) = LET r == IF b >= e THEN b - e ELSE b - e + n
                        IN  IF r <= n - r THEN r ELSE n - r
    BY <1>7
  <2>3. CASE a < e
    <3>1. b = a + 1
      BY <2>1, <2>3
    <3>2. d = e - a /\ e - a <= half
      BY <1>2, <1>8, <1>11, <2>3
    <3>3. Ring(b, e, n) = d - 1
      BY <1>2, <2>2, <2>3, <3>1, <3>2
    <3> QED  BY <2>1, <3>3
  <2>4. CASE a >= e
    <3>1. d = e - a + n /\ e - a < -half
      BY <1>2, <1>8, <1>11, <2>4
    <3>2. Ring(b, e, n) = d - 1
      BY <1>2, <2>1, <2>2, <2>4, <3>1
    <3> QED  BY <2>1, <3>2
  <2> QED  BY <2>1, <2>3, <2>4
<1>12. d < 0 => Ring((a + n - 1) % n, e, n) = -d - 1
  <2>1. PICK b \in 0 .. n - 1 : b = (a + n - 1) % n /\ b = IF a = 0 THEN n - 1 ELSE a - 1
    BY <1>5
  <2>2. Ring(b, e, n) = LET r == IF b >= e THEN b - e ELSE b - e + n
                        IN  IF r <= n - r THEN r ELSE n - r
    BY <1>7
  <2> QED  BY <1>2, <1>8, <2>1, <2>2
<1> QED  BY <1>9, <1>10, <1>11, <1>12

(* What a listener on t that faces d hears, in terms of the two axes. *)
LEMMA HeardByAxes ==
  ASSUME WalkersTypeOK, NEW d \in Direction
  PROVE  \E dx \in Int, dy \in Int :
           /\ dx = Wrapped(emitter[1] - at[1], Width)
           /\ dy = Wrapped(emitter[2] - at[2], Height)
           /\ Heard(at, d) = AffectedTile(dx * Forward(d)[1] + dy * Forward(d)[2],
                                          dx * Side(d)[1] + dy * Side(d)[2])
<1>1. /\ Wrapped(emitter[1] - at[1], Width) \in Int
      /\ Wrapped(emitter[2] - at[2], Height) \in Int
  <2>1. /\ at[1] \in 0 .. Width - 1 /\ emitter[1] \in 0 .. Width - 1
        /\ at[2] \in 0 .. Height - 1 /\ emitter[2] \in 0 .. Height - 1
    BY DEF WalkersTypeOK, Tile
  <2>2. ASSUME NEW n \in Nat \ {0}, NEW a \in 0 .. n - 1, NEW e \in 0 .. n - 1
        PROVE  Wrapped(e - a, n) \in Int
    <3>1. PICK w : w = Wrapped(e - a, n)
      OBVIOUS
    <3> QED  BY <3>1, WrappedIsRing
  <2> QED  BY <2>1, <2>2, SizeAssumption
<1> QED  BY <1>1 DEF Heard, SoundTile

LEMMA SoundLeads == WalkersTypeOK => SoundLeadsHome
<1> SUFFICES ASSUME WalkersTypeOK PROVE SoundLeadsHome
  OBVIOUS
<1>1. PICK dx \in Int, dy \in Int :
        /\ dx = Wrapped(emitter[1] - at[1], Width)
        /\ dy = Wrapped(emitter[2] - at[2], Height)
        /\ Heard(at, facing) = AffectedTile(dx * Forward(facing)[1] + dy * Forward(facing)[2],
                                            dx * Side(facing)[1] + dy * Side(facing)[2])
  BY HeardByAxes DEF WalkersTypeOK
<1>2. /\ at[1] \in 0 .. Width - 1 /\ emitter[1] \in 0 .. Width - 1
      /\ at[2] \in 0 .. Height - 1 /\ emitter[2] \in 0 .. Height - 1
      /\ at = <<at[1], at[2]>> /\ emitter = <<emitter[1], emitter[2]>>
  BY DEF WalkersTypeOK, Tile
<1>3. /\ dx = 0 <=> at[1] = emitter[1]
      /\ dx >= 0 => Ring(at[1], emitter[1], Width) = dx
      /\ dx <= 0 => Ring(at[1], emitter[1], Width) = -dx
      /\ dx > 0 => Ring((at[1] + 1) % Width, emitter[1], Width) = dx - 1
      /\ dx < 0 => Ring((at[1] + Width - 1) % Width, emitter[1], Width) = -dx - 1
  BY <1>1, <1>2, SizeAssumption, WrappedIsRing
<1>4. /\ dy = 0 <=> at[2] = emitter[2]
      /\ dy >= 0 => Ring(at[2], emitter[2], Height) = dy
      /\ dy <= 0 => Ring(at[2], emitter[2], Height) = -dy
      /\ dy > 0 => Ring((at[2] + 1) % Height, emitter[2], Height) = dy - 1
      /\ dy < 0 => Ring((at[2] + Height - 1) % Height, emitter[2], Height) = -dy - 1
  BY <1>1, <1>2, SizeAssumption, WrappedIsRing
<1> DEFINE ahead == dx * Forward(facing)[1] + dy * Forward(facing)[2]
           right == dx * Side(facing)[1] + dy * Side(facing)[2]
<1>5. /\ ahead = CASE facing = "UP" -> -dy [] facing = "DOWN" -> dy
                   [] facing = "LEFT" -> -dx [] facing = "RIGHT" -> dx
      /\ right = CASE facing = "UP" -> dx [] facing = "DOWN" -> -dx
                   [] facing = "LEFT" -> -dy [] facing = "RIGHT" -> dy
  BY DEF Forward, Side, WalkersTypeOK, Direction
<1>6. ahead \in Int /\ right \in Int
  BY <1>5 DEF WalkersTypeOK, Direction
<1>7. Heard(at, facing) = AffectedTile(ahead, right)
  BY <1>1
<1> HIDE DEF ahead, right
<1>8. /\ AffectedTile(ahead, right) \in {8, 1, 2} => ahead > 0
      /\ AffectedTile(ahead, right) = 0 <=> ahead = 0 /\ right = 0
  <2>1. \A i, j \in Int : AffectedTile(i, j) \in {8, 1, 2} => i > 0
    BY DEF AffectedTile
  <2>2. \A i, j \in Int : AffectedTile(i, j) = 0 <=> i = 0 /\ j = 0
    BY DEF AffectedTile
  <2> QED  BY <1>6, <2>1, <2>2
<1>9. Heard(at, facing) = 0 <=> at = emitter
  BY <1>2, <1>3, <1>4, <1>5, <1>7, <1>8 DEF WalkersTypeOK, Direction
<1>10. ASSUME ahead > 0
       PROVE  Distance(Move(at, facing), emitter) = Distance(at, emitter) - 1
  <2>1. CASE facing = "UP"
    BY <1>2, <1>3, <1>4, <1>5, <1>10, <2>1 DEF Move, Distance
  <2>2. CASE facing = "DOWN"
    BY <1>2, <1>3, <1>4, <1>5, <1>10, <2>2 DEF Move, Distance
  <2>3. CASE facing = "LEFT"
    BY <1>2, <1>3, <1>4, <1>5, <1>10, <2>3 DEF Move, Distance
  <2>4. CASE facing = "RIGHT"
    BY <1>2, <1>3, <1>4, <1>5, <1>10, <2>4 DEF Move, Distance
  <2> QED  BY <2>1, <2>2, <2>3, <2>4 DEF WalkersTypeOK, Direction
<1> QED  BY <1>7, <1>8, <1>9, <1>10 DEF SoundLeadsHome

LEMMA SoundTurns == WalkersTypeOK => SoundTurnsWithListener
<1> SUFFICES ASSUME WalkersTypeOK, Heard(at, facing) # 0
             PROVE  LET k == Heard(at, facing) - 1 IN
                    /\ Heard(at, TurnRight(facing)) - 1 = (k - 2) % 8
                    /\ Heard(at, TurnLeft(facing)) - 1 = (k + 2) % 8
  BY DEF SoundTurnsWithListener
<1> DEFINE dx == Wrapped(emitter[1] - at[1], Width)
           dy == Wrapped(emitter[2] - at[2], Height)
           ahead == dx * Forward(facing)[1] + dy * Forward(facing)[2]
           right == dx * Side(facing)[1] + dy * Side(facing)[2]
<1>1. facing \in Direction /\ dx \in Int /\ dy \in Int
  BY HeardByAxes DEF WalkersTypeOK
<1>2. \A d : Heard(at, d) = AffectedTile(dx * Forward(d)[1] + dy * Forward(d)[2],
                                         dx * Side(d)[1] + dy * Side(d)[2])
  BY DEF Heard, SoundTile
<1> HIDE DEF dx, dy
<1>3. /\ ahead \in Int /\ right \in Int
      /\ Heard(at, facing) = AffectedTile(ahead, right)
      /\ Heard(at, TurnRight(facing)) = AffectedTile(right, -ahead)
      /\ Heard(at, TurnLeft(facing)) = AffectedTile(-right, ahead)
  BY <1>1, <1>2 DEF Direction, TurnRight, TurnLeft, Forward, Side
<1> HIDE DEF ahead, right
<1>4. \A i, j \in Int : AffectedTile(i, j) # 0 =>
        /\ AffectedTile(j, -i) - 1 = (AffectedTile(i, j) - 3) % 8
        /\ AffectedTile(-j, i) - 1 = (AffectedTile(i, j) + 1) % 8
        /\ AffectedTile(i, j) \in 1 .. 8
  BY DEF AffectedTile
<1> QED  BY <1>3, <1>4

-----------------------------------------------------------------------------
(***************************************************************************)
(* Where so many steps lead.  A walk is a function that is defined by      *)
(* recursion: there is one, for the closed form is one, and there is only  *)
(* one, for two could not begin to differ.                                 *)
(***************************************************************************)
Reached(t, d, k) ==
  <<(t[1] + k * Forward(d)[1]) % Width, (t[2] + k * Forward(d)[2]) % Height>>

LEMMA NextReached ==
  ASSUME NEW t \in Tile, NEW d \in Direction, NEW k \in Nat
  PROVE  /\ Reached(t, d, k) \in Tile
         /\ Reached(t, d, 0) = t
         /\ Reached(t, d, k + 1) = Move(Reached(t, d, k), d)
<1>1. t[1] \in 0 .. Width - 1 /\ t[2] \in 0 .. Height - 1 /\ t = <<t[1], t[2]>>
  BY DEF Tile
<1>2. Forward(d)[1] \in Int /\ Forward(d)[2] \in Int
  BY DEF Forward, Direction
<1>3. PICK x \in Int, y \in Int, fx \in Int, fy \in Int :
        /\ x = t[1] + k * Forward(d)[1] /\ y = t[2] + k * Forward(d)[2]
        /\ fx = Forward(d)[1] /\ fy = Forward(d)[2]
  BY <1>1, <1>2
<1>4. Reached(t, d, k) = <<x % Width, y % Height>>
  BY <1>3 DEF Reached
<1>5. x % Width \in 0 .. Width - 1 /\ y % Height \in 0 .. Height - 1
  BY SizeAssumption, RemainderRange
<1>6. Reached(t, d, k) \in Tile
  BY <1>4, <1>5 DEF Tile
<1>7. Reached(t, d, 0) = t
  <2>1. Reached(t, d, 0) = <<t[1] % Width, t[2] % Height>>
    BY <1>1, <1>2 DEF Reached
  <2> QED  BY <1>1, <2>1, SizeAssumption, RemainderIsItself
<1>8. Reached(t, d, k + 1) = <<(x + fx) % Width, (y + fy) % Height>>
  <2>1. /\ t[1] + (k + 1) * Forward(d)[1] = x + fx
        /\ t[2] + (k + 1) * Forward(d)[2] = y + fy
    <3>1. (k + 1) * fx = k * fx + fx /\ (k + 1) * fy = k * fy + fy
      OBVIOUS
    <3>2. k * fx \in Int /\ k * fy \in Int
      OBVIOUS
    <3>3. x = t[1] + k * fx /\ y = t[2] + k * fy
      BY <1>3
    <3> QED  BY <1>1, <1>3, <3>1, <3>2, <3>3
  <2> QED  BY <2>1 DEF Reached
<1>9. Move(Reached(t, d, k), d) = <<((x % Width) + fx) % Width, ((y % Height) + fy) % Height>>
  BY <1>3, <1>4, <1>6, MoveAdds
<1>10. /\ ((x % Width) + fx) % Width = (x + fx) % Width
       /\ ((y % Height) + fy) % Height = (y + fy) % Height
  BY SizeAssumption, RemainderOfSum
<1> QED  BY <1>6, <1>7, <1>8, <1>9, <1>10

LEMMA StepsReach ==
  ASSUME NEW t \in Tile, NEW d \in Direction, NEW n \in Nat
  PROVE  Steps(t, d, n) = Reached(t, d, n)
<1> DEFINE walk == CHOOSE f : f = [k \in 0 .. n |-> IF k = 0 THEN t ELSE Move(f[k - 1], d)]
           way == [k \in 0 .. n |-> Reached(t, d, k)]
<1>1. way = [k \in 0 .. n |-> IF k = 0 THEN t ELSE Move(way[k - 1], d)]
  <2> SUFFICES ASSUME NEW k \in 0 .. n
               PROVE  way[k] = IF k = 0 THEN t ELSE Move(way[k - 1], d)
    OBVIOUS
  <2>1. CASE k = 0
    BY <2>1, NextReached
  <2>2. CASE k # 0
    <3>1. PICK j \in Nat : k = j + 1 /\ j = k - 1 /\ j \in 0 .. n
      BY <2>2
    <3>2. Reached(t, d, j + 1) = Move(Reached(t, d, j), d)
      BY NextReached
    <3> QED  BY <2>2, <3>1, <3>2
  <2> QED  BY <2>1, <2>2
<1>2. walk = [k \in 0 .. n |-> IF k = 0 THEN t ELSE Move(walk[k - 1], d)]
  <2> HIDE DEF way
  <2> QED  BY <1>1, Zenon
<1> HIDE DEF walk
<1> DEFINE wrong == {k \in 0 .. n : walk[k] # way[k]}
<1>3. ASSUME NEW k \in 0 .. n, walk[k] # way[k] PROVE FALSE
  <2>0. wrong # {}
    BY <1>3
  <2>1. PICK m \in wrong : \A j \in wrong : m <= j
    <3>1. wrong \subseteq Nat
      OBVIOUS
    <3> HIDE DEF wrong
    <3> QED  BY <2>0, <3>1, SmallestOf
  <2>2. m \in 0 .. n /\ walk[m] # way[m]
    OBVIOUS
  <2>3. m # 0
    <3>1. walk[0] = t
      BY <1>2
    <3>2. way[0] = t
      BY NextReached
    <3> QED  BY <2>2, <3>1, <3>2
  <2>4. m - 1 \in 0 .. n /\ walk[m - 1] = way[m - 1]
    BY <2>1, <2>2, <2>3
  <2> QED  BY <1>1, <1>2, <2>2, <2>3, <2>4
<1>4. walk[n] = way[n]
  <2>1. n \in 0 .. n
    OBVIOUS
  <2> QED  BY <1>3, <2>1
<1> QED  BY <1>4 DEF Steps, walk

LEMMA LookSees == WalkersTypeOK => LookSeesWhereOneWalks
<1> SUFFICES ASSUME WalkersTypeOK, lvl <= Width, lvl <= Height, NEW c \in View(lvl)
             PROVE  LookTile(at, facing, c[1], c[2]) =
                      LET ahead == Steps(at, facing, c[1])
                      IN  IF c[2] >= 0 THEN Steps(ahead, TurnRight(facing), c[2])
                                       ELSE Steps(ahead, TurnLeft(facing), -c[2])
  BY DEF LookSeesWhereOneWalks
<1>1. at \in Tile /\ facing \in Direction /\ lvl \in Nat
  BY DEF WalkersTypeOK
<1>2. PICK i \in Nat, j \in Int : c[1] = i /\ c[2] = j
  BY <1>1 DEF View
<1>3. PICK x \in Int, y \in Int, f1 \in Int, f2 \in Int, s1 \in Int, s2 \in Int :
        /\ x = at[1] + i * f1 /\ y = at[2] + i * f2
        /\ f1 = Forward(facing)[1] /\ f2 = Forward(facing)[2]
        /\ s1 = Side(facing)[1] /\ s2 = Side(facing)[2]
  <2>1. at[1] \in Int /\ at[2] \in Int
    BY <1>1 DEF Tile
  <2>2. /\ Forward(facing)[1] \in Int /\ Forward(facing)[2] \in Int
        /\ Side(facing)[1] \in Int /\ Side(facing)[2] \in Int
    BY <1>1 DEF Forward, Side, Direction
  <2>3. PICK f1 \in Int, f2 \in Int, s1 \in Int, s2 \in Int :
          /\ f1 = Forward(facing)[1] /\ f2 = Forward(facing)[2]
          /\ s1 = Side(facing)[1] /\ s2 = Side(facing)[2]
    BY <2>2
  <2>4. at[1] + i * f1 \in Int /\ at[2] + i * f2 \in Int
    BY <2>1
  <2> QED  BY <2>3, <2>4
<1>4. LookTile(at, facing, c[1], c[2]) = <<(x + j * s1) % Width, (y + j * s2) % Height>>
  <2>1. /\ at[1] \in Int /\ at[2] \in Int
    BY <1>1 DEF Tile
  <2>2. /\ at[1] + f1 * i + s1 * j = x + j * s1
        /\ at[2] + f2 * i + s2 * j = y + j * s2
    BY <1>3, <2>1
  <2> QED  BY <1>1, <1>2, <1>3, <2>2, LookAdds
<1> DEFINE ahead == Steps(at, facing, i)
<1>5. ahead = <<x % Width, y % Height>> /\ ahead \in Tile
  <2>1. ahead = Reached(at, facing, i) /\ Reached(at, facing, i) \in Tile
    BY <1>1, StepsReach, NextReached
  <2>2. Reached(at, facing, i) = <<x % Width, y % Height>>
    BY <1>3 DEF Reached
  <2> QED  BY <2>1, <2>2
<1> HIDE DEF ahead
<1>6. CASE j >= 0
  <2>1. TurnRight(facing) \in Direction
        /\ Forward(TurnRight(facing))[1] = s1 /\ Forward(TurnRight(facing))[2] = s2
    BY <1>1, <1>3 DEF TurnRight, Forward, Side, Direction
  <2>2. Steps(ahead, TurnRight(facing), j) =
          <<((x % Width) + j * s1) % Width, ((y % Height) + j * s2) % Height>>
    <3>1. Steps(ahead, TurnRight(facing), j) = Reached(ahead, TurnRight(facing), j)
      BY <1>5, <1>6, <2>1, StepsReach
    <3> QED  BY <1>5, <2>1, <3>1 DEF Reached
  <2>3. PICK u \in Int, v \in Int : u = j * s1 /\ v = j * s2
    OBVIOUS
  <2>4. /\ ((x % Width) + u) % Width = (x + u) % Width
        /\ ((y % Height) + v) % Height = (y + v) % Height
    BY SizeAssumption, RemainderOfSum
  <2> QED  BY <1>2, <1>4, <1>6, <2>2, <2>3, <2>4 DEF ahead
<1>7. CASE j < 0
  <2>1. TurnLeft(facing) \in Direction
        /\ Forward(TurnLeft(facing))[1] = -s1 /\ Forward(TurnLeft(facing))[2] = -s2
    BY <1>1, <1>3 DEF TurnLeft, Forward, Side, Direction
  <2>2. PICK m \in Nat : m = -j
    BY <1>7
  <2>3. PICK u \in Int, v \in Int : u = j * s1 /\ v = j * s2 /\ u = m * (-s1) /\ v = m * (-s2)
    BY <2>2
  <2>4. Steps(ahead, TurnLeft(facing), m) =
          <<((x % Width) + u) % Width, ((y % Height) + v) % Height>>
    <3>1. Steps(ahead, TurnLeft(facing), m) = Reached(ahead, TurnLeft(facing), m)
      BY <1>5, <2>1, StepsReach
    <3> QED  BY <1>5, <2>1, <2>3, <3>1 DEF Reached
  <2>5. /\ ((x % Width) + u) % Width = (x + u) % Width
        /\ ((y % Height) + v) % Height = (y + v) % Height
    BY SizeAssumption, RemainderOfSum
  <2> QED  BY <1>2, <1>4, <1>7, <2>2, <2>3, <2>4, <2>5 DEF ahead
<1> QED  BY <1>6, <1>7

-----------------------------------------------------------------------------
(***************************************************************************)
(* On maps of every size a sound leads to who made it: with every step     *)
(* towards one of the three tiles in front the way is one tile shorter,    *)
(* and only the emitter's own tile is number 0 (calculAfectedTile).        *)
(***************************************************************************)
THEOREM SoundAlwaysLeadsHome == Spec => []SoundLeadsHome
BY WalkersTypes, SoundLeads, PTL

(***************************************************************************)
(* On maps of every size the tile a sound comes through turns against the  *)
(* listener by two for every turn (getAffectedTile, turnLeft, turnRight).  *)
(***************************************************************************)
THEOREM SoundAlwaysTurns == Spec => []SoundTurnsWithListener
BY WalkersTypes, SoundTurns, PTL

(***************************************************************************)
(* On every map as large as the view, look() shows in every row and column *)
(* the tile that so many steps ahead and aside lead to (look).             *)
(***************************************************************************)
THEOREM LookAlwaysSees == Spec => []LookSeesWhereOneWalks
BY WalkersTypes, LookSees, PTL
=============================================================================
